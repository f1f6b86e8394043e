---------------------------- MODULE MC_BinderIPC ----------------------------
(* Model-checking instance of BinderIPC: one IMediaPlayer and one ISurface *)
(* object, one heap, and the clients given in each configuration.          *)
EXTENDS BinderIPC, TLC

CONSTANTS c1, c2, mp1, s1, h1

MC_Clients1 == {c1}
MC_Clients2 == {c1, c2}
MC_MediaPlayers == {mp1}
MC_Surfaces == {s1}
MC_Heaps == {h1}
MC_ImplStatus == {NO_ERROR, UNKNOWN_ERROR}
MC_LeftToRight == {"ltr"}
MC_AnyOrder == {"ltr", "rtl"}
=============================================================================
