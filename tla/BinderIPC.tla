----------------------------- MODULE BinderIPC -----------------------------
(***************************************************************************)
(* Clients calling IMediaPlayer and ISurface objects of a server process   *)
(* through the proxies BpMediaPlayer and BpSurface, the transport carrying *)
(* each transaction to a worker thread of the server, and the dispatchers  *)
(* BnMediaPlayer::onTransact and BnSurface::onTransact running there.      *)
(*                                                                         *)
(* A client holds a handle to an object and a proxy of some interface for *)
(* it, which need not be the object's own interface (a handle of one       *)
(* capability used as another, spec 4.2).  The transport (not part of the  *)
(* repository, modelled from spec sections 4.3, 5 and 7) dispatches the    *)
(* in-flight transactions in any order, each on its own worker, delivers a *)
(* reply only for a twoway call and only its status when onTransact       *)
(* failed, and fails every outstanding call if the server process dies.    *)
(***************************************************************************)
EXTENDS IMediaPlayer, ISurface, FiniteSets

CONSTANTS
  Clients,       \* client threads, each making one call at a time
  MediaPlayers,  \* IMediaPlayer objects (BnMediaPlayer) of the server
  Surfaces,      \* ISurface objects (BnSurface) of the server
  Heaps,         \* IMemoryHeap objects, only ever passed as references
  MaxCalls,      \* calls each client makes
  ArgOrders,     \* argument evaluation orders the build may use
  ImplStatus,    \* statuses an implementation method may return
  MetadataReservesSlot \* getMetadata writes a placeholder before its data

ASSUME MaxCalls \in Nat \ {0}
ASSUME ArgOrders \subseteq {"ltr", "rtl"} /\ ArgOrders # {}
ASSUME NO_ERROR \in ImplStatus
ASSUME MetadataReservesSlot \in BOOLEAN

Objects == MediaPlayers \cup Surfaces
Interfaces == {"IMediaPlayer", "ISurface"}
IfaceOf(o) == IF o \in MediaPlayers THEN "IMediaPlayer" ELSE "ISurface"
MethodsOf(i) == IF i = "IMediaPlayer" THEN MediaPlayerMethods ELSE SurfaceMethods
ArgKinds(i, m) == IF i = "IMediaPlayer" THEN BpMediaPlayerArgs[m] ELSE BpSurfaceArgs[m]
CodeOf(i, m) == IF i = "IMediaPlayer" THEN MediaPlayerCode(m) ELSE SurfaceCode(m)
IsOneway(i, m) == i = "ISurface" /\ m \in BpSurfaceOneway

\* Object references a caller may pass as an argument.
RefArgs == Objects \cup Heaps \cup {NULL}

\* The arguments of a call: position tokens, one object reference, or for a
\* caller-built Parcel its payload.
ArgToken == <<"a1", "a2", "a3", "a4", "a5", "a6", "a7", "a8">>
CallArgs(kinds, ref) ==
  [j \in 1..Len(kinds) |-> CASE kinds[j] = "b" -> ref
                             [] kinds[j] = "p" -> "payload"
                             [] OTHER          -> ArgToken[j]]

\* What an implementation method may produce.  Its out-parameters, string
\* and Parcel data are fixed distinct tokens; status and object vary.
METADATA == <<"metadata">>
ImplOutcomes ==
  [ret: ImplStatus, obj: {"result_obj", NULL}, str: {"track_name"},
   out1: {"o1"}, out2: {"o2"}, out3: {"o3"}, out4: {"o4"}, out5: {"o5"},
   payload: {METADATA},
   written: {IF MetadataReservesSlot THEN <<"placeholder">> \o METADATA
                                     ELSE METADATA}]

\* Outcomes of the implementation method behind code on object o: only
\* IMediaPlayer::getTrackName returns a string that may be NULL.
ImplResults(o, code) ==
  IF o \in MediaPlayers /\ code = MediaPlayerCode("GET_TRACK_NAME")
    THEN ImplOutcomes \cup {[r EXCEPT !.str = NULL] : r \in ImplOutcomes}
    ELSE ImplOutcomes

NoCall  == [n |-> 0]
NoReply == [n |-> 0]

VARIABLES
  pc,        \* client -> "idle" | "waiting" (blocked in a twoway transact)
  ncalls,    \* client -> number of calls made
  call,      \* client -> the call in progress, or NoCall
  txs,       \* transactions in flight to the server
  reply,     \* client -> the reply delivered to it, or NoReply
  alive,     \* the server process is alive
  invoked,   \* history: every implementation method the server ran
  returned   \* history: every call that returned to its caller

vars == <<pc, ncalls, call, txs, reply, alive, invoked, returned>>

Init ==
  /\ pc = [c \in Clients |-> "idle"]
  /\ ncalls = [c \in Clients |-> 0]
  /\ call = [c \in Clients |-> NoCall]
  /\ txs = {}
  /\ reply = [c \in Clients |-> NoReply]
  /\ alive = TRUE
  /\ invoked = {}
  /\ returned = {}

(***************************************************************************)
(* A proxy method up to its transact: it writes the request and hands it   *)
(* to the transport.  A oneway call returns at once; a twoway call blocks. *)
(* With the server dead, transact fails at once with DEAD_OBJECT.          *)
(***************************************************************************)
ProxyCall(c, o, i, m, ref, withToken) ==
  LET n    == ncalls[c] + 1
      args == CallArgs(ArgKinds(i, m), ref)
      data == IF i = "IMediaPlayer"
                THEN BpMediaPlayerRequest(m, args, withToken)
                ELSE BpSurfaceRequest(m, args)
      ow   == IsOneway(i, m)
  IN  /\ pc[c] = "idle"
      /\ ncalls[c] < MaxCalls
      /\ ncalls' = [ncalls EXCEPT ![c] = n]
      /\ txs' = IF alive
                  THEN txs \cup {[client |-> c, n |-> n, obj |-> o,
                                  code |-> CodeOf(i, m), data |-> data,
                                  oneway |-> ow, iface |-> i, m |-> m,
                                  args |-> args]}
                  ELSE txs
      /\ pc' = [pc EXCEPT ![c] = IF ow THEN "idle" ELSE "waiting"]
      /\ call' = [call EXCEPT ![c] = IF ow THEN NoCall
                    ELSE [n |-> n, obj |-> o, iface |-> i, m |-> m]]
      /\ reply' = IF ~alive /\ ~ow
                    THEN [reply EXCEPT ![c] = [n |-> n, err |-> DEAD_OBJECT,
                            data |-> <<>>, ran |-> FALSE, impl |-> NoCall]]
                    ELSE reply
      /\ UNCHANGED <<alive, invoked, returned>>

\* The onTransact of the object's own class.
OnTransact(o, code, data, impl, order) ==
  IF IfaceOf(o) = "IMediaPlayer"
    THEN BnMediaPlayerOnTransact(code, data, impl, order)
    ELSE BnSurfaceOnTransact(code, data, impl)

\* The replies once the server is gone: every twoway call among ts fails.
DeadReplies(ts) ==
  [c \in Clients |->
     IF \E t \in ts : t.client = c /\ ~t.oneway
       THEN [n |-> call[c].n, err |-> DEAD_OBJECT, data |-> <<>>,
             ran |-> FALSE, impl |-> NoCall]
       ELSE reply[c]]

(***************************************************************************)
(* A worker of the server takes a transaction and runs onTransact.  A      *)
(* failure status travels back without the reply data (spec 7); a oneway  *)
(* transaction's reply is dropped (spec 4.3 step 5).  A NULL track name   *)
(* written to the reply kills the server process after the method ran.    *)
(***************************************************************************)
Dispatch(t) ==
  /\ alive
  /\ t \in txs
  /\ \E impl \in ImplResults(t.obj, t.code), order \in ArgOrders :
       LET r == OnTransact(t.obj, t.code, t.data, impl, order)
           crash == /\ IfaceOf(t.obj) = "IMediaPlayer"
                    /\ r.ran
                    /\ BnMediaPlayerWritesNull(t.code, impl)
       IN  /\ invoked' =
                IF r.ran
                  THEN invoked \cup {[client |-> t.client, n |-> t.n,
                                      obj |-> t.obj, m |-> r.m,
                                      args |-> r.args, iface |-> t.iface,
                                      called |-> t.m, sent |-> t.args]}
                  ELSE invoked
           /\ IF crash
                THEN /\ alive' = FALSE
                     /\ txs' = {}
                     /\ reply' = DeadReplies(txs)
                ELSE /\ alive' = alive
                     /\ txs' = txs \ {t}
                     /\ reply' =
                          IF t.oneway THEN reply
                          ELSE [reply EXCEPT ![t.client] =
                                  [n |-> t.n, err |-> r.err,
                                   data |-> IF r.err = NO_ERROR THEN r.reply
                                                               ELSE <<>>,
                                   ran |-> r.ran, impl |-> impl]]
  /\ UNCHANGED <<pc, ncalls, call, returned>>

(***************************************************************************)
(* The proxy method after transact returns: it decodes the reply and       *)
(* returns to its caller; its request and reply Parcels are released.      *)
(***************************************************************************)
\* What the proxy method of c's call returns to its caller.  borrows names
\* the reply Parcel (client, call) a result points into, if any.
Returned(c) ==
  LET k  == call[c]
      rp == reply[c]
  IN  [client |-> c, n |-> k.n, iface |-> k.iface, m |-> k.m,
       result |-> IF k.iface = "IMediaPlayer"
                    THEN BpMediaPlayerResult(k.m, rp.err, rp.data)
                    ELSE BpSurfaceResult(k.m, rp.err, rp.data),
       err |-> rp.err, ran |-> rp.ran, impl |-> rp.impl,
       borrows |-> IF k.iface = "IMediaPlayer" /\ BpMediaPlayerBorrowsReply(k.m, rp.data)
                     THEN {<<c, k.n>>} ELSE {}]

\* Mutant: the call in progress is not cleared when the proxy returns.
ProxyReturnKeepsCall(c) ==
  /\ pc[c] = "waiting"
  /\ reply[c] # NoReply
  /\ returned' = returned \cup {Returned(c)}
  /\ pc' = [pc EXCEPT ![c] = "idle"]
  /\ reply' = [reply EXCEPT ![c] = NoReply]
  /\ UNCHANGED <<ncalls, call, txs, alive, invoked>>

ProxyReturn(c) ==
  /\ pc[c] = "waiting"
  /\ reply[c] # NoReply
  /\ returned' = returned \cup {Returned(c)}
  /\ pc' = [pc EXCEPT ![c] = "idle"]
  /\ call' = [call EXCEPT ![c] = NoCall]
  /\ reply' = [reply EXCEPT ![c] = NoReply]
  /\ UNCHANGED <<ncalls, txs, alive, invoked>>

\* The server process dies: every call it has not answered fails.
ServerDeath ==
  /\ alive
  /\ alive' = FALSE
  /\ txs' = {}
  /\ reply' = DeadReplies(txs)
  /\ UNCHANGED <<pc, ncalls, call, invoked, returned>>

Next ==
  \/ \E c \in Clients, o \in Objects, i \in Interfaces :
       \E m \in MethodsOf(i), ref \in RefArgs, withToken \in BOOLEAN :
         ProxyCall(c, o, i, m, ref, withToken)
  \/ \E t \in txs : Dispatch(t)
  \/ \E c \in Clients : ProxyReturn(c)
  \/ ServerDeath

Spec == Init /\ [][Next]_vars

-----------------------------------------------------------------------------
(***************************************************************************)
(* Properties.                                                             *)
(***************************************************************************)
Requests == [client: Clients, n: 1..MaxCalls, obj: Objects,
             code: Nat, data: Seq(STRING \cup RefArgs), oneway: BOOLEAN,
             iface: Interfaces, m: MediaPlayerMethods \cup SurfaceMethods,
             args: Seq(STRING \cup RefArgs)]

TypeOK ==
  /\ pc \in [Clients -> {"idle", "waiting"}]
  /\ ncalls \in [Clients -> 0..MaxCalls]
  /\ \A c \in Clients : call[c] = NoCall \/ call[c].n \in 1..MaxCalls
  /\ txs \subseteq Requests
  /\ \A c \in Clients : reply[c] = NoReply \/ reply[c].n \in 1..MaxCalls
  /\ alive \in BOOLEAN
  /\ \A c \in Clients : (pc[c] = "waiting") = (call[c] # NoCall)

\* What a call returned to its caller as the method's status, if anything.
CallerStatus(r) ==
  IF "ret" \in DOMAIN r.result THEN r.result.ret
  ELSE IF "status" \in DOMAIN r.result THEN r.result.status ELSE "none"

(***************************************************************************)
(* Invocation fidelity (spec 4.2, 4.3): every implementation method the    *)
(* server runs is the method its caller invoked, on an object of the       *)
(* interface the caller's proxy speaks.  Proxy codes (the transaction      *)
(* enums), the dispatchers' switch on code and CHECK_INTERFACE in every    *)
(* case must agree for this: ISurface and IMediaPlayer codes overlap, so a *)
(* handle used through the wrong proxy reaches some case of the other      *)
(* dispatcher.                                                             *)
(***************************************************************************)
InvocationFidelity ==
  \A r \in invoked : r.iface = IfaceOf(r.obj) /\ r.m = r.called

(***************************************************************************)
(* Argument round trip (spec 8): the arguments a dispatcher case decodes   *)
(* and passes to the implementation are the ones its proxy wrote, in the   *)
(* same order.                                                             *)
(***************************************************************************)
ArgsRoundTrip == \A r \in invoked : r.args = r.sent

(***************************************************************************)
(* Reply round trip (spec 4.3 step 4, 4.4): when onTransact succeeded, the *)
(* values a proxy method returns (status, out-parameters, object, string,  *)
(* the reply data its caller goes on to read) are the ones the             *)
(* implementation produced.                                                *)
(***************************************************************************)
ReplyRoundTrip ==
  \A r \in returned :
    r.err = NO_ERROR =>
      \A k \in DOMAIN r.result \cap DOMAIN r.impl : r.result[k] = r.impl[k]

(***************************************************************************)
(* Spec 8's exact round trip, both ways: what the proxy wrote is what the  *)
(* implementation gets, and what the implementation answered is what the   *)
(* proxy returns, whatever the build's argument evaluation order and       *)
(* whatever the implementation does with the reply Parcel.                 *)
(***************************************************************************)
RoundTrip == ArgsRoundTrip /\ ReplyRoundTrip

(***************************************************************************)
(* The status a caller is told is true of what the server did (spec 4.3   *)
(* step 6, 4.4, 7): NO_ERROR only when the implementation method ran and  *)
(* itself returned NO_ERROR; onTransact answers UNKNOWN_TRANSACTION        *)
(* (unsupported) only when no method ran; and a call whose transaction    *)
(* failed surfaces that failure to its caller, where the proxy methods     *)
(* (IMediaPlayer.cpp 81-82 and the like) read the status from the reply   *)
(* of the transact whose own status they drop.                            *)
(***************************************************************************)
StatusTruthful ==
  \A r \in returned :
    /\ CallerStatus(r) = NO_ERROR => r.ran /\ r.impl.ret = NO_ERROR
    /\ r.err = UNKNOWN_TRANSACTION => ~r.ran
    /\ r.err # NO_ERROR /\ CallerStatus(r) # "none" => CallerStatus(r) = r.err

(***************************************************************************)
(* Spec 8, example 2: a call returning an object whose transaction failed  *)
(* gives its caller NULL, never an empty object it would accept.           *)
(***************************************************************************)
NoSilentEmptyObject ==
  \A r \in returned :
    "obj" \in DOMAIN r.result /\ r.err # NO_ERROR => r.result.obj = NULL

(***************************************************************************)
(* Spec 4.5: an object reference reaches the implementation only if it    *)
(* has the capability the method expects (or is NULL): the surface of     *)
(* setVideoSurface is an ISurface, the heap of registerBuffers an          *)
(* IMemoryHeap.                                                            *)
(***************************************************************************)
RefExpectations ==
  {[i |-> "IMediaPlayer", m |-> "SET_VIDEO_SURFACE", at |-> 1, ok |-> Surfaces],
   [i |-> "ISurface", m |-> "REGISTER_BUFFERS", at |-> 8, ok |-> Heaps]}

CapabilityChecked ==
  \A r \in invoked, e \in RefExpectations :
    IfaceOf(r.obj) = e.i /\ r.m = e.m => r.args[e.at] \in e.ok \cup {NULL}

(***************************************************************************)
(* Spec 4.5 on both sides of a call: every object reference an             *)
(* implementation is handed has the capability its method expects, and   *)
(* every object a caller is handed back is NULL or a real one, never an    *)
(* empty object standing for a failed request.                             *)
(***************************************************************************)
ReferencesUsable == CapabilityChecked /\ NoSilentEmptyObject

\* The reply Parcels still alive: those delivered and not yet released.
LiveReplies == {<<c, reply[c].n>> : c \in {d \in Clients : reply[d] # NoReply}}

(***************************************************************************)
(* Spec 3: a reply Parcel is discarded only after the caller has finished *)
(* reading it.  Whatever a proxy method hands its caller that points into *)
(* a reply (getTrackName's string, 206-213) refers to a Parcel still      *)
(* alive, not to the local the method released when it returned.          *)
(***************************************************************************)
ResultsOutliveReply == \A r \in returned : r.borrows \subseteq LiveReplies

=============================================================================
