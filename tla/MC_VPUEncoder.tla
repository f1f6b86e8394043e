---------------------------- MODULE MC_VPUEncoder ----------------------------
EXTENDS VPUEncoder

\* The MIME types initCheck accepts.
MC_Mimes == {"video/avc", "video/mp4v-es", "video/3gpp"}

\* "error" stands for each of the three failure returns of the encode step
\* (vpu_EncStartOneFrame, the busy-wait timeout, vpu_EncGetOutputInfo): they
\* leave the same state.
MC_HwAll == {"ok", "error"}
MC_HwOk  == {"ok"}

\* <<IOGetPhyMem ok, IOGetVirtMem ok>>: IOGetVirtMem is not tried after
\* IOGetPhyMem failed.
MC_AllocAll == {<<TRUE, TRUE>>, <<TRUE, FALSE>>, <<FALSE, FALSE>>}
MC_AllocOk  == {<<TRUE, TRUE>>}
=============================================================================
