------------------------------ MODULE ISurface ------------------------------
(***************************************************************************)
(* The ISurface remote interface of src/base/libs/surfaceflinger_client/   *)
(* ISurface.cpp: the proxy BpSurface and the dispatcher                    *)
(* BnSurface::onTransact.  Its transaction enum lives in ISurface.h, which *)
(* is not part of the repository: the codes are modelled from spec.md     *)
(* section 3 (dense from FIRST_CALL_TRANSACTION, in declaration order).    *)
(***************************************************************************)
EXTENDS Binder

\* IMPLEMENT_META_INTERFACE(Surface, ...)
SurfaceDescriptor == "android.ui.ISurface"

\* A GraphicBuffer constructed empty (0x0) and never filled in.
EMPTY_BUFFER == "EMPTY_BUFFER"

\* The transaction enum of ISurface.h (spec): codes in this order.
SurfaceTransactions ==
  << "REGISTER_BUFFERS", "UNREGISTER_BUFFERS", "POST_BUFFER", "CREATE_OVERLAY",
     "REQUEST_BUFFER", "SET_BUFFER_COUNT", "SET_DIRTYRECT", "GET_DESTRECT" >>

SurfaceMethods == ToSet(SurfaceTransactions)

SurfaceCode(m) ==
  FIRST_CALL_TRANSACTION - 1 +
    (CHOOSE j \in 1..Len(SurfaceTransactions) : SurfaceTransactions[j] = m)

SurfaceCodes == {SurfaceCode(m) : m \in SurfaceMethods}

SurfaceMethodOf(code) == SurfaceTransactions[code - FIRST_CALL_TRANSACTION + 1]

(***************************************************************************)
(* BpSurface.                                                              *)
(***************************************************************************)
\* The argument kinds each method writes after its descriptor.
BpSurfaceArgs ==
  [REQUEST_BUFFER |-> <<"i", "i", "i", "i", "i">>,
   SET_DIRTYRECT |-> <<"i", "i", "i", "i", "i", "i">>,
   SET_BUFFER_COUNT |-> <<"i">>,
   REGISTER_BUFFERS |-> <<"i", "i", "i", "i", "i", "i", "i", "b">>,
   POST_BUFFER |-> <<"i">>, UNREGISTER_BUFFERS |-> <<>>,
   CREATE_OVERLAY |-> <<"i", "i", "i", "i">>, GET_DESTRECT |-> <<>>]

\* postBuffer is the one call made with IBinder::FLAG_ONEWAY.
BpSurfaceOneway == {"POST_BUFFER"}

\* Mutant: registerBuffers writes hor_stride and ver_stride swapped.
BpSurfaceRequestSwapped(m, args) ==
  LET sent == [j \in DOMAIN args |->
                 IF m = "REGISTER_BUFFERS" /\ j \in {3, 4} THEN args[7 - j]
                                                        ELSE args[j]]
  IN  WriteAll(NewParcel, <<SurfaceDescriptor>> \o sent).data

BpSurfaceRequest(m, args) ==
  WriteAll(NewParcel, <<SurfaceDescriptor>> \o args).data

\* The reply fields each method reads, in order.
BpSurfaceReads ==
  [SET_DIRTYRECT |-> <<>>, SET_BUFFER_COUNT |-> <<"ret">>,
   REGISTER_BUFFERS |-> <<"ret">>, POST_BUFFER |-> <<>>,
   UNREGISTER_BUFFERS |-> <<>>,
   GET_DESTRECT |-> <<"out1", "out2", "out3", "out4", "out5", "ret">>]

\* requestBuffer: a new (empty) GraphicBuffer is filled from the reply; the
\* status of transact is not looked at, and the buffer is returned.
BpRequestBuffer(d) ==
  [obj |-> IF ReadField(d, 1) = UNDERFLOW THEN EMPTY_BUFFER ELSE ReadField(d, 1)]

\* createOverlay: OverlayRef::readFromParcel (spec: a missing reference
\* reads as NULL).
BpCreateOverlay(d) ==
  [obj |-> IF ReadField(d, 1) = UNDERFLOW THEN NULL ELSE ReadField(d, 1)]

BpSurfaceResult(m, err, d) ==
  CASE m = "REQUEST_BUFFER" -> BpRequestBuffer(d)
    [] m = "CREATE_OVERLAY" -> BpCreateOverlay(d)
    [] OTHER                -> ReadReply(BpSurfaceReads[m], d)

(***************************************************************************)
(* BnSurface::onTransact.                                                  *)
(***************************************************************************)
\* The number of fields each case decodes, in separate statements.
BnSurfaceArgc ==
  [REQUEST_BUFFER |-> 5, SET_BUFFER_COUNT |-> 1, SET_DIRTYRECT |-> 6,
   REGISTER_BUFFERS |-> 8, UNREGISTER_BUFFERS |-> 0, POST_BUFFER |-> 1,
   CREATE_OVERLAY |-> 4, GET_DESTRECT |-> 0]

\* Mutant: GET_DESTRECT writes top before right.
BnSurfaceReplySwapped ==
  [SET_BUFFER_COUNT |-> <<"ret">>, SET_DIRTYRECT |-> <<>>,
   REGISTER_BUFFERS |-> <<"ret">>, UNREGISTER_BUFFERS |-> <<>>,
   POST_BUFFER |-> <<>>, CREATE_OVERLAY |-> <<"obj">>,
   GET_DESTRECT |-> <<"out1", "out3", "out2", "out4", "out5", "ret">>]

\* The reply fields each case writes, in order.
BnSurfaceReply ==
  [SET_BUFFER_COUNT |-> <<"ret">>, SET_DIRTYRECT |-> <<>>,
   REGISTER_BUFFERS |-> <<"ret">>, UNREGISTER_BUFFERS |-> <<>>,
   POST_BUFFER |-> <<>>, CREATE_OVERLAY |-> <<"obj">>,
   GET_DESTRECT |-> <<"out1", "out2", "out3", "out4", "out5", "ret">>]

\* Mutant: the cases decode without CHECK_INTERFACE.
BnSurfaceOnTransactUnchecked(code, data, impl) ==
  LET m    == SurfaceMethodOf(code)
      args == DecodeArgs(data, BnSurfaceArgc[m], "ltr")
      ran(err, reply) ==
        [ran |-> TRUE, m |-> m, args |-> args, err |-> err, reply |-> reply]
  IN  CASE code \notin SurfaceCodes ->
             [ran |-> FALSE, m |-> "", args |-> <<>>, err |-> BBinderOnTransact,
              reply |-> <<>>]
        [] m = "REQUEST_BUFFER" ->
             IF impl.obj = NULL THEN ran(BAD_VALUE, <<>>)
                                ELSE ran(NO_ERROR, <<impl.obj>>)
        [] OTHER -> ran(NO_ERROR, ReplyFields(BnSurfaceReply[m], impl))

BnSurfaceOnTransact(code, data, impl) ==
  LET m    == SurfaceMethodOf(code)
      args == DecodeArgs(data, BnSurfaceArgc[m], "ltr")
      ran(err, reply) ==
        [ran |-> TRUE, m |-> m, args |-> args, err |-> err, reply |-> reply]
      rejected(err) ==
        [ran |-> FALSE, m |-> "", args |-> <<>>, err |-> err, reply |-> <<>>]
  IN  CASE code \notin SurfaceCodes -> rejected(BBinderOnTransact)
        [] ~CheckInterface(data, SurfaceDescriptor) -> rejected(BAD_INTERFACE)
        \* a NULL buffer is refused with BAD_VALUE and nothing written
        [] m = "REQUEST_BUFFER" ->
             IF impl.obj = NULL THEN ran(BAD_VALUE, <<>>)
                                ELSE ran(NO_ERROR, <<impl.obj>>)
        [] OTHER -> ran(NO_ERROR, ReplyFields(BnSurfaceReply[m], impl))

=============================================================================
