------------------------------- MODULE Binder -------------------------------
(***************************************************************************)
(* What the proxies and dispatchers of this repository share with the      *)
(* binder framework around them: status codes, the first transaction code, *)
(* the descriptor check of CHECK_INTERFACE, the default handler            *)
(* BBinder::onTransact, and how a dispatcher case decodes its arguments.   *)
(* The framework itself is not part of the repository; the operators       *)
(* marked "spec" are modelled from spec.md sections 4.2, 4.3 and 7.        *)
(***************************************************************************)
EXTENDS Parcel

\* status_t values.  UNKNOWN_ERROR stands for every non-zero status an
\* implementation may return; the others are the framework's own codes.
NO_ERROR            == "NO_ERROR"
UNKNOWN_ERROR       == "UNKNOWN_ERROR"
BAD_VALUE           == "BAD_VALUE"
BAD_INTERFACE       == "BAD_INTERFACE"
UNKNOWN_TRANSACTION == "UNKNOWN_TRANSACTION"
DEAD_OBJECT         == "DEAD_OBJECT"

\* A null sp<> (object reference, buffer or memory).
NULL == "NULL"

\* IBinder::FIRST_CALL_TRANSACTION, the base of every transaction code.
FIRST_CALL_TRANSACTION == 1

\* spec 4.2, CHECK_INTERFACE: the request starts with the caller's
\* descriptor, which must equal the dispatcher's own.
CheckInterface(data, descriptor) == ReadField(data, 1) = descriptor

\* spec 4.3 step 6, BBinder::onTransact: a code no case handles is unsupported.
BBinderOnTransact == UNKNOWN_TRANSACTION

(***************************************************************************)
(* A case of onTransact decodes its n arguments from the fields after the  *)
(* descriptor.  Reads in separate statements happen in order ("ltr").      *)
(* Reads written as the arguments of one call, f(data.readInt32(),         *)
(* data.readInt32()), happen in the order the compiler evaluates function  *)
(* arguments, which C++ leaves unspecified: left to right or right to      *)
(* left ("rtl", argument n takes the first field).                         *)
(***************************************************************************)
DecodeArgs(data, n, order) ==
  LET fields == ReadFields(data, 2, n)
  IN  IF order = "ltr" THEN fields ELSE Reverse(fields)

\* A reply layout is a sequence of names of the implementation's results
\* ("ret" the status, "out1".."out5" out-parameters, "obj" a returned object,
\* "str" a returned string); the fields written are their values.
ReplyFields(layout, impl) == [j \in 1..Len(layout) |-> impl[layout[j]]]

\* A proxy reads its reply layout back into a record of the same names.
ReadReply(layout, d) ==
  [k \in ToSet(layout) |->
     ReadField(d, CHOOSE j \in 1..Len(layout) : layout[j] = k)]

=============================================================================
