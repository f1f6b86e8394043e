------------------------------- MODULE Parcel -------------------------------
(***************************************************************************)
(* The message buffer (android::Parcel) that every proxy and dispatcher of *)
(* this repository writes and reads.  Its code is not part of the          *)
(* repository; it is modelled from spec.md section 4.1.                    *)
(*                                                                         *)
(* A Parcel is a sequence of fields and a data position.  Every write      *)
(* (writeInt32, writeFloat, writeCString, writeStrongBinder,               *)
(* writeInterfaceToken) puts one field at the data position, overwriting   *)
(* the field there if one was already written and appending otherwise.     *)
(* Field widths are abstracted: every field is one cell, which is exact    *)
(* for the one overwrite the code performs (an int32 over an int32).       *)
(* A received message is read sequentially from its first field; reading   *)
(* past the written length yields UNDERFLOW, never a value.                *)
(***************************************************************************)
EXTENDS Naturals, Sequences, SequencesExt

\* The outcome of a read past the end of the written data.
UNDERFLOW == "UNDERFLOW"

NewParcel == [data |-> <<>>, pos |-> 0]

\* Parcel::writeXxx: one field at the data position, which then advances.
Write(p, v) ==
  [data |-> IF p.pos < Len(p.data)
              THEN [p.data EXCEPT ![p.pos + 1] = v]
              ELSE Append(p.data, v),
   pos  |-> p.pos + 1]

\* A run of writes, in order.
WriteAll(p, vs) == FoldLeft(Write, p, vs)

\* Parcel::setDataPosition.
SetDataPosition(p, n) == [p EXCEPT !.pos = n]

\* Parcel::readXxx of the i-th field of received data d.
ReadField(d, i) == IF i \in 1..Len(d) THEN d[i] ELSE UNDERFLOW

\* The fields from..from+k-1 of d, read one after the other.
ReadFields(d, from, k) == [j \in 1..k |-> ReadField(d, from + j - 1)]

=============================================================================
