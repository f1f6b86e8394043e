------------------------------- MODULE YUV420 -------------------------------
(***************************************************************************)
(* ConvertYUV420SemiPlanarToYUV420Planar of VPUEncoder.cpp (47-75) as a    *)
(* state machine over its loops, and the planar frame it is meant to      *)
(* produce.  The code copies the luma plane, then reads the interleaved    *)
(* chroma plane four bytes at a time as a little-endian uint32 and writes  *)
(* two 16-bit halves, one into each output chroma plane, flipping U and V. *)
(* Bytes are integers 0..255; an output byte the code does not write is   *)
(* UNWRITTEN (the caller's buffer keeps whatever it held).                 *)
(***************************************************************************)
EXTENDS Integers, Sequences, Bitwise

CONSTANT FrameSizes  \* frame sizes <<width, height>> to convert

UNWRITTEN == -1

\* A little-endian uint32 read at byte offset off (0-based) of s.
Word32(s, off) ==
  s[off + 1] + 256 * s[off + 2] + 65536 * s[off + 3] + 16777216 * s[off + 4]

\* The two bytes of a little-endian uint16 store.
Low(h)  == h % 256
High(h) == (h \div 256) % 256

\* tempU: bytes 0 and 2 of the word.
UOf(temp) == (temp & 255) | (shiftR(temp, 8) & 65280)

\* Mutant: tempV takes byte 2 where it should take byte 3.
VOfShifted(temp) == (shiftR(temp, 8) & 255) | (shiftR(temp, 8) & 65280)

\* tempV: bytes 1 and 3 of the word.
VOf(temp) == (shiftR(temp, 8) & 255) | (shiftR(temp, 16) & 65280)

(***************************************************************************)
(* The reference: a semi-planar frame whose chroma bytes alternate V, U    *)
(* (the order the "Flip U and V" comment converts from) as a planar frame: *)
(* the luma plane, then every U sample, then every V sample, in order.     *)
(***************************************************************************)
PlanarFromVU(in, width, height) ==
  LET ysize == width * height
      n     == ysize \div 4            \* samples per chroma plane
      vu(j) == in[ysize + j]           \* j-th chroma byte, 1-based
  IN  [p \in 1..ysize |-> in[p]]
      \o [k \in 1..n |-> vu(2 * k)]
      \o [k \in 1..n |-> vu(2 * k - 1)]

\* A frame whose every byte is distinct (its own offset), so that any byte
\* moved, dropped or duplicated shows; values stay below 128 so that a
\* uint32 word fits TLC's integers.
DistinctFrame(width, height) ==
  [p \in 1..(width * height + (width * height) \div 2) |-> p - 1]

ASSUME \A f \in FrameSizes : (f[1] * f[2] * 3) \div 2 <= 128

(***************************************************************************)
(* The conversion as the code runs it.  inw is the byte offset inyuv_4    *)
(* points at, cbp and crp those of outcb and outcr; i and j the counters  *)
(* of the two loops.                                                       *)
(***************************************************************************)
VARIABLES width, height, in, out, i, j, inw, cbp, crp, pc

yvars == <<width, height, in, out, i, j, inw, cbp, crp, pc>>

YSize == width * height

Init ==
  /\ \E f \in FrameSizes : width = f[1] /\ height = f[2]
  /\ in = DistinctFrame(width, height)
  /\ out = [p \in 1..(YSize + YSize \div 2) |-> UNWRITTEN]
  /\ i = 0 /\ j = 0 /\ inw = 0 /\ cbp = 0 /\ crp = 0
  /\ pc = "copy_y"

\* The pointer set-up and memcpy of the luma plane.
CopyY ==
  /\ pc = "copy_y"
  /\ out' = [p \in DOMAIN out |-> IF p <= YSize THEN in[p] ELSE out[p]]
  /\ cbp' = YSize
  /\ crp' = YSize + YSize \div 4
  /\ inw' = YSize
  /\ i' = height \div 2
  /\ pc' = "outer"
  /\ UNCHANGED <<width, height, in, j>>

\* Mutant: the inner count taken as width >> 1, halfwords for words.
OuterLoopHalfwords ==
  /\ pc = "outer"
  /\ IF i > 0 THEN j' = width \div 2 /\ pc' = "inner"
              ELSE j' = j /\ pc' = "done"
  /\ UNCHANGED <<width, height, in, out, i, inw, cbp, crp>>

\* The outer loop's test: another row, or the end.
OuterLoop ==
  /\ pc = "outer"
  /\ IF i > 0 THEN j' = width \div 4 /\ pc' = "inner"
              ELSE j' = j /\ pc' = "done"
  /\ UNCHANGED <<width, height, in, out, i, inw, cbp, crp>>

\* The halfword store of h at byte offset off of the output.
Store(o, off, h) ==
  [o EXCEPT ![off + 1] = Low(h), ![off + 2] = High(h)]

\* Mutant: outcb and outcr declared uint32_t *, advancing four bytes.
InnerWidePointers ==
  /\ pc = "inner"
  /\ j > 0
  /\ LET temp == Word32(in, inw)
     IN  out' = Store(Store(out, cbp, VOf(temp)), crp, UOf(temp))
  /\ inw' = inw + 4
  /\ cbp' = cbp + 4
  /\ crp' = crp + 4
  /\ j' = j - 1
  /\ UNCHANGED <<width, height, in, i, pc>>

\* One word: read, split into tempU and tempV, stored flipped.
Inner ==
  /\ pc = "inner"
  /\ j > 0
  /\ LET temp == Word32(in, inw)
     IN  out' = Store(Store(out, cbp, VOf(temp)), crp, UOf(temp))
  /\ inw' = inw + 4
  /\ cbp' = cbp + 2
  /\ crp' = crp + 2
  /\ j' = j - 1
  /\ UNCHANGED <<width, height, in, i, pc>>

InnerDone ==
  /\ pc = "inner"
  /\ j = 0
  /\ i' = i - 1
  /\ pc' = "outer"
  /\ UNCHANGED <<width, height, in, out, j, inw, cbp, crp>>

Next == CopyY \/ OuterLoop \/ Inner \/ InnerDone

Spec == Init /\ [][Next]_yvars

-----------------------------------------------------------------------------
\* The loop's counters and the output buffer keep their types.
TypeOK ==
  /\ <<width, height>> \in FrameSizes
  /\ out \in [1..(YSize + YSize \div 2) -> {UNWRITTEN} \cup 0..255]
  /\ pc \in {"copy_y", "outer", "inner", "done"}
  /\ i \in 0..(height \div 2) /\ j \in 0..(width \div 4)

(***************************************************************************)
(* Every access of the loop stays in its plane: the word it reads next    *)
(* lies in the input's chroma plane, and the halfwords it stores next lie *)
(* in the U plane (outcb) and in the V plane (outcr) of the output.       *)
(***************************************************************************)
AccessesInPlanes ==
  pc = "inner" /\ j > 0 =>
    /\ YSize <= inw /\ inw + 4 <= Len(in)
    /\ YSize <= cbp /\ cbp + 2 <= YSize + YSize \div 4
    /\ YSize + YSize \div 4 <= crp /\ crp + 2 <= Len(out)

(***************************************************************************)
(* When the loops end, the output is the planar frame: every byte written *)
(* once from the right input byte, U and V flipped as the comment says.   *)
(***************************************************************************)
ConversionPlanar == pc = "done" => out = PlanarFromVU(in, width, height)

=============================================================================
