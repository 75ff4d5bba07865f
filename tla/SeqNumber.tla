----------------------------- MODULE SeqNumber -----------------------------
(***************************************************************************)
(* Packet sequence numbers (src/packet/types.rs): unsigned numbers modulo  *)
(* SeqSpace (2^31 in the code) with a signed shortest distance.              *)
(***************************************************************************)
EXTENDS Integers

CONSTANT SeqSpace        \* the size of the sequence space: MASK + 1

ASSUME SeqSpaceAssumption == SeqSpace \in Nat /\ SeqSpace >= 4 /\ SeqSpace % 2 = 0

SeqNumbers == 0 .. SeqSpace - 1

\* self + n, wrapping; n may be negative.
SeqAdd(s, n) == (s + n) % SeqSpace

SeqNext(s) == SeqAdd(s, 1)

SeqPrev(s) == SeqAdd(s, -1)

\* The shortest signed distance a - b: positive when a is ahead of b.
SeqDiff(a, b) ==
    LET d == (a - b) % SeqSpace
    IN  IF d > (SeqSpace - 1) \div 2 THEN d - SeqSpace ELSE d

\* A closed range of sequence numbers, as NAK and DROPREQ carry it.
LossRange == [first : SeqNumbers, last : SeqNumbers]
=============================================================================
