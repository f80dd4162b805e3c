------------------------------- MODULE Words -------------------------------
(* The unsigned integers of the code, with their widths as parameters:     *)
(* uint16_t sequence numbers and uint32_t extended sequence numbers.       *)
EXTENDS Integers

CONSTANTS
  SeqMod,   \* number of sequence numbers: 2^16 in the code
  WordMod   \* number of extended sequence numbers: 2^32 in the code

ASSUME WidthAssumption ==
  /\ SeqMod \in Nat /\ SeqMod > 1
  /\ WordMod \in Nat /\ WordMod > SeqMod /\ WordMod % SeqMod = 0

Seq16 == 0..(SeqMod - 1)
Word == 0..(WordMod - 1)

(* uint32_t addition and subtraction. *)
Plus32(a, b) == (a + b) % WordMod
Minus32(a, b) == (a - b) % WordMod
=============================================================================
