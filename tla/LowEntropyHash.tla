---------------------------- MODULE LowEntropyHash ----------------------------
(***************************************************************************)
(* The report of a match by a part of its SHA-256 (low_entropy_hash.rs).   *)
(* Of the digest only matters which of its bits get through: they are      *)
(* numbered from 0, the most significant bit of the first byte, and an     *)
(* output is the set of those that it reveals.                             *)
(***************************************************************************)
EXTENDS Integers, FiniteSets

\* What LowEntropyHash::new does not panic on.
Hashable(bits) == bits \in 1 .. 256

MaxByteLen(bits) == (bits + 7) \div 8
BitsOverrun(bits) == bits % 8

\* 0xFFu8 << bits_overrun
Mask(bits) == {j \in 0 .. 7 : j <= 7 - BitsOverrun(bits)}

BitsOf(byte, js) == {8 * byte + j : j \in js}
BytesTo(n) == UNION {BitsOf(k, 0 .. 7) : k \in 0 .. n - 1}

\* finalize: whole bytes are copied, and the last of them is masked.
Finalize(bits) ==
  BytesTo(MaxByteLen(bits) - 1) \cup BitsOf(MaxByteLen(bits) - 1, Mask(bits))

LastByteWhole(bits) == BitsOverrun(bits) > 4

\* Faulty variant: the low half.
LowHalf == 4 .. 7
HighHalf == 0 .. 3

\* Display: whole bytes, then the last one or its high half.
LastShown(bits) ==
  CASE BitsOverrun(bits) = 0 -> {}
    [] LastByteWhole(bits) -> 0 .. 7
    [] OTHER -> HighHalf

Fmt(bits) ==
  LET whole == bits \div 8
  IN [digits |-> 2 * whole + Cardinality(LastShown(bits)) \div 4,
      shown |-> Finalize(bits) \cap (BytesTo(whole) \cup BitsOf(whole, LastShown(bits)))]
=============================================================================
