--------------------------- MODULE MC_U256Stream ---------------------------
(***************************************************************************)
(* pack and unpack of an 8-bit uint256_t (four limbs of two bits) with     *)
(* one-bit bytes, so a limb is two bytes and the packed value eight: the  *)
(* storage is exactly the packed size, and unpack is tried from every     *)
(* prefix of it.  The values have four different limbs, each with two     *)
(* different bytes, so a limb or a byte out of place changes the result.  *)
(***************************************************************************)
EXTENDS U256Stream_proofs

MCLimbBits == 2
MCByteBits == 1
MCBytes == [0 .. 0 -> {0, 1}]
MCBlank == [b \in 0 .. 0 |-> 0]

\* The limb of value k < 2^LimbBits, and the uint256_t of value k.
MCLimbOf(k) == [j \in 0 .. MCLimbBits - 1 |-> (k \div 2 ^ j) % 2]
MCToU256(k) == [m \in 0 .. 3 |-> MCLimbOf((k \div 4 ^ m) % 4)]

\* 0b00011011 (limbs 3, 2, 1, 0), 0b11100100 (limbs 0, 1, 2, 3) and zero.
MCValues == {MCToU256(27), MCToU256(228), MCToU256(0)}

=============================================================================
