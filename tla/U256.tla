-------------------------------- MODULE U256 --------------------------------
(***************************************************************************)
(* eosio::uint256_t (libraries/eosiolib/core/eosio/uint256_t.hpp): a       *)
(* 256-bit unsigned value held as WIDTH = 4 limbs of 64 bits, limb 0 the   *)
(* least significant.                                                      *)
(*                                                                         *)
(* A machine limb (uint64_t) is modelled by what it is, a vector of        *)
(* LimbBits bits, bit 0 the least significant; LimbBits is 64 in the code  *)
(* and small in the model runs.  The uint64_t operations the code uses     *)
(* (++, --, +, ~, &, |, ^, <<, >>, <) are the bit-vector operations below, *)
(* each wrapping at the limb width as the machine does.                    *)
(*                                                                         *)
(* Module U256Register turns these operators into the actions of a        *)
(* uint256_t lvalue.                                                       *)
(***************************************************************************)
EXTENDS Naturals

CONSTANT LimbBits    \* width of one limb (64 in uint256_t.hpp)

\* The number of limbs, uint256_t::WIDTH (uint256_t.hpp:20).
WIDTH == 4

Limbs == 0 .. WIDTH - 1
Bits == 0 .. LimbBits - 1

\* A uint64_t limb, and a uint256_t value.
Limb == [Bits -> {0, 1}]
UInt256 == [Limbs -> Limb]

ZeroLimb == [j \in Bits |-> 0]
MaxLimb == [j \in Bits |-> 1]

ASSUME LimbBitsAssumption == LimbBits \in Nat \ {0}

-----------------------------------------------------------------------------
(***************************************************************************)
(* uint64_t arithmetic on one limb, wrapping modulo 2^LimbBits.            *)
(***************************************************************************)

\* ++a: bit j flips exactly when every lower bit is 1 (the carry reaches j).
LimbInc(a) == [j \in Bits |-> IF \A m \in 0 .. j - 1 : a[m] = 1
                                THEN 1 - a[j] ELSE a[j]]

\* --a: bit j flips exactly when every lower bit is 0 (the borrow reaches j).
LimbDec(a) == [j \in Bits |-> IF \A m \in 0 .. j - 1 : a[m] = 0
                                THEN 1 - a[j] ELSE a[j]]

\* A carry enters bit j of a + b when some lower bit generates one and every
\* bit between them propagates it.
CarryInto(a, b, j) ==
  \E m \in 0 .. j - 1 : /\ a[m] = 1 /\ b[m] = 1
                        /\ \A p \in m + 1 .. j - 1 : a[p] + b[p] = 1

\* a + b computed in uint64_t: the carry out of the top bit is lost.
LimbAdd(a, b) ==
  [j \in Bits |-> (a[j] + b[j] + (IF CarryInto(a, b, j) THEN 1 ELSE 0)) % 2]

LimbNot(a) == [j \in Bits |-> 1 - a[j]]
LimbAnd(a, b) == [j \in Bits |-> a[j] * b[j]]
LimbOr(a, b) == [j \in Bits |-> IF a[j] + b[j] > 0 THEN 1 ELSE 0]
LimbXor(a, b) == [j \in Bits |-> (a[j] + b[j]) % 2]

\* a << s and a >> s for 0 <= s < LimbBits, shifting in zeros.
LimbShl(a, s) == [j \in Bits |-> IF j >= s THEN a[j - s] ELSE 0]
LimbShr(a, s) == [j \in Bits |-> IF j + s < LimbBits THEN a[j + s] ELSE 0]

\* a < b on uint64_t: at the highest bit where they differ, b has the 1.
LimbLess(a, b) ==
  \E j \in Bits : /\ a[j] = 0 /\ b[j] = 1
                  /\ \A m \in j + 1 .. LimbBits - 1 : a[m] = b[m]

-----------------------------------------------------------------------------
(***************************************************************************)
(* The operators of uint256_t.                                             *)
(***************************************************************************)

\* uint256_t() and its member initializer value[4] = {0, 0, 0, 0}.
Zero == [i \in Limbs |-> ZeroLimb]

\* uint256_t(uint64_t v), and operator=(uint64_t): limb 0 is v, others 0.
FromU64(v) == [i \in Limbs |-> IF i = 0 THEN v ELSE ZeroLimb]

\* operator~: every limb complemented.
Not(x) == [i \in Limbs |-> LimbNot(x[i])]

\* Mutation of Inc used to test the refinement check: the ripple loop that
\* stops after limb 0, so that a carry out of limb 0 is lost.
IncNoRipple(x) == [x EXCEPT ![0] = LimbInc(@)]

\* prefix operator++: limb i is incremented while every lower limb wrapped
\* to 0, i.e. exactly when every lower limb was all ones.
Inc(x) == [i \in Limbs |-> IF \A m \in 0 .. i - 1 : x[m] = MaxLimb
                             THEN LimbInc(x[i]) ELSE x[i]]

\* prefix operator--: limb i is decremented exactly when every lower limb
\* was 0 (and wrapped to all ones).
Dec(x) == [i \in Limbs |-> IF \A m \in 0 .. i - 1 : x[m] = ZeroLimb
                             THEN LimbDec(x[i]) ELSE x[i]]

\* unary operator-: ~x, then ++.
Neg(x) == Inc(Not(x))

(***************************************************************************)
(* operator+=(const uint256_t&).  The code computes                        *)
(*     __uint128_t n = carry + value[i] + b.value[i];                      *)
(* with carry, value[i] and b.value[i] all uint64_t, so the sum is taken   *)
(* in uint64_t and wraps before it is widened: n < 2^64, carry = n >> 64   *)
(* is 0 after every limb, and each limb is the wrapped sum of the two     *)
(* limbs alone.                                                           *)
(***************************************************************************)
\* Mutation of AddLimbs used to test the type invariant: the per-limb sum
\* stored without being reduced to the limb width.
AddLimbsUnreduced(x, b) == [i \in Limbs |-> [j \in Bits |-> x[i][j] + b[i][j]]]

AddLimbs(x, b) == [i \in Limbs |-> LimbAdd(LimbAdd(ZeroLimb, x[i]), b[i])]

\* operator-=(const uint256_t&): *this += -b.
SubLimbs(x, b) == AddLimbs(x, Neg(b))

\* operator^=, &=, |= (const uint256_t&): limb by limb.
XorLimbs(x, b) == [i \in Limbs |-> LimbXor(x[i], b[i])]
AndLimbs(x, b) == [i \in Limbs |-> LimbAnd(x[i], b[i])]
OrLimbs(x, b) == [i \in Limbs |-> LimbOr(x[i], b[i])]

\* operator^=, |=, &= (uint64_t): only limb 0 is combined with b.
XorU64(x, b) == [x EXCEPT ![0] = LimbXor(@, b)]
OrU64(x, b) == [x EXCEPT ![0] = LimbOr(@, b)]
AndU64(x, b) == [x EXCEPT ![0] = LimbAnd(@, b)]

(***************************************************************************)
(* operator<<=(unsigned shift): k = shift / 64 whole limbs, r = shift % 64 *)
(* bits.  Source limb i ORs (a[i] >> (64 - r)) into limb i + k + 1 when    *)
(* r # 0 and that limb exists, and (a[i] << r) into limb i + k when it     *)
(* exists; so destination limb m receives source limbs m - k - 1 and m - k.*)
(***************************************************************************)
Shl(x, shift) ==
  LET k == shift \div LimbBits
      r == shift % LimbBits
  IN [m \in Limbs |->
        LimbOr(IF m - k - 1 \in Limbs /\ r # 0
                 THEN LimbShr(x[m - k - 1], LimbBits - r) ELSE ZeroLimb,
               IF m - k \in Limbs THEN LimbShl(x[m - k], r) ELSE ZeroLimb)]

\* operator>>=(unsigned shift): source limb i ORs (a[i] << (64 - r)) into
\* limb i - k - 1 and (a[i] >> r) into limb i - k, when they exist.
Shr(x, shift) ==
  LET k == shift \div LimbBits
      r == shift % LimbBits
  IN [m \in Limbs |->
        LimbOr(IF m + k + 1 \in Limbs /\ r # 0
                 THEN LimbShl(x[m + k + 1], LimbBits - r) ELSE ZeroLimb,
               IF m + k \in Limbs THEN LimbShr(x[m + k], r) ELSE ZeroLimb)]

\* operator bool: some limb is non-zero.
IsNonZero(x) == \E i \in Limbs : x[i] # ZeroLimb

\* The comparison operators, each a scan over the four limbs.
Greater(a, b) == \E i \in Limbs : LimbLess(b[i], a[i])
Less(a, b) == \E i \in Limbs : LimbLess(a[i], b[i])
Equal(a, b) == \A i \in Limbs : a[i] = b[i]
GreaterEq(a, b) == \A i \in Limbs : ~LimbLess(a[i], b[i])
LessEq(a, b) == \A i \in Limbs : ~LimbLess(b[i], a[i])

=============================================================================
