------------------------------ MODULE MC_U256 ------------------------------
(***************************************************************************)
(* Model-checking instance of U256Register: limbs of LimbBits = 2 bits (a  *)
(* uint256_t of 8 bits whose four limbs still carry and borrow into each   *)
(* other), a handful of operands that sit at limb boundaries, and every    *)
(* shift count from 0 to past the full width.                              *)
(*                                                                         *)
(* Val maps the limbs to the integer they stand for; A is the abstract     *)
(* register U256Abstract seen through that mapping.                        *)
(***************************************************************************)
EXTENDS U256Register

\* The limb and the uint256_t whose value is the natural number k.
LimbOf(k) == [j \in Bits |-> (k \div 2 ^ j) % 2]
ToU256(k) == [i \in Limbs |-> LimbOf((k \div 2 ^ (i * LimbBits)) % 2 ^ LimbBits)]

\* The integer a limb, and a uint256_t, stand for.
LimbVal(a) == LET s[j \in 0 .. LimbBits] ==
                    IF j = 0 THEN 0 ELSE s[j - 1] + a[j - 1] * 2 ^ (j - 1)
              IN s[LimbBits]
Val(y) == LET B == 2 ^ LimbBits
          IN LimbVal(y[0]) + B * (LimbVal(y[1])
                             + B * (LimbVal(y[2]) + B * LimbVal(y[3])))

MCLimbBits == 2
\* 0, 1, limb 0 full, limb 1 only, alternating bits, all ones, and values
\* whose low limbs are full so that a carry has to cross several limbs.
MCOperands == {ToU256(k) : k \in {0, 1, 3, 4, 15, 63, 85, 170, 255}}
MCU64Operands == {LimbOf(k) : k \in 0 .. 3}
MCShifts == 0 .. WIDTH * MCLimbBits + 1
\* unsigned int scaled to 16 values (4 bits), like the limbs; -1 and -3 convert to 15
\* and 13, past the width, and -12 to 4, inside it.
MCUCount == 2 ^ 4
MCI32Shifts == {-1, -3, -12}

\* The abstract value of the history variable's operand.
AbsLast ==
  [kind |-> op.kind,
   arg |-> IF op.kind \in WideKinds THEN Val(op.v)
           ELSE IF op.kind \in U64Kinds THEN LimbVal(op.w)
           ELSE op.s]

A == INSTANCE U256Abstract WITH
       n <- Val(x), last <- AbsLast,
       Width <- WIDTH * LimbBits, ShiftCounts <- Shifts \cup {UnsignedOf(s) : s \in I32Shifts},
       WideArgs <- {Val(v) : v \in Operands},
       NarrowArgs <- {LimbVal(w) : w \in U64Operands}

\* The operations the model shows to be exact, and the two families it
\* shows are not: the additive ones (no carry between limbs) and x &= w.
SpecExact == Init /\ [][WideNext \/ U64Next \/ UnaryNext \/ ShiftNext]_vars
SpecAddSub == Init /\ [][WideNext \/ AddSubNext]_vars
SpecAndU64 == Init /\ [][WideNext \/ \E w \in U64Operands : AndAssignU64(w)]_vars

-----------------------------------------------------------------------------
(***************************************************************************)
(* Refinement: every step of the register is the abstract operation of    *)
(* the same kind on the same operand, applied to the integer value of x;   *)
(* i.e. the limb-level code of ++, --, unary -, ~, &, |, ^, the shifts    *)
(* with their cross-limb carries, and the assignments computes the value  *)
(* modulo 2^256 that spec.md promises.                                    *)
(***************************************************************************)
RefinesModular == A!Spec

(***************************************************************************)
(* The comparison operators of uint256_t order values by magnitude:        *)
(* against every operand v, x < v, x > v, x <= v, x >= v and x == v hold  *)
(* exactly when they hold of the integers (spec.md 4.2: a strict total    *)
(* order consistent with the 256-bit magnitude, the order uint256_t keys  *)
(* such as singleton's pk_value are kept in).                             *)
(***************************************************************************)
ComparisonsMatchMagnitude ==
  \A v \in Operands :
     /\ Less(x, v) <=> Val(x) < Val(v)
     /\ Greater(x, v) <=> Val(x) > Val(v)
     /\ LessEq(x, v) <=> Val(x) <= Val(v)
     /\ GreaterEq(x, v) <=> Val(x) >= Val(v)
     /\ Equal(x, v) <=> Val(x) = Val(v)
     /\ IsNonZero(v) <=> Val(v) # 0
=============================================================================
