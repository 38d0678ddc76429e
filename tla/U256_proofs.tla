---------------------------- MODULE U256_proofs ----------------------------
(***************************************************************************)
(* Proofs about U256Register for every limb width: every operator of      *)
(* uint256_t maps four LimbBits-bit limbs to four LimbBits-bit limbs, so  *)
(* the register always holds a well-formed uint256_t.                     *)
(***************************************************************************)
EXTENDS U256Register, TLAPS

USE LimbBitsAssumption

-----------------------------------------------------------------------------
(***************************************************************************)
(* The uint64_t operations keep a limb a limb.                             *)
(***************************************************************************)
LEMMA LimbUnaryType ==
  ASSUME NEW a \in Limb
  PROVE  /\ LimbInc(a) \in Limb
         /\ LimbDec(a) \in Limb
         /\ LimbNot(a) \in Limb
BY DEF Limb, Bits, LimbInc, LimbDec, LimbNot

LEMMA LimbBinaryType ==
  ASSUME NEW a \in Limb, NEW b \in Limb
  PROVE  /\ LimbAdd(a, b) \in Limb
         /\ LimbAnd(a, b) \in Limb
         /\ LimbOr(a, b) \in Limb
         /\ LimbXor(a, b) \in Limb
<1>1. LimbAdd(a, b) \in Limb
  <2>1. \A j \in Bits : a[j] \in {0, 1} /\ b[j] \in {0, 1}
    BY DEF Limb
  <2>2. \A j \in Bits :
          (a[j] + b[j] + (IF CarryInto(a, b, j) THEN 1 ELSE 0)) % 2 \in {0, 1}
    BY <2>1
  <2>. QED  BY <2>2 DEF LimbAdd, Limb
<1>2. LimbAnd(a, b) \in Limb /\ LimbOr(a, b) \in Limb /\ LimbXor(a, b) \in Limb
  BY DEF Limb, Bits, LimbAnd, LimbOr, LimbXor
<1>. QED  BY <1>1, <1>2

\* A shift of a limb by a count that is a natural number is a limb.
LEMMA LimbShiftType ==
  ASSUME NEW a \in Limb, NEW s \in Nat
  PROVE  LimbShl(a, s) \in Limb /\ LimbShr(a, s) \in Limb
BY DEF Limb, Bits, LimbShl, LimbShr

-----------------------------------------------------------------------------
(***************************************************************************)
(* The operators of uint256_t keep a uint256_t a uint256_t.                *)
(***************************************************************************)
LEMMA ConstantsType ==
  /\ ZeroLimb \in Limb
  /\ MaxLimb \in Limb
  /\ Zero \in UInt256
BY DEF ZeroLimb, MaxLimb, Zero, Limb, UInt256

LEMMA FromU64Type ==
  ASSUME NEW w \in Limb
  PROVE  FromU64(w) \in UInt256
BY ConstantsType DEF FromU64, UInt256

LEMMA UnaryType ==
  ASSUME NEW y \in UInt256
  PROVE  /\ Not(y) \in UInt256
         /\ Inc(y) \in UInt256
         /\ Dec(y) \in UInt256
         /\ Neg(y) \in UInt256
<1>1. Not(y) \in UInt256
  BY LimbUnaryType DEF Not, UInt256
<1>2. \A z \in UInt256 : Inc(z) \in UInt256
  BY LimbUnaryType DEF Inc, UInt256
<1>3. Dec(y) \in UInt256
  BY LimbUnaryType DEF Dec, UInt256
<1>. QED  BY <1>1, <1>2, <1>3 DEF Neg

LEMMA BinaryType ==
  ASSUME NEW y \in UInt256, NEW b \in UInt256, NEW w \in Limb
  PROVE  /\ AddLimbs(y, b) \in UInt256
         /\ SubLimbs(y, b) \in UInt256
         /\ XorLimbs(y, b) \in UInt256
         /\ AndLimbs(y, b) \in UInt256
         /\ OrLimbs(y, b) \in UInt256
         /\ XorU64(y, w) \in UInt256
         /\ OrU64(y, w) \in UInt256
         /\ AndU64(y, w) \in UInt256
<1>1. \A z, c \in UInt256 : AddLimbs(z, c) \in UInt256
  <2>. SUFFICES ASSUME NEW z \in UInt256, NEW c \in UInt256
                PROVE  AddLimbs(z, c) \in UInt256
    OBVIOUS
  <2>1. \A i \in Limbs : LimbAdd(LimbAdd(ZeroLimb, z[i]), c[i]) \in Limb
    BY LimbBinaryType, ConstantsType DEF UInt256
  <2>. QED  BY <2>1 DEF AddLimbs, UInt256
<1>2. SubLimbs(y, b) \in UInt256
  BY <1>1, UnaryType DEF SubLimbs
<1>3. XorLimbs(y, b) \in UInt256 /\ AndLimbs(y, b) \in UInt256
      /\ OrLimbs(y, b) \in UInt256
  BY LimbBinaryType DEF XorLimbs, AndLimbs, OrLimbs, UInt256
<1>4. XorU64(y, w) \in UInt256 /\ OrU64(y, w) \in UInt256
      /\ AndU64(y, w) \in UInt256
  BY LimbBinaryType DEF XorU64, OrU64, AndU64, UInt256, Limbs, WIDTH
<1>. QED  BY <1>1, <1>2, <1>3, <1>4

LEMMA ShiftType ==
  ASSUME NEW y \in UInt256, NEW s \in Nat
  PROVE  Shl(y, s) \in UInt256 /\ Shr(y, s) \in UInt256
<1>. DEFINE k == s \div LimbBits
            r == s % LimbBits
<1>1. k \in Nat /\ r \in 0 .. LimbBits - 1
  OBVIOUS
<1>2. r # 0 => LimbBits - r \in Nat
  BY <1>1
<1>3. \A m \in Limbs :
        /\ (IF m - k - 1 \in Limbs /\ r # 0
              THEN LimbShr(y[m - k - 1], LimbBits - r) ELSE ZeroLimb) \in Limb
        /\ (IF m - k \in Limbs THEN LimbShl(y[m - k], r) ELSE ZeroLimb) \in Limb
        /\ (IF m + k + 1 \in Limbs /\ r # 0
              THEN LimbShl(y[m + k + 1], LimbBits - r) ELSE ZeroLimb) \in Limb
        /\ (IF m + k \in Limbs THEN LimbShr(y[m + k], r) ELSE ZeroLimb) \in Limb
  BY <1>1, <1>2, LimbShiftType, ConstantsType DEF UInt256
<1>. QED  BY <1>3, LimbBinaryType DEF Shl, Shr, UInt256

-----------------------------------------------------------------------------
(***************************************************************************)
(* Type correctness of the register: TypeOK is inductive.                  *)
(***************************************************************************)
LEMMA OpType ==
  ASSUME NEW k \in UnaryKinds \cup WideKinds \cup U64Kinds \cup ShiftKinds,
         NEW v \in UInt256, NEW w \in Limb, NEW s \in Nat
  PROVE  Op(k, v, w, s) \in [kind : UnaryKinds \cup WideKinds \cup U64Kinds
                                    \cup ShiftKinds,
                             v : UInt256, w : Limb, s : Nat]
BY DEF Op

(***************************************************************************)
(* Every step of the register leaves x a uint256_t of LimbBits-bit limbs   *)
(* and op a well-formed record: no operator of uint256_t.hpp, whatever its *)
(* operand or shift count, produces a limb outside the limb width.         *)
(***************************************************************************)
THEOREM TypeCorrect == Spec => []TypeOK
<1>1. Init => TypeOK
  BY ConstantsType, OpType DEF Init, TypeOK, UnaryKinds
<1>2. TypeOK /\ [Next]_vars => TypeOK'
  <2>. SUFFICES ASSUME TypeOK, [Next]_vars PROVE TypeOK'
    OBVIOUS
  <2>. USE OperandsAssumption, ConstantsType DEF TypeOK
  <2>1. ASSUME NEW k \in UnaryKinds \cup WideKinds \cup U64Kinds \cup ShiftKinds,
               NEW v \in UInt256, NEW w \in Limb, NEW s \in Nat,
               NEW nx \in UInt256,
               Apply(k, v, w, s, nx)
        PROVE  TypeOK'
    BY <2>1, OpType DEF Apply
  <2>2. CASE WideNext
    BY <2>2, <2>1, BinaryType
       DEF WideNext, AssignU256, XorAssign, AndAssign, OrAssign, ApplyWide,
           WideKinds
  <2>3. CASE U64Next
    BY <2>3, <2>1, BinaryType, FromU64Type
       DEF U64Next, AssignU64, XorAssignU64, OrAssignU64, ApplyU64, U64Kinds
  <2>4. CASE UnaryNext
    BY <2>4, <2>1, UnaryType
       DEF UnaryNext, NotStep, NegStep, IncStep, DecStep, ApplyUnary,
           UnaryKinds
  <2>5. CASE ShiftNext
    <3>1. ASSUME NEW s \in Nat, ShlAssign(s) \/ ShrAssign(s) PROVE TypeOK'
      BY <3>1, <2>1, ShiftType DEF ShlAssign, ShrAssign, ShiftKinds
    <3>2. ASSUME NEW s \in I32Shifts PROVE UnsignedOf(s) \in Nat
      BY OperandsAssumption DEF UnsignedOf
    <3>. QED  BY <2>5, <3>1, <3>2 DEF ShiftNext, ShlI32, ShrI32
  <2>6. CASE AddSubNext
    BY <2>6, <2>1, BinaryType, UnaryType, FromU64Type
       DEF AddSubNext, AddAssign, SubAssign, AddAssignU64, SubAssignU64,
           ApplyWide, ApplyU64, WideKinds, U64Kinds
  <2>7. CASE \E w \in U64Operands : AndAssignU64(w)
    BY <2>7, <2>1, BinaryType DEF AndAssignU64, ApplyU64, U64Kinds
  <2>8. CASE UNCHANGED vars
    BY <2>8 DEF vars
  <2>. QED  BY <2>2, <2>3, <2>4, <2>5, <2>6, <2>7, <2>8 DEF Next
<1>. QED  BY <1>1, <1>2, PTL DEF Spec

=============================================================================
