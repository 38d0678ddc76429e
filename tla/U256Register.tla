---------------------------- MODULE U256Register ----------------------------
(***************************************************************************)
(* A uint256_t lvalue x and every operator of uint256_t.hpp that changes   *)
(* it: the assignments, the compound assignments, prefix and postfix ++    *)
(* and -- (the same change of x; postfix only returns a copy of the old    *)
(* value), and x = ~x, x = -x for the unary operators.                     *)
(*                                                                         *)
(* op is a history variable: the kind of the last operation and its       *)
(* operand (v a uint256_t, w a uint64_t, s a shift count; the ones the    *)
(* operation does not take are Zero, ZeroLimb and 0).  It changes nothing *)
(* in the behaviour of x; it lets a refinement mapping state what each    *)
(* step should have computed (MC_U256).                                   *)
(***************************************************************************)
EXTENDS U256, Integers

CONSTANTS
  Operands,    \* uint256_t operands
  U64Operands, \* uint64_t operands of the mixed-width operators
  Shifts,      \* shift counts given to <<= and >>=
  I32Shifts,   \* int32_t counts given to the operator<< and >> wrappers
  UCount       \* the number of unsigned int values (2^32 in the code)

ASSUME OperandsAssumption ==
         /\ Operands \subseteq UInt256
         /\ U64Operands \subseteq Limb
         /\ Shifts \subseteq Nat
         /\ I32Shifts \subseteq Int
         /\ UCount \in Nat \ {0}

VARIABLES x, op

vars == <<x, op>>

\* Kinds of operation, by the operand they take.
UnaryKinds == {"init", "not", "neg", "inc", "dec"}
WideKinds == {"assign", "add", "sub", "xor", "and", "or"}
U64Kinds == {"assign64", "add64", "sub64", "xor64", "and64", "or64"}
ShiftKinds == {"shl", "shr"}

Op(k, v, w, s) == [kind |-> k, v |-> v, w |-> w, s |-> s]

\* The step that sets x to nx as operation k with the given operands.
Apply(k, v, w, s, nx) == x' = nx /\ op' = Op(k, v, w, s)
ApplyUnary(k, nx) == Apply(k, Zero, ZeroLimb, 0, nx)
ApplyWide(k, v, nx) == Apply(k, v, ZeroLimb, 0, nx)
ApplyU64(k, w, nx) == Apply(k, Zero, w, 0, nx)

\* uint256_t x; (the default constructor zeroes all limbs).
Init == x = Zero /\ op = Op("init", Zero, ZeroLimb, 0)

-----------------------------------------------------------------------------
\* x = v (copy assignment, and the copy and four-limb constructors).
AssignU256(v) == ApplyWide("assign", v, v)

\* x = w for a uint64_t w.
AssignU64(w) == ApplyU64("assign64", w, FromU64(w))

\* x = ~x and x = -x.
NotStep == ApplyUnary("not", Not(x))
NegStep == ApplyUnary("neg", Neg(x))

\* ++x / x++ and --x / x--.
IncStep == ApplyUnary("inc", Inc(x))
DecStep == ApplyUnary("dec", Dec(x))

\* x += v and x -= v.
AddAssign(v) == ApplyWide("add", v, AddLimbs(x, v))
SubAssign(v) == ApplyWide("sub", v, SubLimbs(x, v))

\* x += w and x -= w for a uint64_t w: b = w; *this += b (or += -b).
AddAssignU64(w) == ApplyU64("add64", w, AddLimbs(x, FromU64(w)))
SubAssignU64(w) == ApplyU64("sub64", w, AddLimbs(x, Neg(FromU64(w))))

\* x ^= v, x &= v, x |= v.
XorAssign(v) == ApplyWide("xor", v, XorLimbs(x, v))
AndAssign(v) == ApplyWide("and", v, AndLimbs(x, v))
OrAssign(v) == ApplyWide("or", v, OrLimbs(x, v))

\* x ^= w, x |= w, x &= w for a uint64_t w.
XorAssignU64(w) == ApplyU64("xor64", w, XorU64(x, w))
OrAssignU64(w) == ApplyU64("or64", w, OrU64(x, w))
AndAssignU64(w) == ApplyU64("and64", w, AndU64(x, w))

\* x <<= s and x >>= s.
ShlAssign(s) == Apply("shl", Zero, ZeroLimb, s, Shl(x, s))
ShrAssign(s) == Apply("shr", Zero, ZeroLimb, s, Shr(x, s))

\* x = x << s and x = x >> s for an int32_t s: the wrappers pass s to the
\* unsigned int parameter of <<= and >>=, which converts it modulo UCount;
\* a negative count becomes a count of nearly UCount.
UnsignedOf(s) == s % UCount
ShlI32(s) == ShlAssign(UnsignedOf(s))
ShrI32(s) == ShrAssign(UnsignedOf(s))

-----------------------------------------------------------------------------
\* The operations whose result the mathematical value of x determines
\* correctly, and those that MC_U256 shows do not.
WideNext ==
  \E v \in Operands : \/ AssignU256(v) \/ XorAssign(v)
                      \/ AndAssign(v) \/ OrAssign(v)
AddSubNext ==
  \/ \E v \in Operands : AddAssign(v) \/ SubAssign(v)
  \/ \E w \in U64Operands : AddAssignU64(w) \/ SubAssignU64(w)
U64Next ==
  \E w \in U64Operands : AssignU64(w) \/ XorAssignU64(w) \/ OrAssignU64(w)
UnaryNext == NotStep \/ NegStep \/ IncStep \/ DecStep
ShiftNext ==
  \/ \E s \in Shifts : ShlAssign(s) \/ ShrAssign(s)
  \/ \E s \in I32Shifts : ShlI32(s) \/ ShrI32(s)

Next ==
  \/ WideNext \/ U64Next \/ UnaryNext \/ ShiftNext \/ AddSubNext
  \/ \E w \in U64Operands : AndAssignU64(w)

Spec == Init /\ [][Next]_vars

-----------------------------------------------------------------------------
\* Type invariant: x is four limbs of LimbBits bits, and op names one
\* operation with operands of the right widths.
TypeOK ==
  /\ x \in UInt256
  /\ op \in [kind : UnaryKinds \cup WideKinds \cup U64Kinds \cup ShiftKinds,
             v : UInt256, w : Limb, s : Nat]

=============================================================================
