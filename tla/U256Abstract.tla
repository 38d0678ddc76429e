---------------------------- MODULE U256Abstract ----------------------------
(***************************************************************************)
(* What uint256_t promises (spec.md section 3): a register n holding an    *)
(* integer in [0, 2^Width - 1] on which every operation is the             *)
(* mathematical one, wrapping modulo 2^Width.  last records the kind and  *)
(* the integer operand of the last operation, as op does in U256Register. *)
(* Bitwise AND, OR and XOR are those of the Bitwise community module.      *)
(***************************************************************************)
EXTENDS Naturals, Bitwise

CONSTANTS
  Width,       \* bits of the value (256 in the code)
  WideArgs,    \* the full-width operands the implementation is given
  NarrowArgs,  \* its uint64_t operands
  ShiftCounts  \* its shift counts

VARIABLES n, last

M == 2 ^ Width

Step(k, a, nn) == last' = [kind |-> k, arg |-> a] /\ n' = nn

Init == n = 0 /\ last = [kind |-> "init", arg |-> 0]

\* Operations that take a full-width operand a.
WideStep(a) ==
  \/ Step("assign", a, a)
  \/ Step("add", a, (n + a) % M)
  \/ Step("sub", a, (n - a) % M)
  \/ Step("xor", a, n ^^ a)
  \/ Step("and", a, n & a)
  \/ Step("or", a, n | a)

\* The same operations with a uint64_t operand w.
NarrowStep(w) ==
  \/ Step("assign64", w, w)
  \/ Step("add64", w, (n + w) % M)
  \/ Step("sub64", w, (n - w) % M)
  \/ Step("xor64", w, n ^^ w)
  \/ Step("and64", w, n & w)
  \/ Step("or64", w, n | w)

UnaryStep ==
  \/ Step("not", 0, M - 1 - n)
  \/ Step("neg", 0, (M - n) % M)
  \/ Step("inc", 0, (n + 1) % M)
  \/ Step("dec", 0, (n - 1) % M)

ShiftStep(s) ==
  \/ Step("shl", s, (n * 2 ^ s) % M)
  \/ Step("shr", s, n \div 2 ^ s)

Next ==
  \/ \E a \in WideArgs : WideStep(a)
  \/ \E w \in NarrowArgs : NarrowStep(w)
  \/ UnaryStep
  \/ \E s \in ShiftCounts : ShiftStep(s)

Spec == Init /\ [][Next]_<<n, last>>

=============================================================================
