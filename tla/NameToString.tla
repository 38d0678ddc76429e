---------------------------- MODULE NameToString ----------------------------
(***************************************************************************)
(* name_to_string(name_v1, name_v2, name_v3, name_v4) of the tools         *)
(* (tools/include/eosio/utils.hpp), composed with validate_name of Names.  *)
(*                                                                         *)
(* The code decodes NameLen = 20 characters from the 128-bit value        *)
(* name_v2:name_v1 shifted right by 4, one more from its 4 remaining bits *)
(* and the low 2 bits of name_v3, and NameLen more from the 128-bit value *)
(* name_v4 << 62 | name_v3 >> 2, into a string of 2 * NameLen + 3 dots;   *)
(* positions NameLen + 1 and 2 * NameLen + 2 are never written.  A limb  *)
(* has W = 3 * NameLen + 4 bits (64 for NameLen = 20), so the values fit *)
(* in uint128_t and nothing wraps.                                       *)
(*                                                                         *)
(* charmap[tmp & 0x3f] reads past the 50 characters of charmap for 6-bit  *)
(* groups 50 .. 63: group 50 reads its terminating NUL, the others read   *)
(* whatever bytes follow the literal, a choice among Garbage.             *)
(***************************************************************************)
EXTENDS Names, Integers

CONSTANTS
  LimbInputs,  \* the <<name_v1, name_v2, name_v3, name_v4>> decoded directly
  Garbage      \* the bytes the build may place after the charmap literal

W == 3 * NameLen + 4

ASSUME NameToStringAssumption ==
  /\ LimbInputs \subseteq [1 .. 4 -> 0 .. 2 ^ W - 1]
  /\ Garbage \subseteq 0 .. 255

VARIABLES
  limbs,    \* the arguments of name_to_string
  decoded,  \* name_to_string has returned
  text      \* the string it returned

allVars == <<str, result, limbs, decoded, text>>

\* The length of the string name_to_string starts from: std::string str(43,'.').
TextLen == 2 * NameLen + 3

\* tmp & 0x3f after k shifts by 6.
Group(t, k) == (t \div 64 ^ k) % 64

\* Mutation of Indices used to test DecodesValidatedNames: the first loop
\* without the initial tmp >>= 4.
IndicesNoShift(v) ==
  LET low == v[2] * 2 ^ W + v[1]
      high == v[4] * 2 ^ (W - 2) + v[3] \div 4
  IN [p \in 1 .. TextLen |->
        CASE p - 1 < NameLen -> Group(low, p - 1)
          [] p - 1 = NameLen -> Group(low, NameLen) + (v[3] % 4) * 16
          [] p - 1 \in NameLen + 2 .. 2 * NameLen + 1 ->
               Group(high, p - 1 - (NameLen + 2))
          [] OTHER -> -1]

\* The charmap index each position of str is decoded from, or -1 where the
\* code writes nothing.  Position p of the sequence is str[p - 1].
Indices(v) ==
  LET low == (v[2] * 2 ^ W + v[1]) \div 16
      high == v[4] * 2 ^ (W - 2) + v[3] \div 4
  IN [p \in 1 .. TextLen |->
        CASE p - 1 < NameLen -> Group(low, p - 1)
          [] p - 1 = NameLen -> Group(low, NameLen) + (v[3] % 4) * 16
          [] p - 1 \in NameLen + 2 .. 2 * NameLen + 1 ->
               Group(high, p - 1 - (NameLen + 2))
          [] OTHER -> -1]

\* The characters of str, given the bytes g the build puts past charmap.
Decode(v, g) ==
  LET idx == Indices(v)
  IN [p \in 1 .. TextLen |->
        CASE idx[p] = -1 -> Dot
          [] idx[p] < Len(Charmap) -> Charmap[idx[p] + 1]
          [] idx[p] = Len(Charmap) -> NUL
          [] OTHER -> g[p]]

\* trim_right_dots: cut after the last non-dot; a string of dots is kept.
TrimRightDots(s) ==
  LET keep == {k \in 1 .. Len(s) : s[k] # Dot}
  IN IF keep = {} THEN s
     ELSE SubSeq(s, 1, CHOOSE k \in keep : \A j \in keep : j <= k)

\* name_to_string(v[1], v[2], v[3], v[4]).
NameToStringOf(v) ==
  {TrimRightDots(Decode(v, g)) : g \in [1 .. TextLen -> Garbage]}

-----------------------------------------------------------------------------
(***************************************************************************)
(* Decoding four arbitrary limbs.                                          *)
(***************************************************************************)
DecodeInit ==
  /\ str = <<>> /\ result = "pending"
  /\ limbs \in LimbInputs /\ decoded = FALSE /\ text = <<>>

DecodeLimbs ==
  /\ ~decoded
  /\ decoded' = TRUE /\ text' \in NameToStringOf(limbs)
  /\ UNCHANGED <<str, result, limbs>>

DecodeDone == decoded /\ UNCHANGED allVars

DecodeSpec == DecodeInit /\ [][DecodeLimbs \/ DecodeDone]_allVars

(***************************************************************************)
(* Validating a name, then decoding its packed value: string_to_name's    *)
(* uint128_t split into name_v1 (low 64 bits) and name_v2, with name_v3   *)
(* and name_v4 zero.                                                       *)
(***************************************************************************)
RoundInit == Init /\ limbs = <<0, 0, 0, 0>> /\ decoded = FALSE /\ text = <<>>

DecodeValidated ==
  /\ result = "ok" /\ ~decoded
  /\ LET value == StringToName(str)
     IN limbs' = <<value % 2 ^ W, value \div 2 ^ W, 0, 0>>
  /\ decoded' = TRUE /\ text' \in NameToStringOf(limbs')
  /\ UNCHANGED <<str, result>>

RoundNext ==
  \/ ValidateName /\ UNCHANGED <<limbs, decoded, text>>
  \/ DecodeValidated
  \/ Done /\ UNCHANGED <<limbs, decoded, text>>

RoundSpec == RoundInit /\ [][RoundNext]_allVars

-----------------------------------------------------------------------------
(***************************************************************************)
(* name_to_string only returns characters of charmap: every 6-bit group   *)
(* it looks up is one of charmap's 50 indices.                            *)
(***************************************************************************)
ReturnsCharmapText ==
  decoded =>
    \A k \in 1 .. Len(text) : \E m \in 1 .. Len(Charmap) : Charmap[m] = text[k]

(***************************************************************************)
(* name_to_string decodes the packed value of every name validate_name     *)
(* accepts back to that name, except the empty name, whose value 0 decodes *)
(* to 2 * NameLen + 3 dots because trim_right_dots keeps a string that is  *)
(* all dots.                                                               *)
(***************************************************************************)
DecodesValidatedNames ==
  result = "ok" /\ decoded =>
    text = IF str = <<>> THEN [p \in 1 .. TextLen |-> Dot] ELSE str

=============================================================================
