------------------------------- MODULE Names -------------------------------
(***************************************************************************)
(* The name text encoding of the tools (tools/include/eosio/utils.hpp):    *)
(* char_to_symbol, string_to_name and validate_name.  A name of up to      *)
(* NameLen characters (20 in the code) is packed into an unsigned integer  *)
(* (uint128_t in the code), 6 bits per character, character i at bit       *)
(* 4 + 6 * i; validate_name accepts a string only when unpacking its       *)
(* packed value and trimming the trailing dots gives the string back.      *)
(*                                                                         *)
(* Characters are their ASCII codes and strings are sequences of codes     *)
(* (std::string, whose length counts embedded NULs; c_str() stops at the   *)
(* first NUL).  The packed value never exceeds 4 + 6 * NameLen bits, so it *)
(* is an unbounded natural here and never wraps, as in the code.           *)
(***************************************************************************)
EXTENDS Naturals, Sequences, Bitwise

CONSTANTS
  NameLen,   \* the maximum length of a name (20 in utils.hpp)
  Inputs     \* the strings given to validate_name

ASSUME NameLenAssumption == NameLen \in Nat \ {0}
ASSUME InputsAssumption == Inputs \subseteq Seq(0 .. 255)

VARIABLES str, result

vars == <<str, result>>

\* The characters of the code, by ASCII code.
Dot == 46
NUL == 0

(***************************************************************************)
(* static const char* charmap = ".-0123456789abcdefghijklmnopqrstuvwxyz_:  *)
(* <>[]{}()`~": symbol k is decoded to Charmap[k + 1].                     *)
(***************************************************************************)
Charmap ==
  <<46, 45, 48, 49, 50, 51, 52, 53, 54, 55, 56, 57,
    97, 98, 99, 100, 101, 102, 103, 104, 105, 106, 107, 108, 109,
    110, 111, 112, 113, 114, 115, 116, 117, 118, 119, 120, 121, 122,
    95, 58, 60, 62, 91, 93, 123, 125, 40, 41, 96, 126>>

\* The twelve punctuation characters char_to_symbol tests one by one, with
\* the symbol each is given: (c - '~') + 49, (c - '`') + 48, ...
Punctuation ==
  [c \in {126, 96, 41, 40, 125, 123, 93, 91, 62, 60, 58, 95} |->
     CASE c = 126 -> 49 [] c = 96 -> 48 [] c = 41 -> 47 [] c = 40 -> 46
       [] c = 125 -> 45 [] c = 123 -> 44 [] c = 93 -> 43 [] c = 91 -> 42
       [] c = 62 -> 41 [] c = 60 -> 40 [] c = 58 -> 39 [] c = 95 -> 38]

\* char_to_symbol: upper and lower case letters share symbols 12..37, digits
\* are 2..11, '-' is 1 and every other character (including '.') is 0.
CharToSymbol(c) ==
  CASE c \in DOMAIN Punctuation -> Punctuation[c]
    [] c \in 65 .. 90 -> (c - 65) + 12
    [] c \in 97 .. 122 -> (c - 97) + 12
    [] c \in 48 .. 57 -> (c - 48) + 2
    [] c = 45 -> 1
    [] OTHER -> 0

\* The number of characters string_to_name's loop packs:
\* for ( ; str[i] && i < 20; ++i), i.e. up to the first NUL, at most NameLen.
Packed(s) ==
  CHOOSE i \in 0 .. NameLen :
    /\ \A j \in 1 .. i : j <= Len(s) /\ s[j] # NUL
    /\ i = NameLen \/ i = Len(s) \/ s[i + 1] = NUL

\* string_to_name: name |= (char_to_symbol(str[i]) & 0x3f) << (4 + 6 * i).
StringToName(s) ==
  LET name[i \in 0 .. Packed(s)] ==
        IF i = 0 THEN 0
        ELSE name[i - 1] | ((CharToSymbol(s[i]) % 64) * 2 ^ (4 + 6 * (i - 1)))
  IN name[Packed(s)]

\* validate_name's decoding loop: tmp = value >> 4, then NameLen times
\* str2[i] = charmap[tmp & 0x3f]; tmp >>= 6.
Unpack(value) ==
  [k \in 1 .. NameLen |->
     Charmap[(((value \div 16) \div 64 ^ (k - 1)) % 64) + 1]]

\* The trim lambda: drop the trailing '.' characters.
TrimDots(s) ==
  LET keep == {k \in 1 .. Len(s) : s[k] # Dot}
  IN SubSeq(s, 1, IF keep = {} THEN 0
                  ELSE CHOOSE k \in keep : \A j \in keep : j <= k)

Init == str \in Inputs /\ result = "pending"

\* Mutation of ValidateName used to test AcceptsExactlyNormalizedNames: the
\* length check off by one (len >= 20).
ValidateNameOffByOne ==
  /\ result = "pending"
  /\ result' = IF Len(str) >= NameLen THEN "too_long"
               ELSE IF TrimDots(Unpack(StringToName(str))) # str
                    THEN "not_normalized"
                    ELSE "ok"
  /\ UNCHANGED str

(***************************************************************************)
(* validate_name(str, error_handler): a string longer than NameLen is      *)
(* rejected first; otherwise it is rejected when it is not the normalized *)
(* form of its own packed value.                                          *)
(***************************************************************************)
ValidateName ==
  /\ result = "pending"
  /\ result' = IF Len(str) > NameLen THEN "too_long"
               ELSE IF TrimDots(Unpack(StringToName(str))) # str
                    THEN "not_normalized"
                    ELSE "ok"
  /\ UNCHANGED str

\* validate_name has returned; the caller's check is over.
Done == result # "pending" /\ UNCHANGED vars

Next == ValidateName \/ Done

Spec == Init /\ [][Next]_vars

-----------------------------------------------------------------------------
(***************************************************************************)
(* validate_name accepts exactly the normalized names: at most NameLen     *)
(* characters, each one of charmap's 50, and no trailing '.'.  Upper-case  *)
(* letters, which char_to_symbol folds onto lower case, characters it maps *)
(* to 0, embedded NULs that stop string_to_name early, and trailing dots   *)
(* that the packing cannot represent are all rejected.                     *)
(***************************************************************************)
AcceptsExactlyNormalizedNames ==
  result # "pending" =>
    (result = "ok" <=> /\ Len(str) <= NameLen
                       /\ \A k \in 1 .. Len(str) :
                             \E m \in 1 .. Len(Charmap) : Charmap[m] = str[k]
                       /\ Len(str) = 0 \/ str[Len(str)] # Dot)

=============================================================================
