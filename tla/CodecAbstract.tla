---------------------------- MODULE CodecAbstract ----------------------------
(***************************************************************************)
(* What the codec promises its callers for one top-level fixed-shape      *)
(* value (spec.md sections 6 and 7): serialize(value) produces its bytes  *)
(* in one step; deserialize of a source of len bytes returns the value    *)
(* when the source holds the serialized size, and otherwise fails with a *)
(* fatal stream-bounds condition and no partial result.                   *)
(***************************************************************************)
EXTENDS Naturals

CONSTANTS
  Values,   \* the values serialized
  Initial,  \* the value before anything is serialized or returned
  Size,     \* serialized_size of a value
  Lens      \* the lengths of the sources deserialized

VARIABLES
  aphase,  \* "idle", "serialized", "deserializing", "returned" or "failed"
  aval,    \* the value serialized
  alen,    \* the length of the source being deserialized
  aret     \* the value deserialize returned

absVars == <<aphase, aval, alen, aret>>

AInit ==
  /\ aphase = "idle" /\ aval = Initial /\ alen = 0 /\ aret = Initial

ASerialize(v) ==
  /\ aphase = "idle"
  /\ aphase' = "serialized" /\ aval' = v
  /\ UNCHANGED <<alen, aret>>

\* deserialize starts over the first len bytes of the serialized value.
AOpen(len) ==
  /\ aphase = "serialized"
  /\ aphase' = "deserializing" /\ alen' = len
  /\ UNCHANGED <<aval, aret>>

ADeserialize ==
  /\ aphase = "deserializing" /\ alen >= Size
  /\ aphase' = "returned" /\ aret' = aval
  /\ UNCHANGED <<aval, alen>>

AFail ==
  /\ aphase = "deserializing" /\ alen < Size
  /\ aphase' = "failed"
  /\ UNCHANGED <<aval, alen, aret>>

ANext ==
  \/ \E v \in Values : ASerialize(v)
  \/ \E len \in Lens : AOpen(len)
  \/ ADeserialize \/ AFail

ASpec == AInit /\ [][ANext]_absVars

=============================================================================
