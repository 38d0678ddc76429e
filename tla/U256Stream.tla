----------------------------- MODULE U256Stream -----------------------------
(***************************************************************************)
(* The codec of uint256_t (uint256_t.hpp, operator<< and operator>> on a   *)
(* DataStream) composed with the cursor of Datastream, the way the        *)
(* library's pack and unpack use it:                                       *)
(*   pack(v):   size = pack_size(v), counted by the counting cursor;      *)
(*              a buffer of size bytes; datastream ds(buffer, size); ds << v *)
(*   unpack:    datastream ds(buffer, len); ds >> t                        *)
(* where len may be shorter than the packed size (a truncated source).     *)
(*                                                                         *)
(* ds << t writes the four limbs, limb 0 first, each as one write of       *)
(* sizeof(uint64_t) bytes in little-endian order; ds >> t reads them back *)
(* in the same order.  A byte is ByteBits bits, so a limb of LimbBits bits *)
(* is LimbBytes bytes.                                                     *)
(***************************************************************************)
EXTENDS U256, Datastream

CONSTANTS
  ByteBits,  \* bits of a byte (8 in the code)
  Values     \* the uint256_t values packed

LimbBytes == LimbBits \div ByteBits

ASSUME U256StreamAssumption ==
  /\ ByteBits \in Nat \ {0}
  /\ LimbBits % ByteBits = 0
  /\ Bytes = [0 .. ByteBits - 1 -> {0, 1}]
  /\ LimbBytes <= MaxWrite
  /\ WIDTH * LimbBytes <= Cap  \* the storage holds the pack_size bytes
  /\ Values \subseteq UInt256

VARIABLES
  phase,  \* the step of pack and unpack the program is at
  val,    \* the value packed
  i,      \* the limb the current operator<< or operator>> is at
  got     \* the value unpacked

codecVars == <<phase, val, i, got>>
allVars == <<mem, pos, lim, status, out, cnt, phase, val, i, got>>

\* The little-endian bytes of a limb, and the limb of little-endian bytes.
LimbToBytes(l) ==
  [k \in 1 .. LimbBytes |-> [b \in 0 .. ByteBits - 1 |-> l[(k - 1) * ByteBits + b]]]
BytesToLimb(s) ==
  [j \in Bits |-> s[(j \div ByteBits) + 1][j % ByteBits]]

CodecInit ==
  /\ Init
  /\ phase = "idle" /\ val = Zero /\ i = 0 /\ got = Zero

\* pack(v) begins: pack_size(v) runs ds << v on a counting cursor.
Start(v) ==
  /\ phase = "idle"
  /\ phase' = "size" /\ val' = v /\ i' = 0
  /\ UNCHANGED <<mem, pos, lim, status, out, cnt, got>>

\* One ds << t.value[i] of pack_size: the counter advances by the limb size.
SizeLimb ==
  /\ phase = "size" /\ i < WIDTH
  /\ CountWrite(LimbBytes)
  /\ i' = i + 1
  /\ UNCHANGED <<phase, val, got>>

\* The buffer of pack_size(v) bytes and the datastream over it.
OpenPack ==
  /\ phase = "size" /\ i = WIDTH
  /\ Open(cnt)
  /\ phase' = "pack" /\ i' = 0
  /\ UNCHANGED <<val, got>>

\* Mutation of PackLimb used to test IInv: the limbs written most
\* significant first.
PackLimbReversed ==
  /\ phase = "pack" /\ i < WIDTH
  /\ Write(LimbToBytes(val[WIDTH - 1 - i]))
  /\ IF status' = "ok" THEN i' = i + 1 ELSE UNCHANGED i
  /\ UNCHANGED <<phase, val, got>>

\* One ds << t.value[i] of operator<<(DataStream&, const uint256_t&).
PackLimb ==
  /\ phase = "pack" /\ i < WIDTH
  /\ Write(LimbToBytes(val[i]))
  /\ IF status' = "ok" THEN i' = i + 1 ELSE UNCHANGED i
  /\ UNCHANGED <<phase, val, got>>

\* unpack from the first len bytes of the buffer: datastream ds(buffer, len).
OpenUnpack(len) ==
  /\ phase = "pack" /\ i = WIDTH
  /\ Open(len)
  /\ phase' = "unpack" /\ i' = 0
  /\ UNCHANGED <<val, got>>

\* Mutation of UnpackLimb used to test CodecRoundTrip: the limbs read back
\* most significant first.
UnpackLimbReversed ==
  /\ phase = "unpack" /\ i < WIDTH
  /\ Read(LimbBytes)
  /\ IF status' = "ok"
       THEN got' = [got EXCEPT ![WIDTH - 1 - i] = BytesToLimb(out')] /\ i' = i + 1
       ELSE UNCHANGED <<got, i>>
  /\ UNCHANGED <<phase, val>>

\* One ds >> t.value[i] of operator>>(DataStream&, uint256_t&).
UnpackLimb ==
  /\ phase = "unpack" /\ i < WIDTH
  /\ Read(LimbBytes)
  /\ IF status' = "ok"
       THEN got' = [got EXCEPT ![i] = BytesToLimb(out')] /\ i' = i + 1
       ELSE UNCHANGED <<got, i>>
  /\ UNCHANGED <<phase, val>>

\* unpack has returned t, or a stream operation has failed.
Finished ==
  /\ (phase = "unpack" /\ i = WIDTH) \/ status = "out_of_range"
  /\ UNCHANGED allVars

CodecNext ==
  \/ \E v \in Values : Start(v)
  \/ SizeLimb \/ OpenPack \/ PackLimb
  \/ \E len \in 0 .. Cap : OpenUnpack(len)
  \/ UnpackLimb
  \/ Finished

CodecSpec == CodecInit /\ [][CodecNext]_allVars

-----------------------------------------------------------------------------
(***************************************************************************)
(* pack and unpack of a uint256_t agree: the buffer sized by the counting *)
(* cursor holds every limb operator<< writes (no write of pack fails), an *)
(* unpack that reads all four limbs returns the value packed, and an       *)
(* unpack from a source shorter than the packed size fails rather than    *)
(* returning a value.                                                      *)
(***************************************************************************)
CodecRoundTrip ==
  /\ phase = "pack" => status = "ok"
  /\ phase = "unpack" /\ i = WIDTH => got = val
  /\ phase = "unpack" /\ lim < WIDTH * LimbBytes => i < WIDTH

(***************************************************************************)
(* The limb loops seen as one serialize and one deserialize: the value is  *)
(* serialized once the fourth limb is written, deserialize has returned    *)
(* once the fourth limb is read, and it has failed once a read failed.     *)
(***************************************************************************)
CodecPhase ==
  IF phase = "unpack"
    THEN IF status = "out_of_range" THEN "failed"
         ELSE IF i = WIDTH THEN "returned" ELSE "deserializing"
    ELSE IF phase = "pack" /\ i = WIDTH THEN "serialized" ELSE "idle"

C == INSTANCE CodecAbstract
       WITH aphase <- CodecPhase,
            aval <- IF CodecPhase = "idle" THEN Zero ELSE val,
            alen <- IF phase = "unpack" THEN lim ELSE 0,
            aret <- IF CodecPhase = "returned" THEN got ELSE Zero,
            Initial <- Zero, Size <- WIDTH * LimbBytes, Lens <- 0 .. Cap

(***************************************************************************)
(* pack and unpack of a uint256_t implement the atomic serialize and      *)
(* deserialize of spec.md: the four operator<< writes and the four        *)
(* operator>> reads return the value packed exactly when the source holds *)
(* pack_size bytes, and a read that fails part-way leaves no returned     *)
(* value, whatever limbs were read before it.                             *)
(***************************************************************************)
CodecRefines == C!ASpec

=============================================================================
