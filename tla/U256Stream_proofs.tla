------------------------- MODULE U256Stream_proofs -------------------------
(***************************************************************************)
(* Proofs about pack and unpack of a uint256_t for every limb width, byte  *)
(* width, capacity and set of values: the codec round trip of U256Stream.  *)
(***************************************************************************)
EXTENDS U256Stream, TLAPS

\* pack_size of a uint256_t: four limbs of LimbBytes bytes.
PackedSize == WIDTH * LimbBytes

\* Byte a of the packed value v: byte a % LimbBytes of limb a \div LimbBytes.
PackedByte(v, a) == LimbToBytes(v[a \div LimbBytes])[(a % LimbBytes) + 1]

\* The first n limbs of val are in the storage, as operator<< wrote them.
Holds(n) == \A a \in 0 .. n * LimbBytes - 1 : mem[a] = PackedByte(val, a)

(***************************************************************************)
(* The inductive invariant: where each phase of pack and unpack has put    *)
(* the cursor, the counter and the bytes, limb by limb.                     *)
(***************************************************************************)
CodecType ==
  /\ phase \in {"idle", "size", "pack", "unpack"}
  /\ val \in UInt256 /\ got \in UInt256
  /\ i \in 0 .. WIDTH
  /\ lim \in 0 .. Cap

\* What each phase has done so far.
SizeInv == phase = "size" => cnt = i * LimbBytes /\ status = "ok"
PackInv == phase = "pack" => /\ lim = PackedSize /\ pos = i * LimbBytes
                             /\ status = "ok" /\ Holds(i)
UnpackInv == phase = "unpack" => /\ pos = i * LimbBytes /\ pos <= lim
                                 /\ Holds(WIDTH)
                                 /\ \A k \in 0 .. i - 1 : got[k] = val[k]

IInv ==
  /\ CodecType
  /\ phase = "idle" => cnt = 0 /\ status = "ok"
  /\ SizeInv /\ PackInv /\ UnpackInv

-----------------------------------------------------------------------------
(***************************************************************************)
(* Arithmetic of byte offsets, stated over fresh naturals so that the     *)
(* provers see only the facts a step needs.                                *)
(***************************************************************************)
\* Offset b of block k of n is at k * n + b, and lies in the first m blocks.
LEMMA DivModBlock ==
  ASSUME NEW n \in Nat \ {0}, NEW k \in Nat, NEW b \in 0 .. n - 1
  PROVE  (k * n + b) \div n = k /\ (k * n + b) % n = b
OBVIOUS

LEMMA BlockOffset ==
  ASSUME NEW n \in Nat \ {0}, NEW m \in Nat \ {0},
         NEW k \in 0 .. m - 1, NEW b \in 0 .. n - 1
  PROVE  k * n + b \in 0 .. m * n - 1
<1>1. k * n <= (m - 1) * n
  OBVIOUS
<1>. QED  BY <1>1

\* An offset in the first m blocks of n is in block j \div n at j % n.
LEMMA Digits ==
  ASSUME NEW n \in Nat \ {0}, NEW m \in Nat \ {0}, NEW j \in 0 .. m * n - 1
  PROVE  /\ j \div n \in 0 .. m - 1
         /\ j % n \in 0 .. n - 1
         /\ (j \div n) * n + (j % n) = j
OBVIOUS

\* The constants of the codec, as the proofs use them.
LEMMA CodecConstants ==
  /\ ByteBits \in Nat \ {0}
  /\ LimbBytes \in Nat \ {0}
  /\ LimbBits = LimbBytes * ByteBits
  /\ Bits = 0 .. LimbBytes * ByteBits - 1
<1>1. ByteBits \in Nat \ {0} /\ LimbBits \in Nat \ {0}
  BY LimbBitsAssumption, U256StreamAssumption
<1>2. LimbBytes \in Nat
  BY <1>1 DEF LimbBytes
<1>3. LimbBits = LimbBytes * ByteBits + (LimbBits % ByteBits)
  BY <1>1 DEF LimbBytes
<1>4. LimbBits % ByteBits = 0
  BY U256StreamAssumption
<1>5. LimbBits = LimbBytes * ByteBits
  BY <1>1, <1>2, <1>3, <1>4
<1>6. LimbBytes # 0
  BY <1>1, <1>2, <1>5
<1>. QED  BY <1>1, <1>2, <1>5, <1>6 DEF Bits

\* The linear facts about the sizes.
LEMMA CodecSizes ==
  /\ LimbBytes \in Nat \ {0}
  /\ Cap \in Nat /\ Slack \in Nat
  /\ WIDTH * LimbBytes <= Cap
  /\ LimbBytes <= MaxWrite
  /\ WIDTH = 4
<1>1. WIDTH * LimbBytes <= Cap /\ LimbBytes <= MaxWrite
  BY U256StreamAssumption
<1>. QED  BY <1>1, CodecConstants, DatastreamAssumption DEF WIDTH

\* Bit j of a limb is bit j % ByteBits of byte j \div ByteBits.
LEMMA BitOfByte ==
  ASSUME NEW j \in Bits
  PROVE  /\ j \div ByteBits \in 0 .. LimbBytes - 1
         /\ j % ByteBits \in 0 .. ByteBits - 1
         /\ (j \div ByteBits) * ByteBits + (j % ByteBits) = j
BY CodecConstants, Digits

\* Bit b of byte k of a limb is a bit of the limb.
LEMMA BitOfLimb ==
  ASSUME NEW k \in 0 .. LimbBytes - 1, NEW b \in 0 .. ByteBits - 1
  PROVE  k * ByteBits + b \in Bits
BY CodecConstants, BlockOffset

-----------------------------------------------------------------------------
(***************************************************************************)
(* A limb written as LimbBytes little-endian bytes and read back.          *)
(***************************************************************************)
LEMMA LimbToBytesType ==
  ASSUME NEW l \in Limb
  PROVE  /\ LimbToBytes(l) \in [1 .. LimbBytes -> Bytes]
         /\ LimbToBytes(l) \in Seq(Bytes)
         /\ Len(LimbToBytes(l)) = LimbBytes
<1>1. ASSUME NEW k \in 1 .. LimbBytes, NEW b \in 0 .. ByteBits - 1
      PROVE  l[(k - 1) * ByteBits + b] \in {0, 1}
  <2>1. k - 1 \in 0 .. LimbBytes - 1
    BY CodecConstants
  <2>2. (k - 1) * ByteBits + b \in Bits
    BY <2>1, BitOfLimb
  <2>. QED  BY <2>2 DEF Limb
<1>2. \A k \in 1 .. LimbBytes :
        LimbToBytes(l)[k] = [b \in 0 .. ByteBits - 1 |-> l[(k - 1) * ByteBits + b]]
  BY DEF LimbToBytes
<1>3. \A k \in 1 .. LimbBytes :
        [b \in 0 .. ByteBits - 1 |-> l[(k - 1) * ByteBits + b]] \in Bytes
  BY <1>1, U256StreamAssumption
<1>4. LimbToBytes(l) \in [1 .. LimbBytes -> Bytes]
  BY <1>2, <1>3, CodecConstants DEF LimbToBytes
<1>. QED  BY <1>4, CodecConstants

\* Bit b of byte k of the bytes of a limb.
LEMMA LimbToBytesAt ==
  ASSUME NEW l, NEW k \in 1 .. LimbBytes, NEW b \in 0 .. ByteBits - 1
  PROVE  LimbToBytes(l)[k][b] = l[(k - 1) * ByteBits + b]
BY DEF LimbToBytes

LEMMA BytesRoundTrip ==
  ASSUME NEW l \in Limb
  PROVE  BytesToLimb(LimbToBytes(l)) = l
<1>1. ASSUME NEW j \in Bits
      PROVE  LimbToBytes(l)[(j \div ByteBits) + 1][j % ByteBits] = l[j]
  <2>1. /\ j \div ByteBits \in 0 .. LimbBytes - 1
        /\ j % ByteBits \in 0 .. ByteBits - 1
        /\ (j \div ByteBits) * ByteBits + (j % ByteBits) = j
    BY BitOfByte
  <2>2. (j \div ByteBits) + 1 \in 1 .. LimbBytes
    BY <2>1, CodecConstants
  <2>3. LimbToBytes(l)[(j \div ByteBits) + 1][j % ByteBits]
          = l[((j \div ByteBits) + 1 - 1) * ByteBits + (j % ByteBits)]
    BY <2>1, <2>2, LimbToBytesAt
  <2>4. ((j \div ByteBits) + 1 - 1) * ByteBits + (j % ByteBits) = j
    BY <2>1, CodecConstants
  <2>. QED  BY <2>3, <2>4
<1>. QED  BY <1>1 DEF BytesToLimb, Limb

\* An offset in the first k + 1 blocks is in the first k or in block k.
LEMMA NextBlock ==
  ASSUME NEW n \in Nat \ {0}, NEW k \in Nat, NEW a \in 0 .. (k + 1) * n - 1
  PROVE  a \in 0 .. k * n - 1 \/ a - k * n \in 0 .. n - 1
<1>1. (k + 1) * n = k * n + n
  OBVIOUS
<1>. QED  BY <1>1

\* Fewer than WIDTH limbs written leaves room for one more.
LEMMA RoomForLimb ==
  ASSUME NEW n \in Nat \ {0}, NEW k \in 0 .. WIDTH - 1
  PROVE  /\ WIDTH * n - k * n >= n
         /\ k * n + n = (k + 1) * n
         /\ (k + 1) * n <= WIDTH * n
<1>1. k \in 0 .. 3
  BY DEF WIDTH
<1>. QED  BY <1>1 DEF WIDTH

\* Byte b of limb k of the packed value.
LEMMA PackedByteAt ==
  ASSUME NEW v, NEW k \in Nat, NEW b \in 0 .. LimbBytes - 1
  PROVE  PackedByte(v, k * LimbBytes + b) = LimbToBytes(v[k])[b + 1]
BY CodecConstants, DivModBlock DEF PackedByte

-----------------------------------------------------------------------------
(***************************************************************************)
(* The invariant is inductive.                                             *)
(***************************************************************************)
LEMMA ZeroType == Zero \in UInt256
BY DEF Zero, ZeroLimb, UInt256, Limb

LEMMA InitIInv == CodecInit => IInv
<1>. SUFFICES ASSUME CodecInit PROVE IInv
  OBVIOUS
<1>1. Cap \in Nat
  BY DatastreamAssumption
<1>. QED  BY <1>1, ZeroType DEF CodecInit, Init, IInv, CodecType, WIDTH, SizeInv,
                         PackInv, UnpackInv

\* One limb written by operator<< extends what the storage holds.
LEMMA WriteLimb ==
  ASSUME IInv, phase = "pack", i \in 0 .. WIDTH - 1,
         Write(LimbToBytes(val[i]))
  PROVE  /\ status' = "ok" /\ pos' = (i + 1) * LimbBytes /\ lim' = lim
         /\ \A a \in 0 .. (i + 1) * LimbBytes - 1 : mem'[a] = PackedByte(val, a)
<1>. DEFINE d == LimbToBytes(val[i])
            n == LimbBytes
<1>0. i \in 0 .. 3 /\ status = "ok"
  BY CodecSizes DEF IInv, PackInv
<1>1. val[i] \in Limb
  BY CodecSizes DEF IInv, CodecType, UInt256, Limbs
<1>2. d \in [1 .. n -> Bytes] /\ Len(d) = n
  BY <1>1, LimbToBytesType
<1>3. /\ pos = i * n /\ lim = WIDTH * n
      /\ \A a \in 0 .. i * n - 1 : mem[a] = PackedByte(val, a)
  BY DEF IInv, PackInv, PackedSize, Holds
<1>4. /\ lim - pos >= n
      /\ pos + n = (i + 1) * n
      /\ (i + 1) * n <= Cap
  <2>1. /\ WIDTH * n - i * n >= n
        /\ i * n + n = (i + 1) * n
        /\ (i + 1) * n <= WIDTH * n
    BY <1>0, CodecSizes, RoomForLimb
  <2>. QED  BY <1>3, <2>1, CodecSizes
<1>5. /\ mem' = [a \in Addr |-> IF pos <= a /\ a < pos + n
                                  THEN d[a - pos + 1] ELSE mem[a]]
      /\ pos' = pos + n /\ status' = status /\ lim' = lim
  <2>1. ~(Remaining < Len(d))
    BY <1>0, <1>2, <1>3, <1>4, CodecSizes DEF Remaining
  <2>. QED  BY <1>0, <1>2, <2>1 DEF Write
<1>6. ASSUME NEW a \in 0 .. (i + 1) * n - 1
      PROVE  mem'[a] = PackedByte(val, a)
  <2>1. a \in Addr
    BY <1>4, CodecSizes DEF Addr
  <2>2. a \in 0 .. i * n - 1 \/ a - i * n \in 0 .. n - 1
    BY <1>0, NextBlock, CodecSizes
  <2>3. CASE a \in 0 .. i * n - 1
    <3>1. ~(pos <= a)
      BY <1>3, <2>3
    <3>. QED  BY <1>3, <1>5, <2>1, <2>3, <3>1
  <2>4. CASE a - i * n \in 0 .. n - 1
    <3>1. PackedByte(val, i * n + (a - i * n)) = d[(a - i * n) + 1]
      BY <1>0, <2>4, PackedByteAt
    <3>2. pos <= a /\ a < pos + n /\ a - pos + 1 = (a - i * n) + 1
      BY <1>3, <2>4, CodecSizes
    <3>3. mem'[a] = d[(a - i * n) + 1]
      BY <1>5, <2>1, <3>2
    <3>4. i * n + (a - i * n) = a
      BY <1>0, CodecSizes
    <3>. QED  BY <3>1, <3>3, <3>4
  <2>. QED  BY <2>2, <2>3, <2>4
<1>. QED  BY <1>0, <1>2, <1>4, <1>5, <1>6

\* One limb read by operator>> is the limb operator<< wrote.
LEMMA ReadLimb ==
  ASSUME IInv, phase = "unpack", i \in 0 .. WIDTH - 1,
         Read(LimbBytes), status' = "ok"
  PROVE  /\ pos' = (i + 1) * LimbBytes /\ pos' <= lim
         /\ lim' = lim /\ mem' = mem
         /\ BytesToLimb(out') = val[i]
<1>. DEFINE n == LimbBytes
<1>0. i \in 0 .. 3 /\ lim \in Nat
  BY CodecSizes DEF IInv, CodecType
<1>1. val[i] \in Limb
  BY CodecSizes DEF IInv, CodecType, UInt256, Limbs
<1>2. /\ pos = i * n /\ pos <= lim
      /\ \A a \in 0 .. WIDTH * n - 1 : mem[a] = PackedByte(val, a)
  BY DEF IInv, UnpackInv, Holds
<1>3. /\ lim - pos >= n
      /\ out' = [k \in 1 .. n |-> mem[pos + k - 1]]
      /\ pos' = pos + n
      /\ UNCHANGED <<mem, lim>>
  BY DEF Read, Fail, Remaining
<1>4. pos + n = (i + 1) * n /\ (i + 1) * n <= lim
  <2>1. i * n + n = (i + 1) * n
    BY <1>0, CodecSizes, RoomForLimb
  <2>. QED  BY <1>0, <1>2, <1>3, <2>1, CodecSizes
<1>5. out' = LimbToBytes(val[i])
  <2>1. ASSUME NEW k \in 1 .. n
        PROVE  mem[pos + k - 1] = LimbToBytes(val[i])[k]
    <3>1. k - 1 \in 0 .. n - 1 /\ pos + k - 1 = i * n + (k - 1)
      BY <1>2, CodecSizes
    <3>2. i * n + (k - 1) \in 0 .. WIDTH * n - 1
      BY <1>0, <3>1, BlockOffset, CodecSizes
    <3>3. PackedByte(val, i * n + (k - 1)) = LimbToBytes(val[i])[(k - 1) + 1]
      BY <1>0, <3>1, PackedByteAt
    <3>. QED  BY <1>2, <3>1, <3>2, <3>3
  <2>2. LimbToBytes(val[i]) \in [1 .. n -> Bytes]
    BY <1>1, LimbToBytesType
  <2>. QED  BY <1>3, <2>1, <2>2
<1>. QED  BY <1>1, <1>3, <1>4, <1>5, BytesRoundTrip

\* A step into a phase keeps IInv when it establishes that phase's part.
LEMMA InSize ==
  ASSUME CodecType', phase' = "size", SizeInv' PROVE IInv'
BY DEF IInv, PackInv, UnpackInv

LEMMA InPack ==
  ASSUME CodecType', phase' = "pack", PackInv' PROVE IInv'
BY DEF IInv, SizeInv, UnpackInv

LEMMA InUnpack ==
  ASSUME CodecType', phase' = "unpack", UnpackInv' PROVE IInv'
BY DEF IInv, SizeInv, PackInv

LEMMA NextIInv == IInv /\ [CodecNext]_allVars => IInv'
<1>. SUFFICES ASSUME IInv, [CodecNext]_allVars PROVE IInv'
  OBVIOUS
<1>0. /\ i \in 0 .. 4 /\ phase \in {"idle", "size", "pack", "unpack"}
      /\ val \in UInt256 /\ got \in UInt256 /\ lim \in 0 .. Cap
  BY CodecSizes DEF IInv, CodecType
<1>1. ASSUME NEW v \in Values, Start(v) PROVE IInv'
  <2>1. v \in UInt256
    BY U256StreamAssumption
  <2>2. CodecType'
    BY <1>0, <1>1, <2>1, CodecSizes DEF Start, CodecType
  <2>3. cnt' = 0 * LimbBytes /\ status' = "ok"
    BY <1>1, CodecSizes DEF Start, IInv
  <2>. QED  BY <1>1, <2>2, <2>3, InSize DEF Start, SizeInv
<1>2. CASE SizeLimb
  <2>1. i + 1 \in 0 .. 4 /\ i * LimbBytes + LimbBytes = (i + 1) * LimbBytes
    BY <1>0, <1>2, CodecSizes, RoomForLimb DEF SizeLimb
  <2>2. CodecType'
    BY <1>0, <1>2, <2>1, CodecSizes DEF SizeLimb, CountWrite, cursorVars, CodecType
  <2>3. SizeInv'
    BY <1>2, <2>1 DEF SizeLimb, CountWrite, cursorVars, IInv, SizeInv
  <2>. QED  BY <1>2, <2>2, <2>3, InSize DEF SizeLimb
<1>3. CASE OpenPack
  <2>1. cnt = PackedSize /\ PackedSize \in 0 .. Cap
    BY <1>0, <1>3, CodecSizes DEF OpenPack, IInv, SizeInv, PackedSize
  <2>2. CodecType'
    BY <1>0, <1>3, <2>1 DEF OpenPack, Open, CodecType
  <2>3. Holds(0)'
    BY CodecSizes DEF Holds
  <2>4. PackInv'
    BY <1>3, <2>1, <2>3, CodecSizes DEF OpenPack, Open, IInv, SizeInv, PackInv
  <2>. QED  BY <1>3, <2>2, <2>4, InPack DEF OpenPack
<1>4. CASE PackLimb
  <2>1. i \in 0 .. WIDTH - 1 /\ i + 1 \in 0 .. 4
    BY <1>0, <1>4, CodecSizes DEF PackLimb
  <2>2. /\ status' = "ok" /\ pos' = (i + 1) * LimbBytes /\ lim' = lim
        /\ \A a \in 0 .. (i + 1) * LimbBytes - 1 : mem'[a] = PackedByte(val, a)
    BY <1>4, <2>1, WriteLimb DEF PackLimb
  <2>3. i' = i + 1 /\ UNCHANGED <<phase, val, got>>
    BY <1>4, <2>2 DEF PackLimb
  <2>4. CodecType'
    BY <1>0, <2>1, <2>2, <2>3, CodecSizes DEF CodecType
  <2>5. PackInv'
    BY <1>4, <2>2, <2>3 DEF PackLimb, IInv, PackInv, Holds
  <2>. QED  BY <1>4, <2>3, <2>4, <2>5, InPack DEF PackLimb
<1>5. ASSUME NEW len \in 0 .. Cap, OpenUnpack(len) PROVE IInv'
  <2>1. Holds(WIDTH) /\ status = "ok"
    BY <1>5 DEF OpenUnpack, IInv, PackInv
  <2>2. Holds(WIDTH)'
    BY <1>5, <2>1 DEF OpenUnpack, Open, Holds
  <2>3. CodecType'
    BY <1>0, <1>5 DEF OpenUnpack, Open, CodecType
  <2>4. UnpackInv'
    BY <1>5, <2>2, CodecSizes DEF OpenUnpack, Open, UnpackInv
  <2>. QED  BY <1>5, <2>3, <2>4, InUnpack DEF OpenUnpack
<1>6. CASE UnpackLimb
  <2>1. i \in 0 .. WIDTH - 1 /\ i + 1 \in 0 .. 4 /\ Read(LimbBytes)
    BY <1>0, <1>6, CodecSizes DEF UnpackLimb
  <2>2. CASE status' = "ok"
    <3>1. /\ pos' = (i + 1) * LimbBytes /\ pos' <= lim
          /\ lim' = lim /\ mem' = mem
          /\ BytesToLimb(out') = val[i]
      BY <1>6, <2>1, <2>2, ReadLimb DEF UnpackLimb
    <3>2. /\ got' = [got EXCEPT ![i] = val[i]] /\ i' = i + 1
          /\ UNCHANGED <<phase, val>>
      BY <1>6, <2>2, <3>1 DEF UnpackLimb
    <3>3. CodecType'
      BY <1>0, <2>1, <3>1, <3>2, CodecSizes DEF CodecType, UInt256, Limbs
    <3>4. \A k \in 0 .. i - 1 : got[k] = val[k]
      BY <1>6 DEF UnpackLimb, IInv, UnpackInv
    <3>5. \A k \in 0 .. i' - 1 : got'[k] = val'[k]
      BY <1>0, <2>1, <3>2, <3>4, CodecSizes DEF UInt256, Limbs
    <3>6. Holds(WIDTH)'
      BY <1>6, <3>1, <3>2 DEF UnpackLimb, IInv, UnpackInv, Holds
    <3>7. UnpackInv'
      BY <3>1, <3>2, <3>5, <3>6 DEF UnpackInv
    <3>. QED  BY <1>6, <3>2, <3>3, <3>7, InUnpack DEF UnpackLimb
  <2>3. CASE status' # "ok"
    <3>1. UNCHANGED <<mem, pos, lim, got, i, phase, val>>
      BY <1>6, <2>1, <2>3 DEF UnpackLimb, Read, Fail
    <3>2. CodecType'
      BY <1>0, <3>1, CodecSizes DEF CodecType
    <3>3. UnpackInv'
      BY <1>6, <3>1 DEF UnpackLimb, IInv, UnpackInv, Holds
    <3>. QED  BY <1>6, <3>1, <3>2, <3>3, InUnpack DEF UnpackLimb
  <2>. QED  BY <2>2, <2>3
<1>7. CASE Finished \/ UNCHANGED allVars
  BY <1>7 DEF Finished, allVars, IInv, CodecType, SizeInv, PackInv, UnpackInv,
              Holds
<1>. QED  BY <1>1, <1>2, <1>3, <1>4, <1>5, <1>6, <1>7 DEF CodecNext

-----------------------------------------------------------------------------
\* The invariant gives the round trip.
LEMMA IInvRoundTrip == IInv => CodecRoundTrip
<1>. SUFFICES ASSUME IInv PROVE CodecRoundTrip
  OBVIOUS
<1>1. phase = "pack" => status = "ok"
  BY DEF IInv, PackInv
<1>2. ASSUME phase = "unpack", i = WIDTH PROVE got = val
  <2>1. \A k \in 0 .. 3 : got[k] = val[k]
    BY <1>2, CodecSizes DEF IInv, UnpackInv
  <2>. QED  BY <2>1, CodecSizes DEF IInv, CodecType, UInt256, Limbs
<1>3. ASSUME phase = "unpack", lim < WIDTH * LimbBytes PROVE i < WIDTH
  <2>1. i \in 0 .. 4 /\ i * LimbBytes <= lim /\ lim \in Nat
    BY <1>3, CodecSizes DEF IInv, CodecType, UnpackInv
  <2>. QED  BY <1>3, <2>1, CodecSizes
<1>. QED  BY <1>1, <1>2, <1>3 DEF CodecRoundTrip

(***************************************************************************)
(* For every limb width, byte width, capacity and set of values, pack and  *)
(* unpack of a uint256_t agree: operator<< never fails on the buffer that  *)
(* pack_size sized, operator>> reading all four limbs from it returns the  *)
(* value packed, and reading from a prefix shorter than the packed size   *)
(* fails before the last limb.  The argument is the invariant IInv: after *)
(* k limbs the cursor is at k * LimbBytes and the storage holds the bytes  *)
(* of those limbs, little-endian, which BytesToLimb turns back into them.  *)
(***************************************************************************)
THEOREM CodecRoundTripHolds == CodecSpec => []CodecRoundTrip
<1>1. CodecInit => IInv
  BY InitIInv
<1>2. IInv /\ [CodecNext]_allVars => IInv'
  BY NextIInv
<1>3. IInv => CodecRoundTrip
  BY IInvRoundTrip
<1>. QED  BY <1>1, <1>2, <1>3, PTL DEF CodecSpec

\* The invariant the codec run checks holds in every reachable state of
\* pack_size, operator<< and operator>> on uint256: the cursor, the buffer
\* size and the bytes written or read agree limb by limb.
THEOREM CodecIInvHolds == CodecSpec => []IInv
BY InitIInv, NextIInv, PTL DEF CodecSpec

-----------------------------------------------------------------------------
(***************************************************************************)
(* Refinement of CodecAbstract.  The step map: pack_size, the buffer and   *)
(* every operator<< write but the last are stutters; the fourth write is   *)
(* serialize; datastream ds(buffer, len) of unpack is the open of a       *)
(* source of len bytes; every operator>> read but the last is a stutter;  *)
(* the fourth read is deserialize and a failed read is the failure.       *)
(***************************************************************************)

\* A uint256_t is its four limbs.
LEMMA LimbsEqual ==
  ASSUME NEW g \in UInt256, NEW v \in UInt256, \A k \in 0 .. 3 : g[k] = v[k]
  PROVE  g = v
BY CodecSizes DEF UInt256, Limbs

\* IInv and, once pack has begun, the value packed is one of Values: the
\* value serialize is given.
RInv == IInv /\ (phase # "idle" => val \in Values)

LEMMA RInvInductive ==
  /\ CodecInit => RInv
  /\ RInv /\ [CodecNext]_allVars => RInv'
<1>1. CodecInit => RInv
  BY InitIInv DEF CodecInit, RInv
<1>2. ASSUME RInv, [CodecNext]_allVars PROVE RInv'
  <2>1. IInv'
    BY <1>2, NextIInv DEF RInv
  <2>2. phase' # "idle" => val' \in Values
    BY <1>2 DEF RInv, CodecNext, Start, SizeLimb, OpenPack, PackLimb,
                OpenUnpack, UnpackLimb, Finished, allVars
  <2>. QED  BY <2>1, <2>2 DEF RInv
<1>. QED  BY <1>1, <1>2

LEMMA StepRefines == RInv /\ [CodecNext]_allVars => [C!ANext]_C!absVars
<1>. SUFFICES ASSUME RInv, [CodecNext]_allVars PROVE [C!ANext]_C!absVars
  OBVIOUS
<1>0. /\ i \in 0 .. 4 /\ WIDTH = 4 /\ LimbBytes \in Nat \ {0}
      /\ lim \in Nat
  BY CodecSizes DEF RInv, IInv, CodecType
<1>1. ASSUME NEW v \in Values, Start(v) PROVE UNCHANGED C!absVars
  BY <1>1 DEF Start, C!absVars, CodecPhase
<1>2. CASE SizeLimb
  BY <1>2 DEF SizeLimb, CountWrite, cursorVars, C!absVars, CodecPhase
<1>3. CASE OpenPack
  BY <1>0, <1>3 DEF OpenPack, Open, C!absVars, CodecPhase
<1>4. CASE PackLimb
  <2>1. i \in 0 .. WIDTH - 1 /\ phase = "pack"
    BY <1>0, <1>4 DEF PackLimb
  <2>2. status' = "ok" /\ status = "ok"
    BY <1>4, <2>1, WriteLimb DEF PackLimb, RInv, IInv, PackInv
  <2>3. i' = i + 1 /\ UNCHANGED <<phase, val, got>>
    BY <1>4, <2>2 DEF PackLimb
  <2>4. CASE i + 1 < WIDTH
    <3>. UNCHANGED C!absVars
      BY <1>0, <2>1, <2>3, <2>4 DEF C!absVars, CodecPhase
    <3>. QED  OBVIOUS
  <2>5. CASE i + 1 = WIDTH
    <3>1. val \in Values
      BY <2>1 DEF RInv
    <3>2. C!ASerialize(val)
      BY <1>0, <2>1, <2>3, <2>5 DEF C!ASerialize, CodecPhase
    <3>. QED  BY <3>1, <3>2 DEF C!ANext
  <2>. QED  BY <1>0, <2>1, <2>4, <2>5
<1>5. ASSUME NEW len \in 0 .. Cap, OpenUnpack(len) PROVE C!ANext
  <2>1. status = "ok"
    BY <1>5 DEF OpenUnpack, RInv, IInv, PackInv
  <2>2. C!AOpen(len)
    BY <1>0, <1>5, <2>1 DEF OpenUnpack, Open, C!AOpen, CodecPhase
  <2>. QED  BY <2>2 DEF C!ANext
<1>6. CASE UnpackLimb
  <2>1. /\ i \in 0 .. WIDTH - 1 /\ phase = "unpack" /\ status = "ok"
        /\ Read(LimbBytes) /\ UNCHANGED <<phase, val>>
    BY <1>0, <1>6 DEF UnpackLimb, Read
  <2>2. CASE status' = "ok"
    <3>1. pos' = (i + 1) * LimbBytes /\ pos' <= lim /\ lim' = lim
      BY <2>1, <2>2, ReadLimb DEF RInv
    <3>2. i' = i + 1
      BY <1>6, <2>2 DEF UnpackLimb
    <3>3. CASE i + 1 < WIDTH
      <4>. UNCHANGED C!absVars
        BY <1>0, <2>1, <2>2, <3>1, <3>2, <3>3 DEF C!absVars, CodecPhase
      <4>. QED  OBVIOUS
    <3>4. CASE i + 1 = WIDTH
      <4>1. IInv'
        BY NextIInv DEF RInv
      <4>2. \A k \in 0 .. 3 : got'[k] = val'[k]
        BY <1>0, <2>1, <3>2, <3>4, <4>1 DEF IInv, UnpackInv
      <4>3. got' = val
        BY <2>1, <4>1, <4>2, LimbsEqual DEF IInv, CodecType
      <4>4. lim >= WIDTH * LimbBytes
        BY <3>1, <3>4
      <4>5. C!ADeserialize
        BY <1>0, <2>1, <2>2, <3>1, <3>2, <3>4, <4>3, <4>4
        DEF C!ADeserialize, CodecPhase
      <4>. QED  BY <4>5 DEF C!ANext
    <3>. QED  BY <1>0, <2>1, <3>3, <3>4
  <2>3. CASE status' # "ok"
    <3>1. Remaining < LimbBytes /\ status' = "out_of_range"
          /\ UNCHANGED <<lim, got, i>>
      BY <1>6, <2>1, <2>3 DEF UnpackLimb, Read, Fail
    <3>2. lim < WIDTH * LimbBytes
      <4>1. pos = i * LimbBytes
        BY <2>1 DEF RInv, IInv, UnpackInv
      <4>2. (i + 1) * LimbBytes <= WIDTH * LimbBytes
            /\ i * LimbBytes + LimbBytes = (i + 1) * LimbBytes
        BY <1>0, <2>1, RoomForLimb
      <4>. QED  BY <1>0, <3>1, <4>1, <4>2 DEF Remaining
    <3>3. C!AFail
      BY <2>1, <3>1, <3>2 DEF C!AFail, CodecPhase
    <3>. QED  BY <3>3 DEF C!ANext
  <2>. QED  BY <2>2, <2>3
<1>7. CASE Finished \/ UNCHANGED allVars
  BY <1>7 DEF Finished, allVars, C!absVars, CodecPhase
<1>. QED  BY <1>1, <1>2, <1>3, <1>4, <1>5, <1>6, <1>7 DEF CodecNext

(***************************************************************************)
(* For every limb width, byte width, capacity and set of values, pack and  *)
(* unpack of a uint256_t implement CodecAbstract: the limb-by-limb         *)
(* operator<< and operator>> are one serialize and one deserialize, which *)
(* returns the value packed when the source holds pack_size bytes and     *)
(* fails, with no value returned, when it does not.  The argument is the   *)
(* step map above, under RInv: the cursor positions of IInv give the      *)
(* length test of deserialize, and its stored bytes give the value.       *)
(***************************************************************************)
THEOREM CodecRefinement == CodecSpec => CodecRefines
<1>1. CodecInit => C!AInit
  BY DEF CodecInit, Init, C!AInit, CodecPhase
<1>2. CodecInit => RInv
  BY RInvInductive
<1>3. RInv /\ [CodecNext]_allVars => RInv'
  BY RInvInductive
<1>4. RInv /\ [CodecNext]_allVars => [C!ANext]_C!absVars
  BY StepRefines
<1>. QED  BY <1>1, <1>2, <1>3, <1>4, PTL DEF CodecSpec, CodecRefines, C!ASpec

=============================================================================
