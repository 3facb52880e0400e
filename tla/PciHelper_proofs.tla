-------------------------- MODULE PciHelper_proofs --------------------------
(***************************************************************************)
(* The codec for every length and every frame: what is unpacked is what    *)
(* was packed, whatever the frame buffer held before, unless the length is *)
(* one of the two greatest.                                                *)
(***************************************************************************)
EXTENDS PciHelper, TLAPS

\* A length has 32 bits.
Lengths == {n \in Nat \ {0} : Shift24(n) < 256}

\* The sum of length and protocol information of a single frame has 32 bits too; this
\* leaves out 2^32 - 1, and 2^32 - 2 with CAN FD.
SumFits(length, candl) == Shift24(SfPciLen(candl) + length) < 256

-----------------------------------------------------------------------------
(* Arithmetic of the bytes of a length.                                    *)

\* A number and its lowest byte.
LEMMA Digit ==
    ASSUME NEW n \in Nat
    PROVE  /\ Shift8(n) \in Nat /\ n % 256 \in Byte
           /\ Shift8(n) * 256 + (n % 256) = n
  BY Z3 DEF Shift8, Byte

\* A 12 bit length and its two parts.
LEMMA ShortDigits ==
    ASSUME NEW n \in 0 .. SHORT_FF_MAX
    PROVE  /\ Shift8(n) \in 0 .. 15
           /\ n % 256 \in Byte
           /\ Shift8(n) * 256 + (n % 256) = n
  BY Z3 DEF Shift8, Byte, SHORT_FF_MAX

\* A 32 bit length and its four bytes.
LEMMA LongDigits ==
    ASSUME NEW n \in Lengths
    PROVE  /\ Shift24(n) % 256 \in Byte /\ Shift16(n) % 256 \in Byte
           /\ Shift8(n) % 256 \in Byte /\ n % 256 \in Byte
           /\ (((Shift24(n) % 256) * 256 + (Shift16(n) % 256)) * 256
                  + (Shift8(n) % 256)) * 256 + (n % 256) = n
  <1>1. n \in Nat /\ Shift24(n) < 256
    BY DEF Lengths
  <1>2. /\ Shift8(n) \in Nat /\ n % 256 \in Byte
        /\ Shift8(n) * 256 + (n % 256) = n
    BY <1>1, Digit
  <1>3. /\ Shift16(n) \in Nat /\ Shift8(n) % 256 \in Byte
        /\ Shift16(n) * 256 + (Shift8(n) % 256) = Shift8(n)
    BY <1>2, Digit DEF Shift16
  <1>4. /\ Shift24(n) \in Nat /\ Shift16(n) % 256 \in Byte
        /\ Shift24(n) * 256 + (Shift16(n) % 256) = Shift16(n)
    BY <1>3, Digit DEF Shift24
  <1>5. Shift24(n) % 256 = Shift24(n) /\ Shift24(n) \in Byte
    BY <1>1, <1>4, Z3 DEF Byte
  <1> QED
    BY <1>2, <1>3, <1>4, <1>5

LEMMA LengthIsNat ==
    ASSUME NEW n \in Lengths
    PROVE  n \in Nat /\ n # 0 /\ n > 0
  BY SMT DEF Lengths

\* The lower four bits are what was added to a frame type.
LEMMA LowOfSum ==
    ASSUME NEW x \in 0 .. 15, NEW c \in {0, 16, 32, 48}
    PROVE  (c + x) % 16 = x
  BY Z3

LEMMA Codes ==
    /\ Code.SF = 0 /\ Code.FF = 16 /\ Code.CF = 32 /\ Code.FC = 48
  BY DEF Code

LEMMA HeaderLength ==
    ASSUME NEW candl \in Nat
    PROVE  /\ SfPciLen(candl) \in {1, 2}
           /\ candl <= 8 => SfPciLen(candl) = 1
           /\ candl > 8 => SfPciLen(candl) = 2
  BY DEF SfPciLen, CLASSICCAN_DL_MAX

\* Without a wrap the sum is the sum.
LEMMA FitsSingleIs ==
    ASSUME NEW length \in Lengths, NEW candl \in Nat, SumFits(length, candl)
    PROVE  FitsSingle(length, candl) <=> SfPciLen(candl) + length <= candl
  <1> DEFINE n == SfPciLen(candl) + length
  <1>1. n \in Nat \ {0}
    BY HeaderLength, LengthIsNat
  <1>2. n \in Lengths
    BY <1>1 DEF SumFits, Lengths
  <1> HIDE DEF n
  <1>3. Word(n) = n
    BY <1>2, LongDigits DEF Word
  <1> QED
    BY <1>3 DEF FitsSingle, n

\* With a wrap it is 0 or 1.
LEMMA WrappedSum ==
    ASSUME NEW n \in Lengths, NEW s \in {1, 2}, ~(Shift24(s + n) < 256)
    PROVE  /\ Word(s + n) \in {0, 1}
           /\ n % 256 \in {254, 255} /\ (s = 1 => n % 256 = 255)
  <1> DEFINE m == s + n
  <1>1. n \in Nat /\ m \in Nat
    BY LengthIsNat
  <1>2. /\ Shift24(n) % 256 \in Byte /\ Shift16(n) % 256 \in Byte
        /\ Shift8(n) % 256 \in Byte /\ n % 256 \in Byte
        /\ (((Shift24(n) % 256) * 256 + (Shift16(n) % 256)) * 256
               + (Shift8(n) % 256)) * 256 + (n % 256) = n
    BY LongDigits
  <1>3. /\ Shift8(m) \in Nat /\ m % 256 \in Byte
        /\ Shift8(m) * 256 + (m % 256) = m
    BY <1>1, Digit
  <1>4. /\ Shift16(m) \in Nat /\ Shift8(m) % 256 \in Byte
        /\ Shift16(m) * 256 + (Shift8(m) % 256) = Shift8(m)
    BY <1>3, Digit DEF Shift16
  <1>5. /\ Shift24(m) \in Nat /\ Shift16(m) % 256 \in Byte
        /\ Shift24(m) * 256 + (Shift16(m) % 256) = Shift16(m)
    BY <1>4, Digit DEF Shift24
  <1>6. Shift24(m) >= 256
    BY <1>5
  <1>7. m = s + n /\ s \in {1, 2}
    OBVIOUS
  <1> HIDE DEF m
  <1>8. /\ Shift24(m) = 256 /\ Shift16(m) % 256 = 0 /\ Shift8(m) % 256 = 0
        /\ m % 256 \in {0, 1}
        /\ n % 256 \in {254, 255} /\ (s = 1 => n % 256 = 255)
    <2>1. ((Shift24(m) * 256 + (Shift16(m) % 256)) * 256 + (Shift8(m) % 256)) * 256
             + (m % 256) = m
      BY <1>3, <1>4, <1>5
    <2>2. PICK x \in Nat, f \in Byte, g \in Byte, h \in Byte :
             /\ x = Shift24(m) /\ f = Shift16(m) % 256
             /\ g = Shift8(m) % 256 /\ h = m % 256
      BY <1>3, <1>4, <1>5
    <2>3. PICK a \in Byte, b \in Byte, c \in Byte, d \in Byte :
             /\ a = Shift24(n) % 256 /\ b = Shift16(n) % 256
             /\ c = Shift8(n) % 256 /\ d = n % 256
      BY <1>2
    <2>4. ((x * 256 + f) * 256 + g) * 256 + h = s + (((a * 256 + b) * 256 + c) * 256 + d)
      BY <1>2, <1>7, <2>1, <2>2, <2>3
    <2>5. /\ x = 256 /\ f = 0 /\ g = 0 /\ h \in {0, 1}
          /\ d \in {254, 255} /\ (s = 1 => d = 255)
      <3> DEFINE u == (a * 256 + b) * 256 + c
                 v == (x * 256 + f) * 256 + g
      <3>1. u \in Nat /\ u <= 16777215
        BY DEF Byte
      <3>2. v \in Nat /\ v >= 16777216
        <4>1. x >= 256
          BY <1>6, <2>2
        <4> QED
          BY <4>1 DEF Byte
      <3>3. v * 256 + h = s + (u * 256 + d)
        BY <2>4
      <3> HIDE DEF u, v
      <3>4. v = 16777216 /\ u = 16777215
        BY <3>1, <3>2, <3>3 DEF Byte
      <3>5. h \in {0, 1} /\ d \in {254, 255} /\ (s = 1 => d = 255)
        BY <3>3, <3>4 DEF Byte
      <3>6. x = 256 /\ f = 0 /\ g = 0
        BY <3>4 DEF v, Byte
      <3> QED
        BY <3>5, <3>6
    <2> QED
      BY <2>2, <2>3, <2>5
  <1>9. Word(m) = m % 256
    <2>1. Shift24(m) % 256 = 0
      BY <1>8
    <2> QED
      BY <1>8, <2>1 DEF Word
  <1> QED
    BY <1>8, <1>9 DEF m

-----------------------------------------------------------------------------
\* Packing writes bytes, whatever the length, and the protocol information is shorter
\* than the frame, so the assertion of the sender holds (docan-sender.cpp:19); also for
\* the lengths that are packed wrongly, see WrappedIsRejected.
THEOREM PackedInFrame ==
    ASSUME NEW data \in Heads, NEW length \in Lengths, NEW candl \in 8 .. 64
    PROVE  LET p == PackPciForData(data, length, candl)
           IN  p.data \in Heads /\ p.len \in 1 .. 6 /\ p.len < candl
  <1>1. CASE FitsSingle(length, candl)
    <2>1. length % 256 \in Byte /\ length % 16 \in 0 .. 15 /\ length # 0
      BY Z3, LengthIsNat DEF Byte
    <2>2. PackPciForData(data, length, candl) = PackSF(data, length, candl)
      BY <1>1, <2>1 DEF PackPciForData
    <2> QED
      BY <2>1, <2>2, Codes DEF PackSF, Packed, Heads, Byte, CLASSICCAN_DL_MAX
  <1>2. CASE ~FitsSingle(length, candl)
    <2>1. PackPciForData(data, length, candl) = PackFF(data, length)
      BY <1>2, LengthIsNat DEF PackPciForData
    <2>2. CASE length <= SHORT_FF_MAX
      BY <2>1, <2>2, ShortDigits, Codes, LengthIsNat DEF PackFF, Packed, Heads, Byte
    <2>3. CASE length > SHORT_FF_MAX
      <3> DEFINE b2 == Shift24(length) % 256
                 b3 == Shift16(length) % 256
                 b4 == Shift8(length) % 256
                 b5 == length % 256
                 d  == [data EXCEPT ![0] = 16, ![1] = 0, ![2] = b2, ![3] = b3,
                                    ![4] = b4, ![5] = b5]
      <3>1. b2 \in Byte /\ b3 \in Byte /\ b4 \in Byte /\ b5 \in Byte
        BY LongDigits
      <3>2. PackPciForData(data, length, candl) = Packed("FF", d, 6)
        BY <2>1, <2>3, Codes, LengthIsNat DEF PackFF, SHORT_FF_MAX
      <3> HIDE DEF b2, b3, b4, b5
      <3>3. d \in Heads
        BY <3>1 DEF Heads, Byte
      <3> QED
        BY <3>2, <3>3 DEF Packed
    <2> QED
      BY <2>2, <2>3, LengthIsNat DEF SHORT_FF_MAX
  <1> QED
    BY <1>1, <1>2

\* What was packed for a message is unpacked as the same frame type, length of the
\* protocol information and length of the message: for every frame of classic CAN or
\* CAN FD, whatever the frame buffer held before, and every 32 bit length but the
\* greatest, whose sum with the length of the protocol information wraps
\* (pci-helper.cpp:4-73, 116-160).
THEOREM DataRoundTrip ==
    ASSUME NEW data \in Heads, NEW length \in Lengths, NEW candl \in 8 .. 64,
           SumFits(length, candl)
    PROVE  LET p == PackPciForData(data, length, candl)
           IN  UnpackPciInfo(p.data, candl) = Pci(p.type, p.len, length)
  <1>0. FitsSingle(length, candl) <=> SfPciLen(candl) + length <= candl
    BY FitsSingleIs
  <1>1. CASE FitsSingle(length, candl) /\ candl <= 8
    <2>1. length \in 1 .. 7
      BY <1>0, <1>1, LengthIsNat DEF SfPciLen, CLASSICCAN_DL_MAX
    <2>2. length % 16 = length
      BY <2>1
    <2> DEFINE d == [data EXCEPT ![0] = length]
    <2>3. PackPciForData(data, length, candl) = Packed("SF", d, 1)
      BY <1>1, <2>1, <2>2, Codes, LengthIsNat DEF PackPciForData, Packed, PackSF, CLASSICCAN_DL_MAX
    <2>4. d[0] = length /\ Low(d) = length /\ IsType(d, "SF")
      BY <2>1, <2>2, Codes DEF Heads, Low, IsType
    <2>5. UnpackPciInfo(d, candl) = UnpackSF(d, candl)
      BY <2>4 DEF UnpackPciInfo
    <2>6. UnpackSF(d, candl) = Pci("SF", 1, length)
      BY <1>1, <2>1, <2>4 DEF UnpackSF, SfPciLen, CLASSICCAN_DL_MAX, CANFD_DL_MAX
    <2> QED
      BY <2>3, <2>5, <2>6 DEF Packed
  <1>2. CASE FitsSingle(length, candl) /\ candl > 8
    <2>1. length \in 1 .. 62 /\ length + 2 <= candl
      BY <1>0, <1>2, LengthIsNat DEF SfPciLen, CLASSICCAN_DL_MAX
    <2>2. length % 256 = length
      BY <2>1
    <2> DEFINE d == [data EXCEPT ![0] = 0, ![1] = length]
    <2>3. PackPciForData(data, length, candl) = Packed("SF", d, 2)
      BY <1>2, <2>1, <2>2, Codes, LengthIsNat DEF PackPciForData, PackSF, CLASSICCAN_DL_MAX
    <2>4. d[0] = 0 /\ d[1] = length /\ Low(d) = 0 /\ IsType(d, "SF")
      BY <2>1, Codes DEF Heads, Low, IsType
    <2>5. UnpackPciInfo(d, candl) = UnpackSF(d, candl)
      BY <2>4 DEF UnpackPciInfo
    <2>6. UnpackSF(d, candl) = Pci("SF", 2, length)
      BY <1>2, <2>1, <2>4 DEF UnpackSF, SfPciLen, CLASSICCAN_DL_MAX, CANFD_DL_MAX
    <2> QED
      BY <2>3, <2>5, <2>6 DEF Packed
  <1>3. CASE ~FitsSingle(length, candl) /\ length <= SHORT_FF_MAX
    <2>1. length \in 8 .. SHORT_FF_MAX
      BY <1>0, <1>3, LengthIsNat DEF SfPciLen, CLASSICCAN_DL_MAX
    <2> DEFINE hi == Shift8(length)
               lo == length % 256
               d  == [data EXCEPT ![0] = 16 + hi, ![1] = lo]
    <2>2. hi \in 0 .. 15 /\ lo \in Byte /\ hi * 256 + lo = length
      BY <2>1, ShortDigits
    <2>3. PackPciForData(data, length, candl) = Packed("FF", d, 2)
      BY <1>3, <2>1, Codes DEF PackPciForData, PackFF
    <2> HIDE DEF hi, lo
    <2>4. d[0] = 16 + hi /\ d[1] = lo
      BY <2>2 DEF Heads
    <2>5. Low(d) = hi
      BY <2>2, <2>4, LowOfSum DEF Low
    <2>6. IsType(d, "FF") /\ ~IsType(d, "SF")
      BY <2>2, <2>4, <2>5, Codes DEF IsType
    <2>7. UnpackPciInfo(d, candl) = UnpackFF(d, candl)
      BY <2>6 DEF UnpackPciInfo
    <2>8. UnpackFF(d, candl) = Pci("FF", 2, length)
      BY <2>1, <2>2, <2>4, <2>5 DEF UnpackFF, MIN_FF_CANDL, MIN_FF_PAYLOAD_SIZE
    <2> QED
      BY <2>3, <2>7, <2>8 DEF Packed
  <1>4. CASE ~FitsSingle(length, candl) /\ length > SHORT_FF_MAX
    <2> DEFINE b2 == Shift24(length) % 256
               b3 == Shift16(length) % 256
               b4 == Shift8(length) % 256
               b5 == length % 256
               d  == [data EXCEPT ![0] = 16, ![1] = 0, ![2] = b2, ![3] = b3,
                                  ![4] = b4, ![5] = b5]
    <2>2. ((b2 * 256 + b3) * 256 + b4) * 256 + b5 = length
      BY LongDigits
    <2>3. PackPciForData(data, length, candl) = Packed("FF", d, 6)
      BY <1>4, Codes, LengthIsNat DEF PackPciForData, PackFF, SHORT_FF_MAX
    <2> HIDE DEF b2, b3, b4, b5
    <2>4. d[0] = 16 /\ d[1] = 0 /\ d[2] = b2 /\ d[3] = b3 /\ d[4] = b4 /\ d[5] = b5
      BY DEF Heads
    <2>5. Low(d) = 0 /\ IsType(d, "FF") /\ ~IsType(d, "SF")
      BY <2>4, Codes DEF Low, IsType
    <2>6. UnpackPciInfo(d, candl) = UnpackFF(d, candl)
      BY <2>5 DEF UnpackPciInfo
    <2>7. LongLength(d) = length
      BY <2>2, <2>4 DEF LongLength
    <2>8. UnpackFF(d, candl) = Pci("FF", 6, length)
      BY <1>4, <2>4, <2>5, <2>7, LengthIsNat DEF UnpackFF, SHORT_FF_MAX, MIN_FF_CANDL, MIN_FF_PAYLOAD_SIZE
    <2> QED
      BY <2>3, <2>6, <2>8 DEF Packed
  <1> QED
    BY <1>1, <1>2, <1>3, <1>4, LengthIsNat DEF SHORT_FF_MAX

\* A length whose sum with the length of the protocol information wraps is packed as a
\* single frame, which UnpackPciInfo rejects: it is never taken for another message
\* (pci-helper.cpp:22-25, 34-37, 124).
THEOREM WrappedIsRejected ==
    ASSUME NEW data \in Heads, NEW length \in Lengths, NEW candl \in 8 .. 64,
           ~SumFits(length, candl)
    PROVE  LET p == PackPciForData(data, length, candl)
           IN  p.type = "SF" /\ UnpackPciInfo(p.data, candl) = Rejected
  <1> DEFINE s == SfPciLen(candl)
             b == length % 256
  <1>1. s \in {1, 2} /\ (candl <= 8 => s = 1) /\ (candl > 8 => s = 2)
    BY HeaderLength
  <1>2. Word(s + length) \in {0, 1} /\ b \in {254, 255} /\ (s = 1 => b = 255)
    BY <1>1, WrappedSum DEF SumFits
  <1>3. FitsSingle(length, candl)
    BY <1>2 DEF FitsSingle
  <1>4. PackPciForData(data, length, candl) = PackSF(data, length, candl)
    BY <1>3, LengthIsNat DEF PackPciForData
  <1>5. CASE candl > 8
    <2> DEFINE d == [data EXCEPT ![0] = 0, ![1] = b]
    <2>1. PackPciForData(data, length, candl) = Packed("SF", d, 2)
      BY <1>4, <1>5, Codes DEF PackSF, CLASSICCAN_DL_MAX
    <2> HIDE DEF b
    <2>2. d[0] = 0 /\ d[1] = b
      BY DEF Heads
    <2>3. Low(d) = 0 /\ IsType(d, "SF")
      BY <2>2, Codes DEF Low, IsType
    <2>4. UnpackPciInfo(d, candl) = UnpackSF(d, candl)
      BY <2>3 DEF UnpackPciInfo
    <2>5. UnpackSF(d, candl) = Rejected
      BY <1>2, <1>5, <2>2 DEF UnpackSF, SfPciLen, CLASSICCAN_DL_MAX, CANFD_DL_MAX
    <2> QED
      BY <2>1, <2>4, <2>5 DEF Packed
  <1>6. CASE candl <= 8
    <2> DEFINE d == [data EXCEPT ![0] = 15]
    <2>1. length % 16 = 15
      <3>1. length \in Nat /\ length % 256 = 255
        BY <1>1, <1>2, <1>6, LengthIsNat
      <3> QED
        BY <3>1, Z3
    <2>2. PackPciForData(data, length, candl) = Packed("SF", d, 1)
      <3>1. Code.SF + (length % 16) = 15 /\ ~(candl > 8)
        BY <1>6, <2>1, Codes
      <3> QED
        BY <1>4, <3>1 DEF PackSF, CLASSICCAN_DL_MAX
    <2>3. d[0] = 15 /\ Low(d) = 15 /\ IsType(d, "SF")
      BY Codes DEF Heads, Low, IsType
    <2>4. UnpackPciInfo(d, candl) = UnpackSF(d, candl)
      BY <2>3 DEF UnpackPciInfo
    <2>5. UnpackSF(d, candl) = Rejected
      BY <1>6, <2>3 DEF UnpackSF, SfPciLen, CLASSICCAN_DL_MAX, CANFD_DL_MAX
    <2> QED
      BY <2>2, <2>4, <2>5 DEF Packed
  <1> QED
    BY <1>5, <1>6

\* A consecutive frame is unpacked with the serial number it was packed with, modulo
\* 16 (pci-helper.cpp:99-103, 170-174).
THEOREM ConseqRoundTrip ==
    ASSUME NEW data \in Heads, NEW sn \in Byte, NEW candl \in 1 .. 64
    PROVE  UnpackPciInfo(PackConseqFrame(data, sn), candl) =
               [type |-> "CF", pcilen |-> 1, sn |-> sn % 16]
  <1> DEFINE x == sn % 16
             d == [data EXCEPT ![0] = 32 + x]
  <1>1. x \in 0 .. 15
    BY Z3 DEF Byte
  <1>2. PackConseqFrame(data, sn) = d
    BY Codes DEF PackConseqFrame
  <1> HIDE DEF x
  <1>3. d[0] = 32 + x
    BY DEF Heads
  <1>4. Low(d) = x
    BY <1>1, <1>3, LowOfSum DEF Low
  <1>5. /\ IsType(d, "CF")
        /\ ~IsType(d, "SF") /\ ~IsType(d, "FF") /\ ~IsType(d, "FC")
    BY <1>1, <1>3, <1>4, Codes DEF IsType
  <1>6. UnpackPciInfo(d, candl) = UnpackCF(d)
    BY <1>5 DEF UnpackPciInfo
  <1> QED
    BY <1>2, <1>4, <1>6 DEF UnpackCF, x

=============================================================================
