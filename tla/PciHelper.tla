------------------------------ MODULE PciHelper ------------------------------
(***************************************************************************)
(* PciHelper (src/uds/isotp/pci-helper.{h,cpp}): the protocol information  *)
(* at the head of a CAN frame, packed and unpacked.                        *)
(*                                                                         *)
(* `data' is the head of a frame, its first six bytes by index: no frame   *)
(* type has more.  Packing writes some of the bytes and leaves the others  *)
(* as the frame before left them.  datasize_t has 32 bits.                 *)
(***************************************************************************)
EXTENDS Integers

CLASSICCAN_DL_MAX == 8
CANFD_DL_MAX == 64
MIN_FF_CANDL == 8
MIN_FF_PAYLOAD_SIZE == 8
SHORT_FF_MAX == 16 * 256 - 1

Byte == 0 .. 255
Heads == [0 .. 5 -> Byte]

\* DC_FrameType: the upper four bits of the first byte.
Code == [SF |-> 0, FF |-> 16, CF |-> 32, FC |-> 48]

Low(data) == data[0] % 16

IsType(data, type) == data[0] - Low(data) = Code[type]

\* DC_FlowState
FlowCode == [CTS |-> 0, WAIT |-> 1, OVERFLOW |-> 2]

-----------------------------------------------------------------------------
(* Packing.                                                                *)
Packed(type, data, len) == [type |-> type, data |-> data, len |-> len]

\* n >> 8, >> 16 and >> 24
Shift8(n) == n \div 256
Shift16(n) == Shift8(Shift8(n))
Shift24(n) == Shift8(Shift16(n))

\* n as a datasize_t: its lower 32 bits.
Word(n) ==
    (((Shift24(n) % 256) * 256 + (Shift16(n) % 256)) * 256 + (Shift8(n) % 256)) * 256
        + (n % 256)

SfPciLen(candl) == IF candl > CLASSICCAN_DL_MAX THEN 2 ELSE 1

\* The sum wraps, if the length is one of the greatest.
FitsSingle(length, candl) == Word(SfPciLen(candl) + length) <= candl

PackSF(data, length, candl) ==
    IF candl > CLASSICCAN_DL_MAX
    THEN Packed("SF", [data EXCEPT ![0] = Code.SF, ![1] = length % 256], 2)
    ELSE Packed("SF", [data EXCEPT ![0] = Code.SF + (length % 16)], 1)

\* The length in bytes, most significant first.
PackFF(data, length) ==
    IF length <= SHORT_FF_MAX
    THEN Packed("FF", [data EXCEPT ![0] = Code.FF + Shift8(length),
                                   ![1] = length % 256], 2)
    ELSE Packed("FF", [data EXCEPT ![0] = Code.FF, ![1] = 0,
                                   ![2] = Shift24(length) % 256,
                                   ![3] = Shift16(length) % 256,
                                   ![4] = Shift8(length) % 256,
                                   ![5] = length % 256], 6)

\* With length 0 nothing is written and the type stays the caller's.
PackPciForData(data, length, candl) ==
    IF length = 0 THEN Packed("ERROR", data, 0)
    ELSE IF FitsSingle(length, candl) THEN PackSF(data, length, candl)
    ELSE PackFF(data, length)

PackFlowControl(data, fs, bs, stmin) ==
    [data EXCEPT ![0] = Code.FC + FlowCode[fs], ![1] = bs, ![2] = stmin]

PackConseqFrame(data, sn) == [data EXCEPT ![0] = Code.CF + (sn % 16)]

-----------------------------------------------------------------------------
(* Unpacking; pci.pcilen is also what the function returns.                *)
Rejected == [type |-> "ERROR", pcilen |-> 0]

Pci(type, pcilen, dlen) == [type |-> type, pcilen |-> pcilen, dlen |-> dlen]

UnpackSF(data, candl) ==
    LET dlen == IF candl <= CLASSICCAN_DL_MAX THEN Low(data) ELSE data[1]
        ret  == SfPciLen(candl)
    IN  IF candl > CANFD_DL_MAX \/ dlen + ret > candl THEN Rejected
        ELSE Pci("SF", ret, dlen)

LongLength(data) == ((data[2] * 256 + data[3]) * 256 + data[4]) * 256 + data[5]

UnpackFF(data, candl) ==
    LET short == Low(data) * 256 + data[1]
    IN  IF candl < MIN_FF_CANDL THEN Rejected
        ELSE IF short = 0
        THEN IF LongLength(data) <= SHORT_FF_MAX THEN Rejected
             ELSE Pci("FF", 6, LongLength(data))
        ELSE IF short < MIN_FF_PAYLOAD_SIZE THEN Rejected
             ELSE Pci("FF", 2, short)

UnpackFC(data, candl) ==
    IF \/ candl < 3 \/ Low(data) > 2
       \/ data[2] \in 128 .. 240 \cup 250 .. 255
    THEN Rejected
    ELSE [type |-> "FC", pcilen |-> 3, flowstate |-> Low(data), bs |-> data[1],
          stmin |-> IF data[2] > 127 THEN 1 ELSE data[2]]

UnpackCF(data) == [type |-> "CF", pcilen |-> 1, sn |-> Low(data)]

UnpackPciInfo(data, candl) ==
    IF candl = 0 THEN Rejected
    ELSE IF IsType(data, "SF") THEN UnpackSF(data, candl)
    ELSE IF IsType(data, "FF") THEN UnpackFF(data, candl)
    ELSE IF IsType(data, "CF") THEN UnpackCF(data)
    ELSE IF IsType(data, "FC") THEN UnpackFC(data, candl)
    ELSE Rejected

=============================================================================
