-------------------------- MODULE DoCanLink_proofs --------------------------
(***************************************************************************)
(* Proofs about DoCanLink for any messages, block sizes, pauses, timeouts  *)
(* and buffers, with the frames of classic CAN.  LinkInv: as long as no    *)
(* frame is lost, sender and receiver stay in step; Transfer says where    *)
(* the two nodes and the bus can be in the middle of a message.  WireInv:  *)
(* whatever is lost, what is on the bus and what the receiver holds belong *)
(* to one message, Place says how; Stored says which bytes of its buffer   *)
(* are those of this message.  From both, every step is one of MessageLink *)
(* or leaves it as it is.                                                  *)
(***************************************************************************)
EXTENDS DoCanLink, PciHelper_proofs, SequenceTheorems, TLAPS

USE MessagesAssumption

\* The pause between two frames ends before the receiver gives up waiting for one: 127
\* ticks at most (docan-sender.cpp:171-178) against the 1000 of docan-receiver.h:71, or
\* what SetParameter makes of it (docan-receiver.cpp:140-143).
Timely == \A p \in FlowParams, c \in CrPeriods : Tx!StMinTicks(p[2]) < c

-----------------------------------------------------------------------------
FfFrame(m) == DataFrame(Tx!FF(m))
CfFrame(m, k) == DataFrame(Tx!CF(k % SNMOD, Tx!Chunk(m, k)))

\* n consecutive frames of m, from the k-th on.
CfFrames(m, k, n) == [i \in 1 .. n |-> CfFrame(m, k + i - 1)]

\* What the sender keeps of its message, whatever is lost.
Sending ==
    /\ prev_data_sent
    /\ loop => txstate = "MF_DT"
    /\ txstate \in {"IDLE", "MF_DT", "PAUSE", "WAIT"}
    /\ txstate # "IDLE" =>
           /\ txbuff \in Msgs /\ txsize = Frames[txbuff]
           /\ txpassed \in 1 .. txsize - 1
           /\ sn = (txpassed - 1) % SNMOD

Configured == <<blksize, rxstmin>> \in FlowParams /\ Cr_tim \in Rx!TimerType(CrPeriods)

\* The receiver put together what was sent, but for n frames still on the bus.
Receiving(n) ==
    /\ rxstate = "ACTIVE"
    /\ n \in 0 .. txpassed - 1
    /\ rxsize = Size[txbuff]
    /\ rxpassed = 6 + 7 * (txpassed - n - 1)
    /\ expectsn = (txpassed - n) % SNMOD
    /\ currblkn \in Nat

\* The first frame is on the bus, or the answer to it; or a block ended, and the
\* permission for the next one is on the bus.
Announced ==
    txstate = "WAIT" /\ txpassed = 1 /\ bus = <<FfFrame(txbuff)>> /\ fcs = <<>>

Refused ==
    txstate = "WAIT" /\ bus = <<>> /\ fcs = <<FcFrame(Rx!FlowControl("OVERFLOW", 0))>>

Granted ==
    /\ txstate = "WAIT" /\ bus = <<>>
    /\ fcs = <<FcFrame(Rx!FlowControl("CTS", blksize))>>
    /\ Receiving(0) /\ currblkn = 0
    /\ Tx!StMinTicks(rxstmin) < Cr_tim.left

\* A block is being sent; its frames are in order, counted by both sides alike.
Flowing(n) ==
    /\ fcs = <<>> /\ bus = CfFrames(txbuff, txpassed - n, n)
    /\ Receiving(n)
    /\ segblkcount = blksize /\ currblknum = currblkn + n
    /\ Cr_tim.left > 0

\* The last frame of the block is sent, or not yet.
BlockSent(n) == txstate = "WAIT" /\ n > 0 /\ Tx!Allowed(blksize) = currblknum

InBlock(n) ==
    /\ txstate \in {"MF_DT", "PAUSE"}
    /\ currblknum < Tx!Allowed(blksize)
    /\ stmin = Tx!StMinTicks(rxstmin)
    /\ STmin_tim \in [period : {stmin}, left : 0 .. stmin,
                      active : {TRUE}, endless : {TRUE}]
    /\ txstate = "PAUSE" /\ n = 0 => STmin_tim.left < Cr_tim.left

Transfer ==
    \/ Announced \/ Refused \/ Granted
    \/ Flowing(Len(bus)) /\ (BlockSent(Len(bus)) \/ InBlock(Len(bus)))

LinkInv == Sending /\ Configured /\ (~lost /\ txstate # "IDLE" => Transfer)

-----------------------------------------------------------------------------
(* Frames and their heads.                                                 *)

LEMMA Constants ==
  /\ CANDL = 8 /\ SNMOD = 16 /\ Rx!FFLEN = 6 /\ Rx!CFLEN = 7
  /\ Padding \in Heads
  BY DEF CANDL, SNMOD, CLASSICCAN_DL_MAX, Rx!FFLEN, Rx!CFLEN, Padding, Heads, Byte

LEMMA ByteIsNat ==
  ASSUME NEW b \in Byte
  PROVE  b \in Nat
  BY DEF Byte

LEMMA ShortLimit == SHORT_FF_MAX = 4095
  BY DEF SHORT_FF_MAX

First(n) == PackPciForData(Padding, n, CANDL)

\* A length of the short form of a first frame is far from the greatest.
LEMMA SmallLength ==
  ASSUME NEW n \in Nat, 1 <= n, n <= 4095
  PROVE  n \in Lengths /\ SumFits(n, CANDL) /\ SfPciLen(CANDL) = 1
<1>1. \A i \in 0 .. 16 : Shift8(i) = 0
  BY Z3 DEF Shift8
<1>2. Shift8(n) \in 0 .. 16 /\ Shift8(1 + n) \in 0 .. 16
  BY Z3 DEF Shift8
<1>3. Shift24(n) = 0 /\ Shift24(1 + n) = 0
  BY <1>1, <1>2 DEF Shift24, Shift16
<1>4. SfPciLen(CANDL) = 1
  BY Constants DEF SfPciLen, CLASSICCAN_DL_MAX
<1> QED
  BY <1>3, <1>4 DEF Lengths, SumFits

LEMMA FirstOf ==
  ASSUME NEW n \in 1 .. SHORT_FF_MAX
  PROVE  /\ n <= 7 => First(n).type = "SF"
         /\ n > 7 => First(n).type = "FF" /\ First(n).len = 2
<1>1. n \in Nat /\ 1 <= n /\ n <= 4095
  BY ShortLimit
<1>2. FitsSingle(n, CANDL) <=> n <= 7
  <2>1. n \in Lengths /\ SumFits(n, CANDL) /\ CANDL \in Nat /\ SfPciLen(CANDL) = 1
    BY <1>1, SmallLength, Constants
  <2>2. FitsSingle(n, CANDL) <=> SfPciLen(CANDL) + n <= CANDL
    BY <2>1, FitsSingleIs
  <2> QED
    BY <1>1, <2>1, <2>2, Constants
<1>3. n # 0 /\ n <= SHORT_FF_MAX
  BY ShortLimit
<1>4. CASE n <= 7
  BY <1>2, <1>3, <1>4 DEF First, PackPciForData, PackSF, Packed
<1>5. CASE n > 7
  <2>1. ~(n <= 7)
    BY <1>1, <1>5
  <2> QED
    BY <1>2, <1>3, <2>1 DEF First, PackPciForData, PackFF, Packed
<1> QED
  BY <1>4, <1>5

LEMMA SizeOf ==
  ASSUME NEW m \in Msgs
  PROVE  Size[m] \in Nat /\ 1 <= Size[m] /\ Size[m] <= 4095
<1>1. Size[m] \in 1 .. SHORT_FF_MAX
  BY MessagesAssumption, Zenon
<1>2. SHORT_FF_MAX \in Nat /\ SHORT_FF_MAX <= 4095
  BY ShortLimit
<1>3. Size[m] \in Nat /\ 1 <= Size[m] /\ Size[m] <= SHORT_FF_MAX
  BY <1>1, <1>2
<1> QED
  BY <1>2, <1>3

LEMMA FirstFrame ==
  ASSUME NEW m \in Msgs
  PROVE  /\ Size[m] <= 7 => First(Size[m]).type = "SF"
         /\ Size[m] > 7 => First(Size[m]).type = "FF" /\ First(Size[m]).len = 2
<1>1. Size[m] \in 1 .. SHORT_FF_MAX
  BY MessagesAssumption, Zenon
<1> QED
  BY <1>1, FirstOf, Zenon

\* A message of more than 7 bytes has a first frame of 6 and consecutive frames of 7.
LEMMA FramesOf ==
  ASSUME NEW m \in Msgs
  PROVE  /\ Size[m] \in Nat /\ 1 <= Size[m] /\ Size[m] <= 4095 /\ Frames[m] \in Nat \ {0}
         /\ Frames[m] = 1 <=> Size[m] <= 7
         /\ \A k \in Nat : k + 1 < Frames[m] => 7 * (k + 1) <= Size[m]
<1>1. Size[m] \in Nat /\ 1 <= Size[m] /\ Size[m] <= 4095
  BY SizeOf
<1>2. CASE Size[m] <= 7
  <2>1. Frames[m] = 1
    BY <1>1, <1>2, FirstFrame DEF Frames, First
  <2> QED
    BY <1>1, <1>2, <2>1
<1>3. CASE Size[m] > 7
  <2>1. Frames[m] = 1 + (Size[m] - (CANDL - 2) + CANDL - 2) \div (CANDL - 1)
    BY <1>1, <1>3, FirstFrame DEF Frames, First
  <2> DEFINE q == Size[m] \div 7
  <2>2. Frames[m] = 1 + q
    <3>1. Size[m] - (8 - 2) + 8 - 2 = Size[m] /\ 8 - 1 = 7
      BY <1>1
    <3> QED
      BY <2>1, <3>1, Constants
  <2>3. q \in Nat /\ q >= 1 /\ 7 * q <= Size[m]
    BY <1>1, <1>3
  <2> HIDE DEF q
  <2> QED
    BY <1>1, <1>3, <2>2, <2>3
<1> QED
  BY <1>1, <1>2, <1>3

LEMMA FirstHead ==
  ASSUME NEW m \in Msgs, Frames[m] # 1
  PROVE  /\ FfFrame(m).chunk = <<m, 0>>
         /\ UnpackPciInfo(FfFrame(m).head, CANDL).type = "FF"
<1> DEFINE p == First(Size[m])
<1>1. Size[m] \in Nat /\ 8 <= Size[m] /\ Size[m] <= 4095
  BY FramesOf
<1>2. FfFrame(m) = [head |-> p.data, chunk |-> <<m, 0>>]
  BY DEF FfFrame, DataFrame, Tx!FF, Tx!Chunk, First
<1>3. Size[m] \in Lengths /\ SumFits(Size[m], CANDL)
  BY <1>1, SmallLength
<1>4. UnpackPciInfo(p.data, CANDL) = Pci(p.type, p.len, Size[m])
  BY <1>3, Constants, DataRoundTrip DEF First
<1>5. p.type = "FF"
  <2>1. Size[m] > 7
    BY <1>1
  <2> QED
    BY <2>1, FirstFrame, Zenon
<1> HIDE DEF p
<1> QED
  BY <1>2, <1>4, <1>5 DEF Pci

LEMMA ConseqHead ==
  ASSUME NEW m \in Msgs, NEW k \in Nat
  PROVE  /\ CfFrame(m, k).chunk = <<m, k>>
         /\ UnpackPciInfo(CfFrame(m, k).head, CANDL).type = "CF"
<1>1. k % SNMOD \in Byte
  BY Constants DEF Byte
<1>2. CfFrame(m, k) = [head |-> PackConseqFrame(Padding, k % SNMOD), chunk |-> <<m, k>>]
  BY DEF CfFrame, DataFrame, Tx!CF, Tx!Chunk
<1>3. UnpackPciInfo(PackConseqFrame(Padding, k % SNMOD), CANDL) =
          [type |-> "CF", pcilen |-> 1, sn |-> (k % SNMOD) % 16]
  BY <1>1, Constants, ConseqRoundTrip
<1> QED
  BY <1>2, <1>3

LEMMA FlowHead ==
  ASSUME NEW fs \in {"CTS", "OVERFLOW"}, NEW bs
  PROVE  LET data == FcFrame(Rx!FlowControl(fs, bs))
         IN  data[1] = bs /\ data[2] = rxstmin /\ Low(data) = FlowCode[fs]
<1> DEFINE data == FcFrame(Rx!FlowControl(fs, bs))
<1>1. data = [Padding EXCEPT ![0] = Code.FC + FlowCode[fs], ![1] = bs, ![2] = rxstmin]
  BY DEF FcFrame, PackFlowControl, Rx!FlowControl
<1>2. data[0] = 48 + FlowCode[fs] /\ data[1] = bs /\ data[2] = rxstmin
  BY <1>1 DEF Padding, Code
<1> HIDE DEF data
<1>3. Low(data) = FlowCode[fs]
  BY <1>2 DEF Low, FlowCode
<1> QED
  BY <1>2, <1>3 DEF data

\* The frames of a block as a queue: their number and their places in it.
AllCf(m) == {CfFrame(m, i) : i \in Nat}

RunOf(q, m, k, n) ==
    /\ q \in Seq(AllCf(m)) /\ Len(q) = n
    /\ \A i \in 1 .. n : q[i] = CfFrame(m, k + i - 1)

LEMMA CfPlaces ==
  ASSUME NEW m, NEW k \in Nat, NEW n \in Nat
  PROVE  RunOf(CfFrames(m, k, n), m, k, n)
<1>1. \A i \in 1 .. n : k + i - 1 \in Nat
  OBVIOUS
<1>2. CfFrames(m, k, n) \in [1 .. n -> AllCf(m)]
  BY <1>1 DEF CfFrames, AllCf
<1>3. Len(CfFrames(m, k, n)) = n
  BY DEF CfFrames
<1>4. \A i \in 1 .. n : CfFrames(m, k, n)[i] = CfFrame(m, k + i - 1)
  BY DEF CfFrames
<1>5. CfFrames(m, k, n) \in Seq(AllCf(m))
  BY <1>2
<1> QED
  BY <1>3, <1>4, <1>5, Zenon DEF RunOf

LEMMA CfLength ==
  ASSUME NEW m, NEW k \in Nat, NEW n \in Nat
  PROVE  Len(CfFrames(m, k, n)) = n
  BY CfPlaces, Zenon DEF RunOf

LEMMA CfEmpty ==
  ASSUME NEW m, NEW k \in Nat, NEW n \in Nat
  PROVE  CfFrames(m, k, n) = <<>> <=> n = 0
<1> DEFINE s == CfFrames(m, k, n)
<1>1. s \in Seq(AllCf(m)) /\ Len(s) = n
  BY CfPlaces, Zenon DEF RunOf
<1> HIDE DEF s
<1>2. s = <<>> <=> n = 0
  BY <1>1, EmptySeq
<1> QED
  BY <1>2 DEF s

\* The oldest frame of a block, and the block without it.
LEMMA CfHeadTail ==
  ASSUME NEW m, NEW k \in Nat, NEW n \in Nat, n > 0
  PROVE  /\ Head(CfFrames(m, k, n)) = CfFrame(m, k)
         /\ Tail(CfFrames(m, k, n)) = CfFrames(m, k + 1, n - 1)
<1> DEFINE s == CfFrames(m, k, n)
           t == CfFrames(m, k + 1, n - 1)
<1>1. k + 1 \in Nat /\ n - 1 \in Nat
  OBVIOUS
<1>2. s \in Seq(AllCf(m)) /\ Len(s) = n /\ \A i \in 1 .. n : s[i] = CfFrame(m, k + i - 1)
  BY CfPlaces, Zenon DEF RunOf
<1>3. /\ t \in Seq(AllCf(m)) /\ Len(t) = n - 1
      /\ \A i \in 1 .. n - 1 : t[i] = CfFrame(m, (k + 1) + i - 1)
  BY <1>1, CfPlaces, Zenon DEF RunOf
<1> HIDE DEF s, t
<1>4. s # <<>>
  BY <1>2, EmptySeq
<1>5. Head(s) = s[1] /\ Tail(s) \in Seq(AllCf(m)) /\ Len(Tail(s)) = n - 1
      /\ \A i \in 1 .. n - 1 : Tail(s)[i] = s[i + 1]
  BY <1>2, <1>4, HeadTailProperties
<1>6. 1 \in 1 .. n /\ k + 1 - 1 = k
  OBVIOUS
<1>7. Head(s) = CfFrame(m, k)
  BY <1>2, <1>5, <1>6
<1>8. ASSUME NEW i \in 1 .. n - 1 PROVE Tail(s)[i] = t[i]
  <2>1. i + 1 \in 1 .. n /\ k + (i + 1) - 1 = (k + 1) + i - 1
    OBVIOUS
  <2> QED
    BY <1>2, <1>3, <1>5, <2>1
<1>9. Tail(s) = t
  BY <1>3, <1>5, <1>8, SeqEqual
<1> QED
  BY <1>7, <1>9 DEF s, t

\* A block and the frame sent after it.
LEMMA CfAppend ==
  ASSUME NEW m, NEW k \in Nat, NEW n \in Nat
  PROVE  CfFrames(m, k, n) \o <<CfFrame(m, k + n)>> = CfFrames(m, k, n + 1)
<1> DEFINE x == CfFrame(m, k + n)
           s == CfFrames(m, k, n)
           u == CfFrames(m, k, n + 1)
<1>1. n + 1 \in Nat
  OBVIOUS
<1>2. s \in Seq(AllCf(m)) /\ Len(s) = n /\ \A i \in 1 .. n : s[i] = CfFrame(m, k + i - 1)
  BY CfPlaces, Zenon DEF RunOf
<1>3. /\ u \in Seq(AllCf(m)) /\ Len(u) = n + 1
      /\ \A i \in 1 .. n + 1 : u[i] = CfFrame(m, k + i - 1)
  BY <1>1, CfPlaces, Zenon DEF RunOf
<1>4. x \in AllCf(m) /\ k + n = k + (n + 1) - 1
  BY DEF AllCf
<1> HIDE DEF s, u
<1>5. u[n + 1] = x
  BY <1>3, <1>4
<1> HIDE DEF x
<1>6. <<x>> \in Seq(AllCf(m)) /\ Len(<<x>>) = 1 /\ <<x>>[1] = x
  BY <1>4
<1>7. s \o <<x>> \in Seq(AllCf(m)) /\ Len(s \o <<x>>) = n + 1
      /\ \A i \in 1 .. n + 1 : (s \o <<x>>)[i] = IF i <= n THEN s[i] ELSE <<x>>[i - n]
  BY <1>2, <1>6, ConcatProperties
<1>8. ASSUME NEW i \in 1 .. n + 1 PROVE (s \o <<x>>)[i] = u[i]
  <2>1. CASE i <= n
    <3>1. i \in 1 .. n
      BY <2>1
    <3> QED
      BY <1>2, <1>3, <1>7, <2>1, <3>1, Zenon
  <2>2. CASE i = n + 1
    <3>1. ~(i <= n) /\ i - n = 1
      BY <2>2
    <3> QED
      BY <1>5, <1>6, <1>7, <2>2, <3>1, Zenon
  <2>3. i <= n \/ i = n + 1
    OBVIOUS
  <2> QED
    BY <2>1, <2>2, <2>3
<1>9. s \o <<x>> = u
  BY <1>3, <1>7, <1>8, SeqEqual
<1> QED
  BY <1>9 DEF s, u, x

LEMMA CfTail ==
  ASSUME NEW m, NEW k \in Nat, NEW n \in Nat, n > 0
  PROVE  Tail(CfFrames(m, k, n)) = CfFrames(m, k + 1, n - 1)
  BY CfHeadTail, Zenon

LEMMA CfFirst ==
  ASSUME NEW m, NEW k \in Nat, NEW n \in Nat, n > 0
  PROVE  /\ Head(CfFrames(m, k, n)) = CfFrame(m, k)
         /\ Tail(CfFrames(m, k, n)) = CfFrames(m, k + 1, n - 1)
         /\ Len(CfFrames(m, k + 1, n - 1)) = n - 1
<1>1. k + 1 \in Nat /\ n - 1 \in Nat
  OBVIOUS
<1>2. Len(CfFrames(m, k + 1, n - 1)) = n - 1
  BY <1>1, CfLength, Zenon
<1> QED
  BY <1>2, CfHeadTail, Zenon

-----------------------------------------------------------------------------
(* What a step puts on the bus.                                            *)

LEMMA OneMore ==
  ASSUME NEW S, NEW q \in Seq(S), NEW x
  PROVE  q \o <<>> = q /\ Head(<<x>>) = x /\ Tail(<<x>>) = <<>> /\ <<>> \o <<x>> = <<x>>
  OBVIOUS

LEMMA Appended ==
  ASSUME NEW x, NEW y
  PROVE  Append(<<>>, x) = <<x>> /\ Append(<<y>>, x) = <<y, x>>
<1> DEFINE S == {x, y}
           s == Append(<<y>>, x)
<1>1. <<>> \in Seq(S) /\ <<y>> \in Seq(S) /\ <<y, x>> \in Seq(S) /\ x \in S
  OBVIOUS
<1>2. s \in Seq(S) /\ Len(s) = 2 /\ s[1] = y /\ s[2] = x
  BY <1>1, AppendProperties
<1> HIDE DEF s, S
<1>3. s = <<y, x>>
  BY <1>1, <1>2, SeqEqual
<1> QED
  BY <1>3 DEF s

LEMMA Transmitted ==
  ASSUME Transmit, NEW S, bus \in Seq(S)
  PROVE  /\ wire' = <<>> => bus' = bus
         /\ \A f : wire' = <<f>> => bus' = bus \o <<DataFrame(f)>>
<1>1. bus' = bus \o [i \in DOMAIN wire' |-> DataFrame(wire'[i])]
  BY DEF Transmit
<1>2. ASSUME wire' = <<>> PROVE bus' = bus
  <2>1. [i \in DOMAIN wire' |-> DataFrame(wire'[i])] = <<>>
    BY <1>2
  <2> QED
    BY <1>1, <2>1, OneMore
<1>3. ASSUME NEW f, wire' = <<f>> PROVE bus' = bus \o <<DataFrame(f)>>
  <2>1. [i \in DOMAIN wire' |-> DataFrame(wire'[i])] = <<DataFrame(f)>>
    BY <1>3
  <2> QED
    BY <1>1, <2>1
<1> QED
  BY <1>2, <1>3

LEMMA Reported ==
  ASSUME Report, NEW S, fcs \in Seq(S)
  PROVE  /\ rxsent' = <<>> => fcs' = fcs
         /\ \A f : rxsent' = <<f>> => fcs' = fcs \o <<FcFrame(f)>>'
<1>1. fcs' = fcs \o [i \in DOMAIN rxsent' |-> FcFrame(rxsent'[i])]
  BY DEF Report
<1>2. rxstmin' = rxstmin
  BY DEF Report
<1>3. ASSUME rxsent' = <<>> PROVE fcs' = fcs
  <2>1. [i \in DOMAIN rxsent' |-> FcFrame(rxsent'[i])] = <<>>
    BY <1>3
  <2> QED
    BY <1>1, <2>1, OneMore
<1>4. ASSUME NEW f, rxsent' = <<f>> PROVE fcs' = fcs \o <<FcFrame(f)>>'
  <2>1. [i \in DOMAIN rxsent' |-> FcFrame(rxsent'[i])] = <<FcFrame(f)>>
    BY <1>4
  <2>2. FcFrame(f)' = FcFrame(f)
    BY <1>2 DEF FcFrame
  <2> QED
    BY <1>1, <2>1, <2>2
<1> QED
  BY <1>3, <1>4

-----------------------------------------------------------------------------
(* What holds of each node alone.                                          *)

LEMMA CrPolled ==
  ASSUME NEW t \in Rx!TimerType(CrPeriods)
  PROVE  /\ Rx!RestartTimer(t) \in Rx!TimerType(CrPeriods)
         /\ Rx!RestartTimer(t).left = t.period
         /\ Rx!Polled(t) \in Rx!TimerType(CrPeriods)
         /\ Rx!Ticked(t) \in Rx!TimerType(CrPeriods)
<1>1. /\ t.period \in CrPeriods /\ t.period \in Nat /\ t.left \in Nat
      /\ t.active \in BOOLEAN /\ t.endless \in BOOLEAN
  BY ParametersAssumption DEF Rx!TimerType
<1>2. /\ Rx!RestartTimer(t) \in Rx!TimerType(CrPeriods)
      /\ Rx!RestartTimer(t).left = t.period
  BY <1>1 DEF Rx!RestartTimer, Rx!StartTimer, Rx!TimerType
<1>3. Rx!Polled(t) \in Rx!TimerType(CrPeriods)
  BY <1>1 DEF Rx!Polled, Rx!HasElapsed, Rx!TimerType
<1>4. Rx!Ticked(t) \in Rx!TimerType(CrPeriods)
  <2>1. CASE t.left > 0
    <3>1. Rx!Ticked(t) = [t EXCEPT !.left = t.left - 1]
      BY <2>1 DEF Rx!Ticked
    <3>2. t.left - 1 \in Nat
      BY <1>1, <2>1
    <3> QED
      BY <3>1, <3>2 DEF Rx!TimerType
  <2>2. CASE ~(t.left > 0)
    BY <2>2 DEF Rx!Ticked
  <2> QED
    BY <2>1, <2>2
<1> QED
  BY <1>2, <1>3, <1>4

LEMMA ConfiguredKept ==
  ASSUME Configured, UNCHANGED <<blksize, rxstmin>>,
         \/ Cr_tim' = Cr_tim \/ Cr_tim' = Rx!RestartTimer(Cr_tim)
         \/ Cr_tim' = Rx!Polled(Cr_tim) \/ Cr_tim' = Rx!Ticked(Cr_tim)
  PROVE  Configured'
  BY CrPolled DEF Configured

\* Both sides of the configuration, and the pause it makes the sender keep.
LEMMA Parameters ==
  ASSUME Configured, Timely
  PROVE  /\ blksize \in Byte /\ blksize \in Nat /\ rxstmin \in Byte
         /\ Tx!StMinTicks(rxstmin) \in Nat
         /\ Cr_tim.period \in Nat /\ Tx!StMinTicks(rxstmin) < Cr_tim.period
         /\ Cr_tim.left \in Nat
<1>1. <<blksize, rxstmin>> \in FlowParams /\ Cr_tim.period \in CrPeriods
      /\ Cr_tim.left \in Nat
  BY DEF Configured, Rx!TimerType
<1>2. blksize \in Byte /\ rxstmin \in Byte
  BY <1>1, ParametersAssumption
<1>3. Tx!StMinTicks(rxstmin) \in Nat
  BY <1>2 DEF Tx!StMinTicks, Byte
<1>4. Tx!StMinTicks(<<blksize, rxstmin>>[2]) < Cr_tim.period
  BY <1>1 DEF Timely
<1>5. blksize \in Nat
  BY <1>2 DEF Byte
<1> QED
  BY <1>1, <1>2, <1>3, <1>4, <1>5, ParametersAssumption

LEMMA SendingKept ==
  ASSUME Sending, UNCHANGED txvars
  PROVE  Sending'
  BY DEF Sending, txvars

-----------------------------------------------------------------------------
(* The steps of the sender.                                                *)

\* A step that ends the transfer, or one after a frame was lost.
LEMMA NoTransfer ==
  ASSUME Sending', Configured', lost' \/ txstate' = "IDLE"
  PROVE  LinkInv'
  BY DEF LinkInv

LEMMA AskStep ==
  ASSUME LinkInv, NEW m \in Msgs, Ask(m)
  PROVE  LinkInv'
<1>1. Sending /\ Configured /\ Transmit /\ Tx!Accept(m)
  BY DEF LinkInv, Ask, Tx!RequestSF, Tx!RequestFF
<1>2. ~loop /\ loop' = loop /\ prev_data_sent' = prev_data_sent
      /\ txsize' = Frames[m] /\ txpassed' = 1
  BY <1>1 DEF Tx!Accept
<1>3. Configured'
  BY <1>1, ConfiguredKept DEF Transmit, rxvars
<1>4. CASE Tx!RequestSF(m)
  <2>1. txstate' = "IDLE"
    BY <1>4 DEF Tx!RequestSF
  <2>2. Sending'
    BY <1>1, <1>2, <2>1 DEF Sending
  <2> QED
    BY <1>3, <2>1, <2>2, NoTransfer
<1>5. CASE Tx!RequestFF(m)
  <2>1. /\ Frames[m] # 1 /\ wire' = <<Tx!FF(m)>> /\ txstate' = "WAIT"
        /\ sn' = 0 /\ txbuff' = m
    BY <1>5 DEF Tx!RequestFF, Tx!IsSingle, Tx!Put, Tx!ResetSn
  <2>2. bus = <<>> /\ fcs = <<>> /\ fcs' = fcs
    BY <2>1 DEF Ask, Quiet
  <2>3. bus' = <<FfFrame(m)>>
    <3>1. bus \in Seq({}) /\ <<>> \o <<FfFrame(m)>> = <<FfFrame(m)>>
      BY <2>2
    <3> QED
      BY <1>1, <2>1, <2>2, <3>1, Transmitted DEF FfFrame
  <2>4. Sending'
    <3>1. 1 \in 1 .. Frames[m] - 1 /\ 0 = (1 - 1) % SNMOD
      BY <2>1, FramesOf, Constants
    <3> QED
      BY <1>1, <1>2, <2>1, <3>1 DEF Sending
  <2>5. Announced'
    BY <1>2, <2>1, <2>2, <2>3 DEF Announced, FfFrame, DataFrame
  <2> QED
    BY <1>3, <2>4, <2>5 DEF LinkInv, Transfer
<1> QED
  BY <1>4, <1>5 DEF Ask

\* A consecutive frame that goes to the bus is the next one of the message.
LEMMA SentNext ==
  ASSUME Sending, Tx!SentCF
  PROVE  /\ txstate = "MF_DT" /\ txpassed \in Nat
         /\ wire' = <<Tx!CF(txpassed % SNMOD, Tx!Chunk(txbuff, txpassed))>>
         /\ txpassed' = txpassed + 1 /\ sn' = (txpassed' - 1) % SNMOD
         /\ prev_data_sent' = TRUE
         /\ UNCHANGED <<txsize, segblkcount, stmin, txbuff, STmin_tim>>
<1>1. /\ txstate = "MF_DT" /\ sn' = Tx!NextSn /\ prev_data_sent' = TRUE
      /\ txpassed' = txpassed + 1
      /\ wire' = <<Tx!CF(Tx!NextSn, Tx!Packed)>>
      /\ UNCHANGED <<txsize, segblkcount, stmin, txbuff, STmin_tim>>
  BY DEF Tx!SentCF, Tx!PackCF, Tx!SentPassed, Tx!Put
<1>2. /\ prev_data_sent /\ txbuff \in Msgs /\ txsize = Frames[txbuff]
      /\ txpassed \in 1 .. txsize - 1 /\ sn = (txpassed - 1) % SNMOD
  BY <1>1 DEF Sending
<1>3. txpassed \in Nat /\ txpassed > 0
  BY <1>2
<1>4. Tx!NextSn = txpassed % SNMOD
  BY <1>2, <1>3, Constants DEF Tx!NextSn
<1>5. Tx!Packed = Tx!Chunk(txbuff, txpassed)
  BY <1>2 DEF Tx!Packed
<1>6. sn' = (txpassed' - 1) % SNMOD
  BY <1>1, <1>3, <1>4
<1> QED
  BY <1>1, <1>3, <1>4, <1>5, <1>6

LEMMA SentInBlock ==
  ASSUME Sending, Configured, Timely, Tx!SentCF, Transmit, UNCHANGED fcs,
         NEW n, n = Len(bus), Flowing(n), InBlock(n), txpassed' < txsize,
         currblknum' = currblknum + 1
  PROVE  /\ Flowing(n + 1)' /\ Len(bus') = n + 1 /\ n + 1 > 0 /\ n + 1 # 0
         /\ currblknum \in Nat
<1>1. /\ txpassed \in Nat /\ txpassed' = txpassed + 1
      /\ wire' = <<Tx!CF(txpassed % SNMOD, Tx!Chunk(txbuff, txpassed))>>
      /\ UNCHANGED <<txsize, segblkcount, stmin, txbuff, STmin_tim>>
  BY SentNext
<1>2. UNCHANGED <<rxstate, rxsize, rxpassed, expectsn, currblkn, blksize, Cr_tim, rxstmin>>
  BY DEF Transmit, rxvars
<1> DEFINE k == txpassed - n
<1>3. /\ n \in Nat /\ k \in Nat /\ currblkn \in Nat /\ n \in 0 .. txpassed - 1
      /\ k = txpassed - n
  BY <1>1 DEF Flowing, Receiving
<1>4. /\ bus = CfFrames(txbuff, k, n) /\ Receiving(n) /\ fcs = <<>>
      /\ segblkcount = blksize /\ currblknum = currblkn + n /\ Cr_tim.left > 0
  BY DEF Flowing
<1> HIDE DEF k
<1>5. /\ CfFrames(txbuff, k, n) \o <<CfFrame(txbuff, k + n)>> = CfFrames(txbuff, k, n + 1)
      /\ CfFrames(txbuff, k, n) \in Seq({CfFrame(txbuff, i) : i \in Nat})
      /\ Len(CfFrames(txbuff, k, n + 1)) = n + 1
  <2>1. n + 1 \in Nat
    BY <1>3
  <2>2. /\ CfFrames(txbuff, k, n) \o <<CfFrame(txbuff, k + n)>> = CfFrames(txbuff, k, n + 1)
        /\ Len(CfFrames(txbuff, k, n + 1)) = n + 1
    <3>1. CfFrames(txbuff, k, n) \o <<CfFrame(txbuff, k + n)>> = CfFrames(txbuff, k, n + 1)
      BY <1>3, CfAppend, Zenon
    <3>2. Len(CfFrames(txbuff, k, n + 1)) = n + 1
      BY <1>3, <2>1, CfLength, Zenon
    <3> QED
      BY <3>1, <3>2, Zenon
  <2>3. \A i \in 1 .. n : k + i - 1 \in Nat
    BY <1>3
  <2>4. CfFrames(txbuff, k, n) \in Seq({CfFrame(txbuff, i) : i \in Nat})
    BY <1>3, <2>3 DEF CfFrames
  <2> QED
    BY <2>2, <2>4
<1>6. bus' = CfFrames(txbuff, k, n + 1)
  <2>1. k + n = txpassed
    BY <1>1, <1>3
  <2>2. bus' = bus \o <<CfFrame(txbuff, txpassed)>>
    BY <1>1, <1>4, <1>5, Transmitted DEF CfFrame
  <2> QED
    BY <1>4, <1>5, <2>1, <2>2, Zenon
<1>7. txpassed' - (n + 1) = k /\ n + 1 \in 0 .. txpassed' - 1
  BY <1>1, <1>3
<1>8. Receiving(n + 1)'
  BY <1>1, <1>2, <1>3, <1>4, <1>7 DEF Receiving
<1>9. currblknum' = currblkn' + (n + 1) /\ currblknum \in Nat
  <2>1. currblkn + n \in Nat /\ (currblkn + n) + 1 = currblkn + (n + 1)
    BY <1>3
  <2>2. currblknum = currblkn + n /\ currblkn' = currblkn
    BY <1>2, <1>4
  <2> QED
    BY <2>1, <2>2
<1>10. bus' = CfFrames(txbuff', txpassed' - (n + 1), n + 1)
  BY <1>1, <1>6, <1>7, Zenon
<1>11. Flowing(n + 1)'
  BY <1>1, <1>2, <1>4, <1>8, <1>9, <1>10 DEF Flowing
<1>12. n + 1 > 0 /\ n + 1 # 0
  BY <1>3
<1> QED
  BY <1>5, <1>6, <1>9, <1>11, <1>12

LEMMA FlowingOn ==
  ASSUME NEW n, n = Len(bus'), Flowing(n)', BlockSent(n)' \/ InBlock(n)'
  PROVE  Transfer'
  BY DEF Transfer, Flowing, Receiving, BlockSent, InBlock

\* A block goes on with the parameters it began with.
LEMMA InBlockGoesOn ==
  ASSUME NEW n, UNCHANGED <<blksize, rxstmin>>,
         txstate' \in {"MF_DT", "PAUSE"}, currblknum' < Tx!Allowed(blksize),
         stmin' = Tx!StMinTicks(rxstmin),
         STmin_tim' \in [period : {stmin'}, left : 0 .. stmin',
                         active : {TRUE}, endless : {TRUE}],
         txstate' = "PAUSE" /\ n = 0 => STmin_tim'.left < Cr_tim'.left
  PROVE  InBlock(n)'
<1>1. Tx!Allowed(blksize)' = Tx!Allowed(blksize)
  BY DEF Tx!Allowed
<1>2. Tx!StMinTicks(rxstmin)' = Tx!StMinTicks(rxstmin)
  BY DEF Tx!StMinTicks
<1> QED
  BY <1>1, <1>2, Zenon DEF InBlock

\* Where the two nodes are while frames flow.
LEMMA FlowingNow ==
  ASSUME LinkInv, ~lost, txstate \in {"MF_DT", "PAUSE"}, NEW n, n = Len(bus)
  PROVE  Flowing(n) /\ InBlock(n)
<1>1. Flowing(Len(bus)) /\ InBlock(Len(bus))
  BY DEF LinkInv, Transfer, Announced, Refused, Granted, BlockSent
<1> QED
  BY <1>1

LEMMA BusIsQueue ==
  ASSUME Flowing(Len(bus)), txpassed \in Nat
  PROVE  bus \in Seq({CfFrame(txbuff, i) : i \in Nat}) /\ fcs \in Seq({})
<1>1. PICK n \in Nat : n = Len(bus)
  BY DEF Flowing, Receiving
<1>2. n \in 0 .. txpassed - 1 /\ bus = CfFrames(txbuff, txpassed - n, n) /\ fcs = <<>>
  BY <1>1 DEF Flowing, Receiving
<1>3. \A i \in 1 .. n : (txpassed - n) + i - 1 \in Nat
  BY <1>2
<1> QED
  BY <1>2, <1>3 DEF CfFrames

LEMMA SenderStep ==
  ASSUME LinkInv, Timely, SenderProcess
  PROVE  LinkInv'
<1>1. Sending /\ Configured /\ Transmit /\ UNCHANGED <<fcs, lost>>
  BY DEF LinkInv, SenderProcess
<1>2. UNCHANGED <<rxstate, rxsize, rxpassed, expectsn, currblkn, blksize, Cr_tim, rxstmin>>
  BY <1>1 DEF Transmit, rxvars
<1>3. Configured'
  BY <1>1, <1>2, ConfiguredKept
<1>4. CASE Tx!TimeoutBs
  <2>1. /\ txstate = "WAIT" /\ txstate' = "IDLE"
        /\ UNCHANGED <<prev_data_sent, loop>>
    BY <1>4 DEF Tx!TimeoutBs, Tx!buffers
  <2>2. Sending'
    BY <1>1, <2>1 DEF Sending
  <2> QED
    BY <1>3, <2>1, <2>2, NoTransfer
<1>5. CASE Tx!PauseEnds
  <2>1. /\ txstate = "PAUSE" /\ txstate' = "MF_DT" /\ wire' = <<>>
        /\ STmin_tim' = Tx!Polled(STmin_tim) /\ Tx!HasElapsed(STmin_tim)
        /\ UNCHANGED <<txpassed, txsize, sn, currblknum, segblkcount, stmin,
                       prev_data_sent, txbuff, loop>>
    BY <1>5 DEF Tx!PauseEnds, Tx!Silent, Tx!Put, Tx!txds, Tx!buffers
  <2>2. Sending'
    BY <1>1, <2>1 DEF Sending
  <2>3. ASSUME ~lost PROVE Transfer'
    <3>1. PICK n : n = Len(bus)
      OBVIOUS
    <3>2. Flowing(n) /\ InBlock(n)
      BY <2>1, <2>3, <3>1, FlowingNow
    <3>3. txpassed \in Nat
      BY <1>1, <2>1 DEF Sending
    <3>4. bus' = bus
      BY <1>1, <2>1, <3>1, <3>2, <3>3, BusIsQueue, Transmitted
    <3>5. Flowing(n)'
      BY <1>1, <1>2, <2>1, <3>2, <3>4 DEF Flowing, Receiving, CfFrames, CfFrame, DataFrame
    <3>6. stmin \in Nat
      BY <1>1, <3>2, Parameters DEF InBlock
    <3>7. /\ STmin_tim' \in [period : {stmin}, left : 0 .. stmin,
                             active : {TRUE}, endless : {TRUE}]
          /\ STmin_tim'.left = stmin
      <4>1. STmin_tim.endless = TRUE /\ STmin_tim.period = stmin
        BY <3>2 DEF InBlock
      <4>2. STmin_tim' = [period |-> stmin, left |-> stmin, active |-> TRUE,
                          endless |-> TRUE]
        BY <2>1, <4>1 DEF Tx!Polled
      <4> QED
        BY <3>6, <4>2
    <3>8. InBlock(n)'
      BY <1>2, <2>1, <3>2, <3>6, <3>7 DEF InBlock, Tx!StMinTicks, Tx!Allowed
    <3> QED
      BY <3>1, <3>4, <3>5, <3>8, FlowingOn
  <2> QED
    BY <1>1, <1>3, <2>2, <2>3 DEF LinkInv
<1>6. CASE Tx!SentLast
  <2>1. /\ txstate' = "IDLE" /\ prev_data_sent' = TRUE /\ loop' = FALSE
    BY <1>6 DEF Tx!SentLast, Tx!SentCF
  <2>2. Sending'
    BY <2>1 DEF Sending
  <2> QED
    BY <1>3, <2>1, <2>2, NoTransfer
<1>7. ASSUME Tx!SentCF, txpassed' < txsize, currblknum' = currblknum + 1,
             \/ /\ Tx!BlockEnds /\ txstate' = "WAIT" /\ loop' = FALSE
             \/ /\ ~Tx!BlockEnds /\ txstate' \in {"PAUSE", "MF_DT"}
                /\ loop' => txstate' = "MF_DT"
      PROVE  LinkInv'
  <2>1. /\ txstate = "MF_DT" /\ txpassed \in Nat /\ txpassed' = txpassed + 1
        /\ sn' = (txpassed' - 1) % SNMOD /\ prev_data_sent' = TRUE
        /\ UNCHANGED <<txsize, segblkcount, stmin, txbuff, STmin_tim>>
    BY <1>1, <1>7, SentNext
  <2>2. Sending'
    <3>1. txbuff \in Msgs /\ txsize = Frames[txbuff] /\ txpassed \in 1 .. txsize - 1
      BY <1>1, <2>1 DEF Sending
    <3>2. txsize \in Nat
      BY <3>1, FramesOf
    <3>3. txpassed' \in 1 .. txsize' - 1
      BY <1>7, <2>1, <3>1, <3>2
    <3> QED
      BY <1>7, <2>1, <3>1, <3>3 DEF Sending
  <2>3. ASSUME ~lost PROVE Transfer'
    <3>1. PICK n : n = Len(bus)
      OBVIOUS
    <3>2. Flowing(n) /\ InBlock(n)
      BY <2>1, <2>3, <3>1, FlowingNow
    <3>3. /\ Flowing(n + 1)' /\ Len(bus') = n + 1 /\ n + 1 > 0 /\ n + 1 # 0
          /\ currblknum \in Nat
      BY <1>1, <1>7, <3>1, <3>2, SentInBlock
    <3>4. currblknum < Tx!Allowed(blksize) /\ segblkcount = blksize /\ blksize \in Nat
      <4>1. blksize \in Nat
        BY <1>1, Parameters
      <4>2. currblknum < Tx!Allowed(blksize)
        BY <3>2 DEF InBlock
      <4>3. segblkcount = blksize
        BY <3>2 DEF Flowing
      <4> QED
        BY <4>1, <4>2, <4>3
    <3>5. CASE Tx!BlockEnds
      <4>1. Tx!Allowed(blksize) = currblknum + 1
        BY <3>3, <3>4, <3>5 DEF Tx!BlockEnds, Tx!Allowed
      <4>2. txstate' = "WAIT"
        BY <1>7, <3>5
      <4>3. BlockSent(n + 1)'
        BY <1>2, <1>7, <3>3, <4>1, <4>2 DEF BlockSent, Tx!Allowed
      <4> QED
        BY <3>3, <4>3, FlowingOn
    <3>6. CASE ~Tx!BlockEnds
      <4>1. currblknum + 1 < Tx!Allowed(blksize)
        BY <3>3, <3>4, <3>6 DEF Tx!BlockEnds, Tx!Allowed
      <4>2. txstate' \in {"PAUSE", "MF_DT"}
        BY <1>7, <3>6
      <4>3. InBlock(n + 1)'
        <5>1. currblknum' < Tx!Allowed(blksize) /\ UNCHANGED <<blksize, rxstmin>>
          BY <1>2, <1>7, <4>1
        <5>2. /\ stmin' = Tx!StMinTicks(rxstmin)
              /\ STmin_tim' \in [period : {stmin'}, left : 0 .. stmin',
                                 active : {TRUE}, endless : {TRUE}]
          BY <2>1, <3>2, Zenon DEF InBlock
        <5>3. n + 1 # 0
          BY <3>3
        <5> QED
          BY <4>2, <5>1, <5>2, <5>3, InBlockGoesOn, Zenon
      <4> QED
        BY <3>3, <4>3, FlowingOn
    <3> QED
      BY <3>5, <3>6
  <2> QED
    BY <1>1, <1>3, <2>2, <2>3 DEF LinkInv
<1>8. ASSUME Tx!SentBlockEnd \/ Tx!SentThenPause \/ Tx!SentThenNext PROVE LinkInv'
  <2>1. /\ Tx!SentCF /\ txpassed' < txsize /\ currblknum' = currblknum + 1
        /\ \/ /\ Tx!BlockEnds /\ txstate' = "WAIT" /\ loop' = FALSE
           \/ /\ ~Tx!BlockEnds /\ txstate' = "PAUSE" /\ loop' = FALSE
           \/ /\ ~Tx!BlockEnds /\ txstate' = txstate /\ loop' = TRUE
    BY <1>8 DEF Tx!SentBlockEnd, Tx!SentThenPause, Tx!SentThenNext
  <2>2. txstate = "MF_DT"
    BY <1>1, <2>1, SentNext
  <2> QED
    BY <1>7, <2>1, <2>2
<1>9. ~Tx!RetryLater /\ ~Tx!TimeoutAs
  BY DEF Tx!RetryLater, Tx!TimeoutAs, Tx!NotSentCF
<1> QED
  BY <1>4, <1>5, <1>6, <1>8, <1>9 DEF SenderProcess, Tx!ProcessTx, Tx!SendCF

\* Permission for a block starts it on both sides.
LEMMA FlowControlStep ==
  ASSUME LinkInv, Timely, ReadFlowControl
  PROVE  LinkInv'
<1> DEFINE data == Head(fcs)
<1>1. /\ Sending /\ Configured /\ Transmit /\ UNCHANGED lost
      /\ fcs # <<>> /\ fcs' = Tail(fcs)
  BY DEF LinkInv, ReadFlowControl
<1>2. UNCHANGED <<rxstate, rxsize, rxpassed, expectsn, currblkn, blksize, Cr_tim, rxstmin>>
  BY <1>1 DEF Transmit, rxvars
<1>3. Configured'
  BY <1>1, <1>2, ConfiguredKept
<1>4. CASE Tx!FlowControlUnexpected \/ Tx!FlowControlStop("BUFFER_OVFLW")
  <2>1. ~loop /\ txstate' = "IDLE" /\ UNCHANGED <<prev_data_sent, loop>>
    BY <1>4 DEF Tx!FlowControlUnexpected, Tx!FlowControlStop, Tx!buffers
  <2>2. Sending'
    BY <1>1, <2>1 DEF Sending
  <2> QED
    BY <1>3, <2>1, <2>2, NoTransfer
<1>5. CASE Low(data) = FlowCode.CTS /\ Tx!FlowControlCTS(data[1], data[2])
  <2>1. /\ ~loop /\ txstate = "WAIT" /\ wire' = <<>>
        /\ currblknum' = 0 /\ segblkcount' = data[1]
        /\ stmin' = Tx!StMinTicks(data[2])
        /\ txstate' = IF stmin' # 0 THEN "PAUSE" ELSE "MF_DT"
        /\ STmin_tim' = Tx!StartRepeat(STmin_tim, stmin', TRUE)
        /\ UNCHANGED <<txpassed, txsize, sn, prev_data_sent, txbuff, loop>>
    BY <1>5 DEF Tx!FlowControlCTS, Tx!Silent, Tx!Put, Tx!buffers, Tx!StartStMin
  <2>2. Sending'
    BY <1>1, <2>1 DEF Sending
  <2>3. ASSUME ~lost PROVE Transfer'
    <3>1. ~Refused
      <4> SUFFICES ASSUME Refused PROVE FALSE
        OBVIOUS
      <4>1. data = FcFrame(Rx!FlowControl("OVERFLOW", 0))
        BY DEF Refused
      <4>2. Low(data) = FlowCode["OVERFLOW"]
        BY <4>1, FlowHead
      <4> QED
        BY <1>5, <4>2 DEF FlowCode
    <3>2. Granted
      BY <1>1, <2>1, <2>3, <3>1 DEF LinkInv, Transfer, Announced, Flowing
    <3>3. /\ bus = <<>> /\ data = FcFrame(Rx!FlowControl("CTS", blksize)) /\ fcs' = <<>>
          /\ Receiving(0) /\ currblkn = 0 /\ Tx!StMinTicks(rxstmin) < Cr_tim.left
      BY <1>1, <3>2 DEF Granted
    <3>4. data[1] = blksize /\ data[2] = rxstmin
      BY <3>3, FlowHead
    <3>5. bus' = <<>>
      <4>1. bus \in Seq({})
        BY <3>3
      <4> QED
        BY <1>1, <2>1, <3>3, <4>1, Transmitted
    <3>6. /\ blksize \in Nat /\ Tx!StMinTicks(rxstmin) \in Nat /\ Cr_tim.left \in Nat
      BY <1>1, Parameters
    <3>7. txpassed \in Nat
      BY <1>1, <2>1 DEF Sending
    <3>8. Receiving(0)'
      BY <1>2, <2>1, <3>3 DEF Receiving
    <3>9. bus' = CfFrames(txbuff', txpassed' - 0, 0) /\ 0 = Len(bus')
      BY <3>5 DEF CfFrames
    <3>10. Flowing(0)'
      <4>1. Cr_tim'.left > 0
        BY <1>2, <3>3, <3>6
      <4>2. segblkcount' = blksize' /\ currblknum' = currblkn' + 0
        BY <1>2, <2>1, <3>3, <3>4
      <4> QED
        BY <3>3, <3>8, <3>9, <4>1, <4>2 DEF Flowing
    <3>11. InBlock(0)'
      <4>1. txstate' \in {"MF_DT", "PAUSE"}
        BY <2>1
      <4>2. 0 < Tx!Allowed(blksize)
        BY <3>6 DEF Tx!Allowed
      <4>3. stmin' = Tx!StMinTicks(rxstmin)
        BY <2>1, <3>4
      <4>4. STmin_tim' = [period |-> stmin', left |-> stmin', active |-> TRUE,
                          endless |-> TRUE]
        BY <2>1 DEF Tx!StartRepeat
      <4>5. STmin_tim'.left < Cr_tim'.left
        BY <1>2, <3>3, <4>3, <4>4
      <4>6. STmin_tim' \in [period : {stmin'}, left : 0 .. stmin',
                            active : {TRUE}, endless : {TRUE}]
        BY <3>6, <4>3, <4>4
      <4> QED
        <5>1. currblknum' < Tx!Allowed(blksize) /\ UNCHANGED <<blksize, rxstmin>>
          BY <1>2, <2>1, <3>3, <3>4, <4>2
        <5> QED
          BY <4>1, <4>3, <4>5, <4>6, <5>1, InBlockGoesOn, Zenon
    <3> QED
      BY <3>9, <3>10, <3>11, FlowingOn
  <2> QED
    BY <1>1, <1>3, <2>2, <2>3 DEF LinkInv
<1> QED
  BY <1>4, <1>5 DEF ReadFlowControl

-----------------------------------------------------------------------------
(* The steps of the receiver.                                              *)

LEMMA RxAlone ==
  ASSUME LinkInv, Report,
         \/ Cr_tim' = Cr_tim \/ Cr_tim' = Rx!RestartTimer(Cr_tim)
         \/ Cr_tim' = Rx!Polled(Cr_tim),
         blksize' = blksize
  PROVE  /\ Sending /\ Configured /\ Sending' /\ Configured'
         /\ UNCHANGED <<txstate, txpassed, txsize, sn, currblknum, segblkcount, stmin,
                        txbuff, STmin_tim, rxstmin, lost>>
<1>1. Sending /\ Configured /\ UNCHANGED <<txvars, rxstmin, lost>>
  BY DEF LinkInv, Report
<1>2. Sending'
  BY <1>1, SendingKept
<1>3. Configured'
  BY <1>1, ConfiguredKept
<1> QED
  BY <1>1, <1>2, <1>3 DEF txvars

LEMMA ReceiverStep ==
  ASSUME LinkInv, Timely, ReceiverProcess
  PROVE  LinkInv'
<1>1. /\ rxstate = "ACTIVE" /\ Cr_tim.left = 0 /\ rxsent' = <<>> /\ Report
      /\ Cr_tim' = Rx!Polled(Cr_tim) /\ UNCHANGED <<blksize, bus>>
  BY DEF ReceiverProcess, Rx!ProcessRx, Rx!HasElapsed, Rx!Send
<1>2. /\ Sending /\ Configured /\ Sending' /\ Configured'
      /\ UNCHANGED <<txstate, txpassed, txsize, sn, currblknum, segblkcount, stmin,
                     txbuff, STmin_tim, rxstmin, lost>>
  BY <1>1, RxAlone
<1>3. ASSUME ~lost, txstate # "IDLE" PROVE Transfer'
  <2>1. Tx!StMinTicks(rxstmin) \in Nat
    BY <1>2, Parameters
  <2>2. Announced \/ Refused
    BY <1>1, <1>3, <2>1 DEF LinkInv, Transfer, Granted, Flowing
  <2>3. CASE Announced
    <3>1. fcs \in Seq({}) /\ fcs = <<>>
      BY <2>3 DEF Announced
    <3>2. fcs' = <<>>
      BY <1>1, <3>1, Reported
    <3> QED
      BY <1>1, <1>2, <2>3, <3>2 DEF Transfer, Announced, FfFrame, DataFrame
  <2>4. CASE Refused
    <3> DEFINE f == FcFrame(Rx!FlowControl("OVERFLOW", 0))
    <3>1. fcs \in Seq({f}) /\ fcs = <<f>>
      BY <2>4 DEF Refused
    <3>2. fcs' = fcs
      BY <1>1, <3>1, Reported
    <3> QED
      BY <1>1, <1>2, <2>4, <3>2 DEF Transfer, Refused, FcFrame, Rx!FlowControl
  <2> QED
    BY <2>2, <2>3, <2>4
<1> QED
  BY <1>2, <1>3 DEF LinkInv

\* Both sides see the end of a block at the same frame (docan-sender.cpp:117,
\* docan-receiver.cpp:92).
LEMMA BlockNumbers ==
  ASSUME NEW b \in Nat, NEW c \in Nat, NEW n \in Nat, n > 0
  PROVE  /\ c + 1 >= b => ~(c + n < Tx!Allowed(b))
         /\ c + 1 >= b /\ Tx!Allowed(b) = c + n => n = 1
         /\ ~(c + 1 >= b) /\ Tx!Allowed(b) = c + n => n - 1 > 0
  BY DEF Tx!Allowed

\* A frame the receiver accepts while they flow is not the last of the message.
LEMMA AcceptedInBlock ==
  ASSUME Sending, NEW n \in Nat, n > 0, Flowing(n), txstate # "IDLE",
         Rx!AcceptCF(txbuff, txpassed - n)
  PROVE  /\ rxpassed' # rxsize /\ rxsize' = rxsize /\ blksize' = blksize
         /\ rxpassed' = 6 + 7 * (txpassed - (n - 1) - 1)
         /\ expectsn' = (txpassed - (n - 1)) % SNMOD
         /\ Cr_tim' = Rx!RestartTimer(Cr_tim)
<1>1. PICK k \in Nat : k = txpassed - n /\ k > 0
  BY DEF Sending, Flowing, Receiving
<1>2. /\ txbuff \in Msgs /\ txpassed \in Nat /\ k + 1 < Frames[txbuff]
  <2>1. txbuff \in Msgs /\ txsize = Frames[txbuff] /\ txpassed \in 1 .. txsize - 1
    BY DEF Sending
  <2>2. Frames[txbuff] \in Nat
    BY <2>1, FramesOf
  <2> QED
    BY <1>1, <2>1, <2>2
<1>3. Size[txbuff] \in Nat /\ 7 * (k + 1) <= Size[txbuff]
  BY <1>1, <1>2, FramesOf
<1>4. /\ rxsize = Size[txbuff] /\ rxpassed = 6 + 7 * (k - 1) /\ expectsn = k % SNMOD
  BY <1>1, <1>2 DEF Flowing, Receiving
<1>5. PICK s \in Nat : s = rxsize /\ 7 * (k + 1) <= s
  BY <1>3, <1>4
<1>6. Rx!CopyLength = 7
  BY <1>1, <1>4, <1>5, Constants DEF Rx!CopyLength
<1>7. /\ rxpassed' = rxpassed + Rx!CopyLength /\ expectsn' = (expectsn + 1) % SNMOD
      /\ Cr_tim' = Rx!RestartTimer(Cr_tim) /\ rxsize' = rxsize /\ blksize' = blksize
  BY DEF Rx!AcceptCF, Rx!ArmCr, Rx!NextSerial
<1>8. rxpassed' = 6 + 7 * k /\ expectsn' = (k + 1) % SNMOD
  BY <1>1, <1>4, <1>6, <1>7, Constants
<1>9. rxpassed' # rxsize
  BY <1>1, <1>5, <1>8
<1>10. txpassed - (n - 1) - 1 = k /\ txpassed - (n - 1) = k + 1
  BY <1>1, <1>2
<1> QED
  BY <1>7, <1>8, <1>9, <1>10

LEMMA AcceptedStep ==
  ASSUME LinkInv, Timely, Report, ~lost, txstate # "IDLE",
         NEW n \in Nat, n = Len(bus), n > 0, bus' = Tail(bus), Flowing(n),
         BlockSent(n) \/ InBlock(n),
         \/ Rx!ReceiveCFBlockEnd(txbuff, txpassed - n)
         \/ Rx!ReceiveCFInBlock(txbuff, txpassed - n)
  PROVE  LinkInv'
<1>1. Rx!AcceptCF(txbuff, txpassed - n) /\ rxstate' = rxstate
  BY DEF Rx!ReceiveCFBlockEnd, Rx!ReceiveCFInBlock
<1>2. Sending /\ Configured
  BY DEF LinkInv
<1>3. /\ rxpassed' # rxsize /\ rxsize' = rxsize /\ blksize' = blksize
      /\ rxpassed' = 6 + 7 * (txpassed - (n - 1) - 1)
      /\ expectsn' = (txpassed - (n - 1)) % SNMOD
      /\ Cr_tim' = Rx!RestartTimer(Cr_tim)
  BY <1>1, <1>2, AcceptedInBlock
<1>4. /\ Sending' /\ Configured'
      /\ UNCHANGED <<txstate, txpassed, txsize, sn, currblknum, segblkcount, stmin,
                     txbuff, STmin_tim, rxstmin, lost>>
  BY <1>3, RxAlone
<1>5. PICK k \in Nat : k = txpassed - n /\ k > 0 /\ txpassed \in Nat /\ n <= txpassed - 1
  <2>1. n \in 0 .. txpassed - 1
    BY Zenon DEF Flowing, Receiving
  <2>2. txbuff \in Msgs /\ txpassed \in 1 .. Frames[txbuff] - 1
    BY <1>2 DEF Sending
  <2>3. txpassed \in Nat
    BY <2>2, FramesOf
  <2> QED
    BY <2>1, <2>3
<1>6. /\ bus = CfFrames(txbuff, k, n) /\ fcs = <<>> /\ currblkn \in Nat
      /\ segblkcount = blksize /\ currblknum = currblkn + n /\ rxsize = Size[txbuff]
      /\ rxstate = "ACTIVE"
  BY <1>5 DEF Flowing, Receiving
<1>7. n - 1 \in Nat /\ n - 1 <= txpassed - 1 /\ txpassed - (n - 1) = k + 1
  BY <1>5
<1>8. bus' = CfFrames(txbuff, k + 1, n - 1) /\ Len(bus') = n - 1
  <2>1. /\ Tail(CfFrames(txbuff, k, n)) = CfFrames(txbuff, k + 1, n - 1)
        /\ Len(CfFrames(txbuff, k + 1, n - 1)) = n - 1
    <3>1. Tail(CfFrames(txbuff, k, n)) = CfFrames(txbuff, k + 1, n - 1)
      BY CfTail, Zenon
    <3>2. Len(CfFrames(txbuff, k + 1, n - 1)) = n - 1
      <4>1. k + 1 \in Nat /\ n - 1 \in Nat
        OBVIOUS
      <4> QED
        BY <4>1, CfLength, Zenon
    <3> QED
      BY <3>1, <3>2, Zenon
  <2>2. bus' = Tail(CfFrames(txbuff, k, n))
    BY <1>6, Zenon
  <2> QED
    BY <2>1, <2>2, Zenon
<1>9. /\ blksize \in Nat /\ Tx!StMinTicks(rxstmin) \in Nat
      /\ Tx!StMinTicks(rxstmin) < Cr_tim'.left /\ Cr_tim'.left > 0
  <2>1. /\ blksize \in Nat /\ Tx!StMinTicks(rxstmin) \in Nat /\ Cr_tim.period \in Nat
        /\ Tx!StMinTicks(rxstmin) < Cr_tim.period
    BY <1>2, Parameters
  <2>2. Cr_tim'.left = Cr_tim.period
    BY <1>3 DEF Rx!RestartTimer, Rx!StartTimer
  <2> QED
    BY <2>1, <2>2
<1> DEFINE done == currblkn + 1 >= blksize
<1>12. /\ done => ~(currblknum < Tx!Allowed(blksize))
       /\ done /\ Tx!Allowed(blksize) = currblknum => n = 1
       /\ ~done /\ Tx!Allowed(blksize) = currblknum => n - 1 > 0
  <2>1. PICK b \in Nat : b = blksize
    BY <1>9
  <2>2. PICK c \in Nat : c = currblkn
    BY <1>6
  <2>3. /\ c + 1 >= b => ~(c + n < Tx!Allowed(b))
        /\ c + 1 >= b /\ Tx!Allowed(b) = c + n => n = 1
        /\ ~(c + 1 >= b) /\ Tx!Allowed(b) = c + n => n - 1 > 0
    BY BlockNumbers
  <2>4. c + n = currblknum
    BY <1>6, <2>2
  <2> QED
    BY <2>1, <2>2, <2>3, <2>4
<1> HIDE DEF done
<1>10. CASE Rx!ReceiveCFBlockEnd(txbuff, txpassed - n)
  <2>1. /\ done /\ currblkn' = 0
        /\ rxsent' = <<Rx!FlowControl("CTS", blksize)>>
    BY <1>10 DEF done, Rx!ReceiveCFBlockEnd, Rx!BlockDone, Rx!Send
  <2>2. BlockSent(n) /\ n = 1
    <3>1. ~InBlock(n)
      BY <1>12, <2>1 DEF InBlock
    <3>2. BlockSent(n) /\ Tx!Allowed(blksize) = currblknum
      BY <3>1 DEF BlockSent
    <3> QED
      BY <1>12, <2>1, <3>2
  <2>3. bus' = <<>>
    BY <1>8, <2>2 DEF CfFrames
  <2>4. fcs' = <<FcFrame(Rx!FlowControl("CTS", blksize))>>'
    <3>1. fcs \in Seq({})
      BY <1>6
    <3>2. fcs' = fcs \o <<FcFrame(Rx!FlowControl("CTS", blksize))>>'
      <4>1. PICK f : f = Rx!FlowControl("CTS", blksize)
        OBVIOUS
      <4>2. fcs' = fcs \o <<FcFrame(f)>>'
        BY <2>1, <3>1, <4>1, Reported
      <4>3. f = Rx!FlowControl("CTS", blksize')
        BY <1>3, <4>1
      <4> QED
        BY <4>2, <4>3 DEF FcFrame, Rx!FlowControl
    <3> QED
      BY <1>6, <3>2
  <2>5. Receiving(0)'
    <3>1. 0 \in 0 .. txpassed' - 1
      BY <1>4, <1>5
    <3>2. rxpassed' = 6 + 7 * (txpassed' - 0 - 1) /\ expectsn' = (txpassed' - 0) % SNMOD
      BY <1>3, <1>4, <1>5, <2>2
    <3> QED
      BY <1>1, <1>3, <1>4, <1>6, <2>1, <3>1, <3>2 DEF Receiving
  <2>6. Granted'
    <3>1. txstate' = "WAIT" /\ (Tx!StMinTicks(rxstmin) < Cr_tim.left)'
      BY <1>4, <1>9, <2>2 DEF BlockSent, Tx!StMinTicks
    <3> QED
      BY <2>1, <2>3, <2>4, <2>5, <3>1 DEF Granted
  <2> QED
    BY <1>4, <2>6 DEF LinkInv, Transfer
<1>11. CASE Rx!ReceiveCFInBlock(txbuff, txpassed - n)
  <2>1. ~done /\ currblkn' = currblkn + 1 /\ rxsent' = <<>>
    BY <1>11 DEF done, Rx!ReceiveCFInBlock, Rx!BlockDone, Rx!Send
  <2>2. fcs' = <<>>
    <3>1. fcs \in Seq({})
      BY <1>6
    <3> QED
      BY <1>6, <2>1, <3>1, Reported
  <2>3. Receiving(n - 1)'
    <3>1. n - 1 \in 0 .. txpassed' - 1
      BY <1>4, <1>5, <1>7
    <3> QED
      BY <1>1, <1>3, <1>4, <1>6, <2>1, <3>1 DEF Receiving
  <2>4. Flowing(n - 1)'
    <3>1. bus' = CfFrames(txbuff', txpassed' - (n - 1), n - 1)
      BY <1>4, <1>7, <1>8
    <3>2. segblkcount' = blksize' /\ currblknum' = currblkn' + (n - 1)
      <4>1. PICK c \in Nat : c = currblkn
        BY <1>6
      <4>2. c + n = (c + 1) + (n - 1)
        OBVIOUS
      <4>3. currblknum = c + n /\ currblkn' = c + 1
        BY <1>6, <2>1, <4>1
      <4> QED
        BY <1>3, <1>4, <1>6, <4>2, <4>3
    <3> QED
      BY <1>9, <2>2, <2>3, <3>1, <3>2 DEF Flowing
  <2>5. CASE BlockSent(n)
    <3>1. n - 1 > 0
      BY <1>12, <2>1, <2>5 DEF BlockSent
    <3>2. BlockSent(n - 1)'
      BY <1>3, <1>4, <2>5, <3>1 DEF BlockSent, Tx!Allowed
    <3> QED
      BY <1>4, <1>8, <2>4, <3>2, FlowingOn DEF LinkInv
  <2>6. CASE InBlock(n)
    <3>1. STmin_tim.left < Cr_tim'.left
      <4>1. STmin_tim.left \in 0 .. stmin /\ stmin = Tx!StMinTicks(rxstmin)
        BY <2>6 DEF InBlock
      <4>2. Cr_tim'.left \in Nat
        BY <1>4 DEF Configured, Rx!TimerType
      <4> QED
        BY <1>9, <4>1, <4>2
    <3>2. InBlock(n - 1)'
      <4>1. /\ txstate' \in {"MF_DT", "PAUSE"} /\ currblknum' < Tx!Allowed(blksize)
            /\ UNCHANGED <<blksize, rxstmin>>
        BY <1>3, <1>4, <2>6, Zenon DEF InBlock
      <4>2. /\ stmin' = Tx!StMinTicks(rxstmin)
            /\ STmin_tim' \in [period : {stmin'}, left : 0 .. stmin',
                               active : {TRUE}, endless : {TRUE}]
        BY <1>4, <2>6, Zenon DEF InBlock
      <4>3. STmin_tim'.left < Cr_tim'.left
        BY <1>4, <3>1, Zenon
      <4> QED
        BY <4>1, <4>2, <4>3, InBlockGoesOn, Zenon
    <3> QED
      BY <1>4, <1>8, <2>4, <3>2, FlowingOn DEF LinkInv
  <2> QED
    BY <2>5, <2>6
<1> QED
  BY <1>10, <1>11

LEMMA FirstFrameStep ==
  ASSUME LinkInv, Timely, Report, ~lost, Announced, bus' = Tail(bus),
         Rx!ReceiveFFOverflow(txbuff) \/ Rx!ReceiveFF(txbuff)
  PROVE  LinkInv'
<1>1. /\ txstate = "WAIT" /\ txpassed = 1 /\ fcs = <<>> /\ fcs \in Seq({})
      /\ bus = <<FfFrame(txbuff)>>
  BY DEF Announced
<1>2. bus' = <<>>
  BY <1>1
<1>3. CASE Rx!ReceiveFFOverflow(txbuff)
  <2>1. /\ rxsent' = <<Rx!FlowControl("OVERFLOW", 0)>> /\ Cr_tim' = Cr_tim
        /\ blksize' = blksize
    BY <1>3 DEF Rx!ReceiveFFOverflow, Rx!Send
  <2>2. /\ Sending' /\ Configured'
        /\ UNCHANGED <<txstate, txpassed, txsize, sn, currblknum, segblkcount, stmin,
                       txbuff, STmin_tim, rxstmin, lost>>
    BY <2>1, RxAlone
  <2>3. fcs' = <<FcFrame(Rx!FlowControl("OVERFLOW", 0))>>'
    BY <1>1, <2>1, Reported DEF Rx!FlowControl
  <2>4. Refused'
    BY <1>1, <1>2, <2>2, <2>3 DEF Refused
  <2> QED
    BY <2>2, <2>4 DEF LinkInv, Transfer
<1>4. CASE Rx!ReceiveFF(txbuff)
  <2>1. /\ rxsent' = <<Rx!FlowControl("CTS", blksize)>> /\ blksize' = blksize
        /\ Cr_tim' = Rx!RestartTimer(Cr_tim)
        /\ currblkn' = 0 /\ rxsize' = Size[txbuff] /\ rxpassed' = Rx!FFLEN
        /\ expectsn' = 1 /\ rxstate' = "ACTIVE"
    BY <1>4 DEF Rx!ReceiveFF, Rx!Send, Rx!ArmCr
  <2>2. /\ Sending' /\ Configured' /\ Configured
        /\ UNCHANGED <<txstate, txpassed, txsize, sn, currblknum, segblkcount, stmin,
                       txbuff, STmin_tim, rxstmin, lost>>
    BY <2>1, RxAlone
  <2>3. fcs' = <<FcFrame(Rx!FlowControl("CTS", blksize))>>'
    <3>1. PICK f : f = Rx!FlowControl("CTS", blksize)
      OBVIOUS
    <3>2. fcs' = fcs \o <<FcFrame(f)>>'
      BY <1>1, <2>1, <3>1, Reported
    <3>3. f = Rx!FlowControl("CTS", blksize')
      BY <2>1, <3>1
    <3>4. fcs' = <<FcFrame(f)>>'
      BY <1>1, <3>2
    <3> QED
      BY <3>3, <3>4 DEF FcFrame, Rx!FlowControl
  <2>4. (Tx!StMinTicks(rxstmin) < Cr_tim.left)'
    <3>1. Tx!StMinTicks(rxstmin) < Cr_tim.period
      BY <2>2, Parameters
    <3>2. Cr_tim'.left = Cr_tim.period
      BY <2>1 DEF Rx!RestartTimer, Rx!StartTimer
    <3> QED
      BY <2>2, <3>1, <3>2 DEF Tx!StMinTicks
  <2>5. Receiving(0)'
    <3>1. /\ txpassed' = 1 /\ 0 \in 0 .. 1 - 1 /\ 6 = 6 + 7 * (1 - 0 - 1)
          /\ 1 = (1 - 0) % SNMOD
      BY <1>1, <2>2, Constants
    <3> QED
      BY <2>1, <2>2, <3>1, Constants DEF Receiving
  <2>6. Granted'
    BY <1>1, <1>2, <2>1, <2>2, <2>3, <2>4, <2>5 DEF Granted
  <2> QED
    BY <2>2, <2>6 DEF LinkInv, Transfer
<1> QED
  BY <1>3, <1>4

\* Whatever is read, the receiver keeps its block size and its timer's period.
LEMMA ReadKeeps ==
  ASSUME LinkInv, ReadData
  PROVE  /\ Report /\ bus # <<>> /\ bus' = Tail(bus)
         /\ Sending /\ Configured /\ Sending' /\ Configured'
         /\ UNCHANGED <<txstate, txbuff, lost>>
<1>1. Report /\ bus # <<>> /\ bus' = Tail(bus)
  BY DEF ReadData
<1>2. PICK m, k :
        \/ Rx!ReceiveSF(m) \/ Rx!ReceiveFFOverflow(m) \/ Rx!ReceiveFF(m)
        \/ Rx!ReceiveCFUnexpected(m, k) \/ Rx!ReceiveCFLast(m, k)
        \/ Rx!ReceiveCFBlockEnd(m, k) \/ Rx!ReceiveCFInBlock(m, k)
  BY DEF ReadData
<1>3. /\ Cr_tim' = Cr_tim \/ Cr_tim' = Rx!RestartTimer(Cr_tim)
      /\ blksize' = blksize
  BY <1>2 DEF Rx!ReceiveSF, Rx!ReceiveFFOverflow, Rx!ReceiveFF, Rx!ReceiveCFUnexpected,
     Rx!ReceiveCFLast, Rx!ReceiveCFBlockEnd, Rx!ReceiveCFInBlock, Rx!AcceptCF, Rx!ArmCr
<1> QED
  BY <1>1, <1>3, RxAlone

LEMMA ReadStep ==
  ASSUME LinkInv, Timely, ReadData
  PROVE  LinkInv'
<1> DEFINE m == Head(bus).chunk[1]
           k == Head(bus).chunk[2]
           pci == UnpackPciInfo(Head(bus).head, CANDL)
<1>1. /\ Report /\ bus # <<>> /\ bus' = Tail(bus)
      /\ Sending /\ Configured /\ Sending' /\ Configured'
      /\ UNCHANGED <<txstate, txbuff, lost>>
  BY ReadKeeps
<1>2. \/ pci.type = "SF"
      \/ pci.type = "FF" /\ (Rx!ReceiveFFOverflow(m) \/ Rx!ReceiveFF(m))
      \/ /\ pci.type = "CF"
         /\ \/ Rx!ReceiveCFUnexpected(m, k)
            \/ Rx!ReceiveCFLast(m, k)
            \/ Rx!ReceiveCFBlockEnd(m, k)
            \/ Rx!ReceiveCFInBlock(m, k)
  BY DEF ReadData
<1> SUFFICES ASSUME ~lost, txstate # "IDLE" PROVE LinkInv'
  BY <1>1 DEF LinkInv
<1>3. /\ txbuff \in Msgs /\ txsize = Frames[txbuff] /\ txpassed \in 1 .. txsize - 1
      /\ Frames[txbuff] \in Nat
  BY <1>1, FramesOf DEF Sending
<1>4. CASE Announced
  <2>1. Head(bus) = FfFrame(txbuff)
    BY <1>4 DEF Announced
  <2>2. Frames[txbuff] # 1
    BY <1>3
  <2>3. m = txbuff /\ pci.type = "FF"
    BY <1>3, <2>1, <2>2, FirstHead
  <2> QED
    BY <1>1, <1>2, <1>4, <2>3, FirstFrameStep
<1>5. CASE Flowing(Len(bus)) /\ (BlockSent(Len(bus)) \/ InBlock(Len(bus)))
  <2>1. PICK n \in Nat : n = Len(bus)
    BY <1>5 DEF Flowing, Receiving
  <2>2. Flowing(n) /\ (BlockSent(n) \/ InBlock(n))
    BY <1>5, <2>1
  <2>3. /\ bus = CfFrames(txbuff, txpassed - n, n) /\ n \in 0 .. txpassed - 1
        /\ expectsn = (txpassed - n) % SNMOD /\ rxstate = "ACTIVE"
    BY <2>2 DEF Flowing, Receiving
  <2>4. PICK j \in Nat : j = txpassed - n /\ j > 0
    BY <1>3, <2>1, <2>3
  <2>5. n > 0
    <3>1. CASE n = 0
      <4>1. CfFrames(txbuff, txpassed - n, n) = <<>>
        BY <3>1 DEF CfFrames
      <4> QED
        BY <1>1, <2>3, <4>1
    <3>2. CASE n # 0
      BY <2>1, <3>2
    <3> QED
      BY <3>1, <3>2
  <2>6. Head(bus) = CfFrame(txbuff, j)
    <3>1. \A x : Head(CfFrames(x, j, n)) = CfFrame(x, j)
      BY <2>5, CfFirst
    <3> QED
      BY <2>3, <2>4, <3>1
  <2>7. m = txbuff /\ k = j /\ pci.type = "CF"
    BY <1>3, <2>6, ConseqHead
  <2>8. /\ ~Rx!ReceiveCFUnexpected(m, k)
    BY <2>3, <2>4, <2>7 DEF Rx!ReceiveCFUnexpected, Rx!Expected, Rx!SerialNumber
  <2>9. ~Rx!ReceiveCFLast(m, k)
    <3> SUFFICES ASSUME Rx!ReceiveCFLast(txbuff, txpassed - n) PROVE FALSE
      BY <2>4, <2>7
    <3>1. Rx!AcceptCF(txbuff, txpassed - n) /\ rxpassed' = rxsize
      BY DEF Rx!ReceiveCFLast
    <3> QED
      BY <1>1, <2>2, <2>5, <3>1, AcceptedInBlock
  <2>10. \/ Rx!ReceiveCFBlockEnd(txbuff, txpassed - n)
         \/ Rx!ReceiveCFInBlock(txbuff, txpassed - n)
    BY <1>2, <2>4, <2>7, <2>8, <2>9
  <2> QED
    BY <1>1, <2>1, <2>2, <2>5, <2>10, AcceptedStep
<1> QED
  BY <1>1, <1>4, <1>5 DEF LinkInv, Transfer, Refused, Granted

-----------------------------------------------------------------------------
(* The steps of the bus and of the clock.                                  *)

LEMMA LoseStep ==
  ASSUME LinkInv, LoseData \/ LoseFlowControl
  PROVE  LinkInv'
<1>1. /\ lost' = TRUE /\ UNCHANGED txvars
      /\ UNCHANGED <<blksize, Cr_tim, rxstmin>>
  BY DEF LoseData, LoseFlowControl, rxvars
<1>2. Sending' /\ Configured'
  BY <1>1, SendingKept, ConfiguredKept DEF LinkInv
<1> QED
  BY <1>1, <1>2, NoTransfer

LEMMA TickStep ==
  ASSUME LinkInv, Timely, Tick
  PROVE  LinkInv'
<1>1. /\ Sending /\ Configured /\ UNCHANGED <<rxstmin, bus, fcs, lost>>
      /\ bus = <<>> /\ fcs = <<>> /\ txstate # "MF_DT"
      /\ txstate = "PAUSE" => ~Tx!HasElapsed(STmin_tim)
  BY DEF LinkInv, Tick, Settled, Quiet
<1>2. /\ STmin_tim' = Tx!Ticked(STmin_tim)
      /\ UNCHANGED <<txstate, txpassed, txsize, sn, currblknum, segblkcount, stmin,
                     prev_data_sent, txbuff, loop>>
  BY DEF Tick, Tx!ProcessTick, Tx!txds, Tx!buffers
<1>3. /\ Cr_tim' = Rx!Ticked(Cr_tim)
      /\ UNCHANGED <<rxstate, rxsize, rxpassed, expectsn, currblkn, blksize>>
  BY DEF Tick, Rx!ProcessTick, Rx!rxds
<1>4. Sending' /\ Configured'
  <2>1. Sending'
    BY <1>1, <1>2 DEF Sending
  <2>2. Configured'
    BY <1>1, <1>3, ConfiguredKept
  <2> QED
    BY <2>1, <2>2
<1>5. ASSUME ~lost, txstate # "IDLE" PROVE Transfer'
  <2>1. Flowing(0) /\ InBlock(0) /\ txstate = "PAUSE" /\ Len(bus) = 0
    <3>1. Len(bus) = 0 /\ bus # <<FfFrame(txbuff)>>
      BY <1>1
    <3>2. ~Announced /\ ~Refused /\ ~Granted
      BY <1>1, <3>1 DEF Announced, Refused, Granted
    <3>3. Flowing(0) /\ (BlockSent(0) \/ InBlock(0))
      BY <1>5, <3>1, <3>2 DEF LinkInv, Transfer
    <3>4. InBlock(0)
      BY <3>3 DEF BlockSent
    <3> QED
      BY <1>1, <3>1, <3>3, <3>4 DEF InBlock
  <2>2. /\ STmin_tim.active /\ STmin_tim.endless
        /\ STmin_tim.period = stmin /\ STmin_tim.left \in 0 .. stmin
        /\ STmin_tim.left < Cr_tim.left
    BY <2>1 DEF InBlock
  <2>3. STmin_tim.left # 0
    BY <1>1, <2>1, <2>2 DEF Tx!HasElapsed
  <2>4. PICK l \in Nat : l = STmin_tim.left /\ l > 0
    BY <2>2, <2>3
  <2>5. PICK c \in Nat : c = Cr_tim.left /\ c > l
    BY <1>1, <2>2, <2>4 DEF Configured, Rx!TimerType
  <2>6. /\ STmin_tim' \in [period : {stmin}, left : 0 .. stmin,
                           active : {TRUE}, endless : {TRUE}]
        /\ STmin_tim'.left = l - 1
    <3>1. STmin_tim' = [STmin_tim EXCEPT !.left = l - 1]
      BY <1>2, <2>4 DEF Tx!Ticked
    <3>2. l - 1 \in 0 .. stmin
      <4>1. stmin \in Nat
        BY <1>1, <2>1, Parameters DEF InBlock
      <4> QED
        BY <2>2, <2>4, <4>1
    <3> QED
      BY <2>1, <3>1, <3>2 DEF InBlock
  <2>7. Cr_tim'.left = c - 1
    <3>1. Cr_tim' = [Cr_tim EXCEPT !.left = c - 1]
      BY <1>3, <2>4, <2>5 DEF Rx!Ticked
    <3> QED
      BY <1>1, <3>1 DEF Configured, Rx!TimerType
  <2>8. l - 1 < c - 1 /\ c - 1 > 0
    BY <2>4, <2>5
  <2>9. Flowing(0)'
    <3>1. Receiving(0)'
      BY <1>2, <1>3, <2>1 DEF Flowing, Receiving
    <3>2. (bus = CfFrames(txbuff, txpassed - 0, 0))'
      BY <1>1 DEF CfFrames
    <3>3. Cr_tim'.left > 0
      BY <2>7, <2>8
    <3> QED
      BY <1>1, <1>2, <1>3, <2>1, <3>1, <3>2, <3>3 DEF Flowing
  <2>10. InBlock(0)'
    <3>1. STmin_tim'.left < Cr_tim'.left
      BY <2>6, <2>7, <2>8
    <3> QED
      <4>1. /\ txstate' = "PAUSE" /\ currblknum' < Tx!Allowed(blksize)
            /\ stmin' = stmin /\ stmin = Tx!StMinTicks(rxstmin)
            /\ UNCHANGED <<blksize, rxstmin>>
        BY <1>1, <1>2, <1>3, <2>1 DEF InBlock
      <4> QED
        BY <2>6, <3>1, <4>1, InBlockGoesOn, Zenon
  <2>11. Len(bus') = 0
    BY <1>1
  <2> QED
    BY <2>9, <2>10, <2>11, FlowingOn
<1>6. lost' = lost /\ txstate' = txstate
  BY <1>1, <1>2
<1> QED
  BY <1>4, <1>5, <1>6 DEF LinkInv

-----------------------------------------------------------------------------
(* The invariant, and what it says of the two nodes between frames.        *)

LEMMA InitStep ==
  ASSUME Init
  PROVE  LinkInv
<1>1. Sending
  BY DEF Init, Tx!Init, Sending
<1>2. Configured
  <2>1. PICK p \in FlowParams : blksize = p[1] /\ rxstmin = p[2]
    BY DEF Init
  <2>2. p = <<blksize, rxstmin>>
    BY <2>1, ParametersAssumption
  <2>3. PICK c \in CrPeriods : Cr_tim = Rx!NewTimer(c, FALSE, FALSE)
    BY DEF Init, Rx!Init
  <2>4. Cr_tim \in Rx!TimerType(CrPeriods)
    BY <2>3 DEF Rx!NewTimer, Rx!TimerType
  <2> QED
    BY <2>1, <2>2, <2>4 DEF Configured
<1>3. txstate = "IDLE"
  BY DEF Init, Tx!Init
<1> QED
  BY <1>1, <1>2, <1>3 DEF LinkInv

LEMMA StutterStep ==
  ASSUME LinkInv, UNCHANGED vars
  PROVE  LinkInv'
<1>1. UNCHANGED <<txstate, txpassed, txsize, sn, currblknum, segblkcount, stmin,
                  prev_data_sent, txbuff, STmin_tim, loop>>
  BY DEF vars, txvars
<1>2. UNCHANGED <<rxstate, rxsize, rxpassed, expectsn, currblkn, blksize, Cr_tim>>
  BY DEF vars, rxvars
<1>3. UNCHANGED <<rxstmin, bus, fcs, lost>>
  BY DEF vars
<1>4. Sending' = Sending /\ Configured' = Configured
  BY <1>1, <1>2, <1>3 DEF Sending, Configured
<1>5. Announced' = Announced /\ Refused' = Refused
  BY <1>1, <1>3 DEF Announced, Refused, FfFrame, DataFrame, FcFrame, Rx!FlowControl
<1>6. ASSUME NEW n PROVE Receiving(n)' = Receiving(n)
  BY <1>1, <1>2 DEF Receiving
<1>7. Granted' = Granted
  BY <1>1, <1>2, <1>3, <1>6 DEF Granted, FcFrame, Rx!FlowControl, Tx!StMinTicks
<1>8. ASSUME NEW n
      PROVE  /\ Flowing(n)' = Flowing(n) /\ BlockSent(n)' = BlockSent(n)
             /\ InBlock(n)' = InBlock(n)
  BY <1>1, <1>2, <1>3, <1>6
     DEF Flowing, CfFrames, CfFrame, DataFrame, BlockSent, InBlock, Tx!Allowed, Tx!StMinTicks
<1>9. Transfer' = Transfer
  BY <1>3, <1>5, <1>7, <1>8 DEF Transfer
<1> QED
  BY <1>1, <1>3, <1>4, <1>9 DEF LinkInv

\* While no frame of it is lost, a transfer is always in one of five places, known to
\* both nodes: its first frame is on the bus, or the refusal of it, or a permission for
\* the next block, or frames of the block flow, in order, or the block is through and
\* the last of it is still under way (docan-sender.cpp:8-203, docan-receiver.cpp:7-125).
THEOREM LinkInvariant == ASSUME Timely PROVE Spec => []LinkInv
<1>1. Init => LinkInv
  BY InitStep
<1>2. LinkInv /\ [Next]_vars => LinkInv'
  <2> SUFFICES ASSUME LinkInv, [Next]_vars PROVE LinkInv'
    OBVIOUS
  <2>1. CASE Asks
    BY <2>1, AskStep DEF Asks
  <2>2. CASE SenderProcess
    BY <2>2, SenderStep
  <2>3. CASE ReadFlowControl
    BY <2>3, FlowControlStep
  <2>4. CASE ReadData
    BY <2>4, ReadStep
  <2>5. CASE ReceiverProcess
    BY <2>5, ReceiverStep
  <2>6. CASE LoseData \/ LoseFlowControl
    BY <2>6, LoseStep
  <2>7. CASE Tick
    BY <2>7, TickStep
  <2>8. CASE UNCHANGED vars
    BY <2>8, StutterStep
  <2> QED
    BY <2>1, <2>2, <2>3, <2>4, <2>5, <2>6, <2>7, <2>8 DEF Next
<1> QED
  BY <1>1, <1>2, PTL DEF Spec

\* Between two frames of a transfer that lost none, both nodes are in the same block, of
\* the same size, after the same number of its frames: the sender never waits for a
\* permission the receiver does not think due, nor the receiver for a frame the sender
\* does not think allowed (docan-sender.cpp:117, 166-169; docan-receiver.cpp:47-50, 86,
\* 92-96).
THEOREM LinkSameBlock == ASSUME Timely PROVE Spec => []SameBlock
<1>1. LinkInv => SameBlock
  <2> SUFFICES ASSUME LinkInv, Quiet, ~lost, txstate \in {"MF_DT", "PAUSE"}
               PROVE  /\ rxstate = "ACTIVE" /\ segblkcount = blksize
                      /\ currblknum = currblkn
    BY DEF SameBlock
  <2>1. Len(bus) = 0
    BY DEF Quiet
  <2>2. Flowing(0)
    BY <2>1, FlowingNow
  <2>3. currblkn \in Nat /\ currblknum = currblkn + 0
    BY <2>2 DEF Flowing, Receiving
  <2> QED
    BY <2>2, <2>3 DEF Flowing, Receiving
<1> QED
  BY <1>1, LinkInvariant, PTL

-----------------------------------------------------------------------------
(* The refinement of MessageLink.                                          *)

\* Serial numbers tell frames apart: a message has no more consecutive frames than there
\* are numbers, or a block has not (16 frames in docan-receiver.h:60, 8 in main.cpp:38).
Unambiguous ==
    \A m \in Msgs, p \in FlowParams : Frames[m] - 1 <= SNMOD \/ p[1] <= SNMOD

\* The receiver accepted j frames of m and has room for more.
Holds(m, j) ==
    /\ rxsize = Size[m]
    /\ rxpassed = 6 + 7 * (j - 1) /\ rxpassed < rxsize
    /\ assembled \in Seq(Rx!Bytes) /\ Len(assembled) = rxpassed
    /\ expectsn = j % SNMOD
    /\ currblkn \in Nat

\* What it holds is a beginning of m if it missed none before the k-th, the next to
\* arrive; and in any case if serial numbers are unambiguous.
Sound(m, j, k) == j = k \/ Unambiguous => assembled = Rx!Part(m, 0, rxpassed)

\* A first frame of a message the receiver has room for is on its way.
AnnouncesIn(q) ==
    \E i \in DOMAIN q : q[i].chunk[2] = 0 /\ q[i].chunk[1] \notin Short \cup TooLong
Announces == AnnouncesIn(bus)

\* The buffer of the receiver holds what it put together behind the part of the first
\* frame; and this part too during the first of all its receptions, which no other one
\* left its end to (docan-receiver.cpp:53).
Stored ==
    /\ begun \in Nat
    /\ rxstate = "ACTIVE" =>
           /\ begun # 0 /\ rxsize <= RXLEN
           /\ \A i \in 1 .. rxpassed : i > 6 \/ begun = 1 => rxbuff[i - 1] = assembled[i]
    /\ begun = 0 => rxpassed = 0 /\ ~Announces
    /\ begun = 1 /\ Announces => rxpassed = 0

\* What the sender waits for never elapses while nothing is lost.
Waits ==
    /\ N_Bs_tim \in Tx!TimerType(BsPeriods)
    /\ txstate # "IDLE" /\ N_Bs_tim.active =>
          txstate = "WAIT" /\ (lost \/ N_Bs_tim.left > 0)

Resting == txstate = "IDLE" /\ bus = <<>>

Single ==
    /\ txstate = "IDLE"
    /\ \E m \in Msgs : Frames[m] = 1 /\ bus = <<FfFrame(m)>>

Opening ==
    /\ txstate \in {"IDLE", "WAIT"}
    /\ txbuff \in Msgs /\ Frames[txbuff] # 1 /\ txpassed = 1
    /\ bus \in {<<>>, <<FfFrame(txbuff)>>} /\ fcs = <<>>

Permit == FcFrame(Rx!FlowControl("CTS", blksize))
Refusal == FcFrame(Rx!FlowControl("OVERFLOW", 0))

\* How far the receiver is behind.
Behind(n, j) ==
    /\ txstate \in {"MF_DT", "PAUSE"} => txpassed - j + currblkn <= currblknum
    /\ n > 0 => txpassed - j + currblkn <= Tx!Allowed(blksize)
    /\ txstate # "IDLE" /\ fcs # <<>> => j = txpassed /\ currblkn = 0

InStep(n) ==
    rxstate = "ACTIVE" /\ rxpassed = 6 + 7 * (txpassed - n - 1) /\ Cr_tim.left > 0

Opened(n) ==
    /\ txbuff \in Msgs /\ Frames[txbuff] # 1 /\ txpassed \in 1 .. Frames[txbuff]
    /\ n \in 0 .. txpassed - 1 /\ bus = CfFrames(txbuff, txpassed - n, n)
    /\ txstate # "IDLE" => fcs \in {<<>>, <<Permit>>, <<Refusal>>}
    /\ txstate # "IDLE" /\ fcs # <<>> => txstate = "WAIT" /\ n = 0
    /\ txstate # "IDLE" /\ fcs = <<Refusal>> => Size[txbuff] > RXLEN
    /\ txstate \in {"MF_DT", "PAUSE"} =>
          segblkcount = blksize /\ currblknum \in 0 .. Tx!Allowed(blksize) - 1
    /\ rxstate = "ACTIVE" =>
          \E j \in 1 .. txpassed - n :
              Holds(txbuff, j) /\ Behind(n, j) /\ Sound(txbuff, j, txpassed - n)
    /\ ~lost /\ n > 0 => InStep(n)

Place == Resting \/ Single \/ Opening \/ Opened(Len(bus))

WireInv == Waits /\ Place /\ Stored

\* DoCanLink!MessageLink, step by step.
Implemented == MessageLink!Next \/ UNCHANGED MessageLink!vars

-----------------------------------------------------------------------------
(* What is in transit.                                                     *)

\* InTransit as a function of the bus.
LastIn(q) == IF q # <<>> /\ IsLast(q[Len(q)]) THEN <<q[Len(q)].chunk[1]>> ELSE <<>>

LEMMA TransitIsLast == InTransit = LastIn(bus) /\ InTransit' = LastIn(bus')
  BY DEF InTransit, LastIn, IsLast

LEMMA FirstInTransit ==
  ASSUME NEW m \in Msgs
  PROVE  /\ LastIn(<<>>) = <<>>
         /\ LastIn(<<FfFrame(m)>>) = IF Frames[m] = 1 THEN <<m>> ELSE <<>>
         /\ Tail(<<FfFrame(m)>>) = <<>> /\ Head(<<FfFrame(m)>>) = FfFrame(m)
         /\ <<FfFrame(m)>> # <<>>
<1> DEFINE f == FfFrame(m)
<1>1. f.chunk = <<m, 0>>
  BY DEF FfFrame, DataFrame, Tx!FF, Tx!Chunk
<1>2. Frames[m] \in Nat
  BY FramesOf
<1> HIDE DEF f
<1>3. IsLast(f) <=> Frames[m] = 1
  BY <1>1, <1>2 DEF IsLast
<1>4. LastIn(<<f>>) = IF Frames[m] = 1 THEN <<m>> ELSE <<>>
  BY <1>1, <1>3 DEF LastIn
<1> QED
  BY <1>4 DEF LastIn, f

LEMMA RunInTransit ==
  ASSUME NEW m \in Msgs, NEW k \in Nat, NEW n \in Nat
  PROVE  LastIn(CfFrames(m, k, n)) = IF n > 0 /\ k + n = Frames[m] THEN <<m>> ELSE <<>>
<1> DEFINE q == CfFrames(m, k, n)
<1>1. Len(q) = n /\ (q = <<>> <=> n = 0)
  BY CfLength, CfEmpty, Zenon
<1>2. CASE n = 0
  BY <1>1, <1>2 DEF LastIn
<1>3. CASE n > 0
  <2>1. n \in 1 .. n /\ k + n - 1 \in Nat
    BY <1>3
  <2>2. q[n] = CfFrame(m, k + n - 1)
    BY <2>1 DEF CfFrames
  <2>3. CfFrame(m, k + n - 1).chunk = <<m, k + n - 1>>
    BY <2>1, ConseqHead
  <2>4. Frames[m] \in Nat
    BY FramesOf
  <2> HIDE DEF q
  <2>5. q[Len(q)].chunk = <<m, k + n - 1>> /\ q # <<>>
    BY <1>1, <1>3, <2>2, <2>3
  <2>7. q[Len(q)].chunk[1] = m /\ q[Len(q)].chunk[2] = k + n - 1
    BY <2>5
  <2>6. IsLast(q[Len(q)]) <=> k + n = Frames[m]
    <3>1. IsLast(q[Len(q)]) <=> k + n - 1 = Frames[m] - 1
      BY <2>7, Zenon DEF IsLast
    <3> QED
      BY <2>4, <3>1
  <2>8. LastIn(q) = IF k + n = Frames[m] THEN <<m>> ELSE <<>>
    BY <2>5, <2>6, <2>7 DEF LastIn
  <2> QED
    BY <1>3, <2>8 DEF q
<1> QED
  BY <1>2, <1>3

LEMMA SingleHead ==
  ASSUME NEW m \in Msgs, Frames[m] = 1
  PROVE  /\ FfFrame(m).chunk = <<m, 0>>
         /\ UnpackPciInfo(FfFrame(m).head, CANDL).type = "SF"
<1> DEFINE p == First(Size[m])
<1>1. Size[m] \in 1 .. 7
  <2>1. /\ Size[m] \in Nat /\ 1 <= Size[m] /\ Size[m] <= 4095
        /\ Frames[m] = 1 <=> Size[m] <= 7
    BY FramesOf
  <2> QED
    BY <2>1
<1>2. FfFrame(m) = [head |-> p.data, chunk |-> <<m, 0>>]
  BY DEF FfFrame, DataFrame, Tx!FF, Tx!Chunk, First
<1>3. Size[m] \in Lengths /\ SumFits(Size[m], CANDL)
  BY <1>1, SmallLength
<1>4. UnpackPciInfo(p.data, CANDL) = Pci(p.type, p.len, Size[m])
  BY <1>3, Constants, DataRoundTrip DEF First
<1>5. p.type = "SF"
  BY <1>1, FirstFrame
<1> HIDE DEF p
<1> QED
  BY <1>2, <1>4, <1>5 DEF Pci

\* What a step delivers.
LEMMA NoDelivery ==
  ASSUME Report,
         \A i \in DOMAIN rxevents' : rxevents'[i].ev # "Data" \/ rxevents'[i].res # "OK_r"
  PROVE  last' = last
<1>1. Delivered = {}
  BY DEF Delivered
<1> QED
  BY <1>1 DEF Report

\* A payload is taken for one message at most.
LEMMA SameTaken ==
  ASSUME NEW bytes, NEW m \in Msgs, NEW n \in Msgs, DOMAIN bytes = 1 .. Size[m],
         IsTakenFor(bytes, m), IsTakenFor(bytes, n)
  PROVE  m = n
<1>1. Size[m] = Size[n]
  BY DEF IsTakenFor
<1>2. Size[m] \in DOMAIN bytes
  BY FramesOf
<1>3. /\ Frames[m] = 1 \/ Size[m] > Rx!FFLEN
      /\ Frames[n] = 1 \/ Size[m] > Rx!FFLEN
  <2>1. Size[m] \in Nat /\ (Frames[m] = 1 <=> Size[m] <= 7)
    BY FramesOf
  <2>2. Frames[n] = 1 <=> Size[n] <= 7
    BY FramesOf
  <2> QED
    BY <1>1, <2>1, <2>2, Constants
<1>4. /\ bytes[Size[m]] = Rx!Byte(m, Size[m])
      /\ bytes[Size[m]] = Rx!Byte(n, Size[m])
  BY <1>2, <1>3 DEF IsTakenFor
<1> QED
  BY <1>4 DEF Rx!Byte

LEMMA Delivery ==
  ASSUME Report, NEW m \in Msgs, NEW i \in DOMAIN rxevents',
         rxevents'[i].ev = "Data", rxevents'[i].res = "OK_r",
         DOMAIN Payload = 1 .. Size[m], IsTakenFor(Payload, m)
  PROVE  last' = <<m, Part(m), 1 - last[3]>>
<1>1. Delivered \subseteq {m} /\ Delivered # {}
  <2> DEFINE bytes == Payload
  <2>1. Delivered = {n \in Msgs \cup {NoMsg} :
                       IF n = NoMsg THEN \A o \in Msgs : ~IsTakenFor(bytes, o)
                       ELSE IsTakenFor(bytes, n)}
    BY DEF Delivered
  <2>2. DOMAIN bytes = 1 .. Size[m] /\ IsTakenFor(bytes, m)
    OBVIOUS
  <2> HIDE DEF bytes
  <2>3. m # NoMsg
    OBVIOUS
  <2>4. m \in Delivered
    BY <2>1, <2>2, <2>3
  <2>5. ASSUME NEW n \in Delivered PROVE n = m
    <3>1. n # NoMsg
      BY <2>1, <2>2
    <3>2. n \in Msgs /\ IsTakenFor(bytes, n)
      BY <2>1, <3>1
    <3> QED
      BY <2>2, <3>2, SameTaken
  <2> QED
    BY <2>4, <2>5
<1>2. Delivered = {m}
  BY <1>1
<1> QED
  BY <1>2 DEF Report

-----------------------------------------------------------------------------
(* The timers of the sender.                                               *)

LEMMA BsKept ==
  ASSUME NEW t \in Tx!TimerType(BsPeriods)
  PROVE  /\ Tx!RestartTimer(t) \in Tx!TimerType(BsPeriods) /\ Tx!RestartTimer(t).left > 0
         /\ Tx!StopTimer(t) \in Tx!TimerType(BsPeriods) /\ ~Tx!StopTimer(t).active
         /\ Tx!Polled(t) \in Tx!TimerType(BsPeriods)
         /\ Tx!Ticked(t) \in Tx!TimerType(BsPeriods) /\ Tx!Ticked(t).active = t.active
<1>1. /\ t.period \in BsPeriods /\ t.period \in Nat /\ t.period > 0 /\ t.left \in Nat
      /\ t.active \in BOOLEAN /\ t.endless \in BOOLEAN
  BY ParametersAssumption DEF Tx!TimerType
<1>2. Tx!RestartTimer(t) \in Tx!TimerType(BsPeriods) /\ Tx!RestartTimer(t).left > 0
  BY <1>1 DEF Tx!RestartTimer, Tx!StartTimer, Tx!TimerType
<1>3. Tx!StopTimer(t) \in Tx!TimerType(BsPeriods) /\ ~Tx!StopTimer(t).active
  BY <1>1 DEF Tx!StopTimer, Tx!TimerType
<1>4. Tx!Polled(t) \in Tx!TimerType(BsPeriods)
  BY <1>1 DEF Tx!Polled, Tx!HasElapsed, Tx!TimerType
<1>5. Tx!Ticked(t) \in Tx!TimerType(BsPeriods) /\ Tx!Ticked(t).active = t.active
  <2>1. CASE t.left > 0
    <3>1. Tx!Ticked(t) = [t EXCEPT !.left = t.left - 1]
      BY <2>1 DEF Tx!Ticked
    <3>2. t.left - 1 \in Nat
      BY <1>1, <2>1
    <3> QED
      BY <3>1, <3>2 DEF Tx!TimerType
  <2>2. CASE ~(t.left > 0)
    BY <2>2 DEF Tx!Ticked
  <2> QED
    BY <2>1, <2>2
<1> QED
  BY <1>2, <1>3, <1>4, <1>5

\* While the sender waits and nothing is lost, there is a frame on its way.
LEMMA NeverQuiet ==
  ASSUME LinkInv, ~lost, txstate = "WAIT"
  PROVE  ~Quiet
<1> SUFFICES ASSUME bus = <<>>, fcs = <<>> PROVE FALSE
  BY DEF Quiet
<1>1. Len(bus) = 0 /\ bus # <<FfFrame(txbuff)>>
  OBVIOUS
<1>2. ~Announced /\ ~Refused /\ ~Granted
  BY <1>1 DEF Announced, Refused, Granted
<1>3. BlockSent(0) \/ InBlock(0)
  BY <1>1, <1>2 DEF LinkInv, Transfer
<1> QED
  BY <1>3 DEF BlockSent, InBlock

LEMMA WaitsStep ==
  ASSUME LinkInv, Waits, [Next]_vars
  PROVE  Waits'
<1>1. N_Bs_tim \in Tx!TimerType(BsPeriods)
  BY DEF Waits
<1>2. ASSUME NEW m \in Msgs, Ask(m) PROVE Waits'
  <2>1. CASE Tx!RequestSF(m)
    BY <1>1, <2>1 DEF Tx!RequestSF, Waits
  <2>2. CASE Tx!RequestFF(m)
    <3>1. txstate' = "WAIT" /\ N_Bs_tim' = Tx!RestartTimer(N_Bs_tim)
      BY <2>2 DEF Tx!RequestFF, Tx!ArmBs
    <3> QED
      BY <1>1, <3>1, BsKept DEF Waits
  <2> QED
    BY <1>2, <2>1, <2>2 DEF Ask
<1>3. CASE SenderProcess
  <2>1. lost' = lost /\ ~Tx!RetryLater /\ ~Tx!TimeoutAs
    BY <1>3 DEF SenderProcess, Tx!RetryLater, Tx!TimeoutAs, Tx!NotSentCF
  <2>2. CASE Tx!TimeoutBs
    <3>1. txstate' = "IDLE" /\ N_Bs_tim' = Tx!Polled(N_Bs_tim)
      BY <2>2 DEF Tx!TimeoutBs
    <3> QED
      BY <1>1, <3>1, BsKept DEF Waits
  <2>3. CASE Tx!PauseEnds
    <3>1. txstate = "PAUSE" /\ N_Bs_tim' = N_Bs_tim
      BY <2>3 DEF Tx!PauseEnds
    <3> QED
      BY <1>1, <3>1 DEF Waits
  <2>4. CASE Tx!SentLast \/ Tx!SentBlockEnd \/ Tx!SentThenPause \/ Tx!SentThenNext
    <3>1. txstate = "MF_DT" /\ N_Bs_tim' = N_Bs_tim
      BY <2>4 DEF Tx!SentLast, Tx!SentBlockEnd, Tx!SentThenPause, Tx!SentThenNext,
         Tx!SentCF, Tx!PackCF
    <3> QED
      BY <1>1, <3>1 DEF Waits
  <2> QED
    BY <1>3, <2>1, <2>2, <2>3, <2>4 DEF SenderProcess, Tx!ProcessTx, Tx!SendCF
<1>4. CASE ReadFlowControl
  <2>1. CASE Tx!FlowControlUnexpected \/ Tx!FlowControlStop("BUFFER_OVFLW")
    <3>1. txstate' = "IDLE" /\ N_Bs_tim' = N_Bs_tim
      BY <2>1 DEF Tx!FlowControlUnexpected, Tx!FlowControlStop, Tx!timers
    <3> QED
      BY <1>1, <3>1 DEF Waits
  <2>2. ASSUME NEW b, NEW s, Tx!FlowControlCTS(b, s) PROVE Waits'
    <3>1. N_Bs_tim' = Tx!StopTimer(N_Bs_tim)
      BY <2>2 DEF Tx!FlowControlCTS
    <3> QED
      BY <1>1, <3>1, BsKept DEF Waits
  <2> QED
    BY <1>4, <2>1, <2>2 DEF ReadFlowControl
<1>5. CASE UNCHANGED <<txstate, N_Bs_tim>> /\ lost' \in {lost, TRUE}
  BY <1>5 DEF Waits
<1>6. CASE ReadData \/ ReceiverProcess \/ LoseData \/ LoseFlowControl
  BY <1>5, <1>6 DEF ReadData, ReceiverProcess, Report, LoseData, LoseFlowControl, txvars
<1>7. CASE Tick
  <2>1. /\ N_Bs_tim' = Tx!Ticked(N_Bs_tim) /\ txstate' = txstate /\ lost' = lost /\ Quiet
    BY <1>7 DEF Tick, Settled, Tx!ProcessTick
  <2>2. N_Bs_tim' \in Tx!TimerType(BsPeriods) /\ N_Bs_tim'.active = N_Bs_tim.active
    BY <1>1, <2>1, BsKept
  <2>3. txstate = "WAIT" => lost
    BY <2>1, NeverQuiet
  <2> QED
    BY <2>1, <2>2, <2>3 DEF Waits
<1>8. CASE UNCHANGED vars
  BY <1>5, <1>8 DEF vars, txvars
<1> QED
  BY <1>2, <1>3, <1>4, <1>6, <1>7, <1>8 DEF Next, Asks

-----------------------------------------------------------------------------
(* Frames of a message that was opened.                                    *)

\* Nothing but time passes, or one of the nodes gives up.
LEMMA OpenedKept ==
  ASSUME NEW n, Opened(n), n \in Nat,
         UNCHANGED <<txbuff, txpassed, bus, currblknum, segblkcount, blksize, rxstmin>>,
         txstate' \in {txstate, "IDLE"} \/ (txstate = "PAUSE" /\ txstate' = "MF_DT"),
         txstate' = "IDLE" \/ fcs' = fcs \/ fcs' = <<>>,
         \/ rxstate' = "IDLE"
         \/ UNCHANGED <<rxstate, rxsize, rxpassed, assembled, expectsn, currblkn>>,
         \/ lost' \/ n = 0
         \/ UNCHANGED <<lost, rxstate, rxpassed>> /\ Cr_tim'.left = Cr_tim.left
  PROVE  Opened(n)'
<1>1. /\ txbuff \in Msgs /\ Frames[txbuff] # 1 /\ txpassed \in 1 .. Frames[txbuff]
      /\ n \in 0 .. txpassed - 1 /\ bus = CfFrames(txbuff, txpassed - n, n)
  BY DEF Opened
<1>2. bus' = CfFrames(txbuff', txpassed' - n, n)
  BY <1>1
<1>3. Permit' = Permit /\ Refusal' = Refusal
  BY DEF Permit, Refusal, FcFrame
<1>4. ASSUME txstate' # "IDLE"
      PROVE  /\ txstate # "IDLE" /\ (fcs' = fcs \/ fcs' = <<>>)
             /\ txstate' = txstate \/ (txstate = "PAUSE" /\ txstate' = "MF_DT")
  BY <1>4
<1>5. /\ txstate' # "IDLE" => fcs' \in {<<>>, <<Permit'>>, <<Refusal'>>}
      /\ txstate' # "IDLE" /\ fcs' # <<>> => txstate' = "WAIT" /\ n = 0
      /\ txstate' # "IDLE" /\ fcs' = <<Refusal'>> => Size[txbuff] > RXLEN
  BY <1>3, <1>4 DEF Opened
<1>6. Tx!Allowed(blksize)' = Tx!Allowed(blksize)
  BY DEF Tx!Allowed
<1>7. txstate' \in {"MF_DT", "PAUSE"} =>
        segblkcount' = blksize' /\ currblknum' \in 0 .. Tx!Allowed(blksize)' - 1
  BY <1>4, <1>6 DEF Opened
<1>8. ASSUME rxstate' = "ACTIVE", NEW j, Holds(txbuff, j), Behind(n, j),
             Sound(txbuff, j, txpassed - n)
      PROVE  Holds(txbuff, j)' /\ Behind(n, j)' /\ Sound(txbuff, j, txpassed - n)'
  <2>1. Holds(txbuff, j)' /\ Sound(txbuff, j, txpassed - n)'
    BY <1>8 DEF Holds, Sound
  <2>2. Behind(n, j)'
    BY <1>4, <1>6, <1>8 DEF Behind
  <2> QED
    BY <2>1, <2>2
<1>9. rxstate' = "ACTIVE" =>
        \E j \in 1 .. txpassed' - n :
            Holds(txbuff, j)' /\ Behind(n, j)' /\ Sound(txbuff, j, txpassed - n)'
  BY <1>8 DEF Opened
<1>10. ~lost' /\ n > 0 => InStep(n)'
  BY DEF Opened, InStep
<1> QED
  BY <1>1, <1>2, <1>5, <1>7, <1>9, <1>10 DEF Opened

\* The last consecutive frame is the one that reaches the end of the message.
LEMMA LastPart ==
  ASSUME NEW m \in Msgs, Frames[m] # 1
  PROVE  /\ Size[m] \in Nat /\ 8 <= Size[m] /\ Size[m] <= 4095
         /\ Frames[m] \in Nat /\ Frames[m] > 1
         /\ Size[m] < 7 * Frames[m]
<1>1. /\ Size[m] \in Nat /\ 8 <= Size[m] /\ Size[m] <= 4095
      /\ Frames[m] \in Nat /\ Frames[m] > 1
  BY FramesOf
<1>2. Frames[m] = 1 + (Size[m] - (CANDL - 2) + CANDL - 2) \div (CANDL - 1)
  BY <1>1, FirstFrame DEF Frames, First
<1>3. PICK s \in Nat : s = Size[m]
  BY <1>1
<1>4. s - (8 - 2) + 8 - 2 = s /\ 8 - 1 = 7
  BY <1>3
<1>5. Frames[m] = 1 + (s \div 7)
  BY <1>2, <1>3, <1>4, Constants
<1>6. s < 7 * (1 + (s \div 7))
  OBVIOUS
<1> QED
  BY <1>1, <1>3, <1>5, <1>6

\* Two parts that follow each other.
LEMMA PartOfBytes ==
  ASSUME NEW m \in Msgs, NEW c \in Nat, NEW l \in Nat
  PROVE  /\ Rx!Part(m, c, l) \in Seq(Rx!Bytes) /\ Len(Rx!Part(m, c, l)) = l
         /\ \A i \in 1 .. l : Rx!Part(m, c, l)[i] = Rx!Byte(m, c + i)
<1>1. \A i \in 1 .. l : c + i \in Nat
  OBVIOUS
<1>2. Rx!Part(m, c, l) \in [1 .. l -> Rx!Bytes]
  BY <1>1 DEF Rx!Part, Rx!Byte, Rx!Bytes
<1> QED
  BY <1>2 DEF Rx!Part

LEMMA JoinedParts ==
  ASSUME NEW m \in Msgs, NEW a \in Nat, NEW b \in Nat
  PROVE  /\ Rx!Part(m, 0, a) \o Rx!Part(m, a, b) = Rx!Part(m, 0, a + b)
         /\ Len(Rx!Part(m, 0, a)) = a
<1> DEFINE p == Rx!Part(m, 0, a)
           q == Rx!Part(m, a, b)
           r == Rx!Part(m, 0, a + b)
<1>2. /\ p \in Seq(Rx!Bytes) /\ Len(p) = a /\ \A i \in 1 .. a : p[i] = Rx!Byte(m, 0 + i)
      /\ q \in Seq(Rx!Bytes) /\ Len(q) = b /\ \A i \in 1 .. b : q[i] = Rx!Byte(m, a + i)
  BY PartOfBytes
<1>3. a + b \in Nat
  OBVIOUS
<1>4. /\ r \in Seq(Rx!Bytes) /\ Len(r) = a + b
      /\ \A i \in 1 .. a + b : r[i] = Rx!Byte(m, 0 + i)
  BY <1>3, PartOfBytes
<1> HIDE DEF p, q, r
<1>5. /\ p \o q \in Seq(Rx!Bytes) /\ Len(p \o q) = a + b
      /\ \A i \in 1 .. a + b : (p \o q)[i] = IF i <= a THEN p[i] ELSE q[i - a]
  BY <1>2, ConcatProperties
<1>6. ASSUME NEW i \in 1 .. a + b PROVE (p \o q)[i] = r[i]
  <2>1. CASE i <= a
    BY <1>2, <1>4, <1>5, <2>1
  <2>2. CASE i > a
    <3>1. i - a \in 1 .. b /\ a + (i - a) = 0 + i
      BY <2>2
    <3> QED
      BY <1>2, <1>4, <1>5, <2>2, <3>1
  <2>3. i <= a \/ i > a
    OBVIOUS
  <2> QED
    BY <2>1, <2>2, <2>3
<1>7. p \o q = r
  BY <1>4, <1>5, <1>6, SeqEqual
<1> QED
  BY <1>2, <1>7 DEF p, q, r

\* What a consecutive frame brings is in the buffer where it is in what was put together.
LEMMA CopiedBehind ==
  ASSUME NEW m \in Msgs, NEW k \in Nat, k > 0, Rx!AcceptCF(m, k),
         NEW a \in Nat, rxpassed = a, NEW t \in Nat, rxsize = t, a < t, t <= RXLEN,
         assembled \in Seq(Rx!Bytes), Len(assembled) = a,
         NEW i \in 1 .. rxpassed', i <= a => rxbuff[i - 1] = assembled[i]
  PROVE  rxbuff'[i - 1] = assembled'[i]
<1> DEFINE l == Rx!CopyLength
           from == Rx!FFLEN + (k - 1) * Rx!CFLEN
           v == Rx!Part(m, from, 7)
           w == Rx!Part(m, from, l)
<1>1. /\ rxpassed' = rxpassed + l /\ assembled' = assembled \o w
      /\ rxbuff' = [x \in Rx!Memory |-> IF a <= x /\ x < a + l THEN v[x - a + 1]
                                         ELSE rxbuff[x]]
  BY Constants DEF Rx!AcceptCF, Rx!Copy, Rx!CopyAddress
<1>2. l = IF a + 7 > t THEN t - a ELSE 7
  BY Constants DEF Rx!CopyLength
<1>3. from \in Nat
  BY Constants
<1> HIDE DEF l, from
<1>4. l \in Nat /\ a + l <= t /\ l <= 7
  BY <1>2
<1>5. i \in Nat /\ 1 <= i /\ i <= a + l
  BY <1>1, <1>4
<1>6. i - 1 \in Rx!Memory
  <2>1. Rx!Memory = 0 .. RXLEN + 6 - 1
    BY Constants DEF Rx!Memory
  <2> QED
    BY <1>4, <1>5, <2>1, BuffersAssumption
<1>7. w \in Seq(Rx!Bytes) /\ Len(w) = l /\ \A x \in 1 .. l : w[x] = Rx!Byte(m, from + x)
  BY <1>3, <1>4, PartOfBytes
<1>8. \A x \in 1 .. 7 : v[x] = Rx!Byte(m, from + x)
  BY DEF Rx!Part
<1> HIDE DEF v, w
<1>9. \A x \in 1 .. a + l : assembled'[x] = IF x <= a THEN assembled[x] ELSE w[x - a]
  <2>1. \A x \in 1 .. Len(assembled) + Len(w) :
           (assembled \o w)[x] = IF x <= Len(assembled) THEN assembled[x]
                                 ELSE w[x - Len(assembled)]
    BY <1>7, ConcatProperties, Zenon
  <2>2. assembled' = assembled \o w /\ Len(assembled) = a /\ Len(w) = l
    BY <1>1, <1>7
  <2> QED
    BY <2>1, <2>2
<1>10. CASE i <= a
  <2>1. ~(a <= i - 1)
    BY <1>5, <1>10
  <2>2. rxbuff'[i - 1] = rxbuff[i - 1]
    BY <1>1, <1>6, <2>1
  <2> QED
    BY <1>5, <1>9, <1>10, <2>2
<1>11. CASE i > a
  <2>1. a <= i - 1 /\ i - 1 < a + l /\ (i - 1) - a + 1 = i - a /\ ~(i <= a)
    BY <1>4, <1>5, <1>11
  <2>2. rxbuff'[i - 1] = v[i - a]
    BY <1>1, <1>6, <2>1
  <2>3. i - a \in 1 .. l /\ i - a \in 1 .. 7
    BY <1>4, <1>5, <1>11
  <2>4. assembled'[i] = w[i - a]
    BY <1>5, <1>9, <2>1
  <2> QED
    BY <1>7, <1>8, <2>2, <2>3, <2>4
<1> QED
  BY <1>5, <1>10, <1>11

\* A serial number the receiver expects belongs to the frame it misses.
LEMMA NumberedFrame ==
  ASSUME Unambiguous, Configured, NEW n \in Nat, n > 0, Opened(n),
         NEW k \in Nat, k = txpassed - n, Rx!Expected(k),
         NEW j \in 1 .. k, Holds(txbuff, j), Behind(n, j)
  PROVE  j = k
<1>1. /\ txbuff \in Msgs /\ Frames[txbuff] \in Nat /\ txpassed \in 1 .. Frames[txbuff]
      /\ n \in 0 .. txpassed - 1
  BY FramesOf DEF Opened
<1>2. k > 0 /\ k <= Frames[txbuff] - 1
  BY <1>1
<1>3. j % 16 = k % 16
  BY Constants DEF Holds, Rx!Expected, Rx!SerialNumber
<1>4. k - j < 16
  <2>1. <<blksize, rxstmin>> \in FlowParams /\ <<blksize, rxstmin>>[1] = blksize
    BY DEF Configured
  <2>2. CASE Frames[txbuff] - 1 <= SNMOD
    BY <1>1, <1>2, <2>2, Constants
  <2>3. CASE blksize <= SNMOD
    <3>1. PICK b \in Nat : b = blksize
      BY <2>1, ParametersAssumption DEF Byte
    <3>2. PICK c \in Nat : c = currblkn
      BY DEF Holds
    <3>3. txpassed - j + c <= Tx!Allowed(b)
      BY <3>1, <3>2 DEF Behind
    <3>4. Tx!Allowed(b) <= 16 /\ Tx!Allowed(b) \in Nat
      BY <2>3, <3>1, Constants DEF Tx!Allowed
    <3> QED
      BY <1>1, <1>2, <3>3, <3>4
  <2> QED
    BY <1>1, <2>1, <2>2, <2>3 DEF Unambiguous
<1> QED
  BY <1>3, <1>4

LEMMA NextFrame ==
  ASSUME NEW n \in Nat, Opened(n)
  PROVE  \E k \in Nat : k = txpassed - n
<1>1. /\ txbuff \in Msgs /\ Frames[txbuff] \in Nat /\ txpassed \in 1 .. Frames[txbuff]
      /\ n \in 0 .. txpassed - 1
  BY FramesOf DEF Opened
<1> QED
  BY <1>1

\* While nothing is lost the receiver misses none.
LEMMA NoneMissed ==
  ASSUME NEW n \in Nat, n > 0, Opened(n), ~lost,
         NEW k \in Nat, k = txpassed - n, NEW j \in 1 .. k, Holds(txbuff, j)
  PROVE  j = k
<1>1. PICK p \in Nat : p = txpassed /\ n \in 0 .. p - 1
  BY FramesOf DEF Opened
<1>2. rxpassed = 6 + 7 * (p - n - 1) /\ rxpassed = 6 + 7 * (j - 1)
  BY <1>1 DEF Opened, InStep, Holds
<1>3. p - n = k
  BY <1>1
<1>4. PICK i \in Nat : i = j
  OBVIOUS
<1>5. 6 + 7 * (k - 1) = 6 + 7 * (i - 1)
  BY <1>2, <1>3, <1>4
<1> QED
  BY <1>4, <1>5

\* What the receiver makes of a frame it accepts: the last one completes the message
\* only if none is missing.
LEMMA NumberedStep ==
  ASSUME Configured, NEW n \in Nat, n > 0, Opened(n),
         NEW k \in Nat, k = txpassed - n, Rx!AcceptCF(txbuff, k),
         NEW j \in 1 .. k, Holds(txbuff, j), Behind(n, j), Sound(txbuff, j, k)
  PROVE  /\ rxsize = Size[txbuff] /\ rxsize' = rxsize /\ blksize' = blksize
         /\ rxpassed' = rxsize => /\ txpassed = Frames[txbuff] /\ n = 1
                                  /\ assembled' = Rx!Part(txbuff, 0, Size[txbuff])
                                  /\ Len(assembled') = rxsize
         /\ rxpassed' # rxsize => /\ j # k \/ n > 1 \/ txpassed < Frames[txbuff]
                                  /\ rxpassed' = 6 + 7 * j
                                  /\ rxpassed' < rxsize
                                  /\ assembled' \in Seq(Rx!Bytes)
                                  /\ Len(assembled') = rxpassed'
                                  /\ j = k \/ Unambiguous =>
                                        assembled' = Rx!Part(txbuff, 0, rxpassed')
                                  /\ expectsn' = (j + 1) % SNMOD
         /\ Cr_tim' = Rx!RestartTimer(Cr_tim)
<1>1. /\ txbuff \in Msgs /\ Frames[txbuff] \in Nat /\ txpassed \in 1 .. Frames[txbuff]
      /\ n \in 0 .. txpassed - 1 /\ Frames[txbuff] # 1
  BY FramesOf DEF Opened
<1>2. k > 0 /\ k <= Frames[txbuff] - 1
  BY <1>1
<1>3. j = k \/ Unambiguous => j = k /\ assembled = Rx!Part(txbuff, 0, rxpassed)
  BY NumberedFrame DEF Rx!AcceptCF, Sound
<1>4. PICK s \in Nat : s = Size[txbuff] /\ s < 7 * Frames[txbuff]
  BY <1>1, LastPart
<1>5. PICK i \in Nat : i = j /\ i > 0 /\ i <= k
  OBVIOUS
<1>6. PICK a \in Nat : a = 6 + 7 * (i - 1)
  BY <1>5
<1>7. /\ rxsize = s /\ rxpassed = a /\ a < s
      /\ assembled \in Seq(Rx!Bytes) /\ Len(assembled) = a
      /\ expectsn = i % SNMOD
  BY <1>4, <1>5, <1>6 DEF Holds
<1> DEFINE l == Rx!CopyLength
           from == Rx!FFLEN + (k - 1) * Rx!CFLEN
<1>8. /\ rxpassed' = rxpassed + l /\ expectsn' = (expectsn + 1) % SNMOD
      /\ assembled' = assembled \o Rx!Part(txbuff, from, l)
      /\ Cr_tim' = Rx!RestartTimer(Cr_tim) /\ rxsize' = rxsize /\ blksize' = blksize
  BY DEF Rx!AcceptCF, Rx!ArmCr, Rx!NextSerial
<1>9. l = IF a + 7 > s THEN s - a ELSE 7
  BY <1>7, Constants DEF Rx!CopyLength
<1>10. from \in Nat /\ (i = k => from = a)
  BY <1>2, <1>6, Constants
<1> HIDE DEF l, from
<1>11. l \in Nat
  BY <1>7, <1>9
<1>12. assembled' \in Seq(Rx!Bytes) /\ Len(assembled') = a + l
  <2>1. /\ Rx!Part(txbuff, from, l) \in Seq(Rx!Bytes)
        /\ Len(Rx!Part(txbuff, from, l)) = l
    BY <1>1, <1>10, <1>11, PartOfBytes
  <2> DEFINE v == Rx!Part(txbuff, from, l)
  <2>2. v \in Seq(Rx!Bytes) /\ Len(v) = l
    BY <2>1, Zenon
  <2>3. assembled' = assembled \o v
    BY <1>8, Zenon
  <2> HIDE DEF v
  <2>4. Len(assembled \o v) = Len(assembled) + Len(v) /\ assembled \o v \in Seq(Rx!Bytes)
    BY <1>7, <2>2, ConcatProperties, Zenon
  <2> QED
    BY <1>7, <2>2, <2>3, <2>4, Zenon
<1>13. j = k \/ Unambiguous => j = k /\ assembled' = Rx!Part(txbuff, 0, a + l)
  <2> SUFFICES ASSUME j = k \/ Unambiguous
               PROVE  j = k /\ assembled' = Rx!Part(txbuff, 0, a + l)
    OBVIOUS
  <2>1. j = k /\ assembled = Rx!Part(txbuff, 0, a)
    BY <1>3, <1>7
  <2>2. assembled' = Rx!Part(txbuff, 0, a) \o Rx!Part(txbuff, a, l)
    BY <1>5, <1>8, <1>10, <2>1
  <2> QED
    BY <1>1, <1>11, <2>1, <2>2, JoinedParts
<1>14. rxpassed' = a + l
  BY <1>7, <1>8
<1>15. expectsn' = (j + 1) % SNMOD
  BY <1>5, <1>7, <1>8, Constants
<1>16. CASE i + 1 = Frames[txbuff]
  <2>1. a + 7 >= s
    BY <1>4, <1>6, <1>16
  <2>2. a + l = s
    BY <1>7, <1>9, <2>1
  <2>3. i = k /\ txpassed = Frames[txbuff] /\ n = 1
    BY <1>1, <1>2, <1>5, <1>16
  <2> QED
    BY <1>4, <1>5, <1>7, <1>8, <1>12, <1>13, <1>14, <2>2, <2>3
<1>17. CASE i + 1 < Frames[txbuff]
  <2>1. 7 * (i + 1) <= s
    BY <1>1, <1>4, <1>17, FramesOf
  <2>2. l = 7 /\ a + l = 6 + 7 * i /\ a + l < s
    BY <1>6, <1>9, <2>1
  <2>3. j # k \/ n > 1 \/ txpassed < Frames[txbuff]
    BY <1>1, <1>5, <1>17
  <2>4. a + l # s
    BY <1>6, <2>2
  <2> QED
    BY <1>4, <1>5, <1>7, <1>8, <1>12, <1>13, <1>14, <1>15, <2>2, <2>3, <2>4
<1> QED
  BY <1>1, <1>2, <1>5, <1>16, <1>17

-----------------------------------------------------------------------------
(* The steps seen from MessageLink.                                        *)

LEMMA Unseen ==
  ASSUME UNCHANGED <<Transmitting, InTransit, last, lost, begun>>
  PROVE  Implemented
  BY DEF Implemented, MessageLink!vars

\* What is in transit while a message is in one of its places.
LEMMA TransitNow ==
  /\ Resting => InTransit = <<>>
  /\ Opening => InTransit = <<>>
  /\ \A n \in Nat : Opened(n) =>
        InTransit = IF n > 0 /\ txpassed = Frames[txbuff] THEN <<txbuff>> ELSE <<>>
<1>1. ASSUME Resting PROVE InTransit = <<>>
  BY <1>1 DEF Resting, InTransit
<1>2. ASSUME Opening PROVE InTransit = <<>>
  <2>1. /\ LastIn(<<>>) = <<>> /\ LastIn(<<FfFrame(txbuff)>>) = <<>>
    BY <1>2, FirstInTransit DEF Opening
  <2>2. bus = <<>> \/ bus = <<FfFrame(txbuff)>>
    BY <1>2 DEF Opening
  <2> QED
    BY <2>1, <2>2, TransitIsLast
<1>3. ASSUME NEW n \in Nat, Opened(n)
      PROVE  InTransit = IF n > 0 /\ txpassed = Frames[txbuff] THEN <<txbuff>> ELSE <<>>
  <2>1. txbuff \in Msgs /\ txpassed \in 1 .. Frames[txbuff] /\ Frames[txbuff] \in Nat
        /\ n \in 0 .. txpassed - 1 /\ bus = CfFrames(txbuff, txpassed - n, n)
    BY <1>3, FramesOf DEF Opened
  <2>2. PICK k \in Nat : k = txpassed - n /\ k + n = txpassed
    BY <2>1
  <2>3. LastIn(bus) = IF n > 0 /\ k + n = Frames[txbuff] THEN <<txbuff>> ELSE <<>>
    BY <2>1, <2>2, RunInTransit
  <2> QED
    BY <2>2, <2>3, TransitIsLast
<1> QED
  BY <1>1, <1>2, <1>3

LEMMA PlaceNow ==
  ASSUME Place
  PROVE  /\ \E S : bus \in Seq(S)
         /\ txstate \in {"MF_DT", "PAUSE"} =>
               \E n \in Nat : n = Len(bus) /\ Opened(n) /\ fcs = <<>>
         /\ txstate # "IDLE" => txbuff \in Msgs /\ txbuff # NoMsg
         /\ Opened(Len(bus)) => \E n \in Nat : n = Len(bus) /\ Opened(n)
<1>1. ASSUME Opened(Len(bus))
      PROVE  \E n \in Nat : /\ n = Len(bus) /\ Opened(n)
                            /\ \E S : bus \in Seq(S)
                            /\ txstate \in {"MF_DT", "PAUSE"} => fcs = <<>>
  <2>1. PICK n \in Nat : n = Len(bus) /\ n \in 0 .. txpassed - 1 /\ txpassed \in Nat
    BY <1>1, FramesOf DEF Opened
  <2>2. Opened(n) /\ bus = CfFrames(txbuff, txpassed - n, n)
    BY <1>1, <2>1 DEF Opened
  <2>3. bus \in Seq({CfFrame(txbuff, txpassed - n + i - 1) : i \in 1 .. n})
    <3> DEFINE S == {CfFrame(txbuff, txpassed - n + i - 1) : i \in 1 .. n}
    <3>1. CfFrames(txbuff, txpassed - n, n) \in [1 .. n -> S]
      BY DEF CfFrames
    <3> HIDE DEF S
    <3>2. bus \in [1 .. n -> S]
      BY <2>2, <3>1
    <3>3. bus \in Seq(S)
      BY <3>2
    <3> QED
      BY <3>3 DEF S
  <2>4. txstate \in {"MF_DT", "PAUSE"} => fcs = <<>>
    BY <2>2 DEF Opened
  <2> QED
    BY <2>1, <2>2, <2>3, <2>4
<1>2. ASSUME Single PROVE \E S : bus \in Seq(S)
  <2>1. PICK m \in Msgs : bus = <<FfFrame(m)>>
    BY <1>2 DEF Single
  <2>2. bus \in Seq({FfFrame(m)})
    BY <2>1
  <2> QED
    BY <2>2
<1>3. ASSUME Resting PROVE \E S : bus \in Seq(S)
  <2>1. bus \in Seq({})
    BY <1>3 DEF Resting
  <2> QED
    BY <2>1
<1>4. ASSUME Opening PROVE \E S : bus \in Seq(S)
  <2> DEFINE f == FfFrame(txbuff)
  <2> HIDE DEF f
  <2>1. bus = <<>> \/ bus = <<f>>
    BY <1>4 DEF Opening, f
  <2>2. <<>> \in Seq({f}) /\ <<f>> \in Seq({f})
    OBVIOUS
  <2> QED
    BY <2>1, <2>2
<1>5. Single \/ Resting => txstate = "IDLE"
  BY DEF Single, Resting
<1>6. Opening => txstate \in {"IDLE", "WAIT"} /\ txbuff \in Msgs
  BY DEF Opening
<1>7. Opened(Len(bus)) => txbuff \in Msgs
  BY DEF Opened
<1>8. \E S : bus \in Seq(S)
  BY <1>1, <1>2, <1>3, <1>4 DEF Place
<1>9. txstate \in {"MF_DT", "PAUSE"} => \E n \in Nat : n = Len(bus) /\ Opened(n) /\ fcs = <<>>
  BY <1>1, <1>5, <1>6 DEF Place
<1>10. txstate # "IDLE" => txbuff \in Msgs /\ txbuff # NoMsg
  BY <1>5, <1>6, <1>7 DEF Place
<1> QED
  BY <1>1, <1>8, <1>9, <1>10

\* A new request.
LEMMA AskPlace ==
  ASSUME Place, NEW m \in Msgs, Ask(m)
  PROVE  Place' /\ Implemented
<1>1. /\ bus = <<>> /\ Transmit /\ UNCHANGED fcs /\ txpassed' = 1
      /\ begun' = IF m \in Short \cup TooLong THEN begun ELSE begun + 1
  BY DEF Ask, Quiet, Tx!RequestSF, Tx!RequestFF, Tx!Accept
<1>2. m \in Short <=> Frames[m] = 1
  BY DEF Short
<1>3. bus \in Seq({}) /\ <<>> \o <<FfFrame(m)>> = <<FfFrame(m)>>
  BY <1>1
<1>4. InTransit = <<>>
  BY <1>1 DEF InTransit
<1>5. MessageLink!NewRequest
  BY <1>4 DEF Ask, MessageLink!NewRequest, Nothing, MessageLink!Nothing
<1>6. CASE Tx!RequestSF(m)
  <2>1. txstate' = "IDLE" /\ wire' = <<Tx!SF(m)>> /\ Frames[m] = 1
    BY <1>6 DEF Tx!RequestSF, Tx!Put, Tx!IsSingle
  <2>2. DataFrame(Tx!SF(m)) = FfFrame(m)
    BY DEF FfFrame, DataFrame, Tx!SF, Tx!FF
  <2>3. bus' = <<FfFrame(m)>>
    BY <1>1, <1>3, <2>1, <2>2, Transmitted
  <2>4. FfFrame(m)' = FfFrame(m)
    BY DEF FfFrame, DataFrame
  <2>5. Place'
    BY <2>1, <2>3, <2>4 DEF Place, Single
  <2>6. InTransit' = <<m>>
    BY <2>1, <2>3, FirstInTransit, TransitIsLast
  <2>7. Transmitting' = NoMsg
    BY <2>1 DEF Transmitting
  <2>8. InTransit' = Append(InTransit, m)
    BY <1>4, <2>6
  <2>9. MessageLink!AskShort(m)
    BY <1>1, <1>2, <1>5, <2>1, <2>7, <2>8 DEF MessageLink!AskShort
  <2> QED
    BY <2>5, <2>9 DEF Implemented, MessageLink!Next
<1>7. CASE Tx!RequestFF(m)
  <2>1. /\ txstate' = "WAIT" /\ wire' = <<Tx!FF(m)>> /\ Frames[m] # 1 /\ txbuff' = m
    BY <1>7 DEF Tx!RequestFF, Tx!Put, Tx!IsSingle
  <2>2. fcs = <<>>
    BY <2>1 DEF Ask, Quiet
  <2>3. bus' = <<FfFrame(m)>>
    BY <1>1, <1>3, <2>1, Transmitted DEF FfFrame
  <2>4. FfFrame(txbuff)' = FfFrame(m)
    BY <2>1 DEF FfFrame, DataFrame
  <2>5. Place'
    BY <1>1, <2>1, <2>2, <2>3, <2>4 DEF Place, Opening
  <2>6. InTransit' = <<>>
    BY <2>1, <2>3, FirstInTransit, TransitIsLast
  <2>7. Transmitting' = m
    BY <2>1 DEF Transmitting
  <2>8. MessageLink!Ask(m)
    BY <1>1, <1>2, <1>4, <1>5, <2>1, <2>6, <2>7 DEF MessageLink!Ask
  <2> QED
    BY <2>5, <2>8 DEF Implemented, MessageLink!Next
<1> QED
  BY <1>6, <1>7 DEF Ask

\* A step that moves nothing but timers, or ends a transfer.
LEMMA PlaceKept ==
  ASSUME Place,
         UNCHANGED <<txbuff, txpassed, bus, currblknum, segblkcount, blksize, rxstmin>>,
         \/ txstate' \in {txstate, "IDLE"}
         \/ txstate = "PAUSE" /\ txstate' = "MF_DT",
         txstate' = "IDLE" \/ fcs' = fcs \/ fcs' = <<>>,
         ~Opening \/ fcs' = fcs,
         \/ rxstate' = "IDLE"
         \/ UNCHANGED <<rxstate, rxsize, rxpassed, assembled, expectsn, currblkn>>,
         \/ lost' \/ bus = <<>>
         \/ UNCHANGED <<lost, rxstate, rxpassed>> /\ Cr_tim'.left = Cr_tim.left
  PROVE  Place' /\ InTransit' = InTransit
<1>1. \A m : FfFrame(m)' = FfFrame(m)
  BY DEF FfFrame, DataFrame
<1>2. InTransit' = InTransit
  BY DEF InTransit, IsLast
<1>3. Resting => Resting'
  BY DEF Resting
<1>4. Single => Single'
  BY <1>1 DEF Single
<1>5. Opening => Opening'
  BY <1>1 DEF Opening
<1>6. ASSUME Opened(Len(bus)) PROVE Opened(Len(bus))'
  <2>1. PICK n \in Nat : n = Len(bus) /\ Opened(n)
    BY <1>6, PlaceNow
  <2>2. bus = <<>> => n = 0
    BY <2>1
  <2>3. Opened(n)'
    BY <2>1, <2>2, OpenedKept
  <2>4. n = Len(bus')
    BY <2>1
  <2> QED
    BY <2>3, <2>4
<1> QED
  BY <1>2, <1>3, <1>4, <1>5, <1>6 DEF Place

\* One more frame of the block.
LEMMA OneMoreSent ==
  ASSUME Sending, Tx!SentCF, Transmit, NEW n \in Nat, Opened(n)
  PROVE  /\ bus' = CfFrames(txbuff, txpassed - n, n + 1) /\ Len(bus') = n + 1
         /\ n + 1 \in Nat /\ n + 1 > 0
         /\ txpassed' = txpassed + 1 /\ txpassed < Frames[txbuff]
         /\ txpassed' \in 1 .. Frames[txbuff] /\ txpassed \in Nat
         /\ n \in 0 .. txpassed - 1 /\ n + 1 \in 0 .. txpassed' - 1
         /\ txpassed' - (n + 1) = txpassed - n
<1>1. /\ txpassed \in Nat /\ txpassed' = txpassed + 1 /\ txstate = "MF_DT"
      /\ wire' = <<Tx!CF(txpassed % SNMOD, Tx!Chunk(txbuff, txpassed))>>
  BY SentNext
<1>2. /\ txbuff \in Msgs /\ txpassed \in 1 .. Frames[txbuff] - 1 /\ Frames[txbuff] \in Nat
  BY <1>1, FramesOf DEF Sending
<1>3. n \in 0 .. txpassed - 1 /\ bus = CfFrames(txbuff, txpassed - n, n)
  BY DEF Opened
<1>4. PICK k \in Nat : k = txpassed - n /\ k + n = txpassed
  BY <1>1, <1>3
<1>5. n + 1 \in Nat /\ n + 1 > 0
  OBVIOUS
<1>6. \A m : /\ CfFrames(m, k, n) \o <<CfFrame(m, k + n)>> = CfFrames(m, k, n + 1)
             /\ Len(CfFrames(m, k, n + 1)) = n + 1
  BY <1>5, CfAppend, CfLength, Zenon
<1>7. \E S : bus \in Seq(S)
  <2> DEFINE S == {CfFrame(txbuff, k + i - 1) : i \in 1 .. n}
  <2>1. CfFrames(txbuff, k, n) \in [1 .. n -> S]
    BY DEF CfFrames
  <2> HIDE DEF S
  <2>2. bus \in [1 .. n -> S]
    BY <1>3, <1>4, <2>1
  <2>3. bus \in Seq(S)
    BY <2>2
  <2> QED
    BY <2>3
<1>8. bus' = bus \o <<CfFrame(txbuff, txpassed)>>
  BY <1>1, <1>7, Transmitted DEF CfFrame
<1>9. bus' = CfFrames(txbuff, k, n + 1)
  BY <1>3, <1>4, <1>6, <1>8
<1> QED
  BY <1>1, <1>2, <1>3, <1>4, <1>5, <1>6, <1>9

LEMMA SentPlace ==
  ASSUME LinkInv, Timely, Place, Tx!SentCF, Transmit, UNCHANGED <<fcs, lost>>,
         \/ txstate' = "IDLE"
         \/ /\ txpassed' < txsize /\ currblknum' = currblknum + 1
            /\ \/ txstate' = "WAIT"
               \/ ~Tx!BlockEnds /\ txstate' \in {"PAUSE", "MF_DT"}
  PROVE  /\ Place' /\ InTransit = <<>>
         /\ InTransit' = IF txpassed' = Frames[txbuff] THEN <<txbuff>> ELSE <<>>
<1>1. Sending /\ Configured
  BY DEF LinkInv
<1>2. /\ txstate = "MF_DT" /\ UNCHANGED <<txsize, segblkcount, txbuff>>
  BY <1>1, SentNext
<1>3. UNCHANGED <<rxstate, rxsize, rxpassed, expectsn, currblkn, blksize, Cr_tim,
                  assembled, rxstmin>>
  BY DEF Transmit, rxvars
<1>4. PICK n \in Nat : n = Len(bus) /\ Opened(n) /\ fcs = <<>>
  BY <1>2, PlaceNow
<1>5. PICK n1 \in Nat : n1 = n + 1 /\ n1 > 0
  OBVIOUS
<1>6. /\ bus' = CfFrames(txbuff, txpassed - n, n1) /\ Len(bus') = n1
      /\ txpassed' = txpassed + 1 /\ txpassed < Frames[txbuff]
      /\ txpassed' \in 1 .. Frames[txbuff] /\ txpassed \in Nat
      /\ n \in 0 .. txpassed - 1 /\ n1 \in 0 .. txpassed' - 1
      /\ txpassed' - n1 = txpassed - n
  BY <1>1, <1>4, <1>5, OneMoreSent
<1>7. txbuff \in Msgs /\ Frames[txbuff] # 1 /\ Frames[txbuff] \in Nat
  BY <1>4, FramesOf DEF Opened
<1>8. PICK b \in Nat : b = blksize
  BY <1>1, <1>2, Parameters
<1>9. PICK a \in Nat : a = Tx!Allowed(blksize) /\ a = Tx!Allowed(blksize)'
  BY <1>3, <1>8 DEF Tx!Allowed
<1>10. PICK q \in Nat : q = currblknum /\ q + 1 <= a /\ segblkcount = blksize
  BY <1>2, <1>4, <1>9 DEF Opened
<1>11. ASSUME txstate' \in {"MF_DT", "PAUSE"}
       PROVE  segblkcount' = blksize' /\ currblknum' \in 0 .. Tx!Allowed(blksize)' - 1
  <2>1. ~(q + 1 >= b) /\ currblknum' = q + 1
    BY <1>8, <1>10, <1>11 DEF Tx!BlockEnds
  <2>2. q + 1 < a
    BY <1>8, <1>9, <2>1 DEF Tx!Allowed
  <2> QED
    BY <1>2, <1>3, <1>9, <1>10, <2>1, <2>2
<1>12. ASSUME rxstate = "ACTIVE"
       PROVE  \E j \in 1 .. txpassed' - n1 :
                 Holds(txbuff, j)' /\ Behind(n1, j)' /\ Sound(txbuff, j, txpassed - n1)'
  <2>1. PICK j \in 1 .. txpassed - n :
           Holds(txbuff, j) /\ Behind(n, j) /\ Sound(txbuff, j, txpassed - n)
    BY <1>4, <1>12 DEF Opened
  <2>2. Holds(txbuff, j)' /\ Sound(txbuff, j, txpassed - n1)'
    BY <1>2, <1>3, <1>6, <2>1 DEF Holds, Sound
  <2>3. PICK c \in Nat : c = currblkn
    BY <2>1 DEF Holds
  <2>4. PICK p \in Nat : p = txpassed /\ txpassed' = p + 1
    BY <1>6
  <2>5. PICK i \in Nat : i = j
    BY <1>6, <2>1
  <2>6. p - i + c <= q
    BY <1>2, <1>10, <2>1, <2>3, <2>4, <2>5 DEF Behind
  <2>7. p + 1 - i + c <= q + 1 /\ p + 1 - i + c <= a
    BY <1>10, <2>6
  <2>8. txstate' \in {"MF_DT", "PAUSE"} => currblknum' = q + 1
    BY <1>10
  <2>9. Behind(n1, j)'
    <3>1. txstate' \in {"MF_DT", "PAUSE"} =>
             txpassed' - j + currblkn' <= currblknum'
      BY <1>3, <2>3, <2>4, <2>5, <2>7, <2>8
    <3>2. txpassed' - j + currblkn' <= Tx!Allowed(blksize)'
      BY <1>3, <1>9, <2>3, <2>4, <2>5, <2>7
    <3>3. fcs' = <<>>
      BY <1>4
    <3> QED
      BY <3>1, <3>2, <3>3 DEF Behind
  <2> QED
    BY <1>6, <2>1, <2>2, <2>9
<1>13. ASSUME ~lost PROVE InStep(n1)'
  <2>1. Flowing(n)
    BY <1>2, <1>4, <1>13, FlowingNow
  <2>2. rxstate = "ACTIVE" /\ rxpassed = 6 + 7 * (txpassed - n - 1) /\ Cr_tim.left > 0
    BY <2>1 DEF Flowing, Receiving
  <2> QED
    BY <1>3, <1>6, <2>2 DEF InStep
<1>14. Opened(n1)'
  BY <1>2, <1>3, <1>4, <1>6, <1>7, <1>11, <1>12, <1>13 DEF Opened
<1>15. InTransit = <<>>
  <2>1. txpassed # Frames[txbuff]
    BY <1>6, <1>7
  <2> QED
    BY <1>4, <2>1, TransitNow
<1>16. InTransit' = IF txpassed' = Frames[txbuff] THEN <<txbuff>> ELSE <<>>
  <2>1. PICK k \in Nat : k = txpassed - n /\ k + n1 = txpassed'
    BY <1>5, <1>6
  <2>2. LastIn(CfFrames(txbuff, k, n1)) =
           IF n1 > 0 /\ k + n1 = Frames[txbuff] THEN <<txbuff>> ELSE <<>>
    BY <1>7, RunInTransit
  <2> QED
    BY <1>5, <1>6, <2>1, <2>2, TransitIsLast
<1> QED
  BY <1>6, <1>14, <1>15, <1>16 DEF Place

LEMMA SenderPlace ==
  ASSUME LinkInv, Timely, Place, Waits, SenderProcess
  PROVE  Place' /\ Implemented
<1>1. /\ Transmit /\ UNCHANGED <<fcs, last, lost, begun>>
      /\ Sending
  BY DEF SenderProcess, LinkInv
<1>2. UNCHANGED <<rxstate, rxsize, rxpassed, expectsn, currblkn, blksize, Cr_tim,
                  assembled, rxstmin>>
  BY <1>1 DEF Transmit, rxvars
<1>3. wire' = <<>> => bus' = bus
  BY <1>1, PlaceNow, Transmitted
<1>4. CASE Tx!TimeoutBs
  <2>1. /\ txstate = "WAIT" /\ txstate' = "IDLE" /\ wire' = <<>>
        /\ N_Bs_tim.active /\ N_Bs_tim.left = 0
        /\ UNCHANGED <<txbuff, txpassed, currblknum, segblkcount>>
    BY <1>4 DEF Tx!TimeoutBs, Tx!HasElapsed, Tx!Put, Tx!buffers, Tx!txds
  <2>2. Place' /\ InTransit' = InTransit
    BY <1>1, <1>2, <1>3, <2>1, PlaceKept
  <2>3. lost
    BY <2>1 DEF Waits
  <2>4. Transmitting' = NoMsg
    BY <2>1 DEF Transmitting
  <2>5. MessageLink!GiveUp
    BY <1>1, <2>2, <2>3, <2>4 DEF MessageLink!GiveUp
  <2> QED
    BY <2>2, <2>5 DEF Implemented, MessageLink!Next
<1>5. CASE Tx!PauseEnds
  <2>1. /\ txstate = "PAUSE" /\ txstate' = "MF_DT" /\ wire' = <<>>
        /\ UNCHANGED <<txbuff, txpassed, currblknum, segblkcount>>
    BY <1>5 DEF Tx!PauseEnds, Tx!Silent, Tx!Put, Tx!buffers, Tx!txds
  <2>2. Place' /\ InTransit' = InTransit
    BY <1>1, <1>2, <1>3, <2>1, PlaceKept
  <2>3. Transmitting' = Transmitting
    BY <2>1 DEF Transmitting
  <2> QED
    BY <1>1, <2>2, <2>3, Unseen
<1>6. CASE Tx!SentLast
  <2>1. Tx!SentCF /\ txstate' = "IDLE" /\ txpassed' >= txsize
    BY <1>6 DEF Tx!SentLast
  <2>2. /\ txstate = "MF_DT" /\ txpassed' = txpassed + 1 /\ txpassed \in Nat
    BY <1>1, <2>1, SentNext
  <2>3. /\ txsize = Frames[txbuff] /\ txpassed \in 1 .. Frames[txbuff] - 1
        /\ txbuff \in Msgs /\ Frames[txbuff] \in Nat /\ txbuff # NoMsg
    BY <1>1, <2>2, FramesOf DEF Sending
  <2>4. txpassed' = Frames[txbuff]
    BY <2>1, <2>2, <2>3
  <2>5. Place' /\ InTransit = <<>> /\ InTransit' = <<txbuff>>
    BY <1>1, <2>1, <2>4, SentPlace
  <2>6. Transmitting = txbuff /\ Transmitting' = NoMsg
    BY <2>1, <2>2 DEF Transmitting
  <2>7. InTransit' = Append(InTransit, Transmitting)
    BY <2>5, <2>6
  <2>8. MessageLink!Sent
    BY <1>1, <2>3, <2>6, <2>7 DEF MessageLink!Sent
  <2> QED
    BY <2>5, <2>8 DEF Implemented, MessageLink!Next
<1>7. CASE Tx!SentBlockEnd \/ Tx!SentThenPause \/ Tx!SentThenNext
  <2>1. /\ Tx!SentCF /\ txpassed' < txsize /\ currblknum' = currblknum + 1
        /\ \/ txstate' = "WAIT"
           \/ ~Tx!BlockEnds /\ txstate' = "PAUSE"
           \/ ~Tx!BlockEnds /\ txstate' = txstate
    BY <1>7 DEF Tx!SentBlockEnd, Tx!SentThenPause, Tx!SentThenNext
  <2>2. txstate = "MF_DT" /\ txpassed' = txpassed + 1 /\ txpassed \in Nat /\ txbuff' = txbuff
    BY <1>1, <2>1, SentNext
  <2>3. txpassed' # Frames[txbuff]
    <3>1. txsize = Frames[txbuff] /\ txbuff \in Msgs /\ Frames[txbuff] \in Nat
      BY <1>1, <2>2, FramesOf DEF Sending
    <3> QED
      BY <2>1, <2>2, <3>1
  <2>4. Place' /\ InTransit = <<>> /\ InTransit' = <<>>
    BY <1>1, <2>1, <2>2, <2>3, SentPlace
  <2>5. Transmitting' = Transmitting
    BY <2>1, <2>2 DEF Transmitting
  <2> QED
    BY <1>1, <2>4, <2>5, Unseen
<1>8. ~Tx!RetryLater /\ ~Tx!TimeoutAs
  BY DEF Tx!RetryLater, Tx!TimeoutAs, Tx!NotSentCF
<1> QED
  BY <1>4, <1>5, <1>6, <1>7, <1>8 DEF SenderProcess, Tx!ProcessTx, Tx!SendCF

\* The frames of the receiver's answers differ.
LEMMA Answers ==
  /\ Low(Permit) = FlowCode.CTS /\ Permit[1] = blksize
  /\ Low(Refusal) = FlowCode.OVERFLOW
  /\ FlowCode.CTS # FlowCode.OVERFLOW /\ Permit # Refusal
  BY FlowHead DEF Permit, Refusal, FlowCode

LEMMA PermitPlace ==
  ASSUME Place, Configured, Timely, txstate = "WAIT", fcs # <<>>, fcs' = Tail(fcs),
         Low(Head(fcs)) = FlowCode.CTS, bus' = bus,
         currblknum' = 0, segblkcount' = Head(fcs)[1], txstate' \in {"MF_DT", "PAUSE"},
         UNCHANGED <<txbuff, txpassed, blksize, rxstmin, rxstate, rxsize, rxpassed,
                     assembled, expectsn, currblkn>>
  PROVE  Place' /\ InTransit' = InTransit
<1>1. PICK n \in Nat : n = Len(bus) /\ Opened(n)
  BY PlaceNow DEF Place, Resting, Single, Opening
<1>2. n = 0 /\ fcs \in {<<Permit>>, <<Refusal>>}
  BY <1>1 DEF Opened
<1>3. fcs # <<Refusal>>
  <2>1. fcs = <<Refusal>> => Head(fcs) = Refusal
    OBVIOUS
  <2> QED
    BY <2>1, Answers
<1>4. fcs = <<Permit>> /\ Head(fcs) = Permit /\ fcs' = <<>>
  BY <1>2, <1>3
<1>5. segblkcount' = blksize
  BY <1>4, Answers
<1>6. PICK b \in Nat : b = blksize
  BY Parameters
<1>7. Tx!Allowed(blksize)' = Tx!Allowed(b) /\ Tx!Allowed(b) \in Nat /\ Tx!Allowed(b) > 0
  BY <1>6 DEF Tx!Allowed
<1>8. 0 \in 0 .. Tx!Allowed(blksize)' - 1
  BY <1>7
<1>9. /\ txbuff \in Msgs /\ Frames[txbuff] # 1 /\ txpassed \in 1 .. Frames[txbuff]
      /\ 0 \in 0 .. txpassed - 1 /\ bus = CfFrames(txbuff, txpassed - 0, 0)
      /\ Frames[txbuff] \in Nat
  BY <1>1, <1>2, FramesOf DEF Opened
<1>10. ASSUME rxstate' = "ACTIVE"
       PROVE  \E j \in 1 .. txpassed' - 0 :
                 Holds(txbuff, j)' /\ Behind(0, j)' /\ Sound(txbuff, j, txpassed - 0)'
  <2>1. PICK j \in 1 .. txpassed - 0 :
           Holds(txbuff, j) /\ Behind(0, j) /\ Sound(txbuff, j, txpassed - 0)
    BY <1>1, <1>2, <1>10 DEF Opened
  <2>2. j = txpassed /\ currblkn = 0
    BY <1>4, <2>1 DEF Behind
  <2>3. txpassed' - j + currblkn' = 0
    BY <1>9, <2>2
  <2>4. Behind(0, j)'
    BY <1>4, <2>3 DEF Behind
  <2>5. Holds(txbuff, j)' /\ Sound(txbuff, j, txpassed - 0)'
    BY <2>1 DEF Holds, Sound
  <2> QED
    BY <2>1, <2>4, <2>5
<1>11. Opened(0)'
  BY <1>4, <1>5, <1>8, <1>9, <1>10 DEF Opened
<1>12. Len(bus') = 0
  BY <1>1, <1>2
<1>13. InTransit' = InTransit
  BY DEF InTransit, IsLast
<1> QED
  BY <1>11, <1>12, <1>13 DEF Place

LEMMA FlowControlPlace ==
  ASSUME LinkInv, Timely, Place, ReadFlowControl
  PROVE  Place' /\ Implemented
<1> DEFINE data == Head(fcs)
<1>1. /\ Transmit /\ UNCHANGED <<last, lost, begun>> /\ fcs # <<>> /\ fcs' = Tail(fcs)
      /\ Configured
  BY DEF ReadFlowControl, LinkInv
<1>2. UNCHANGED <<rxstate, rxsize, rxpassed, expectsn, currblkn, blksize, Cr_tim,
                  assembled, rxstmin>>
  BY <1>1 DEF Transmit, rxvars
<1>3. wire' = <<>> => bus' = bus
  BY <1>1, PlaceNow, Transmitted
<1>4. ~Opening
  BY <1>1 DEF Opening
<1>5. CASE Tx!FlowControlUnexpected
  <2>1. /\ txstate # "WAIT" /\ txstate' = "IDLE" /\ wire' = <<>>
        /\ UNCHANGED <<txbuff, txpassed, currblknum, segblkcount>>
    BY <1>5 DEF Tx!FlowControlUnexpected, Tx!Put, Tx!buffers, Tx!txds
  <2>2. Place' /\ InTransit' = InTransit
    BY <1>1, <1>2, <1>3, <1>4, <2>1, PlaceKept
  <2>3. txstate \in {"IDLE", "MF_DT", "PAUSE"}
    BY <2>1 DEF LinkInv, Sending
  <2>4. txstate = "IDLE"
    BY <1>1, <2>3, PlaceNow
  <2>5. Transmitting' = Transmitting
    BY <2>1, <2>4 DEF Transmitting
  <2> QED
    BY <1>1, <2>2, <2>5, Unseen
<1>6. CASE Low(data) = FlowCode.CTS /\ Tx!FlowControlCTS(data[1], data[2])
  <2>1. /\ txstate = "WAIT" /\ wire' = <<>>
        /\ currblknum' = 0 /\ segblkcount' = data[1]
        /\ txstate' \in {"MF_DT", "PAUSE"}
        /\ UNCHANGED <<txpassed, txbuff>>
    BY <1>6 DEF Tx!FlowControlCTS, Tx!Silent, Tx!Put, Tx!buffers
  <2>2. Place' /\ InTransit' = InTransit
    BY <1>1, <1>2, <1>3, <1>6, <2>1, PermitPlace
  <2>3. Transmitting' = Transmitting
    BY <2>1 DEF Transmitting
  <2> QED
    BY <1>1, <2>2, <2>3, Unseen
<1>7. CASE Low(data) = FlowCode.OVERFLOW /\ Tx!FlowControlStop("BUFFER_OVFLW")
  <2>1. /\ txstate = "WAIT" /\ txstate' = "IDLE" /\ wire' = <<>>
        /\ UNCHANGED <<txbuff, txpassed, currblknum, segblkcount>>
    BY <1>7 DEF Tx!FlowControlStop, Tx!Put, Tx!buffers, Tx!txds
  <2>2. Place' /\ InTransit' = InTransit
    BY <1>1, <1>2, <1>3, <1>4, <2>1, PlaceKept
  <2>3. PICK n \in Nat : Opened(n)
    BY <1>4, <2>1, PlaceNow DEF Place, Resting, Single
  <2>4. fcs = <<Permit>> \/ fcs = <<Refusal>>
    BY <1>1, <2>1, <2>3 DEF Opened
  <2>5. fcs # <<Permit>>
    <3>1. fcs = <<Permit>> => data = Permit
      OBVIOUS
    <3> QED
      BY <1>7, <3>1, Answers
  <2>6. Size[txbuff] > RXLEN /\ txbuff \in Msgs
    BY <2>1, <2>3, <2>4, <2>5 DEF Opened
  <2>7. Transmitting = txbuff /\ Transmitting' = NoMsg
    BY <2>1 DEF Transmitting
  <2>8. Transmitting \in TooLong
    BY <2>6, <2>7 DEF TooLong
  <2>9. MessageLink!GiveUp
    BY <1>1, <2>2, <2>7, <2>8 DEF MessageLink!GiveUp
  <2> QED
    BY <2>2, <2>9 DEF Implemented, MessageLink!Next
<1> QED
  BY <1>5, <1>6, <1>7 DEF ReadFlowControl

-----------------------------------------------------------------------------
(* A frame leaves the bus.                                                 *)

LEMMA OneLess ==
  ASSUME NEW n \in Nat, n > 0, n = Len(bus), Opened(n), bus' = Tail(bus),
         UNCHANGED <<txstate, txbuff, txpassed, currblknum, segblkcount, blksize, rxstmin>>,
         \/ fcs' = fcs \/ txstate = "IDLE"
         \/ txstate = "WAIT" /\ n = 1 /\ fcs' = <<Permit>>,
         rxstate' = "ACTIVE" =>
            \E j \in 1 .. txpassed - (n - 1) :
               Holds(txbuff, j)' /\ Behind(n - 1, j)' /\ Sound(txbuff, j, txpassed - (n - 1))',
         ~lost' /\ n > 1 => InStep(n - 1)'
  PROVE  /\ Place'
         /\ InTransit = IF txpassed = Frames[txbuff] THEN <<txbuff>> ELSE <<>>
         /\ InTransit' = IF n > 1 THEN InTransit ELSE <<>>
<1>1. /\ txbuff \in Msgs /\ Frames[txbuff] # 1 /\ txpassed \in 1 .. Frames[txbuff]
      /\ n \in 0 .. txpassed - 1 /\ bus = CfFrames(txbuff, txpassed - n, n)
      /\ Frames[txbuff] \in Nat
  BY FramesOf DEF Opened
<1>2. PICK k \in Nat : k = txpassed - n /\ k + n = txpassed
  <2>1. PICK p \in Nat : p = txpassed
    BY <1>1
  <2>2. n <= p /\ p - n \in Nat /\ (p - n) + n = p
    BY <1>1, <2>1
  <2> QED
    BY <2>1, <2>2
<1>3. PICK l \in Nat : l = n - 1 /\ l + 1 = n
  OBVIOUS
<1>4. bus' = CfFrames(txbuff, k + 1, l) /\ Len(bus') = l
  <2>1. /\ Tail(CfFrames(txbuff, k, n)) = CfFrames(txbuff, k + 1, n - 1)
        /\ Len(CfFrames(txbuff, k + 1, n - 1)) = n - 1
    <3>1. Tail(CfFrames(txbuff, k, n)) = CfFrames(txbuff, k + 1, n - 1)
      BY CfTail, Zenon
    <3>2. Len(CfFrames(txbuff, k + 1, n - 1)) = n - 1
      <4>1. k + 1 \in Nat /\ n - 1 \in Nat
        OBVIOUS
      <4> QED
        BY <4>1, CfLength, Zenon
    <3> QED
      BY <3>1, <3>2, Zenon
  <2>2. bus' = Tail(CfFrames(txbuff, k, n))
    BY <1>1, <1>2, Zenon
  <2>3. bus' = CfFrames(txbuff, k + 1, n - 1) /\ Len(bus') = n - 1
    BY <2>1, <2>2, Zenon
  <2> QED
    BY <1>3, <2>3, Zenon
<1>5. l \in 0 .. txpassed - 1 /\ txpassed - l = k + 1 /\ k + 1 \in Nat
  BY <1>1, <1>2, <1>3
<1>6. txstate # "IDLE" => fcs = <<>>
  BY DEF Opened
<1>7. Permit' = Permit /\ Refusal' = Refusal /\ <<Permit>> # <<Refusal>>
      /\ <<Refusal>> # <<>>
  BY Answers DEF Permit, Refusal, FcFrame
<1>8. /\ txstate # "IDLE" => fcs' \in {<<>>, <<Permit>>}
      /\ txstate # "IDLE" /\ fcs' # <<>> => txstate = "WAIT" /\ l = 0
  BY <1>3, <1>6
<1>9. Tx!Allowed(blksize)' = Tx!Allowed(blksize)
  BY DEF Tx!Allowed
<1>10. txstate \in {"MF_DT", "PAUSE"} =>
          segblkcount' = blksize' /\ currblknum' \in 0 .. Tx!Allowed(blksize)' - 1
  BY <1>9 DEF Opened
<1>11. rxstate' = "ACTIVE" =>
          \E j \in 1 .. txpassed' - l :
              Holds(txbuff, j)' /\ Behind(l, j)' /\ Sound(txbuff, j, txpassed - l)'
  BY <1>3
<1>12. ~lost' /\ l > 0 => InStep(l)'
  BY <1>3
<1>13. Opened(l)'
  BY <1>1, <1>4, <1>5, <1>7, <1>8, <1>10, <1>11, <1>12 DEF Opened
<1>14. InTransit = IF txpassed = Frames[txbuff] THEN <<txbuff>> ELSE <<>>
  BY TransitNow
<1>15. InTransit' = IF n > 1 THEN InTransit ELSE <<>>
  <2>1. LastIn(CfFrames(txbuff, k + 1, l)) =
          IF l > 0 /\ k + 1 + l = Frames[txbuff] THEN <<txbuff>> ELSE <<>>
    BY <1>1, <1>5, RunInTransit
  <2>2. k + 1 + l = txpassed
    BY <1>2, <1>3
  <2> QED
    BY <1>3, <1>4, <1>14, <2>1, <2>2, TransitIsLast
<1> QED
  BY <1>4, <1>13, <1>14, <1>15 DEF Place

\* The first frames of the line are the message itself, or its announcement.
LEMMA ReadSingle ==
  ASSUME LinkInv, Single, Report, bus' = Tail(bus),
         Rx!ReceiveSF(Head(bus).chunk[1])
  PROVE  Place' /\ Implemented
<1>1. PICK m \in Msgs : Frames[m] = 1 /\ bus = <<FfFrame(m)>>
  BY DEF Single
<1>2. /\ Head(bus).chunk[1] = m /\ bus' = <<>>
      /\ InTransit = <<m>> /\ InTransit' = <<>>
  <2>1. FfFrame(m).chunk[1] = m
    BY <1>1, SingleHead
  <2>2. Head(bus) = FfFrame(m) /\ bus' = <<>>
    BY <1>1, FirstInTransit
  <2> QED
    BY <1>1, <2>1, <2>2, FirstInTransit, TransitIsLast
<1>3. txstate = "IDLE" /\ txstate' = "IDLE" /\ lost' = lost /\ begun' = begun
  BY DEF Single, Report, txvars
<1>4. rxevents' = Append(Rx!Interrupted, Rx!Event("Data", "OK_r", Rx!Part(m, 0, Size[m])))
  BY <1>2 DEF Rx!ReceiveSF, Rx!Notify
<1> DEFINE e == Rx!Event("Data", "OK_r", Rx!Part(m, 0, Size[m]))
<1>5. e.ev = "Data" /\ e.res = "OK_r" /\ e.payload = Rx!Part(m, 0, Size[m])
  BY DEF Rx!Event
<1> HIDE DEF e
<1>6. PICK at \in DOMAIN rxevents' : at = Len(rxevents') /\ rxevents'[at] = e
  <2>1. Rx!Interrupted = <<>> \/ Rx!Interrupted = <<Rx!UnexpPdu>>
    BY DEF Rx!Interrupted
  <2>2. CASE Rx!Interrupted = <<>>
    <3>1. rxevents' = <<e>>
      BY <1>4, <2>2 DEF e
    <3> QED
      BY <3>1
  <2>3. CASE Rx!Interrupted = <<Rx!UnexpPdu>>
    <3>1. rxevents' = <<Rx!UnexpPdu, e>>
      BY <1>4, <2>3, Appended DEF e
    <3> QED
      BY <3>1
  <2> QED
    BY <2>1, <2>2, <2>3
<1>7. Payload = Rx!Part(m, 0, Size[m])
  BY <1>5, <1>6 DEF Payload
<1>8. last' = <<m, "whole", 1 - last[3]>>
  <2>1. Size[m] \in Nat /\ 0 \in Nat
    BY FramesOf
  <2>2. /\ Len(Rx!Part(m, 0, Size[m])) = Size[m]
        /\ \A i \in 1 .. Size[m] : Rx!Part(m, 0, Size[m])[i] = Rx!Byte(m, 0 + i)
    BY <2>1, PartOfBytes
  <2>3. DOMAIN Payload = 1 .. Size[m]
    BY <1>7 DEF Rx!Part
  <2>4. \A i \in 1 .. Size[m] : Payload[i] = Rx!Byte(m, i)
    BY <1>7 DEF Rx!Part
  <2>5. IsTakenFor(Payload, m)
    BY <1>7, <2>2, <2>3, <2>4 DEF IsTakenFor
  <2>6. last' = <<m, Part(m), 1 - last[3]>>
    BY <1>5, <1>6, <2>3, <2>5, Delivery
  <2> QED
    BY <1>7, <2>6 DEF Part
<1>9. Transmitting' = Transmitting
  BY <1>3 DEF Transmitting
<1>10. InTransit # <<>> /\ Head(InTransit) = m /\ InTransit' = Tail(InTransit)
  BY <1>2
<1>11. MessageLink!Deliver
  <2>1. "whole" \in {"whole", "tail"}
    OBVIOUS
  <2> QED
    BY <1>3, <1>8, <1>9, <1>10, <2>1 DEF MessageLink!Deliver
<1>12. Place'
  BY <1>2, <1>3 DEF Place, Resting
<1> QED
  BY <1>11, <1>12 DEF Implemented, MessageLink!Next

\* A step of the receiver that does not deliver.
LEMMA NothingDelivered ==
  ASSUME Report,
         \/ rxevents' = <<>> \/ rxevents' = Rx!Interrupted
         \/ rxevents' = <<Rx!UnexpPdu>>
         \/ rxevents' = Append(Rx!Interrupted, Rx!Event("DataFF", "OK_r", <<>>))
         \/ rxevents' = <<Rx!Event("Conf", "TIMEOUT_Cr", <<>>)>>
  PROVE  UNCHANGED <<last, lost, begun, Transmitting>>
<1> DEFINE f == Rx!Event("DataFF", "OK_r", <<>>)
           c == Rx!Event("Conf", "TIMEOUT_Cr", <<>>)
           u == Rx!UnexpPdu
           Silent(e) == e.ev # "Data" \/ e.res # "OK_r"
<1>1. Silent(f) /\ Silent(c) /\ Silent(u)
  BY DEF Rx!Event, Rx!UnexpPdu
<1> HIDE DEF f, c, u, Silent
<1>2. rxevents' \in {<<>>, <<u>>, <<f>>, <<u, f>>, <<c>>}
  <2>1. Rx!Interrupted = <<>> \/ Rx!Interrupted = <<u>>
    BY DEF Rx!Interrupted, u
  <2>2. Append(<<>>, f) = <<f>> /\ Append(<<u>>, f) = <<u, f>>
    BY Appended
  <2> QED
    BY <2>1, <2>2 DEF f, c, u
<1>3. \A i \in DOMAIN rxevents' : Silent(rxevents'[i])
  BY <1>1, <1>2
<1>4. last' = last
  BY <1>3, NoDelivery DEF Silent
<1> QED
  BY <1>4 DEF Report, txvars, Transmitting

LEMMA FirstPart ==
  ASSUME NEW m \in Msgs, Frames[m] # 1
  PROVE  /\ 6 < Size[m] /\ Size[m] # 6 /\ 6 = 6 + 7 * (1 - 1) /\ 1 = 1 % SNMOD
         /\ 0 \in Nat
<1>1. Size[m] \in Nat /\ 8 <= Size[m] /\ Size[m] <= 4095
  BY LastPart
<1>2. 6 < Size[m] /\ Size[m] # 6
  BY <1>1
<1> QED
  BY <1>2, Constants

LEMMA ReadOpening ==
  ASSUME LinkInv, Opening, bus # <<>>, Report, bus' = Tail(bus),
         Rx!ReceiveFFOverflow(txbuff) \/ Rx!ReceiveFF(txbuff)
  PROVE  Place' /\ Implemented
<1>1. /\ txbuff \in Msgs /\ Frames[txbuff] # 1 /\ txpassed = 1 /\ fcs = <<>>
      /\ fcs \in Seq({}) /\ bus = <<FfFrame(txbuff)>> /\ txstate \in {"IDLE", "WAIT"}
  BY DEF Opening
<1>2. bus' = <<>> /\ InTransit = <<>> /\ InTransit' = <<>>
  BY <1>1, FirstInTransit, TransitIsLast
<1>3. /\ Size[txbuff] \in Nat /\ 8 <= Size[txbuff] /\ Size[txbuff] <= 4095
      /\ Frames[txbuff] \in Nat /\ Frames[txbuff] > 1
  BY <1>1, LastPart
<1>4. UNCHANGED <<txstate, txbuff, txpassed, currblknum, segblkcount, rxstmin, lost>>
  BY DEF Report, txvars
<1>5. bus' = CfFrames(txbuff', txpassed' - 0, 0) /\ Len(bus') = 0
  <2>1. bus' = <<>>
    BY <1>2
  <2>2. <<>> = CfFrames(txbuff', txpassed' - 0, 0)
    BY DEF CfFrames
  <2> QED
    BY <2>1, <2>2
<1>6. CASE Rx!ReceiveFFOverflow(txbuff)
  <2>1. /\ rxsent' = <<Rx!FlowControl("OVERFLOW", 0)>> /\ rxstate' = "IDLE"
        /\ Size[txbuff] > RXLEN /\ rxevents' = Rx!Interrupted /\ blksize' = blksize
    BY <1>6 DEF Rx!ReceiveFFOverflow, Rx!Send, Rx!Notify
  <2>2. fcs' = <<Refusal>>'
    BY <1>1, <2>1, Reported DEF Refusal, Rx!FlowControl
  <2>3. Opened(0)'
    BY <1>1, <1>3, <1>4, <1>5, <2>1, <2>2 DEF Opened
  <2>4. UNCHANGED <<last, lost, begun, Transmitting>>
    BY <2>1, NothingDelivered
  <2> QED
    BY <1>2, <1>5, <2>1, <2>3, <2>4, Unseen DEF Place
<1>7. CASE Rx!ReceiveFF(txbuff)
  <2>1. /\ rxsent' = <<Rx!FlowControl("CTS", blksize)>> /\ blksize' = blksize
        /\ currblkn' = 0 /\ rxsize' = Size[txbuff] /\ rxpassed' = 6
        /\ expectsn' = 1 /\ assembled' = Rx!Part(txbuff, 0, 6)
        /\ rxevents' = Append(Rx!Interrupted, Rx!Event("DataFF", "OK_r", <<>>))
    BY <1>7, Constants DEF Rx!ReceiveFF, Rx!Send, Rx!Notify
  <2>2. fcs' = <<Permit'>>
    <3>1. PICK f : f = Rx!FlowControl("CTS", blksize)
      OBVIOUS
    <3>2. fcs' = fcs \o <<FcFrame(f)>>'
      BY <1>1, <2>1, <3>1, Reported
    <3>3. f = Rx!FlowControl("CTS", blksize')
      BY <2>1, <3>1
    <3>4. fcs' = <<FcFrame(f)>>'
      BY <1>1, <3>2
    <3> QED
      BY <3>3, <3>4 DEF Permit, FcFrame, Rx!FlowControl
  <2>3. <<Permit'>> # <<Refusal'>> /\ <<Permit'>> # <<>>
    <3>1. Permit' = Permit /\ Refusal' = Refusal
      BY <1>4, <2>1 DEF Permit, Refusal, FcFrame
    <3> QED
      BY <3>1, Answers
  <2>4. Holds(txbuff, 1)'
    <3>1. /\ 6 < Size[txbuff] /\ 6 = 6 + 7 * (1 - 1) /\ 1 = 1 % SNMOD /\ 0 \in Nat
      BY <1>1, FirstPart, Zenon
    <3>2. assembled' \in Seq(Rx!Bytes) /\ Len(assembled') = 6
      <4>1. 6 \in Nat /\ 0 \in Nat
        OBVIOUS
      <4> QED
        BY <1>1, <2>1, <4>1, PartOfBytes, Zenon
    <3>3. txbuff' = txbuff
      BY <1>4, Zenon
    <3>4. rxsize' = Size[txbuff] /\ rxpassed' = 6 /\ expectsn' = 1 /\ currblkn' = 0
      BY <2>1, Zenon
    <3> QED
      BY <3>1, <3>2, <3>3, <3>4, Zenon DEF Holds
  <2>5. Behind(0, 1)' /\ Sound(txbuff, 1, txpassed - 0)'
    BY <1>1, <1>4, <2>1 DEF Behind, Sound
  <2>6. 1 \in 1 .. txpassed' - 0 /\ 0 \in 0 .. txpassed' - 1
    BY <1>1, <1>4
  <2>7. Opened(0)'
    BY <1>1, <1>3, <1>4, <1>5, <2>2, <2>3, <2>4, <2>5, <2>6 DEF Opened
  <2>8. UNCHANGED <<last, lost, begun, Transmitting>>
    BY <2>1, NothingDelivered
  <2> QED
    BY <1>2, <1>5, <2>7, <2>8, Unseen DEF Place
<1> QED
  BY <1>6, <1>7

\* A block ends on both sides at once: it was the last frame on the line.
LEMMA BlockOver ==
  ASSUME NEW b \in Nat, NEW c \in Nat, NEW n \in Nat, n > 0, c + 1 >= b
  PROVE  /\ n + c <= Tx!Allowed(b) => n = 1
         /\ ~(n + c <= Tx!Allowed(b) - 1)
  BY DEF Tx!Allowed

LEMMA ReadMiddle ==
  ASSUME LinkInv, NEW n \in Nat, n > 0, n = Len(bus), Opened(n),
         Report, bus' = Tail(bus),
         \/ Rx!ReceiveCFBlockEnd(txbuff, txpassed - n)
         \/ Rx!ReceiveCFInBlock(txbuff, txpassed - n)
  PROVE  Place' /\ Implemented
<1>1. /\ Rx!AcceptCF(txbuff, txpassed - n) /\ rxpassed' # rxsize /\ rxevents' = <<>>
      /\ rxstate' = rxstate /\ rxstate = "ACTIVE"
  BY DEF Rx!ReceiveCFBlockEnd, Rx!ReceiveCFInBlock, Rx!Notify, Rx!AcceptCF
<1>2. Configured /\ Sending
  BY DEF LinkInv
<1>3. /\ txbuff \in Msgs /\ Frames[txbuff] \in Nat /\ txpassed \in 1 .. Frames[txbuff]
      /\ n \in 0 .. txpassed - 1
  BY FramesOf DEF Opened
<1>4. PICK p \in Nat : p = txpassed /\ n <= p - 1
  BY <1>3
<1>5. PICK k \in Nat : k = txpassed - n /\ k + n = p /\ k > 0
  BY <1>4
<1>6. PICK j \in 1 .. k : Holds(txbuff, j) /\ Behind(n, j) /\ Sound(txbuff, j, k)
  BY <1>1, <1>5 DEF Opened
<1>7. /\ rxsize = Size[txbuff] /\ rxsize' = rxsize /\ blksize' = blksize
      /\ j # k \/ n > 1 \/ txpassed < Frames[txbuff]
      /\ rxpassed' = 6 + 7 * j /\ rxpassed' < rxsize
      /\ assembled' \in Seq(Rx!Bytes) /\ Len(assembled') = rxpassed'
      /\ j = k \/ Unambiguous => assembled' = Rx!Part(txbuff, 0, rxpassed')
      /\ expectsn' = (j + 1) % SNMOD
      /\ Cr_tim' = Rx!RestartTimer(Cr_tim)
  BY <1>1, <1>2, <1>5, <1>6, NumberedStep
<1>8. /\ UNCHANGED <<txstate, txbuff, txpassed, currblknum, segblkcount, rxstmin, lost>>
  BY DEF Report, txvars
<1>9. UNCHANGED <<last, lost, begun, Transmitting>>
  BY <1>1, NothingDelivered
<1>10. ~lost => j = k
  BY <1>5, <1>6, NoneMissed
<1>11. PICK i \in Nat : i = j /\ i > 0 /\ i <= k
  BY <1>6
<1>12. PICK c \in Nat : c = currblkn
  BY <1>6 DEF Holds
<1>13. PICK b \in Nat : b = blksize
  <2>1. <<blksize, rxstmin>> \in FlowParams
    BY <1>2, Zenon DEF Configured
  <2>2. blksize \in Byte
    BY <2>1, ParametersAssumption
  <2>3. blksize \in Nat
    BY <2>2, ByteIsNat, Zenon
  <2> QED
    BY <2>3, Zenon
<1>14. PICK d \in Nat : d = p - i /\ d >= n
  <2>1. k + n = p /\ i <= k
    BY <1>5, <1>11, Zenon
  <2>2. p - i \in Nat /\ p - i >= n
    BY <2>1
  <2> QED
    BY <2>2
<1>15. /\ txstate \in {"MF_DT", "PAUSE"} => d + c <= currblknum
       /\ d + c <= Tx!Allowed(b)
  BY <1>4, <1>6, <1>11, <1>12, <1>13, <1>14 DEF Behind
<1>16. i + 1 \in 1 .. txpassed - (n - 1) /\ txpassed - (n - 1) = k + 1
  BY <1>4, <1>5, <1>11
<1>17. ASSUME currblkn' \in Nat
       PROVE  Holds(txbuff, i + 1)' /\ Sound(txbuff, i + 1, txpassed - (n - 1))'
  <2>1. 6 + 7 * j = 6 + 7 * ((i + 1) - 1) /\ j + 1 = i + 1
    BY <1>11
  <2>2. Holds(txbuff, i + 1)'
    BY <1>7, <1>8, <1>17, <2>1 DEF Holds
  <2>3. i + 1 = k + 1 => j = k
    BY <1>11
  <2>4. Sound(txbuff, i + 1, txpassed - (n - 1))'
    BY <1>7, <1>8, <1>16, <2>3 DEF Sound
  <2> QED
    BY <2>2, <2>4
<1>18. txstate \in {"MF_DT", "PAUSE"} => currblknum \in 0 .. Tx!Allowed(b) - 1
  BY <1>13 DEF Opened
<1>19. Tx!Allowed(blksize)' = Tx!Allowed(b)
  BY <1>7, <1>13 DEF Tx!Allowed
<1>20. txstate # "IDLE" => fcs = <<>>
  BY DEF Opened
<1>21. CASE Rx!ReceiveCFBlockEnd(txbuff, txpassed - n)
  <2>1. /\ c + 1 >= b /\ currblkn' = 0 /\ rxsent' = <<Rx!FlowControl("CTS", blksize)>>
    BY <1>12, <1>13, <1>21 DEF Rx!ReceiveCFBlockEnd, Rx!BlockDone, Rx!Send
  <2>2. /\ d + c <= Tx!Allowed(b) => d = 1
        /\ ~(d + c <= Tx!Allowed(b) - 1)
    <3>1. d > 0 /\ c + 1 >= b
      BY <1>14, <2>1
    <3> QED
      BY <3>1, BlockOver
  <2>3. d = 1 /\ n = 1 /\ i = k
    BY <1>5, <1>11, <1>14, <1>15, <2>2
  <2>4. Tx!Allowed(b) \in Nat
    BY DEF Tx!Allowed
  <2>5. txstate \notin {"MF_DT", "PAUSE"}
    <3> SUFFICES ASSUME txstate \in {"MF_DT", "PAUSE"} PROVE FALSE
      OBVIOUS
    <3>1. PICK q \in Nat : q = currblknum /\ q <= Tx!Allowed(b) - 1
      BY <1>18, <2>4
    <3>2. d + c <= q
      BY <1>15, <3>1
    <3> QED
      BY <2>2, <2>4, <3>1, <3>2
  <2>6. txstate \in {"IDLE", "WAIT"}
    BY <1>2, <2>5 DEF Sending
  <2>7. txstate = "IDLE" \/ (txstate = "WAIT" /\ n = 1 /\ fcs' = <<Permit>>)
    <3> SUFFICES ASSUME txstate = "WAIT" PROVE fcs' = <<Permit>>
      BY <2>3, <2>6
    <3>1. fcs = <<>> /\ fcs \in Seq({})
      BY <1>20
    <3>2. PICK f : f = Rx!FlowControl("CTS", blksize)
      OBVIOUS
    <3>3. fcs' = fcs \o <<FcFrame(f)>>'
      BY <2>1, <3>1, <3>2, Reported
    <3>4. FcFrame(f)' = Permit
      BY <1>8, <3>2 DEF Permit, FcFrame
    <3>5. fcs' = <<>> \o <<Permit>>
      BY <3>1, <3>3, <3>4
    <3> QED
      BY <3>5
  <2>8. Behind(n - 1, i + 1)'
    <3>1. n - 1 = 0 /\ i + 1 = txpassed
      <4>1. k + 1 = p
        BY <1>5, <2>3
      <4> QED
        BY <1>4, <2>3, <4>1
    <3> QED
      BY <1>8, <2>1, <2>5, <3>1 DEF Behind
  <2>9. \E h \in 1 .. txpassed - (n - 1) :
           Holds(txbuff, h)' /\ Behind(n - 1, h)' /\ Sound(txbuff, h, txpassed - (n - 1))'
    BY <1>16, <1>17, <2>1, <2>8
  <2>10. ~(n > 1) /\ j = k
    BY <1>11, <2>3
  <2>11. /\ Place'
         /\ InTransit = IF txpassed = Frames[txbuff] THEN <<txbuff>> ELSE <<>>
         /\ InTransit' = IF n > 1 THEN InTransit ELSE <<>>
    BY <1>7, <1>8, <2>7, <2>9, <2>10, OneLess
  <2>12. InTransit' = InTransit
    BY <1>3, <1>7, <2>10, <2>11
  <2> QED
    BY <1>9, <2>11, <2>12, Unseen
<1>22. CASE Rx!ReceiveCFInBlock(txbuff, txpassed - n)
  <2>1. currblkn' = c + 1 /\ rxsent' = <<>>
    BY <1>12, <1>22 DEF Rx!ReceiveCFInBlock, Rx!Send
  <2>2. fcs' = fcs \/ txstate = "IDLE"
    <3> SUFFICES ASSUME txstate # "IDLE" PROVE fcs' = fcs
      OBVIOUS
    <3>1. fcs \in Seq({})
      BY <1>20
    <3> QED
      BY <2>1, <3>1, Reported
  <2>3. Behind(n - 1, i + 1)'
    <3>1. txpassed' - (i + 1) + currblkn' = d + c
      BY <1>4, <1>8, <1>14, <2>1
    <3>2. txstate' # "IDLE" => fcs' = <<>>
      BY <1>8, <1>20, <2>2
    <3> QED
      BY <1>8, <1>15, <1>19, <3>1, <3>2 DEF Behind
  <2>4. c + 1 \in Nat
    OBVIOUS
  <2>5. \E h \in 1 .. txpassed - (n - 1) :
           Holds(txbuff, h)' /\ Behind(n - 1, h)' /\ Sound(txbuff, h, txpassed - (n - 1))'
    BY <1>16, <1>17, <2>1, <2>3, <2>4
  <2>6. ~lost' => InStep(n - 1)'
    <3> SUFFICES ASSUME ~lost' PROVE InStep(n - 1)'
      OBVIOUS
    <3>1. Cr_tim'.left > 0
      <4>1. Cr_tim \in Rx!TimerType(CrPeriods)
        BY <1>2 DEF Configured
      <4>2. Cr_tim'.left = Cr_tim.period /\ Cr_tim.period \in CrPeriods
        BY <1>7, <4>1, CrPolled DEF Rx!TimerType
      <4>3. Cr_tim.period \in Nat /\ Cr_tim.period > 0
        BY <4>2, ParametersAssumption
      <4> QED
        BY <4>2, <4>3
    <3>2. j = k
      BY <1>9, <1>10
    <3>3. 6 + 7 * j = 6 + 7 * (txpassed' - (n - 1) - 1)
      BY <1>4, <1>5, <1>8, <3>2
    <3> QED
      BY <1>1, <1>7, <3>1, <3>3 DEF InStep
  <2>7. /\ Place'
        /\ InTransit = IF txpassed = Frames[txbuff] THEN <<txbuff>> ELSE <<>>
        /\ InTransit' = IF n > 1 THEN InTransit ELSE <<>>
    BY <1>7, <1>8, <2>2, <2>5, <2>6, OneLess
  <2>8. InTransit' = InTransit \/ (j # k /\ InTransit = <<txbuff>> /\ InTransit' = <<>>)
    BY <1>3, <1>7, <2>7
  <2>9. CASE InTransit' = InTransit
    BY <1>9, <2>7, <2>9, Unseen
  <2>10. CASE j # k /\ InTransit = <<txbuff>> /\ InTransit' = <<>>
    <3>1. InTransit # <<>> /\ InTransit' = Tail(InTransit)
      BY <2>10
    <3>2. MessageLink!Drop
      BY <1>9, <1>10, <2>10, <3>1 DEF MessageLink!Drop
    <3> QED
      BY <2>7, <3>2 DEF Implemented, MessageLink!Next
  <2> QED
    BY <2>8, <2>9, <2>10
<1> QED
  BY <1>21, <1>22

\* The last frame of a message completes it.
LEMMA ReadLast ==
  ASSUME LinkInv, Stored, NEW n \in Nat, n > 0, n = Len(bus), Opened(n),
         Report, bus' = Tail(bus), Rx!ReceiveCFLast(txbuff, txpassed - n)
  PROVE  Place' /\ Implemented
<1>1. /\ Rx!AcceptCF(txbuff, txpassed - n) /\ rxpassed' = rxsize
      /\ rxstate' = "IDLE" /\ rxstate = "ACTIVE" /\ rxsent' = <<>>
      /\ rxevents' = <<Rx!Event("Data", "OK_r", Rx!Content(rxsize))>>
  BY DEF Rx!ReceiveCFLast, Rx!AcceptCF, Rx!Notify, Rx!Send
<1>2. Configured
  BY DEF LinkInv
<1>3. /\ txpassed = Frames[txbuff] /\ n = 1 /\ blksize' = blksize
      /\ assembled' = Rx!Part(txbuff, 0, Size[txbuff]) /\ Len(assembled') = rxsize
  <2>1. PICK k \in Nat : k = txpassed - n
    BY NextFrame
  <2>2. PICK j \in 1 .. k : Holds(txbuff, j) /\ Behind(n, j) /\ Sound(txbuff, j, k)
    BY <1>1, <2>1 DEF Opened
  <2> QED
    BY <1>1, <1>2, <2>1, <2>2, NumberedStep
<1>4. /\ UNCHANGED <<txstate, txbuff, txpassed, currblknum, segblkcount, rxstmin, lost>>
      /\ UNCHANGED <<begun, Transmitting>>
  BY DEF Report, txvars, Transmitting
<1>5. txbuff \in Msgs
  BY DEF Opened
<1>6. fcs' = fcs \/ txstate = "IDLE"
  <2> SUFFICES ASSUME txstate # "IDLE" PROVE fcs' = fcs
    OBVIOUS
  <2>1. fcs = <<>>
    BY DEF Opened
  <2>2. fcs \in Seq({})
    BY <2>1
  <2> QED
    BY <1>1, <2>2, Reported
<1>7. /\ Place'
      /\ InTransit = IF txpassed = Frames[txbuff] THEN <<txbuff>> ELSE <<>>
      /\ InTransit' = IF n > 1 THEN InTransit ELSE <<>>
  <2>1. ~(n > 1) /\ rxstate' # "ACTIVE"
    BY <1>1, <1>3
  <2> QED
    BY <1>3, <1>4, <1>6, <2>1, OneLess
<1>8. InTransit = <<txbuff>> /\ InTransit' = <<>>
  BY <1>3, <1>7
<1>9. PICK k \in Nat, a \in Nat, t \in Nat :
         /\ k = txpassed - n /\ k > 0 /\ rxpassed = a /\ rxsize = t /\ a < t /\ t <= RXLEN
         /\ t = Size[txbuff] /\ assembled \in Seq(Rx!Bytes) /\ Len(assembled) = a
  <2>1. PICK k \in Nat : k = txpassed - n
    BY NextFrame
  <2>2. PICK j \in 1 .. k : Holds(txbuff, j)
    BY <1>1, <2>1 DEF Opened
  <2>3. Size[txbuff] \in Nat /\ rxsize = Size[txbuff] /\ rxpassed < rxsize
    BY <1>5, <2>2, FramesOf DEF Holds
  <2>4. rxpassed \in Nat
    BY <2>1, <2>2 DEF Holds
  <2>5. k > 0 /\ rxsize <= RXLEN
    BY <1>1, <2>1, <2>2 DEF Stored
  <2> QED
    BY <2>1, <2>2, <2>3, <2>4, <2>5 DEF Holds
<1>10. ASSUME NEW i \in 1 .. t, i > 6 \/ begun = 1
       PROVE  rxbuff'[i - 1] = Rx!Byte(txbuff, i)
  <2>1. i <= a => rxbuff[i - 1] = assembled[i]
    BY <1>1, <1>9, <1>10 DEF Stored
  <2>2. i \in 1 .. rxpassed'
    BY <1>1, <1>9
  <2>3. rxbuff'[i - 1] = assembled'[i]
    BY <1>1, <1>5, <1>9, <2>1, <2>2, CopiedBehind
  <2>4. assembled' = Rx!Part(txbuff, 0, t)
    BY <1>3, <1>9
  <2> QED
    BY <2>3, <2>4 DEF Rx!Part
<1>11. /\ Payload = Rx!Content(t) /\ DOMAIN Payload = 1 .. t /\ Len(Payload) = t
       /\ \A i \in 1 .. t : Payload[i] = rxbuff'[i - 1]
  <2>1. Payload = Rx!Content(t)
    BY <1>1, <1>9 DEF Payload, Rx!Event
  <2> QED
    BY <2>1 DEF Rx!Content
<1>12. last' = <<txbuff, Part(txbuff), 1 - last[3]>>
  <2> DEFINE e == Rx!Event("Data", "OK_r", Rx!Content(rxsize))
  <2>1. e.ev = "Data" /\ e.res = "OK_r"
    BY DEF Rx!Event
  <2> HIDE DEF e
  <2>2. rxevents' = <<e>>
    BY <1>1 DEF e
  <2>3. 1 \in DOMAIN rxevents' /\ rxevents'[1] = e
    BY <2>2
  <2>4. Frames[txbuff] # 1
    BY DEF Opened
  <2>5. IsTakenFor(Payload, txbuff)
    BY <1>9, <1>10, <1>11, <2>4, Constants DEF IsTakenFor
  <2> QED
    BY <1>5, <1>9, <1>11, <2>1, <2>3, <2>5, Delivery
<1>13. /\ Part(txbuff) \in {"whole", "tail"}
       /\ txbuff \notin Short
       /\ begun = 1 => Part(txbuff) = "whole"
  <2>1. ASSUME begun = 1 PROVE Payload = Rx!Part(txbuff, 0, Size[txbuff])
    <3>1. \A i \in 1 .. t : Payload[i] = Rx!Byte(txbuff, i)
      BY <1>10, <1>11, <2>1
    <3>2. Payload = [i \in 1 .. t |-> Rx!Byte(txbuff, i)]
      BY <1>11, <3>1 DEF Rx!Content
    <3>3. Rx!Part(txbuff, 0, t) = [i \in 1 .. t |-> Rx!Byte(txbuff, i)]
      BY DEF Rx!Part
    <3> QED
      BY <1>9, <3>2, <3>3
  <2>2. txbuff \notin Short
    BY DEF Opened, Short
  <2> QED
    BY <1>5, <2>1, <2>2 DEF Part
<1>14. InTransit # <<>> /\ Head(InTransit) = txbuff /\ InTransit' = Tail(InTransit)
  BY <1>8
<1>15. MessageLink!Deliver
  BY <1>4, <1>12, <1>13, <1>14 DEF MessageLink!Deliver, MessageLink!Whole
<1> QED
  BY <1>7, <1>15 DEF Implemented, MessageLink!Next

\* A frame that does not fit ends the reception: only after a loss.
LEMMA ReadUnexpected ==
  ASSUME LinkInv, NEW n \in Nat, n > 0, n = Len(bus), Opened(n),
         Report, bus' = Tail(bus), Rx!ReceiveCFUnexpected(txbuff, txpassed - n)
  PROVE  Place' /\ Implemented
<1>1. /\ rxstate # "ACTIVE" \/ ~Rx!Expected(txpassed - n)
      /\ rxstate' = "IDLE" /\ rxsent' = <<>> /\ rxevents' = <<Rx!UnexpPdu>>
      /\ blksize' = blksize
  BY DEF Rx!ReceiveCFUnexpected, Rx!Notify, Rx!Send
<1>2. /\ UNCHANGED <<txstate, txbuff, txpassed, currblknum, segblkcount, rxstmin, lost>>
  BY DEF Report, txvars
<1>3. UNCHANGED <<last, lost, begun, Transmitting>>
  BY <1>1, NothingDelivered
<1>4. lost
  <2> SUFFICES ASSUME ~lost PROVE FALSE
    OBVIOUS
  <2>1. /\ rxstate = "ACTIVE" /\ rxpassed = 6 + 7 * (txpassed - n - 1)
    BY DEF Opened, InStep
  <2>2. PICK j \in 1 .. txpassed - n : Holds(txbuff, j)
    BY <2>1 DEF Opened
  <2>3. PICK k \in Nat : k = txpassed - n
    BY NextFrame
  <2>4. j = k
    BY <2>2, <2>3, NoneMissed
  <2>5. Rx!Expected(txpassed - n)
    BY <2>2, <2>3, <2>4 DEF Holds, Rx!Expected, Rx!SerialNumber
  <2> QED
    BY <1>1, <2>1, <2>5
<1>5. fcs' = fcs \/ txstate = "IDLE"
  <2> SUFFICES ASSUME txstate # "IDLE" PROVE fcs' = fcs
    OBVIOUS
  <2>1. fcs = <<>>
    BY DEF Opened
  <2>2. fcs \in Seq({})
    BY <2>1
  <2> QED
    BY <1>1, <2>2, Reported
<1>6. /\ Place'
      /\ InTransit = IF txpassed = Frames[txbuff] THEN <<txbuff>> ELSE <<>>
      /\ InTransit' = IF n > 1 THEN InTransit ELSE <<>>
  <2>1. rxstate' # "ACTIVE" /\ lost'
    BY <1>1, <1>2, <1>4
  <2> QED
    BY <1>1, <1>2, <1>5, <2>1, OneLess
<1>7. InTransit' = InTransit \/ (InTransit = <<txbuff>> /\ InTransit' = <<>>)
  BY <1>6
<1>8. Implemented
  <2>1. CASE InTransit' = InTransit
    BY <1>3, <2>1, Unseen
  <2>2. CASE InTransit = <<txbuff>> /\ InTransit' = <<>>
    <3>1. InTransit # <<>> /\ InTransit' = Tail(InTransit)
      BY <2>2
    <3>2. MessageLink!Drop
      BY <1>3, <1>4, <3>1 DEF MessageLink!Drop
    <3> QED
      BY <3>2 DEF Implemented, MessageLink!Next
  <2> QED
    BY <1>7, <2>1, <2>2
<1> QED
  BY <1>6, <1>8

\* The frame at the head of the line.
LEMMA HeadNow ==
  /\ \A m \in Msgs : Frames[m] = 1 /\ bus = <<FfFrame(m)>> =>
        Head(bus).chunk = <<m, 0>> /\ UnpackPciInfo(Head(bus).head, CANDL).type = "SF"
  /\ Opening /\ bus # <<>> =>
        /\ Head(bus).chunk = <<txbuff, 0>>
        /\ UnpackPciInfo(Head(bus).head, CANDL).type = "FF"
  /\ \A n \in Nat : n > 0 /\ Opened(n) =>
        /\ Head(bus).chunk = <<txbuff, txpassed - n>>
        /\ UnpackPciInfo(Head(bus).head, CANDL).type = "CF"
<1>1. ASSUME NEW m \in Msgs, Frames[m] = 1, bus = <<FfFrame(m)>>
      PROVE  /\ Head(bus).chunk = <<m, 0>>
             /\ UnpackPciInfo(Head(bus).head, CANDL).type = "SF"
  <2>1. Head(bus) = FfFrame(m)
    BY <1>1, FirstInTransit
  <2> QED
    BY <1>1, <2>1, SingleHead
<1>2. ASSUME Opening, bus # <<>>
      PROVE  /\ Head(bus).chunk = <<txbuff, 0>>
             /\ UnpackPciInfo(Head(bus).head, CANDL).type = "FF"
  <2>1. txbuff \in Msgs /\ Frames[txbuff] # 1 /\ bus = <<FfFrame(txbuff)>>
    BY <1>2 DEF Opening
  <2>2. Head(bus) = FfFrame(txbuff)
    BY <2>1, FirstInTransit
  <2> QED
    BY <2>1, <2>2, FirstHead
<1>3. ASSUME NEW n \in Nat, n > 0, Opened(n)
      PROVE  /\ Head(bus).chunk = <<txbuff, txpassed - n>>
             /\ UnpackPciInfo(Head(bus).head, CANDL).type = "CF"
  <2>1. /\ txbuff \in Msgs /\ txpassed \in 1 .. Frames[txbuff] /\ Frames[txbuff] \in Nat
        /\ n \in 0 .. txpassed - 1 /\ bus = CfFrames(txbuff, txpassed - n, n)
    BY <1>3, FramesOf DEF Opened
  <2>2. PICK k \in Nat : k = txpassed - n
    BY <2>1
  <2>3. Head(bus) = CfFrame(txbuff, k)
    <3>1. \A x : Head(CfFrames(x, k, n)) = CfFrame(x, k)
      BY <1>3, CfFirst
    <3> QED
      BY <2>1, <2>2, <3>1
  <2> QED
    BY <2>1, <2>2, <2>3, ConseqHead
<1> QED
  BY <1>1, <1>2, <1>3

\* Where the frame comes from, and what the receiver makes of it.
LEMMA ReadCases ==
  ASSUME Place, ReadData
  PROVE  \/ Single /\ Rx!ReceiveSF(Head(bus).chunk[1])
         \/ Opening /\ (Rx!ReceiveFFOverflow(txbuff) \/ Rx!ReceiveFF(txbuff))
         \/ \E n \in Nat :
               /\ n > 0 /\ n = Len(bus) /\ Opened(n)
               /\ \/ Rx!ReceiveCFUnexpected(txbuff, txpassed - n)
                  \/ Rx!ReceiveCFLast(txbuff, txpassed - n)
                  \/ Rx!ReceiveCFBlockEnd(txbuff, txpassed - n)
                  \/ Rx!ReceiveCFInBlock(txbuff, txpassed - n)
<1> DEFINE m == Head(bus).chunk[1]
           k == Head(bus).chunk[2]
           pci == UnpackPciInfo(Head(bus).head, CANDL)
<1>1. bus # <<>>
  BY DEF ReadData
<1>2. \/ pci.type = "SF" /\ Rx!ReceiveSF(m)
      \/ pci.type = "FF" /\ (Rx!ReceiveFFOverflow(m) \/ Rx!ReceiveFF(m))
      \/ /\ pci.type = "CF"
         /\ \/ Rx!ReceiveCFUnexpected(m, k)
            \/ Rx!ReceiveCFLast(m, k)
            \/ Rx!ReceiveCFBlockEnd(m, k)
            \/ Rx!ReceiveCFInBlock(m, k)
  BY DEF ReadData
<1>3. ~Resting
  BY <1>1 DEF Resting
<1>4. CASE Single
  <2>1. PICK x \in Msgs : Frames[x] = 1 /\ bus = <<FfFrame(x)>>
    BY <1>4 DEF Single
  <2>2. pci.type = "SF"
    BY <2>1, HeadNow
  <2> QED
    BY <1>2, <1>4, <2>2
<1>5. CASE Opening
  <2>1. pci.type = "FF" /\ m = txbuff
    BY <1>1, <1>5, HeadNow
  <2> QED
    BY <1>2, <1>5, <2>1
<1>6. CASE Opened(Len(bus))
  <2>1. PICK n \in Nat : n = Len(bus) /\ Opened(n) /\ n > 0
    <3>1. PICK n \in Nat : n = Len(bus) /\ Opened(n)
      BY <1>6, PlaceNow
    <3>2. n # 0
      <4> SUFFICES ASSUME n = 0 PROVE FALSE
        OBVIOUS
      <4>1. bus = CfFrames(txbuff, txpassed - 0, 0)
        BY <3>1 DEF Opened
      <4>2. CfFrames(txbuff, txpassed - 0, 0) = <<>>
        BY DEF CfFrames
      <4> QED
        BY <1>1, <4>1, <4>2
    <3> QED
      BY <3>1, <3>2
  <2>2. pci.type = "CF" /\ m = txbuff /\ k = txpassed - n
    BY <2>1, HeadNow
  <2> QED
    BY <1>2, <2>1, <2>2
<1> QED
  BY <1>3, <1>4, <1>5, <1>6 DEF Place

LEMMA ReadPlace ==
  ASSUME LinkInv, Place, Stored, ReadData
  PROVE  Place' /\ Implemented
<1>1. Report /\ bus # <<>> /\ bus' = Tail(bus)
  BY DEF ReadData
<1> QED
  BY <1>1, ReadCases, ReadSingle, ReadOpening, ReadUnexpected, ReadLast, ReadMiddle

LEMMA ReceiverPlace ==
  ASSUME LinkInv, Place, ReceiverProcess
  PROVE  Place' /\ Implemented
<1>1. /\ Report /\ bus' = bus /\ blksize' = blksize /\ rxsent' = <<>>
      /\ rxstate = "ACTIVE" /\ rxstate' = "IDLE" /\ Cr_tim.left = 0
      /\ rxevents' = <<Rx!Event("Conf", "TIMEOUT_Cr", <<>>)>>
  BY DEF ReceiverProcess, Rx!ProcessRx, Rx!HasElapsed, Rx!Notify, Rx!Send
<1>2. UNCHANGED <<txstate, txbuff, txpassed, currblknum, segblkcount, rxstmin>>
  BY <1>1 DEF Report, txvars
<1>3. UNCHANGED <<last, lost, begun, Transmitting>>
  BY <1>1, NothingDelivered
<1>4. ASSUME Opening \/ txstate # "IDLE" PROVE fcs' = fcs
  <2>1. fcs \in {<<>>, <<Permit>>, <<Refusal>>}
    BY <1>4 DEF Place, Resting, Single, Opening, Opened
  <2> DEFINE S == {Permit, Refusal}
  <2>2. <<>> \in Seq(S) /\ <<Permit>> \in Seq(S) /\ <<Refusal>> \in Seq(S)
    OBVIOUS
  <2>3. fcs \in Seq(S)
    BY <2>1, <2>2
  <2> QED
    BY <1>1, <2>3, Reported
<1>5. lost' \/ bus = <<>> \/ ~Opened(Len(bus))
  <2> SUFFICES ASSUME ~lost, Opened(Len(bus)), bus # <<>> PROVE FALSE
    BY <1>3
  <2>1. PICK n \in Nat : n = Len(bus) /\ Opened(n)
    BY PlaceNow
  <2>2. n = 0
    BY <1>1, <2>1 DEF Opened, InStep
  <2>3. bus = CfFrames(txbuff, txpassed - 0, 0)
    BY <2>1, <2>2 DEF Opened
  <2>4. CfFrames(txbuff, txpassed - 0, 0) = <<>>
    BY DEF CfFrames
  <2> QED
    BY <2>3, <2>4
<1>6. Place' /\ InTransit' = InTransit
  <2>1. CASE lost' \/ bus = <<>>
    BY <1>1, <1>2, <1>4, <2>1, PlaceKept
  <2>2. CASE ~Opened(Len(bus))
    <3>1. \A m : FfFrame(m)' = FfFrame(m)
      BY DEF FfFrame, DataFrame
    <3>2. Resting' \/ Single' \/ Opening'
      BY <1>1, <1>2, <1>4, <2>2, <3>1 DEF Place, Resting, Single, Opening
    <3>3. InTransit' = InTransit
      BY <1>1 DEF InTransit, IsLast
    <3> QED
      BY <3>2, <3>3 DEF Place
  <2> QED
    BY <1>5, <2>1, <2>2
<1> QED
  BY <1>3, <1>6, Unseen

\* The bus loses a frame.
LEMMA LosePlace ==
  ASSUME LinkInv, Place, LoseData
  PROVE  Place' /\ Implemented
<1>1. /\ bus # <<>> /\ bus' = Tail(bus) /\ lost' = TRUE
      /\ UNCHANGED <<rxstmin, fcs, last, begun>>
  BY DEF LoseData
<1>2. UNCHANGED <<txstate, txbuff, txpassed, currblknum, segblkcount>>
  BY DEF LoseData, txvars
<1>3. UNCHANGED <<rxstate, rxsize, rxpassed, expectsn, currblkn, blksize, assembled>>
  BY DEF LoseData, rxvars
<1>4. Transmitting' = Transmitting
  BY <1>2 DEF Transmitting
<1>5. ASSUME InTransit' = InTransit \/ (InTransit # <<>> /\ InTransit' = Tail(InTransit))
      PROVE  Implemented
  <2>1. CASE InTransit' = InTransit
    <3>1. MessageLink!LoseFrame
      BY <1>1, <1>4, <2>1 DEF MessageLink!LoseFrame
    <3> QED
      BY <3>1 DEF Implemented, MessageLink!Next
  <2>2. CASE InTransit # <<>> /\ InTransit' = Tail(InTransit)
    <3>1. MessageLink!LoseMessage
      BY <1>1, <1>4, <2>2 DEF MessageLink!LoseMessage
    <3> QED
      BY <3>1 DEF Implemented, MessageLink!Next
  <2> QED
    BY <1>5, <2>1, <2>2
<1>6. ~Resting
  BY <1>1 DEF Resting
<1>7. CASE Single
  <2>1. PICK m \in Msgs : Frames[m] = 1 /\ bus = <<FfFrame(m)>>
    BY <1>7 DEF Single
  <2>2. bus' = <<>> /\ InTransit = <<m>> /\ InTransit' = <<>>
    BY <1>1, <2>1, FirstInTransit, TransitIsLast
  <2>3. InTransit # <<>> /\ InTransit' = Tail(InTransit)
    BY <2>2
  <2>4. Resting'
    BY <1>2, <1>7, <2>2 DEF Single, Resting
  <2> QED
    BY <1>5, <2>3, <2>4 DEF Place
<1>8. CASE Opening
  <2>1. txbuff \in Msgs /\ bus = <<FfFrame(txbuff)>>
    BY <1>1, <1>8 DEF Opening
  <2>2. bus' = <<>> /\ InTransit' = <<>> /\ InTransit = <<>>
    BY <1>1, <1>8, <2>1, FirstInTransit, TransitIsLast, TransitNow
  <2>3. Opening'
    BY <1>1, <1>2, <1>8, <2>2 DEF Opening
  <2> QED
    BY <1>5, <2>2, <2>3 DEF Place
<1>9. CASE Opened(Len(bus))
  <2>1. PICK n \in Nat : n = Len(bus) /\ Opened(n) /\ n > 0
    <3>1. PICK n \in Nat : n = Len(bus) /\ Opened(n)
      BY <1>9, PlaceNow
    <3>2. n # 0
      <4> SUFFICES ASSUME n = 0 PROVE FALSE
        OBVIOUS
      <4>1. bus = CfFrames(txbuff, txpassed - 0, 0)
        BY <3>1 DEF Opened
      <4>2. CfFrames(txbuff, txpassed - 0, 0) = <<>>
        BY DEF CfFrames
      <4> QED
        BY <1>1, <4>1, <4>2
    <3> QED
      BY <3>1, <3>2
  <2>2. rxstate' = "ACTIVE" =>
          \E j \in 1 .. txpassed - (n - 1) :
              Holds(txbuff, j)' /\ Behind(n - 1, j)' /\ Sound(txbuff, j, txpassed - (n - 1))'
    <3> SUFFICES ASSUME rxstate = "ACTIVE"
                 PROVE  \E j \in 1 .. txpassed - (n - 1) :
                           /\ Holds(txbuff, j)' /\ Behind(n - 1, j)'
                           /\ Sound(txbuff, j, txpassed - (n - 1))'
      BY <1>3
    <3>1. PICK j \in 1 .. txpassed - n :
             Holds(txbuff, j) /\ Behind(n, j) /\ Sound(txbuff, j, txpassed - n)
      BY <2>1 DEF Opened
    <3>2. Holds(txbuff, j)'
      BY <1>2, <1>3, <3>1 DEF Holds
    <3>3. Tx!Allowed(blksize)' = Tx!Allowed(blksize)
      BY <1>3 DEF Tx!Allowed
    <3>4. Behind(n - 1, j)'
      BY <1>1, <1>2, <1>3, <2>1, <3>1, <3>3 DEF Behind
    <3>5. j \in 1 .. txpassed - (n - 1)
      <4>1. PICK p \in Nat : p = txpassed /\ n \in 0 .. p - 1
        BY <2>1, FramesOf DEF Opened
      <4> QED
        BY <3>1, <4>1
    <3>6. Sound(txbuff, j, txpassed - (n - 1))'
      <4>1. PICK p \in Nat : p = txpassed /\ n \in 0 .. p - 1
        BY <2>1, FramesOf DEF Opened
      <4>2. j # txpassed - (n - 1)
        BY <2>1, <3>1, <4>1
      <4> QED
        BY <1>2, <1>3, <3>1, <4>2 DEF Sound
    <3> QED
      BY <3>2, <3>4, <3>5, <3>6
  <2>3. /\ Place'
        /\ InTransit = IF txpassed = Frames[txbuff] THEN <<txbuff>> ELSE <<>>
        /\ InTransit' = IF n > 1 THEN InTransit ELSE <<>>
    BY <1>1, <1>2, <1>3, <2>1, <2>2, OneLess
  <2>4. InTransit' = InTransit \/ (InTransit = <<txbuff>> /\ InTransit' = <<>>)
    BY <2>3
  <2>5. InTransit' = InTransit \/ (InTransit # <<>> /\ InTransit' = Tail(InTransit))
    <3>1. \A x : <<x>> # <<>> /\ Tail(<<x>>) = <<>>
      OBVIOUS
    <3> QED
      BY <2>4, <3>1
  <2> QED
    BY <1>5, <2>3, <2>5
<1> QED
  BY <1>6, <1>7, <1>8, <1>9 DEF Place

LEMMA LoseFlowControlPlace ==
  ASSUME Place, LoseFlowControl
  PROVE  Place' /\ Implemented
<1>1. /\ fcs # <<>> /\ fcs' = Tail(fcs) /\ lost' = TRUE
      /\ UNCHANGED <<rxstmin, bus, last, begun>>
  BY DEF LoseFlowControl
<1>2. UNCHANGED <<txstate, txbuff, txpassed, currblknum, segblkcount>>
  BY DEF LoseFlowControl, txvars
<1>3. UNCHANGED <<rxstate, rxsize, rxpassed, expectsn, currblkn, blksize, assembled>>
  BY DEF LoseFlowControl, rxvars
<1>4. Transmitting' = Transmitting
  BY <1>2 DEF Transmitting
<1>5. ~Opening
  BY <1>1 DEF Opening
<1>6. txstate # "IDLE" => fcs' = <<>>
  <2> SUFFICES ASSUME txstate # "IDLE" PROVE fcs' = <<>>
    OBVIOUS
  <2>1. fcs = <<Permit>> \/ fcs = <<Refusal>>
    BY <1>1, <1>5 DEF Place, Resting, Single, Opened
  <2> QED
    BY <1>1, <2>1
<1>7. Place' /\ InTransit' = InTransit
  BY <1>1, <1>2, <1>3, <1>5, <1>6, PlaceKept
<1>8. MessageLink!LoseFrame
  BY <1>1, <1>4, <1>7 DEF MessageLink!LoseFrame
<1> QED
  BY <1>7, <1>8 DEF Implemented, MessageLink!Next

\* Time passes, or nothing happens.
LEMMA QuietPlace ==
  ASSUME Place, Tick \/ UNCHANGED vars
  PROVE  Place' /\ Implemented
<1>1. UNCHANGED <<rxstmin, bus, fcs, last, lost, begun>>
  BY DEF Tick, vars
<1>2. UNCHANGED <<txstate, txbuff, txpassed, currblknum, segblkcount>>
  BY DEF Tick, Tx!ProcessTick, Tx!txds, Tx!buffers, vars, txvars
<1>3. UNCHANGED <<rxstate, rxsize, rxpassed, expectsn, currblkn, blksize, assembled>>
  BY DEF Tick, Rx!ProcessTick, Rx!rxds, vars, rxvars
<1>4. bus = <<>> \/ Cr_tim'.left = Cr_tim.left
  BY DEF Tick, Settled, Quiet, vars, rxvars
<1>5. Transmitting' = Transmitting
  BY <1>2 DEF Transmitting
<1>6. Place' /\ InTransit' = InTransit
  BY <1>1, <1>2, <1>3, <1>4, PlaceKept
<1> QED
  BY <1>1, <1>5, <1>6, Unseen

-----------------------------------------------------------------------------
(* The buffer of the receiver.                                             *)

\* The first frames on the bus.
LEMMA NoneAnnounced ==
  /\ ~AnnouncesIn(<<>>)
  /\ \A m \in Msgs : AnnouncesIn(<<FfFrame(m)>>) <=> m \notin Short \cup TooLong
  /\ \A m \in Msgs, k \in Nat, n \in Nat : k > 0 => ~AnnouncesIn(CfFrames(m, k, n))
<1>1. ~AnnouncesIn(<<>>)
  BY DEF AnnouncesIn
<1>2. ASSUME NEW m \in Msgs
      PROVE  AnnouncesIn(<<FfFrame(m)>>) <=> m \notin Short \cup TooLong
  <2> DEFINE f == FfFrame(m)
  <2>1. f.chunk = <<m, 0>>
    BY DEF FfFrame, DataFrame, Tx!FF, Tx!Chunk
  <2> HIDE DEF f
  <2>2. f.chunk[2] = 0 /\ f.chunk[1] = m
    BY <2>1
  <2>3. DOMAIN <<f>> = {1} /\ <<f>>[1] = f
    OBVIOUS
  <2> QED
    BY <2>2, <2>3 DEF AnnouncesIn, f
<1>3. ASSUME NEW m \in Msgs, NEW k \in Nat, NEW n \in Nat, k > 0
      PROVE  ~AnnouncesIn(CfFrames(m, k, n))
  <2>1. DOMAIN CfFrames(m, k, n) = 1 .. n
    BY DEF CfFrames
  <2>2. ASSUME NEW i \in 1 .. n PROVE CfFrames(m, k, n)[i].chunk[2] # 0
    <3>1. k + i - 1 \in Nat /\ k + i - 1 # 0
      BY <1>3
    <3>2. CfFrame(m, k + i - 1).chunk = <<m, k + i - 1>>
      BY <3>1, ConseqHead
    <3> QED
      BY <3>1, <3>2 DEF CfFrames
  <2> QED
    BY <2>1, <2>2 DEF AnnouncesIn
<1> QED
  BY <1>1, <1>2, <1>3

LEMMA NoneMore ==
  ASSUME NEW S, NEW q \in Seq(S), q # <<>>, AnnouncesIn(Tail(q))
  PROVE  AnnouncesIn(q)
<1>1. PICK i \in DOMAIN Tail(q) :
         Tail(q)[i].chunk[2] = 0 /\ Tail(q)[i].chunk[1] \notin Short \cup TooLong
  BY DEF AnnouncesIn
<1>2. i + 1 \in DOMAIN q /\ Tail(q)[i] = q[i + 1]
  BY HeadTailProperties
<1> QED
  BY <1>1, <1>2 DEF AnnouncesIn

\* No first frame follows the consecutive frames of a message.
LEMMA OpenedSilent ==
  ASSUME NEW n \in Nat, Opened(n)
  PROVE  ~Announces
<1>1. /\ txbuff \in Msgs /\ Frames[txbuff] \in Nat /\ txpassed \in 1 .. Frames[txbuff]
      /\ n \in 0 .. txpassed - 1 /\ bus = CfFrames(txbuff, txpassed - n, n)
  BY FramesOf DEF Opened
<1>2. PICK k \in Nat : k = txpassed - n /\ k > 0
  BY <1>1
<1> QED
  BY <1>1, <1>2, NoneAnnounced DEF Announces

LEMMA StoredKept ==
  ASSUME Stored, begun' = begun, Announces' => Announces, rxpassed' \in {rxpassed, 0},
         \/ rxstate' = "IDLE"
         \/ UNCHANGED <<rxstate, rxsize, rxpassed, rxbuff, assembled>>
  PROVE  Stored'
<1>1. /\ begun' \in Nat
      /\ begun' = 0 => rxpassed' = 0 /\ ~Announces'
      /\ begun' = 1 /\ Announces' => rxpassed' = 0
  BY DEF Stored
<1>2. rxstate' = "ACTIVE" =>
         /\ begun' # 0 /\ rxsize' <= RXLEN
         /\ \A i \in 1 .. rxpassed' : i > 6 \/ begun' = 1 => rxbuff'[i - 1] = assembled'[i]
  BY DEF Stored
<1> QED
  BY <1>1, <1>2 DEF Stored

\* A new request counts the messages whose first frame the receiver will accept.
LEMMA AskStored ==
  ASSUME Stored, NEW m \in Msgs, Ask(m)
  PROVE  Stored'
<1>1. /\ bus = <<>> /\ Transmit /\ begun \in Nat
      /\ begun' = IF m \in Short \cup TooLong THEN begun ELSE begun + 1
  BY DEF Ask, Quiet, Stored
<1>2. UNCHANGED <<rxstate, rxsize, rxpassed, rxbuff, assembled>>
  BY <1>1 DEF Transmit, rxvars
<1>3. bus' = <<FfFrame(m)>>
  <2>1. bus \in Seq({}) /\ <<>> \o <<FfFrame(m)>> = <<FfFrame(m)>>
    BY <1>1
  <2>2. wire' = <<Tx!SF(m)>> \/ wire' = <<Tx!FF(m)>>
    BY DEF Ask, Tx!RequestSF, Tx!RequestFF, Tx!Put
  <2>3. DataFrame(Tx!SF(m)) = FfFrame(m) /\ DataFrame(Tx!FF(m)) = FfFrame(m)
    BY DEF FfFrame, DataFrame, Tx!SF, Tx!FF
  <2> QED
    BY <1>1, <2>1, <2>2, <2>3, Transmitted
<1>4. Announces' <=> m \notin Short \cup TooLong
  BY <1>3, NoneAnnounced DEF Announces, AnnouncesIn
<1>5. CASE m \in Short \cup TooLong
  BY <1>1, <1>2, <1>4, <1>5, StoredKept
<1>6. CASE m \notin Short \cup TooLong
  <2>1. begun' \in Nat /\ begun' # 0 /\ (begun' = 1 => begun = 0)
    BY <1>1, <1>6
  <2>2. begun' = 1 => rxpassed' = 0 /\ rxstate' # "ACTIVE"
    BY <1>2, <2>1 DEF Stored
  <2>3. rxstate' = "ACTIVE" =>
           /\ rxsize' <= RXLEN
           /\ \A i \in 1 .. rxpassed' : i > 6 => rxbuff'[i - 1] = assembled'[i]
    BY <1>2 DEF Stored
  <2> QED
    BY <2>1, <2>2, <2>3 DEF Stored
<1> QED
  BY <1>5, <1>6

\* The first frame of a message is put where the reception before it ended.
LEMMA FirstStored ==
  ASSUME Stored, Opening, bus # <<>>, bus' = Tail(bus), begun' = begun,
         Rx!ReceiveFF(txbuff)
  PROVE  Stored'
<1>1. txbuff \in Msgs /\ Frames[txbuff] # 1 /\ bus = <<FfFrame(txbuff)>>
  BY DEF Opening
<1>2. /\ rxsize' = Size[txbuff] /\ Size[txbuff] <= RXLEN /\ rxpassed' = 6
      /\ assembled' = Rx!Part(txbuff, 0, 6)
      /\ rxbuff' = [x \in Rx!Memory |->
                      IF rxpassed <= x /\ x < rxpassed + 6
                      THEN Rx!Part(txbuff, 0, 6)[x - rxpassed + 1] ELSE rxbuff[x]]
  BY Constants DEF Rx!ReceiveFF, Rx!Copy
<1>3. txbuff \notin Short \cup TooLong
  <2>1. Size[txbuff] \in Nat
    BY <1>1, FramesOf
  <2> QED
    BY <1>1, <1>2, <2>1, BuffersAssumption DEF Short, TooLong
<1>4. Announces
  BY <1>1, <1>3, NoneAnnounced DEF Announces
<1>5. begun \in Nat /\ begun # 0 /\ (begun = 1 => rxpassed = 0)
  BY <1>4 DEF Stored
<1>6. ~Announces'
  <2>1. bus' = <<>>
    BY <1>1, FirstInTransit
  <2> QED
    BY <2>1, NoneAnnounced DEF Announces, AnnouncesIn
<1>7. ASSUME NEW i \in 1 .. rxpassed', i > 6 \/ begun' = 1
      PROVE  rxbuff'[i - 1] = assembled'[i]
  <2>1. i \in 1 .. 6 /\ rxpassed = 0
    BY <1>2, <1>5, <1>7
  <2>2. i - 1 \in Rx!Memory
    <3>1. Rx!Memory = 0 .. RXLEN + 6 - 1
      BY Constants DEF Rx!Memory
    <3> QED
      BY <2>1, <3>1, BuffersAssumption
  <2>3. 0 <= i - 1 /\ i - 1 < 0 + 6 /\ (i - 1) - 0 + 1 = i
    BY <2>1
  <2>4. rxbuff'[i - 1] = Rx!Part(txbuff, 0, 6)[i]
    BY <1>2, <2>1, <2>2, <2>3
  <2> QED
    BY <1>2, <2>4
<1> QED
  BY <1>2, <1>5, <1>6, <1>7 DEF Stored

\* A consecutive frame that does not end the message.
LEMMA NextStored ==
  ASSUME Stored, begun' = begun, ~Announces', NEW n \in Nat, Opened(n),
         Rx!AcceptCF(txbuff, txpassed - n)
  PROVE  Stored'
<1>1. /\ rxstate = "ACTIVE" /\ rxsize' = rxsize /\ txbuff \in Msgs
  BY DEF Rx!AcceptCF, Opened
<1>2. begun \in Nat /\ begun # 0 /\ rxsize <= RXLEN
  BY <1>1 DEF Stored
<1>3. PICK k \in Nat : k = txpassed - n
  BY NextFrame
<1>4. PICK j \in 1 .. k : Holds(txbuff, j)
  BY <1>1, <1>3 DEF Opened
<1>5. PICK a \in Nat, t \in Nat :
         /\ rxpassed = a /\ rxsize = t /\ a < t /\ t <= RXLEN
         /\ assembled \in Seq(Rx!Bytes) /\ Len(assembled) = a
  <2>1. Size[txbuff] \in Nat
    BY <1>1, FramesOf
  <2>2. 6 + 7 * (j - 1) \in Nat
    BY <1>4
  <2> QED
    BY <1>2, <1>4, <2>1, <2>2 DEF Holds
<1>6. ASSUME NEW i \in 1 .. rxpassed', i > 6 \/ begun' = 1
      PROVE  rxbuff'[i - 1] = assembled'[i]
  <2>1. i <= a => rxbuff[i - 1] = assembled[i]
    BY <1>1, <1>5, <1>6 DEF Stored
  <2>2. k > 0
    BY <1>4
  <2> QED
    BY <1>1, <1>3, <1>5, <2>1, <2>2, CopiedBehind
<1> QED
  BY <1>1, <1>2, <1>6 DEF Stored

LEMMA ReadStored ==
  ASSUME Place, Stored, ReadData
  PROVE  Stored'
<1>1. /\ begun' = begun /\ bus # <<>> /\ bus' = Tail(bus)
  BY DEF ReadData, Report
<1>2. Announces' => Announces
  <2>1. PICK S : bus \in Seq(S)
    BY PlaceNow
  <2>2. AnnouncesIn(Tail(bus)) => AnnouncesIn(bus)
    BY <1>1, <2>1, NoneMore
  <2> QED
    BY <1>1, <2>2 DEF Announces, AnnouncesIn
<1>3. CASE Rx!ReceiveSF(Head(bus).chunk[1]) \/ Rx!ReceiveFFOverflow(txbuff)
  <2>1. rxstate' = "IDLE" /\ rxpassed' = rxpassed
    BY <1>3 DEF Rx!ReceiveSF, Rx!ReceiveFFOverflow
  <2> QED
    BY <1>1, <1>2, <2>1, StoredKept
<1>4. CASE Opening /\ Rx!ReceiveFF(txbuff)
  BY <1>1, <1>4, FirstStored
<1>5. ASSUME NEW n \in Nat, Opened(n),
             \/ Rx!ReceiveCFUnexpected(txbuff, txpassed - n)
             \/ Rx!ReceiveCFLast(txbuff, txpassed - n)
             \/ Rx!ReceiveCFBlockEnd(txbuff, txpassed - n)
             \/ Rx!ReceiveCFInBlock(txbuff, txpassed - n)
      PROVE  Stored'
  <2>1. ~Announces'
    BY <1>2, <1>5, OpenedSilent
  <2>2. CASE Rx!ReceiveCFUnexpected(txbuff, txpassed - n)
    <3>1. rxstate' = "IDLE" /\ rxpassed' = rxpassed
      BY <2>2 DEF Rx!ReceiveCFUnexpected
    <3> QED
      BY <1>1, <1>2, <3>1, StoredKept
  <2>3. CASE \/ Rx!ReceiveCFLast(txbuff, txpassed - n)
             \/ Rx!ReceiveCFBlockEnd(txbuff, txpassed - n)
             \/ Rx!ReceiveCFInBlock(txbuff, txpassed - n)
    <3>1. Rx!AcceptCF(txbuff, txpassed - n)
      BY <2>3 DEF Rx!ReceiveCFLast, Rx!ReceiveCFBlockEnd, Rx!ReceiveCFInBlock
    <3> QED
      BY <1>1, <1>5, <2>1, <3>1, NextStored
  <2> QED
    BY <1>5, <2>2, <2>3
<1> QED
  BY <1>3, <1>4, <1>5, ReadCases

LEMMA StoredStep ==
  ASSUME LinkInv, Place, Stored, [Next]_vars
  PROVE  Stored'
<1>1. CASE Asks
  BY <1>1, AskStored DEF Asks
<1>2. CASE SenderProcess
  <2>1. Transmit /\ begun' = begun /\ Sending
    BY <1>2 DEF SenderProcess, LinkInv
  <2>2. UNCHANGED <<rxstate, rxsize, rxpassed, rxbuff, assembled>>
    BY <2>1 DEF Transmit, rxvars
  <2>3. Announces' => Announces
    <3>1. CASE Tx!SentCF
      <4>1. txstate = "MF_DT"
        BY <2>1, <3>1, SentNext
      <4>2. PICK n \in Nat : Opened(n)
        BY <4>1, PlaceNow
      <4>3. /\ bus' = CfFrames(txbuff, txpassed - n, n + 1) /\ n + 1 \in Nat
            /\ txpassed \in Nat /\ n \in 0 .. txpassed - 1
        BY <2>1, <3>1, <4>2, OneMoreSent
      <4>4. PICK k \in Nat : k = txpassed - n /\ k > 0
        BY <4>3
      <4>5. txbuff \in Msgs
        BY <4>2 DEF Opened
      <4>6. ~AnnouncesIn(bus')
        BY <4>3, <4>4, <4>5, NoneAnnounced
      <4> QED
        BY <4>6 DEF Announces, AnnouncesIn
    <3>2. CASE wire' = <<>>
      <4>1. bus' = bus
        BY <2>1, <3>2, PlaceNow, Transmitted
      <4> QED
        BY <4>1 DEF Announces, AnnouncesIn
    <3>3. Tx!SentCF \/ wire' = <<>>
      BY <1>2 DEF SenderProcess, Tx!ProcessTx, Tx!SendCF, Tx!TimeoutBs, Tx!PauseEnds,
         Tx!SentLast, Tx!SentBlockEnd, Tx!SentThenPause, Tx!SentThenNext, Tx!RetryLater,
         Tx!TimeoutAs, Tx!NotSentCF, Tx!Silent, Tx!Put
    <3> QED
      BY <3>1, <3>2, <3>3
  <2> QED
    BY <2>1, <2>2, <2>3, StoredKept
<1>3. CASE ReadFlowControl
  <2>1. Transmit /\ begun' = begun
    BY <1>3 DEF ReadFlowControl
  <2>2. UNCHANGED <<rxstate, rxsize, rxpassed, rxbuff, assembled>>
    BY <2>1 DEF Transmit, rxvars
  <2>3. wire' = <<>>
    BY <1>3 DEF ReadFlowControl, Tx!FlowControlUnexpected, Tx!FlowControlCTS,
       Tx!FlowControlStop, Tx!Silent, Tx!Put
  <2>4. bus' = bus
    BY <2>1, <2>3, PlaceNow, Transmitted
  <2>5. Announces' => Announces
    BY <2>4 DEF Announces, AnnouncesIn
  <2> QED
    BY <2>1, <2>2, <2>5, StoredKept
<1>4. CASE ReadData
  BY <1>4, ReadStored
<1>5. CASE ReceiverProcess
  <2>1. bus' = bus /\ begun' = begun /\ rxstate' = "IDLE" /\ rxpassed' = 0
    BY <1>5 DEF ReceiverProcess, Report, Rx!ProcessRx
  <2>2. Announces' => Announces
    BY <2>1 DEF Announces, AnnouncesIn
  <2> QED
    BY <2>1, <2>2, StoredKept
<1>6. CASE LoseData
  <2>1. /\ bus # <<>> /\ bus' = Tail(bus) /\ begun' = begun
        /\ UNCHANGED <<rxstate, rxsize, rxpassed, rxbuff, assembled>>
    BY <1>6 DEF LoseData, rxvars
  <2>2. Announces' => Announces
    <3>1. PICK S : bus \in Seq(S)
      BY PlaceNow
    <3>2. AnnouncesIn(Tail(bus)) => AnnouncesIn(bus)
      BY <2>1, <3>1, NoneMore
    <3> QED
      BY <2>1, <3>2 DEF Announces, AnnouncesIn
  <2> QED
    BY <2>1, <2>2, StoredKept
<1>7. CASE LoseFlowControl \/ Tick \/ UNCHANGED vars
  <2>1. /\ bus' = bus /\ begun' = begun
        /\ UNCHANGED <<rxstate, rxsize, rxpassed, rxbuff, assembled>>
    BY <1>7 DEF LoseFlowControl, Tick, Rx!ProcessTick, Rx!rxds, vars, rxvars
  <2>2. Announces' => Announces
    BY <2>1 DEF Announces, AnnouncesIn
  <2> QED
    BY <2>1, <2>2, StoredKept
<1> QED
  BY <1>1, <1>2, <1>3, <1>4, <1>5, <1>6, <1>7 DEF Next

LEMMA WireStep ==
  ASSUME Timely, LinkInv, WireInv, [Next]_vars
  PROVE  WireInv' /\ Implemented
<1>1. Place /\ Stored /\ Waits
  BY DEF WireInv
<1>2. Waits' /\ Stored'
  BY <1>1, WaitsStep, StoredStep
<1>3. Place' /\ Implemented
  <2>1. CASE Asks
    BY <1>1, <2>1, AskPlace DEF Asks
  <2>2. CASE SenderProcess
    BY <1>1, <2>2, SenderPlace
  <2>3. CASE ReadFlowControl
    BY <1>1, <2>3, FlowControlPlace
  <2>4. CASE ReadData
    BY <1>1, <2>4, ReadPlace
  <2>5. CASE ReceiverProcess
    BY <1>1, <2>5, ReceiverPlace
  <2>6. CASE LoseData
    BY <1>1, <2>6, LosePlace
  <2>7. CASE LoseFlowControl
    BY <1>1, <2>7, LoseFlowControlPlace
  <2>8. CASE Tick \/ UNCHANGED vars
    BY <1>1, <2>8, QuietPlace
  <2> QED
    BY <2>1, <2>2, <2>3, <2>4, <2>5, <2>6, <2>7, <2>8 DEF Next
<1> QED
  BY <1>2, <1>3 DEF WireInv

LEMMA WireInit ==
  ASSUME Init
  PROVE  WireInv /\ MessageLink!Init
<1>1. /\ txstate = "IDLE" /\ rxstate = "IDLE" /\ bus = <<>>
      /\ last = <<NoMsg, "whole", 0>> /\ lost = FALSE /\ begun = 0 /\ rxpassed = 0
  BY DEF Init, Tx!Init, Rx!Init, Nothing
<1>2. PICK p \in BsPeriods : N_Bs_tim = Tx!NewTimer(p, FALSE, FALSE)
  BY DEF Init, Tx!Init
<1>3. N_Bs_tim \in Tx!TimerType(BsPeriods)
  BY <1>2 DEF Tx!NewTimer, Tx!TimerType
<1>4. WireInv
  <2>1. ~Announces
    BY <1>1, NoneAnnounced DEF Announces
  <2> QED
    BY <1>1, <1>3, <2>1 DEF WireInv, Place, Resting, Stored, Waits
<1>5. Transmitting = NoMsg /\ InTransit = <<>>
  BY <1>1 DEF Transmitting, InTransit
<1> QED
  BY <1>1, <1>4, <1>5 DEF MessageLink!Init, MessageLink!Nothing

\* Whatever is lost, everything on the line belongs to one message, in the order of its
\* bytes; while the receiver puts a message together it is this one, it never accepted
\* more frames than were sent, and what it holds is the beginning if it missed none or
\* the serial numbers are unambiguous; its buffer holds these bytes but for the part of
\* the first frame, and this too in the first of all receptions; and what the sender
\* waits for never elapses as long as nothing is lost (docan-sender.cpp:22-187,
\* docan-receiver.cpp:50-98).
THEOREM WireInvariant == ASSUME Timely PROVE Spec => []WireInv
<1>1. Init => WireInv
  BY WireInit
<1>2. LinkInv /\ WireInv /\ [Next]_vars => WireInv'
  BY WireStep
<1>3. Spec => []LinkInv
  BY LinkInvariant
<1> QED
  BY <1>1, <1>2, <1>3, PTL DEF Spec

\* Two nodes and a bus that loses frames implement the channel MessageLink: messages are
\* delivered in order and at most once, with their length and the bytes behind the part
\* of the first frame, and whole if they are a single frame or the first message of
\* several frames; one is missing or given up only when one of its frames was lost or it
\* is too long for the peer (docan-sender.cpp:8-203, docan-receiver.cpp:7-125,
\* pci-helper.cpp:4-174).
THEOREM LinkImplementsMessageLink ==
  ASSUME Timely PROVE Spec => ImplementsMessageLink
<1>1. Init => MessageLink!Init
  BY WireInit
<1>2. LinkInv /\ WireInv /\ [Next]_vars => [MessageLink!Next]_MessageLink!vars
  BY WireStep DEF Implemented
<1>3. Spec => []LinkInv
  BY LinkInvariant
<1>4. Spec => []WireInv
  BY WireInvariant
<1> QED
  BY <1>1, <1>2, <1>3, <1>4, PTL DEF Spec, ImplementsMessageLink, MessageLink!Spec

=============================================================================
