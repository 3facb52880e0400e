------------------------ MODULE DoCanReceiver_proofs ------------------------
(***************************************************************************)
(* Proofs about DoCanReceiver for all message lengths, buffer sizes, block *)
(* sizes, frame lengths and serial number ranges.  RxInv is inductive; the *)
(* safety invariants and the delivery property follow from it.  OrderInv   *)
(* adds that the frame expected next follows from the number accepted.     *)
(***************************************************************************)
EXTENDS DoCanReceiver, SequenceTheorems, TLAPS

USE SizeAssumption, CandlAssumption, SnmodAssumption, RxlenAssumption, ConfigAssumption

\* A first frame and a consecutive frame carry at least one byte, and the buffer
\* lies within the memory a copy can reach.
LEMMA Lengths ==
  /\ FFLEN \in Nat /\ FFLEN > 0 /\ CFLEN \in Nat /\ CFLEN > FFLEN
  /\ \A a \in 0 .. RXLEN - 1 : a \in Memory
  BY DEF FFLEN, CFLEN, Memory

\* The n bytes of a message are a sequence of n bytes.
LEMMA PartIsBytes ==
  ASSUME NEW m \in Msgs, NEW from \in Nat, NEW n \in Nat
  PROVE  /\ Part(m, from, n) \in Seq(Bytes)
         /\ Len(Part(m, from, n)) = n
         /\ \A i \in 1 .. n : Part(m, from, n)[i] = Byte(m, from + i)
<1>1. \A i \in 1 .. n : Byte(m, from + i) \in Bytes
  BY DEF Byte, Bytes
<1>2. Part(m, from, n) \in [1 .. n -> Bytes]
  BY <1>1 DEF Part
<1>3. Part(m, from, n) \in Seq(Bytes)
  BY <1>2, SeqDef
<1>4. Len(Part(m, from, n)) = n
  <2>1. DOMAIN Part(m, from, n) = 1 .. n
    BY DEF Part
  <2>2. /\ DOMAIN Part(m, from, n) = 1 .. Len(Part(m, from, n))
        /\ Len(Part(m, from, n)) \in Nat
    BY <1>3, LenProperties
  <2> QED
    BY <2>1, <2>2
<1> QED
  BY <1>3, <1>4 DEF Part

LEMMA SizeIsNat == ASSUME NEW m \in Msgs PROVE Size[m] \in Nat /\ Size[m] > 0
  OBVIOUS

-----------------------------------------------------------------------------
(* What the calls of a step leave.                                         *)

LEMMA NotifyNone ==
  ASSUME TypeOK, Notify(<<>>)
  PROVE  events' \in Seq(Events) /\ open' = open
  BY DEF Notify

\* Sequences of one and two elements.
LEMMA ShortSeqs ==
  ASSUME NEW S, NEW x \in S, NEW y \in S
  PROVE  /\ <<x>> \in Seq(S) /\ Len(<<x>>) = 1 /\ <<x>>[1] = x
         /\ <<x, y>> \in Seq(S) /\ Len(<<x, y>>) = 2 /\ <<x, y>>[2] = y
  OBVIOUS

LEMMA NotifyOne ==
  ASSUME NEW e \in Events, Notify(<<e>>)
  PROVE  events' \in Seq(Events) /\ (open' <=> e.ev = "DataFF") /\ open' \in BOOLEAN
<1>1. <<e>> # <<>>
  BY ShortSeqs
<1>2. events' = <<e>> /\ open' = (<<e>>[Len(<<e>>)].ev = "DataFF")
  BY <1>1 DEF Notify
<1>3. Len(<<e>>) = 1 /\ <<e>>[1] = e /\ <<e>> \in Seq(Events)
  BY ShortSeqs
<1> QED
  BY <1>2, <1>3

LEMMA UnexpPduIsEvent == UnexpPdu \in Events /\ UnexpPdu.ev = "Data"
  BY DEF UnexpPdu, Event, Events

LEMMA EventIsEvent ==
  ASSUME NEW ev \in {"Data", "DataFF", "Conf"},
         NEW res \in {"OK_r", "UNEXP_PDU", "TIMEOUT_Cr"},
         NEW p \in Seq(Bytes \cup {NoByte})
  PROVE  Event(ev, res, p) \in Events /\ Event(ev, res, p).ev = ev
  BY DEF Event, Events

LEMMA NotifyInterrupted ==
  ASSUME NEW e \in Events, Notify(Append(Interrupted, e))
  PROVE  events' \in Seq(Events) /\ (open' <=> e.ev = "DataFF") /\ open' \in BOOLEAN
<1> DEFINE evs == Append(Interrupted, e)
<1>1. Interrupted \in Seq(Events)
  BY UnexpPduIsEvent, ShortSeqs, EmptySeq DEF Interrupted
<1>2. evs \in Seq(Events) /\ Len(evs) = Len(Interrupted) + 1 /\ evs[Len(Interrupted) + 1] = e
  BY <1>1, AppendProperties
<1>3. evs # <<>>
  BY <1>1, <1>2, LenProperties, EmptySeq
<1>4. events' = evs /\ open' = (evs[Len(evs)].ev = "DataFF")
  BY <1>3 DEF Notify
<1> QED
  BY <1>2, <1>4

LEMMA NotifyDropped ==
  ASSUME RxInv, Notify(Interrupted)
  PROVE  events' \in Seq(Events) /\ open' = FALSE
<1>1. CASE state = "ACTIVE"
  <2>1. Notify(<<UnexpPdu>>)
    BY <1>1 DEF Interrupted
  <2> QED
    BY <2>1, UnexpPduIsEvent, NotifyOne
<1>2. CASE state # "ACTIVE"
  <2>1. Notify(<<>>)
    BY <1>2 DEF Interrupted
  <2>2. open = FALSE
    BY <1>2 DEF RxInv, OpenIffActive, TypeOK
  <2> QED
    BY <2>1, <2>2 DEF Notify
<1> QED
  BY <1>1, <1>2

LEMMA SendNone == Send(<<>>) => sent' \in Seq(FlowControls)
  BY DEF Send

LEMMA SendOne ==
  ASSUME NEW fs \in {"CTS", "OVERFLOW"}, NEW bs \in Nat, Send(<<FlowControl(fs, bs)>>)
  PROVE  sent' \in Seq(FlowControls)
  BY DEF Send, FlowControl, FlowControls

\* The timer operations keep the timer's type.
LEMMA CrTimer ==
  ASSUME NEW t \in TimerType(CrPeriods), NEW p \in CrPeriods
  PROVE  /\ RestartTimer(t) \in TimerType(CrPeriods) /\ RestartTimer(t).active
         /\ StartTimer(t, p) \in TimerType(CrPeriods)
         /\ StopTimer(t) \in TimerType(CrPeriods)
         /\ Polled(t) \in TimerType(CrPeriods)
         /\ Ticked(t) \in TimerType(CrPeriods) /\ Ticked(t).active = t.active
<1>1. t.period \in CrPeriods /\ t.period \in Nat /\ t.left \in Nat
      /\ t.active \in BOOLEAN /\ t.endless \in BOOLEAN
  BY DEF TimerType
<1>2. RestartTimer(t) \in TimerType(CrPeriods) /\ RestartTimer(t).active
  BY <1>1 DEF RestartTimer, StartTimer, TimerType
<1>3. StartTimer(t, p) \in TimerType(CrPeriods)
  BY <1>1 DEF StartTimer, TimerType
<1>4. StopTimer(t) \in TimerType(CrPeriods)
  BY <1>1 DEF StopTimer, TimerType
<1>5. Polled(t) \in TimerType(CrPeriods)
  BY <1>1 DEF Polled, HasElapsed, TimerType
<1>6. Ticked(t) \in TimerType(CrPeriods) /\ Ticked(t).active = t.active
  <2>1. CASE t.left > 0
    <3>1. Ticked(t) = [t EXCEPT !.left = t.left - 1]
      BY <2>1 DEF Ticked
    <3>2. t.left - 1 \in Nat
      BY <1>1, <2>1
    <3> QED
      BY <3>1, <3>2 DEF TimerType
  <2>2. CASE ~(t.left > 0)
    BY <2>2 DEF Ticked
  <2> QED
    BY <2>1, <2>2
<1> QED
  BY <1>2, <1>3, <1>4, <1>5, <1>6

\* A copy keeps the memory well typed.
LEMMA CopyType ==
  ASSUME rxbuff \in [Memory -> Bytes \cup {NoByte}],
         NEW offset \in Nat, NEW n \in Nat, NEW data \in Seq(Bytes), n <= Len(data),
         Copy(offset, data, n)
  PROVE  rxbuff' \in [Memory -> Bytes \cup {NoByte}]
<1>1. \A a \in Memory : offset <= a /\ a < offset + n => data[a - offset + 1] \in Bytes
  <2> SUFFICES ASSUME NEW a \in Memory, offset <= a, a < offset + n
               PROVE  data[a - offset + 1] \in Bytes
    OBVIOUS
  <2>1. a - offset + 1 \in 1 .. Len(data)
    BY LenProperties DEF Memory
  <2> QED
    BY <2>1, ElementOfSeq
<1> QED
  BY <1>1 DEF Copy

-----------------------------------------------------------------------------
(* The initial states, and one lemma per group of actions.                 *)

LEMMA InitInv == Init => RxInv
<1> SUFFICES ASSUME Init PROVE RxInv
  OBVIOUS
<1>1. Cr_tim \in TimerType(CrPeriods)
  BY DEF Init, NewTimer, TimerType
<1>2. TypeOK
  <2>1. rxbuff \in [Memory -> Bytes \cup {NoByte}]
    BY DEF Init
  <2>2. events \in Seq(Events) /\ sent \in Seq(FlowControls) /\ assembled \in Seq(Bytes)
    BY EmptySeq DEF Init
  <2>3. /\ state = "IDLE" /\ rxsize = 0 /\ passed = 0 /\ expectsn = 0 /\ currblkn = 0
        /\ blksize \in BlkSizes /\ credit = 0
    BY DEF Init
  <2>4. open = FALSE
    BY DEF Init
  <2>5. open \in BOOLEAN
    BY <2>4
  <2> QED
    BY <1>1, <2>1, <2>2, <2>3, <2>5 DEF TypeOK
<1> QED
  BY <1>2 DEF Init, RxInv, OpenIffActive, CountersAgree, BufferHoldsAssembled

\* A step that leaves the receiver idle keeps the invariant if it is well typed
\* and closes what the client thinks is open.
LEMMA IdleInv ==
  ASSUME TypeOK', state' = "IDLE", ~open'
  PROVE  RxInv'
  BY DEF RxInv, OpenIffActive, CountersAgree, BufferHoldsAssembled

\* First frame beyond the buffer's capacity (docan-receiver.cpp:40-44).
LEMMA OverflowInv ==
  ASSUME RxInv, NEW m \in Msgs, ReceiveFFOverflow(m)
  PROVE  RxInv'
<1>1. events' \in Seq(Events) /\ open' = FALSE /\ open' \in BOOLEAN
  BY NotifyDropped DEF ReceiveFFOverflow
<1>2. sent' \in Seq(FlowControls)
  BY SendOne DEF ReceiveFFOverflow
<1>3. /\ state' = "IDLE" /\ credit' \in Int
      /\ UNCHANGED <<rxsize, passed, expectsn, currblkn, blksize, rxbuff, Cr_tim,
                     assembled>>
  BY DEF ReceiveFFOverflow
<1>4. TypeOK'
  BY <1>1, <1>2, <1>3 DEF RxInv, TypeOK
<1> QED
  BY <1>1, <1>3, <1>4, IdleInv

\* First frame of a message that fits (docan-receiver.cpp:45-60).
LEMMA FirstFrameInv ==
  ASSUME RxInv, NEW m \in Msgs, ReceiveFF(m)
  PROVE  RxInv'
<1> DEFINE e == Event("DataFF", "OK_r", <<>>)
<1>1. e \in Events /\ e.ev = "DataFF"
  BY EventIsEvent, EmptySeq
<1>2. events' \in Seq(Events) /\ open' = TRUE
  BY <1>1, NotifyInterrupted DEF ReceiveFF
<1>3. blksize \in Nat /\ blksize \in BlkSizes
  BY DEF RxInv, TypeOK
<1>4. sent' \in Seq(FlowControls)
  BY <1>3, SendOne DEF ReceiveFF
<1>5. /\ Part(m, 0, FFLEN) \in Seq(Bytes)
      /\ Len(Part(m, 0, FFLEN)) = FFLEN
  BY PartIsBytes, Lengths
<1>6. rxbuff' \in [Memory -> Bytes \cup {NoByte}]
  BY <1>5, CopyType, Lengths DEF ReceiveFF, RxInv, TypeOK
<1>7. Cr_tim' \in TimerType(CrPeriods) /\ Cr_tim'.active
  <2>1. PICK p \in CrPeriods : TRUE
    OBVIOUS
  <2> QED
    BY <2>1, CrTimer DEF ReceiveFF, ArmCr, RxInv, TypeOK
<1>8. /\ state' = "ACTIVE" /\ rxsize' = Size[m] /\ passed' = FFLEN /\ expectsn' = 1
      /\ currblkn' = 0 /\ blksize' = blksize /\ credit' = blksize
      /\ assembled' = Part(m, 0, FFLEN)
  BY DEF ReceiveFF
<1>9. TypeOK'
  BY <1>2, <1>3, <1>4, <1>5, <1>6, <1>7, <1>8, SizeIsNat, Lengths DEF TypeOK
<1>10. CountersAgree'
  <2>1. Size[m] <= RXLEN /\ Size[m] > CFLEN
    BY SizeIsNat, Lengths DEF ReceiveFF, IsSingle
  <2> QED
    BY <1>5, <1>8, <2>1, SizeIsNat, Lengths DEF CountersAgree
<1>11. BufferHoldsAssembled'
  BY <1>8, Lengths DEF BufferHoldsAssembled
<1>12. OpenIffActive'
  BY <1>2, <1>8 DEF OpenIffActive
<1> QED
  BY <1>3, <1>7, <1>8, <1>9, <1>10, <1>11, <1>12 DEF RxInv

\* Consecutive frame that does not belong here (docan-receiver.cpp:65-72).
LEMMA UnexpectedInv ==
  ASSUME RxInv, NEW m \in Msgs, NEW k \in Nat, ReceiveCFUnexpected(m, k)
  PROVE  RxInv'
<1>1. events' \in Seq(Events) /\ open' = FALSE
  BY NotifyOne, UnexpPduIsEvent DEF ReceiveCFUnexpected
<1>2. sent' \in Seq(FlowControls)
  BY SendNone DEF ReceiveCFUnexpected
<1>3. TypeOK'
  BY <1>1, <1>2 DEF RxInv, TypeOK, ReceiveCFUnexpected
<1> QED
  BY <1>1, <1>3, IdleInv DEF ReceiveCFUnexpected

\* What an accepted consecutive frame does to the counters, the buffer and the
\* timer (docan-receiver.cpp:74-86).
LEMMA AcceptCFStep ==
  ASSUME RxInv, NEW m \in Msgs, NEW k \in Nat, k > 0, AcceptCF(m, k)
  PROVE  /\ passed' \in Nat /\ passed < passed' /\ passed' <= rxsize
         /\ rxsize' = rxsize /\ blksize' = blksize
         /\ expectsn' \in 0 .. SNMOD - 1
         /\ rxbuff' \in [Memory -> Bytes \cup {NoByte}]
         /\ Cr_tim' \in TimerType(CrPeriods) /\ Cr_tim'.active
         /\ assembled' \in Seq(Bytes) /\ Len(assembled') = passed'
         /\ \A i \in FFLEN + 1 .. passed' : rxbuff'[i - 1] = assembled'[i]
<1> DEFINE n == CopyLength
           from == FFLEN + (k - 1) * CFLEN
           data == Part(m, from, CFLEN)
           added == Part(m, from, n)
<1>1. /\ passed \in Nat /\ rxsize \in Nat /\ FFLEN <= passed /\ passed < rxsize
      /\ rxsize <= RXLEN /\ passed = Len(assembled) /\ assembled \in Seq(Bytes)
      /\ rxbuff \in [Memory -> Bytes \cup {NoByte}]
      /\ \A i \in FFLEN + 1 .. passed : rxbuff[i - 1] = assembled[i]
  BY DEF AcceptCF, RxInv, TypeOK, CountersAgree, BufferHoldsAssembled
<1>2. n \in Nat /\ n > 0 /\ n <= CFLEN /\ passed + n <= rxsize
  BY <1>1, Lengths DEF CopyLength
<1>3. from \in Nat
  <2>1. k - 1 \in Nat
    OBVIOUS
  <2>2. (k - 1) * CFLEN \in Nat
    BY <2>1, Lengths
  <2> QED
    BY <2>2, Lengths
<1>4. /\ data \in Seq(Bytes) /\ Len(data) = CFLEN
      /\ added \in Seq(Bytes) /\ Len(added) = n
      /\ \A i \in 1 .. n : data[i] = added[i]
  <2>1. /\ data \in Seq(Bytes) /\ Len(data) = CFLEN
        /\ \A i \in 1 .. CFLEN : data[i] = Byte(m, from + i)
    BY <1>3, PartIsBytes, Lengths
  <2>2. /\ added \in Seq(Bytes) /\ Len(added) = n
        /\ \A i \in 1 .. n : added[i] = Byte(m, from + i)
    BY <1>2, <1>3, PartIsBytes
  <2> HIDE DEF data, added
  <2> QED
    BY <1>2, <2>1, <2>2, Lengths
<1>5. /\ passed' = passed + n
      /\ assembled' = assembled \o added
      /\ Copy(passed, data, n)
      /\ rxsize' = rxsize /\ blksize' = blksize
      /\ expectsn' = NextSerial
      /\ Cr_tim' = RestartTimer(Cr_tim)
  BY DEF AcceptCF, CopyAddress, ArmCr
<1> HIDE DEF n, from, data, added
<1>6. /\ assembled' \in Seq(Bytes) /\ Len(assembled') = passed'
      /\ \A i \in 1 .. passed + n : assembled'[i] =
            IF i <= passed THEN assembled[i] ELSE added[i - passed]
  <2>1. assembled \in Seq(Bytes) /\ added \in Seq(Bytes)
    BY <1>1, <1>4
  <2>2. /\ assembled \o added \in Seq(Bytes)
        /\ Len(assembled \o added) = Len(assembled) + Len(added)
        /\ \A i \in 1 .. Len(assembled) + Len(added) : (assembled \o added)[i] =
              IF i <= Len(assembled) THEN assembled[i] ELSE added[i - Len(assembled)]
    BY <2>1, ConcatProperties
  <2>3. Len(assembled) = passed /\ Len(added) = n
    BY <1>1, <1>4
  <2> QED
    BY <1>5, <2>2, <2>3
<1>7. rxbuff' \in [Memory -> Bytes \cup {NoByte}]
  BY <1>1, <1>2, <1>4, <1>5, CopyType
<1>8. \A i \in FFLEN + 1 .. passed' : rxbuff'[i - 1] = assembled'[i]
  <2> SUFFICES ASSUME NEW i \in FFLEN + 1 .. passed'
               PROVE  rxbuff'[i - 1] = assembled'[i]
    OBVIOUS
  <2>1. i \in Nat /\ i >= 1 /\ i <= passed + n /\ i - 1 \in Memory
    BY <1>1, <1>2, <1>5, Lengths DEF Memory
  <2>2. CASE i <= passed
    <3>1. rxbuff'[i - 1] = rxbuff[i - 1]
      BY <1>1, <1>2, <1>5, <2>1, <2>2 DEF Copy
    <3>2. assembled'[i] = assembled[i]
      BY <1>6, <2>1, <2>2
    <3> QED
      BY <1>1, <2>1, <2>2, <3>1, <3>2
  <2>3. CASE i > passed
    <3>1. rxbuff'[i - 1] = data[i - passed]
      <4>1. passed <= i - 1 /\ i - 1 < passed + n
        BY <1>1, <1>2, <2>1, <2>3
      <4>2. rxbuff'[i - 1] = data[(i - 1) - passed + 1]
        BY <1>5, <2>1, <4>1 DEF Copy
      <4>3. (i - 1) - passed + 1 = i - passed
        BY <1>1, <2>1
      <4> QED
        BY <4>2, <4>3
    <3>2. assembled'[i] = added[i - passed]
      BY <1>1, <1>6, <2>1, <2>3
    <3>3. i - passed \in 1 .. n
      BY <1>1, <1>2, <2>1, <2>3
    <3> QED
      BY <1>4, <3>1, <3>2, <3>3
  <2> QED
    BY <1>1, <2>1, <2>2, <2>3
<1>9. expectsn' \in 0 .. SNMOD - 1
  BY <1>5 DEF NextSerial, RxInv, TypeOK
<1>10. Cr_tim' \in TimerType(CrPeriods) /\ Cr_tim'.active
  <2>1. PICK p \in CrPeriods : TRUE
    OBVIOUS
  <2> QED
    BY <1>5, <2>1, CrTimer DEF RxInv, TypeOK
<1>11. passed' \in Nat /\ passed < passed' /\ passed' <= rxsize
  BY <1>1, <1>2, <1>5
<1> QED
  BY <1>5, <1>6, <1>7, <1>8, <1>9, <1>10, <1>11

\* The frame that completes a message (docan-receiver.cpp:88-91).
LEMMA LastFrameInv ==
  ASSUME RxInv, NEW m \in Msgs, NEW k \in Nat, k > 0, ReceiveCFLast(m, k)
  PROVE  RxInv'
<1> DEFINE p == Content(rxsize)
           e == Event("Data", "OK_r", p)
<1>1. /\ AcceptCF(m, k) /\ state' = "IDLE" /\ passed' = rxsize /\ currblkn' = currblkn + 1
      /\ credit' = credit - 1 /\ Notify(<<e>>) /\ Send(<<>>)
  BY DEF ReceiveCFLast
<1>2. /\ rxsize' = rxsize /\ blksize' = blksize /\ passed' \in Nat
      /\ expectsn' \in 0 .. SNMOD - 1
      /\ rxbuff' \in [Memory -> Bytes \cup {NoByte}]
      /\ Cr_tim' \in TimerType(CrPeriods)
      /\ assembled' \in Seq(Bytes)
  BY <1>1, AcceptCFStep
<1>3. p \in Seq(Bytes \cup {NoByte})
  <2>1. rxsize \in Nat /\ rxsize <= RXLEN
    BY <1>1 DEF AcceptCF, RxInv, TypeOK, CountersAgree
  <2>2. \A i \in 1 .. rxsize : i - 1 \in Memory
    BY <2>1, Lengths
  <2>3. p \in [1 .. rxsize -> Bytes \cup {NoByte}]
    BY <1>2, <2>2 DEF Content
  <2> QED
    BY <2>1, <2>3, SeqDef
<1>4. e \in Events /\ e.ev = "Data"
  BY <1>3, EventIsEvent
<1>5. events' \in Seq(Events) /\ ~open' /\ open' \in BOOLEAN
  BY <1>1, <1>4, NotifyOne
<1>6. sent' \in Seq(FlowControls)
  BY <1>1, SendNone
<1>7. currblkn' \in Nat /\ credit' \in Int /\ blksize' \in BlkSizes /\ rxsize' \in Nat
  BY <1>1, <1>2 DEF RxInv, TypeOK
<1>8. TypeOK'
  BY <1>1, <1>2, <1>5, <1>6, <1>7 DEF TypeOK
<1> QED
  BY <1>1, <1>5, <1>8, IdleInv

\* A frame within a message, with and without flow control
\* (docan-receiver.cpp:92-97).
LEMMA MiddleFrameInv ==
  ASSUME RxInv, NEW m \in Msgs, NEW k \in Nat, k > 0,
         ReceiveCFBlockEnd(m, k) \/ ReceiveCFInBlock(m, k)
  PROVE  RxInv'
<1>1. /\ AcceptCF(m, k) /\ passed' # rxsize /\ state' = state /\ state = "ACTIVE"
      /\ Notify(<<>>)
  BY DEF ReceiveCFBlockEnd, ReceiveCFInBlock, AcceptCF
<1>2. /\ passed' \in Nat /\ passed < passed' /\ passed' <= rxsize
      /\ rxsize' = rxsize /\ blksize' = blksize
      /\ expectsn' \in 0 .. SNMOD - 1
      /\ rxbuff' \in [Memory -> Bytes \cup {NoByte}]
      /\ Cr_tim' \in TimerType(CrPeriods) /\ Cr_tim'.active
      /\ assembled' \in Seq(Bytes) /\ Len(assembled') = passed'
      /\ \A i \in FFLEN + 1 .. passed' : rxbuff'[i - 1] = assembled'[i]
  BY <1>1, AcceptCFStep
<1>3. events' \in Seq(Events) /\ open' = open
  BY <1>1, NotifyNone DEF RxInv
<1>4. /\ rxsize \in Nat /\ passed \in Nat /\ FFLEN <= passed /\ rxsize <= RXLEN
      /\ blksize \in Nat /\ blksize \in BlkSizes /\ currblkn \in Nat /\ credit \in Int
      /\ credit = blksize - currblkn /\ (blksize > 0 => currblkn < blksize)
      /\ open \in BOOLEAN /\ (open <=> state = "ACTIVE")
  BY <1>1 DEF RxInv, TypeOK, CountersAgree, OpenIffActive
<1>5. /\ sent' \in Seq(FlowControls)
      /\ currblkn' \in Nat /\ credit' \in Int
      /\ credit' = blksize - currblkn' /\ (blksize > 0 => currblkn' < blksize)
  <2>1. CASE ReceiveCFBlockEnd(m, k)
    BY <1>4, <2>1, SendOne DEF ReceiveCFBlockEnd
  <2>2. CASE ReceiveCFInBlock(m, k)
    BY <1>4, <2>2, SendNone DEF ReceiveCFInBlock, BlockDone
  <2> QED
    BY <2>1, <2>2
<1>6. TypeOK'
  BY <1>1, <1>2, <1>3, <1>4, <1>5 DEF TypeOK
<1>7. CountersAgree'
  BY <1>1, <1>2, <1>4, Lengths DEF CountersAgree
<1>8. BufferHoldsAssembled'
  BY <1>2 DEF BufferHoldsAssembled
<1>9. OpenIffActive'
  BY <1>1, <1>3, <1>4 DEF OpenIffActive
<1> QED
  BY <1>2, <1>5, <1>6, <1>7, <1>8, <1>9 DEF RxInv

\* Single frame (docan-receiver.cpp:103-111).
LEMMA SingleFrameInv ==
  ASSUME RxInv, NEW m \in Msgs, ReceiveSF(m)
  PROVE  RxInv'
<1> DEFINE p == Part(m, 0, Size[m])
           e == Event("Data", "OK_r", p)
<1>1. p \in Seq(Bytes \cup {NoByte})
  <2>1. p \in Seq(Bytes)
    BY PartIsBytes, SizeIsNat
  <2> QED
    BY <2>1, SeqMonotonic
<1>2. e \in Events /\ e.ev = "Data"
  BY <1>1, EventIsEvent
<1>3. events' \in Seq(Events) /\ ~open' /\ open' \in BOOLEAN
  BY <1>2, NotifyInterrupted DEF ReceiveSF
<1>4. sent' \in Seq(FlowControls)
  BY SendNone DEF ReceiveSF
<1>5. /\ state' = "IDLE"
      /\ UNCHANGED <<rxsize, passed, expectsn, currblkn, blksize, rxbuff, Cr_tim,
                     assembled, credit>>
  BY DEF ReceiveSF
<1>6. TypeOK'
  BY <1>3, <1>4, <1>5 DEF RxInv, TypeOK
<1> QED
  BY <1>3, <1>5, <1>6, IdleInv

LEMMA ReceiveInv == RxInv /\ Receive => RxInv'
<1> SUFFICES ASSUME RxInv, Receive PROVE RxInv'
  OBVIOUS
<1>1. PICK m \in Msgs :
        \/ ReceiveFFOverflow(m)
        \/ ReceiveFF(m)
        \/ ReceiveSF(m)
        \/ /\ ~IsSingle(m)
           /\ \E k \in 1 .. CfCount(m) :
                \/ ReceiveCFUnexpected(m, k)
                \/ ReceiveCFLast(m, k)
                \/ ReceiveCFBlockEnd(m, k)
                \/ ReceiveCFInBlock(m, k)
  BY DEF Receive
<1>2. CASE ReceiveFFOverflow(m) \/ ReceiveFF(m) \/ ReceiveSF(m)
  BY <1>2, OverflowInv, FirstFrameInv, SingleFrameInv
<1>3. CASE \E k \in 1 .. CfCount(m) :
             \/ ReceiveCFUnexpected(m, k)
             \/ ReceiveCFLast(m, k)
             \/ ReceiveCFBlockEnd(m, k)
             \/ ReceiveCFInBlock(m, k)
  <2>1. PICK k \in 1 .. CfCount(m) :
             \/ ReceiveCFUnexpected(m, k)
             \/ ReceiveCFLast(m, k)
             \/ ReceiveCFBlockEnd(m, k)
             \/ ReceiveCFInBlock(m, k)
    BY <1>3
  <2>2. k \in Nat /\ k > 0
    OBVIOUS
  <2> QED
    BY <2>1, <2>2, UnexpectedInv, LastFrameInv, MiddleFrameInv
<1> QED
  BY <1>1, <1>2, <1>3

\* The N_Cr timeout (docan-receiver.cpp:7-18).
LEMMA TimeoutInv == RxInv /\ ProcessRx => RxInv'
<1> SUFFICES ASSUME RxInv, ProcessRx PROVE RxInv'
  OBVIOUS
<1> DEFINE e == Event("Conf", "TIMEOUT_Cr", <<>>)
<1>1. e \in Events /\ e.ev = "Conf"
  BY EventIsEvent, EmptySeq
<1>2. events' \in Seq(Events) /\ ~open' /\ open' \in BOOLEAN
  BY <1>1, NotifyOne DEF ProcessRx
<1>3. sent' \in Seq(FlowControls)
  BY SendNone DEF ProcessRx
<1>4. Cr_tim' \in TimerType(CrPeriods)
  <2>1. PICK p \in CrPeriods : TRUE
    OBVIOUS
  <2> QED
    BY <2>1, CrTimer DEF ProcessRx, RxInv, TypeOK
<1>5. /\ state' = "IDLE" /\ passed' = 0 /\ rxsize' = 0
      /\ UNCHANGED <<expectsn, currblkn, blksize, rxbuff, assembled, credit>>
  BY DEF ProcessRx
<1>6. TypeOK'
  BY <1>2, <1>3, <1>4, <1>5 DEF RxInv, TypeOK
<1> QED
  BY <1>2, <1>5, <1>6, IdleInv

\* Configuration while idle (docan-receiver.cpp:127-151, docan-tp.cpp:57-60).
LEMMA SetParameterInv == RxInv /\ (SetBlockSize \/ SetCrTimeout) => RxInv'
<1> SUFFICES ASSUME RxInv, SetBlockSize \/ SetCrTimeout PROVE RxInv'
  OBVIOUS
<1>1. /\ state = "IDLE" /\ Notify(<<>>) /\ Send(<<>>)
      /\ UNCHANGED <<rxds, rxbuff, assembled, credit>>
  BY DEF SetBlockSize, SetCrTimeout
<1>2. blksize' \in BlkSizes
  BY DEF SetBlockSize, SetCrTimeout, RxInv, TypeOK
<1>3. Cr_tim' \in TimerType(CrPeriods)
  <2>1. CASE SetBlockSize
    BY <2>1 DEF SetBlockSize, RxInv, TypeOK
  <2>2. CASE SetCrTimeout
    <3>1. PICK p \in CrPeriods : Cr_tim' = StopTimer(StartTimer(Cr_tim, p))
      BY <2>2 DEF SetCrTimeout
    <3>2. StartTimer(Cr_tim, p) \in TimerType(CrPeriods)
      BY CrTimer DEF RxInv, TypeOK
    <3> QED
      BY <3>1, <3>2, CrTimer
  <2> QED
    BY <2>1, <2>2
<1>4. events' \in Seq(Events) /\ open' = open /\ sent' \in Seq(FlowControls)
  BY <1>1, NotifyNone, SendNone DEF RxInv
<1>5. TypeOK'
  BY <1>1, <1>2, <1>3, <1>4 DEF RxInv, TypeOK, rxds
<1>6. state' = "IDLE" /\ ~open'
  BY <1>1, <1>4 DEF RxInv, OpenIffActive, rxds
<1> QED
  BY <1>5, <1>6, IdleInv

\* A step that only moves the timer on keeps the invariant.
LEMMA TickInv == RxInv /\ ProcessTick => RxInv'
<1> SUFFICES ASSUME RxInv, ProcessTick PROVE RxInv'
  OBVIOUS
<1>1. /\ Notify(<<>>) /\ Send(<<>>) /\ Cr_tim' = Ticked(Cr_tim)
      /\ UNCHANGED <<rxds, blksize, rxbuff, assembled, credit>>
  BY DEF ProcessTick
<1>2. Cr_tim' \in TimerType(CrPeriods) /\ Cr_tim'.active = Cr_tim.active
  <2>1. PICK p \in CrPeriods : TRUE
    OBVIOUS
  <2> QED
    BY <1>1, <2>1, CrTimer DEF RxInv, TypeOK
<1>3. events' \in Seq(Events) /\ open' = open /\ sent' \in Seq(FlowControls)
  BY <1>1, NotifyNone, SendNone DEF RxInv
<1>4. TypeOK'
  BY <1>1, <1>2, <1>3 DEF RxInv, TypeOK, rxds
<1>5. OpenIffActive' /\ CountersAgree' /\ BufferHoldsAssembled'
  BY <1>1, <1>3 DEF RxInv, OpenIffActive, CountersAgree, BufferHoldsAssembled, rxds
<1> QED
  BY <1>1, <1>2, <1>4, <1>5 DEF RxInv, rxds

LEMMA StutterInv == RxInv /\ UNCHANGED vars => RxInv'
  BY DEF vars, rxds, RxInv, TypeOK, OpenIffActive, CountersAgree, BufferHoldsAssembled

\* RxInv is an invariant of the receiver (docan-receiver.cpp, whole file).
THEOREM RxInvariant == Spec => []RxInv
<1>1. RxInv /\ [Next]_vars => RxInv'
  BY ReceiveInv, TimeoutInv, SetParameterInv, TickInv, StutterInv DEF Next
<1> QED
  BY <1>1, InitInv, PTL DEF Spec

\* Type correctness of the receiver.
THEOREM RxTypeCorrect == Spec => []TypeOK
<1>1. RxInv => TypeOK
  BY DEF RxInv
<1> QED
  BY <1>1, RxInvariant, PTL

\* The client has an announced reception pending exactly while the receiver is
\* reassembling (docan-receiver.cpp:10-16, 31-43, 65-72, 88-91, 104-109).
THEOREM RxOpenIffActive == Spec => []OpenIffActive
<1>1. RxInv => OpenIffActive
  BY DEF RxInv
<1> QED
  BY <1>1, RxInvariant, PTL

\* A reception never goes on past its announced size or the buffer
\* (docan-receiver.cpp:50-55, 75-85).
THEOREM RxCountersAgree == Spec => []CountersAgree
<1>1. RxInv => CountersAgree
  BY DEF RxInv
<1> QED
  BY <1>1, RxInvariant, PTL

\* Behind the first frame's part the buffer holds what the accepted frames
\* carried (docan-receiver.cpp:83-84).
THEOREM RxBufferHoldsAssembled == Spec => []BufferHoldsAssembled
<1>1. RxInv => BufferHoldsAssembled
  BY DEF RxInv
<1> QED
  BY <1>1, RxInvariant, PTL

\* A peer within a message is never left without permission to send
\* (docan-receiver.cpp:47-50, 86, 92-97).
THEOREM RxCreditLeft == Spec => []CreditLeft
<1>1. RxInv => CreditLeft
  <2> SUFFICES ASSUME RxInv, state = "ACTIVE", blksize > 0 PROVE credit > 0
    BY DEF CreditLeft
  <2>1. blksize \in Nat /\ currblkn \in Nat /\ credit = blksize - currblkn
        /\ currblkn < blksize
    BY DEF RxInv, TypeOK
  <2> QED
    BY <2>1
<1> QED
  BY <1>1, RxInvariant, PTL

-----------------------------------------------------------------------------
\* What a step tells the client is nothing, or one thing that is not a first frame, or
\* of a message that starts: the end of the reception it interrupts, if there is one,
\* and then the message (docan-receiver.cpp:10-16, 31-56, 65-72, 88-97, 104-109).
LEMMA WhatIsTold ==
  ASSUME RxInv, [Next]_vars
  PROVE  \/ UNCHANGED vars
         \/ events' = <<>>
         \/ \E e : events' = <<e>> /\ e.ev # "DataFF" /\ e.res # "OK_r"
         \/ \E e : events' = Append(Interrupted, e)
         \/ \E m \in Msgs, k \in Nat : k > 0 /\ ReceiveCFLast(m, k)
<1>1. CASE UNCHANGED vars
  BY <1>1 DEF vars
<1>2. CASE SetBlockSize \/ SetCrTimeout \/ ProcessTick
  BY <1>2 DEF SetBlockSize, SetCrTimeout, ProcessTick, Notify
<1>3. CASE ProcessRx
  BY <1>3 DEF ProcessRx, Notify, Event
<1>4. CASE Receive
  <2>1. PICK m \in Msgs :
          \/ ReceiveFFOverflow(m)
          \/ ReceiveFF(m)
          \/ ReceiveSF(m)
          \/ /\ ~IsSingle(m)
             /\ \E k \in 1 .. CfCount(m) :
                  \/ ReceiveCFUnexpected(m, k)
                  \/ ReceiveCFLast(m, k)
                  \/ ReceiveCFBlockEnd(m, k)
                  \/ ReceiveCFInBlock(m, k)
    BY <1>4 DEF Receive
  <2>2. CASE ReceiveFFOverflow(m)
    BY <2>2 DEF ReceiveFFOverflow, Notify, Interrupted, UnexpPdu, Event
  <2>3. CASE ReceiveFF(m) \/ ReceiveSF(m)
    BY <2>3 DEF ReceiveFF, ReceiveSF, Notify
  <2>4. CASE \E k \in 1 .. CfCount(m) :
               \/ ReceiveCFUnexpected(m, k)
               \/ ReceiveCFLast(m, k)
               \/ ReceiveCFBlockEnd(m, k)
               \/ ReceiveCFInBlock(m, k)
    <3>1. PICK k \in 1 .. CfCount(m) :
               \/ ReceiveCFUnexpected(m, k)
               \/ ReceiveCFLast(m, k)
               \/ ReceiveCFBlockEnd(m, k)
               \/ ReceiveCFInBlock(m, k)
      BY <2>4
    <3>2. k \in Nat /\ k > 0
      OBVIOUS
    <3>3. CASE ReceiveCFUnexpected(m, k)
      BY <3>3 DEF ReceiveCFUnexpected, Notify, UnexpPdu, Event
    <3>4. CASE ReceiveCFLast(m, k)
      BY <3>2, <3>4
    <3>5. CASE ReceiveCFBlockEnd(m, k) \/ ReceiveCFInBlock(m, k)
      BY <3>5 DEF ReceiveCFBlockEnd, ReceiveCFInBlock, Notify
    <3> QED
      BY <3>1, <3>3, <3>4, <3>5
  <2> QED
    BY <2>1, <2>2, <2>3, <2>4
<1> QED
  BY <1>1, <1>2, <1>3, <1>4 DEF Next

\* The end of a reception is told before the next one is announced, for every sequence
\* of frames (docan-receiver.cpp:32-35, 56).
THEOREM RxClosedBeforeReopened == Spec => ClosedBeforeReopened
<1> DEFINE Closed ==
             \A i \in DOMAIN events' :
                events'[i].ev = "DataFF" =>
                    IF i = 1 THEN ~open ELSE events'[i - 1].ev # "DataFF"
<1>1. ASSUME RxInv, Next PROVE Closed \/ UNCHANGED vars
  <2>1. CASE events' = <<>>
    BY <2>1
  <2>2. CASE \E e : events' = <<e>> /\ e.ev # "DataFF" /\ e.res # "OK_r"
    BY <2>2
  <2>3. ASSUME NEW e, events' = Append(Interrupted, e) PROVE Closed
    <3>1. CASE state = "ACTIVE"
      <4>1. events' = Append(<<UnexpPdu>>, e)
        BY <2>3, <3>1 DEF Interrupted
      <4>2. <<UnexpPdu>> \in Seq({UnexpPdu, e})
        OBVIOUS
      <4>3. Len(events') = 2 /\ DOMAIN events' = 1 .. 2 /\ events'[1] = UnexpPdu
        BY <4>1, <4>2, AppendProperties
      <4>4. UnexpPdu.ev # "DataFF"
        BY DEF UnexpPdu, Event
      <4>5. SUFFICES ASSUME NEW i \in DOMAIN events' PROVE i = 1 \/ i - 1 = 1
        BY <4>3, <4>4
      <4> QED
        BY <4>3
    <3>2. CASE state # "ACTIVE"
      <4>1. events' = <<e>> /\ ~open
        BY <1>1, <2>3, <3>2 DEF Interrupted, RxInv, OpenIffActive
      <4> QED
        BY <4>1
    <3> QED
      BY <3>1, <3>2
  <2>4. CASE \E m \in Msgs, k \in Nat : k > 0 /\ ReceiveCFLast(m, k)
    <3>1. \E e : events' = <<e>> /\ e.ev = "Data"
      BY <2>4 DEF ReceiveCFLast, Notify, Event
    <3> QED
      BY <3>1
  <2> QED
    BY <1>1, <2>1, <2>2, <2>3, <2>4, WhatIsTold
<1>2. RxInv /\ [Next]_vars => [Closed]_vars
  BY <1>1
<1> QED
  BY <1>2, RxInvariant, PTL DEF Spec, ClosedBeforeReopened

\* A segmented message is delivered with its announced length, and what lies behind the
\* first frame's part is what was received (docan-receiver.cpp:88-91).
THEOREM RxDeliveredTail == Spec => DeliveredTail
<1> DEFINE AsReceived ==
             \A e \in {events'[i] : i \in DOMAIN events'} :
                state = "ACTIVE" /\ Len(events') = 1 /\ e.res = "OK_r" =>
                    /\ Len(e.payload) = rxsize
                    /\ Len(assembled') = rxsize
                    /\ \A i \in FFLEN + 1 .. rxsize : e.payload[i] = assembled'[i]
<1>1. ASSUME RxInv, Next PROVE AsReceived \/ UNCHANGED vars
  <2>1. CASE events' = <<>>
    BY <2>1
  <2>2. CASE \E e : events' = <<e>> /\ e.ev # "DataFF" /\ e.res # "OK_r"
    BY <2>2
  <2>3. ASSUME NEW e, events' = Append(Interrupted, e), state = "ACTIVE"
        PROVE Len(events') = 2
    BY <2>3 DEF Interrupted
  <2>4. ASSUME NEW m \in Msgs, NEW k \in Nat, k > 0, ReceiveCFLast(m, k) PROVE AsReceived
    <3>1. /\ AcceptCF(m, k) /\ passed' = rxsize
          /\ events' = <<Event("Data", "OK_r", Content(rxsize))>>
      BY <2>4 DEF ReceiveCFLast, Notify
    <3>2. /\ Len(assembled') = rxsize
          /\ \A i \in FFLEN + 1 .. rxsize : rxbuff'[i - 1] = assembled'[i]
      BY <1>1, <2>4, <3>1, AcceptCFStep
    <3>3. rxsize \in Nat
      BY <1>1 DEF RxInv, TypeOK
    <3>4. /\ Len(Content(rxsize)) = rxsize
          /\ \A i \in 1 .. rxsize : Content(rxsize)[i] = rxbuff'[i - 1]
      BY <3>3 DEF Content
    <3>5. FFLEN \in Nat
      BY Lengths
    <3>6. \A i \in FFLEN + 1 .. rxsize : Content(rxsize)[i] = assembled'[i]
      BY <3>2, <3>3, <3>4, <3>5
    <3>7. \A e \in {events'[i] : i \in DOMAIN events'} : e.payload = Content(rxsize)
      BY <3>1 DEF Event
    <3> QED
      BY <3>2, <3>4, <3>6, <3>7
  <2> QED
    BY <1>1, <2>1, <2>2, <2>3, <2>4, WhatIsTold, SMTT(30)
<1>2. RxInv /\ [Next]_vars => [AsReceived]_vars
  BY <1>1
<1> QED
  BY <1>2, RxInvariant, PTL DEF Spec, DeliveredTail

-----------------------------------------------------------------------------
(* The order of the bytes.                                                 *)

\* Division with remainder.
LEMMA DivMod ==
  ASSUME NEW n \in Nat, NEW d \in Nat, d > 0
  PROVE  /\ n \div d \in Nat /\ n % d \in 0 .. d - 1
         /\ n = (n \div d) * d + (n % d)
  OBVIOUS

LEMMA QuotientUnique ==
  ASSUME NEW d \in Nat, NEW p \in Nat, NEW q \in Nat, NEW a \in Nat, NEW b \in Nat,
         NEW r \in Nat, a = p * d + r, b = q * d + r, a < b + d, b < a + d
  PROVE  a = b
<1>1. CASE p < q
  <2>1. PICK e \in Nat : q = p + 1 + e
    <3>1. q - p - 1 \in Nat /\ q = p + 1 + (q - p - 1)
      BY <1>1
    <3> QED
      BY <3>1
  <2>2. q * d = p * d + d + e * d /\ e * d \in Nat /\ p * d \in Nat
    BY <2>1
  <2> QED
    BY <2>2
<1>2. CASE q < p
  <2>1. PICK e \in Nat : p = q + 1 + e
    <3>1. p - q - 1 \in Nat /\ p = q + 1 + (p - q - 1)
      BY <1>2
    <3> QED
      BY <3>1
  <2>2. p * d = q * d + d + e * d /\ e * d \in Nat /\ q * d \in Nat
    BY <2>1
  <2> QED
    BY <2>2
<1>3. CASE p = q
  BY <1>3
<1> QED
  BY <1>1, <1>2, <1>3

\* The j-th frame begins within the message only if the message has j frames.
LEMMA WithinCfCount ==
  ASSUME NEW m \in Msgs, NEW j \in Nat, j > 0, FFLEN + (j - 1) * CFLEN < Size[m]
  PROVE  j <= CfCount(m)
<1> DEFINE X == Size[m] - FFLEN + CFLEN - 1
           c == X \div CFLEN
           i == j - 1
<1>1. FFLEN \in Nat /\ CFLEN \in Nat /\ CFLEN > 0 /\ Size[m] \in Nat /\ i \in Nat /\ j = i + 1
  BY Lengths, SizeIsNat
<1>2. i * CFLEN \in Nat /\ j * CFLEN = i * CFLEN + CFLEN
  BY <1>1
<1>3. FFLEN + i * CFLEN < Size[m]
  OBVIOUS
<1> HIDE DEF i
<1>4. X \in Nat /\ j * CFLEN <= X
  BY <1>1, <1>2, <1>3
<1> HIDE DEF X
<1>5. c \in Nat /\ X % CFLEN < CFLEN /\ X % CFLEN \in Nat /\ X = c * CFLEN + (X % CFLEN)
  BY <1>1, <1>4, DivMod
<1>6. ASSUME c < j PROVE FALSE
  <2>1. PICK e \in Nat : j = c + 1 + e
    <3>1. j - c - 1 \in Nat /\ j = c + 1 + (j - c - 1)
      BY <1>5, <1>6
    <3> QED
      BY <3>1
  <2> HIDE DEF c
  <2>2. j * CFLEN = c * CFLEN + CFLEN + e * CFLEN /\ e * CFLEN \in Nat /\ c * CFLEN \in Nat
    BY <1>1, <1>5, <2>1
  <2> QED
    BY <1>1, <1>4, <1>5, <2>2
<1>7. CfCount(m) = c
  BY DEF CfCount, X
<1> QED
  BY <1>5, <1>6, <1>7

\* InOrder is not inductive by itself: which frame is expected next has to follow from
\* how many were accepted, counted in serial numbers (docan-receiver.cpp:50-55, 65, 87).
OrderInv ==
    /\ InOrder
    /\ state = "ACTIVE" =>
           /\ rxsize = Size[assembled[1][1]]
           /\ \E j, q \in Nat : /\ j > 0
                                /\ Len(assembled) = FFLEN + (j - 1) * CFLEN
                                /\ j = q * SNMOD + expectsn

\* A step that accepts no frame.
LEMMA OrderSame ==
  ASSUME OrderInv, assembled' = assembled,
         state' = "IDLE" \/ (state' = state /\ rxsize' = rxsize /\ expectsn' = expectsn)
  PROVE  OrderInv'
<1>1. InOrder'
  BY DEF OrderInv, InOrder
<1> QED
  BY <1>1 DEF OrderInv

LEMMA OrderFirst ==
  ASSUME NEW m \in Msgs, ReceiveFF(m)
  PROVE  OrderInv'
<1>1. /\ rxsize' = Size[m] /\ expectsn' = 1 /\ assembled' = Part(m, 0, FFLEN)
  BY DEF ReceiveFF
<1>2. /\ Len(Part(m, 0, FFLEN)) = FFLEN /\ FFLEN \in Nat /\ FFLEN > 0
      /\ Part(m, 0, FFLEN) \in Seq(Bytes)
      /\ \A i \in 1 .. FFLEN : Part(m, 0, FFLEN)[i] = Byte(m, 0 + i)
  BY PartIsBytes, Lengths
<1>3. 1 \in DOMAIN assembled' /\ assembled'[1][1] = m
  BY <1>1, <1>2 DEF Byte
<1>4. InOrder'
  BY <1>1, <1>2, <1>3 DEF InOrder
<1>5. Len(assembled') = FFLEN + (1 - 1) * CFLEN /\ 1 = 0 * SNMOD + 1
  BY <1>1, <1>2, Lengths
<1>6. \E j, q \in Nat : /\ j > 0
                        /\ Len(assembled') = FFLEN + (j - 1) * CFLEN
                        /\ j = q * SNMOD + expectsn'
  <2>1. Len(assembled') = FFLEN + (1 - 1) * CFLEN /\ 1 = 0 * SNMOD + expectsn'
    BY <1>1, <1>5
  <2> WITNESS 1 \in Nat, 0 \in Nat
  <2> QED
    BY <2>1
<1> QED
  BY <1>1, <1>3, <1>4, <1>6 DEF OrderInv

\* Two parts of a message that lie next to each other.
LEMMA PartsJoin ==
  ASSUME NEW m \in Msgs, NEW a \in Nat, NEW n \in Nat
  PROVE  Part(m, 0, a) \o Part(m, a, n) = Part(m, 0, a + n)
<1> DEFINE s == Part(m, 0, a)
           t == Part(m, a, n)
           u == Part(m, 0, a + n)
<1>1. /\ s \in Seq(Bytes) /\ Len(s) = a /\ \A i \in 1 .. a : s[i] = Byte(m, 0 + i)
      /\ t \in Seq(Bytes) /\ Len(t) = n /\ \A i \in 1 .. n : t[i] = Byte(m, a + i)
      /\ u \in Seq(Bytes) /\ Len(u) = a + n /\ \A i \in 1 .. a + n : u[i] = Byte(m, 0 + i)
  <2>1. /\ s \in Seq(Bytes) /\ Len(s) = a /\ \A i \in 1 .. a : s[i] = Byte(m, 0 + i)
    BY PartIsBytes
  <2>2. /\ t \in Seq(Bytes) /\ Len(t) = n /\ \A i \in 1 .. n : t[i] = Byte(m, a + i)
    BY PartIsBytes
  <2>3. a + n \in Nat
    OBVIOUS
  <2>4. /\ u \in Seq(Bytes) /\ Len(u) = a + n /\ \A i \in 1 .. a + n : u[i] = Byte(m, 0 + i)
    BY <2>3, PartIsBytes
  <2> QED
    BY <2>1, <2>2, <2>4
<1> HIDE DEF s, t, u
<1>2. /\ s \o t \in Seq(Bytes) /\ Len(s \o t) = a + n
      /\ \A i \in 1 .. a + n : (s \o t)[i] = IF i <= a THEN s[i] ELSE t[i - a]
  BY <1>1, ConcatProperties, ZenonT(30)
<1>3. ASSUME NEW i \in 1 .. a + n PROVE (s \o t)[i] = u[i]
  <2>1. CASE i <= a
    BY <1>1, <1>2, <2>1
  <2>2. CASE i > a
    <3>1. i - a \in 1 .. n /\ a + (i - a) = 0 + i
      BY <2>2
    <3> QED
      BY <1>1, <1>2, <2>2, <3>1
  <2>3. i <= a \/ i > a
    OBVIOUS
  <2> QED
    BY <2>1, <2>2, <2>3
<1> QED
  BY <1>1, <1>2, <1>3, SeqEqual DEF s, t, u

\* The frame that is accepted is the one that comes next in the message.
LEMMA AcceptedIsNext ==
  ASSUME RxInv, OrderInv, NEW m \in Msgs, NEW k \in 1 .. CfCount(m), AcceptCF(m, k),
         CfCount(m) <= SNMOD, assembled[1][1] = m
  PROVE  FFLEN + (k - 1) * CFLEN = Len(assembled)
<1>1. /\ state = "ACTIVE" /\ k % SNMOD = expectsn
  BY DEF AcceptCF, Expected, SerialNumber
<1>2. /\ rxsize = Size[m]
      /\ \E j, q \in Nat : /\ j > 0
                           /\ Len(assembled) = FFLEN + (j - 1) * CFLEN
                           /\ j = q * SNMOD + expectsn
  BY <1>1 DEF OrderInv
<1>3. PICK j \in Nat, q \in Nat : /\ j > 0
                                  /\ Len(assembled) = FFLEN + (j - 1) * CFLEN
                                  /\ j = q * SNMOD + expectsn
  BY <1>2
<1>4. passed = Len(assembled) /\ passed < Size[m]
  BY <1>1, <1>2 DEF RxInv, CountersAgree
<1>5. j <= CfCount(m)
  BY <1>3, <1>4, WithinCfCount
<1>6. CfCount(m) \in Int
  <2>1. Size[m] - FFLEN + CFLEN - 1 \in Int /\ CFLEN \in Nat /\ CFLEN > 0
    BY Lengths, SizeIsNat
  <2> QED
    BY <2>1 DEF CfCount
<1>7. k \in Nat /\ k >= 1 /\ k <= SNMOD /\ j <= SNMOD
  BY <1>3, <1>5, <1>6
<1> DEFINE p == k \div SNMOD
<1>8. p \in Nat /\ k = p * SNMOD + expectsn /\ expectsn \in Nat
  <2>1. expectsn \in Nat /\ SNMOD \in Nat /\ SNMOD > 0
    BY SnmodAssumption DEF RxInv, TypeOK
  <2> QED
    BY <1>1, <1>7, <2>1, DivMod
<1> HIDE DEF p
<1>9. k < j + SNMOD /\ j < k + SNMOD
  BY <1>3, <1>7
<1>10. k = j
  BY <1>3, <1>7, <1>8, <1>9, QuotientUnique
<1> QED
  BY <1>3, <1>10

LEMMA OrderAccept ==
  ASSUME RxInv, OrderInv, NEW m \in Msgs, NEW k \in 1 .. CfCount(m), AcceptCF(m, k)
  PROVE  InOrder' /\ Len(assembled') = Len(assembled) + CopyLength
         /\ assembled'[1] = assembled[1]
<1> DEFINE n == CopyLength
           from == FFLEN + (k - 1) * CFLEN
           added == Part(m, from, n)
           len == Len(assembled)
<1>1. /\ state = "ACTIVE" /\ assembled \in Seq(Bytes) /\ len \in Nat /\ len > 0
      /\ passed = len /\ passed < rxsize /\ rxsize \in Nat
  BY Lengths DEF AcceptCF, RxInv, TypeOK, CountersAgree
<1>2. n \in Nat /\ n > 0
  BY <1>1, Lengths DEF CopyLength
<1>3. from \in Nat
  <2>1. k - 1 \in Nat
    OBVIOUS
  <2>2. (k - 1) * CFLEN \in Nat
    BY <2>1, Lengths
  <2> QED
    BY <2>2, Lengths
<1>4. assembled' = assembled \o added
  BY DEF AcceptCF
<1>5. /\ added \in Seq(Bytes) /\ Len(added) = n
      /\ \A i \in 1 .. n : added[i] = Byte(m, from + i)
  BY <1>2, <1>3, PartIsBytes
<1> HIDE DEF n, from, added
<1>6. /\ assembled \o added \in Seq(Bytes) /\ Len(assembled \o added) = len + n
      /\ \A i \in 1 .. len + n : (assembled \o added)[i] =
            IF i <= len THEN assembled[i] ELSE added[i - len]
  BY <1>1, <1>5, ConcatProperties, ZenonT(30)
<1>7. assembled'[1] = assembled[1]
  BY <1>1, <1>2, <1>4, <1>6
<1>8. ASSUME NEW mm \in Msgs, CfCount(mm) <= SNMOD,
             \A i \in DOMAIN assembled' : assembled'[i][1] = mm
      PROVE  assembled' = Part(mm, 0, Len(assembled'))
  <2>1. DOMAIN assembled' = 1 .. len + n
    BY <1>1, <1>2, <1>4, <1>6
  <2>2. mm = m
    <3>1. len + 1 \in DOMAIN assembled' /\ assembled'[len + 1] = added[1]
      BY <1>1, <1>2, <1>4, <1>6, <2>1
    <3>2. added[1][1] = m
      BY <1>2, <1>5 DEF Byte
    <3> QED
      BY <1>8, <3>1, <3>2
  <2>3. \A i \in DOMAIN assembled : assembled[i][1] = m
    <3> SUFFICES ASSUME NEW i \in 1 .. len PROVE assembled[i][1] = m
      BY <1>1
    <3>1. i \in DOMAIN assembled' /\ assembled'[i] = assembled[i]
      BY <1>1, <1>2, <1>4, <1>6, <2>1
    <3> QED
      BY <1>8, <2>2, <3>1
  <2>4. assembled = Part(m, 0, len)
    BY <1>8, <2>2, <2>3 DEF OrderInv, InOrder
  <2>5. assembled[1][1] = m
    BY <1>1, <2>3
  <2>6. from = len
    BY <1>8, <2>2, <2>5, AcceptedIsNext DEF from
  <2>7. Part(m, 0, len) \o Part(m, len, n) = Part(m, 0, len + n)
    BY <1>1, <1>2, PartsJoin
  <2> QED
    BY <1>4, <1>6, <2>2, <2>4, <2>6, <2>7 DEF added
<1>9. InOrder'
  BY <1>8 DEF InOrder
<1> QED
  BY <1>4, <1>6, <1>7, <1>9 DEF n

LEMMA OrderMiddle ==
  ASSUME RxInv, OrderInv, NEW m \in Msgs, NEW k \in 1 .. CfCount(m),
         ReceiveCFBlockEnd(m, k) \/ ReceiveCFInBlock(m, k)
  PROVE  OrderInv'
<1>1. /\ AcceptCF(m, k) /\ passed' # rxsize /\ state = "ACTIVE"
      /\ passed' = passed + CopyLength /\ rxsize' = rxsize
      /\ expectsn' = (expectsn + 1) % SNMOD
  BY DEF ReceiveCFBlockEnd, ReceiveCFInBlock, AcceptCF, NextSerial
<1>2. /\ InOrder' /\ Len(assembled') = Len(assembled) + CopyLength
      /\ assembled'[1] = assembled[1]
  BY <1>1, OrderAccept
<1>3. passed \in Nat /\ rxsize \in Nat /\ expectsn \in 0 .. SNMOD - 1
  BY DEF RxInv, TypeOK
<1>4. CopyLength = CFLEN
  BY <1>1, <1>3, Lengths DEF CopyLength
<1>5. PICK j \in Nat, q \in Nat : /\ j > 0
                                  /\ Len(assembled) = FFLEN + (j - 1) * CFLEN
                                  /\ j = q * SNMOD + expectsn
  BY <1>1 DEF OrderInv
<1>6. Len(assembled') = FFLEN + ((j + 1) - 1) * CFLEN
  <2>1. FFLEN \in Nat /\ CFLEN \in Nat
    BY Lengths
  <2>2. ((j + 1) - 1) * CFLEN = (j - 1) * CFLEN + CFLEN
    BY <2>1
  <2>3. (j - 1) * CFLEN \in Int
    BY <2>1
  <2> QED
    BY <1>2, <1>4, <1>5, <2>1, <2>2, <2>3
<1>7. \E qq \in Nat : j + 1 = qq * SNMOD + expectsn'
  <2>1. CASE expectsn + 1 < SNMOD
    <3>1. expectsn' = expectsn + 1
      BY <1>1, <1>3, <2>1
    <3>2. q * SNMOD \in Nat
      OBVIOUS
    <3>3. j + 1 = q * SNMOD + expectsn'
      BY <1>3, <1>5, <3>1, <3>2
    <3> QED
      BY <3>3
  <2>2. CASE expectsn + 1 = SNMOD
    <3>1. expectsn' = 0
      BY <1>1, <2>2
    <3>2. q * SNMOD \in Nat /\ (q + 1) * SNMOD = q * SNMOD + SNMOD /\ q + 1 \in Nat
      OBVIOUS
    <3>3. j + 1 = (q + 1) * SNMOD + expectsn'
      BY <1>3, <1>5, <2>2, <3>1, <3>2
    <3> QED
      BY <3>2, <3>3
  <2> QED
    BY <1>3, <2>1, <2>2
<1>8. j + 1 \in Nat /\ j + 1 > 0
  OBVIOUS
<1>9. rxsize' = Size[assembled'[1][1]]
  BY <1>1, <1>2 DEF OrderInv
<1> QED
  BY <1>2, <1>6, <1>7, <1>8, <1>9 DEF OrderInv

LEMMA OrderStep == RxInv /\ OrderInv /\ [Next]_vars => OrderInv'
<1> SUFFICES ASSUME RxInv, OrderInv, [Next]_vars PROVE OrderInv'
  OBVIOUS
<1>1. CASE Receive
  <2>1. PICK m \in Msgs :
          \/ ReceiveFFOverflow(m)
          \/ ReceiveFF(m)
          \/ ReceiveSF(m)
          \/ \E k \in 1 .. CfCount(m) :
               \/ ReceiveCFUnexpected(m, k)
               \/ ReceiveCFLast(m, k)
               \/ ReceiveCFBlockEnd(m, k)
               \/ ReceiveCFInBlock(m, k)
    BY <1>1 DEF Receive
  <2>2. CASE ReceiveFFOverflow(m) \/ ReceiveSF(m)
    BY <2>2, OrderSame DEF ReceiveFFOverflow, ReceiveSF
  <2>3. CASE ReceiveFF(m)
    BY <2>3, OrderFirst
  <2>4. ASSUME NEW k \in 1 .. CfCount(m), ReceiveCFUnexpected(m, k) PROVE OrderInv'
    BY <2>4, OrderSame DEF ReceiveCFUnexpected
  <2>5. ASSUME NEW k \in 1 .. CfCount(m), ReceiveCFLast(m, k) PROVE OrderInv'
    BY <2>5, OrderAccept DEF ReceiveCFLast, OrderInv
  <2> QED
    BY <2>1, <2>2, <2>3, <2>4, <2>5, OrderMiddle
<1>2. CASE ProcessRx
  BY <1>2, OrderSame DEF ProcessRx
<1>3. CASE SetBlockSize \/ SetCrTimeout \/ ProcessTick
  BY <1>3, OrderSame DEF SetBlockSize, SetCrTimeout, ProcessTick, rxds
<1>4. CASE UNCHANGED vars
  BY <1>4, OrderSame DEF vars, rxds
<1> QED
  BY <1>1, <1>2, <1>3, <1>4 DEF Next

\* Frames of one message are put together in its order, whatever is lost, repeated or
\* late, while the serial numbers tell its frames apart (docan-receiver.cpp:64-98).
THEOREM RxInOrder == Spec => []InOrder
<1>1. Init => OrderInv
  <2> SUFFICES ASSUME Init, NEW m \in Msgs PROVE assembled = Part(m, 0, Len(assembled))
    BY DEF Init, OrderInv, InOrder
  <2>1. assembled = <<>> /\ Len(assembled) = 0
    BY DEF Init
  <2>2. Part(m, 0, 0) \in Seq(Bytes) /\ Len(Part(m, 0, 0)) = 0
    BY PartIsBytes
  <2>3. Part(m, 0, 0) = <<>>
    BY <2>2, EmptySeq
  <2> QED
    BY <2>1, <2>3
<1>2. OrderInv => InOrder
  BY DEF OrderInv
<1> QED
  BY <1>1, <1>2, OrderStep, RxInvariant, PTL DEF Spec

-----------------------------------------------------------------------------
(* What makes a reception end: the safety half of ReceptionEnds.           *)

\* A reception that goes on has its timer running.  Every frame it takes arms the timer
\* for the whole period; no other step does: it is a tick, and takes one off what is left
\* (docan-receiver.cpp:9-17, 59, 74).
ReceptionRunsOut ==
    [][state' = "ACTIVE" =>
          /\ Cr_tim'.active
          /\ Receive => Cr_tim'.left = Cr_tim'.period
          /\ ~Receive => /\ Cr_tim' = Ticked(Cr_tim)
                         /\ Cr_tim.left > 0 => Cr_tim'.left < Cr_tim.left]_vars

\* A frame that leaves the receiver waiting for the next one arms the timer.
LEMMA FrameArms ==
  ASSUME Receive, state' = "ACTIVE"
  PROVE  Cr_tim' = RestartTimer(Cr_tim)
<1>1. ASSUME NEW m \in Msgs, ReceiveFFOverflow(m) \/ ReceiveSF(m) PROVE FALSE
  BY <1>1 DEF ReceiveFFOverflow, ReceiveSF
<1>2. ASSUME NEW m \in Msgs, ReceiveFF(m) PROVE Cr_tim' = RestartTimer(Cr_tim)
  BY <1>2 DEF ReceiveFF, ArmCr
<1>3. ASSUME NEW m \in Msgs, NEW k \in 1 .. CfCount(m),
             ReceiveCFUnexpected(m, k) \/ ReceiveCFLast(m, k)
      PROVE  FALSE
  BY <1>3 DEF ReceiveCFUnexpected, ReceiveCFLast
<1>4. ASSUME NEW m \in Msgs, NEW k \in 1 .. CfCount(m),
             ReceiveCFBlockEnd(m, k) \/ ReceiveCFInBlock(m, k)
      PROVE  Cr_tim' = RestartTimer(Cr_tim)
  BY <1>4 DEF ReceiveCFBlockEnd, ReceiveCFInBlock, AcceptCF, ArmCr
<1> QED
  BY <1>1, <1>2, <1>3, <1>4, Zenon DEF Receive

LEMMA TickTakesOne ==
  ASSUME NEW t \in TimerType(CrPeriods)
  PROVE  t.left > 0 => Ticked(t).left < t.left
<1>1. t.left \in Nat
  BY DEF TimerType
<1>2. ASSUME t.left > 0 PROVE Ticked(t).left = t.left - 1
  BY <1>2 DEF Ticked, TimerType
<1> QED
  BY <1>1, <1>2

\* A reception in which no frame arrives loses time with every tick, and nothing gives it
\* any back (docan-receiver.cpp:9-17, 59, 74).
THEOREM RxReceptionRunsOut == Spec => ReceptionRunsOut
<1> DEFINE A == state' = "ACTIVE" =>
                   /\ Cr_tim'.active
                   /\ Receive => Cr_tim'.left = Cr_tim'.period
                   /\ ~Receive => /\ Cr_tim' = Ticked(Cr_tim)
                                  /\ Cr_tim.left > 0 => Cr_tim'.left < Cr_tim.left
<1>1. ASSUME RxInv, Next, RxInv' PROVE A
  <2> SUFFICES ASSUME state' = "ACTIVE" PROVE A
    OBVIOUS
  <2>1. Cr_tim'.active
    BY <1>1 DEF RxInv
  <2>2. Cr_tim \in TimerType(CrPeriods)
    BY <1>1 DEF RxInv, TypeOK
  <2>3. CASE Receive
    <3>1. Cr_tim'.left = Cr_tim'.period
      BY <2>3, FrameArms DEF RestartTimer, StartTimer
    <3> QED
      BY <2>1, <2>3, <3>1
  <2>4. CASE ProcessRx \/ SetBlockSize \/ SetCrTimeout
    BY <2>4 DEF ProcessRx, SetBlockSize, SetCrTimeout, rxds
  <2>5. CASE ProcessTick /\ ~Receive
    <3>1. Cr_tim' = Ticked(Cr_tim)
      BY <2>5 DEF ProcessTick
    <3> QED
      BY <2>1, <2>2, <2>5, <3>1, TickTakesOne
  <2> QED
    BY <1>1, <2>3, <2>4, <2>5 DEF Next
<1>2. RxInv /\ [Next]_vars => RxInv'
  BY ReceiveInv, TimeoutInv, SetParameterInv, TickInv, StutterInv DEF Next
<1>3. RxInv /\ [Next]_vars => [A]_vars
  BY <1>1, <1>2
<1>4. ReceptionRunsOut <=> [][A]_vars
  BY DEF ReceptionRunsOut
<1> HIDE DEF A
<1> QED
  BY <1>3, <1>4, RxInvariant, PTL DEF Spec

=============================================================================
