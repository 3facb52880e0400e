------------------------- MODULE DoCanSender_proofs -------------------------
(***************************************************************************)
(* Proofs about DoCanSender for every set of messages and lengths, number  *)
(* of serial numbers, block sizes, STmin values and timeouts.  TxInv is    *)
(* inductive; the invariants of the transfer and what a step may confirm   *)
(* to the client follow from it.                                           *)
(***************************************************************************)
EXTENDS DoCanSender, SequenceTheorems, TLAPS

USE FramesAssumption, NumbersAssumption, EnvironmentAssumption

-----------------------------------------------------------------------------
(* Serial numbers wrap (docan-sender.cpp:81).                              *)

LEMMA Euclid ==
  ASSUME NEW n \in Nat
  PROVE  /\ n \div SNMOD \in Nat /\ n % SNMOD \in 0 .. SNMOD - 1
         /\ n = (n \div SNMOD) * SNMOD + (n % SNMOD)
  OBVIOUS

LEMMA Remainder ==
  ASSUME NEW q \in Nat, NEW r \in 0 .. SNMOD - 1
  PROVE  (q * SNMOD + r) % SNMOD = r
  OBVIOUS

LEMMA RemainderSmall == ASSUME NEW r \in 0 .. SNMOD - 1 PROVE r % SNMOD = r
  OBVIOUS

\* Counting the serial number on is counting the frames.
LEMMA NextRemainder ==
  ASSUME NEW n \in Nat
  PROVE  ((n % SNMOD) + 1) % SNMOD = (n + 1) % SNMOD
<1> DEFINE q == n \div SNMOD
           r == n % SNMOD
<1>1. q \in Nat /\ r \in 0 .. SNMOD - 1 /\ n = q * SNMOD + r
  BY Euclid
<1> HIDE DEF q, r
<1>2. CASE r + 1 < SNMOD
  <2>1. n + 1 = q * SNMOD + (r + 1) /\ r + 1 \in 0 .. SNMOD - 1
    BY <1>1, <1>2
  <2>2. (n + 1) % SNMOD = r + 1
    BY <1>1, <2>1, Remainder
  <2> QED
    BY <2>1, <2>2, RemainderSmall DEF r
<1>3. CASE r + 1 = SNMOD
  <2>1. n + 1 = (q + 1) * SNMOD + 0 /\ 0 \in 0 .. SNMOD - 1 /\ q + 1 \in Nat
    BY <1>1, <1>3
  <2>2. (n + 1) % SNMOD = 0
    BY <1>1, <2>1, Remainder
  <2>3. SNMOD % SNMOD = 0
    OBVIOUS
  <2> QED
    BY <1>3, <2>2, <2>3 DEF r
<1> QED
  BY <1>1, <1>2, <1>3

-----------------------------------------------------------------------------
(* Timers, frames and outputs.                                             *)

LEMMA TimerOps ==
  ASSUME NEW P \in SUBSET Nat, NEW t \in TimerType(P), NEW p \in P
  PROVE  /\ RestartTimer(t) \in TimerType(P) /\ RestartTimer(t).active = TRUE
         /\ StartTimer(t, p) \in TimerType(P)
         /\ StartRepeat(t, p, TRUE) \in TimerType(P)
         /\ StopTimer(t) \in TimerType(P)
         /\ Polled(t) \in TimerType(P)
         /\ Ticked(t) \in TimerType(P) /\ Ticked(t).active = t.active
<1>1. t.period \in P /\ t.period \in Nat /\ t.left \in Nat
      /\ t.active \in BOOLEAN /\ t.endless \in BOOLEAN
  BY DEF TimerType
<1>2. RestartTimer(t) \in TimerType(P) /\ RestartTimer(t).active = TRUE
  BY <1>1 DEF RestartTimer, StartTimer, TimerType
<1>3. StartTimer(t, p) \in TimerType(P) /\ StartRepeat(t, p, TRUE) \in TimerType(P)
  BY <1>1 DEF StartTimer, StartRepeat, TimerType
<1>4. StopTimer(t) \in TimerType(P)
  BY <1>1 DEF StopTimer, TimerType
<1>5. Polled(t) \in TimerType(P)
  BY <1>1 DEF Polled, HasElapsed, TimerType
<1>6. Ticked(t) \in TimerType(P) /\ Ticked(t).active = t.active
  <2>1. CASE t.left > 0
    <3>1. Ticked(t) = [t EXCEPT !.left = t.left - 1]
      BY <2>1 DEF Ticked
    <3>2. t.left - 1 \in Nat
      BY <1>1, <2>1
    <3> QED
      BY <3>1, <3>2 DEF TimerType
  <2>2. CASE ~(t.left > 0)
    BY <2>2 DEF Ticked
  <2> QED
    BY <2>1, <2>2
<1> QED
  BY <1>2, <1>3, <1>4, <1>5, <1>6

LEMMA OneElement == ASSUME NEW S, NEW x \in S PROVE <<x>> \in Seq(S) /\ Len(<<x>>) = 1
  OBVIOUS

LEMMA NoElement == ASSUME NEW S PROVE <<>> \in Seq(S) /\ Len(<<>>) = 0
  OBVIOUS

LEMMA FramesAreFrames ==
  ASSUME NEW m \in Msgs, NEW n \in 0 .. SNMOD - 1, NEW d \in Chunks
  PROVE  /\ SF(m) \in FrameType /\ FF(m) \in FrameType /\ CF(n, d) \in FrameType
         /\ Chunk(m, 0) \in Chunks
<1>1. Chunk(m, 0) \in Chunks /\ 0 \in 0 .. SNMOD - 1
  BY DEF Chunk, Chunks
<1> QED
  BY <1>1 DEF SF, FF, CF, FrameType

\* Outputs of a step that sends nothing.
LEMMA OutputTypes ==
  ASSUME TypeOK, Put(<<>>)
  PROVE  /\ wire' \in Seq(FrameType)
         /\ Confirm(<<>>) => events' \in Seq(Results)
         /\ \A r \in Results : Confirm(<<r>>) => events' \in Seq(Results)
  BY NoElement, OneElement DEF Put, Confirm

-----------------------------------------------------------------------------
(* The inductive invariant, one lemma per kind of step.                    *)

LEMMA InitInv == Init => TxInv
<1> SUFFICES ASSUME Init PROVE TxInv
  OBVIOUS
<1>1. N_As_tim \in TimerType(AsPeriods)
  BY DEF Init, NewTimer, TimerType
<1>2. N_Bs_tim \in TimerType(BsPeriods)
  BY DEF Init, NewTimer, TimerType
<1>3. STmin_tim \in TimerType(0 .. StMinLimit - 1)
  BY DEF Init, NewTimer, TimerType
<1>4. /\ 0 \in 0 .. SNMOD - 1 /\ 0 \in 0 .. StMinLimit - 1
      /\ Chunk(NoMsg, 0) \in Chunks
  BY DEF Chunk, Chunks
<1>5. /\ wire \in Seq(FrameType) /\ events \in Seq(Results) /\ cfs \in Seq(FrameType)
      /\ DOMAIN cfs = {}
  BY NoElement DEF Init
<1>6. prev_data_sent \in BOOLEAN /\ loop \in BOOLEAN /\ clean \in BOOLEAN
  BY DEF Init
<1>7. /\ state = "IDLE" /\ ret = "none" /\ can_message \in Chunks
      /\ txbuff = NoMsg /\ credit = 0
  BY <1>4 DEF Init
<1>8. TypeOK
  <2>1. NewTxDescriptor
    BY DEF Init
  <2> QED
    BY <1>1, <1>2, <1>3, <1>4, <1>5, <1>6, <1>7, <2>1 DEF NewTxDescriptor, TypeOK
<1> QED
  BY <1>5, <1>8 DEF Init, TxInv, WithinBlock, SentIsCounted, FirstWaitGuarded, WireInOrder

\* A step that leaves the sender idle and the frames of the latest transfer alone.
LEMMA IdleInv ==
  ASSUME TxInv, TypeOK', state' = "IDLE", ~loop', UNCHANGED <<txbuff, cfs, credit>>,
         clean' => clean /\ prev_data_sent' = prev_data_sent
  PROVE  TxInv'
  BY DEF TxInv, WithinBlock, SentIsCounted, FirstWaitGuarded, WireInOrder

\* A step that changes nothing of the transfer but its timers, with N_Bs going on.
LEMMA SameInv ==
  ASSUME TxInv, TypeOK', UNCHANGED <<state, txds, buffers, loop, history>>,
         N_Bs_tim.active /\ state = "WAIT" => N_Bs_tim'.active
  PROVE  TxInv'
  BY DEF TxInv, WithinBlock, SentIsCounted, FirstWaitGuarded, WireInOrder,
         txds, buffers, history

\* Send (docan-sender.cpp:20-63).
LEMMA RequestInv == TxInv /\ Request => TxInv'
<1> SUFFICES ASSUME TxInv, Request PROVE TxInv'
  OBVIOUS
<1>1. TypeOK
  BY DEF TxInv
<1>2. CASE RequestEmpty \/ \E m \in Msgs : RequestTooLong(m)
  <2>1. /\ ret' \in {"OVERFLOW", "WRONG_STATE"} /\ Put(<<>>) /\ Confirm(<<>>)
        /\ UNCHANGED <<state, txds, buffers, timers, loop, history>>
    BY <1>2 DEF RequestEmpty, RequestTooLong
  <2>2. wire' \in Seq(FrameType) /\ events' \in Seq(Results)
    BY <1>1, <2>1, OutputTypes
  <2>3. TypeOK'
    BY <1>1, <2>1, <2>2 DEF TypeOK, txds, buffers, timers, history
  <2> QED
    BY <2>1, <2>3, SameInv DEF timers
<1>3. ASSUME NEW m \in Msgs, RequestSF(m) \/ RequestFailed(m)
      PROVE  TxInv'
  <2>1. /\ state' = "IDLE" /\ ret' = "OK" /\ ~loop /\ loop' = loop
        /\ size' = Frames[m] /\ passed' = 1 /\ can_message' = Chunk(m, 0)
        /\ UNCHANGED <<sn, currblknum, segblkcount, stmin, prev_data_sent, N_As_tim,
                       N_Bs_tim, STmin_tim, txbuff, cfs, credit, clean>>
    BY <1>3 DEF RequestSF, RequestFailed, Accept, history
  <2>2. SF(m) \in FrameType /\ Chunk(m, 0) \in Chunks
    BY FramesAreFrames DEF Chunk, Chunks, SF, FrameType
  <2>3. wire' \in Seq(FrameType) /\ events' \in Seq(Results)
    <3>1. CASE RequestSF(m)
      BY <2>2, <3>1, OneElement DEF RequestSF, Put, Confirm, Results
    <3>2. CASE RequestFailed(m)
      BY <1>1, <3>2, OutputTypes DEF RequestFailed
    <3> QED
      BY <1>3, <3>1, <3>2
  <2>4. TypeOK'
    BY <1>1, <2>1, <2>2, <2>3 DEF TypeOK
  <2> QED
    BY <2>1, <2>4, IdleInv
<1>4. ASSUME NEW m \in Msgs, RequestFF(m)
      PROVE  TxInv'
  <2>1. /\ state' = "WAIT" /\ ret' = "OK" /\ ~loop /\ loop' = loop
        /\ size' = Frames[m] /\ passed' = 1 /\ can_message' = Chunk(m, 0)
        /\ sn' = 0 /\ txbuff' = m /\ cfs' = <<>> /\ credit' = 0 /\ clean' = prev_data_sent
        /\ N_Bs_tim' = RestartTimer(N_Bs_tim)
        /\ wire' = <<FF(m)>> /\ events' = <<>>
        /\ UNCHANGED <<currblknum, segblkcount, stmin, prev_data_sent, N_As_tim, STmin_tim>>
    BY <1>4 DEF RequestFF, Accept, ArmBs, ResetSn, Put, Confirm
  <2>2. Frames[m] \in Nat /\ Frames[m] > 1
    BY <1>4 DEF RequestFF, IsSingle
  <2>3. N_Bs_tim' \in TimerType(BsPeriods) /\ N_Bs_tim'.active = TRUE
    <3>1. PICK p \in BsPeriods : TRUE
      OBVIOUS
    <3>2. BsPeriods \in SUBSET Nat /\ N_Bs_tim \in TimerType(BsPeriods)
      BY <1>1 DEF TypeOK
    <3> QED
      BY <2>1, <3>1, <3>2, TimerOps
  <2>4. /\ FF(m) \in FrameType /\ Chunk(m, 0) \in Chunks /\ 0 \in 0 .. SNMOD - 1
    BY DEF Chunk, Chunks, FF, FrameType
  <2>5. /\ wire' \in Seq(FrameType) /\ events' \in Seq(Results) /\ cfs' \in Seq(FrameType)
        /\ DOMAIN cfs' = {} /\ Len(cfs') = 0
    BY <2>1, <2>4, OneElement, NoElement
  <2>6. TypeOK'
    BY <1>1, <2>1, <2>2, <2>3, <2>4, <2>5 DEF TypeOK
  <2>7. sn' = Len(cfs') % SNMOD
    BY <2>1, <2>4, <2>5, RemainderSmall
  <2> QED
    BY <2>1, <2>2, <2>3, <2>5, <2>6, <2>7
       DEF TxInv, WithinBlock, SentIsCounted, FirstWaitGuarded, WireInOrder
<1> QED
  BY <1>2, <1>3, <1>4 DEF Request

\* The polls of N_Bs and STmin (docan-sender.cpp:70-77, 144-148).
LEMMA PollInv == TxInv /\ (TimeoutBs \/ PauseEnds) => TxInv'
<1> SUFFICES ASSUME TxInv, TimeoutBs \/ PauseEnds PROVE TxInv'
  OBVIOUS
<1>1. TypeOK
  BY DEF TxInv
<1>2. CASE TimeoutBs
  <2>1. /\ state = "WAIT" /\ state' = "IDLE" /\ N_Bs_tim' = Polled(N_Bs_tim)
        /\ Put(<<>>) /\ Confirm(<<"TIMEOUT_Bs">>)
        /\ UNCHANGED <<ret, txds, buffers, N_As_tim, STmin_tim, loop, history>>
    BY <1>2 DEF TimeoutBs
  <2>2. N_Bs_tim' \in TimerType(BsPeriods)
    <3>1. PICK p \in BsPeriods : TRUE
      OBVIOUS
    <3>2. BsPeriods \in SUBSET Nat /\ N_Bs_tim \in TimerType(BsPeriods)
      BY <1>1 DEF TypeOK
    <3> QED
      BY <2>1, <3>1, <3>2, TimerOps
  <2>3. wire' \in Seq(FrameType) /\ events' \in Seq(Results)
    BY <1>1, <2>1, OutputTypes DEF Results
  <2>4. TypeOK'
    BY <1>1, <2>1, <2>2, <2>3 DEF TypeOK, txds, buffers, history
  <2>5. ~loop'
    BY <2>1 DEF TxInv
  <2> QED
    BY <2>1, <2>4, <2>5, IdleInv DEF buffers, history
<1>3. CASE PauseEnds
  <2>1. /\ state = "PAUSE" /\ state' = "MF_DT" /\ STmin_tim' = Polled(STmin_tim)
        /\ Put(<<>>) /\ Confirm(<<>>)
        /\ UNCHANGED <<ret, txds, buffers, N_As_tim, N_Bs_tim, loop, history>>
    BY <1>3 DEF PauseEnds, Silent
  <2>2. STmin_tim' \in TimerType(0 .. StMinLimit - 1)
    <3>1. 0 .. StMinLimit - 1 \in SUBSET Nat /\ 0 \in 0 .. StMinLimit - 1
          /\ STmin_tim \in TimerType(0 .. StMinLimit - 1)
      BY <1>1 DEF TypeOK
    <3> QED
      BY <2>1, <3>1, TimerOps
  <2>3. wire' \in Seq(FrameType) /\ events' \in Seq(Results)
    BY <1>1, <2>1, OutputTypes
  <2>4. TypeOK'
    BY <1>1, <2>1, <2>2, <2>3 DEF TypeOK, txds, buffers, history
  <2> QED
    BY <2>1, <2>4 DEF TxInv, WithinBlock, SentIsCounted, FirstWaitGuarded, WireInOrder,
                      txds, buffers, history
<1> QED
  BY <1>2, <1>3

\* One pass of the loop that sends frames (docan-sender.cpp:79-142).
LEMMA SendInv == TxInv /\ SendCF => TxInv'
<1> SUFFICES ASSUME TxInv, SendCF PROVE TxInv'
  OBVIOUS
<1> DEFINE n == Len(cfs)
<1>1. TypeOK
  BY DEF TxInv
<1>2. /\ PackCF /\ state = "MF_DT"
      /\ UNCHANGED <<size, segblkcount, stmin, txbuff, N_Bs_tim, STmin_tim, ret>>
      /\ sn' = NextSn /\ can_message' = Packed
  BY DEF SendCF, SentLast, SentBlockEnd, SentThenPause, SentThenNext, SentCF,
         RetryLater, TimeoutAs, NotSentCF, PackCF
<1>3. /\ NextSn \in 0 .. SNMOD - 1
      /\ Packed \in Chunks
      /\ CF(NextSn, Packed) \in FrameType
  <2>1. NextSn \in 0 .. SNMOD - 1
    BY <1>1 DEF NextSn, TypeOK
  <2>2. Packed \in Chunks
    BY <1>1 DEF Packed, TypeOK, Chunks, Chunk
  <2> QED
    BY <2>1, <2>2 DEF CF, FrameType
<1>4. ArmedAs \in TimerType(AsPeriods) /\ StopTimer(ArmedAs) \in TimerType(AsPeriods)
      /\ Polled(ArmedAs) \in TimerType(AsPeriods)
  <2>1. PICK p \in AsPeriods : TRUE
    OBVIOUS
  <2>2. AsPeriods \in SUBSET Nat /\ N_As_tim \in TimerType(AsPeriods)
    BY <1>1 DEF TypeOK
  <2>3. ArmedAs \in TimerType(AsPeriods)
    BY <2>1, <2>2, TimerOps DEF ArmedAs
  <2> QED
    BY <2>1, <2>2, <2>3, TimerOps
<1>5. /\ n \in Nat /\ passed = n + 1 /\ passed < size /\ size = Frames[txbuff]
      /\ passed \in Nat /\ size \in Nat /\ sn \in Nat
      /\ currblknum \in Nat /\ segblkcount \in Nat /\ credit \in Int
      /\ credit > 0 /\ credit = Allowed(segblkcount) - currblknum
      /\ txbuff \in Msgs
  BY <1>1, <1>2, LenProperties DEF TxInv, SentIsCounted, TypeOK
<1>6. CASE SentCF
  <2>1. /\ N_As_tim' \in TimerType(AsPeriods)
        /\ prev_data_sent' = TRUE /\ passed' = passed + 1
        /\ wire' = <<CF(NextSn, Packed)>>
        /\ cfs' = Append(cfs, CF(NextSn, Packed))
        /\ credit' = credit - 1 /\ clean' = clean
    BY <1>4, <1>6 DEF SentCF, SentPassed, Put
  <2>2. /\ cfs' \in Seq(FrameType) /\ Len(cfs') = n + 1
        /\ \A i \in 1 .. n : cfs'[i] = cfs[i]
        /\ cfs'[n + 1] = CF(NextSn, Packed)
        /\ wire' \in Seq(FrameType)
    BY <1>1, <1>3, <2>1, AppendProperties, OneElement DEF TypeOK
  <2>3. /\ state' \in {"IDLE", "WAIT", "PAUSE", "MF_DT"}
        /\ loop' \in BOOLEAN /\ (loop' => state' = "MF_DT")
        /\ events' \in Seq(Results)
        /\ state' # "IDLE" => passed' < size /\ currblknum' = currblknum + 1
        /\ state' \in {"PAUSE", "MF_DT"} => ~BlockEnds
        /\ currblknum' \in Nat
    <3>1. CASE SentLast
      <4>1. <<"OK_s">> \in Seq(Results)
        BY OneElement DEF Results
      <4> QED
        BY <1>5, <3>1, <4>1 DEF SentLast, Confirm
    <3>2. CASE SentBlockEnd \/ SentThenPause \/ SentThenNext
      <4>1. events' = <<>> /\ <<>> \in Seq(Results)
        BY <3>2, NoElement DEF SentBlockEnd, SentThenPause, SentThenNext, Confirm
      <4>2. passed' < size /\ currblknum' = currblknum + 1
        BY <3>2 DEF SentBlockEnd, SentThenPause, SentThenNext
      <4>3. /\ state' \in {"WAIT", "PAUSE", "MF_DT"} /\ loop' \in BOOLEAN
            /\ loop' => state' = "MF_DT"
            /\ state' \in {"PAUSE", "MF_DT"} => ~BlockEnds
        BY <1>2, <3>2 DEF SentBlockEnd, SentThenPause, SentThenNext
      <4>4. currblknum' \in Nat
        BY <1>5, <4>2
      <4> QED
        BY <1>2, <4>1, <4>2, <4>3, <4>4
    <3>3. ~RetryLater /\ ~TimeoutAs
      BY <2>1, <2>2, <1>1 DEF RetryLater, TimeoutAs, NotSentCF
    <3> QED
      BY <3>1, <3>2, <3>3 DEF SendCF
  <2>4. TypeOK'
    BY <1>1, <1>2, <1>3, <2>1, <2>2, <2>3 DEF TypeOK
  <2>5. WithinBlock' /\ (state' \in {"MF_DT", "PAUSE"} =>
            credit' > 0 /\ credit' = Allowed(segblkcount') - currblknum')
    <3>1. credit' >= 0 /\ credit' = Allowed(segblkcount) - (currblknum + 1)
      BY <1>5, <2>1 DEF Allowed
    <3>2. ~BlockEnds => Allowed(segblkcount) = segblkcount /\ currblknum + 1 < segblkcount
      BY <1>5 DEF BlockEnds, Allowed
    <3>3. segblkcount' = segblkcount /\ Allowed(segblkcount') = Allowed(segblkcount)
      BY <1>2 DEF Allowed
    <3> QED
      BY <1>5, <2>3, <3>1, <3>2, <3>3, SMTT(30) DEF WithinBlock
  <2>6. SentIsCounted'
    BY <1>2, <1>5, <2>1, <2>2, <2>3 DEF SentIsCounted
  <2>7. FirstWaitGuarded'
    BY <2>2, <1>5, NoElement DEF FirstWaitGuarded
  <2>8. clean => NextSn = (n + 1) % SNMOD /\ Packed = Chunk(txbuff, n + 1)
    <3>1. clean => sn = n % SNMOD /\ prev_data_sent
      BY <1>2 DEF TxInv
    <3>2. clean => NextSn = (n + 1) % SNMOD
      BY <1>5, <3>1, NextRemainder DEF NextSn
    <3> QED
      BY <1>5, <3>1, <3>2 DEF Packed
  <2>9. WireInOrder'
    <3>1. SUFFICES ASSUME clean, NEW i \in DOMAIN cfs'
                   PROVE  cfs'[i] = CF(i % SNMOD, Chunk(txbuff, i))
      BY <1>2, <2>1 DEF WireInOrder
    <3>2. i \in 1 .. n + 1 /\ DOMAIN cfs = 1 .. n
      BY <1>1, <2>2, LenProperties DEF TypeOK
    <3>3. CASE i \in 1 .. n
      BY <2>2, <3>1, <3>2, <3>3 DEF TxInv, WireInOrder
    <3>4. CASE i = n + 1
      BY <2>2, <2>8, <3>1, <3>4
    <3> QED
      BY <1>5, <3>2, <3>3, <3>4
  <2> QED
    BY <1>2, <1>5, <2>1, <2>2, <2>3, <2>4, <2>5, <2>6, <2>7, <2>8, <2>9 DEF TxInv
<1>7. CASE NotSentCF
  <2>1. /\ prev_data_sent' = FALSE /\ loop' = FALSE /\ clean' = FALSE /\ Put(<<>>)
        /\ UNCHANGED <<passed, currblknum, cfs, credit>>
    BY <1>7 DEF NotSentCF
  <2>2. /\ state' \in {"IDLE", "MF_DT"}
        /\ N_As_tim' \in TimerType(AsPeriods)
        /\ events' \in Seq(Results)
    <3>1. CASE RetryLater
      BY <1>2, <1>4, <3>1, NoElement DEF RetryLater, Confirm
    <3>2. CASE TimeoutAs
      <4>1. <<"TIMEOUT_As">> \in Seq(Results)
        BY OneElement DEF Results
      <4> QED
        BY <1>4, <3>2, <4>1 DEF TimeoutAs, Confirm
    <3>3. ~SentCF
      <4>1. SentCF => cfs' = Append(cfs, CF(NextSn, Packed))
        BY DEF SentCF
      <4>2. Append(cfs, CF(NextSn, Packed)) # cfs
        BY <1>1, <1>3, AppendProperties DEF TypeOK
      <4> QED
        BY <2>1, <4>1, <4>2
    <3> QED
      BY <3>1, <3>2, <3>3 DEF SendCF, SentLast, SentBlockEnd, SentThenPause, SentThenNext
  <2>3. wire' \in Seq(FrameType)
    BY <1>1, <2>1, OutputTypes
  <2>4. /\ prev_data_sent' \in BOOLEAN /\ loop' \in BOOLEAN /\ clean' \in BOOLEAN
        /\ ~loop' /\ ~clean'
    BY <2>1
  <2>5. /\ UNCHANGED <<passed, currblknum, cfs, credit>>
        /\ sn' \in 0 .. SNMOD - 1 /\ can_message' \in Chunks
    BY <1>2, <1>3, <2>1
  <2>6. TypeOK'
    BY <1>1, <1>2, <2>2, <2>3, <2>4, <2>5 DEF TypeOK
  <2> QED
    BY <1>2, <2>2, <2>4, <2>5, <2>6
       DEF TxInv, WithinBlock, SentIsCounted, FirstWaitGuarded, WireInOrder
<1> QED
  BY <1>6, <1>7 DEF SendCF, SentLast, SentBlockEnd, SentThenPause, SentThenNext,
                    RetryLater, TimeoutAs

\* Flow control frames (docan-sender.cpp:152-204).
LEMMA FlowControlInv == TxInv /\ OnFlowControl => TxInv'
<1> SUFFICES ASSUME TxInv, OnFlowControl PROVE TxInv'
  OBVIOUS
<1>1. TypeOK
  BY DEF TxInv
<1>2. CASE FlowControlUnexpected \/ \E r \in {"BUFFER_OVFLW", "INVALID_FS"} : FlowControlStop(r)
  <2>1. /\ state' = "IDLE" /\ ~loop /\ Put(<<>>)
        /\ UNCHANGED <<ret, txds, buffers, timers, loop, history>>
    BY <1>2 DEF FlowControlUnexpected, FlowControlStop
  <2>2. \E r \in Results : Confirm(<<r>>)
    BY <1>2 DEF FlowControlUnexpected, UnexpectedResults, FlowControlStop, Results
  <2>3. wire' \in Seq(FrameType) /\ events' \in Seq(Results)
    BY <1>1, <2>1, <2>2, OutputTypes
  <2>4. TypeOK'
    BY <1>1, <2>1, <2>3 DEF TypeOK, txds, buffers, timers, history
  <2>5. ~loop'
    BY <2>1
  <2> QED
    BY <2>1, <2>4, <2>5, IdleInv DEF buffers, history
<1>3. ASSUME NEW blks \in BlkSizes, NEW stm \in StMins, FlowControlCTS(blks, stm)
      PROVE  TxInv'
  <2>1. /\ state = "WAIT" /\ ~loop /\ state' \in {"PAUSE", "MF_DT"}
        /\ N_Bs_tim' = StopTimer(N_Bs_tim)
        /\ currblknum' = 0 /\ segblkcount' = blks /\ stmin' = StMinTicks(stm)
        /\ STmin_tim' = StartRepeat(STmin_tim, stmin', TRUE)
        /\ credit' = Allowed(blks)
        /\ Put(<<>>) /\ Confirm(<<>>) /\ ret' = ret
        /\ UNCHANGED <<passed, size, sn, buffers, N_As_tim, loop, cfs, clean>>
    BY <1>3 DEF FlowControlCTS, StartStMin, Silent
  <2>2. StMinTicks(stm) \in 0 .. StMinLimit - 1
    BY DEF StMinTicks
  <2>3. STmin_tim' \in TimerType(0 .. StMinLimit - 1)
    <3>1. 0 .. StMinLimit - 1 \in SUBSET Nat
          /\ STmin_tim \in TimerType(0 .. StMinLimit - 1)
      BY <1>1 DEF TypeOK
    <3> QED
      BY <2>1, <2>2, <3>1, TimerOps
  <2>4. N_Bs_tim' \in TimerType(BsPeriods)
    <3>1. PICK p \in BsPeriods : TRUE
      OBVIOUS
    <3>2. BsPeriods \in SUBSET Nat /\ N_Bs_tim \in TimerType(BsPeriods)
      BY <1>1 DEF TypeOK
    <3> QED
      BY <2>1, <3>1, <3>2, TimerOps
  <2>5. wire' \in Seq(FrameType) /\ events' \in Seq(Results)
    BY <1>1, <2>1, OutputTypes
  <2>6. blks \in Nat /\ Allowed(blks) \in Nat /\ Allowed(blks) > 0
    BY DEF Allowed
  <2>7. TypeOK'
    <3>1. /\ currblknum' \in Nat /\ segblkcount' \in Nat /\ credit' \in Int
          /\ stmin' \in 0 .. StMinLimit - 1
      BY <2>1, <2>2, <2>6
    <3>2. state' \in {"IDLE", "MF_DT", "PAUSE", "WAIT"}
      BY <2>1
    <3>3. UNCHANGED <<ret, passed, size, sn, prev_data_sent, can_message, txbuff, N_As_tim,
                      loop, cfs, clean>>
      BY <2>1 DEF buffers
    <3> QED
      BY <1>1, <2>3, <2>4, <2>5, <3>1, <3>2, <3>3 DEF TypeOK
  <2>8. /\ credit' > 0 /\ credit' >= 0
        /\ credit' = Allowed(segblkcount') - currblknum'
    BY <2>1, <2>6
  <2> QED
    BY <2>1, <2>7, <2>8 DEF TxInv, WithinBlock, SentIsCounted, FirstWaitGuarded,
                            WireInOrder, buffers
<1>4. CASE FlowControlWait
  <2>1. /\ state = "WAIT" /\ Put(<<>>) /\ Confirm(<<>>)
        /\ N_Bs_tim' = RestartTimer(N_Bs_tim)
        /\ UNCHANGED <<ret, state, txds, buffers, N_As_tim, STmin_tim, loop, history>>
    BY <1>4 DEF FlowControlWait, Silent
  <2>2. N_Bs_tim' \in TimerType(BsPeriods) /\ N_Bs_tim'.active = TRUE
    <3>1. PICK p \in BsPeriods : TRUE
      OBVIOUS
    <3>2. BsPeriods \in SUBSET Nat /\ N_Bs_tim \in TimerType(BsPeriods)
      BY <1>1 DEF TypeOK
    <3> QED
      BY <2>1, <3>1, <3>2, TimerOps
  <2>3. wire' \in Seq(FrameType) /\ events' \in Seq(Results)
    BY <1>1, <2>1, OutputTypes
  <2>4. TypeOK'
    BY <1>1, <2>1, <2>2, <2>3 DEF TypeOK, txds, buffers, history
  <2> QED
    BY <2>1, <2>2, <2>4, SameInv
<1> QED
  BY <1>2, <1>3, <1>4 DEF OnFlowControl

\* The setters of the timeouts, which DoCAN_TP calls while idle only (docan-tp.cpp).
LEMMA SetParameterInv == TxInv /\ (SetAsTimeout \/ SetBsTimeout) => TxInv'
<1> SUFFICES ASSUME TxInv, SetAsTimeout \/ SetBsTimeout PROVE TxInv'
  OBVIOUS
<1>1. TypeOK
  BY DEF TxInv
<1>2. /\ state = "IDLE" /\ Put(<<>>) /\ Confirm(<<>>)
      /\ UNCHANGED <<ret, state, txds, buffers, STmin_tim, loop, history>>
  BY DEF SetAsTimeout, SetBsTimeout, Silent, Busy
<1>3. N_As_tim' \in TimerType(AsPeriods) /\ N_Bs_tim' \in TimerType(BsPeriods)
  <2>1. /\ AsPeriods \in SUBSET Nat /\ N_As_tim \in TimerType(AsPeriods)
        /\ BsPeriods \in SUBSET Nat /\ N_Bs_tim \in TimerType(BsPeriods)
    BY <1>1 DEF TypeOK
  <2>2. ASSUME NEW p \in AsPeriods PROVE StopTimer(StartTimer(N_As_tim, p)) \in TimerType(AsPeriods)
    <3>1. StartTimer(N_As_tim, p) \in TimerType(AsPeriods)
      BY <2>1, TimerOps
    <3> QED
      BY <2>1, <3>1, TimerOps
  <2>3. ASSUME NEW p \in BsPeriods PROVE StopTimer(StartTimer(N_Bs_tim, p)) \in TimerType(BsPeriods)
    <3>1. StartTimer(N_Bs_tim, p) \in TimerType(BsPeriods)
      BY <2>1, TimerOps
    <3> QED
      BY <2>1, <3>1, TimerOps
  <2>4. CASE SetAsTimeout
    <3>1. /\ \E p \in AsPeriods : N_As_tim' = StopTimer(StartTimer(N_As_tim, p))
          /\ N_Bs_tim' = N_Bs_tim
      BY <2>4 DEF SetAsTimeout
    <3> QED
      BY <2>1, <2>2, <3>1
  <2>5. CASE SetBsTimeout
    <3>1. /\ \E p \in BsPeriods : N_Bs_tim' = StopTimer(StartTimer(N_Bs_tim, p))
          /\ N_As_tim' = N_As_tim
      BY <2>5 DEF SetBsTimeout
    <3> QED
      BY <2>1, <2>3, <3>1
  <2> QED
    BY <2>4, <2>5
<1>4. wire' \in Seq(FrameType) /\ events' \in Seq(Results)
  BY <1>1, <1>2, OutputTypes
<1>5. TypeOK'
  BY <1>1, <1>2, <1>3, <1>4 DEF TypeOK, txds, buffers, history
<1> QED
  BY <1>2, <1>5, SameInv

\* A tick counts the timers down and disarms none of them (etc/timers).
LEMMA TickInv == TxInv /\ ProcessTick => TxInv'
<1> SUFFICES ASSUME TxInv, ProcessTick PROVE TxInv'
  OBVIOUS
<1>1. TypeOK
  BY DEF TxInv
<1>2. /\ N_As_tim' = Ticked(N_As_tim) /\ N_Bs_tim' = Ticked(N_Bs_tim)
      /\ STmin_tim' = Ticked(STmin_tim) /\ Put(<<>>) /\ Confirm(<<>>)
      /\ UNCHANGED <<ret, state, txds, buffers, loop, history>>
  BY DEF ProcessTick, Silent
<1>3. /\ N_As_tim' \in TimerType(AsPeriods)
      /\ N_Bs_tim' \in TimerType(BsPeriods) /\ N_Bs_tim'.active = N_Bs_tim.active
      /\ STmin_tim' \in TimerType(0 .. StMinLimit - 1)
  <2>1. PICK a \in AsPeriods, b \in BsPeriods : TRUE
    OBVIOUS
  <2>2. /\ AsPeriods \in SUBSET Nat /\ N_As_tim \in TimerType(AsPeriods)
        /\ BsPeriods \in SUBSET Nat /\ N_Bs_tim \in TimerType(BsPeriods)
        /\ 0 .. StMinLimit - 1 \in SUBSET Nat /\ 0 \in 0 .. StMinLimit - 1
        /\ STmin_tim \in TimerType(0 .. StMinLimit - 1)
    BY <1>1 DEF TypeOK
  <2>3. N_As_tim' \in TimerType(AsPeriods)
    BY <1>2, <2>1, <2>2, TimerOps
  <2>4. N_Bs_tim' \in TimerType(BsPeriods) /\ N_Bs_tim'.active = N_Bs_tim.active
    BY <1>2, <2>1, <2>2, TimerOps
  <2>5. STmin_tim' \in TimerType(0 .. StMinLimit - 1)
    BY <1>2, <2>2, TimerOps
  <2> QED
    BY <2>3, <2>4, <2>5
<1>4. wire' \in Seq(FrameType) /\ events' \in Seq(Results)
  BY <1>1, <1>2, OutputTypes
<1>5. TypeOK'
  BY <1>1, <1>2, <1>3, <1>4 DEF TypeOK, txds, buffers, history
<1> QED
  BY <1>2, <1>3, <1>5, SameInv

LEMMA StutterInv == TxInv /\ UNCHANGED vars => TxInv'
<1> SUFFICES ASSUME TxInv, UNCHANGED vars PROVE TxInv'
  OBVIOUS
<1>1. TypeOK /\ TypeOK'
  BY DEF TxInv, TypeOK, vars, txds, buffers, timers, outputs, history
<1> QED
  BY <1>1, SameInv DEF vars, timers

-----------------------------------------------------------------------------
(* What follows.                                                           *)

\* The strengthened invariant of a transfer holds in every state, whatever requests,
\* flow control frames, driver failures and time-outs come in whatever order.
THEOREM TxInvariant == Spec => []TxInv
<1>1. TxInv /\ [Next]_vars => TxInv'
  BY RequestInv, PollInv, SendInv, FlowControlInv, SetParameterInv, TickInv, StutterInv
     DEF Next, ProcessTx
<1> QED
  BY InitInv, <1>1, PTL DEF Spec

\* Every variable of the sender keeps its type.
THEOREM TxTypeCorrect == Spec => []TypeOK
<1>1. TxInv => TypeOK
  BY DEF TxInv
<1> QED
  BY <1>1, TxInvariant, PTL

\* Frames are on the bus in the order of the message and numbered without a gap, for
\* messages of every length: serial numbers may wrap (docan-sender.cpp:79-134).
THEOREM TxWireInOrder == Spec => []WireInOrder
<1>1. TxInv => WireInOrder
  BY DEF TxInv
<1> QED
  BY <1>1, TxInvariant, PTL

\* The sender never sends more frames than the peer's flow control allows, for every
\* block size (docan-sender.cpp:117-120, 166-187).
THEOREM TxWithinBlock == Spec => []WithinBlock
<1>1. TxInv => WithinBlock
  BY DEF TxInv
<1> QED
  BY <1>1, TxInvariant, PTL

\* A transfer in progress counts its own frames (docan-sender.cpp:22-38, 103-115).
THEOREM TxSentIsCounted == Spec => []SentIsCounted
<1>1. TxInv => SentIsCounted
  BY DEF TxInv
<1> QED
  BY <1>1, TxInvariant, PTL

\* The wait for the answer to a first frame has its timer (docan-sender.cpp:33-37).
THEOREM TxFirstWaitGuarded == Spec => []FirstWaitGuarded
<1>1. TxInv => FirstWaitGuarded
  BY DEF TxInv
<1> QED
  BY <1>1, TxInvariant, PTL

\* OK_s of a segmented message comes with its last frame (docan-sender.cpp:103-115).
THEOREM TxConfirmedIsSent == Spec => ConfirmedIsSent
<1> DEFINE A == events' = <<"OK_s">> /\ ~Request => Len(cfs') + 1 = Frames[txbuff]
<1>1. TxInv /\ [Next]_vars => [A]_vars
  <2> SUFFICES ASSUME TxInv, Next, events' = <<"OK_s">>, ~Request
               PROVE  Len(cfs') + 1 = Frames[txbuff]
    OBVIOUS
  <2>1. SentLast
    <3>1. <<"OK_s">> # <<>> /\ \A r : <<"OK_s">> = <<r>> => r = "OK_s"
      OBVIOUS
    <3>2. ~TimeoutBs /\ ~PauseEnds
      BY <3>1 DEF TimeoutBs, PauseEnds, Silent, Confirm
    <3>3. ~SentBlockEnd /\ ~SentThenPause /\ ~SentThenNext /\ ~RetryLater /\ ~TimeoutAs
      BY <3>1 DEF SentBlockEnd, SentThenPause, SentThenNext, RetryLater, TimeoutAs, Confirm
    <3>4. ~OnFlowControl
      BY <3>1 DEF OnFlowControl, FlowControlUnexpected, UnexpectedResults, FlowControlCTS,
                  FlowControlWait, FlowControlStop, Silent, Confirm
    <3>5. ~SetAsTimeout /\ ~SetBsTimeout /\ ~ProcessTick
      BY <3>1 DEF SetAsTimeout, SetBsTimeout, ProcessTick, Silent, Confirm
    <3> QED
      BY <3>2, <3>3, <3>4, <3>5 DEF Next, ProcessTx, SendCF
  <2>2. /\ state = "MF_DT" /\ passed' = passed + 1 /\ passed' >= size
        /\ cfs' = Append(cfs, CF(NextSn, Packed))
    BY <2>1 DEF SentLast, SentCF, SentPassed, PackCF
  <2>3. /\ passed = Len(cfs) + 1 /\ passed < size /\ size = Frames[txbuff]
        /\ passed \in Nat /\ size \in Nat /\ cfs \in Seq(FrameType) /\ sn \in Nat
        /\ can_message \in Chunks /\ txbuff \in Msgs \cup {NoMsg}
    BY <2>2 DEF TxInv, SentIsCounted, TypeOK
  <2>4. CF(NextSn, Packed) \in FrameType
    BY <2>3 DEF CF, FrameType, NextSn, Packed, Chunk, Chunks
  <2>5. Len(cfs') = Len(cfs) + 1
    BY <2>2, <2>3, <2>4, AppendProperties
  <2> QED
    BY <2>2, <2>3, <2>5
<1> QED
  BY <1>1, TxInvariant, PTL DEF Spec, ConfirmedIsSent

\* A transfer ends with one confirmation and no other step confirms anything, whatever
\* ends it (docan-sender.cpp:25-30, 71-75, 105-115, 136-139, 157-162, 193-201).
THEOREM TxNoSilentEnd == Spec => NoSilentEnd
<1> DEFINE A == Busy /\ ~Request => (Len(events') = 1 <=> state' = "IDLE")
<1>1. [Next]_vars => [A]_vars
  <2> SUFFICES ASSUME Next, Busy, ~Request
               PROVE  Len(events') = 1 <=> state' = "IDLE"
    OBVIOUS
  <2>1. Len(<<>>) # 1 /\ \A r : Len(<<r>>) = 1
    OBVIOUS
  <2>2. state # "IDLE"
    BY DEF Busy
  <2>3. CASE TimeoutBs \/ PauseEnds
    BY <2>1, <2>2, <2>3 DEF TimeoutBs, PauseEnds, Silent, Confirm
  <2>4. CASE SentLast \/ TimeoutAs
    BY <2>1, <2>4 DEF SentLast, TimeoutAs, Confirm
  <2>5. CASE SentBlockEnd \/ SentThenPause \/ SentThenNext \/ RetryLater
    BY <2>1, <2>2, <2>5 DEF SentBlockEnd, SentThenPause, SentThenNext, RetryLater, Confirm
  <2>6. CASE OnFlowControl
    BY <2>1, <2>2, <2>6
       DEF OnFlowControl, FlowControlUnexpected, UnexpectedResults, FlowControlCTS,
           FlowControlWait, FlowControlStop, Silent, Confirm
  <2>7. CASE SetAsTimeout \/ SetBsTimeout \/ ProcessTick
    BY <2>1, <2>2, <2>7 DEF SetAsTimeout, SetBsTimeout, ProcessTick, Silent, Confirm
  <2> QED
    BY <2>3, <2>4, <2>5, <2>6, <2>7 DEF Next, ProcessTx, SendCF
<1> QED
  BY <1>1, PTL DEF Spec, NoSilentEnd

-----------------------------------------------------------------------------
(* What a block that goes on uses up.                                      *)

InBlock == state \in {"MF_DT", "PAUSE"}

\* While the sender is between two frames of a block its pause timer is the one the
\* latest flow control frame started: armed for good, so that a pause is always one
\* that elapses (docan-sender.cpp:123-148, 166-187).
PauseGuarded ==
    /\ InBlock /\ stmin # 0 => STmin_tim.active /\ STmin_tim.endless
    /\ state = "PAUSE" => stmin # 0

\* Every step that stays in a block either sends a frame of it or sends none; one that
\* sends none starts no new pause and gives neither the pause nor the N_As timer any
\* time back, and a frame refused by the driver leaves N_As running with time left
\* (docan-sender.cpp:79-148).  BlockCompletes rests on this.
BlockRunsOut ==
    [][InBlock /\ InBlock' =>
          \/ credit' = credit - 1
          \/ /\ credit' = credit
             /\ state' = "PAUSE" => /\ state = "PAUSE"
                                    /\ STmin_tim' \in {STmin_tim, Ticked(STmin_tim)}
             /\ N_As_tim.active => N_As_tim' \in {N_As_tim, Ticked(N_As_tim)}
             /\ RetryLater => N_As_tim'.active /\ N_As_tim'.left > 0]_vars

\* A step of the sender that neither starts nor polls the pause timer.
LEMMA PauseKept ==
  ASSUME PauseGuarded, STmin_tim' \in {STmin_tim, Ticked(STmin_tim)}, TypeOK,
         stmin' = stmin, InBlock' => InBlock, state' = "PAUSE" => stmin # 0
  PROVE  PauseGuarded'
<1>1. STmin_tim'.active = STmin_tim.active /\ STmin_tim'.endless = STmin_tim.endless
  BY DEF TypeOK, TimerType, Ticked
<1> QED
  BY <1>1 DEF PauseGuarded, InBlock

LEMMA PauseSentInv == PauseGuarded /\ TypeOK /\ SendCF => PauseGuarded'
<1> SUFFICES ASSUME PauseGuarded, TypeOK, SendCF PROVE PauseGuarded'
  OBVIOUS
<1>1. state = "MF_DT" /\ UNCHANGED <<stmin, STmin_tim>>
  BY DEF SendCF, SentLast, SentBlockEnd, SentThenPause, SentThenNext, SentCF,
         RetryLater, TimeoutAs, NotSentCF, PackCF
<1>2. state' = "PAUSE" => stmin # 0
  BY <1>1 DEF SendCF, SentLast, SentBlockEnd, SentThenPause, SentThenNext,
              RetryLater, TimeoutAs
<1> QED
  BY <1>1, <1>2, PauseKept DEF InBlock

LEMMA PauseStartedInv ==
  ASSUME NEW blks, NEW stm, FlowControlCTS(blks, stm)
  PROVE  PauseGuarded'
<1>1. /\ STmin_tim' = StartRepeat(STmin_tim, stmin', TRUE)
      /\ state' = IF stmin' # 0 THEN "PAUSE" ELSE "MF_DT"
  BY DEF FlowControlCTS, StartStMin
<1> QED
  BY <1>1 DEF PauseGuarded, StartRepeat

LEMMA PausePolledInv == PauseGuarded /\ TypeOK /\ PauseEnds => PauseGuarded'
<1> SUFFICES ASSUME PauseGuarded, TypeOK, PauseEnds PROVE PauseGuarded'
  OBVIOUS
<1>1. /\ state = "PAUSE" /\ state' = "MF_DT" /\ stmin' = stmin
      /\ STmin_tim' = Polled(STmin_tim) /\ HasElapsed(STmin_tim)
      /\ STmin_tim.endless
  BY DEF PauseEnds, txds, PauseGuarded, InBlock
<1> QED
  BY <1>1 DEF PauseGuarded, Polled

LEMMA PauseInv == PauseGuarded /\ TypeOK /\ [Next]_vars => PauseGuarded'
<1> SUFFICES ASSUME PauseGuarded, TypeOK, [Next]_vars PROVE PauseGuarded'
  OBVIOUS
<1>1. CASE RequestEmpty \/ (\E m \in Msgs : RequestTooLong(m)) \/ UNCHANGED vars
  <2>1. UNCHANGED <<state, stmin, STmin_tim>>
    BY <1>1 DEF RequestEmpty, RequestTooLong, txds, timers, vars
  <2> QED
    BY <2>1 DEF PauseGuarded, InBlock
<1>2. ASSUME NEW m \in Msgs, RequestSF(m) \/ RequestFF(m) \/ RequestFailed(m)
      PROVE  PauseGuarded'
  BY <1>2 DEF RequestSF, RequestFF, RequestFailed, PauseGuarded, InBlock
<1>3. CASE TimeoutBs \/ FlowControlUnexpected \/ \E r : FlowControlStop(r)
  BY <1>3 DEF TimeoutBs, FlowControlUnexpected, FlowControlStop, PauseGuarded, InBlock
<1>4. CASE FlowControlWait \/ SetAsTimeout \/ SetBsTimeout \/ ProcessTick
  <2>1. UNCHANGED <<state, stmin>> /\ STmin_tim' \in {STmin_tim, Ticked(STmin_tim)}
    BY <1>4 DEF FlowControlWait, SetAsTimeout, SetBsTimeout, ProcessTick, txds
  <2> QED
    BY <2>1, PauseKept DEF PauseGuarded, InBlock
<1> QED
  BY <1>1, <1>2, <1>3, <1>4, PauseSentInv, PausePolledInv, PauseStartedInv
     DEF Next, Request, ProcessTx, OnFlowControl

\* The pause between two frames always has its timer, whatever block size and STmin the
\* peer asks for (docan-sender.cpp:123-148, 166-187).
THEOREM TxPauseGuarded == Spec => []PauseGuarded
<1>1. Init => PauseGuarded
  BY DEF Init, PauseGuarded, InBlock
<1> QED
  BY <1>1, PauseInv, TxTypeCorrect, PTL DEF Spec

\* A frame refused by the driver: N_As goes on, or starts.
LEMMA RefusedKeepsAs ==
  ASSUME TypeOK, RetryLater
  PROVE  /\ N_As_tim.active => N_As_tim' = N_As_tim
         /\ N_As_tim'.active /\ N_As_tim'.left > 0
<1>1. N_As_tim' = ArmedAs /\ ~HasElapsed(ArmedAs)
  BY DEF RetryLater
<1>2. ArmedAs.active
  BY DEF ArmedAs, RestartTimer, StartTimer
<1>3. ArmedAs.left \in Nat
  BY DEF TypeOK, ArmedAs, RestartTimer, StartTimer, TimerType
<1> QED
  BY <1>1, <1>2, <1>3 DEF HasElapsed, ArmedAs

\* A block that goes on sends, or it runs out of its pause or of its N_As time, for
\* every block size, STmin and driver (docan-sender.cpp:79-148).
THEOREM TxBlockRunsOut == Spec => BlockRunsOut
<1> DEFINE Spent == /\ credit' = credit
                    /\ state' = "PAUSE" =>
                          /\ state = "PAUSE"
                          /\ STmin_tim' \in {STmin_tim, Ticked(STmin_tim)}
                    /\ N_As_tim.active => N_As_tim' \in {N_As_tim, Ticked(N_As_tim)}
                    /\ RetryLater => N_As_tim'.active /\ N_As_tim'.left > 0
           A == InBlock /\ InBlock' => \/ credit' = credit - 1
                                       \/ Spent
<1>1. ASSUME TypeOK, Next PROVE A
  <2> SUFFICES ASSUME InBlock, InBlock' PROVE credit' = credit - 1 \/ Spent
    OBVIOUS
  <2>1. RetryLater => N_As_tim'.active /\ N_As_tim'.left > 0
    BY <1>1, RefusedKeepsAs
  <2>2. state \notin {"IDLE", "WAIT"} /\ state' \notin {"IDLE", "WAIT"}
    BY DEF InBlock
  <2>3. CASE Request
    <3>1. UNCHANGED <<state, timers, history>>
      BY <2>2, <2>3 DEF Request, RequestEmpty, RequestTooLong, RequestSF, RequestFF,
                        RequestFailed
    <3> QED
      BY <2>1, <3>1 DEF timers, history
  <2>4. CASE PauseEnds
    BY <2>1, <2>4 DEF PauseEnds, history
  <2>5. CASE SentThenPause \/ SentThenNext
    BY <2>5 DEF SentThenPause, SentThenNext, SentCF
  <2>6. CASE RetryLater
    <3>1. credit' = credit /\ state' = state /\ state = "MF_DT"
      BY <2>6 DEF RetryLater, NotSentCF, PackCF
    <3> QED
      BY <1>1, <2>1, <2>6, <3>1, RefusedKeepsAs
  <2>7. CASE OnFlowControl
    BY <2>2, <2>7 DEF OnFlowControl, FlowControlUnexpected, FlowControlCTS,
                      FlowControlWait, FlowControlStop
  <2>8. CASE ProcessTick
    BY <2>1, <2>8 DEF ProcessTick, history
  <2>9. ~TimeoutBs /\ ~SentLast /\ ~SentBlockEnd /\ ~TimeoutAs /\ ~SetAsTimeout
        /\ ~SetBsTimeout
    BY <2>2 DEF TimeoutBs, SentLast, SentBlockEnd, TimeoutAs, SetAsTimeout, SetBsTimeout,
                Busy
  <2> QED
    BY <1>1, <2>3, <2>4, <2>5, <2>6, <2>7, <2>8, <2>9 DEF Next, ProcessTx, SendCF
<1>2. TypeOK /\ [Next]_vars => [A]_vars
  BY <1>1
<1>3. BlockRunsOut <=> [][A]_vars
  BY DEF BlockRunsOut
<1> HIDE DEF A
<1> QED
  BY <1>2, <1>3, TxTypeCorrect, PTL DEF Spec

-----------------------------------------------------------------------------
(* What waiting for the first flow control frame uses up.                  *)

FirstWait == state = "WAIT" /\ cfs = <<>>

\* A step that leaves the sender waiting for the answer to its first frame gives N_Bs
\* time back only when the peer asks for it or the client sends another first frame, and
\* the timer runs on in every case (docan-sender.cpp:33-37, 70-77, 189-191).
\* FirstWaitEnds rests on this.
FirstWaitRunsOut ==
    [][FirstWait /\ FirstWait' =>
          /\ N_Bs_tim'.active
          /\ \/ N_Bs_tim' \in {N_Bs_tim, Ticked(N_Bs_tim)}
             \/ FlowControlWait
             \/ \E m \in Msgs : RequestFF(m)]_vars

\* The wait for the first flow control frame runs out of its N_Bs time, for every timeout
\* and whatever else happens meanwhile (docan-sender.cpp:33-37, 70-77, 166-204).
THEOREM TxFirstWaitRunsOut == Spec => FirstWaitRunsOut
<1> DEFINE A == FirstWait /\ FirstWait' =>
                    /\ N_Bs_tim'.active
                    /\ \/ N_Bs_tim' \in {N_Bs_tim, Ticked(N_Bs_tim)}
                       \/ FlowControlWait
                       \/ \E m \in Msgs : RequestFF(m)
<1>1. ASSUME FirstWaitGuarded', Next PROVE A
  <2> SUFFICES ASSUME FirstWait, FirstWait', ~FlowControlWait, \A m \in Msgs : ~RequestFF(m)
               PROVE  N_Bs_tim' \in {N_Bs_tim, Ticked(N_Bs_tim)}
    BY <1>1 DEF FirstWait, FirstWaitGuarded
  <2>1. state = "WAIT" /\ state' = "WAIT"
    BY DEF FirstWait
  <2>2. CASE Request
    <3>1. UNCHANGED timers
      BY <2>1, <2>2 DEF Request, RequestEmpty, RequestTooLong, RequestSF, RequestFailed
    <3> QED
      BY <3>1 DEF timers
  <2>3. ~ProcessTx
    BY <2>1 DEF ProcessTx, TimeoutBs, PauseEnds, SendCF, SentLast, SentBlockEnd,
                SentThenPause, SentThenNext, SentCF, RetryLater, TimeoutAs, NotSentCF, PackCF
  <2>4. ~OnFlowControl
    BY <2>1 DEF OnFlowControl, FlowControlUnexpected, FlowControlCTS, FlowControlStop
  <2>5. ~SetAsTimeout /\ ~SetBsTimeout
    BY <2>1 DEF SetAsTimeout, SetBsTimeout, Busy
  <2>6. CASE ProcessTick
    BY <2>6 DEF ProcessTick
  <2> QED
    BY <1>1, <2>2, <2>3, <2>4, <2>5, <2>6 DEF Next
<1>2. FirstWaitGuarded' /\ [Next]_vars => [A]_vars
  BY <1>1
<1>3. FirstWaitRunsOut <=> [][A]_vars
  BY DEF FirstWaitRunsOut
<1> HIDE DEF A
<1> QED
  BY <1>2, <1>3, TxFirstWaitGuarded, PTL DEF Spec

=============================================================================
