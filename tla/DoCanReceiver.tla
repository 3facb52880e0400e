---------------------------- MODULE DoCanReceiver ----------------------------
(***************************************************************************)
(* DoCAN_Receiver (src/uds/isotp/docan-receiver.{h,cpp}): reassembly of    *)
(* ISO-TP messages from CAN frames.                                        *)
(*                                                                         *)
(* The bus is an environment that hands over any frame of any message at   *)
(* any time: frames get lost, come twice or late, and messages interleave. *)
(* A message is a model value with a length; byte i of message m is the    *)
(* token <<m, i>>, and past the end of m the padding of its last frame.    *)
(* Frames are CANDL bytes long, as DoCAN_TP::PduToCan pads them and the    *)
(* socket reader hands them over.  Frames that UnpackPciInfo rejects have  *)
(* no effect and are left out; flow control goes to the sender.            *)
(***************************************************************************)
EXTENDS Timers, Sequences

CONSTANTS
    Msgs,          \* messages the peer may send
    Size,          \* Size[m]: their lengths
    CANDL,         \* bytes of a CAN frame, 8 in the code
    SNMOD,         \* number of serial numbers, 16 in the code
    RXLEN,         \* capacity of the reception buffer
    BlkSizes,      \* block sizes the receiver may be configured with
    CrPeriods,     \* N_Cr timeouts it may be configured with
    NoByte         \* content of a buffer byte never written

ASSUME SizeAssumption == Size \in [Msgs -> Nat \ {0}]
ASSUME CandlAssumption == CANDL \in Nat /\ CANDL > 2
ASSUME SnmodAssumption == SNMOD \in Nat /\ SNMOD > 1
ASSUME RxlenAssumption == RXLEN \in Nat
ASSUME ConfigAssumption ==
    /\ BlkSizes \subseteq Nat /\ BlkSizes # {}
    /\ CrPeriods \subseteq Nat \ {0} /\ CrPeriods # {}

VARIABLES
    state,         \* rxds.state
    rxsize,        \* rxds.rxsize, length announced by the first frame
    passed,        \* rxds.passed, bytes received so far
    expectsn,      \* rxds.expectsn, serial number expected next, modulo SNMOD
    currblkn,      \* rxds.currblkn, frames received in the current block
    blksize,       \* rxds.blksize, configured block size
    rxbuff,        \* the reception buffer (and the few bytes behind it)
    Cr_tim,        \* the N_Cr timer
    events,        \* OnIsoRxEvent calls of the latest step, in order
    sent,          \* flow control frames of the latest step
    assembled,     \* history: payload bytes of the frames accepted for the
                   \* current (or latest) segmented reception
    open,          \* history: the client was told of a first frame and not yet
                   \* of the end of that reception
    credit         \* history: frames the peer may still send before it has to
                   \* wait for a flow control frame

rxds == <<state, rxsize, passed, expectsn, currblkn>>
vars == <<rxds, blksize, rxbuff, Cr_tim, events, sent, assembled, open, credit>>

-----------------------------------------------------------------------------
FFLEN == CANDL - 2                \* payload of a first frame
CFLEN == CANDL - 1                \* payload of a consecutive frame

Byte(m, i) == <<m, i>>
Bytes == Msgs \X Nat

\* The part of message m that starts after `from' bytes, n bytes long.
Part(m, from, n) == [i \in 1 .. n |-> Byte(m, from + i)]

IsSingle(m) == Size[m] <= CFLEN
CfCount(m) == (Size[m] - FFLEN + CFLEN - 1) \div CFLEN

\* Addresses a memcpy can reach: the buffer, and behind it as much as a first
\* frame copied to a stale offset overruns it.
Memory == 0 .. RXLEN + FFLEN - 1

\* memcpy(rxbuff + offset, data, n)
Copy(offset, data, n) ==
    rxbuff' = [a \in Memory |-> IF offset <= a /\ a < offset + n
                                THEN data[a - offset + 1]
                                ELSE rxbuff[a]]

\* Bug: the client is notified before the last bytes are copied.
ContentBeforeCopy(n) == [i \in 1 .. n |-> rxbuff[i - 1]]

\* The first n bytes of the buffer, as the frame just handled leaves it.
Content(n) == [i \in 1 .. n |-> rxbuff'[i - 1]]

Event(ev, res, payload) == [ev |-> ev, res |-> res, payload |-> payload]
UnexpPdu == Event("Data", "UNEXP_PDU", <<>>)

FlowControl(fs, bs) == [fs |-> fs, bs |-> bs]

\* The calls of one step: notify the client, send flow control frames.
Notify(evs) ==
    /\ events' = evs
    /\ open' = IF evs = <<>> THEN open ELSE evs[Len(evs)].ev = "DataFF"

Send(fcs) == sent' = fcs

-----------------------------------------------------------------------------
Init ==
    /\ state = "IDLE"
    /\ rxsize = 0 /\ passed = 0 /\ expectsn = 0 /\ currblkn = 0
    /\ blksize \in BlkSizes
    /\ rxbuff = [a \in Memory |-> NoByte]
    /\ \E p \in CrPeriods : Cr_tim = NewTimer(p, FALSE, FALSE)
    /\ events = <<>> /\ sent = <<>>
    /\ assembled = <<>> /\ open = FALSE /\ credit = 0

(* First frame of message m.                                               *)
\* Bug: the client is not told that the ongoing reception is dropped.
NotInterrupted == <<>>

\* What the client is told when a message starts during the reception of another.
Interrupted == IF state = "ACTIVE" THEN <<UnexpPdu>> ELSE <<>>

ReceiveFFOverflow(m) ==
    /\ ~IsSingle(m)
    /\ Size[m] > RXLEN
    /\ state' = "IDLE"
    /\ Notify(Interrupted)
    /\ Send(<<FlowControl("OVERFLOW", 0)>>)
    /\ credit' = 0
    /\ UNCHANGED <<rxsize, passed, expectsn, currblkn, blksize, rxbuff, Cr_tim,
                   assembled>>

\* Bug: the N_Cr timer is not started.
ArmCrForgotten == UNCHANGED Cr_tim

ArmCr == Cr_tim' = RestartTimer(Cr_tim)

ReceiveFF(m) ==
    /\ ~IsSingle(m)
    /\ Size[m] <= RXLEN
    /\ Send(<<FlowControl("CTS", blksize)>>)
    /\ credit' = blksize
    /\ currblkn' = 0
    /\ rxsize' = Size[m]
    /\ Copy(passed, Part(m, 0, FFLEN), FFLEN)
    /\ passed' = FFLEN
    /\ expectsn' = 1
    /\ Notify(Append(Interrupted, Event("DataFF", "OK_r", <<>>)))
    /\ state' = "ACTIVE"
    /\ ArmCr
    /\ assembled' = Part(m, 0, FFLEN)
    /\ UNCHANGED blksize

(* Consecutive frame k of message m.                                       *)
SerialNumber(k) == k % SNMOD

\* Bug: the serial number is not checked.
AnySerialNumber(k) == TRUE

Expected(k) == SerialNumber(k) = expectsn

\* Bug: the counter is compared without the mask of 4 bits.
NextSerialUnmasked == expectsn + 1

NextSerial == (expectsn + 1) % SNMOD

\* Bug: the last frame is not cut at the end of the message.
CopyLengthUnclipped == CFLEN

CopyLength == IF passed + CFLEN > rxsize THEN rxsize - passed ELSE CFLEN

\* Bug: the bytes are written after `passed' has moved on.
CopyAddressMoved == passed + CopyLength

CopyAddress == passed

\* Bug: off by one at the end of a block.
BlockDoneLate == currblkn + 1 > blksize

BlockDone == currblkn + 1 >= blksize

ReceiveCFUnexpected(m, k) ==
    /\ state # "ACTIVE" \/ ~Expected(k)
    /\ state' = "IDLE"
    /\ Notify(<<UnexpPdu>>)
    /\ Send(<<>>)
    /\ UNCHANGED <<rxsize, passed, expectsn, currblkn, blksize, rxbuff, Cr_tim,
                   assembled, credit>>

AcceptCF(m, k) ==
    LET from == FFLEN + (k - 1) * CFLEN
    IN  /\ state = "ACTIVE"
        /\ Expected(k)
        /\ ArmCr
        /\ Copy(CopyAddress, Part(m, from, CFLEN), CopyLength)
        /\ passed' = passed + CopyLength
        /\ expectsn' = NextSerial
        /\ assembled' = assembled \o Part(m, from, CopyLength)
        /\ UNCHANGED <<rxsize, blksize>>

ReceiveCFLast(m, k) ==
    /\ AcceptCF(m, k)
    /\ passed' = rxsize
    /\ currblkn' = currblkn + 1
    /\ state' = "IDLE"
    /\ Notify(<<Event("Data", "OK_r", Content(rxsize))>>)
    /\ Send(<<>>)
    /\ credit' = credit - 1

ReceiveCFBlockEnd(m, k) ==
    /\ AcceptCF(m, k)
    /\ passed' # rxsize
    /\ BlockDone
    /\ currblkn' = 0
    /\ Notify(<<>>)
    /\ Send(<<FlowControl("CTS", blksize)>>)
    /\ credit' = blksize
    /\ UNCHANGED state

ReceiveCFInBlock(m, k) ==
    /\ AcceptCF(m, k)
    /\ passed' # rxsize
    /\ ~BlockDone
    /\ currblkn' = currblkn + 1
    /\ Notify(<<>>)
    /\ Send(<<>>)
    /\ credit' = credit - 1
    /\ UNCHANGED state

(* Single frame.                                                           *)
ReceiveSF(m) ==
    /\ IsSingle(m)
    /\ state' = "IDLE"
    /\ Notify(Append(Interrupted, Event("Data", "OK_r", Part(m, 0, Size[m]))))
    /\ Send(<<>>)
    /\ UNCHANGED <<rxsize, passed, expectsn, currblkn, blksize, rxbuff, Cr_tim,
                   assembled, credit>>

Receive ==
    \E m \in Msgs :
        \/ ReceiveFFOverflow(m)
        \/ ReceiveFF(m)
        \/ ReceiveSF(m)
        \/ /\ ~IsSingle(m)
           /\ \E k \in 1 .. CfCount(m) :
                \/ ReceiveCFUnexpected(m, k)
                \/ ReceiveCFLast(m, k)
                \/ ReceiveCFBlockEnd(m, k)
                \/ ReceiveCFInBlock(m, k)

-----------------------------------------------------------------------------
\* ProcessRx: the timer is polled during a reception only.
ProcessRx ==
    /\ state = "ACTIVE"
    /\ HasElapsed(Cr_tim)
    /\ Cr_tim' = Polled(Cr_tim)
    /\ state' = "IDLE"
    /\ passed' = 0
    /\ rxsize' = 0
    /\ Notify(<<Event("Conf", "TIMEOUT_Cr", <<>>)>>)
    /\ Send(<<>>)
    /\ UNCHANGED <<expectsn, currblkn, blksize, rxbuff, assembled, credit>>

\* SetParameter, which DoCAN_TP::SetParameter refuses during a reception.
SetBlockSize ==
    /\ state = "IDLE"
    /\ blksize' \in BlkSizes
    /\ Notify(<<>>) /\ Send(<<>>)
    /\ UNCHANGED <<rxds, rxbuff, Cr_tim, assembled, credit>>

SetCrTimeout ==
    /\ state = "IDLE"
    /\ \E p \in CrPeriods : Cr_tim' = StopTimer(StartTimer(Cr_tim, p))
    /\ Notify(<<>>) /\ Send(<<>>)
    /\ UNCHANGED <<rxds, blksize, rxbuff, assembled, credit>>

\* One tick of the system: a timer interrupt, or the main loop itself (README.md:75).
ProcessTick ==
    /\ Cr_tim' = Ticked(Cr_tim)
    /\ Notify(<<>>) /\ Send(<<>>)
    /\ UNCHANGED <<rxds, blksize, rxbuff, assembled, credit>>

Next == Receive \/ ProcessRx \/ SetBlockSize \/ SetCrTimeout \/ ProcessTick

Spec == Init /\ [][Next]_vars

\* The main loop calls Process for ever and the ticks never stop.
FairSpec == Spec /\ WF_vars(ProcessRx) /\ WF_vars(ProcessTick)

-----------------------------------------------------------------------------
(***************************************************************************)
(* Properties                                                              *)
(***************************************************************************)
Events == [ev : {"Data", "DataFF", "Conf"}, res : {"OK_r", "UNEXP_PDU", "TIMEOUT_Cr"},
           payload : Seq(Bytes \cup {NoByte})]

FlowControls == [fs : {"CTS", "OVERFLOW"}, bs : Nat]

TypeOK ==
    /\ state \in {"IDLE", "ACTIVE"}
    /\ rxsize \in Nat /\ passed \in Nat /\ currblkn \in Nat
    /\ expectsn \in 0 .. SNMOD - 1
    /\ blksize \in BlkSizes
    /\ rxbuff \in [Memory -> Bytes \cup {NoByte}]
    /\ Cr_tim \in TimerType(CrPeriods)
    /\ events \in Seq(Events)
    /\ sent \in Seq(FlowControls)
    /\ assembled \in Seq(Bytes)
    /\ open \in BOOLEAN
    /\ credit \in Int

\* The client has an announced reception (DataFF) pending exactly while the
\* receiver is reassembling: every way out of ACTIVE, through a frame or a
\* timeout, tells the client (docan-receiver.cpp:10-16, 31-43, 65-72, 88-91, 104-109).
OpenIffActive == open <=> state = "ACTIVE"

\* The client is told that a reception is over before the next one is announced,
\* also when both happen within one frame (docan-receiver.cpp:32-35, 56).
ClosedBeforeReopened ==
    [][\A i \in DOMAIN events' :
          events'[i].ev = "DataFF" =>
              IF i = 1 THEN ~open ELSE events'[i - 1].ev # "DataFF"]_vars

\* The counters describe the bytes accepted since the first frame, and a
\* reception never goes on past its announced size or the buffer
\* (docan-receiver.cpp:50-55, 75-85).
CountersAgree ==
    state = "ACTIVE" =>
        /\ passed = Len(assembled)
        /\ FFLEN <= passed /\ passed < rxsize /\ rxsize <= RXLEN

\* Behind the part of the first frame the buffer holds what the accepted frames
\* carried, whatever was received, aborted or timed out before
\* (docan-receiver.cpp:83-84).
BufferHoldsAssembled ==
    state = "ACTIVE" =>
        \A i \in FFLEN + 1 .. passed : rxbuff[i - 1] = assembled[i]

\* Frames that all come from one message are put together in the order of that
\* message with none missing or repeated, however many are lost, repeated or
\* late, as long as the message has no more consecutive frames than there are
\* serial numbers (docan-receiver.cpp:64-98).
InOrder ==
    \A m \in Msgs :
        /\ CfCount(m) <= SNMOD
        /\ \A i \in DOMAIN assembled : assembled[i][1] = m
        => assembled = Part(m, 0, Len(assembled))

\* A peer in the middle of a message is never left without permission to send:
\* as many frames as the block allows are accepted, then the flow control frame
\* comes (docan-receiver.cpp:47-50, 86, 92-97).  Block size 0 puts no limit.
CreditLeft == state = "ACTIVE" /\ blksize > 0 => credit > 0

\* Why the above hold: the strengthening that every step preserves.  The peer's
\* credit is what the block counter leaves, and the timer of a reception runs
\* (docan-receiver.cpp:47-59, 74, 86, 92-97).
RxInv ==
    /\ TypeOK
    /\ OpenIffActive
    /\ CountersAgree
    /\ BufferHoldsAssembled
    /\ state = "ACTIVE" =>
           /\ Cr_tim.active
           /\ credit = blksize - currblkn
           /\ blksize > 0 => currblkn < blksize

\* A segmented message is delivered once it is complete, with its announced
\* length, and what lies behind the first frame's part is what was received
\* (docan-receiver.cpp:88-91).
DeliveredTail ==
    [][\A e \in {events'[i] : i \in DOMAIN events'} :
          state = "ACTIVE" /\ Len(events') = 1 /\ e.res = "OK_r" =>
              /\ Len(e.payload) = rxsize
              /\ Len(assembled') = rxsize
              /\ \A i \in FFLEN + 1 .. rxsize : e.payload[i] = assembled'[i]]_vars

\* A reception does not outlive a bus that fell silent: the N_Cr timer ends it
\* (docan-receiver.cpp:9-17; the timer is armed at lines 59 and 74).
ReceptionEnds == (<>[][~Receive]_vars) => <>[](state = "IDLE")

\* The payload handed to the client with OK_r is the payload received
\* (docan-tp.h:51 "Pointer to the income payload").
DeliveredIsReceived ==
    [][\A e \in {events'[i] : i \in DOMAIN events'} :
          state = "ACTIVE" /\ Len(events') = 1 /\ e.res = "OK_r" =>
              e.payload = assembled']_vars

=============================================================================
