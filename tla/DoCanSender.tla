----------------------------- MODULE DoCanSender -----------------------------
(***************************************************************************)
(* DoCAN_Sender (src/uds/isotp/docan-sender.{h,cpp}): segmentation of      *)
(* ISO-TP messages into CAN frames under the receiver's flow control.      *)
(*                                                                         *)
(* Lengths are counted in frames: a message m has Frames[m] of them, chunk *)
(* 0 travels in its first (or single) frame and chunk i in consecutive     *)
(* frame i; the token <<m, i>> stands for the bytes of a chunk.            *)
(*                                                                         *)
(* The sender runs in the main loop: Request, OnFlowControl and ProcessTx  *)
(* are calls of one thread.  ProcessTx sends consecutive frames in a loop; *)
(* one pass of it is one step here, since ticks may come in between,       *)
(* and `loop' keeps the other calls out meanwhile.                         *)
(***************************************************************************)
EXTENDS Timers, Sequences

CONSTANTS
    Msgs,          \* messages the client may send
    Frames,        \* Frames[m]: number of frames of message m
    TXFRAMES,      \* capacity of the transmit buffer (TXLEN), in frames
    SNMOD,         \* number of serial numbers, 16 in the code
    MayFail,       \* whether SendFrame of the CAN driver may report a failure
    BlkSizes,      \* block sizes of the peer's flow control
    StMins,        \* STmin bytes of the peer's flow control
    StMinLimit,    \* first byte that is not a number of ticks, 0x80 in the code
    MicroStMins,   \* bytes for parts of a tick, 0xf1..0xf9 in the code
    AsPeriods,     \* N_As timeouts that may be configured
    BsPeriods,     \* N_Bs timeouts that may be configured
    NoMsg          \* content of the transmit buffer before the first message

ASSUME FramesAssumption == Frames \in [Msgs -> Nat \ {0}]
ASSUME NumbersAssumption ==
    /\ TXFRAMES \in Nat
    /\ SNMOD \in Nat /\ SNMOD > 1
    /\ StMinLimit \in Nat /\ StMinLimit > 1
ASSUME EnvironmentAssumption ==
    /\ MayFail \in BOOLEAN
    /\ BlkSizes \subseteq Nat /\ StMins \subseteq Nat /\ MicroStMins \subseteq Nat
    /\ AsPeriods \subseteq Nat \ {0} /\ AsPeriods # {}
    /\ BsPeriods \subseteq Nat \ {0} /\ BsPeriods # {}

VARIABLES
    state,          \* txds.state
    passed,         \* txds.passed, chunks sent so far
    size,           \* txds.size, chunks of the message
    sn,             \* txds.sn, latest serial number used, modulo SNMOD
    currblknum,     \* txds.currblknum, frames sent in the current block
    segblkcount,    \* txds.segblkcount, frames allowed in the current block
    stmin,          \* txds.stmin, ticks between two frames
    prev_data_sent, \* the latest attempt to send a consecutive frame succeeded
    can_message,    \* chunk in the frame buffer
    txbuff,         \* message in the transmit buffer
    N_As_tim, N_Bs_tim, STmin_tim,
    loop,           \* ProcessTx is between two passes of its loop
    ret,            \* what the latest Request returned
    wire,           \* frame the latest step put on the bus
    events,         \* OnIsoTxEvent(Conf, .) calls of the latest step
    cfs,            \* history: consecutive frames on the bus since the first frame
    credit,         \* history: frames the peer still allows
    clean           \* history: the driver refused no consecutive frame of this
                    \* transfer, nor the last one it was given before

txds == <<passed, size, sn, currblknum, segblkcount, stmin>>
buffers == <<prev_data_sent, can_message, txbuff>>
timers == <<N_As_tim, N_Bs_tim, STmin_tim>>
outputs == <<ret, wire, events>>
history == <<cfs, credit, clean>>
vars == <<state, txds, buffers, timers, loop, outputs, history>>

NewTxDescriptor ==
    passed = 0 /\ size = 0 /\ sn = 0 /\ currblknum = 0 /\ segblkcount = 25 /\ stmin = 0

-----------------------------------------------------------------------------
Chunk(m, i) == <<m, i>>

IsSingle(m) == Frames[m] = 1

SF(m) == [type |-> "SF", sn |-> 0, data |-> Chunk(m, 0)]
FF(m) == [type |-> "FF", sn |-> 0, data |-> Chunk(m, 0)]
CF(n, data) == [type |-> "CF", sn |-> n, data |-> data]

SendResults == IF MayFail THEN BOOLEAN ELSE {TRUE}

Busy == state # "IDLE"

Put(frames) == wire' = frames
Confirm(results) == events' = results
Silent == Put(<<>>) /\ Confirm(<<>>) /\ UNCHANGED ret

-----------------------------------------------------------------------------
Init ==
    /\ state = "IDLE"
    /\ NewTxDescriptor
    /\ prev_data_sent = TRUE
    /\ can_message = Chunk(NoMsg, 0) /\ txbuff = NoMsg
    /\ \E p \in AsPeriods : N_As_tim = NewTimer(p, FALSE, FALSE)
    /\ \E p \in BsPeriods : N_Bs_tim = NewTimer(p, FALSE, FALSE)
    /\ STmin_tim = NewTimer(0, FALSE, FALSE)
    /\ loop = FALSE
    /\ ret = "none" /\ wire = <<>> /\ events = <<>>
    /\ cfs = <<>> /\ credit = 0 /\ clean = TRUE

(* Send, called by the client through DoCAN_TP::Request.                   *)
RequestTooLong(m) ==
    /\ ~loop
    /\ Frames[m] > TXFRAMES
    /\ ret' = "OVERFLOW"
    /\ Put(<<>>) /\ Confirm(<<>>)
    /\ UNCHANGED <<state, txds, buffers, timers, loop, history>>

RequestEmpty ==
    /\ ~loop
    /\ ret' = "WRONG_STATE"
    /\ Put(<<>>) /\ Confirm(<<>>)
    /\ UNCHANGED <<state, txds, buffers, timers, loop, history>>

\* The message is packed into the frame buffer.
Accept(m) ==
    /\ ~loop
    /\ Frames[m] <= TXFRAMES
    /\ ret' = "OK"
    /\ size' = Frames[m]
    /\ passed' = 1
    /\ can_message' = Chunk(m, 0)
    /\ UNCHANGED <<currblknum, segblkcount, stmin, prev_data_sent, N_As_tim,
                   STmin_tim, loop>>

RequestSF(m) ==
    /\ Accept(m)
    /\ IsSingle(m)
    /\ state' = "IDLE"
    /\ Put(<<SF(m)>>)
    /\ Confirm(<<"OK_s">>)
    /\ UNCHANGED <<sn, txbuff, N_Bs_tim, history>>

\* Bug: the N_Bs timer is not started.
ArmBsForgotten == UNCHANGED N_Bs_tim

ArmBs == N_Bs_tim' = RestartTimer(N_Bs_tim)

\* Bug: the serial number of the previous message goes on.
ResetSnForgotten == UNCHANGED sn

ResetSn == sn' = 0

RequestFF(m) ==
    /\ Accept(m)
    /\ ~IsSingle(m)
    /\ Put(<<FF(m)>>)
    /\ ArmBs
    /\ state' = "WAIT"
    /\ ResetSn
    /\ txbuff' = m
    /\ Confirm(<<>>)
    /\ cfs' = <<>> /\ credit' = 0 /\ clean' = prev_data_sent

\* The driver refuses the first (or single) frame.
RequestFailed(m) ==
    /\ MayFail
    /\ Accept(m)
    /\ state' = "IDLE"
    /\ Put(<<>>) /\ Confirm(<<>>)
    /\ UNCHANGED <<sn, txbuff, N_Bs_tim, history>>

Request ==
    \/ RequestEmpty
    \/ \E m \in Msgs :
          RequestTooLong(m) \/ RequestSF(m) \/ RequestFF(m) \/ RequestFailed(m)

-----------------------------------------------------------------------------
(* ProcessTx                                                               *)
TimeoutBs ==
    /\ state = "WAIT"
    /\ HasElapsed(N_Bs_tim)
    /\ N_Bs_tim' = Polled(N_Bs_tim)
    /\ state' = "IDLE"
    /\ Put(<<>>) /\ Confirm(<<"TIMEOUT_Bs">>) /\ UNCHANGED ret
    /\ UNCHANGED <<txds, buffers, N_As_tim, STmin_tim, loop, history>>

PauseEnds ==
    /\ state = "PAUSE"
    /\ HasElapsed(STmin_tim)
    /\ STmin_tim' = Polled(STmin_tim)
    /\ state' = "MF_DT"
    /\ Silent
    /\ UNCHANGED <<txds, buffers, N_As_tim, N_Bs_tim, loop, history>>

\* Bug: the serial number is not cut to its 4 bits.
NextSnUnmasked == sn + 1

NextSn == (sn + 1) % SNMOD

Packed == IF passed = 0 \/ prev_data_sent THEN Chunk(txbuff, passed) ELSE can_message

ArmedAs == IF N_As_tim.active THEN N_As_tim ELSE RestartTimer(N_As_tim)

\* Pack the next consecutive frame and start the N_As timer.
PackCF ==
    /\ state = "MF_DT"
    /\ sn' = NextSn
    /\ can_message' = Packed
    /\ UNCHANGED <<size, segblkcount, stmin, txbuff, N_Bs_tim, STmin_tim, ret>>

\* Bug: the chunk counter moves on before the frame is on the bus.
SentPassedTwice == passed' = passed + 2

SentPassed == passed' = passed + 1

\* The driver took the frame.
SentCF ==
    /\ PackCF
    /\ N_As_tim' = StopTimer(ArmedAs)
    /\ prev_data_sent' = TRUE
    /\ SentPassed
    /\ Put(<<CF(NextSn, Packed)>>)
    /\ cfs' = Append(cfs, CF(NextSn, Packed))
    /\ credit' = credit - 1
    /\ UNCHANGED clean

SentLast ==
    /\ SentCF
    /\ passed' >= size
    /\ state' = "IDLE"
    /\ loop' = FALSE
    /\ Confirm(<<"OK_s">>)
    /\ UNCHANGED currblknum

\* Bug: off by one at the end of a block.
BlockEndsLate == currblknum + 1 > segblkcount

BlockEnds == currblknum + 1 >= segblkcount

SentBlockEnd ==
    /\ SentCF
    /\ passed' < size
    /\ BlockEnds
    /\ currblknum' = currblknum + 1
    /\ state' = "WAIT"
    /\ loop' = FALSE
    /\ Confirm(<<>>)

SentThenPause ==
    /\ SentCF
    /\ passed' < size
    /\ ~BlockEnds
    /\ stmin # 0
    /\ currblknum' = currblknum + 1
    /\ state' = "PAUSE"
    /\ loop' = FALSE
    /\ Confirm(<<>>)

SentThenNext ==
    /\ SentCF
    /\ passed' < size
    /\ ~BlockEnds
    /\ stmin = 0
    /\ currblknum' = currblknum + 1
    /\ loop' = TRUE
    /\ Confirm(<<>>)
    /\ UNCHANGED state

\* The driver refused the frame: leave the loop and look at the N_As timer.
NotSentCF ==
    /\ MayFail
    /\ PackCF
    /\ prev_data_sent' = FALSE
    /\ loop' = FALSE
    /\ clean' = FALSE
    /\ Put(<<>>)
    /\ UNCHANGED <<passed, currblknum, cfs, credit>>

RetryLater ==
    /\ NotSentCF
    /\ ~HasElapsed(ArmedAs)
    /\ N_As_tim' = ArmedAs
    /\ Confirm(<<>>)
    /\ UNCHANGED state

TimeoutAs ==
    /\ NotSentCF
    /\ HasElapsed(ArmedAs)
    /\ N_As_tim' = Polled(ArmedAs)
    /\ state' = "IDLE"
    /\ Confirm(<<"TIMEOUT_As">>)

SendCF ==
    \/ SentLast \/ SentBlockEnd \/ SentThenPause \/ SentThenNext
    \/ RetryLater \/ TimeoutAs

ProcessTx == TimeoutBs \/ PauseEnds \/ SendCF

-----------------------------------------------------------------------------
(* OnFlowControl                                                           *)
\* Bug: the transfer in progress is given up without telling the client.
UnexpectedResultsNone == <<>>

UnexpectedResults == <<"UNEXP_PDU">>

FlowControlUnexpected ==
    /\ ~loop
    /\ state # "WAIT"
    /\ state' = "IDLE"
    /\ Put(<<>>) /\ Confirm(UnexpectedResults) /\ UNCHANGED ret
    /\ UNCHANGED <<txds, buffers, timers, loop, history>>

StMinTicks(stm) ==
    IF stm < StMinLimit THEN stm
    ELSE IF stm \in MicroStMins THEN 1
    ELSE StMinLimit - 1

\* Bug: the pause timer is not started.
StartStMinForgotten(ticks) == UNCHANGED STmin_tim

StartStMin(ticks) == STmin_tim' = StartRepeat(STmin_tim, ticks, TRUE)

\* Frames a flow control frame with this block size allows: see BlockEnds.
Allowed(blks) == IF blks = 0 THEN 1 ELSE blks

FlowControlCTS(blks, stm) ==
    /\ ~loop
    /\ state = "WAIT"
    /\ N_Bs_tim' = StopTimer(N_Bs_tim)
    /\ currblknum' = 0
    /\ segblkcount' = blks
    /\ stmin' = StMinTicks(stm)
    /\ state' = IF stmin' # 0 THEN "PAUSE" ELSE "MF_DT"
    /\ StartStMin(stmin')
    /\ credit' = Allowed(blks)
    /\ Silent
    /\ UNCHANGED <<passed, size, sn, buffers, N_As_tim, loop, cfs, clean>>

FlowControlWait ==
    /\ ~loop
    /\ state = "WAIT"
    /\ N_Bs_tim' = RestartTimer(N_Bs_tim)
    /\ Silent
    /\ UNCHANGED <<state, txds, buffers, N_As_tim, STmin_tim, loop, history>>

FlowControlStop(result) ==
    /\ ~loop
    /\ state = "WAIT"
    /\ state' = "IDLE"
    /\ Put(<<>>) /\ Confirm(<<result>>) /\ UNCHANGED ret
    /\ UNCHANGED <<txds, buffers, timers, loop, history>>

OnFlowControl ==
    \/ FlowControlUnexpected
    \/ \E blks \in BlkSizes, stm \in StMins : FlowControlCTS(blks, stm)
    \/ FlowControlWait
    \/ FlowControlStop("BUFFER_OVFLW")     \* flow status OVERFLOW
    \/ FlowControlStop("INVALID_FS")       \* a reserved flow status

-----------------------------------------------------------------------------
\* SetParameter, which DoCAN_TP::SetParameter refuses during a transfer.
SetAsTimeout ==
    /\ ~loop
    /\ ~Busy
    /\ \E p \in AsPeriods : N_As_tim' = StopTimer(StartTimer(N_As_tim, p))
    /\ Silent
    /\ UNCHANGED <<state, txds, buffers, N_Bs_tim, STmin_tim, loop, history>>

SetBsTimeout ==
    /\ ~loop
    /\ ~Busy
    /\ \E p \in BsPeriods : N_Bs_tim' = StopTimer(StartTimer(N_Bs_tim, p))
    /\ Silent
    /\ UNCHANGED <<state, txds, buffers, N_As_tim, STmin_tim, loop, history>>

\* One tick of the system: a timer interrupt, or the main loop itself (README.md:75).
ProcessTick ==
    /\ N_As_tim' = Ticked(N_As_tim)
    /\ N_Bs_tim' = Ticked(N_Bs_tim)
    /\ STmin_tim' = Ticked(STmin_tim)
    /\ Silent
    /\ UNCHANGED <<state, txds, buffers, loop, history>>

Next ==
    \/ Request \/ ProcessTx \/ OnFlowControl
    \/ SetAsTimeout \/ SetBsTimeout
    \/ ProcessTick

Spec == Init /\ [][Next]_vars

\* The main loop calls Process for ever and the ticks never stop.
FairSpec == Spec /\ WF_vars(ProcessTx) /\ WF_vars(ProcessTick)

-----------------------------------------------------------------------------
(***************************************************************************)
(* Properties                                                              *)
(***************************************************************************)
Chunks == (Msgs \cup {NoMsg}) \X Nat
FrameType == [type : {"SF", "FF", "CF"}, sn : 0 .. SNMOD - 1, data : Chunks]
Results == {"OK_s", "TIMEOUT_As", "TIMEOUT_Bs", "UNEXP_PDU", "BUFFER_OVFLW", "INVALID_FS"}

TypeOK ==
    /\ state \in {"IDLE", "MF_DT", "PAUSE", "WAIT"}
    /\ passed \in Nat /\ size \in Nat
    /\ sn \in 0 .. SNMOD - 1
    /\ currblknum \in Nat /\ segblkcount \in Nat
    /\ stmin \in 0 .. StMinLimit - 1
    /\ prev_data_sent \in BOOLEAN
    /\ can_message \in Chunks
    /\ txbuff \in Msgs \cup {NoMsg}
    /\ N_As_tim \in TimerType(AsPeriods)
    /\ N_Bs_tim \in TimerType(BsPeriods)
    /\ STmin_tim \in TimerType(0 .. StMinLimit - 1)
    /\ loop \in BOOLEAN
    /\ ret \in {"none", "OK", "OVERFLOW", "WRONG_STATE"}
    /\ wire \in Seq(FrameType)
    /\ events \in Seq(Results)
    /\ cfs \in Seq(FrameType)
    /\ credit \in Int
    /\ clean \in BOOLEAN

\* Unless the driver refuses a frame, the consecutive frames on the bus are the
\* chunks of the message in its order, numbered without a gap, across replaced,
\* aborted and timed out transfers before it (docan-sender.cpp:37, 79-134).
WireInOrder ==
    clean => \A i \in DOMAIN cfs : cfs[i] = CF(i % SNMOD, Chunk(txbuff, i))

\* No consecutive frame leaves without a flow control frame of this transfer that
\* allows it (docan-sender.cpp:117-120, 166-187).  Block size 0 allows one here.
WithinBlock == credit >= 0

\* A transfer in progress knows how much of its own message is on the bus, whatever
\* request, time-out or refused frame came before (docan-sender.cpp:22-38, 103-115).
SentIsCounted ==
    state # "IDLE" => passed = Len(cfs) + 1 /\ passed < size /\ size = Frames[txbuff]

\* The confirmation OK_s of a segmented message comes with its last frame and never
\* before (docan-sender.cpp:103-115).
ConfirmedIsSent ==
    [][events' = <<"OK_s">> /\ ~Request => Len(cfs') + 1 = Frames[txbuff]]_vars

\* A transfer ends with exactly one confirmation, whatever ends it, unless the
\* client itself replaces it by another request (docan-sender.cpp:25-30, 71-75,
\* 105-115, 136-139, 157-162, 193-201).
NoSilentEnd ==
    [][Busy /\ ~Request => (Len(events') = 1 <=> state' = "IDLE")]_vars

\* While the sender waits for the answer to its first frame, the N_Bs timer runs
\* (docan-sender.cpp:33-37, 166-191).
FirstWaitGuarded == state = "WAIT" /\ cfs = <<>> => N_Bs_tim.active

\* Why the above hold: the strengthening that every step preserves.  Between the
\* frames of a block the peer's credit is what the block counter leaves; serial number
\* and buffer are in step with the frames sent as long as the driver takes them
\* (docan-sender.cpp:33-37, 79-134, 166-187).
TxInv ==
    /\ TypeOK
    /\ WithinBlock
    /\ SentIsCounted
    /\ FirstWaitGuarded
    /\ WireInOrder
    /\ loop => state = "MF_DT"
    /\ state \in {"MF_DT", "PAUSE"} =>
           credit > 0 /\ credit = Allowed(segblkcount) - currblknum
    /\ state # "IDLE" => txbuff \in Msgs /\ (clean => sn = Len(cfs) % SNMOD)
    /\ clean => prev_data_sent

\* Sending a block never goes on for ever, also when the driver refuses every
\* frame: the block ends or the transfer does (docan-sender.cpp:79-148).
BlockCompletes == state \in {"MF_DT", "PAUSE"} ~> state \in {"IDLE", "WAIT"}

\* A first frame that is never answered is given up (docan-sender.cpp:70-77), as
\* long as the peer does not ask for more time again and again.
FirstWaitEnds ==
    (<>[][~FlowControlWait /\ ~Request]_vars) => <>[](~(state = "WAIT" /\ cfs = <<>>))

=============================================================================
