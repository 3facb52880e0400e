------------------------------ MODULE DoCanLink ------------------------------
(***************************************************************************)
(* Two nodes (DoCAN_TP, src/uds/isotp/docan-tp.{h,cpp}), one sending and   *)
(* one receiving, over a CAN bus: DoCanSender and DoCanReceiver joined by  *)
(* the frames PciHelper packs and unpacks.                                 *)
(*                                                                         *)
(* The bus keeps the order of the frames and may lose any of them.  It and *)
(* the two main loops are fast: a tick of the clock finds no frame on the  *)
(* bus and nothing to process.  The client may replace a message in        *)
(* transmission by a single frame and, unless a flow control frame is on   *)
(* its way, which would be taken for the answer to the new first frame, by *)
(* a longer message.                                                       *)
(***************************************************************************)
EXTENDS PciHelper, Sequences

CONSTANTS
    Msgs, Size,    \* messages and their lengths in bytes
    NoMsg, NoByte,
    RXLEN,         \* capacity of the receiving node, in bytes
    TXFRAMES,      \* capacity of the sending node, in frames
    FlowParams,    \* pairs of block size and STmin byte the receiving node may be
                   \* configured with
    CrPeriods, BsPeriods, AsPeriods,
    MaxBegun       \* bound of `begun'

\* Bound: the lengths that fit the short form of a first frame.
ASSUME MessagesAssumption == Size \in [Msgs -> 1 .. SHORT_FF_MAX] /\ NoMsg \notin Msgs
ASSUME BuffersAssumption == RXLEN \in Nat /\ TXFRAMES \in Nat
ASSUME ParametersAssumption ==
    /\ FlowParams \subseteq Byte \X Byte
    /\ \A periods \in {CrPeriods, BsPeriods, AsPeriods} : periods \subseteq Nat \ {0}

CANDL == CLASSICCAN_DL_MAX
SNMOD == 16

VARIABLES
    txstate, txpassed, txsize, sn, currblknum, segblkcount, stmin,
    prev_data_sent, can_message, txbuff, N_As_tim, N_Bs_tim, STmin_tim, loop,
    ret, wire, txevents, cfs, txcredit, clean,
    rxstate, rxsize, rxpassed, expectsn, currblkn, blksize, rxbuff, Cr_tim,
    rxevents, rxsent, assembled, open, rxcredit,
    rxstmin,       \* rxds.stmin of the receiving node
    bus,           \* data frames on their way
    fcs,           \* flow control frames on their way back
    owed,          \* history: the latest request, NoMsg once it is delivered
    last,          \* history: the latest message delivered since a request found the
                   \* bus quiet, whether all its bytes are right, and a bit that
                   \* alternates with every delivery
    lost,          \* history: a frame was lost since that request
    begun          \* history: number of messages asked for that have several frames and
                   \* for which the peer has room

txvars == <<txstate, txpassed, txsize, sn, currblknum, segblkcount, stmin,
            prev_data_sent, can_message, txbuff, N_As_tim, N_Bs_tim, STmin_tim, loop,
            ret, wire, txevents, cfs, txcredit, clean>>
rxvars == <<rxstate, rxsize, rxpassed, expectsn, currblkn, blksize, rxbuff, Cr_tim,
            rxevents, rxsent, assembled, open, rxcredit>>
vars == <<txvars, rxvars, rxstmin, bus, fcs, owed, last, lost, begun>>

Padding == [i \in 0 .. 5 |-> 170]

\* Frames a message is cut into.
Frames == [m \in Msgs |->
    LET first == PackPciForData(Padding, Size[m], CANDL)
        rest  == Size[m] - (CANDL - first.len)
    IN  IF first.type = "SF" THEN 1 ELSE 1 + (rest + CANDL - 2) \div (CANDL - 1)]

Short == {m \in Msgs : Frames[m] = 1}
TooLong == {m \in Msgs : Size[m] > RXLEN}

Tx == INSTANCE DoCanSender WITH
    state <- txstate, passed <- txpassed, size <- txsize, events <- txevents,
    credit <- txcredit, MayFail <- FALSE, BlkSizes <- Byte, StMins <- Byte,
    StMinLimit <- 128, MicroStMins <- 241 .. 249

Rx == INSTANCE DoCanReceiver WITH
    state <- rxstate, passed <- rxpassed, events <- rxevents, sent <- rxsent,
    credit <- rxcredit, BlkSizes <- Byte

-----------------------------------------------------------------------------
(* The bus.                                                                *)
\* A data frame of the sender: the head it packs and the chunk it carries.
DataFrame(f) ==
    [head  |-> IF f.type = "CF" THEN PackConseqFrame(Padding, f.sn)
               ELSE PackPciForData(Padding, Size[f.data[1]], CANDL).data,
     chunk |-> f.data]

\* Bug: STmin and block size change places.
FcFrameSwapped(f) == PackFlowControl(Padding, f.fs, rxstmin, f.bs)

FcFrame(f) == PackFlowControl(Padding, f.fs, f.bs, rxstmin)

Quiet == bus = <<>> /\ fcs = <<>>

\* `last', if there is none.
Nothing == <<NoMsg, "whole", 0>>

Init ==
    /\ \E p \in FlowParams : blksize = p[1] /\ rxstmin = p[2]
    /\ Tx!Init /\ Rx!Init
    /\ bus = <<>> /\ fcs = <<>>
    /\ owed = NoMsg /\ last = Nothing /\ lost = FALSE /\ begun = 0

\* The frames of a step of the sender go to the bus.
Transmit ==
    /\ bus' = bus \o [i \in DOMAIN wire' |-> DataFrame(wire'[i])]
    /\ UNCHANGED <<rxvars, rxstmin>>

Ask(m) ==
    /\ Quiet \/ (bus = <<>> /\ Frames[m] = 1)
    /\ Tx!RequestSF(m) \/ Tx!RequestFF(m)
    /\ Transmit
    /\ owed' = m
    /\ IF Quiet THEN last' = Nothing /\ lost' = FALSE ELSE UNCHANGED <<last, lost>>
    /\ \/ m \in Short \cup TooLong /\ UNCHANGED begun
       \/ m \notin Short \cup TooLong /\ begun < MaxBegun /\ begun' = begun + 1
    /\ UNCHANGED fcs

SenderProcess == Tx!ProcessTx /\ Transmit /\ UNCHANGED <<fcs, owed, last, lost, begun>>

\* The sending node reads a flow control frame (ReadFrame, case FC).  No receiver
\* sends the flow status WAIT.
ReadFlowControl ==
    LET data == Head(fcs)
    IN  /\ fcs # <<>>
        /\ fcs' = Tail(fcs)
        /\ \/ Tx!FlowControlUnexpected
           \/ Low(data) = FlowCode.CTS /\ Tx!FlowControlCTS(data[1], data[2])
           \/ Low(data) = FlowCode.OVERFLOW /\ Tx!FlowControlStop("BUFFER_OVFLW")
        /\ Transmit
        /\ UNCHANGED <<owed, last, lost, begun>>

-----------------------------------------------------------------------------
\* The bytes a step hands over to the client, with the length it is told.
Payload == rxevents'[Len(rxevents')].payload

\* A payload is taken for the message whose length it has and whose bytes, up to the
\* part a first frame carries: that part is put where the reception before it ended
\* (docan-receiver.cpp:53).
IsTakenFor(bytes, m) ==
    /\ Len(bytes) = Size[m]
    /\ \A i \in DOMAIN bytes :
           Frames[m] = 1 \/ i > Rx!FFLEN => bytes[i] = Rx!Byte(m, i)

\* What the events of a step deliver.
Delivered ==
    IF \A i \in DOMAIN rxevents' : rxevents'[i].ev # "Data" \/ rxevents'[i].res # "OK_r"
    THEN {}
    ELSE {m \in Msgs \cup {NoMsg} :
             IF m = NoMsg THEN \A n \in Msgs : ~IsTakenFor(Payload, n)
             ELSE IsTakenFor(Payload, m)}

Part(m) == IF m \in Msgs /\ Payload = Rx!Part(m, 0, Size[m]) THEN "whole" ELSE "tail"

\* The calls of a step of the receiving node reach the bus and the client.
Report ==
    /\ fcs' = fcs \o [i \in DOMAIN rxsent' |-> FcFrame(rxsent'[i])]
    /\ IF Delivered = {} THEN UNCHANGED <<last, owed>>
       ELSE \E m \in Delivered :
               /\ last' = <<m, Part(m), 1 - last[3]>>
               /\ owed' = IF m = owed THEN NoMsg ELSE owed
    /\ UNCHANGED <<txvars, rxstmin, lost, begun>>

\* The receiving node reads a data frame (ReadFrame, DoCAN_Receiver::Receive).
ReadData ==
    LET m   == Head(bus).chunk[1]
        k   == Head(bus).chunk[2]
        pci == UnpackPciInfo(Head(bus).head, CANDL)
    IN  /\ bus # <<>>
        /\ bus' = Tail(bus)
        /\ \/ pci.type = "SF" /\ pci.dlen = Size[m] /\ Rx!ReceiveSF(m)
           \/ /\ pci.type = "FF" /\ pci.dlen = Size[m]
              /\ Rx!ReceiveFFOverflow(m) \/ Rx!ReceiveFF(m)
           \/ /\ pci.type = "CF" /\ pci.sn = Rx!SerialNumber(k)
              /\ \/ Rx!ReceiveCFUnexpected(m, k)
                 \/ Rx!ReceiveCFLast(m, k)
                 \/ Rx!ReceiveCFBlockEnd(m, k)
                 \/ Rx!ReceiveCFInBlock(m, k)
        /\ Report

ReceiverProcess == Rx!ProcessRx /\ Report /\ UNCHANGED bus

LoseData ==
    /\ bus # <<>>
    /\ bus' = Tail(bus) /\ lost' = TRUE
    /\ UNCHANGED <<txvars, rxvars, rxstmin, fcs, owed, last, begun>>

LoseFlowControl ==
    /\ fcs # <<>>
    /\ fcs' = Tail(fcs) /\ lost' = TRUE
    /\ UNCHANGED <<txvars, rxvars, rxstmin, bus, owed, last, begun>>

\* Nothing is left to do before the next tick.
Settled ==
    /\ Quiet
    /\ txstate # "MF_DT"
    /\ txstate = "WAIT" => ~Tx!HasElapsed(N_Bs_tim)
    /\ txstate = "PAUSE" => ~Tx!HasElapsed(STmin_tim)
    /\ rxstate = "ACTIVE" => ~Rx!HasElapsed(Cr_tim)

Tick ==
    /\ Settled
    /\ Tx!ProcessTick /\ Rx!ProcessTick
    /\ UNCHANGED <<rxstmin, bus, fcs, owed, last, lost, begun>>

Asks == \E m \in Msgs : Ask(m)

Next ==
    \/ Asks \/ SenderProcess \/ ReadFlowControl
    \/ ReadData \/ ReceiverProcess
    \/ LoseData \/ LoseFlowControl \/ Tick

Spec == Init /\ [][Next]_vars

\* Both main loops run for ever, the bus hands over what it does not lose, and the
\* ticks never stop.
FairSpec ==
    /\ Spec
    /\ WF_vars(SenderProcess) /\ WF_vars(ReceiverProcess)
    /\ WF_vars(ReadFlowControl) /\ WF_vars(ReadData)
    /\ WF_vars(Tick)

-----------------------------------------------------------------------------
(***************************************************************************)
(* Properties                                                              *)
(***************************************************************************)
\* The message whose last frame is on the bus, as the last one there: a new request
\* waits until the bus is empty.
IsLast(f) == f.chunk[2] = Frames[f.chunk[1]] - 1

InTransit ==
    IF bus # <<>> /\ IsLast(bus[Len(bus)]) THEN <<bus[Len(bus)].chunk[1]>> ELSE <<>>

Transmitting == IF txstate = "IDLE" THEN NoMsg ELSE txbuff

\* Whatever frames are lost, and whenever the client gives up and asks anew, messages
\* arrive in order and at most once, with their length and the bytes behind the part of
\* the first frame; whole, if they are a single frame or the first message of several
\* frames.  One is missing only when a frame of it or of its flow control was lost, and
\* given up only then or when the peer has no room for it (docan-sender.cpp:8-203,
\* docan-receiver.cpp:7-125, pci-helper.cpp:4-174).
MessageLink ==
    INSTANCE MessageLink WITH current <- Transmitting, queue <- InTransit, got <- last

ImplementsMessageLink == MessageLink!Spec

\* Between two frames sender and receiver agree on the block they are in: its size, and
\* how many of its frames are through (docan-sender.cpp:117, 166-169;
\* docan-receiver.cpp:47-50, 86, 92-96).
SameBlock ==
    Quiet /\ ~lost /\ txstate \in {"MF_DT", "PAUSE"} =>
        rxstate = "ACTIVE" /\ segblkcount = blksize /\ currblknum = currblkn

\* The latest message a client asked for arrives, unless a frame was lost on its way or
\* it is too long for the peer: the two nodes never wait for each other, also after
\* transfers that broke in the middle (docan-sender.cpp:70-77, 117-120, 155-203;
\* docan-receiver.cpp:9-17, 45-59, 92-97).
Arrives ==
    (<>[][~Asks]_vars) => <>[](owed \in {NoMsg} \cup TooLong \/ lost)

=============================================================================
