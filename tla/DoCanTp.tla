-------------------------------- MODULE DoCanTp --------------------------------
(***************************************************************************)
(* DoCAN_TP_Mem (src/uds/isotp/docan-tp.{h,cpp}): one node that sends and  *)
(* receives, its two halves over the same memory, rxbuff here: DoCanSender *)
(* for the frames that leave, DoCanReceiver for the memory and the frames  *)
(* that come.  The peer sends frames of any message, flow control included.*)
(***************************************************************************)
EXTENDS Naturals, Sequences

CONSTANTS
    TxMsgs, RxMsgs,      \* messages of the client and of the peer
    Size,                \* their lengths in bytes
    NoMsg, NoByte,
    CANDL, SNMOD,        \* 8 and 16 in the code
    LEN,                 \* capacity of the memory (Rx and Tx of DoCAN_TP_Mem), in bytes
    BlkSizes,            \* block sizes of both sides
    CrPeriods, BsPeriods, AsPeriods

VARIABLES
    txstate, txpassed, txsize, sn, currblknum, segblkcount, stmin,
    prev_data_sent, can_message, txbuff, N_As_tim, N_Bs_tim, STmin_tim, loop,
    ret, wire, txevents, cfs, txcredit, clean,
    rxstate, rxsize, rxpassed, expectsn, currblkn, blksize, rxbuff, Cr_tim,
    rxevents, rxsent, assembled, open, rxcredit

txvars == <<txstate, txpassed, txsize, sn, currblknum, segblkcount, stmin,
            prev_data_sent, can_message, txbuff, N_As_tim, N_Bs_tim, STmin_tim, loop,
            ret, wire, txevents, cfs, txcredit, clean>>
rxrest == <<rxstate, rxsize, rxpassed, expectsn, currblkn, blksize, Cr_tim,
            rxevents, rxsent, assembled, open, rxcredit>>
rxvars == <<rxrest, rxbuff>>
vars == <<txvars, rxvars>>

FFLEN == CANDL - 2
CFLEN == CANDL - 1

\* Frames of a number of bytes.
FramesOf(n) == IF n <= CFLEN THEN 1 ELSE 1 + (n - FFLEN + CFLEN - 1) \div CFLEN

Tx == INSTANCE DoCanSender WITH
    state <- txstate, passed <- txpassed, size <- txsize, events <- txevents,
    credit <- txcredit, Msgs <- TxMsgs, Frames <- [m \in TxMsgs |-> FramesOf(Size[m])],
    TXFRAMES <- FramesOf(LEN), MayFail <- FALSE, StMins <- {0}, StMinLimit <- 128,
    MicroStMins <- 241 .. 249

Rx == INSTANCE DoCanReceiver WITH
    state <- rxstate, passed <- rxpassed, events <- rxevents, sent <- rxsent,
    credit <- rxcredit, Msgs <- RxMsgs, Size <- [m \in RxMsgs |-> Size[m]], RXLEN <- LEN

Init == Tx!Init /\ Rx!Init

-----------------------------------------------------------------------------
\* Send copies a segmented message to the memory it sends the later frames from.
Stored(m) == [a \in Rx!Memory |-> IF a < Size[m] THEN Rx!Byte(m, a + 1) ELSE rxbuff[a]]

RequestSegmented(m) ==
    /\ Tx!RequestFF(m)
    /\ rxbuff' = Stored(m)
    /\ UNCHANGED rxrest

RequestOther ==
    /\ Tx!RequestEmpty \/ \E m \in TxMsgs : Tx!RequestTooLong(m) \/ Tx!RequestSF(m)
    /\ UNCHANGED rxvars

Request == RequestOther \/ \E m \in TxMsgs : RequestSegmented(m)

\* ReadFrame: flow control goes to the sender, any other frame with the physical
\* address to the receiver; the client gets a functional single frame as it is.
ReadFrame ==
    /\ ~loop
    /\ \/ Tx!OnFlowControl /\ UNCHANGED rxvars
       \/ Rx!Receive /\ UNCHANGED txvars
       \/ UNCHANGED vars

Process ==
    \/ Tx!ProcessTx /\ UNCHANGED rxvars
    \/ ~loop /\ Rx!ProcessRx /\ UNCHANGED txvars

\* SetParameter, refused while either half is busy.
SetParameter ==
    /\ ~Tx!Busy /\ rxstate = "IDLE"
    /\ \/ (Tx!SetAsTimeout \/ Tx!SetBsTimeout) /\ UNCHANGED rxvars
       \/ (Rx!SetBlockSize \/ Rx!SetCrTimeout) /\ UNCHANGED txvars

ProcessTick == Tx!ProcessTick /\ Rx!ProcessTick

Next == Request \/ ReadFrame \/ Process \/ SetParameter \/ ProcessTick

Spec == Init /\ [][Next]_vars

-----------------------------------------------------------------------------
\* Where the memory holds the bytes of consecutive frame i of message m.
Addresses(m, i) ==
    {a \in Rx!Memory : FFLEN + (i - 1) * CFLEN <= a /\ a < FFLEN + i * CFLEN /\ a < Size[m]}

\* A consecutive frame carries the bytes of the message the client asked to send
\* (docan-sender.h:13 "pointer to buffer for transmit message"), also when a message is
\* received meanwhile.
SentIsRequested ==
    [][\A f \in {wire'[i] : i \in DOMAIN wire'} :
          f.type = "CF" =>
              \A a \in Addresses(f.data[1], f.data[2]) :
                  rxbuff[a] = Rx!Byte(f.data[1], a + 1)]_vars

=============================================================================
