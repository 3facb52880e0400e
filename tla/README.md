# uds-to-go: models, checks and proofs

uds-to-go is a UDS (ISO 14229) server library over ISO-TP (ISO 15765-2, "DoCAN") in C++, with an
example server and tester on SocketCAN.  This directory holds TLA+ modules of its protocol code,
TLC configurations that check them on small instances, and proofs checked by TLAPS.

All paths are relative to the repository; `docan-receiver.cpp` and the like without a directory
are the one file of that name under `src/`.

## 1. The system

### 1.1 Components

| component | code | state | operations |
|---|---|---|---|
| soft timers | `etc/timers/d-timer.{h,cpp}`, `tickerup.h` | `tick_period`, `tick_start`, `is_active`, `is_endless`; the global wrapping tick counter | `Start`, `Restart`, `Stop`, `ForceElapse`, `Elapsed`, `Ticks`; `ProcessTick` |
| ISO-TP reception | `uds/isotp/docan-receiver.{h,cpp}` | `rxds` (state, size, bytes received, serial number, block counter), buffer, `Cr_tim`, block size | `Receive` (first, consecutive, single frame), `ProcessRx`, `SetParameter` |
| ISO-TP transmission | `uds/isotp/docan-sender.{h,cpp}` | `txds` (state, counters, block, STmin), `prev_data_sent`, frame buffer, transmit buffer, three timers | `Send`, `ProcessTx`, `OnFlowControl`, `SetParameter` |
| transport glue | `uds/isotp/docan-tp.{h,cpp}` | configuration, the context handed to the client | `ReadFrame` (routing by CAN id and frame type), `Request`, `Process`, `SetParameter`, forwarding of events |
| protocol information codec | `uds/isotp/pci-helper.{h,cpp}` | none | pack and unpack of the four frame types |
| session layer | `uds/session/session-control.{h,cpp}` | session type, p2, S3, enhanced timing mode with its duration and keep-alive timer | `OnIsoEvent`, `Process`, `SendRequest`, `SetPending`, `SetSessionMode` |
| application layer | `uds/session/uds-app-manager.{h,cpp}`, `uds-app-client.h` | context of the request, response code, pending indicator, active mode, current session | `OnSessIndication`, `SendResponse`, `SendNegResponse`, `SetServiceSession`, `StartPending`, `On_s3_Timeout`, `SetActiveMode` |
| service clients of the example | `example/uds-test-server/*`, `uds/session/apps/*` | the session they share, the long routine | session control, ReadDataByIdentifier, routine control |
| main loop | `example/proc-runner.h`, `server-app.cpp`, `ticker-wrapper.h` | - | polls every `Process`, the ticker among them |
| containers | `etc/helpers/IKeeper.h` | a keeper's elements, their number and its iteration cursor | `Add`, `TryReadElem`, `StartIteration`, `IsLastIteration`, `IterNextElem` |
| tester menu | `example/uds-test-server/cli-client.h`, `server-app.cpp` | the stack of lists, the command picked and the flag that it is ready, under a mutex | `Run` in a thread of its own, `IsCmd` and `GetData` from the main loop |
| ISO-TP example | `example/main.cpp` | the string handed from the reader thread to the main loop, under a mutex | the two threads |
| byte helpers, argument parser, SocketCAN bridge | `etc/helpers/ophelper.h`, `example/*` | sockets, arguments | conversions, input and output |

### 1.2 How they interact

    CAN bus --frame--> DoCAN_TP::ReadFrame --+--> DoCAN_Receiver --OnIsoRxEvent--+
                                             +--> DoCAN_Sender ----OnIsoTxEvent--+--> SessionControl::OnIsoEvent
                                                     ^                                       |
    main loop --Process--> all of them               +--Request-- SendRequest <-- UdsAppManager <-> clients
    tick source --ProcessTick--> TickerCounter <--now()-- every Timer

Everything but the tick runs in one thread: a frame is handled to its end, with the response the
clients give in the same call chain, before the next poll.  Calls therefore nest: `SendRequest`
calls the sender, which confirms a single frame by calling back into `OnIsoEvent` before it
returns.  The tick source is the same main loop in the example (`TickerWrapper::Process`, which
catches up on all the ticks it missed) and a timer interrupt on an MCU (README.md:75); then the
counter is shared.  The models let a tick come between any two steps, which covers both.

The example programs have a second thread that reads the console and hands commands to the main
loop: the server through a pointer and a flag (`cli-client.h`), the ISO-TP example through a string
(`main.cpp`).

### 1.3 What is hard here

* **Ticks in the middle of a call** - a timer reads the counter, then writes its fields; the
  counter wraps at 32 bits.
* **Frames in any order** - lost, repeated, late, of other messages, in the middle of a transfer,
  after its timeout; serial numbers repeat modulo 16.
* **State that outlives a transfer** - `rxds.passed`, `prev_data_sent`, serial number, block
  counter, timers still running: every field must be set again on the next transfer, and not
  every one is.
* **A driver that refuses a frame** at any point, with a retry under N_As.
* **Timeouts against late events** - N_Cr, N_Bs, N_As, STmin, p2, S3, the keep-alive timer, all
  polled in a fixed order by one loop.
* **Two notions of the session** - `sessType` of the session layer and `currSession` of the
  clients, changed in different calls; S3 stopped and restarted on many paths, every one of which
  must leave the session a way to end.
* **One pending response** - keep-alive messages, a late final answer, the end of the enhanced
  timing mode and new requests meet in the same pass of the loop.
* **Two ends of one transfer** - both nodes count the frames of a block; a frame or a flow control
  frame may be lost, and the client may replace its message in the middle.
* **Walks that nest** - a manager asks its clients one after the other; one of them changes the
  session, and all are told of it before the first walk goes on.
* **Two threads over one flag** - the main loop looks at `cmd_ready` without the lock.

The list with its lines is `hazards` in `PROJECT.json`; an entry names the properties that
would notice it going wrong, or says why none does.

### 1.4 What makes each component correct

* timer: a countdown - no tick lost or counted twice, `Elapsed` true exactly once a period;
* receiver: what is delivered is what was sent, in order and complete; the client is told of
  every end of a reception, before the next begins; the peer is never left without permission
  to send; a silent bus ends a reception;
* sender: frames in order, numbered without a gap, within the blocks the peer allows and STmin
  apart; exactly one confirmation a transfer, `OK_s` only after the last frame; no wait for ever;
* server: both layers agree on the session; a non-default session can always end, and ends when
  the tester is gone; at most one final response to a request; a pending response keeps its
  context and ends; the main loop never stops;
* codec: what was packed for a length is unpacked as the same frame and length;
* link of two nodes: messages arrive in order and at most once, with their length and the bytes
  behind the first frame's part, and all arrive if no frame is lost.  That they arrive whole is true
  of single frames and of the first segmented message only (3.3);
* keepers and managers: every element is asked or told once, in order, whatever it causes;
* console threads: a command is sent at most once for every time one was picked, the one picked last
  is sent, the program can be ended.

## 2. The modules

| module | stands for | composes |
|---|---|---|
| `Timers` | the timer as its users see it: a record and operators on it | - |
| `CountdownTimer` | abstract specification of one timer | `Timers` |
| `DTimer` | `DTimers::Timer` over the wrapping counter, reads and writes as separate steps | refines `CountdownTimer` |
| `DTimer_proofs` | proofs about `DTimer` | `DTimer` |
| `DoCanReceiver` | `DoCAN_Receiver` in an environment that hands it any frame | `Timers` |
| `DoCanReceiver_proofs` | its inductive invariant | `DoCanReceiver` |
| `DoCanSender` | `DoCAN_Sender` between a client, a driver that may refuse and a peer | `Timers` |
| `DoCanSender_proofs` | its inductive invariant | `DoCanSender` |
| `PciHelper` | `PciHelper`: the head of a frame byte by byte, packed and unpacked | - |
| `PciHelper_proofs` | the round trips | `PciHelper` |
| `MessageLink` | abstract specification of what ISO-TP promises to its two clients | - |
| `DoCanLink` | a sending and a receiving node over a bus that loses frames | instances of `DoCanSender` and `DoCanReceiver`, frames of `PciHelper`; refines `MessageLink` |
| `DoCanLink_proofs` | where the two nodes and the bus can be in the middle of a message, with and without losses, and the refinement of `MessageLink` | `DoCanLink`, the lemmas of `PciHelper_proofs` |
| `DoCanTp` | one `DoCAN_TP_Mem`, its two halves over one memory | instances of `DoCanSender` and `DoCanReceiver` |
| `SessionControl` | `SessionControl`, as operators on the server object | `Timers` |
| `UdsAppManager` | `UdsAppManager` and the clients of the example | `SessionControl` |
| `UdsServer` | the steps of the server: transport events, polls, ticks | `UdsAppManager` |
| `UdsServer_proofs` | what every handler does to the server, and its inductive invariants | `UdsServer` |
| `Keeper` | `IKeeper`, as operators on a keeper | - |
| `ServiceDispatch` | the walks of the service manager, the routine manager and the main loop over what they keep | `Keeper` |
| `ServiceDispatch_proofs` | its inductive invariant | `ServiceDispatch` |
| `ServerApp` | the menu thread and the main loop of the example server | - |
| `ServerApp_proofs` | mutual exclusion of its threads, what the flag stands for, and the menu's stack | `ServerApp` |
| `IsoConsole` | the reader thread and the main loop of the ISO-TP example | - |
| `MCDoCanReceiver`, `MCDoCanSender`, `MCDoCanLink`, `MCDoCanTp`, `MCUdsServer`, `MCServiceDispatch`, `MCServerApp` | values for the runs | the module of their name |

### 2.1 How state and actions correspond to the code

`map` in `PROJECT.json` gives the lines of every definition.  In general a variable has the name of
its member; an action is one call from outside (a frame, a poll, a request, a tick) with all it
does; variables the code does not have are marked "history" where they are declared, and no guard
reads them.  `events`, `sent`, `wire`, `ret` and `out` hold what the latest step told the client
or put on the bus.

*Timers.*  In `DTimer` a member function that reads `now()` is two steps, the read and `Return`,
with ticks in between; calls that do not read the counter are one.  The other models use the
records of `Timers` in one step, which `ImplementsCountdown` justifies: a call takes effect when
it reads the counter.

*Receiver.*  `Receive` is split by frame type and outcome (`ReceiveFF`, `ReceiveFFOverflow`,
`ReceiveCFUnexpected`, `ReceiveCFLast`, `ReceiveCFBlockEnd`, `ReceiveCFInBlock`, `ReceiveSF`).  A
payload byte is a pair of message and position; the buffer is a function from addresses, with the
few behind its end that a misplaced copy reaches.  `CANDL`, `SNMOD` and `RXLEN` stand for 8 (to 64),
16 and the template argument `Rx`.  The configuration may change while idle, as
`DoCAN_TP::SetParameter` allows.

*Sender.*  Lengths are counted in frames.  `loop` is true between two passes of the `while` of
`ProcessTx`: no other handler runs then, ticks do.  A pass that sends has one action per way it
ends: `SentLast`, `SentBlockEnd`, `SentThenPause`, `SentThenNext`, `RetryLater`, `TimeoutAs`.  The
two halves of a byte of STmin (ticks, parts of a tick) and the reserved values are three classes.

*Server.*  The member functions call one another through the transport layer, so `SessionControl`
and `UdsAppManager` define them as operators from one server object to the next, and an action of
`UdsServer` applies one to the object.  `pc` is the position in the main loop; `Process` polls S3,
p2, the keep-alive timer and the long routine one after the other, with ticks possible in between.
The transport layer is reduced to its events (first frame, request, timeout, broken reception, end
of a segmented response).  A request is a service, an argument that separates the outcomes the
clients tell apart, an address and the suppress bit.

*Codec.*  A frame head is a function from the first six byte indices.  Packing writes some of the
bytes and leaves the others as they were; unpacking reads them back or rejects the frame.

*Link.*  `DoCanLink` has the variables of one sender and one receiver, and two queues: data frames
on their way and flow control frames on their way back.  A frame is the head `PciHelper` packs and
the chunk it carries; the receiving node unpacks the head and acts by it alone, so length, block
size, STmin and serial number reach the other side only through the bytes.  `MessageLink` sees the
message in transmission, those whose last frame is on the bus, and the latest one delivered.  What is
delivered is read off the bytes the event hands over (`Payload`: `rxbuff` and its length, or the single
frame): `IsTakenFor` compares length and bytes with those of each message, leaving out the part of a
first frame, and `Part` says whether that is right as well (`"whole"`) or not claimed (`"tail"`).  `begun`
counts the segmented messages asked for, so that the first one can be told from those after it.

*One node.*  `DoCanTp` lets the two halves of a node share `rxbuff`: an action of either half leaves
the variables of the other alone, except that sending a segmented message copies it into the memory
the receiver writes to.

*Dispatch.*  A walk has an index (`IsServiceSupported`, `OnAppIndication`, `OnRoutine`, `Process`) or
uses the cursor of the keeper (`OnAppConfirmation`, `OnSessionChange`).  `Calls` names the walks an
element may cause; the innermost walk is the code that runs.  `Add` happens while nothing is
dispatched, as in `BuildApp`.

*Console threads.*  Each statement that touches a shared variable is an action; a `lock_guard` is the
action that takes the mutex and the one that frees it.  `IsCmd`, which takes no lock, may come at any
point of the other thread's critical section.

## 3. The runs

### 3.1 Runs that pass

| run | what it shows | bounds, and why they are enough |
|---|---|---|
| `timer` | `DTimer` implements `CountdownTimer` | counter modulo 6, periods 0, 2 and 5: the counter wraps within every period and call, 5 is the largest period possible, 0 the special case; the proof removes the bound |
| `rx_reassembly` | every property of the receiver but the delivered first frame | frames of 4 bytes, messages of a single frame, one and two consecutive frames and one that does not fit; two serial numbers, so numbers repeat within a message; block sizes 0, 1, 2: no limit, every frame, a block with an end inside a message and one cut short by its end |
| `tx_segmentation` | order, blocks, confirmations, N_As and the first wait of the sender | messages of one, two, four and too many frames; serial numbers modulo 3, so they wrap; blocks of 0 and 2; STmin none, in ticks, out of range; a driver that refuses any frame |
| `srv_session` | the session and the enhanced timing mode | timeouts of 2 to 4 ticks that do not divide one another, so every order of the timers occurs; a routine slower than p2 and than the mode's duration; refused responses |
| `srv_answers` | one final answer, the pending indicator, suppressed codes | every argument the clients tell apart, good and bad, physical and functional; a broken reception |
| `link` | two nodes implement `MessageLink`, agree on the block and deliver what is not lost | frames of 8 bytes; a message of 7 bytes that fills a single frame, one of 13 (one full consecutive frame), one of 26 (three consecutive frames, a block and a half, the last one byte short) and one of 28 the peer has no room for; blocks of 0 without a pause and of 2 with STmin 1; at most three requests for a message of several frames (`MaxBegun`), so one long message after another, the same or a different one, and one after a broken one; any frame may be lost, any message replaced by another |
| `dispatch` | walks that cause one another ask and tell everybody once | two clients in three places, two routines and one runnable, so keepers are empty, partly filled, full, and hold an element twice; nesting as deep as the code has it; the proof removes the bounds |
| `app` | the menu and its hand-over: at most one command sent for each one picked, the last one picked is sent | two lists of two items each, one below the other: down, up, past the end, and a second command picked at every point of the fetch of the first |
| `iso_console` | the end of the ISO-TP example | two numbers, a word and the word that ends it; the input may end |

`SameBlock` and `WithinBlock` speak of blocks as the code counts them: block size 0 is a block of one
frame, on both sides (`docan-sender.cpp:117`, `docan-receiver.cpp:92`).

### 3.2 Runs that end in a violation

Each shows one disagreement between the code and what a comment beside it, or the interface,
says.  The quotations are in `findings`.

| run | the code | what is said of it |
|---|---|---|
| `rx_payload` | a first frame is copied to `rxbuff + rxds.passed`, where `passed` still belongs to the reception before (`docan-receiver.cpp:53`) | docan-tp.h:51: the pointer is to the income payload |
| `tp_shared_memory` | both halves of a node get the memory `rxalloc`, so a first frame received during a transmission overwrites what is being sent (`docan-tp.h:108`) | docan-sender.h:13: the sender's pointer is to the "buffer for transmit message" |
| `srv_lost_loop` | `DidKeeper::ReadDID` never moves on from a handler that ignores the DID (`did-keeper.h:19`) | did-handler.h:11: "another attempt can be performed using another DIDHandler class" |

### 3.3 Assumptions of the passing runs

Where the code differs from what a comment beside it says, the passing runs exclude that case by
name, so that they still say something of the rest:

* `WireInOrder` speaks of transfers for which the history variable `clean` holds: no refused
  consecutive frame in this transfer, none at the end of the one before.  A frame sent after a refused
  one carries the next serial number (`docan-sender.cpp:81`; comment at :130 "quit and try next
  time").
* `FirstWaitEnds` is about the wait after the first frame.  The wait after a later block is not
  guarded by N_Bs, which the flow control frame before stopped (`docan-sender.cpp:118`, 167;
  comment at :72).
* No property says how long the pause between frames is.  STmin runs from the flow control frame, not
  from each frame (`docan-sender.cpp:186`), so a pause polled late is followed by a short one.
* `srv_session` sets `RxMayBreak` to FALSE; `srv_answers` has it TRUE.  After a reception that ends in
  an unexpected frame, S3 stays stopped (`session-control.cpp:71`), unlike after N_Cr (:99), until the
  tester sends again.
* `srv_answers` asks for an unknown routine functionally only.  A physical request for one is
  answered with ROOR and, being reported as not handled, with SNS (`rctrl-router.h:160`,
  `uds-app-manager.cpp:104`).
* `link`: the bus and the loops are faster than the clock (a tick finds nothing on the bus and nothing
  to process), and keep frames in order; the driver takes every frame.  A client asks for a segmented
  message only when no frame is on its way, since a late flow control frame would be
  taken for the answer to the new first frame.  `last` and `lost` start afresh with such a request.
* `dispatch`: a walk begins only over a keeper that is not empty (`uds-app-client.h:79`).
* `BufferHoldsAssembled` and `DeliveredTail` speak of the bytes behind the first frame's part: the part
  itself is put where the reception before stopped (`docan-receiver.cpp:53`, the run `rx_payload`).
* For the same reason `MessageLink` promises that a message arrives whole only if it is a single frame or
  the first one of several frames.  A later segmented message may arrive with the beginning of an
  earlier one, and `MessageLink` allows for that (`"tail"`).  It does happen in `link`: the message of 13
  bytes, asked for after that of 26, is delivered with the beginning of the latter.
* `SentAtMostOnce` says nothing of a command that is picked and, before it was fetched, replaced by the
  next (`cli-client.h:112-114`): it is never sent.
* `FirstWaitGuarded`, like `FirstWaitEnds`, is about the wait after the first frame.
* `InOrder` speaks of messages with no more consecutive frames than serial numbers.  Beyond that
  the protocol itself cannot notice a whole cycle of lost frames, and with the 4095 byte messages
  of the code it relies on the N_Cr timeout.
* `srv_answers` sets `PromptLoop`: the loop comes round once in every tick, as the example's does
  at 1 ms against timers of hundreds.  Without it, a loop stalled for the whole of p2 could find
  p2 and the routine elapsed at once.  There, too, the mode lasts longer than the routine, as it
  does in the example (60 s and 15 s).
* `SubFunctionSids` says which clients declare a sub-function.  It is a parameter of the client
  interface; no client of the example declares one, `srv_answers` has it empty, and `srv_session`
  sets it for routine control so that suppressed final responses occur.

### 3.4 Fairness

* `WF(ProcessRx)`, `WF(ProcessTx)`, `WF(Process)`: the main loop polls every component for ever
  (`server-app.cpp`, `proc-runner.h`); `WF(ProcessTick)`: the loop, or the timer interrupt, goes on
  counting ticks (`ticker-wrapper.h`, README.md:75).
* `SF(ReceptionTimeout)` in `UdsServer`: the event is enabled only between two passes of the loop,
  so weak fairness would not do; that it comes is `ReceptionEnds` of `DoCanReceiver`.
* `DoCanLink`: both loops, the reading of frames that are on the bus, and the ticks.  Losing a
  frame is never fair: `Arrives` holds for a message of which nothing was lost.
* `ServerApp`, `IsoConsole`: weak fairness of both threads (they are scheduled), and in `IsoConsole`
  strong fairness of taking the mutex, without which one thread could win it for ever; each holds it
  for a few instructions and the main loop sleeps between two passes.
* Nothing is assumed fair of the user, the tester, the peer, the client or the driver.  Where an
  end depends on them, the property says so: `ReceptionEnds` is about a bus that has
  fallen silent, `FirstWaitEnds` about a peer that does not send WAIT for ever, `SessionEnds` about a
  tester that is gone.
* `BlockCompletes`, `EtmEnds` hold without any such condition.

### 3.5 Mutants

Beside a definition, an operator marked "Bug:" holds a plausible wrong version of it (a timer not
started, a counter not cut to its width, an end of block off by one).  `mutants` in `PROJECT.json`
pairs each with a property that notices it.  They are not part of any specification.

## 4. The proofs

| theorem | states |
|---|---|
| `DTimer_proofs!TypeCorrect` | types of the timer, the call in progress and the counter |
| `DTimer_proofs!TimerIsCountdown` | `Spec => Countdown!Spec`, for every counter width and every set of periods |
| `DoCanReceiver_proofs!RxInvariant` | `Spec => []RxInv`, for every set of messages and lengths, frame size, number of serial numbers, buffer, block sizes and timeouts |
| `...!RxTypeCorrect`, `RxOpenIffActive`, `RxCountersAgree`, `RxBufferHoldsAssembled`, `RxCreditLeft` | the conjuncts of interest, and `CreditLeft`, as invariants of their own |
| `...!RxInOrder` | frames of one message are put together in its order, none missing or twice |
| `...!RxClosedBeforeReopened`, `RxDeliveredTail` | the action properties: what the client is told, in which order and with which bytes |
| `...!RxReceptionRunsOut` | every step of a reception that goes on takes a frame or takes time off `Cr_tim` |
| `DoCanSender_proofs!TxInvariant` | `Spec => []TxInv`, for every set of messages and lengths, transmit buffer, number of serial numbers, block sizes, STmin values and timeouts, with or without a driver that refuses frames |
| `...!TxTypeCorrect`, `TxWireInOrder`, `TxWithinBlock`, `TxSentIsCounted`, `TxFirstWaitGuarded` | the conjuncts of interest as invariants of their own |
| `...!TxConfirmedIsSent`, `TxNoSilentEnd` | the action properties: `OK_s` only with the last frame; one confirmation a transfer |
| `...!TxPauseGuarded` | the pause between two frames always has a running timer |
| `...!TxBlockRunsOut`, `TxFirstWaitRunsOut` | every step within a block sends or gives no time back; the same of the wait for the first flow control frame |
| `PciHelper_proofs!PackedInFrame` | packing writes bytes, and the protocol information is shorter than the frame, for every length of 32 bits and every frame of 8 to 64 bytes |
| `...!DataRoundTrip` | unpacking what `PackPciForData` packed gives the same type, header length and data length, for every such length whose sum with the protocol information fits 32 bits |
| `...!WrappedIsRejected` | a length whose sum wraps is packed as a single frame, and unpacking rejects that frame |
| `...!ConseqRoundTrip` | unpacking a consecutive frame gives its serial number modulo 16 |
| `ServiceDispatch_proofs!DispatchInvariant` | `Spec => []DispatchInv`, for any elements and capacities |
| `...!SameElementsAlways`, `EverybodyAsked`, `EverybodyIsTold` | the three properties of the run `dispatch` |
| `...!AddAlwaysDecides`, `ContentsOnlyGrow` | when `Add` refuses an element, and that a keeper's contents only grow at their end |
| `ServerApp_proofs!HandoverInvariant` | `Spec => []HandoverInv`: the threads exclude each other, and a set flag stands for a command not yet copied, for any menu |
| `...!PickedIsSentAtMostOnce` | a command is copied at most once for every time one was picked |
| `...!MenuIsPath` | the lists on the menu's stack are a way from the root, whatever is picked |
| `DoCanLink_proofs!LinkInvariant` | `Spec => []LinkInv`: where sender, receiver and bus can be as long as no frame is lost; if STmin is shorter than N_Cr |
| `...!LinkSameBlock` | `Spec => []SameBlock`, under the same hypothesis |
| `...!WireInvariant` | `Spec => []WireInv`: what can be on the bus, what the receiver then put together, and how much of it is in its buffer, whatever is lost; under the same hypothesis |
| `...!LinkImplementsMessageLink` | `Spec => MessageLink!Spec`, under the same hypothesis: messages arrive in order and at most once, with their length and the bytes behind the first frame's part, whole if a single frame or the first segmented one; or a frame was lost |
| `UdsServer_proofs!ServerInvariant` | `Spec => []ServerInv`, for every set of requests and all durations and timings |
| `...!ServerTypeCorrect`, `SessionsStayTogether`, `EtmAlwaysGuarded`, `PendingContextKept` | the invariants that hold whatever the timings |
| `...!SessionAlwaysCanEnd` | `SessionCanEnd`, if the transport layer breaks no reception |
| `...!PendingStandsForRoutine`, `FunctionalRequestsSilent` | `PendingIffRoutine` and the action property `FunctionalSilent`, if the timings fit |
| `...!RequestAnsweredOnce` | `AnsweredOnce`, if the timings fit and no unknown routine is asked for physically |
| `...!EtmUsesItselfUp` | every step within the enhanced timing mode takes something off its duration or leaves p2 to run out, for all timings |

**Assumptions.**  The ASSUMEs of the modules: a frame is longer than its two header bytes, at
least two serial numbers, positive lengths and timeouts, periods smaller than the counter's range;
in `DoCanLink` lengths that fit the 12 bits of a first frame's short form, as the CAN FD form is not in
its sender; in `UdsServer` a session control request names a session or is malformed.  A theorem that
needs more says so in an ASSUME of its own; those are `Timely`, `TimingsFit`, `OneAnswer` and
`~RxMayBreak`, explained below.
`DTimer` further assumes, in the guard of `ProcessTick`, that an armed timer is polled, restarted
or stopped before the counter has gone all the way round (`PolledBeforeWrap`, 49 days of 1 ms
ticks); without it the code's modular difference is wrong and TLC finds the counterexample.

**The timer.**  The refinement mapping is not the fields as they are, but as they will be when the
call in progress returns (`Settled`): a call takes effect at its read of `now()`.  A step of the
code then maps to one step of the countdown or to a stutter: the read to the operation, `Return` to
nothing, a tick to a tick.  The lemma that carries the tick is that one increment of the counter,
wrapping or not, adds one to the modular difference (under `PolledBeforeWrap`).

**The receiver.**  None of the properties is inductive alone.  `CountersAgree` needs the types and
that a message which reached ACTIVE was segmented, so that a first frame leaves bytes to come;
`BufferHoldsAssembled` needs `passed = Len(assembled)` and `passed < rxsize <= RXLEN` to
know that a consecutive frame is written behind what is there and inside the buffer; `CreditLeft`
needs that the peer's credit is what the block counter leaves, and that the counter is below the
block size.  `RxInv` is their conjunction with these facts.  For `InOrder` serial numbers have to
be tied to positions: `OrderInv` says that the number expected is the number of consecutive frames
accepted, modulo `SNMOD`, so a frame of the same message that carries it can only be the next one, if
the message has no more frames than there are numbers.  There is one step per action, and below it
one per conjunct the action can disturb.  The two action properties follow from it and from the lemma
`WhatIsTold`, which lists what a step may tell the client.

**The sender.**  `WithinBlock` says that the history variable `credit` never falls below 0, which
a step that sends keeps only if it was positive before.  So `TxInv` has the link to the code's
counters: in `MF_DT` and `PAUSE` the credit is positive and is the block size minus `currblknum`;
a step that goes on has `currblknum + 1 < segblkcount`, so it leaves one more.  `WireInOrder`
needs that `sn` is the number of frames sent, modulo `SNMOD`, and that the frame buffer is packed
anew for each frame; both hold as long as `clean` does, which implies `prev_data_sent`.  That
counting on modulo `SNMOD` is counting the frames is the lemma `NextRemainder`.
`SentIsCounted` gives the index of the chunk, and that the pass which reaches `size` is the last
(`TxConfirmedIsSent`).

**The codec.**  The four bytes of a long length are digits in base 256: `LongDigits` shows that the
shifts and remainders give the number back.  The theorems split on the frame type and on the length
against 4095; what the frame buffer held before does not matter, since each case reads only bytes it
wrote.  `FitsSingle` adds in 32 bits as the code does (`pci-helper.cpp:124`): for the length 2^32 - 1, and for
2^32 - 2 with the two-byte header of CAN FD, the sum wraps and a single frame is packed.  `DataRoundTrip` leaves
these out (`SumFits`), and `WrappedIsRejected` says what becomes of them; `PackedInFrame` holds for them too.  No caller
of the code gets there, unless its transmit buffer has 4 GiB (`CheckTxValid`, `docan-sender.cpp:54-63`).
They rest on no assumption but the ranges of the arguments.

**The dispatch.**  A walk that ends must have called everything.  The invariant says that a walk in
progress has called the elements before its index, or before the cursor; for the walks by index this
needs that the walks they cause do not move their index, and for those by cursor that no second
walk uses the cursor meanwhile (`Alone`: nothing nests in a confirmation).  That the loops which
stop at the first empty position and those that stop at the count see the same elements is `Filled`.
`Filled` also decides what `Add` does: its loop looks for the element or for an empty position, so that it
refuses for no other reason than the two of `AddDecides` holds because the empty positions are those from the count on.

**The server.**  The member functions are operators on one record, so the proof has two layers.
The lemmas `...Effect` and `...Answers` say of each operator which groups of fields it leaves alone,
that it keeps the types, and which responses it adds; the lemmas `...Held` and `...Routine` then take one
action each.  `ServerInv` holds whatever the timings: types; both layers on the same session;
and while the enhanced timing mode lasts, p2 runs, the keep-alive timer does unless the duration is used up,
and the context is that of the routine request it waits for (`Held`).
`SessionCanEnd` adds that a non-default session has S3 or p2 running (`Live`) outside a reception,
which the code loses when a reception ends in an unexpected frame; hence `~RxMayBreak`.

The pending indicator is a race between three timers: that it stands for a routine at
work means that the routine's answer comes before the mode ends and the keep-alive message before
each end of p2.  `Covered` says by how much: the ticks left of the routine are fewer than those left of
the keep-alive timer, of the rest of the duration and of the last p2 together.  `InTime` says what the
polls of this pass have already taken care of.  Both need `TimingsFit`: `SetPending` accepts the
interval, an interval shorter than p2*, a routine that ends before the mode, and a loop that comes round in every
tick.  The code has 1000 ms and 60000 ms (`rctrl-router.h:162`), p2* 5000 ms and a
routine of 15000 ms (`test-routine-server.h:54`), so all four hold of it with much to spare, the last as long as a pass of the loop takes
less than a tick; a routine longer than its own
announced duration violates them, and `PendingIffRoutine` with them.

For `AnsweredOnce` each step counts the final responses it adds.  A request handled by a client
adds one, with the exception the findings of 3.3 name: an unknown routine asked for physically gets two, so
`OneAnswer` leaves it out.  It is the only exception; every other argument is in the theorem.

**The link.**  `SameBlock` relates counters of two nodes that change at different times, so it is
far from inductive.  `Transfer` lists the places a transfer can be in while nothing of it was lost: the first
frame on the bus; its refusal on the bus; a permission on the bus; frames of a block on the bus with
more to come; or the block all sent and its last frames on the bus.  In the last two the bus is the queue
of the frames the sender has sent and the receiver has not read, numbered one after the other, and the
sender's block counter is the receiver's plus the length of that queue.  That both see the end of a
block at the same frame, although one compares with `==` after counting and the other with `>=` before,
and that 0 counts as 1 for both, is `BlockNumbers`.  The sizes
pass through the heads of `PciHelper`, by its round trips.
`Timely` (STmin below N_Cr) is needed: with a shorter N_Cr the receiver gives up in
the pause between two frames although nothing was lost, and TLC finds `SameBlock` violated.
STmin is 127 ticks at most and N_Cr 1000 as the code starts it.

`LinkInv` says nothing of a transfer that lost a frame; the refinement needs an invariant for that case
too.  `WireInv` has three parts.  `Place` says what can be on the bus: nothing; a single frame; a first
frame, or its transfer before the permission; or the consecutive frames of one message the sender has
sent and that are not yet read or lost, numbered one after the other, with at most one flow control frame
on its way back.  In the last place the receiver, while active, has accepted
some number of frames of that message (`Holds`), never more than were sent, and is behind by what was
lost.  That this is at most a block is `Behind`: the sender stops at the end of a block, and only a receiver
that has counted as many frames permits it to go on; so a permission on its way means that both are at the
same frame.  `Stored` ties the buffer to what was put together: behind the first frame's part they are the
same; in the first part too while `begun` is 1, because `rxds.passed` is 0 until the first of all receptions
began, so that its first frame goes to the start of the buffer.  With the second one it need not be 0, and that
is the stale offset of `docan-receiver.cpp:53`.  `Waits`:
N_Bs does not elapse while nothing is lost, since something is on the bus then and the clock waits
for it; this uses `LinkInv`, and so `Timely`.

A frame the receiver accepts carries the serial number it expects, but that may be the one 16 frames later: with
blocks of more than 16 a loss of exactly 16 frames in a row goes unnoticed by both serial number and block counter.
`Sound` therefore has two cases.  If the receiver missed no frame, or if a message has no more than 16 consecutive
frames or a block no more than 16 (`Unambiguous`; the code starts with blocks of 16, `docan-receiver.h:60`, and
its example sets 8, `main.cpp:38`), what it holds is the beginning of the message.  Otherwise the bytes may be wrong, but
then it is behind for good: it counts bytes, and the last frame of the message does not fill it up, so nothing is
delivered.  The refinement needs only this, and so holds for every block size.

The refinement then goes by steps of the two nodes.  A request is `Ask` or `AskShort`; the pass that sends the
last frame is `Sent`; the end of a transfer by N_Bs or a refusal is `GiveUp`; losing the last frame on the bus is
`LoseMessage` if it is the last of its message, any other loss `LoseFrame`; reading the last frame of a message is
`Deliver` if the receiver put together all before it, and otherwise `Drop`, for which `lost` must hold:
without a loss the receiver is in step (`InStep`).  All else is a stutter.  `Deliver` needs that the bytes
handed over are taken for the message at the head of the queue and for no other: two messages that a payload
is taken for both are the same one (`SameTaken`), and by `Stored` it is taken for the one put together, and is
whole if that is the first.

**The threads.**  `IsCmd` reads the flag without the mutex, so that the main thread acts on what it saw
holds only because nobody else resets the flag: `HandoverInv` says that between the test and the reset
the flag stays set, and that outside the moment between copy and reset a set flag stands for a command
that was written and not yet copied.  It needs mutual exclusion, stated as the mutex being held exactly
by the thread inside its `lock_guard`.  That the stack is a path (`MenuInv`) needs that it is a
sequence of lists, so that going up removes the end of the path and going down adds to it.

**The safety halves of the liveness properties.**  That something ends rests on two facts: the steps that
must happen do happen, which is fairness, and no step in between undoes what they achieved, which is an action
property that can be proved.  Each of the following says that a step which stays in the waiting state makes
progress or gives the timer that ends it no time back.  `ReceptionRunsOut` is that of `ReceptionEnds`: the timer of a reception is
armed, a tick takes one off it, and only a frame that is received restarts it.  `BlockRunsOut` with
`PauseGuarded` is that of `BlockCompletes`: a step within a block sends a frame of it; or it sends none, and then no
pause begins and neither the pause nor N_As is set back.  `FirstWaitRunsOut` is that of
`FirstWaitEnds`, with the two exceptions the liveness property has to rule out: a WAIT of the peer and
a client that sends another first frame.  `EtmRunsOut` is that of `EtmEnds`: p2 is restarted only together with a
reduction of the duration, so keep-alive messages do not put the end off for ever; it needs that an
interval is positive (`EtmPaced`), and none of `TimingsFit`.  The step from these to the
liveness properties stays with TLC.

**Out of the prover's reach**, and left to TLC: every liveness property (`ReceptionEnds`,
`BlockCompletes`, `FirstWaitEnds`, `EtmEnds`, `SessionEnds`, `Arrives`, `LatestSent`, `ExitEnds`).  The
recursive structure of data is avoided (contents and queues are stated by position), so no induction
is needed.

**Only model-checked** are the liveness properties, therefore: every invariant, action property and refinement of the
passing runs is a theorem.  `RxInv`, `TxInv`, `LinkInv`, `WireInv` and the invariants of the server were confirmed by
TLC before they were proved and are not among the runs' invariants, since the theorems say
more.

## 5. What is not modelled, and why

* CAN FD in the two halves: `PciHelper` covers it, but `DoCanReceiver` and `DoCanSender` have one
  length of header per frame type, and `DoCanLink` is classic CAN.
* `CANDL`, padding and CAN ids changed while running (`SetParameter`); the examples set them once.
  The sender asserts a frame longer than its protocol information, the receiver one shorter than 64
  bytes; other lengths are outside the models.
* Frames `UnpackPciInfo` rejects have no effect in the receiver and are left out of its model.
* First frames in the long form (`pci-helper.cpp:147-156`): the codec has them with their round trip, the
  receiver, the sender and the link do not, also on classic CAN.
* A driver that refuses the receiver's flow control frame (`docan-receiver.cpp:44`, 48 and 95, where the
  result of `PduToCan` is not looked at): the receiver's driver takes every frame, and only the bus of
  `DoCanLink` may lose one.
* The requests the menu of the example server sends itself (`iso_tp.Request`, `server-app.cpp:125-128`):
  `ServerApp` ends where the command is handed over, and `UdsServer` has no such message.
* Single frames of length 0, which the codec accepts and `uds-app-manager.cpp:68` asserts away, and
  the length of functional single frames (`docan-tp.cpp:24`): the models start from requests that fit
  their frame.
* The `stmin` the receiver hands to its peer is passed on unchanged in `DoCanReceiver`; `DoCanLink`
  carries it across.
* Security access of `DSCClient`, and writing of DIDs, which no client declares as supported.
* `SetSessionParam`: protected, and without a caller.
* A manager without clients, whose `procResult` is returned uninitialised (`uds-app-client.h:79`).
* `IsoApp`, which prints events; argument parsing, sockets, byte helpers: input and output, or
  functions without state.

## 6. Plan

Done: the timer with its refinement; the codec with its proofs; receiver and sender with their
inductive invariants, together as a link that provably implements `MessageLink` and whose two ends stay in
step, and over the shared memory of one node; the server with its invariants; the dispatch and the two
threads of the example server with their proofs; the threads of the ISO-TP example. What a keeper
holds after any `Add`, and the safety halves of `ReceptionEnds`, `BlockCompletes`, `FirstWaitEnds` and `EtmEnds`, are
theorems too.

Open: the safety halves of `SessionEnds`, `Arrives`, `LatestSent` and `ExitEnds`, whose measures go over several
components or threads; the liveness properties themselves, which the prover cannot reach.

## 7. Running

    tlc -workers 2 -config rx_reassembly.cfg MCDoCanReceiver
    tlapm DoCanReceiver_proofs.tla

`PROJECT.json` names the module of every configuration.
