------------------------------ MODULE UdsServer ------------------------------
(***************************************************************************)
(* The example server (src/example/server-app.cpp): the session layer, the *)
(* application manager and its clients, between a transport layer that     *)
(* announces and delivers requests and the main loop that polls timers.    *)
(*                                                                         *)
(* The handlers run in the main loop, one at a time.  Ticks come in the    *)
(* main loop too, or from a timer interrupt (README.md:75) and then also   *)
(* in between the polls of one Process.                                    *)
(* The transport layer is DoCAN_TP as DoCanReceiver and DoCanSender        *)
(* describe it, reduced to the events the session sees.                    *)
(***************************************************************************)
EXTENDS UdsAppManager, FiniteSets

CONSTANTS
    Requests,     \* requests of the tester
    MayFail,      \* the CAN driver may refuse a frame
    RxMayBreak,   \* a segmented reception may end in an unexpected frame
    PromptLoop    \* the main loop comes round in every tick

Request0 == [si : Sids, arg : STRING, addr : {"PHYS", "FUNC"}, suppress : BOOLEAN]

\* A session is asked for by its number: 1 to 3, or one the client refuses
\* (session-client.cpp:35).
ASSUME RequestsAssumption ==
    /\ Requests \subseteq Request0
    /\ \A r \in Requests : r.si = "DSC" => r.arg \in Sessions \cup {"badSubFunc", "short"}
ASSUME ServerAssumption ==
    MayFail \in BOOLEAN /\ RxMayBreak \in BOOLEAN /\ PromptLoop \in BOOLEAN

VARIABLES
    server,   \* the server object and its clients
    rx,       \* the transport layer is receiving a segmented request
    pc,       \* main loop: before Process, between its polls, behind it, or lost
    pended,   \* history: context of the request StartPending was called for
    finals    \* history: final responses since the latest request was accepted

vars == <<server, rx, pc, pended, finals>>

Can == IF MayFail THEN BOOLEAN ELSE {TRUE}

NotPended == [si |-> "none", addr |-> "PHYS", suppress |-> FALSE]

\* The server with nothing sent in this step yet.
Quiet == [server EXCEPT !.out = <<>>]

Finals == Cardinality({i \in DOMAIN server'.out : server'.out[i].code # "RCRRP"})

InLoop == pc \in {"idle", "ran"}

Init ==
    /\ server = NewServer
    /\ rx = "IDLE" /\ pc = "idle"
    /\ pended = NotPended /\ finals = 0

-----------------------------------------------------------------------------
(* Events of the transport layer (ReadFrame, called from the main loop).   *)
FirstFrame ==
    /\ InLoop
    /\ server' = OnDataFF(Quiet)
    /\ rx' = "ACTIVE"
    /\ UNCHANGED <<pc, pended, finals>>

\* A request is complete: a single frame, or the end of the reception.  Functionally
\* addressed requests are single frames that do not touch the receiver.
Delivered(r) == rx' = IF r.addr = "FUNC" THEN rx ELSE "IDLE"

Unknown(r) == r.si = "RDBI" /\ r.arg = "unknown"

AcceptRequest(r) ==
    /\ InLoop
    /\ Delivered(r)
    /\ Accepts(server)
    /\ ~(Unknown(r) /\ server.isManagerActive)
    /\ \E can \in Can : server' = OnData(Quiet, r, can)
    /\ pended' = IF r.si = "RC" /\ r.arg = "routine1" /\ ~Ignores(server, r)
                 THEN server'.req ELSE NotPended
    /\ finals' = Finals
    /\ UNCHANGED pc

IgnoreRequest(r) ==
    /\ InLoop
    /\ Delivered(r)
    /\ ~Accepts(server)
    /\ server' = Quiet
    /\ UNCHANGED <<pc, pended, finals>>

\* DidKeeper::ReadDID never gets past a handler that ignores the DID.
LoseInDidKeeper(r) ==
    /\ InLoop
    /\ Delivered(r)
    /\ Accepts(server) /\ server.isManagerActive /\ Unknown(r)
    /\ server' = Cleared(StartP2(Quiet), r)
    /\ pc' = "lost"
    /\ pended' = NotPended /\ finals' = 0

Data(r) == AcceptRequest(r) \/ IgnoreRequest(r) \/ LoseInDidKeeper(r)

FromTester == FirstFrame \/ \E r \in Requests : Data(r)

ReceptionTimeout ==
    /\ InLoop
    /\ rx = "ACTIVE"
    /\ server' = OnConf(Quiet, "TIMEOUT_Cr")
    /\ rx' = "IDLE"
    /\ UNCHANGED <<pc, pended, finals>>

\* Data with UNEXP_PDU: the clients get an OnAppConfirmation none of them looks at.
ReceptionBroken ==
    /\ RxMayBreak
    /\ InLoop
    /\ rx = "ACTIVE"
    /\ server' = Quiet
    /\ rx' = "IDLE"
    /\ UNCHANGED <<pc, pended, finals>>

\* A segmented response is through, or given up.
TxDone(res) ==
    /\ InLoop
    /\ server.tx
    /\ server' = OnConf([Quiet EXCEPT !.tx = FALSE], res)
    /\ UNCHANGED <<rx, pc, pended, finals>>

Transport ==
    \/ FromTester
    \/ ReceptionTimeout \/ ReceptionBroken
    \/ TxDone("OK_s") \/ TxDone("TIMEOUT_Bs")

-----------------------------------------------------------------------------
(* The main loop: Process of the server, poll by poll, then RotineServ1's. *)
Poll(from, to, Op(_, _)) ==
    /\ pc = from
    /\ pc' = to
    /\ \E can \in Can : server' = Op(Quiet, can)
    /\ finals' = finals + Finals
    /\ UNCHANGED <<rx, pended>>

PollS3 ==
    /\ InLoop
    /\ pc' = "p2"
    /\ server' = ProcessS3Timer(Quiet)
    /\ UNCHANGED <<rx, pended, finals>>

PollP2 == Poll("p2", "etm", ProcessP2Timer)
PollEtm == Poll("etm", "app", ProcessEtm)
PollRoutine == Poll("app", "ran", ProcessRoutine)

Process == PollS3 \/ PollP2 \/ PollEtm \/ PollRoutine

SetActiveMode ==
    /\ InLoop
    /\ \E isactive \in BOOLEAN :
          server' = [Quiet EXCEPT !.isManagerActive = isactive]
    /\ UNCHANGED <<rx, pc, pended, finals>>

ProcessTick ==
    /\ PromptLoop => pc \in {"ran", "lost"}
    /\ server' = [TickSession(Quiet) EXCEPT !.timeout = Ticked(@)]
    /\ pc' = IF PromptLoop /\ pc = "ran" THEN "idle" ELSE pc
    /\ UNCHANGED <<rx, pended, finals>>

Next == Transport \/ Process \/ SetActiveMode \/ ProcessTick

Spec == Init /\ [][Next]_vars

\* The main loop goes on, time passes, and a reception on a silent bus is timed out
\* by the receiver (ReceptionEnds of DoCanReceiver) in one of the passes of the loop.
FairSpec ==
    /\ Spec
    /\ WF_vars(Process) /\ WF_vars(ProcessTick) /\ SF_vars(ReceptionTimeout)

-----------------------------------------------------------------------------
(***************************************************************************)
(* Properties                                                              *)
(***************************************************************************)
Codes == SilentCodes \cup {"PR", "RCRRP", "ENOA", "IMLOIF"}
Messages == [si : Sids, code : Codes, long : BOOLEAN]
Contexts == [si : Sids \cup {"none"}, addr : {"PHYS", "FUNC"}, suppress : BOOLEAN]

Servers ==
    [sessType : {"DEFAULT", "NONDEFAULT"},
     p2 : TimerType({0, p2_max, p2_enhanced}), S3 : TimerType({0, S3_max}),
     isEtmActive : BOOLEAN, etmDuration : Nat, etmKeepAliveInterval : Nat,
     etmTim : TimerType({0, EtmInterval}), etmSi : Sids \cup {"none"},
     tx : BOOLEAN, out : Seq(Messages), req : Contexts, nrcOutCode : Codes,
     nrcPending : BOOLEAN, isManagerActive : BOOLEAN, currSession : Sessions,
     routinePending : BOOLEAN, timeout : TimerType({RoutineTime})]

TypeOK ==
    /\ server \in Servers
    /\ rx \in {"IDLE", "ACTIVE"}
    /\ pc \in {"idle", "p2", "etm", "app", "ran", "lost"}
    /\ pended \in Contexts
    /\ finals \in Nat

\* The session layer and the clients agree on whether the default session is active,
\* however it was left or entered: by request, by timeout, with a response that was
\* suppressed or lost (uds-app-manager.cpp:19-33, 53-61, 122-126,
\* session-control.cpp:110-137, session-client.cpp:41-43, 61-67).
SessionsAgree == server.sessType = "DEFAULT" <=> server.currSession = "default"

\* A non-default session always has a way to end: S3 runs, or p2 does, which starts
\* S3 again, or a reception holds S3 and does so when it is over
\* (session-control.cpp:8-18, 71-78, 81, 88-99, 138-141).
SessionCanEnd ==
    server.sessType = "NONDEFAULT" =>
        server.S3.active \/ server.p2.active \/ rx = "ACTIVE"

\* The enhanced timing mode is always guarded by p2, and as long as its duration is
\* not used up the keep-alive timer runs (session-control.cpp:5-29, 36-47).
EtmGuarded ==
    server.isEtmActive =>
        /\ server.p2.active
        /\ server.etmDuration > 0 => server.etmTim.active

\* While a response is pending nothing touches the context of its request, so the
\* pending messages and the final response go to the service and the address that
\* asked for it (session-control.h:39, session-control.cpp:58-71,
\* uds-app-manager.cpp:74-81, 149-153).
PendingKeepsContext ==
    server.isEtmActive => server.req = pended /\ server.etmSi = pended.si

\* A request gets one final response at most, also when a routine answers late and
\* keep-alive messages went out before (session-control.cpp:5-18, 36-47, 142-152,
\* uds-app-manager.cpp:64-112, test-routine-server.h:38-49).
AnsweredOnce == finals <= 1

\* The pending indicator stands for a routine still at work, across suppressed
\* responses and refused frames (uds-app-manager.cpp:30, 149-153).
PendingIffRoutine == server.nrcPending <=> server.routinePending

\* A functionally addressed request that did not go pending is not answered with one
\* of the silent codes, which are "always suppressed in case of a functionally addressed
\* request" (app-uds-response-allow-test.cpp:255-269, uds-app-manager.cpp:129-146).
FunctionalSilent ==
    [][\A i \in DOMAIN server'.out :
          server'.out[i].code \in SilentCodes =>
              server'.req.addr = "PHYS" \/ pended' = server'.req]_vars

\* The enhanced timing mode ends, even if the routine never answers
\* (session-control.cpp:36-47, 138-152).
EtmEnds == server.isEtmActive ~> ~server.isEtmActive

\* The server falls back to the default session when the tester is gone
\* (session-control.cpp:129-137).
SessionEnds == (<>[][~FromTester]_vars) => <>[](server.sessType = "DEFAULT")

-----------------------------------------------------------------------------
\* The main loop comes round again and again (did-handler.h:11 "DID request is not
\* processed and another attempt can be performed using another DIDHandler class").
MainLoopRuns == []<>(pc = "ran")

=============================================================================
