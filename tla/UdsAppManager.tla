---------------------------- MODULE UdsAppManager ----------------------------
(***************************************************************************)
(* UdsAppManager (src/uds/session/uds-app-manager.{h,cpp}) and its clients *)
(* in the example server (src/example/uds-test-server): DSCClient,         *)
(* DidRouter with TestDidReader, RoutineRouter with RotineServ1 and        *)
(* RotineServ2, asked in this order by a MultiServiceManager.              *)
(*                                                                         *)
(* A request is a record: service identifier `si', the rest of the payload *)
(* as far as it is told apart, `arg', address type `addr' and the bit      *)
(* `suppress' of the second byte.  The manager adds to the server object   *)
(*   req (reqContext), nrcOutCode, nrcPending, isManagerActive,            *)
(*   currSession - SessionInfo, shared with DSCClient;                     *)
(*   routinePending, timeout - RotineServ1, the routine that takes long.   *)
(* A client returns the server object, its ProcessResult and the response  *)
(* that lies in pubBuff (NoResponse when pubRespLength is 0).              *)
(***************************************************************************)
EXTENDS SessionControl

CONSTANTS
    SubFunctionSids,  \* services whose client says they have a sub-function
    RoutineTime,      \* RotineServ1::timeout, 15000 ms in the example
    EtmDuration,      \* StartPending(60000u, 1000u) in RoutineRouter
    EtmInterval

ASSUME RoutineAssumption ==
    /\ RoutineTime \in Nat \ {0}
    /\ EtmDuration \in Nat /\ EtmInterval \in Nat

\* "other" stands for the services nobody supports, "response" for a response of
\* another ECU, "invalid" for what is_sid_processable rejects.
Sids == {"DSC", "RDBI", "RC", "TP", "other", "response", "invalid"}
Sessions == {"default", "programming", "extended"}

Context(r) == [si |-> r.si, addr |-> r.addr, suppress |-> r.suppress]

NewServer ==
    [sessType |-> "DEFAULT",
     p2 |-> NewTimer(0, FALSE, FALSE), S3 |-> NewTimer(0, FALSE, FALSE),
     isEtmActive |-> FALSE, etmDuration |-> 0, etmKeepAliveInterval |-> 0,
     etmTim |-> NewTimer(0, TRUE, TRUE), etmSi |-> "none",
     tx |-> FALSE, out |-> <<>>,
     req |-> [si |-> "none", addr |-> "PHYS", suppress |-> FALSE],
     nrcOutCode |-> "PR", nrcPending |-> FALSE, isManagerActive |-> TRUE,
     currSession |-> "default",
     routinePending |-> FALSE, timeout |-> NewTimer(RoutineTime, TRUE, TRUE)]

NoResponse == Message("none", "none", FALSE)
Response(m, long) == Message(m.req.si, "PR", long)

Returned(m, pres, resp) == [m |-> m, pres |-> pres, resp |-> resp]

-----------------------------------------------------------------------------
\* Codes that are not sent in answer to a functionally addressed request.
SilentCodes == {"SNSIAS", "SNS", "SFNS", "SFNSIAS", "ROOR"}

\* Bug: the address of the request is not looked at.
ResponseAllowedPhys(m) == ~(m.nrcOutCode = "PR" /\ m.req.suppress)

ResponseAllowed(m) ==
    /\ ~(m.req.addr = "FUNC" /\ ~m.nrcPending /\ m.nrcOutCode \in SilentCodes)
    /\ ~(m.nrcOutCode = "PR" /\ m.req.suppress)

\* Bug: the pending indicator outlives the response.
AnsweredStillPending(m) == m

Answered(m) == [m EXCEPT !.nrcPending = FALSE]

SendResponse(m, resp, can) ==
    IF resp = NoResponse THEN m
    ELSE LET sent == IF ResponseAllowed(m) THEN SendRequest(m, resp, FALSE, can) ELSE m
         IN  SetSessionMode(Answered(sent), m.currSession = "default")

SendNegResponse(m, nrc, can) ==
    SendResponse([m EXCEPT !.nrcOutCode = nrc], Negative(m.req.si, nrc), can)

\* Bug: the clients are not told of the end of the session.
OnSessionChangeLost(m, isdefault) == m

\* DSCClient::OnSessionChange, the only client that listens.
OnSessionChange(m, isdefault) ==
    IF isdefault THEN [m EXCEPT !.currSession = "default"] ELSE m

SetServiceSession(m, session) ==
    OnSessionChange(SetSessionMode(m, session = "default"), session = "default")

StartPending(m, duration, interval, can) ==
    SetPending([m EXCEPT !.nrcPending = TRUE], duration, interval, m.req.si, can)

\* On_s3_Timeout, and the part of ProcessSessionMode that leads to it.
ProcessS3Timer(m) ==
    IF S3Expires(m)
    THEN OnSessionChange(SetSessionMode([m EXCEPT !.S3 = Polled(@)], TRUE), TRUE)
    ELSE m

-----------------------------------------------------------------------------
(* The clients.                                                            *)
DscIndication(m, arg, can) ==
    LET granted == SetServiceSession([m EXCEPT !.currSession = arg], arg)
        after   == CASE arg = "badSubFunc" -> SendNegResponse(m, "SFNS", can)
                     [] arg = "programming" /\ m.currSession = "default" ->
                          SendNegResponse(m, "SFNSIAS", can)
                     [] OTHER -> SendResponse(granted, Response(m, FALSE), can)
    IN  Returned(after, "HANDLED_RESP_OK", NoResponse)

\* DidRouter: the response to 0x2200 needs two frames.  An unknown DID does not get
\* here, DidKeeper asks its one handler for it for ever: see UdsServer.
DidIndication(m, arg, can) ==
    IF arg = "badLength"
    THEN Returned(SendNegResponse(m, "IMLOIF", can), "HANDLED_RESP_OK", NoResponse)
    ELSE Returned(m, "HANDLED_RESP_OK", Response(m, arg = "did2200"))

SendRoutineResponse(m, can) == SendResponse(m, Message("RC", "PR", FALSE), can)

\* The routines, asked in their order.
OnRoutine(m, arg, can) ==
    CASE arg = "routine1" ->
           Returned([m EXCEPT !.routinePending = TRUE, !.timeout = RestartTimer(@)],
                    "HANDLED_PENDING", NoResponse)
      [] arg = "routine2" ->
           Returned(SendRoutineResponse(m, can), "HANDLED_RESP_NO", NoResponse)
      [] OTHER -> Returned(m, "NOT_HANDLED", NoResponse)

RoutineIndication(m, arg, can) ==
    LET ret   == OnRoutine(m, arg, can)
        after == CASE ret.pres = "NOT_HANDLED"     -> SendNegResponse(ret.m, "ROOR", can)
                   [] ret.pres = "HANDLED_PENDING" ->
                        StartPending(ret.m, EtmDuration, EtmInterval, can)
                   [] OTHER -> ret.m
    IN  IF arg = "badSubFunc"
        THEN Returned(SendNegResponse(m, "SFNS", can), "HANDLED_RESP_NO", NoResponse)
        ELSE [ret EXCEPT !.m = after]

OnAppIndication(m, arg, can) ==
    CASE m.req.si = "DSC"  -> DscIndication(m, arg, can)
      [] m.req.si = "RDBI" -> DidIndication(m, arg, can)
      [] OTHER             -> RoutineIndication(m, arg, can)

-----------------------------------------------------------------------------
\* The part of OnSessIndication behind the client's return.
AfterClient(ret, can) ==
    CASE ret.pres = "NOT_HANDLED" ->
           IF ret.m.req.addr = "PHYS" THEN SendNegResponse(ret.m, "SNS", can) ELSE ret.m
      [] ret.pres = "HANDLED_RESP_OK" -> SendResponse(ret.m, ret.resp, can)
      [] ret.pres = "HANDLED_RESP_NO" -> SetSessionMode(ret.m, ret.m.currSession = "default")
      [] OTHER -> ret.m

TesterPresent(m, arg, can) ==
    CASE arg = "badSubFunc" -> SendNegResponse(m, "SFNS", can)
      [] arg = "badLength"  -> SendNegResponse(m, "IMLOIF", can)
      [] OTHER -> SendResponse(m, Response(m, FALSE), can)

\* Requests that do not get to the clients: nobody supports the service, or the
\* request is shorter than the client says.
Served == {"DSC", "RDBI", "RC"}
Unsupported(r) == r.si \notin Served \/ r.arg = "short"

SendUnsupported(m, r, can) ==
    SendNegResponse(m, IF r.si \in Served THEN "IMLOIF" ELSE "SNS", can)

\* reqContext for a request that reaches the clients: a service without
\* sub-function has no suppress bit.
Asked(m, r) == [m EXCEPT !.nrcOutCode = "PR", !.req = Context(r)]
Cleared(m, r) == [Asked(m, r) EXCEPT !.req.suppress = @ /\ r.si \in SubFunctionSids]

Ignores(m, r) == ~m.isManagerActive \/ r.si = "invalid"

OnSessIndication(m, r, can) ==
    CASE Ignores(m, r)      -> [m EXCEPT !.nrcOutCode = "PR"]
      [] ~Ignores(m, r) /\ r.si = "response" -> Asked(m, r)
      [] ~Ignores(m, r) /\ r.si = "TP"       -> TesterPresent(Asked(m, r), r.arg, can)
      [] ~Ignores(m, r) /\ r.si \notin {"response", "TP"} /\ Unsupported(r) ->
           SendUnsupported(Asked(m, r), r, can)
      [] OTHER -> AfterClient(OnAppIndication(Cleared(m, r), r.arg, can), can)

\* Bug: requests are handled also in the enhanced timing mode.
AcceptsAlways(m) == TRUE

\* OnIsoEvent(Data, OK_r)
Accepts(m) == ~m.isEtmActive

OnData(m, r, can) == IF Accepts(m) THEN OnSessIndication(StartP2(m), r, can) ELSE m

\* RotineServ1::Process
RoutineEnds(m) == m.routinePending /\ HasElapsed(m.timeout)

ProcessRoutine(m, can) ==
    IF RoutineEnds(m)
    THEN SendRoutineResponse([m EXCEPT !.routinePending = FALSE,
                                       !.timeout = StopTimer(Polled(@))], can)
    ELSE m

=============================================================================
