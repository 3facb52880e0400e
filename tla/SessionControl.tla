---------------------------- MODULE SessionControl ----------------------------
(***************************************************************************)
(* SessionControl (src/uds/session/session-control.{h,cpp}): the session   *)
(* layer of a UDS server.                                                  *)
(*                                                                         *)
(* Its member functions call the transport layer and are called back by it *)
(* before they return, so they are operators from a state of the server    *)
(* object to the next one; UdsServer makes the steps of them.  `s' is the  *)
(* server object, of which this module knows the fields                    *)
(*   sessType, p2, S3, isEtmActive, etmDuration, etmKeepAliveInterval,     *)
(*   etmTim      - the members of the class;                               *)
(*   etmSi       - etmWaitRespBuff[1], the service of the pending message; *)
(*   tx          - the transport layer is sending a segmented message;     *)
(*   out         - messages the transport layer accepted in this step.     *)
(* `can' tells whether the CAN driver takes the frames of this step.       *)
(***************************************************************************)
EXTENDS Timers, Sequences

CONSTANTS
    S3_max,       \* tims.S3_max, 5000 ms in the code
    p2_max,       \* tims.p2_max, 250 ms
    p2_enhanced,  \* tims.p2_enhanced, 5000 ms
    EtmFloor      \* longest keep-alive interval SetPending refuses, 999 ms

ASSUME SessionTimingsAssumption ==
    /\ S3_max \in Nat \ {0} /\ p2_max \in Nat \ {0} /\ p2_enhanced \in Nat \ {0}
    /\ EtmFloor \in Nat

\* A message of the server: a positive response (code "PR") or a negative one.
Message(si, code, long) == [si |-> si, code |-> code, long |-> long]
Negative(si, nrc) == Message(si, nrc, FALSE)

-----------------------------------------------------------------------------
\* SetSessionMode(bool)
SetSessionMode(s, is_default) ==
    IF is_default
    THEN [s EXCEPT !.S3 = StopTimer(@), !.sessType = "DEFAULT"]
    ELSE [s EXCEPT !.S3 = IF s.sessType = "DEFAULT" THEN StartTimer(@, S3_max)
                                                    ELSE RestartTimer(@),
                   !.sessType = "NONDEFAULT"]

\* SetSessionMode(sessType)
RefreshSession(s) == SetSessionMode(s, s.sessType = "DEFAULT")

\* OnIsoEvent(Conf, res)
OnConf(s, res) ==
    IF (res = "OK_s" /\ ~s.isEtmActive) \/ res = "TIMEOUT_Cr"
    THEN RefreshSession(s)
    ELSE s

(* host->Request: DoCAN_Sender::Send.  A message in transmission is dropped *)
(* for the new one without a word; a single frame the driver takes is       *)
(* confirmed before the call returns, a segmented message later (TxDone).   *)
Request(s, msg, can) ==
    LET dropped == [s EXCEPT !.tx = FALSE]
        taken   == [s EXCEPT !.tx = msg.long, !.out = Append(@, msg)]
    IN  IF ~can THEN dropped
        ELSE IF msg.long THEN taken
        ELSE OnConf(taken, "OK_s")

\* Bug: the enhanced timing mode starts without the timer that ends it.
ArmP2Forgotten(s, enhanced) == StopTimer(s.p2)

ArmP2(s, enhanced) == IF enhanced THEN StartTimer(s.p2, p2_enhanced) ELSE StopTimer(s.p2)

\* Bug: a final response does not end the enhanced timing mode.
EtmNeverOff(s, enhanced) == enhanced \/ s.isEtmActive

EtmMode(s, enhanced) == enhanced

SendRequest(s, msg, enhanced, can) ==
    Request([s EXCEPT !.isEtmActive = EtmMode(s, enhanced), !.p2 = ArmP2(s, enhanced)],
            msg, can)

SendWaitResponse(s, can) == SendRequest(s, Negative(s.etmSi, "RCRRP"), TRUE, can)

SetPending(s, duration, interval, si, can) ==
    IF duration < interval \/ interval <= EtmFloor THEN s
    ELSE [SendWaitResponse([s EXCEPT !.etmSi = si], can)
             EXCEPT !.etmTim = StartTimer(@, interval),
                    !.etmKeepAliveInterval = interval,
                    !.etmDuration = duration - interval]

-----------------------------------------------------------------------------
(* Process, in the order of its three timers.                              *)
S3Expires(s) == s.sessType # "DEFAULT" /\ HasElapsed(s.S3)

\* What is left of ProcessSessionMode when S3 has been looked at.
NoAnswerInTime(s, can) ==
    LET off == [s EXCEPT !.isEtmActive = FALSE]
    IN  IF s.isEtmActive THEN SendRequest(off, Negative(s.etmSi, "ENOA"), FALSE, can) ELSE s

\* Bug: the session timer stays stopped when no response was sent.
S3AfterP2Stopped(s) == s.S3

S3AfterP2(s) == IF s.sessType # "DEFAULT" THEN RestartTimer(s.S3) ELSE s.S3

ProcessP2Timer(s, can) ==
    IF HasElapsed(s.p2)
    THEN NoAnswerInTime([s EXCEPT !.p2 = Polled(@), !.S3 = S3AfterP2(s)], can)
    ELSE s

EtmExpires(s) == s.isEtmActive /\ s.etmDuration # 0 /\ HasElapsed(s.etmTim)

\* Bug: the duration of the enhanced timing mode is not used up.
EtmLeftForever(s) == s.etmDuration

\* Bug: the last interval is taken off without looking at what is left.
EtmLeftUnderflow(s) == s.etmDuration - s.etmKeepAliveInterval

EtmLeft(s) ==
    IF s.etmDuration > s.etmKeepAliveInterval
    THEN s.etmDuration - s.etmKeepAliveInterval ELSE 0

ProcessEtm(s, can) ==
    IF EtmExpires(s)
    THEN LET sent == SendWaitResponse([s EXCEPT !.etmTim = Polled(@),
                                                !.etmDuration = EtmLeft(s)], can)
         IN  [sent EXCEPT !.etmTim = IF sent.etmDuration = 0 THEN StopTimer(@) ELSE @]
    ELSE s

-----------------------------------------------------------------------------
\* OnIsoEvent(DataFF, OK_r): the first frame of a request.
OnDataFF(s) ==
    IF s.sessType = "NONDEFAULT" THEN [s EXCEPT !.S3 = StopTimer(@)] ELSE s

\* OnIsoEvent(Data, OK_r) up to OnSessIndication.
StartP2(s) == [OnDataFF(s) EXCEPT !.p2 = StartTimer(@, p2_max)]

\* One system tick as the timers of the session see it.
TickSession(s) ==
    [s EXCEPT !.p2 = Ticked(@), !.S3 = Ticked(@), !.etmTim = Ticked(@)]

=============================================================================
