-------------------------- MODULE UdsServer_proofs --------------------------
(***************************************************************************)
(* Proofs about UdsServer for any set of requests, durations and timings.  *)
(*                                                                         *)
(* First what each handler does to the state of the server (the lemmas     *)
(* ...Effect) and which answers it adds (...Answers).  Then, one after the *)
(* other, three invariants, each with a lemma for every action:            *)
(*   ServerInv  - types, and what a poll or a callback leaves behind:      *)
(*                session and enhanced timing mode guarded by timers;      *)
(*   RoutineInv - a pending indicator stands for a routine in progress and *)
(*                ends with it, given that the timings fit (TimingsFit);   *)
(*   OneInv     - at most one final answer to a request, given that its    *)
(*                handler gives one (OneAnswer).                           *)
(***************************************************************************)
EXTENDS UdsServer, FiniteSetTheorems, SequenceTheorems, TLAPS

USE SessionTimingsAssumption, RoutineAssumption

-----------------------------------------------------------------------------
(* The timers of the server.                                               *)

LEMMA TimerOps ==
  ASSUME NEW P \in SUBSET Nat, NEW t \in TimerType(P), NEW p \in P
  PROVE  /\ StartTimer(t, p) \in TimerType(P) /\ RestartTimer(t) \in TimerType(P)
         /\ StopTimer(t) \in TimerType(P) /\ Polled(t) \in TimerType(P)
         /\ Ticked(t) \in TimerType(P)
         /\ StartTimer(t, p).active /\ RestartTimer(t).active /\ ~StopTimer(t).active
         /\ Ticked(t).active = t.active
<1>1. t.period \in P /\ t.period \in Nat /\ t.left \in Nat
      /\ t.active \in BOOLEAN /\ t.endless \in BOOLEAN
  BY DEF TimerType
<1>2. RestartTimer(t) \in TimerType(P) /\ StartTimer(t, p) \in TimerType(P) /\ RestartTimer(t).active /\ StartTimer(t, p).active
  BY <1>1 DEF RestartTimer, StartTimer, TimerType
<1>4. StopTimer(t) \in TimerType(P) /\ ~StopTimer(t).active
  BY <1>1 DEF StopTimer, TimerType
<1>5. Polled(t) \in TimerType(P)
  BY <1>1 DEF Polled, HasElapsed, TimerType
<1>6. Ticked(t) \in TimerType(P) /\ Ticked(t).active = t.active
  <2>1. CASE t.left > 0
    <3>1. Ticked(t) = [t EXCEPT !.left = t.left - 1]
      BY <2>1 DEF Ticked
    <3>2. t.left - 1 \in Nat
      BY <1>1, <2>1
    <3> QED
      BY <3>1, <3>2 DEF TimerType
  <2>2. CASE ~(t.left > 0)
    BY <2>2 DEF Ticked
  <2> QED
    BY <2>1, <2>2
<1> QED
  BY <1>2, <1>4, <1>5, <1>6

LEMMA S3Type ==
  ASSUME NEW s \in Servers
  PROVE  /\ StartTimer(s.S3, S3_max) \in TimerType({0, S3_max})
         /\ RestartTimer(s.S3) \in TimerType({0, S3_max})
         /\ StopTimer(s.S3) \in TimerType({0, S3_max})
         /\ StartTimer(s.S3, S3_max).active /\ RestartTimer(s.S3).active
<1>1. {0, S3_max} \in SUBSET Nat /\ S3_max \in {0, S3_max}
  OBVIOUS
<1>2. s.S3 \in TimerType({0, S3_max})
  BY DEF Servers
<1> QED
  BY <1>1, <1>2, TimerOps

LEMMA P2Type ==
  ASSUME NEW s \in Servers
  PROVE  /\ StartTimer(s.p2, p2_max) \in TimerType({0, p2_max, p2_enhanced})
         /\ StartTimer(s.p2, p2_enhanced) \in TimerType({0, p2_max, p2_enhanced})
         /\ StopTimer(s.p2) \in TimerType({0, p2_max, p2_enhanced})
         /\ Polled(s.p2) \in TimerType({0, p2_max, p2_enhanced})
         /\ StartTimer(s.p2, p2_max).active /\ StartTimer(s.p2, p2_enhanced).active
<1>1. /\ {0, p2_max, p2_enhanced} \in SUBSET Nat
      /\ p2_max \in {0, p2_max, p2_enhanced} /\ p2_enhanced \in {0, p2_max, p2_enhanced}
  OBVIOUS
<1>2. s.p2 \in TimerType({0, p2_max, p2_enhanced})
  BY DEF Servers
<1> QED
  BY <1>1, <1>2, TimerOps

LEMMA EtmTimType ==
  ASSUME NEW s \in Servers
  PROVE  /\ StartTimer(s.etmTim, EtmInterval) \in TimerType({0, EtmInterval})
         /\ StopTimer(s.etmTim) \in TimerType({0, EtmInterval})
         /\ Polled(s.etmTim) \in TimerType({0, EtmInterval})
         /\ StartTimer(s.etmTim, EtmInterval).active
<1>1. {0, EtmInterval} \in SUBSET Nat /\ EtmInterval \in {0, EtmInterval}
  OBVIOUS
<1>2. s.etmTim \in TimerType({0, EtmInterval})
  BY DEF Servers
<1> QED
  BY <1>1, <1>2, TimerOps

LEMMA TimeoutType ==
  ASSUME NEW s \in Servers
  PROVE  /\ RestartTimer(s.timeout) \in TimerType({RoutineTime})
         /\ StopTimer(Polled(s.timeout)) \in TimerType({RoutineTime})
         /\ RestartTimer(s.timeout).active
<1>1. {RoutineTime} \in SUBSET Nat /\ RoutineTime \in {RoutineTime}
  OBVIOUS
<1>2. s.timeout \in TimerType({RoutineTime})
  BY DEF Servers
<1>3. Polled(s.timeout) \in TimerType({RoutineTime})
  BY <1>1, <1>2, TimerOps
<1> QED
  BY <1>1, <1>2, <1>3, TimerOps

-----------------------------------------------------------------------------
(* What the operators on the server object change, and what they leave     *)
(* (session-control.cpp:6-180).                                            *)

\* The fields of the server, grouped by what changes them: the enhanced timing mode
\* while it lasts, its switch, the transport layer, the manager's answer, the rest.
Etm(s) == <<s.etmDuration, s.etmKeepAliveInterval, s.etmTim, s.etmSi>>
Mode(s) == <<s.p2, s.isEtmActive>>
Sent(s) == <<s.tx, s.out>>
Nrc(s) == <<s.nrcOutCode, s.nrcPending, s.currSession>>
App(s) == <<s.req, s.isManagerActive, s.routinePending, s.timeout>>

Agree(s) == s.sessType = "DEFAULT" <=> s.currSession = "default"

LEMMA SetSessionModeEffect ==
  ASSUME NEW s \in Servers, NEW d \in BOOLEAN
  PROVE  LET t == SetSessionMode(s, d)
         IN  /\ t \in Servers
             /\ t.sessType = IF d THEN "DEFAULT" ELSE "NONDEFAULT"
             /\ ~d => t.S3.active
             /\ Etm(t) = Etm(s) /\ Mode(t) = Mode(s) /\ Sent(t) = Sent(s)
             /\ Nrc(t) = Nrc(s) /\ App(t) = App(s)
<1> USE DEF Etm, Mode, Sent, Nrc, App
<1>1. CASE d
  <2>1. SetSessionMode(s, d) = [s EXCEPT !.S3 = StopTimer(s.S3), !.sessType = "DEFAULT"]
    BY <1>1 DEF SetSessionMode
  <2>2. StopTimer(s.S3) \in TimerType({0, S3_max})
    BY S3Type
  <2> QED
    BY <1>1, <2>1, <2>2, ZenonT(30) DEF Servers
<1>2. CASE ~d
  <2> DEFINE u == IF s.sessType = "DEFAULT" THEN StartTimer(s.S3, S3_max)
                                            ELSE RestartTimer(s.S3)
  <2>1. SetSessionMode(s, d) = [s EXCEPT !.S3 = u, !.sessType = "NONDEFAULT"]
    BY <1>2 DEF SetSessionMode
  <2>2. u \in TimerType({0, S3_max}) /\ u.active
    BY S3Type
  <2> HIDE DEF u
  <2> QED
    BY <1>2, <2>1, <2>2, ZenonT(30) DEF Servers
<1> QED
  BY <1>1, <1>2

LEMMA OnConfEffect ==
  ASSUME NEW s \in Servers, NEW res
  PROVE  LET t == OnConf(s, res)
         IN  /\ t \in Servers
             /\ t.sessType = s.sessType
             /\ t.S3 = s.S3 \/ t.S3.active \/ s.sessType = "DEFAULT"
             /\ res = "TIMEOUT_Cr" => t.S3.active \/ s.sessType = "DEFAULT"
             /\ Etm(t) = Etm(s) /\ Mode(t) = Mode(s) /\ Sent(t) = Sent(s)
             /\ Nrc(t) = Nrc(s) /\ App(t) = App(s)
<1> DEFINE t == RefreshSession(s)
<1>1. s.sessType \in {"DEFAULT", "NONDEFAULT"}
  BY DEF Servers
<1>2. /\ t \in Servers
      /\ t.sessType = s.sessType
      /\ t.S3.active \/ s.sessType = "DEFAULT"
      /\ Etm(t) = Etm(s) /\ Mode(t) = Mode(s) /\ Sent(t) = Sent(s)
      /\ Nrc(t) = Nrc(s) /\ App(t) = App(s)
  BY <1>1, SetSessionModeEffect DEF RefreshSession
<1> HIDE DEF t
<1> QED
  BY <1>2 DEF OnConf, t

LEMMA RequestEffect ==
  ASSUME NEW s \in Servers, NEW msg \in Messages, NEW can \in BOOLEAN
  PROVE  LET t == Request(s, msg, can)
         IN  /\ t \in Servers
             /\ t.sessType = s.sessType
             /\ t.S3 = s.S3 \/ t.S3.active \/ s.sessType = "DEFAULT"
             /\ t.out = s.out \/ t.out = Append(s.out, msg)
             /\ Etm(t) = Etm(s) /\ Mode(t) = Mode(s) /\ Nrc(t) = Nrc(s) /\ App(t) = App(s)
<1> DEFINE dropped == [s EXCEPT !.tx = FALSE]
           taken   == [s EXCEPT !.tx = msg.long, !.out = Append(@, msg)]
           conf    == OnConf(taken, "OK_s")
           Kept(t) == /\ t \in Servers /\ t.sessType = s.sessType
                      /\ Etm(t) = Etm(s) /\ Mode(t) = Mode(s)
                      /\ Nrc(t) = Nrc(s) /\ App(t) = App(s)
<1>1. Kept(dropped) /\ dropped.S3 = s.S3 /\ dropped.out = s.out
  BY DEF Servers, Etm, Mode, Nrc, App
<1>2. Kept(taken) /\ taken.S3 = s.S3 /\ taken.out = Append(s.out, msg)
  <2>1. Append(s.out, msg) \in Seq(Messages) /\ msg.long \in BOOLEAN
    BY DEF Servers, Messages
  <2> QED
    BY <2>1 DEF Servers, Etm, Mode, Nrc, App
<1>3. /\ Kept(conf) /\ conf.out = Append(s.out, msg)
      /\ conf.S3 = s.S3 \/ conf.S3.active \/ s.sessType = "DEFAULT"
  <2>1. /\ conf \in Servers /\ conf.sessType = taken.sessType
        /\ conf.S3 = taken.S3 \/ conf.S3.active \/ taken.sessType = "DEFAULT"
        /\ Etm(conf) = Etm(taken) /\ Mode(conf) = Mode(taken) /\ Sent(conf) = Sent(taken)
        /\ Nrc(conf) = Nrc(taken) /\ App(conf) = App(taken)
    BY <1>2, OnConfEffect
  <2>2. conf.out = taken.out
    BY <2>1 DEF Sent
  <2> HIDE DEF taken, conf
  <2> QED
    BY <1>2, <2>1, <2>2
<1>4. Request(s, msg, can) = IF ~can THEN dropped ELSE IF msg.long THEN taken ELSE conf
  BY DEF Request
<1> HIDE DEF dropped, taken, conf
<1> QED
  BY <1>1, <1>2, <1>3, <1>4

LEMMA SendRequestEffect ==
  ASSUME NEW s \in Servers, NEW msg \in Messages, NEW enhanced \in BOOLEAN,
         NEW can \in BOOLEAN
  PROVE  LET t == SendRequest(s, msg, enhanced, can)
         IN  /\ t \in Servers
             /\ t.isEtmActive <=> enhanced
             /\ t.p2 = IF enhanced THEN StartTimer(s.p2, p2_enhanced) ELSE StopTimer(s.p2)
             /\ t.sessType = s.sessType
             /\ t.S3 = s.S3 \/ t.S3.active \/ s.sessType = "DEFAULT"
             /\ t.out = s.out \/ t.out = Append(s.out, msg)
             /\ Etm(t) = Etm(s) /\ Nrc(t) = Nrc(s) /\ App(t) = App(s)
<1> DEFINE arm == IF enhanced THEN StartTimer(s.p2, p2_enhanced) ELSE StopTimer(s.p2)
           u == [s EXCEPT !.isEtmActive = enhanced, !.p2 = arm]
           t == Request(u, msg, can)
<1>1. arm \in TimerType({0, p2_max, p2_enhanced})
  BY P2Type
<1>2. t = SendRequest(s, msg, enhanced, can)
  BY DEF SendRequest, EtmMode, ArmP2
<1> HIDE DEF arm
<1>3. /\ u \in Servers /\ u.sessType = s.sessType /\ u.S3 = s.S3 /\ u.out = s.out
      /\ (u.isEtmActive <=> enhanced) /\ u.p2 = arm
      /\ Etm(u) = Etm(s) /\ Nrc(u) = Nrc(s) /\ App(u) = App(s)
  BY <1>1 DEF Servers, Etm, Nrc, App
<1> HIDE DEF u
<1>4. /\ t \in Servers /\ t.sessType = u.sessType
      /\ t.S3 = u.S3 \/ t.S3.active \/ u.sessType = "DEFAULT"
      /\ t.out = u.out \/ t.out = Append(u.out, msg)
      /\ Etm(t) = Etm(u) /\ Mode(t) = Mode(u) /\ Nrc(t) = Nrc(u) /\ App(t) = App(u)
  BY <1>3, RequestEffect
<1> HIDE DEF t
<1>5. t.isEtmActive = u.isEtmActive /\ t.p2 = u.p2
  BY <1>4 DEF Mode
<1> QED
  BY <1>2, <1>3, <1>4, <1>5 DEF arm

\* The two cases of it: a message that ends the enhanced timing mode, and one that holds it.
LEMMA SendFinalEffect ==
  ASSUME NEW s \in Servers, NEW msg \in Messages, NEW can \in BOOLEAN
  PROVE  LET t == SendRequest(s, msg, FALSE, can)
         IN  /\ t \in Servers
             /\ ~t.isEtmActive
             /\ t.sessType = s.sessType
             /\ t.S3 = s.S3 \/ t.S3.active \/ s.sessType = "DEFAULT"
             /\ t.out = s.out \/ t.out = Append(s.out, msg)
             /\ Etm(t) = Etm(s) /\ Nrc(t) = Nrc(s) /\ App(t) = App(s)
<1> DEFINE Effect(enhanced) ==
             LET t == SendRequest(s, msg, enhanced, can)
             IN  /\ t \in Servers
                 /\ t.isEtmActive <=> enhanced
                 /\ t.p2 = IF enhanced THEN StartTimer(s.p2, p2_enhanced)
                                       ELSE StopTimer(s.p2)
                 /\ t.sessType = s.sessType
                 /\ t.S3 = s.S3 \/ t.S3.active \/ s.sessType = "DEFAULT"
                 /\ t.out = s.out \/ t.out = Append(s.out, msg)
                 /\ Etm(t) = Etm(s) /\ Nrc(t) = Nrc(s) /\ App(t) = App(s)
<1>1. \A enhanced \in BOOLEAN : Effect(enhanced)
  BY SendRequestEffect
<1> HIDE DEF Effect
<1>2. Effect(FALSE)
  BY <1>1
<1> QED
  BY <1>2 DEF Effect

LEMMA SendWaitEffect ==
  ASSUME NEW s \in Servers, s.etmSi \in Sids, NEW can \in BOOLEAN
  PROVE  LET t == SendWaitResponse(s, can)
         IN  /\ t \in Servers
             /\ t.isEtmActive
             /\ t.p2 = StartTimer(s.p2, p2_enhanced)
             /\ t.sessType = s.sessType
             /\ t.S3 = s.S3 \/ t.S3.active \/ s.sessType = "DEFAULT"
             /\ \/ t.out = s.out
                \/ \E msg \in Messages : msg.code = "RCRRP" /\ t.out = Append(s.out, msg)
             /\ Etm(t) = Etm(s) /\ Nrc(t) = Nrc(s) /\ App(t) = App(s)
<1> DEFINE msg == Negative(s.etmSi, "RCRRP")
           Effect(enhanced) ==
             LET t == SendRequest(s, msg, enhanced, can)
             IN  /\ t \in Servers
                 /\ t.isEtmActive <=> enhanced
                 /\ t.p2 = IF enhanced THEN StartTimer(s.p2, p2_enhanced)
                                       ELSE StopTimer(s.p2)
                 /\ t.sessType = s.sessType
                 /\ t.S3 = s.S3 \/ t.S3.active \/ s.sessType = "DEFAULT"
                 /\ t.out = s.out \/ t.out = Append(s.out, msg)
                 /\ Etm(t) = Etm(s) /\ Nrc(t) = Nrc(s) /\ App(t) = App(s)
<1>1. msg \in Messages /\ msg.code = "RCRRP"
  BY DEF Negative, Message, Messages, Codes
<1>2. SendWaitResponse(s, can) = SendRequest(s, msg, TRUE, can)
  BY DEF SendWaitResponse
<1> HIDE DEF msg
<1>3. \A enhanced \in BOOLEAN : Effect(enhanced)
  BY <1>1, SendRequestEffect
<1> HIDE DEF Effect
<1>4. Effect(TRUE)
  BY <1>3
<1> QED
  BY <1>1, <1>2, <1>4 DEF Effect

LEMMA SendResponseEffect ==
  ASSUME NEW m \in Servers, NEW resp \in Messages, NEW can \in BOOLEAN
  PROVE  LET t == SendResponse(m, resp, can)
         IN  /\ t \in Servers
             /\ Agree(t) /\ (t.sessType = "NONDEFAULT" => t.S3.active)
             /\ ~t.nrcPending /\ t.nrcOutCode = m.nrcOutCode /\ t.currSession = m.currSession
             /\ Etm(t) = Etm(m) /\ App(t) = App(m)
             /\ \/ ~ResponseAllowed(m) /\ Mode(t) = Mode(m) /\ t.out = m.out
                \/ ResponseAllowed(m) /\ ~t.isEtmActive
                                      /\ t.out \in {m.out, Append(m.out, resp)}
<1> DEFINE sent == IF ResponseAllowed(m) THEN SendRequest(m, resp, FALSE, can) ELSE m
           ans  == [sent EXCEPT !.nrcPending = FALSE]
           d    == m.currSession = "default"
           t    == SetSessionMode(ans, d)
           Either(x) == \/ ~ResponseAllowed(m) /\ Mode(x) = Mode(m) /\ x.out = m.out
                        \/ ResponseAllowed(m) /\ ~x.isEtmActive
                                              /\ x.out \in {m.out, Append(m.out, resp)}
<1>1. SendResponse(m, resp, can) = t
  <2>1. resp # NoResponse
    BY DEF Messages, Sids, NoResponse, Message
  <2> QED
    BY <2>1 DEF SendResponse, Answered
<1>2. /\ sent \in Servers /\ Etm(sent) = Etm(m) /\ Nrc(sent) = Nrc(m) /\ App(sent) = App(m)
      /\ Either(sent)
  <2>1. CASE ResponseAllowed(m)
    <3> DEFINE u == SendRequest(m, resp, FALSE, can)
    <3>1. /\ u \in Servers /\ ~u.isEtmActive
          /\ u.out = m.out \/ u.out = Append(m.out, resp)
          /\ Etm(u) = Etm(m) /\ Nrc(u) = Nrc(m) /\ App(u) = App(m)
      BY SendFinalEffect
    <3>2. sent = u
      BY <2>1
    <3> HIDE DEF u, sent
    <3> QED
      BY <2>1, <3>1, <3>2
  <2>2. CASE ~ResponseAllowed(m)
    BY <2>2
  <2> QED
    BY <2>1, <2>2
<1> HIDE DEF sent
<1>3. /\ ans \in Servers /\ ~ans.nrcPending
      /\ ans.nrcOutCode = sent.nrcOutCode /\ ans.currSession = sent.currSession
      /\ Etm(ans) = Etm(sent) /\ Mode(ans) = Mode(sent) /\ Sent(ans) = Sent(sent)
      /\ App(ans) = App(sent)
  BY <1>2 DEF Servers, Etm, Mode, Sent, App
<1> HIDE DEF ans
<1>4. /\ t \in Servers
      /\ t.sessType = IF d THEN "DEFAULT" ELSE "NONDEFAULT"
      /\ ~d => t.S3.active
      /\ Etm(t) = Etm(ans) /\ Mode(t) = Mode(ans) /\ Sent(t) = Sent(ans)
      /\ Nrc(t) = Nrc(ans) /\ App(t) = App(ans)
  BY <1>3, SetSessionModeEffect
<1> HIDE DEF t
<1>5. /\ ~t.nrcPending /\ t.nrcOutCode = m.nrcOutCode /\ t.currSession = m.currSession
      /\ t.isEtmActive = sent.isEtmActive /\ t.out = sent.out /\ Mode(t) = Mode(sent)
  BY <1>2, <1>3, <1>4 DEF Mode, Sent, Nrc
<1>6. Agree(t) /\ (t.sessType = "NONDEFAULT" => t.S3.active)
  BY <1>4, <1>5 DEF Agree
<1> QED
  BY <1>1, <1>2, <1>3, <1>4, <1>5, <1>6

-----------------------------------------------------------------------------
(* Answering a request.                                                    *)

Live(s) == s.sessType = "NONDEFAULT" => s.S3.active \/ s.p2.active

\* The messages sent so far in this step are final, and none is of a silent code
\* unless the request came to the server alone, or found the manager pending.
Polite(s, pending) ==
    \A i \in DOMAIN s.out :
        /\ s.out[i].code # "RCRRP"
        /\ s.out[i].code \in SilentCodes => pending \/ s.req.addr = "PHYS"

\* The server at work on a request, outside the enhanced timing mode.
Answering(s, pending) ==
    /\ s \in Servers
    /\ ~s.isEtmActive
    /\ Agree(s)
    /\ Live(s)
    /\ s.nrcPending => pending
    /\ Polite(s, pending)

\* One more answer, or none.
Replied(m, t, pending) ==
    /\ Answering(t, pending)
    /\ Etm(t) = Etm(m) /\ App(t) = App(m)
    /\ Len(t.out) <= Len(m.out) + 1

LEMMA PoliteAppend ==
  ASSUME NEW m \in Servers, NEW pending \in BOOLEAN, Polite(m, pending),
         NEW msg \in Messages, NEW t,
         t.out = Append(m.out, msg), t.req = m.req, msg.code # "RCRRP",
         msg.code \in SilentCodes => pending \/ m.req.addr = "PHYS"
  PROVE  Polite(t, pending) /\ Len(t.out) = Len(m.out) + 1
<1>1. m.out \in Seq(Messages)
  BY DEF Servers
<1>2. /\ Len(t.out) = Len(m.out) + 1 /\ DOMAIN t.out = 1 .. Len(m.out) + 1
      /\ \A i \in 1 .. Len(m.out) : t.out[i] = m.out[i]
      /\ t.out[Len(m.out) + 1] = msg
  BY <1>1, AppendProperties
<1>3. Polite(t, pending)
  <2> SUFFICES ASSUME NEW i \in DOMAIN t.out
               PROVE  /\ t.out[i].code # "RCRRP"
                      /\ t.out[i].code \in SilentCodes => pending \/ t.req.addr = "PHYS"
    BY DEF Polite
  <2>1. CASE i \in 1 .. Len(m.out)
    BY <1>1, <1>2, <2>1 DEF Polite
  <2>2. CASE i = Len(m.out) + 1
    BY <1>2, <2>2
  <2> QED
    BY <1>1, <1>2, <2>1, <2>2
<1> QED
  BY <1>2, <1>3

LEMMA SendAnswers ==
  ASSUME NEW m, NEW pending \in BOOLEAN, Answering(m, pending), NEW can \in BOOLEAN,
         NEW resp \in Messages, resp.code # "RCRRP",
         resp.code \in SilentCodes => m.nrcOutCode = resp.code
  PROVE  Replied(m, SendResponse(m, resp, can), pending)
<1> DEFINE t == SendResponse(m, resp, can)
<1>1. m \in Servers
  BY DEF Answering
<1>2. /\ t \in Servers
      /\ Agree(t) /\ (t.sessType = "NONDEFAULT" => t.S3.active)
      /\ ~t.nrcPending
      /\ Etm(t) = Etm(m) /\ App(t) = App(m)
      /\ \/ ~ResponseAllowed(m) /\ Mode(t) = Mode(m) /\ t.out = m.out
         \/ ResponseAllowed(m) /\ ~t.isEtmActive /\ t.out \in {m.out, Append(m.out, resp)}
  BY <1>1, SendResponseEffect
<1> HIDE DEF t
<1>3. t.req = m.req /\ ~t.isEtmActive
  BY <1>2 DEF App, Mode, Answering
<1>4. m.out \in Seq(Messages) /\ m.req.addr \in {"FUNC", "PHYS"}
  BY <1>1 DEF Servers, Contexts
<1>5. Polite(t, pending) /\ Len(t.out) <= Len(m.out) + 1
  <2>1. CASE t.out = m.out
    BY <1>3, <1>4, <2>1 DEF Answering, Polite
  <2>2. CASE ResponseAllowed(m) /\ t.out = Append(m.out, resp)
    <3>1. resp.code \in SilentCodes => pending \/ m.req.addr = "PHYS"
      BY <1>4, <2>2 DEF ResponseAllowed, Answering
    <3>2. Polite(t, pending) /\ Len(t.out) = Len(m.out) + 1
      BY <1>1, <1>3, <2>2, <3>1, PoliteAppend DEF Answering
    <3> QED
      BY <1>4, <3>2
  <2> QED
    BY <1>2, <2>1, <2>2
<1>6. Live(t)
  BY <1>2 DEF Live
<1> QED
  BY <1>2, <1>3, <1>5, <1>6 DEF Replied, Answering, t

LEMMA NegAnswers ==
  ASSUME NEW m, NEW pending \in BOOLEAN, Answering(m, pending), NEW can \in BOOLEAN,
         NEW nrc \in Codes \ {"RCRRP"}, m.req.si \in Sids
  PROVE  Replied(m, SendNegResponse(m, nrc, can), pending)
<1> DEFINE u == [m EXCEPT !.nrcOutCode = nrc]
           msg == Negative(m.req.si, nrc)
<1>1. msg \in Messages /\ msg.code = nrc
  BY DEF Negative, Message, Messages
<1>2. /\ u \in Servers /\ u.nrcOutCode = nrc
      /\ u.sessType = m.sessType /\ u.S3 = m.S3 /\ u.nrcPending = m.nrcPending
      /\ u.currSession = m.currSession /\ u.out = m.out
      /\ Etm(u) = Etm(m) /\ Mode(u) = Mode(m) /\ App(u) = App(m)
  BY DEF Answering, Servers, Etm, Mode, App
<1>3. Answering(u, pending)
  <2>1. u.isEtmActive = m.isEtmActive /\ u.p2 = m.p2 /\ u.req = m.req
    BY <1>2 DEF Mode, App
  <2> HIDE DEF u
  <2> QED
    BY <1>2, <2>1 DEF Answering, Agree, Live, Polite
<1>4. SendNegResponse(m, nrc, can) = SendResponse(u, msg, can)
  BY DEF SendNegResponse
<1> HIDE DEF u, msg
<1>5. Replied(u, SendResponse(u, msg, can), pending)
  BY <1>1, <1>2, <1>3, SendAnswers
<1> QED
  BY <1>2, <1>4, <1>5 DEF Replied

LEMMA ModeAnswers ==
  ASSUME NEW m, NEW pending \in BOOLEAN, Answering(m, pending)
  PROVE  LET t == SetSessionMode(m, m.currSession = "default")
         IN  /\ Answering(t, pending) /\ t.out = m.out
             /\ Etm(t) = Etm(m) /\ App(t) = App(m)
<1> DEFINE d == m.currSession = "default"
           t == SetSessionMode(m, d)
<1>1. /\ t \in Servers
      /\ t.sessType = IF d THEN "DEFAULT" ELSE "NONDEFAULT"
      /\ ~d => t.S3.active
      /\ Etm(t) = Etm(m) /\ Mode(t) = Mode(m) /\ Sent(t) = Sent(m)
      /\ Nrc(t) = Nrc(m) /\ App(t) = App(m)
  BY SetSessionModeEffect DEF Answering
<1> HIDE DEF t
<1>2. /\ t.isEtmActive = m.isEtmActive /\ t.out = m.out /\ t.nrcPending = m.nrcPending
      /\ t.currSession = m.currSession /\ t.req = m.req
  BY <1>1 DEF Mode, Sent, Nrc, App
<1>3. Agree(t) /\ Live(t)
  BY <1>1, <1>2 DEF Agree, Live
<1>4. Answering(t, pending)
  BY <1>1, <1>2, <1>3 DEF Answering, Polite
<1> QED
  BY <1>1, <1>2, <1>4 DEF t

\* A session is asked for and granted.
LEMMA SessionAnswers ==
  ASSUME NEW m, NEW pending \in BOOLEAN, Answering(m, pending), NEW session \in Sessions
  PROVE  LET t == SetServiceSession([m EXCEPT !.currSession = session], session)
         IN  /\ Answering(t, pending) /\ t.out = m.out
             /\ Etm(t) = Etm(m) /\ App(t) = App(m)
<1> DEFINE u == [m EXCEPT !.currSession = session]
           d == session = "default"
           v == SetSessionMode(u, d)
           w == [v EXCEPT !.currSession = "default"]
<1>1. /\ u \in Servers /\ u.currSession = session /\ u.nrcPending = m.nrcPending
      /\ Etm(u) = Etm(m) /\ Mode(u) = Mode(m) /\ Sent(u) = Sent(m) /\ App(u) = App(m)
  BY DEF Answering, Servers, Etm, Mode, Sent, App
<1> HIDE DEF u
<1>2. /\ v \in Servers
      /\ v.sessType = IF d THEN "DEFAULT" ELSE "NONDEFAULT"
      /\ ~d => v.S3.active
      /\ Etm(v) = Etm(u) /\ Mode(v) = Mode(u) /\ Sent(v) = Sent(u)
      /\ Nrc(v) = Nrc(u) /\ App(v) = App(u)
  BY <1>1, SetSessionModeEffect
<1>3. SetServiceSession(u, session) = IF d THEN w ELSE v
  BY DEF SetServiceSession, OnSessionChange
<1> HIDE DEF v
<1>4. /\ v.currSession = session /\ v.nrcPending = m.nrcPending
      /\ v.isEtmActive = m.isEtmActive /\ v.out = m.out /\ v.req = m.req
  BY <1>1, <1>2 DEF Mode, Sent, Nrc, App
<1>5. CASE ~d
  <2>1. Agree(v) /\ Live(v)
    BY <1>2, <1>4, <1>5 DEF Agree, Live
  <2>2. Answering(v, pending)
    BY <1>2, <1>4, <2>1 DEF Answering, Polite
  <2>3. SetServiceSession(u, session) = v
    BY <1>3, <1>5
  <2> QED
    BY <1>1, <1>2, <1>4, <2>2, <2>3 DEF u
<1>6. CASE d
  <2>1. /\ w \in Servers /\ w.currSession = "default" /\ w.sessType = "DEFAULT"
        /\ w.nrcPending = m.nrcPending
        /\ w.isEtmActive = m.isEtmActive /\ w.out = m.out /\ w.req = m.req
        /\ Etm(w) = Etm(m) /\ App(w) = App(m)
    BY <1>1, <1>2, <1>4, <1>6, SMTT(30) DEF Servers, Sessions, Etm, App
  <2> HIDE DEF w
  <2>2. Answering(w, pending)
    BY <2>1 DEF Answering, Polite, Agree, Live
  <2>3. SetServiceSession(u, session) = w
    BY <1>3, <1>6
  <2> QED
    BY <2>1, <2>2, <2>3 DEF u
<1> QED
  BY <1>5, <1>6

-----------------------------------------------------------------------------
(* The clients.                                                            *)

LEMMA DscAnswers ==
  ASSUME NEW m, NEW pending \in BOOLEAN, Answering(m, pending), NEW can \in BOOLEAN,
         m.req.si \in Sids, NEW arg \in Sessions \cup {"badSubFunc"}
  PROVE  Replied(m, AfterClient(DscIndication(m, arg, can), can), pending)
<1> DEFINE ret == DscIndication(m, arg, can)
           granted == SetServiceSession([m EXCEPT !.currSession = arg], arg)
           resp == Response(m, FALSE)
<1>1. AfterClient(ret, can) = ret.m
  BY DEF AfterClient, DscIndication, Returned, SendResponse
<1>2. CASE arg = "badSubFunc"
  <2>1. ret.m = SendNegResponse(m, "SFNS", can)
    BY <1>2 DEF DscIndication, Returned
  <2>2. "SFNS" \in Codes \ {"RCRRP"}
    BY DEF Codes, SilentCodes
  <2> QED
    BY <1>1, <2>1, <2>2, NegAnswers
<1>3. CASE arg = "programming" /\ m.currSession = "default"
  <2>1. ret.m = SendNegResponse(m, "SFNSIAS", can)
    BY <1>3 DEF DscIndication, Returned
  <2>2. "SFNSIAS" \in Codes \ {"RCRRP"}
    BY DEF Codes, SilentCodes
  <2> QED
    BY <1>1, <2>1, <2>2, NegAnswers
<1>4. CASE arg # "badSubFunc" /\ ~(arg = "programming" /\ m.currSession = "default")
  <2>1. ret.m = SendResponse(granted, resp, can)
    BY <1>4 DEF DscIndication, Returned, Response, Message
  <2>2. /\ Answering(granted, pending) /\ granted.out = m.out
        /\ Etm(granted) = Etm(m) /\ App(granted) = App(m)
    BY <1>4, SessionAnswers
  <2>3. resp \in Messages /\ resp.code = "PR"
    BY DEF Response, Message, Messages, Codes
  <2> HIDE DEF granted, resp
  <2>4. Replied(granted, SendResponse(granted, resp, can), pending)
    BY <2>2, <2>3, SendAnswers DEF SilentCodes
  <2> QED
    BY <1>1, <2>1, <2>2, <2>4 DEF Replied
<1> QED
  BY <1>2, <1>3, <1>4

LEMMA DidAnswers ==
  ASSUME NEW m, NEW pending \in BOOLEAN, Answering(m, pending), NEW can \in BOOLEAN,
         m.req.si \in Sids, NEW arg
  PROVE  Replied(m, AfterClient(DidIndication(m, arg, can), can), pending)
<1> DEFINE ret == DidIndication(m, arg, can)
           long == arg = "did2200"
           resp == Response(m, long)
<1>1. CASE arg = "badLength"
  <2>1. AfterClient(ret, can) = SendNegResponse(m, "IMLOIF", can)
    BY <1>1 DEF AfterClient, DidIndication, Returned, SendResponse
  <2>2. "IMLOIF" \in Codes \ {"RCRRP"}
    BY DEF Codes, SilentCodes
  <2> QED
    BY <2>1, <2>2, NegAnswers
<1>2. CASE arg # "badLength"
  <2>1. AfterClient(ret, can) = SendResponse(m, resp, can)
    BY <1>2 DEF AfterClient, DidIndication, Returned
  <2>2. resp \in Messages /\ resp.code = "PR"
    BY DEF Response, Message, Messages, Codes
  <2> HIDE DEF resp
  <2> QED
    BY <2>1, <2>2, SendAnswers DEF SilentCodes
<1> QED
  BY <1>1, <1>2

LEMMA TesterPresentAnswers ==
  ASSUME NEW m, NEW pending \in BOOLEAN, Answering(m, pending), NEW can \in BOOLEAN,
         m.req.si \in Sids, NEW arg
  PROVE  Replied(m, TesterPresent(m, arg, can), pending)
<1>1. {"SFNS", "IMLOIF"} \subseteq Codes \ {"RCRRP"}
  BY DEF Codes, SilentCodes
<1>2. CASE arg = "badSubFunc"
  BY <1>1, <1>2, NegAnswers DEF TesterPresent
<1>3. CASE arg = "badLength"
  BY <1>1, <1>3, NegAnswers DEF TesterPresent
<1>4. CASE arg \notin {"badSubFunc", "badLength"}
  <2> DEFINE resp == Response(m, FALSE)
  <2>1. TesterPresent(m, arg, can) = SendResponse(m, resp, can)
    BY <1>4 DEF TesterPresent
  <2>2. resp \in Messages /\ resp.code = "PR"
    BY DEF Response, Message, Messages, Codes
  <2> HIDE DEF resp
  <2> QED
    BY <2>1, <2>2, SendAnswers DEF SilentCodes
<1> QED
  BY <1>2, <1>3, <1>4

\* An unknown routine asked for physically is answered twice.
LEMMA RoutineAnswers ==
  ASSUME NEW m, NEW pending \in BOOLEAN, Answering(m, pending), NEW can \in BOOLEAN,
         m.req.si \in Sids, NEW arg, arg # "routine1"
  PROVE  LET t == AfterClient(RoutineIndication(m, arg, can), can)
         IN  /\ Answering(t, pending)
             /\ Etm(t) = Etm(m) /\ App(t) = App(m)
             /\ arg \in {"routine2", "badSubFunc"} \/ m.req.addr # "PHYS" =>
                    Len(t.out) <= Len(m.out) + 1
<1>1. CASE arg = "badSubFunc"
  <2> DEFINE u == SendNegResponse(m, "SFNS", can)
  <2>1. AfterClient(RoutineIndication(m, arg, can), can)
          = SetSessionMode(u, u.currSession = "default")
    BY <1>1 DEF AfterClient, RoutineIndication, Returned
  <2>2. Replied(m, u, pending)
    BY NegAnswers DEF Codes, SilentCodes
  <2> HIDE DEF u
  <2> QED
    BY <2>1, <2>2, ModeAnswers DEF Replied
<1>2. CASE arg = "routine2"
  <2> DEFINE resp == Message("RC", "PR", FALSE)
             u == SendResponse(m, resp, can)
  <2>1. AfterClient(RoutineIndication(m, arg, can), can)
          = SetSessionMode(u, u.currSession = "default")
    BY <1>2 DEF AfterClient, RoutineIndication, OnRoutine, SendRoutineResponse, Returned
  <2>2. resp \in Messages /\ resp.code = "PR"
    BY DEF Message, Messages, Codes, Sids
  <2> HIDE DEF resp
  <2>3. Replied(m, u, pending)
    BY <2>2, SendAnswers DEF SilentCodes
  <2> HIDE DEF u
  <2> QED
    BY <2>1, <2>3, ModeAnswers DEF Replied
<1>3. CASE arg \notin {"badSubFunc", "routine2"}
  <2> DEFINE u == SendNegResponse(m, "ROOR", can)
  <2>1. AfterClient(RoutineIndication(m, arg, can), can)
          = IF u.req.addr = "PHYS" THEN SendNegResponse(u, "SNS", can) ELSE u
    BY <1>3 DEF AfterClient, RoutineIndication, OnRoutine, Returned
  <2>2. Replied(m, u, pending)
    BY NegAnswers DEF Codes, SilentCodes
  <2> HIDE DEF u
  <2>3. u.req = m.req
    BY <2>2 DEF Replied, App
  <2>4. Replied(u, SendNegResponse(u, "SNS", can), pending)
    BY <2>2, <2>3, NegAnswers DEF Codes, SilentCodes, Replied
  <2>5. CASE u.req.addr = "PHYS"
    BY <1>3, <2>1, <2>2, <2>3, <2>4, <2>5 DEF Replied
  <2>6. CASE u.req.addr # "PHYS"
    BY <1>3, <2>1, <2>2, <2>3, <2>6 DEF Replied
  <2> QED
    BY <2>5, <2>6
<1> QED
  BY <1>1, <1>2, <1>3

\* The answer to a request that is to take long: the enhanced timing mode begins, or the
\* manager refuses it.
Fits == EtmInterval <= EtmDuration /\ EtmFloor < EtmInterval

Begins(m, t) ==
    /\ t.isEtmActive
    /\ t.p2 = StartTimer(m.p2, p2_enhanced)
    /\ t.etmTim = StartTimer(m.etmTim, EtmInterval)
    /\ t.etmKeepAliveInterval = EtmInterval
    /\ t.etmDuration = EtmDuration - EtmInterval
    /\ t.etmSi = m.req.si
    /\ \/ t.out = m.out
       \/ \E msg \in Messages : msg.code = "RCRRP" /\ t.out = Append(m.out, msg)

LEMMA StartPendingEffect ==
  ASSUME NEW m \in Servers, NEW can \in BOOLEAN, m.req.si \in Sids
  PROVE  LET t == StartPending(m, EtmDuration, EtmInterval, can)
         IN  /\ t \in Servers
             /\ t.nrcPending /\ t.sessType = m.sessType /\ t.currSession = m.currSession
             /\ App(t) = App(m)
             /\ t.S3 = m.S3 \/ t.S3.active \/ m.sessType = "DEFAULT"
             /\ ~Fits => Etm(t) = Etm(m) /\ Mode(t) = Mode(m) /\ t.out = m.out
             /\ Fits => Begins(m, t)
<1> DEFINE u == [m EXCEPT !.nrcPending = TRUE]
           v == [u EXCEPT !.etmSi = m.req.si]
           w == SendWaitResponse(v, can)
           x == [w EXCEPT !.etmTim = StartTimer(@, EtmInterval),
                          !.etmKeepAliveInterval = EtmInterval,
                          !.etmDuration = EtmDuration - EtmInterval]
           t == StartPending(m, EtmDuration, EtmInterval, can)
<1>1. /\ u \in Servers /\ u.nrcPending /\ u.sessType = m.sessType /\ u.S3 = m.S3
      /\ u.currSession = m.currSession /\ u.out = m.out /\ u.p2 = m.p2
      /\ Etm(u) = Etm(m) /\ Mode(u) = Mode(m) /\ App(u) = App(m)
  BY DEF Servers, Etm, Mode, App
<1>2. CASE ~Fits
  <2>1. t = u
    BY <1>2 DEF Fits, StartPending, SetPending
  <2> HIDE DEF u, t
  <2> QED
    BY <1>1, <1>2, <2>1 DEF t
<1>3. CASE Fits
  <2>2. /\ v \in Servers /\ v.nrcPending /\ v.sessType = m.sessType /\ v.S3 = m.S3
        /\ v.currSession = m.currSession /\ v.out = m.out /\ v.p2 = m.p2
        /\ v.etmTim = m.etmTim /\ v.etmSi = m.req.si
        /\ App(v) = App(m)
    BY DEF Servers, App
  <2>3. t = x
    BY <1>3 DEF Fits, StartPending, SetPending
  <2> HIDE DEF u, v
  <2>5. /\ w \in Servers /\ w.isEtmActive
        /\ w.p2 = StartTimer(v.p2, p2_enhanced)
        /\ w.sessType = v.sessType
        /\ w.S3 = v.S3 \/ w.S3.active \/ v.sessType = "DEFAULT"
        /\ \/ w.out = v.out
           \/ \E msg \in Messages : msg.code = "RCRRP" /\ w.out = Append(v.out, msg)
        /\ Etm(w) = Etm(v) /\ Nrc(w) = Nrc(v) /\ App(w) = App(v)
    BY <2>2, SendWaitEffect
  <2> HIDE DEF w
  <2>6. /\ w.etmTim = m.etmTim /\ w.etmSi = m.req.si
        /\ w.nrcPending /\ w.currSession = m.currSession
    BY <2>2, <2>5 DEF Etm, Nrc
  <2>7. EtmDuration - EtmInterval \in Nat
    BY <1>3 DEF Fits
  <2>8. /\ x \in Servers /\ x.isEtmActive
        /\ x.p2 = StartTimer(m.p2, p2_enhanced)
        /\ x.sessType = m.sessType /\ x.S3 = w.S3 /\ x.out = w.out
        /\ x.nrcPending /\ x.currSession = m.currSession
        /\ x.etmTim = StartTimer(m.etmTim, EtmInterval)
        /\ x.etmKeepAliveInterval = EtmInterval
        /\ x.etmDuration = EtmDuration - EtmInterval
        /\ x.etmSi = m.req.si
        /\ App(x) = App(w)
    BY <2>2, <2>5, <2>6, <2>7, EtmTimType, ZenonT(30) DEF Servers, App
  <2> HIDE DEF x, t
  <2> QED
    BY <1>3, <2>2, <2>3, <2>5, <2>8 DEF Begins, t
<1> QED
  BY <1>2, <1>3

-----------------------------------------------------------------------------
(* Requests as the session layer hands them over.                          *)

\* Before a request: nothing sent yet, and p2 is running.
Ready(m, pending) ==
    /\ m \in Servers
    /\ ~m.isEtmActive
    /\ Agree(m)
    /\ m.p2.active
    /\ m.nrcPending => pending
    /\ m.out = <<>>

StartsRoutine(m, r) == r.si = "RC" /\ r.arg = "routine1" /\ ~Ignores(m, r)

\* Not an unknown routine asked for physically.
OneAnswer(r) ==
    r.si = "RC" => r.addr # "PHYS" \/ r.arg \in {"routine1", "routine2", "badSubFunc", "short"}

LEMMA RequestFields ==
  ASSUME NEW r \in Requests
  PROVE  /\ Context(r) \in Contexts /\ r.si \in Sids /\ r.suppress \in BOOLEAN
         /\ Context(r).si = r.si /\ Context(r).addr = r.addr
         /\ r.si = "DSC" => r.arg \in Sessions \cup {"badSubFunc", "short"}
  BY RequestsAssumption DEF Request0, Context, Contexts

LEMMA AskedAnswers ==
  ASSUME NEW m, NEW pending \in BOOLEAN, Ready(m, pending), NEW r \in Requests,
         NEW u \in {Asked(m, r), Cleared(m, r)}
  PROVE  /\ Answering(u, pending) /\ u.out = <<>> /\ Etm(u) = Etm(m)
         /\ u.req.si = r.si /\ u.req.addr = r.addr /\ u.p2 = m.p2 /\ u.S3 = m.S3
         /\ u.sessType = m.sessType /\ u.currSession = m.currSession
         /\ u.isManagerActive = m.isManagerActive
         /\ u.routinePending = m.routinePending /\ u.timeout = m.timeout
         /\ u.etmTim = m.etmTim
<1> DEFINE a == Asked(m, r)
           c == Cleared(m, r)
           Same(x) == /\ x \in Servers /\ x.sessType = m.sessType /\ x.S3 = m.S3
                      /\ x.p2 = m.p2 /\ x.isEtmActive = m.isEtmActive /\ x.out = m.out
                      /\ x.nrcPending = m.nrcPending /\ x.currSession = m.currSession
                      /\ x.isManagerActive = m.isManagerActive
                      /\ x.routinePending = m.routinePending /\ x.timeout = m.timeout
                      /\ x.etmTim = m.etmTim
                      /\ Etm(x) = Etm(m) /\ x.req.si = r.si /\ x.req.addr = r.addr
<1>1. m \in Servers
  BY DEF Ready
<1>2. Same(a) /\ a.req = Context(r)
  BY <1>1, RequestFields DEF Asked, Servers, Etm, Codes
<1> HIDE DEF a
<1>3. Same(c)
  <2> DEFINE ctx == [Context(r) EXCEPT !.suppress = r.suppress /\ r.si \in SubFunctionSids]
  <2>1. ctx \in Contexts /\ ctx.si = r.si /\ ctx.addr = r.addr
    BY RequestFields DEF Contexts
  <2>2. c = [a EXCEPT !.req = ctx]
    BY <1>2 DEF Cleared, Context, a, Servers
  <2> HIDE DEF ctx, c
  <2> QED
    BY <1>2, <2>1, <2>2 DEF Servers, Etm
<1> HIDE DEF c
<1>4. ASSUME NEW x, Same(x) PROVE Answering(x, pending) /\ x.out = <<>>
  BY <1>4 DEF Ready, Answering, Agree, Live, Polite
<1> QED
  BY <1>2, <1>3, <1>4 DEF a, c

\* What a request that starts no routine leaves behind.
LEMMA IndicationAnswers ==
  ASSUME NEW m, NEW pending \in BOOLEAN, Ready(m, pending), NEW r \in Requests,
         ~StartsRoutine(m, r), NEW can \in BOOLEAN
  PROVE  LET t == OnSessIndication(m, r, can)
         IN  /\ Answering(t, pending)
             /\ Etm(t) = Etm(m)
             /\ t.routinePending = m.routinePending
             /\ OneAnswer(r) => Len(t.out) <= 1
<1> DEFINE a == Asked(m, r)
           c == Cleared(m, r)
           t == OnSessIndication(m, r, can)
           From(u, x) == /\ Answering(x, pending) /\ Etm(x) = Etm(u) /\ App(x) = App(u)
                         /\ OneAnswer(r) => Len(x.out) <= Len(u.out) + 1
<1>1. /\ Answering(a, pending) /\ a.out = <<>> /\ Etm(a) = Etm(m)
      /\ a.req.si = r.si /\ a.req.addr = r.addr /\ a.routinePending = m.routinePending
      /\ Answering(c, pending) /\ c.out = <<>> /\ Etm(c) = Etm(m)
      /\ c.req.si = r.si /\ c.req.addr = r.addr /\ c.routinePending = m.routinePending
  BY AskedAnswers
<1>2. r.si \in Sids
  BY RequestFields
<1> HIDE DEF a, c
<1>3. CASE Ignores(m, r)
  <2> DEFINE u == [m EXCEPT !.nrcOutCode = "PR"]
  <2>1. t = u
    BY <1>3 DEF OnSessIndication
  <2>2. /\ u \in Servers /\ u.sessType = m.sessType /\ u.S3 = m.S3 /\ u.p2 = m.p2
        /\ u.isEtmActive = m.isEtmActive /\ u.out = m.out /\ u.nrcPending = m.nrcPending
        /\ u.currSession = m.currSession /\ u.routinePending = m.routinePending
        /\ Etm(u) = Etm(m)
    BY DEF Ready, Servers, Codes, Etm
  <2> HIDE DEF t, u
  <2>3. Len(u.out) <= 1
    BY <2>2 DEF Ready
  <2> QED
    BY <2>1, <2>2, <2>3 DEF Ready, Answering, Agree, Live, Polite, t
<1>4. \/ From(a, t)
      \/ From(c, t)
      \/ t = a
      \/ Ignores(m, r)
  <2>1. CASE ~Ignores(m, r) /\ r.si = "response"
    <3>1. t = a
      BY <2>1 DEF OnSessIndication, a
    <3> QED
      BY <3>1
  <2>2. CASE ~Ignores(m, r) /\ r.si = "TP"
    <3>1. t = TesterPresent(a, r.arg, can)
      BY <2>2 DEF OnSessIndication, a
    <3>2. Replied(a, TesterPresent(a, r.arg, can), pending)
      BY <1>1, <1>2, TesterPresentAnswers
    <3> HIDE DEF t
    <3> QED
      BY <3>1, <3>2 DEF Replied
  <2>3. CASE ~Ignores(m, r) /\ r.si \notin {"response", "TP"} /\ Unsupported(r)
    <3> DEFINE nrc == IF r.si \in Served THEN "IMLOIF" ELSE "SNS"
    <3>1. t = SendNegResponse(a, nrc, can)
      BY <2>3 DEF OnSessIndication, SendUnsupported, a
    <3>2. nrc \in Codes \ {"RCRRP"}
      BY DEF Codes, SilentCodes
    <3> HIDE DEF nrc, t
    <3>3. Replied(a, SendNegResponse(a, nrc, can), pending)
      BY <1>1, <1>2, <3>2, NegAnswers
    <3> QED
      BY <3>1, <3>3 DEF Replied
  <2>4. CASE ~Ignores(m, r) /\ r.si \notin {"response", "TP"} /\ ~Unsupported(r)
    <3>1. t = AfterClient(OnAppIndication(c, r.arg, can), can)
      BY <2>4 DEF OnSessIndication, c
    <3>2. r.si \in {"DSC", "RDBI", "RC"} /\ r.arg # "short"
      BY <2>4 DEF Unsupported, Served
    <3> HIDE DEF t
    <3>3. CASE r.si = "DSC"
      <4>1. r.arg \in Sessions \cup {"badSubFunc"}
        BY <3>2, <3>3, RequestFields
      <4>2. t = AfterClient(DscIndication(c, r.arg, can), can)
        BY <1>1, <3>1, <3>3 DEF OnAppIndication
      <4> QED
        BY <1>1, <1>2, <4>1, <4>2, DscAnswers DEF Replied
    <3>4. CASE r.si = "RDBI"
      <4>1. t = AfterClient(DidIndication(c, r.arg, can), can)
        BY <1>1, <3>1, <3>4 DEF OnAppIndication
      <4> QED
        BY <1>1, <1>2, <4>1, DidAnswers DEF Replied
    <3>5. CASE r.si = "RC"
      <4>1. t = AfterClient(RoutineIndication(c, r.arg, can), can)
        BY <1>1, <3>1, <3>5 DEF OnAppIndication
      <4>2. r.arg # "routine1"
        BY <2>4, <3>5 DEF StartsRoutine
      <4>3. OneAnswer(r) => r.arg \in {"routine2", "badSubFunc"} \/ c.req.addr # "PHYS"
        BY <1>1, <3>2, <3>5, <4>2 DEF OneAnswer
      <4>4. /\ Answering(t, pending) /\ Etm(t) = Etm(c) /\ App(t) = App(c)
            /\ r.arg \in {"routine2", "badSubFunc"} \/ c.req.addr # "PHYS" =>
                   Len(t.out) <= Len(c.out) + 1
        BY <1>1, <1>2, <4>1, <4>2, RoutineAnswers
      <4> QED
        BY <4>3, <4>4
    <3> QED
      BY <3>2, <3>3, <3>4, <3>5
  <2> QED
    BY <2>1, <2>2, <2>3, <2>4
<1> HIDE DEF t
<1>5. CASE From(a, t)
  BY <1>1, <1>5 DEF App, t
<1>6. CASE From(c, t)
  BY <1>1, <1>6 DEF App, t
<1>7. CASE t = a
  BY <1>1, <1>7 DEF t
<1> QED
  BY <1>3, <1>4, <1>5, <1>6, <1>7

\* What a request that starts the long routine leaves behind.
LEMMA RoutineStarts ==
  ASSUME NEW m, NEW pending \in BOOLEAN, Ready(m, pending), NEW r \in Requests,
         StartsRoutine(m, r), NEW can \in BOOLEAN
  PROVE  LET t == OnSessIndication(m, r, can)
         IN  /\ t \in Servers
             /\ Agree(t) /\ Live(t)
             /\ t.nrcPending /\ t.routinePending /\ t.req.si = "RC"
             /\ t.timeout = RestartTimer(m.timeout)
             /\ ~Fits => Etm(t) = Etm(m) /\ ~t.isEtmActive /\ t.out = <<>>
             /\ Fits => /\ t.isEtmActive
                        /\ t.p2 = StartTimer(m.p2, p2_enhanced)
                        /\ t.etmTim = StartTimer(m.etmTim, EtmInterval)
                        /\ t.etmKeepAliveInterval = EtmInterval
                        /\ t.etmDuration = EtmDuration - EtmInterval
                        /\ t.etmSi = "RC"
                        /\ \/ t.out = <<>>
                           \/ \E msg \in Messages : msg.code = "RCRRP" /\ t.out = <<msg>>
<1> DEFINE c == Cleared(m, r)
           u == [c EXCEPT !.routinePending = TRUE, !.timeout = RestartTimer(@)]
           t == StartPending(u, EtmDuration, EtmInterval, can)
<1>1. /\ Answering(c, pending) /\ c.out = <<>> /\ Etm(c) = Etm(m)
      /\ c.req.si = "RC" /\ c.p2 = m.p2 /\ c.S3 = m.S3
      /\ c.sessType = m.sessType /\ c.currSession = m.currSession
      /\ c.timeout = m.timeout /\ c.etmTim = m.etmTim
  BY AskedAnswers DEF StartsRoutine
<1>2. OnSessIndication(m, r, can) = t
  <2>1. ~Ignores(m, r) /\ r.si = "RC" /\ r.arg = "routine1"
    BY DEF StartsRoutine
  <2>2. OnSessIndication(m, r, can) = AfterClient(RoutineIndication(c, r.arg, can), can)
    BY <1>1, <2>1 DEF OnSessIndication, Unsupported, Served, OnAppIndication
  <2> HIDE DEF c
  <2>3. AfterClient(RoutineIndication(c, r.arg, can), can) = t
    BY <2>1 DEF AfterClient, RoutineIndication, OnRoutine, Returned
  <2> QED
    BY <2>2, <2>3
<1> HIDE DEF c
<1>3. /\ u \in Servers /\ u.sessType = m.sessType /\ u.currSession = m.currSession
      /\ u.S3 = m.S3 /\ u.p2 = m.p2 /\ u.isEtmActive = c.isEtmActive
      /\ u.out = <<>> /\ u.etmTim = m.etmTim /\ u.req.si = "RC" /\ Etm(u) = Etm(m)
      /\ u.routinePending /\ u.timeout = RestartTimer(m.timeout)
  BY <1>1, TimeoutType DEF Answering, Servers, Etm
<1> HIDE DEF u
<1>4. /\ t \in Servers
      /\ t.nrcPending /\ t.sessType = u.sessType /\ t.currSession = u.currSession
      /\ App(t) = App(u)
      /\ t.S3 = u.S3 \/ t.S3.active \/ u.sessType = "DEFAULT"
      /\ ~Fits => Etm(t) = Etm(u) /\ Mode(t) = Mode(u) /\ t.out = u.out
      /\ Fits => Begins(u, t)
  BY <1>3, StartPendingEffect DEF Sids
<1> HIDE DEF t
<1>5. t.req.si = "RC" /\ t.routinePending /\ t.timeout = RestartTimer(m.timeout)
  BY <1>3, <1>4 DEF App
<1>6. Agree(t)
  BY <1>3, <1>4 DEF Ready, Agree
<1>7. ~Fits => Etm(t) = Etm(m) /\ ~t.isEtmActive /\ t.out = <<>> /\ t.p2.active
  BY <1>1, <1>3, <1>4 DEF Mode, Answering, Ready
<1>8. Fits => /\ t.isEtmActive
              /\ t.p2 = StartTimer(m.p2, p2_enhanced)
              /\ t.etmTim = StartTimer(m.etmTim, EtmInterval)
              /\ t.etmKeepAliveInterval = EtmInterval
              /\ t.etmDuration = EtmDuration - EtmInterval
              /\ t.etmSi = "RC"
              /\ \/ t.out = <<>>
                 \/ \E msg \in Messages : msg.code = "RCRRP" /\ t.out = <<msg>>
  <2> SUFFICES ASSUME Fits, Begins(u, t)
               PROVE  \/ t.out = <<>>
                      \/ \E msg \in Messages : msg.code = "RCRRP" /\ t.out = <<msg>>
    BY <1>3, <1>4 DEF Begins
  <2>1. ASSUME NEW msg \in Messages, t.out = Append(u.out, msg) PROVE t.out = <<msg>>
    BY <1>3, <2>1
  <2> QED
    BY <1>3, <2>1 DEF Begins
<1>9. Live(t)
  <2>1. Fits => t.p2.active
    BY <1>8, P2Type DEF Ready
  <2> QED
    BY <1>7, <2>1 DEF Live
<1> QED
  BY <1>2, <1>4, <1>5, <1>6, <1>7, <1>8, <1>9
-----------------------------------------------------------------------------
(* The events of the transport layer and the polls of the main loop.       *)

LEMMA QuietEffect ==
  ASSUME server \in Servers
  PROVE  /\ Quiet \in Servers /\ Quiet.out = <<>>
         /\ Quiet.sessType = server.sessType /\ Quiet.S3 = server.S3
         /\ Etm(Quiet) = Etm(server) /\ Mode(Quiet) = Mode(server)
         /\ Nrc(Quiet) = Nrc(server) /\ App(Quiet) = App(server)
<1>1. <<>> \in Seq(Messages)
  OBVIOUS
<1> QED
  BY <1>1 DEF Quiet, Servers, Etm, Mode, Nrc, App

LEMMA FirstFrameEffect ==
  ASSUME NEW s \in Servers
  PROVE  LET t == OnDataFF(s)
         IN  /\ t \in Servers /\ t.sessType = s.sessType /\ Sent(t) = Sent(s)
             /\ Etm(t) = Etm(s) /\ Mode(t) = Mode(s) /\ Nrc(t) = Nrc(s) /\ App(t) = App(s)
<1>1. StopTimer(s.S3) \in TimerType({0, S3_max})
  BY S3Type
<1> QED
  BY <1>1 DEF OnDataFF, Servers, Etm, Mode, Sent, Nrc, App

\* A request arrives and p2 is started for it.
LEMMA StartP2Effect ==
  ASSUME NEW s \in Servers, NEW pending \in BOOLEAN, ~s.isEtmActive, Agree(s),
         s.nrcPending => pending, s.out = <<>>
  PROVE  LET t == StartP2(s)
         IN  /\ Ready(t, pending)
             /\ Etm(t) = Etm(s) /\ Nrc(t) = Nrc(s) /\ App(t) = App(s)
<1> DEFINE u == OnDataFF(s)
           t == StartP2(s)
<1>1. /\ u \in Servers /\ u.sessType = s.sessType /\ Sent(u) = Sent(s)
      /\ Etm(u) = Etm(s) /\ Mode(u) = Mode(s) /\ Nrc(u) = Nrc(s) /\ App(u) = App(s)
  BY FirstFrameEffect
<1>2. t = [u EXCEPT !.p2 = StartTimer(u.p2, p2_max)]
  BY DEF StartP2
<1> HIDE DEF u, t
<1>3. StartTimer(u.p2, p2_max) \in TimerType({0, p2_max, p2_enhanced})
      /\ StartTimer(u.p2, p2_max).active
  BY <1>1, P2Type
<1>4. /\ t \in Servers /\ t.sessType = u.sessType /\ t.isEtmActive = u.isEtmActive
      /\ t.p2.active /\ Sent(t) = Sent(u)
      /\ Etm(t) = Etm(u) /\ Nrc(t) = Nrc(u) /\ App(t) = App(u)
  BY <1>1, <1>2, <1>3 DEF Servers, Etm, Sent, Nrc, App
<1>5. /\ ~t.isEtmActive /\ t.nrcPending = s.nrcPending /\ t.currSession = s.currSession
      /\ t.out = <<>>
  BY <1>1, <1>4 DEF Mode, Nrc, Sent
<1> QED
  BY <1>1, <1>4, <1>5 DEF Ready, Agree, t

LEMMA S3TimerEffect ==
  ASSUME NEW s \in Servers, Agree(s)
  PROVE  LET t == ProcessS3Timer(s)
         IN  /\ t \in Servers /\ Agree(t)
             /\ t.S3 = s.S3 \/ t.sessType = "DEFAULT"
             /\ t.sessType = s.sessType \/ t.sessType = "DEFAULT"
             /\ t.nrcPending = s.nrcPending
             /\ Etm(t) = Etm(s) /\ Mode(t) = Mode(s) /\ Sent(t) = Sent(s) /\ App(t) = App(s)
<1> DEFINE u == [s EXCEPT !.S3 = Polled(s.S3)]
           v == SetSessionMode(u, TRUE)
           w == [v EXCEPT !.currSession = "default"]
           Effect(d) == LET x == SetSessionMode(u, d)
                        IN  /\ x \in Servers
                            /\ x.sessType = IF d THEN "DEFAULT" ELSE "NONDEFAULT"
                            /\ Etm(x) = Etm(u) /\ Mode(x) = Mode(u) /\ Sent(x) = Sent(u)
                            /\ Nrc(x) = Nrc(u) /\ App(x) = App(u)
<1>1. CASE ~S3Expires(s)
  BY <1>1 DEF ProcessS3Timer
<1>2. CASE S3Expires(s)
  <2>1. {0, S3_max} \in SUBSET Nat /\ S3_max \in {0, S3_max}
        /\ s.S3 \in TimerType({0, S3_max})
    BY DEF Servers
  <2>2. Polled(s.S3) \in TimerType({0, S3_max})
    BY <2>1, TimerOps
  <2>3. u \in Servers /\ Etm(u) = Etm(s) /\ Mode(u) = Mode(s) /\ Sent(u) = Sent(s)
        /\ Nrc(u) = Nrc(s) /\ App(u) = App(s)
    BY <2>2 DEF Servers, Etm, Mode, Sent, Nrc, App
  <2>4. ProcessS3Timer(s) = w
    BY <1>2 DEF ProcessS3Timer, OnSessionChange
  <2> HIDE DEF u
  <2>5. \A d \in BOOLEAN : Effect(d)
    BY <2>3, SetSessionModeEffect
  <2> HIDE DEF Effect
  <2>6. Effect(TRUE)
    BY <2>5
  <2>7. /\ v \in Servers /\ v.sessType = "DEFAULT"
        /\ Etm(v) = Etm(u) /\ Mode(v) = Mode(u) /\ Sent(v) = Sent(u)
        /\ Nrc(v) = Nrc(u) /\ App(v) = App(u)
    BY <2>6 DEF Effect
  <2> HIDE DEF v
  <2>8. /\ w \in Servers /\ w.sessType = "DEFAULT" /\ w.currSession = "default"
        /\ w.nrcPending = v.nrcPending
        /\ Etm(w) = Etm(v) /\ Mode(w) = Mode(v) /\ Sent(w) = Sent(v) /\ App(w) = App(v)
    BY <2>7 DEF Servers, Sessions, Etm, Mode, Sent, App
  <2>9. v.nrcPending = s.nrcPending
    BY <2>3, <2>7 DEF Nrc
  <2> HIDE DEF w
  <2> QED
    BY <2>3, <2>4, <2>7, <2>8, <2>9 DEF Agree
<1> QED
  BY <1>1, <1>2
LEMMA P2TimerEffect ==
  ASSUME NEW s \in Servers, s.isEtmActive => s.etmSi \in Sids, NEW can \in BOOLEAN
  PROVE  LET t == ProcessP2Timer(s, can)
         IN  /\ t \in Servers /\ t.sessType = s.sessType
             /\ t.S3 = s.S3 \/ t.S3.active \/ s.sessType = "DEFAULT"
             /\ Etm(t) = Etm(s) /\ Nrc(t) = Nrc(s) /\ App(t) = App(s)
             /\ ~HasElapsed(s.p2) => t = s
             /\ HasElapsed(s.p2) => /\ ~t.isEtmActive
                                    /\ t.sessType = "DEFAULT" \/ t.S3.active
             /\ \/ t.out = s.out
                \/ /\ s.isEtmActive
                   /\ \E msg \in Messages : msg.code = "ENOA" /\ t.out = Append(s.out, msg)
<1> DEFINE msg == Negative(s.etmSi, "ENOA")
           u == [s EXCEPT !.p2 = Polled(s.p2), !.S3 = S3AfterP2(s)]
           v == [u EXCEPT !.isEtmActive = FALSE]
           t == ProcessP2Timer(s, can)
<1>1. CASE ~HasElapsed(s.p2)
  BY <1>1 DEF ProcessP2Timer
<1>2. CASE HasElapsed(s.p2)
  <2>1. /\ Polled(s.p2) \in TimerType({0, p2_max, p2_enhanced})
        /\ S3AfterP2(s) \in TimerType({0, S3_max})
        /\ s.sessType = "DEFAULT" \/ S3AfterP2(s).active
    BY P2Type, S3Type DEF S3AfterP2, Servers
  <2>2. /\ u \in Servers /\ u.sessType = s.sessType /\ u.S3 = S3AfterP2(s)
        /\ u.out = s.out /\ u.isEtmActive = s.isEtmActive /\ u.etmSi = s.etmSi
        /\ Etm(u) = Etm(s) /\ Nrc(u) = Nrc(s) /\ App(u) = App(s)
    BY <2>1 DEF Servers, Etm, Nrc, App
  <2>3. t = NoAnswerInTime(u, can)
    BY <1>2 DEF ProcessP2Timer
  <2> HIDE DEF u
  <2>4. CASE ~s.isEtmActive
    <3>1. t = u
      BY <2>2, <2>3, <2>4 DEF NoAnswerInTime
    <3> HIDE DEF t
    <3> QED
      BY <1>2, <2>1, <2>2, <2>4, <3>1 DEF t
  <2>5. CASE s.isEtmActive
    <3> DEFINE w == SendRequest(v, msg, FALSE, can)
    <3>1. t = w
      BY <2>2, <2>3, <2>5 DEF NoAnswerInTime
    <3>2. msg \in Messages /\ msg.code = "ENOA"
      BY <2>5 DEF Negative, Message, Messages, Codes
    <3>3. /\ v \in Servers /\ v.sessType = s.sessType /\ v.S3 = S3AfterP2(s)
          /\ v.out = s.out
          /\ Etm(v) = Etm(s) /\ Nrc(v) = Nrc(s) /\ App(v) = App(s)
      BY <2>2 DEF Servers, Etm, Nrc, App
    <3> HIDE DEF v, msg
    <3>4. /\ w \in Servers /\ ~w.isEtmActive /\ w.sessType = v.sessType
          /\ w.S3 = v.S3 \/ w.S3.active \/ v.sessType = "DEFAULT"
          /\ w.out = v.out \/ w.out = Append(v.out, msg)
          /\ Etm(w) = Etm(v) /\ Nrc(w) = Nrc(v) /\ App(w) = App(v)
      BY <3>2, <3>3, SendFinalEffect
    <3> HIDE DEF w, t
    <3> QED
      BY <1>2, <2>1, <2>5, <3>1, <3>2, <3>3, <3>4 DEF t
  <2> QED
    BY <2>4, <2>5
<1> QED
  BY <1>1, <1>2

LEMMA EtmTimerEffect ==
  ASSUME NEW s \in Servers, s.isEtmActive => s.etmSi \in Sids, s.etmTim.endless,
         NEW can \in BOOLEAN
  PROVE  LET t == ProcessEtm(s, can)
         IN  /\ t \in Servers /\ t.sessType = s.sessType
             /\ t.S3 = s.S3 \/ t.S3.active \/ s.sessType = "DEFAULT"
             /\ Nrc(t) = Nrc(s) /\ App(t) = App(s)
             /\ t.isEtmActive = s.isEtmActive /\ t.etmSi = s.etmSi
             /\ ~EtmExpires(s) => t = s
             /\ EtmExpires(s) =>
                  /\ t.isEtmActive
                  /\ t.p2 = StartTimer(s.p2, p2_enhanced)
                  /\ t.etmDuration = EtmLeft(s)
                  /\ t.etmKeepAliveInterval = s.etmKeepAliveInterval
                  /\ t.etmTim.period = s.etmTim.period /\ t.etmTim.endless
                  /\ t.etmDuration > 0 =>
                       t.etmTim.active /\ t.etmTim.left = s.etmTim.period
             /\ \/ t.out = s.out
                \/ \E msg \in Messages : msg.code = "RCRRP" /\ t.out = Append(s.out, msg)
<1> DEFINE u == [s EXCEPT !.etmTim = Polled(s.etmTim), !.etmDuration = EtmLeft(s)]
           w == SendWaitResponse(u, can)
           tim == IF w.etmDuration = 0 THEN StopTimer(w.etmTim) ELSE w.etmTim
           x == [w EXCEPT !.etmTim = tim]
           t == ProcessEtm(s, can)
<1>1. CASE ~EtmExpires(s)
  BY <1>1 DEF ProcessEtm
<1>2. CASE EtmExpires(s)
  <2>1. /\ Polled(s.etmTim) \in TimerType({0, EtmInterval})
        /\ EtmLeft(s) \in Nat /\ s.isEtmActive
    <3>1. s.etmDuration \in Nat /\ s.etmKeepAliveInterval \in Nat
      BY DEF Servers
    <3>2. EtmLeft(s) \in Nat
      BY <3>1 DEF EtmLeft
    <3> QED
      BY <1>2, <3>2, EtmTimType DEF EtmExpires
  <2>2. /\ Polled(s.etmTim).period = s.etmTim.period /\ Polled(s.etmTim).endless
        /\ Polled(s.etmTim).active /\ Polled(s.etmTim).left = s.etmTim.period
    BY <1>2 DEF EtmExpires, Polled
  <2>3. /\ u \in Servers /\ u.sessType = s.sessType /\ u.S3 = s.S3 /\ u.p2 = s.p2
        /\ u.out = s.out /\ u.etmSi = s.etmSi /\ u.etmDuration = EtmLeft(s)
        /\ u.etmKeepAliveInterval = s.etmKeepAliveInterval
        /\ u.etmTim = Polled(s.etmTim)
        /\ Nrc(u) = Nrc(s) /\ App(u) = App(s)
    BY <2>1 DEF Servers, Nrc, App
  <2>4. t = x
    BY <1>2 DEF ProcessEtm
  <2> HIDE DEF u, t
  <2>5. /\ w \in Servers /\ w.isEtmActive
        /\ w.p2 = StartTimer(u.p2, p2_enhanced)
        /\ w.sessType = u.sessType
        /\ w.S3 = u.S3 \/ w.S3.active \/ u.sessType = "DEFAULT"
        /\ \/ w.out = u.out
           \/ \E msg \in Messages : msg.code = "RCRRP" /\ w.out = Append(u.out, msg)
        /\ Etm(w) = Etm(u) /\ Nrc(w) = Nrc(u) /\ App(w) = App(u)
    BY <2>1, <2>3, SendWaitEffect
  <2> HIDE DEF w
  <2>6. /\ w.etmDuration = EtmLeft(s) /\ w.etmTim = Polled(s.etmTim)
        /\ w.etmSi = s.etmSi /\ w.etmKeepAliveInterval = s.etmKeepAliveInterval
    BY <2>3, <2>5 DEF Etm
  <2>7. /\ tim \in TimerType({0, EtmInterval})
        /\ tim.period = s.etmTim.period /\ tim.endless
        /\ w.etmDuration > 0 => tim.active /\ tim.left = s.etmTim.period
    <3>1. StopTimer(w.etmTim) \in TimerType({0, EtmInterval})
      BY <2>5, EtmTimType
    <3>2. StopTimer(w.etmTim).period = s.etmTim.period /\ StopTimer(w.etmTim).endless
      BY <2>2, <2>6 DEF StopTimer
    <3>3. CASE w.etmDuration = 0
      BY <3>1, <3>2, <3>3
    <3>4. CASE w.etmDuration # 0
      BY <2>1, <2>2, <2>6, <3>4
    <3> QED
      BY <3>3, <3>4
  <2> HIDE DEF tim
  <2>8. /\ x \in Servers /\ x.isEtmActive /\ x.p2 = w.p2 /\ x.sessType = w.sessType
        /\ x.S3 = w.S3 /\ x.out = w.out /\ x.etmTim = tim
        /\ x.etmDuration = w.etmDuration /\ x.etmSi = w.etmSi
        /\ x.etmKeepAliveInterval = w.etmKeepAliveInterval
        /\ Nrc(x) = Nrc(w) /\ App(x) = App(w)
    BY <2>5, <2>7 DEF Servers, Nrc, App
  <2> HIDE DEF x
  <2> QED
    BY <1>2, <2>1, <2>3, <2>4, <2>5, <2>6, <2>7, <2>8 DEF t
<1> QED
  BY <1>1, <1>2

LEMMA RoutineEffect ==
  ASSUME NEW s \in Servers, NEW can \in BOOLEAN
  PROVE  LET t == ProcessRoutine(s, can)
         IN  /\ t \in Servers
             /\ Etm(t) = Etm(s) /\ t.req = s.req
             /\ ~RoutineEnds(s) => t = s
             /\ RoutineEnds(s) =>
                  /\ Agree(t) /\ (t.sessType = "NONDEFAULT" => t.S3.active)
                  /\ ~t.nrcPending /\ ~t.routinePending
                  /\ \/ t.out = s.out /\ Mode(t) = Mode(s)
                     \/ ~t.isEtmActive /\ \/ t.out = s.out
                                          \/ \E msg \in Messages :
                                               msg.code = "PR" /\ t.out = Append(s.out, msg)
<1> DEFINE resp == Message("RC", "PR", FALSE)
           u == [s EXCEPT !.routinePending = FALSE, !.timeout = StopTimer(Polled(s.timeout))]
           w == SendResponse(u, resp, can)
           t == ProcessRoutine(s, can)
<1>1. CASE ~RoutineEnds(s)
  BY <1>1 DEF ProcessRoutine
<1>2. CASE RoutineEnds(s)
  <2>1. u \in Servers /\ u.req = s.req /\ u.out = s.out /\ ~u.routinePending
        /\ Etm(u) = Etm(s) /\ Mode(u) = Mode(s)
    BY TimeoutType DEF Servers, Etm, Mode
  <2>2. t = w
    BY <1>2 DEF ProcessRoutine, SendRoutineResponse
  <2>3. resp \in Messages /\ resp.code = "PR"
    BY DEF Message, Messages, Codes, Sids
  <2> HIDE DEF resp, u
  <2>4. /\ w \in Servers
        /\ Agree(w) /\ (w.sessType = "NONDEFAULT" => w.S3.active)
        /\ ~w.nrcPending
        /\ Etm(w) = Etm(u) /\ App(w) = App(u)
        /\ \/ Mode(w) = Mode(u) /\ w.out = u.out
           \/ ~w.isEtmActive /\ w.out \in {u.out, Append(u.out, resp)}
    BY <2>1, <2>3, SendResponseEffect
  <2> HIDE DEF w, t
  <2>5. w.req = s.req /\ ~w.routinePending
    BY <2>1, <2>4 DEF App
  <2> QED
    BY <1>2, <2>1, <2>2, <2>3, <2>4, <2>5 DEF t
<1> QED
  BY <1>1, <1>2

LEMMA TickEffect ==
  ASSUME NEW s \in Servers
  PROVE  LET t == [TickSession(s) EXCEPT !.timeout = Ticked(@)]
         IN  /\ t \in Servers
             /\ t.sessType = s.sessType /\ Sent(t) = Sent(s) /\ Nrc(t) = Nrc(s)
             /\ t.p2 = Ticked(s.p2) /\ t.S3 = Ticked(s.S3)
             /\ t.etmTim = Ticked(s.etmTim) /\ t.timeout = Ticked(s.timeout)
             /\ t.isEtmActive = s.isEtmActive /\ t.etmDuration = s.etmDuration
             /\ t.etmKeepAliveInterval = s.etmKeepAliveInterval /\ t.etmSi = s.etmSi
             /\ t.req = s.req /\ t.isManagerActive = s.isManagerActive
             /\ t.routinePending = s.routinePending
             /\ t.p2.active = s.p2.active /\ t.S3.active = s.S3.active
             /\ t.etmTim.active = s.etmTim.active /\ t.etmTim.endless = s.etmTim.endless
<1>1. /\ {0, p2_max, p2_enhanced} \in SUBSET Nat /\ 0 \in {0, p2_max, p2_enhanced}
      /\ {0, S3_max} \in SUBSET Nat /\ 0 \in {0, S3_max}
      /\ {0, EtmInterval} \in SUBSET Nat /\ 0 \in {0, EtmInterval}
      /\ {RoutineTime} \in SUBSET Nat /\ RoutineTime \in {RoutineTime}
  OBVIOUS
<1>2. /\ s.p2 \in TimerType({0, p2_max, p2_enhanced}) /\ s.S3 \in TimerType({0, S3_max})
      /\ s.etmTim \in TimerType({0, EtmInterval}) /\ s.timeout \in TimerType({RoutineTime})
  BY DEF Servers
<1>3. Ticked(s.p2) \in TimerType({0, p2_max, p2_enhanced})
      /\ Ticked(s.p2).active = s.p2.active
  BY <1>1, <1>2, TimerOps
<1>4. Ticked(s.S3) \in TimerType({0, S3_max}) /\ Ticked(s.S3).active = s.S3.active
  BY <1>1, <1>2, TimerOps
<1>5. Ticked(s.etmTim) \in TimerType({0, EtmInterval})
      /\ Ticked(s.etmTim).active = s.etmTim.active
  BY <1>1, <1>2, TimerOps
<1>6. Ticked(s.timeout) \in TimerType({RoutineTime})
  BY <1>1, <1>2, TimerOps
<1>7. Ticked(s.etmTim).endless = s.etmTim.endless
  BY <1>2 DEF Ticked, TimerType
<1> DEFINE t == [s EXCEPT !.p2 = Ticked(s.p2), !.S3 = Ticked(s.S3),
                          !.etmTim = Ticked(s.etmTim), !.timeout = Ticked(s.timeout)]
<1>8. [TickSession(s) EXCEPT !.timeout = Ticked(@)] = t
  BY DEF TickSession, Servers
<1>9. /\ t \in Servers
      /\ t.sessType = s.sessType /\ Sent(t) = Sent(s) /\ Nrc(t) = Nrc(s)
      /\ t.p2 = Ticked(s.p2) /\ t.S3 = Ticked(s.S3)
      /\ t.etmTim = Ticked(s.etmTim) /\ t.timeout = Ticked(s.timeout)
      /\ t.isEtmActive = s.isEtmActive /\ t.etmDuration = s.etmDuration
      /\ t.etmKeepAliveInterval = s.etmKeepAliveInterval /\ t.etmSi = s.etmSi
      /\ t.req = s.req /\ t.isManagerActive = s.isManagerActive
      /\ t.routinePending = s.routinePending
  BY <1>3, <1>4, <1>5, <1>6 DEF Servers, Sent, Nrc
<1> HIDE DEF t
<1> QED
  BY <1>3, <1>4, <1>5, <1>7, <1>8, <1>9
-----------------------------------------------------------------------------
(***************************************************************************)
(* What holds in every state, whatever the timings.                        *)
(***************************************************************************)

\* The messages of a step that count as an answer (see finals).
LEMMA FinalsType ==
  ASSUME server' \in Servers
  PROVE  /\ Finals \in Nat
         /\ Finals <= Len(server'.out)
         /\ (\A i \in DOMAIN server'.out : server'.out[i].code = "RCRRP") => Finals = 0
<1> DEFINE F == {i \in DOMAIN server'.out : server'.out[i].code # "RCRRP"}
<1>1. server'.out \in Seq(Messages)
  BY DEF Servers
<1>2. DOMAIN server'.out = 1 .. Len(server'.out) /\ Len(server'.out) \in Nat
  BY <1>1
<1>3. IsFiniteSet(1 .. Len(server'.out)) /\ Cardinality(1 .. Len(server'.out)) = Len(server'.out)
  BY <1>2, FS_Interval
<1>4. F \subseteq 1 .. Len(server'.out)
  BY <1>2
<1>5. IsFiniteSet(F) /\ Cardinality(F) <= Len(server'.out)
  BY <1>3, <1>4, FS_Subset
<1>6. Cardinality(F) \in Nat
  BY <1>5, FS_CardinalityType
<1>7. Finals = Cardinality(F)
  BY DEF Finals
<1>8. ASSUME \A i \in DOMAIN server'.out : server'.out[i].code = "RCRRP"
      PROVE  Finals = 0
  <2>1. F = {}
    BY <1>8
  <2> QED
    BY <1>7, <2>1, FS_EmptySet
<1> QED
  BY <1>5, <1>6, <1>7, <1>8

\* The server between two steps: the enhanced timing mode is guarded by p2 and its
\* keep-alive timer, and holds on to the context of the request it waits for.
Held(s, p) ==
    /\ s \in Servers
    /\ Agree(s)
    /\ s.etmTim.endless
    /\ s.isEtmActive => /\ s.p2.active
                        /\ s.etmDuration > 0 => s.etmTim.active
                        /\ s.req = p /\ s.etmSi = p.si /\ p.si = "RC"

ServerInv ==
    /\ Held(server, pended)
    /\ rx \in {"IDLE", "ACTIVE"}
    /\ pc \in {"idle", "p2", "etm", "app", "ran", "lost"}
    /\ pended \in Contexts
    /\ finals \in Nat

LEMMA HeldSame ==
  ASSUME NEW p, NEW s, Held(s, p), NEW t \in Servers, Agree(t),
         Etm(t) = Etm(s), Mode(t) = Mode(s), t.req = s.req
  PROVE  Held(t, p)
<1>1. /\ t.etmDuration = s.etmDuration /\ t.etmTim = s.etmTim /\ t.etmSi = s.etmSi
      /\ t.p2 = s.p2 /\ t.isEtmActive = s.isEtmActive
  BY DEF Etm, Mode
<1> QED
  BY <1>1 DEF Held

LEMMA HeldQuiet ==
  ASSUME Held(server, pended)
  PROVE  /\ Held(Quiet, pended) /\ Quiet.out = <<>>
         /\ Quiet.sessType = server.sessType /\ Quiet.S3 = server.S3
         /\ Etm(Quiet) = Etm(server) /\ Mode(Quiet) = Mode(server)
         /\ Nrc(Quiet) = Nrc(server) /\ App(Quiet) = App(server)
<1>1. server \in Servers
  BY DEF Held
<1>2. /\ Quiet \in Servers /\ Quiet.out = <<>>
      /\ Quiet.sessType = server.sessType /\ Quiet.S3 = server.S3
      /\ Etm(Quiet) = Etm(server) /\ Mode(Quiet) = Mode(server)
      /\ Nrc(Quiet) = Nrc(server) /\ App(Quiet) = App(server)
  BY <1>1, QuietEffect
<1>3. Agree(Quiet) /\ Quiet.req = server.req
  BY <1>2 DEF Held, Agree, Nrc, App
<1> QED
  BY <1>2, <1>3, HeldSame

\* A request that is accepted.
LEMMA AcceptEffect ==
  ASSUME Held(server, pended), ~server.isEtmActive, NEW pending \in BOOLEAN,
         server.nrcPending => pending
  PROVE  /\ Ready(StartP2(Quiet), pending)
         /\ Etm(StartP2(Quiet)) = Etm(server) /\ Nrc(StartP2(Quiet)) = Nrc(server)
         /\ App(StartP2(Quiet)) = App(server)
<1>1. /\ Quiet \in Servers /\ Agree(Quiet) /\ Quiet.out = <<>>
      /\ Etm(Quiet) = Etm(server) /\ Mode(Quiet) = Mode(server)
      /\ Nrc(Quiet) = Nrc(server) /\ App(Quiet) = App(server)
  BY HeldQuiet DEF Held
<1>2. ~Quiet.isEtmActive /\ (Quiet.nrcPending => pending)
  BY <1>1 DEF Mode, Nrc
<1> DEFINE q == Quiet
<1>3. /\ q \in Servers /\ Agree(q) /\ q.out = <<>> /\ ~q.isEtmActive
      /\ q.nrcPending => pending
  BY <1>1, <1>2
<1> HIDE DEF q
<1>4. /\ Ready(StartP2(q), pending)
      /\ Etm(StartP2(q)) = Etm(q) /\ Nrc(StartP2(q)) = Nrc(q) /\ App(StartP2(q)) = App(q)
  BY <1>3, StartP2Effect
<1> QED
  BY <1>1, <1>4 DEF q

LEMMA DataHeld ==
  ASSUME Held(server, pended), NEW r \in Requests, AcceptRequest(r)
  PROVE  Held(server', pended') /\ pended' \in Contexts /\ Live(server')
<1> PICK can \in Can : server' = OnData(Quiet, r, can)
  BY DEF AcceptRequest
<1>1. can \in BOOLEAN
  BY DEF Can
<1> DEFINE u == StartP2(Quiet)
           t == OnSessIndication(u, r, can)
<1>2. ~server.isEtmActive
  BY DEF AcceptRequest, Accepts
<1>3. /\ Ready(u, TRUE)
      /\ Etm(u) = Etm(server) /\ Nrc(u) = Nrc(server) /\ App(u) = App(server)
  <2> DEFINE P(pending) == (server.nrcPending => pending) =>
                              /\ Ready(u, pending)
                              /\ Etm(u) = Etm(server) /\ Nrc(u) = Nrc(server)
                              /\ App(u) = App(server)
  <2>1. \A pending \in BOOLEAN : P(pending)
    BY <1>2, AcceptEffect
  <2> HIDE DEF P
  <2>2. P(TRUE)
    BY <2>1
  <2> QED
    BY <2>2 DEF P
<1>4. u.isManagerActive = server.isManagerActive
  BY <1>3 DEF App
<1>5. server' = t
  <2>1. Mode(Quiet) = Mode(server)
    BY HeldQuiet
  <2>2. ~Quiet.isEtmActive
    BY <1>2, <2>1 DEF Mode
  <2> QED
    BY <2>2 DEF OnData, Accepts
<1>6. Ignores(server, r) <=> Ignores(u, r)
  BY <1>4 DEF Ignores
<1>7. pended' = IF StartsRoutine(u, r) THEN server'.req ELSE NotPended
  BY <1>6 DEF AcceptRequest, StartsRoutine
<1>8. server.etmTim.endless /\ u.etmTim = server.etmTim
  BY <1>3 DEF Held, Etm
<1> DEFINE TP == TRUE
<1>9. Ready(u, TP) /\ TP \in BOOLEAN
  BY <1>3
<1> HIDE DEF u, TP
<1>10. CASE ~StartsRoutine(u, r)
  <2>1. Answering(t, TP) /\ Etm(t) = Etm(u)
    BY <1>1, <1>9, <1>10, IndicationAnswers
  <2>2. t \in Servers /\ ~t.isEtmActive /\ Agree(t) /\ Live(t)
    BY <2>1 DEF Answering
  <2>3. t.etmTim = u.etmTim
    BY <2>1 DEF Etm
  <2> HIDE DEF t
  <2> QED
    BY <1>5, <1>7, <1>8, <1>10, <2>2, <2>3 DEF Held, NotPended, Contexts
<1>11. CASE StartsRoutine(u, r)
  <2>1. /\ t \in Servers
        /\ Agree(t) /\ Live(t) /\ t.req.si = "RC"
        /\ ~Fits => Etm(t) = Etm(u) /\ ~t.isEtmActive
        /\ Fits => /\ t.isEtmActive
                   /\ t.p2 = StartTimer(u.p2, p2_enhanced)
                   /\ t.etmTim = StartTimer(u.etmTim, EtmInterval)
                   /\ t.etmSi = "RC"
    BY <1>1, <1>9, <1>11, RoutineStarts
  <2>2. pended' = t.req /\ t.req \in Contexts
    BY <1>5, <1>7, <1>11, <2>1 DEF Servers
  <2> HIDE DEF t
  <2>3. CASE Fits
    <3>1. t.p2.active /\ t.etmTim.active /\ t.etmTim.endless
      BY <1>8, <2>1, <2>3 DEF StartTimer
    <3> QED
      BY <1>5, <2>1, <2>2, <2>3, <3>1 DEF Held
  <2>4. CASE ~Fits
    <3>1. t.etmTim.endless
      BY <1>8, <2>1, <2>4 DEF Etm
    <3> QED
      BY <1>5, <2>1, <2>2, <2>4, <3>1 DEF Held
  <2> QED
    BY <2>3, <2>4
<1> QED
  BY <1>10, <1>11
\* The polls of the main loop.
LEMMA PollS3Held ==
  ASSUME Held(server, pended), PollS3
  PROVE  Held(server', pended) /\ (Live(server) => Live(server'))
<1> DEFINE q == Quiet
           t == ProcessS3Timer(q)
<1>1. /\ Held(q, pended)
      /\ q.sessType = server.sessType /\ q.S3 = server.S3 /\ Mode(q) = Mode(server)
  BY HeldQuiet
<1>2. server' = t
  BY DEF PollS3
<1> HIDE DEF q
<1>3. /\ t \in Servers /\ Agree(t)
      /\ t.S3 = q.S3 \/ t.sessType = "DEFAULT"
      /\ t.sessType = q.sessType \/ t.sessType = "DEFAULT"
      /\ Etm(t) = Etm(q) /\ Mode(t) = Mode(q) /\ App(t) = App(q)
  BY <1>1, S3TimerEffect DEF Held
<1> HIDE DEF t
<1>4. t.req = q.req /\ t.p2 = server.p2
  BY <1>1, <1>3 DEF App, Mode
<1>5. Held(t, pended)
  BY <1>1, <1>3, <1>4, HeldSame
<1>6. Live(server) => Live(t)
  BY <1>1, <1>3, <1>4 DEF Live
<1> QED
  BY <1>2, <1>5, <1>6

LEMMA PollP2Held ==
  ASSUME Held(server, pended), NEW can \in BOOLEAN, server' = ProcessP2Timer(Quiet, can),
         pended \in Contexts
  PROVE  Held(server', pended) /\ (Live(server) => Live(server'))
<1> DEFINE q == Quiet
           t == ProcessP2Timer(q, can)
<1>1. /\ Held(q, pended)
      /\ q.sessType = server.sessType /\ q.S3 = server.S3 /\ Mode(q) = Mode(server)
      /\ Nrc(q) = Nrc(server)
  BY HeldQuiet
<1>2. q \in Servers /\ (q.isEtmActive => q.etmSi \in Sids)
  BY <1>1 DEF Held, Sids
<1> HIDE DEF q
<1>3. /\ t \in Servers /\ t.sessType = q.sessType
      /\ Etm(t) = Etm(q) /\ Nrc(t) = Nrc(q)
      /\ ~HasElapsed(q.p2) => t = q
      /\ HasElapsed(q.p2) => ~t.isEtmActive /\ (t.sessType = "DEFAULT" \/ t.S3.active)
  BY <1>2, P2TimerEffect
<1> HIDE DEF t
<1>4. CASE ~HasElapsed(q.p2)
  BY <1>1, <1>3, <1>4 DEF Live, Mode, t, q
<1>5. CASE HasElapsed(q.p2)
  <2>1. t.etmTim.endless /\ Agree(t)
    BY <1>1, <1>3 DEF Held, Etm, Agree, Nrc
  <2> QED
    BY <1>3, <1>5, <2>1 DEF Held, Live, t, q
<1> QED
  BY <1>4, <1>5

LEMMA PollEtmHeld ==
  ASSUME Held(server, pended), NEW can \in BOOLEAN, server' = ProcessEtm(Quiet, can)
  PROVE  Held(server', pended) /\ (Live(server) => Live(server'))
<1> DEFINE q == Quiet
           t == ProcessEtm(q, can)
<1>1. /\ Held(q, pended)
      /\ q.sessType = server.sessType /\ q.S3 = server.S3 /\ Mode(q) = Mode(server)
  BY HeldQuiet
<1>2. q \in Servers /\ (q.isEtmActive => q.etmSi \in Sids) /\ q.etmTim.endless
  BY <1>1 DEF Held, Sids
<1>3. server' = t
  OBVIOUS
<1>4. Live(server) => Live(q)
  BY <1>1 DEF Live, Mode
<1> HIDE DEF q
<1>5. /\ t \in Servers /\ t.sessType = q.sessType
      /\ Nrc(t) = Nrc(q) /\ App(t) = App(q)
      /\ t.isEtmActive = q.isEtmActive /\ t.etmSi = q.etmSi
      /\ ~EtmExpires(q) => t = q
      /\ EtmExpires(q) => /\ t.isEtmActive
                          /\ t.p2 = StartTimer(q.p2, p2_enhanced)
                          /\ t.etmTim.endless
                          /\ t.etmDuration > 0 => t.etmTim.active
  BY <1>2, EtmTimerEffect
<1> HIDE DEF t
<1>6. CASE ~EtmExpires(q)
  BY <1>1, <1>3, <1>4, <1>5, <1>6
<1>7. CASE EtmExpires(q)
  <2>1. t.p2.active
    BY <1>2, <1>5, <1>7, P2Type
  <2>2. t.req = q.req /\ t.currSession = q.currSession /\ Agree(t)
    BY <1>1, <1>5 DEF Held, App, Nrc, Agree
  <2> QED
    BY <1>1, <1>3, <1>5, <1>7, <2>1, <2>2 DEF Held, Live
<1> QED
  BY <1>6, <1>7

LEMMA PollRoutineHeld ==
  ASSUME Held(server, pended), NEW can \in BOOLEAN, server' = ProcessRoutine(Quiet, can)
  PROVE  Held(server', pended) /\ (Live(server) => Live(server'))
<1> DEFINE q == Quiet
           t == ProcessRoutine(q, can)
<1>1. /\ Held(q, pended) /\ q.out = <<>>
      /\ q.sessType = server.sessType /\ q.S3 = server.S3 /\ Mode(q) = Mode(server)
  BY HeldQuiet
<1>2. q \in Servers
  BY <1>1 DEF Held
<1>3. server' = t
  OBVIOUS
<1>4. Live(server) => Live(q)
  BY <1>1 DEF Live, Mode
<1> HIDE DEF q
<1>5. /\ t \in Servers
      /\ Etm(t) = Etm(q) /\ t.req = q.req
      /\ ~RoutineEnds(q) => t = q
      /\ RoutineEnds(q) => /\ Agree(t) /\ (t.sessType = "NONDEFAULT" => t.S3.active)
                           /\ Mode(t) = Mode(q) \/ ~t.isEtmActive
  BY <1>2, RoutineEffect
<1> HIDE DEF t
<1>6. CASE ~RoutineEnds(q)
  BY <1>1, <1>3, <1>4, <1>5, <1>6
<1>7. CASE RoutineEnds(q)
  <2>1. Live(t)
    BY <1>5, <1>7 DEF Live
  <2>2. CASE Mode(t) = Mode(q)
    BY <1>1, <1>3, <1>5, <1>7, <2>1, <2>2, HeldSame
  <2>3. CASE ~t.isEtmActive
    <3>1. t.etmTim.endless
      BY <1>1, <1>5 DEF Held, Etm
    <3> QED
      BY <1>3, <1>5, <1>7, <2>1, <2>3, <3>1 DEF Held
  <2> QED
    BY <1>5, <1>7, <2>2, <2>3
<1> QED
  BY <1>6, <1>7

LEMMA TickHeld ==
  ASSUME Held(server, pended), ProcessTick
  PROVE  Held(server', pended) /\ (Live(server) => Live(server'))
<1> DEFINE q == Quiet
           t == [TickSession(q) EXCEPT !.timeout = Ticked(@)]
<1>1. /\ Held(q, pended)
      /\ q.sessType = server.sessType /\ q.S3 = server.S3 /\ Mode(q) = Mode(server)
  BY HeldQuiet
<1>2. q \in Servers
  BY <1>1 DEF Held
<1>3. server' = t
  BY DEF ProcessTick
<1>4. Live(server) => Live(q)
  BY <1>1 DEF Live, Mode
<1> HIDE DEF q
<1>5. /\ t \in Servers
      /\ t.sessType = q.sessType /\ Nrc(t) = Nrc(q)
      /\ t.isEtmActive = q.isEtmActive /\ t.etmDuration = q.etmDuration
      /\ t.etmSi = q.etmSi /\ t.req = q.req
      /\ t.p2.active = q.p2.active /\ t.S3.active = q.S3.active
      /\ t.etmTim.active = q.etmTim.active /\ t.etmTim.endless = q.etmTim.endless
  BY <1>2, TickEffect
<1> HIDE DEF t
<1>6. Agree(t)
  BY <1>1, <1>5 DEF Held, Agree, Nrc
<1>7. Held(t, pended)
  BY <1>1, <1>5, <1>6 DEF Held
<1>8. Live(q) => Live(t)
  BY <1>5 DEF Live
<1> QED
  BY <1>3, <1>4, <1>7, <1>8
\* The other events.
LEMMA FirstFrameHeld ==
  ASSUME Held(server, pended), FirstFrame
  PROVE  Held(server', pended)
<1> DEFINE q == Quiet
           t == OnDataFF(q)
<1>1. Held(q, pended)
  BY HeldQuiet
<1>2. server' = t
  BY DEF FirstFrame
<1> HIDE DEF q
<1>3. /\ t \in Servers /\ t.sessType = q.sessType
      /\ Etm(t) = Etm(q) /\ Mode(t) = Mode(q) /\ Nrc(t) = Nrc(q) /\ App(t) = App(q)
  BY <1>1, FirstFrameEffect DEF Held
<1> HIDE DEF t
<1>4. Agree(t) /\ t.req = q.req
  BY <1>1, <1>3 DEF Held, Agree, Nrc, App
<1> QED
  BY <1>1, <1>2, <1>3, <1>4, HeldSame

LEMMA ConfHeld ==
  ASSUME NEW s, Held(s, pended), NEW res, server' = OnConf(s, res)
  PROVE  /\ Held(server', pended)
         /\ Live(s) => Live(server')
         /\ res = "TIMEOUT_Cr" => Live(server')
<1> DEFINE t == OnConf(s, res)
<1>1. /\ t \in Servers /\ t.sessType = s.sessType
      /\ t.S3 = s.S3 \/ t.S3.active \/ s.sessType = "DEFAULT"
      /\ res = "TIMEOUT_Cr" => t.S3.active \/ s.sessType = "DEFAULT"
      /\ Etm(t) = Etm(s) /\ Mode(t) = Mode(s) /\ Nrc(t) = Nrc(s) /\ App(t) = App(s)
  BY OnConfEffect DEF Held
<1>2. server' = t
  OBVIOUS
<1> HIDE DEF t
<1>3. Agree(t) /\ t.req = s.req /\ t.p2 = s.p2
  BY <1>1 DEF Held, Agree, Nrc, App, Mode
<1>4. Held(t, pended)
  BY <1>1, <1>3, HeldSame
<1> QED
  BY <1>1, <1>2, <1>3, <1>4 DEF Live

LEMMA TxDoneHeld ==
  ASSUME Held(server, pended), NEW res, TxDone(res)
  PROVE  Held(server', pended) /\ (Live(server) => Live(server'))
<1> DEFINE q == Quiet
           u == [q EXCEPT !.tx = FALSE]
<1>1. /\ Held(q, pended)
      /\ q.sessType = server.sessType /\ q.S3 = server.S3 /\ Mode(q) = Mode(server)
  BY HeldQuiet
<1>2. server' = OnConf(u, res)
  BY DEF TxDone
<1>3. Live(server) => Live(q)
  BY <1>1 DEF Live, Mode
<1> HIDE DEF q
<1>4. /\ u \in Servers /\ u.sessType = q.sessType /\ u.S3 = q.S3 /\ u.req = q.req
      /\ u.p2 = q.p2 /\ u.currSession = q.currSession
      /\ Etm(u) = Etm(q) /\ Mode(u) = Mode(q)
  BY <1>1 DEF Held, Servers, Etm, Mode
<1> HIDE DEF u
<1>5. Agree(u) /\ (Live(q) => Live(u))
  BY <1>1, <1>4 DEF Held, Agree, Live
<1>6. Held(u, pended)
  BY <1>1, <1>4, <1>5, HeldSame
<1> QED
  BY <1>2, <1>3, <1>5, <1>6, ConfHeld

LEMMA SetActiveModeHeld ==
  ASSUME Held(server, pended), SetActiveMode
  PROVE  Held(server', pended) /\ (Live(server) => Live(server'))
<1> DEFINE q == Quiet
<1>1. /\ Held(q, pended)
      /\ q.sessType = server.sessType /\ q.S3 = server.S3 /\ Mode(q) = Mode(server)
  BY HeldQuiet
<1>2. PICK isactive \in BOOLEAN : server' = [q EXCEPT !.isManagerActive = isactive]
  BY DEF SetActiveMode
<1>3. Live(server) => Live(q)
  BY <1>1 DEF Live, Mode
<1> HIDE DEF q
<1>4. /\ server' \in Servers /\ server'.sessType = q.sessType /\ server'.S3 = q.S3
      /\ server'.req = q.req /\ server'.p2 = q.p2 /\ server'.currSession = q.currSession
      /\ Etm(server') = Etm(q) /\ Mode(server') = Mode(q)
  BY <1>1, <1>2 DEF Held, Servers, Etm, Mode
<1> DEFINE t == server'
<1> HIDE DEF t
<1>5. Agree(t) /\ (Live(q) => Live(t))
  BY <1>1, <1>4 DEF Held, Agree, Live, t
<1>6. Held(t, pended)
  BY <1>1, <1>4, <1>5, HeldSame DEF t
<1> QED
  BY <1>3, <1>5, <1>6 DEF t

\* LoseInDidKeeper: the server has the request and does not come back.
LEMMA LostHeld ==
  ASSUME Held(server, pended), NEW r \in Requests, LoseInDidKeeper(r)
  PROVE  Held(server', NotPended) /\ Live(server') /\ server'.out = <<>> /\ NotPended \in Contexts
<1> DEFINE u == StartP2(Quiet)
           t == Cleared(u, r)
           TP == TRUE
<1>1. server' = t /\ ~server.isEtmActive
  BY DEF LoseInDidKeeper, Accepts
<1>2. Ready(u, TP) /\ Etm(u) = Etm(server)
  <2> DEFINE P(pending) == (server.nrcPending => pending) =>
                              Ready(u, pending) /\ Etm(u) = Etm(server)
  <2>1. \A pending \in BOOLEAN : P(pending)
    BY <1>1, AcceptEffect
  <2> HIDE DEF P
  <2>2. P(TRUE)
    BY <2>1
  <2> QED
    BY <2>2 DEF P
<1>3. server.etmTim.endless
  BY DEF Held
<1>4. TP \in BOOLEAN
  OBVIOUS
<1> HIDE DEF u, TP
<1>5. t \in {Asked(u, r), Cleared(u, r)}
  OBVIOUS
<1> HIDE DEF t
<1>6. Answering(t, TP) /\ t.out = <<>> /\ Etm(t) = Etm(u)
  BY <1>2, <1>4, <1>5, AskedAnswers
<1>7. t.etmTim.endless
  BY <1>2, <1>3, <1>6 DEF Etm
<1> QED
  BY <1>1, <1>6, <1>7 DEF Answering, Held, NotPended, Contexts

LEMMA ServerInvInit == Init => ServerInv /\ Live(server)
<1> SUFFICES ASSUME Init PROVE ServerInv /\ Live(server)
  OBVIOUS
<1>1. NewServer \in Servers
  <2>1. <<>> \in Seq(Messages)
    OBVIOUS
  <2> QED
    BY <2>1 DEF NewServer, Servers, NewTimer, TimerType, Sids, Contexts, Codes, Sessions
<1>2. Agree(NewServer) /\ NewServer.etmTim.endless /\ ~NewServer.isEtmActive /\ Live(NewServer)
  BY DEF NewServer, NewTimer, Agree, Live
<1>3. NotPended \in Contexts
  BY DEF NotPended, Contexts
<1> QED
  BY <1>1, <1>2, <1>3 DEF Init, ServerInv, Held
\* A step of the server keeps the invariant.
LEMMA ServerInvStep == ServerInv /\ [Next]_vars => ServerInv'
<1> SUFFICES ASSUME ServerInv, [Next]_vars PROVE ServerInv'
  OBVIOUS
<1> USE DEF ServerInv
<1>1. Held(server', pended') /\ server' \in Servers => Finals \in Nat /\ (finals + Finals) \in Nat
  BY FinalsType
<1>2. Held(server', pended') => server' \in Servers
  BY DEF Held
<1>3. CASE Transport
  <2>1. CASE FirstFrame
    BY <2>1, FirstFrameHeld DEF FirstFrame, InLoop
  <2>2. ASSUME NEW r \in Requests, Data(r) PROVE ServerInv'
    <3>1. rx' \in {"IDLE", "ACTIVE"}
      BY <2>2 DEF Data, AcceptRequest, IgnoreRequest, LoseInDidKeeper, Delivered
    <3>2. CASE AcceptRequest(r)
      <4>1. Held(server', pended') /\ pended' \in Contexts
        BY <3>2, DataHeld
      <4> QED
        BY <1>1, <1>2, <3>1, <3>2, <4>1 DEF AcceptRequest
    <3>3. CASE IgnoreRequest(r)
      BY <3>1, <3>3, HeldQuiet DEF IgnoreRequest
    <3>4. CASE LoseInDidKeeper(r)
      <4>1. Held(server', NotPended) /\ NotPended \in Contexts
        BY <3>4, LostHeld
      <4> QED
        BY <3>1, <3>4, <4>1 DEF LoseInDidKeeper
    <3> QED
      BY <2>2, <3>2, <3>3, <3>4 DEF Data
  <2>3. CASE ReceptionTimeout
    <3>1. Held(Quiet, pended)
      BY HeldQuiet
    <3>2. Held(server', pended)
      BY <2>3, <3>1, ConfHeld DEF ReceptionTimeout
    <3> QED
      BY <2>3, <3>2 DEF ReceptionTimeout
  <2>4. CASE ReceptionBroken
    BY <2>4, HeldQuiet DEF ReceptionBroken
  <2>5. ASSUME NEW res, TxDone(res) PROVE ServerInv'
    BY <2>5, TxDoneHeld DEF TxDone
  <2> QED
    BY <1>3, <2>1, <2>2, <2>3, <2>4, <2>5 DEF Transport, FromTester
<1>4. CASE Process
  <2>1. CASE PollS3
    BY <2>1, PollS3Held DEF PollS3
  <2>2. CASE PollP2
    <3>1. PICK can \in BOOLEAN : server' = ProcessP2Timer(Quiet, can)
      BY <2>2 DEF PollP2, Poll, Can
    <3>2. Held(server', pended)
      BY <3>1, PollP2Held
    <3> QED
      BY <1>1, <1>2, <2>2, <3>2 DEF PollP2, Poll
  <2>3. CASE PollEtm
    <3>1. PICK can \in BOOLEAN : server' = ProcessEtm(Quiet, can)
      BY <2>3 DEF PollEtm, Poll, Can
    <3>2. Held(server', pended)
      BY <3>1, PollEtmHeld
    <3> QED
      BY <1>1, <1>2, <2>3, <3>2 DEF PollEtm, Poll
  <2>4. CASE PollRoutine
    <3>1. PICK can \in BOOLEAN : server' = ProcessRoutine(Quiet, can)
      BY <2>4 DEF PollRoutine, Poll, Can
    <3>2. Held(server', pended)
      BY <3>1, PollRoutineHeld
    <3> QED
      BY <1>1, <1>2, <2>4, <3>2 DEF PollRoutine, Poll
  <2> QED
    BY <1>4, <2>1, <2>2, <2>3, <2>4 DEF Process
<1>5. CASE SetActiveMode
  BY <1>5, SetActiveModeHeld DEF SetActiveMode
<1>6. CASE ProcessTick
  BY <1>6, TickHeld DEF ProcessTick
<1>7. CASE UNCHANGED vars
  BY <1>7 DEF vars
<1> QED
  BY <1>3, <1>4, <1>5, <1>6, <1>7 DEF Next

\* All of the state: server-app.cpp with its session layer and its clients.
THEOREM ServerInvariant == Spec => []ServerInv
<1>1. Init => ServerInv
  BY ServerInvInit
<1> QED
  BY <1>1, ServerInvStep, PTL DEF Spec

\* The type invariant.
THEOREM ServerTypeCorrect == Spec => []TypeOK
<1>1. ServerInv => TypeOK
  BY DEF ServerInv, Held, TypeOK
<1> QED
  BY <1>1, ServerInvariant, PTL

\* The session layer and the clients agree on whether the default session is active,
\* whichever requests, losses and timeouts lead there (session-control.cpp:110-137,
\* uds-app-manager.cpp:19-33, 53-61, 122-126, session-client.cpp:41-43, 61-67).
THEOREM SessionsStayTogether == Spec => []SessionsAgree
<1>1. ServerInv => SessionsAgree
  BY DEF ServerInv, Held, Agree, SessionsAgree
<1> QED
  BY <1>1, ServerInvariant, PTL

\* The enhanced timing mode never lacks a timer that ends it (session-control.cpp:5-29,
\* 36-47).
THEOREM EtmAlwaysGuarded == Spec => []EtmGuarded
<1>1. ServerInv => EtmGuarded
  BY DEF ServerInv, Held, EtmGuarded
<1> QED
  BY <1>1, ServerInvariant, PTL

\* While a response is pending its context is not touched (session-control.h:39,
\* session-control.cpp:58-71, uds-app-manager.cpp:74-81, 149-153).
THEOREM PendingContextKept == Spec => []PendingKeepsContext
<1>1. ServerInv => PendingKeepsContext
  BY DEF ServerInv, Held, PendingKeepsContext
<1> QED
  BY <1>1, ServerInvariant, PTL

-----------------------------------------------------------------------------
\* A session can end, as long as no reception breaks off unnoticed: ReceptionBroken
\* leaves S3 stopped.
LEMMA SessionCanEndStep ==
  ASSUME ~RxMayBreak, ServerInv, SessionCanEnd, [Next]_vars
  PROVE  SessionCanEnd'
<1> USE DEF ServerInv
<1>1. SessionCanEnd <=> Live(server) \/ rx = "ACTIVE"
  BY DEF SessionCanEnd, Live
<1>2. Live(server') \/ rx' = "ACTIVE" => SessionCanEnd'
  BY DEF SessionCanEnd, Live
<1>3. CASE Transport
  <2>1. CASE FirstFrame
    BY <1>2, <2>1 DEF FirstFrame
  <2>2. ASSUME NEW r \in Requests, Data(r) PROVE Live(server')
    <3>1. CASE AcceptRequest(r)
      BY <3>1, DataHeld
    <3>2. CASE IgnoreRequest(r)
      <4>1. server.p2.active
        BY <3>2 DEF IgnoreRequest, Accepts, Held
      <4>2. server' = Quiet /\ Mode(Quiet) = Mode(server)
        BY <3>2, HeldQuiet DEF IgnoreRequest
      <4> QED
        BY <4>1, <4>2 DEF Live, Mode
    <3>3. CASE LoseInDidKeeper(r)
      BY <3>3, LostHeld
    <3> QED
      BY <2>2, <3>1, <3>2, <3>3 DEF Data
  <2>3. CASE ReceptionTimeout
    <3>1. Held(Quiet, pended)
      BY HeldQuiet
    <3> QED
      BY <1>2, <2>3, <3>1, ConfHeld DEF ReceptionTimeout
  <2>4. ASSUME NEW res, TxDone(res) PROVE SessionCanEnd'
    BY <1>1, <1>2, <2>4, TxDoneHeld DEF TxDone
  <2> QED
    BY <1>2, <1>3, <2>1, <2>2, <2>3, <2>4 DEF Transport, FromTester, ReceptionBroken
<1>4. CASE Process
  <2>1. rx' = rx
    BY <1>4 DEF Process, PollS3, PollP2, PollEtm, PollRoutine, Poll
  <2>2. Live(server) => Live(server')
    <3>1. CASE PollS3
      BY <3>1, PollS3Held
    <3>2. CASE PollP2
      BY <3>2, PollP2Held DEF PollP2, Poll, Can
    <3>3. CASE PollEtm
      BY <3>3, PollEtmHeld DEF PollEtm, Poll, Can
    <3>4. CASE PollRoutine
      BY <3>4, PollRoutineHeld DEF PollRoutine, Poll, Can
    <3> QED
      BY <1>4, <3>1, <3>2, <3>3, <3>4 DEF Process
  <2> QED
    BY <1>1, <1>2, <2>1, <2>2
<1>5. CASE SetActiveMode
  BY <1>1, <1>2, <1>5, SetActiveModeHeld DEF SetActiveMode
<1>6. CASE ProcessTick
  BY <1>1, <1>2, <1>6, TickHeld DEF ProcessTick
<1>7. CASE UNCHANGED vars
  BY <1>7 DEF vars, SessionCanEnd
<1> QED
  BY <1>3, <1>4, <1>5, <1>6, <1>7 DEF Next

\* A non-default session always has a way to end, unless the transport layer breaks a
\* reception off without a timeout (session-control.cpp:8-18, 71-78, 81, 88-99, 138-141).
THEOREM SessionAlwaysCanEnd ==
  ASSUME ~RxMayBreak
  PROVE  Spec => []SessionCanEnd
<1>1. Init => SessionCanEnd
  <2>1. Init => Live(server)
    BY ServerInvInit
  <2> QED
    BY <2>1 DEF SessionCanEnd, Live
<1>2. ServerInv /\ SessionCanEnd /\ [Next]_vars => SessionCanEnd'
  BY SessionCanEndStep
<1> QED
  BY <1>1, <1>2, ServerInvariant, PTL DEF Spec
-----------------------------------------------------------------------------
(***************************************************************************)
(* What holds with timings like those of the code.                         *)
(***************************************************************************)

\* SetPending takes the keep-alive interval, a keep-alive message goes out before p2
\* ends the enhanced timing mode, the routine is over before that, and the main loop
\* comes round in every tick (1000 of 60000 ms, p2_enhanced 5000 ms, 15000 ms).
TimingsFit ==
    /\ PromptLoop
    /\ Fits
    /\ EtmInterval < p2_enhanced
    /\ RoutineTime < EtmDuration - EtmInterval + p2_enhanced

\* What is left of the enhanced timing mode when the keep-alive timer has run down.
Later(s) == IF s.etmDuration > EtmInterval THEN s.etmDuration - EtmInterval ELSE 0

\* The enhanced timing mode will outlast the routine: the keep-alive message comes
\* before the end of p2, and the answer of the routine before the end of all of it.
Covered(s) ==
    /\ s.isEtmActive
    /\ s.timeout.active
    /\ s.etmTim.period = EtmInterval
    /\ s.etmKeepAliveInterval = EtmInterval
    /\ IF s.etmDuration > 0
       THEN /\ s.etmTim.left < s.p2.left
            /\ s.timeout.left < s.etmTim.left + Later(s) + p2_enhanced
       ELSE s.timeout.left < s.p2.left

\* What the polls have dealt with when the main loop is at `at'.
InTime(s, at) ==
    /\ at # "lost"
    /\ at \in {"app", "ran"} /\ s.etmDuration > 0 => s.etmTim.left > 0
    /\ at = "ran" => s.timeout.left > 0

RoutineInv(s, at) ==
    /\ s.nrcPending <=> s.routinePending
    /\ s.routinePending => Covered(s) /\ InTime(s, at)

AnswerInv == RoutineInv(server, pc)

LEMMA TimerFields ==
  ASSUME NEW s \in Servers
  PROVE  /\ s.p2.left \in Nat /\ s.etmTim.left \in Nat /\ s.timeout.left \in Nat
         /\ s.etmDuration \in Nat /\ s.etmKeepAliveInterval \in Nat
         /\ s.nrcPending \in BOOLEAN /\ s.routinePending \in BOOLEAN
         /\ s.isEtmActive \in BOOLEAN
  BY DEF Servers, TimerType

LEMMA RoutineSame ==
  ASSUME NEW s \in Servers, NEW t \in Servers, NEW at, NEW to, RoutineInv(s, at),
         to = at \/ (at # "lost" /\ to \in {"idle", "p2", "etm"}),
         Etm(t) = Etm(s), Mode(t) = Mode(s),
         t.nrcPending = s.nrcPending, t.routinePending = s.routinePending,
         t.timeout = s.timeout
  PROVE  RoutineInv(t, to)
<1>1. /\ t.etmDuration = s.etmDuration /\ t.etmTim = s.etmTim
      /\ t.etmKeepAliveInterval = s.etmKeepAliveInterval
      /\ t.p2 = s.p2 /\ t.isEtmActive = s.isEtmActive
  BY DEF Etm, Mode
<1>2. Covered(s) => Covered(t)
  BY <1>1 DEF Covered, Later
<1>3. InTime(s, at) => InTime(t, to)
  BY <1>1 DEF InTime
<1> QED
  BY <1>2, <1>3 DEF RoutineInv

LEMMA RoutineQuiet ==
  ASSUME server \in Servers, NEW at, RoutineInv(server, at)
  PROVE  Quiet \in Servers /\ RoutineInv(Quiet, at)
<1>1. /\ Quiet \in Servers
      /\ Etm(Quiet) = Etm(server) /\ Mode(Quiet) = Mode(server)
      /\ Nrc(Quiet) = Nrc(server) /\ App(Quiet) = App(server)
  BY QuietEffect
<1>2. /\ Quiet.nrcPending = server.nrcPending /\ Quiet.routinePending = server.routinePending
      /\ Quiet.timeout = server.timeout
  BY <1>1 DEF Nrc, App
<1> DEFINE q == Quiet
<1>3. /\ q \in Servers
      /\ Etm(q) = Etm(server) /\ Mode(q) = Mode(server)
      /\ q.nrcPending = server.nrcPending /\ q.routinePending = server.routinePending
      /\ q.timeout = server.timeout
  BY <1>1, <1>2
<1> HIDE DEF q
<1>4. RoutineInv(q, at)
  BY <1>3, RoutineSame
<1> QED
  BY <1>1, <1>4 DEF q

\* p2 never runs down while a routine is at work.
LEMMA P2Waits ==
  ASSUME NEW s \in Servers, NEW at, RoutineInv(s, at), s.routinePending
  PROVE  ~HasElapsed(s.p2)
<1>1. s.p2.left > 0
  BY TimerFields DEF RoutineInv, Covered
<1> QED
  BY <1>1, TimerFields DEF HasElapsed

LEMMA P2TimerRoutine ==
  ASSUME NEW s \in Servers, RoutineInv(s, "p2"), s.isEtmActive => s.etmSi \in Sids,
         NEW can \in BOOLEAN
  PROVE  RoutineInv(ProcessP2Timer(s, can), "etm")
<1> DEFINE t == ProcessP2Timer(s, can)
<1>1. /\ t \in Servers /\ Nrc(t) = Nrc(s) /\ App(t) = App(s)
      /\ ~HasElapsed(s.p2) => t = s
  BY P2TimerEffect
<1> HIDE DEF t
<1>2. t.nrcPending = s.nrcPending /\ t.routinePending = s.routinePending
  BY <1>1 DEF Nrc, App
<1>3. CASE s.routinePending
  <2>1. t = s
    BY <1>1, <1>3, P2Waits
  <2>2. RoutineInv(s, "etm")
    BY <1>3 DEF RoutineInv, InTime
  <2> QED
    BY <2>1, <2>2 DEF t
<1>4. CASE ~s.routinePending
  BY <1>2, <1>4 DEF RoutineInv, t
<1> QED
  BY <1>3, <1>4

LEMMA EtmTimerRoutine ==
  ASSUME TimingsFit, NEW s \in Servers, RoutineInv(s, "etm"),
         s.isEtmActive => s.etmSi \in Sids /\ (s.etmDuration > 0 => s.etmTim.active),
         s.etmTim.endless, NEW can \in BOOLEAN
  PROVE  RoutineInv(ProcessEtm(s, can), "app")
<1> DEFINE t == ProcessEtm(s, can)
<1>1. /\ t \in Servers /\ Nrc(t) = Nrc(s) /\ App(t) = App(s)
      /\ t.isEtmActive = s.isEtmActive
      /\ ~EtmExpires(s) => t = s
      /\ EtmExpires(s) =>
           /\ t.p2 = StartTimer(s.p2, p2_enhanced)
           /\ t.etmDuration = EtmLeft(s)
           /\ t.etmKeepAliveInterval = s.etmKeepAliveInterval
           /\ t.etmTim.period = s.etmTim.period
           /\ t.etmDuration > 0 => t.etmTim.left = s.etmTim.period
  BY EtmTimerEffect
<1> HIDE DEF t
<1>2. /\ t.nrcPending = s.nrcPending /\ t.routinePending = s.routinePending
      /\ t.timeout = s.timeout
  BY <1>1 DEF Nrc, App
<1>3. CASE ~s.routinePending
  BY <1>2, <1>3 DEF RoutineInv, t
<1>4. CASE s.routinePending /\ ~EtmExpires(s)
  <2>1. s.etmDuration > 0 => s.etmTim.left > 0
    BY <1>4, TimerFields DEF EtmExpires, HasElapsed, RoutineInv, Covered
  <2>2. RoutineInv(s, "app")
    BY <1>4, <2>1 DEF RoutineInv, InTime
  <2> QED
    BY <1>1, <1>4, <2>2 DEF t
<1>5. CASE s.routinePending /\ EtmExpires(s)
  <2>1. Covered(s) /\ s.etmTim.left = 0 /\ s.etmDuration \in Nat /\ s.etmDuration > 0
    BY <1>5, TimerFields DEF RoutineInv, EtmExpires, HasElapsed
  <2>2. /\ s.timeout.left < Later(s) + p2_enhanced
        /\ s.etmTim.period = EtmInterval /\ s.etmKeepAliveInterval = EtmInterval
        /\ s.isEtmActive /\ s.timeout.active
    BY <2>1, TimerFields DEF Covered, Later
  <2>3. t.etmDuration = Later(s) /\ t.p2.left = p2_enhanced
    BY <1>1, <1>5, <2>2 DEF EtmLeft, Later, StartTimer
  <2>4. CASE Later(s) = 0
    <3>1. t.timeout.left < t.p2.left
      BY <1>2, <2>2, <2>3, <2>4, TimerFields
    <3>2. Covered(t)
      BY <1>1, <1>2, <1>5, <2>2, <2>3, <2>4, <3>1 DEF Covered
    <3>3. InTime(t, "app")
      BY <2>3, <2>4 DEF InTime
    <3> QED
      BY <1>2, <3>2, <3>3 DEF RoutineInv, t
  <2>5. CASE Later(s) > 0
    <3>1. t.etmTim.left = EtmInterval
      BY <1>1, <1>5, <2>2, <2>3, <2>5
    <3>2. Later(t) >= Later(s) - EtmInterval /\ Later(t) \in Nat /\ Later(s) \in Nat
      BY <1>1, <2>1, <2>3, TimerFields DEF Later
    <3>3. t.timeout.left < EtmInterval + Later(t) + p2_enhanced
      BY <1>2, <2>2, <3>2, TimerFields
    <3>4. EtmInterval < p2_enhanced /\ EtmInterval > 0
      BY DEF TimingsFit, Fits
    <3>5. Covered(t)
      BY <1>1, <1>2, <1>5, <2>2, <2>3, <2>5, <3>1, <3>3, <3>4 DEF Covered
    <3>6. InTime(t, "app")
      BY <3>1, <3>4 DEF InTime
    <3> QED
      BY <1>2, <3>5, <3>6 DEF RoutineInv, t
  <2>6. Later(s) = 0 \/ Later(s) > 0
    BY <2>1 DEF Later
  <2> QED
    BY <2>4, <2>5, <2>6
<1> QED
  BY <1>3, <1>4, <1>5

LEMMA PollRoutineRoutine ==
  ASSUME NEW s \in Servers, RoutineInv(s, "app"), NEW can \in BOOLEAN
  PROVE  RoutineInv(ProcessRoutine(s, can), "ran")
<1> DEFINE t == ProcessRoutine(s, can)
<1>1. /\ ~RoutineEnds(s) => t = s
      /\ RoutineEnds(s) => ~t.nrcPending /\ ~t.routinePending
  BY RoutineEffect
<1> HIDE DEF t
<1>2. CASE RoutineEnds(s)
  BY <1>1, <1>2 DEF RoutineInv, t
<1>3. CASE ~RoutineEnds(s)
  <2>1. s.routinePending => s.timeout.left > 0
    BY <1>3, TimerFields DEF RoutineEnds, HasElapsed, RoutineInv, Covered
  <2>2. RoutineInv(s, "ran")
    BY <2>1 DEF RoutineInv, InTime
  <2> QED
    BY <1>1, <1>3, <2>2 DEF t
<1> QED
  BY <1>2, <1>3

LEMMA TickedTimer ==
  ASSUME NEW P, NEW tim \in TimerType(P)
  PROVE  /\ Ticked(tim).active = tim.active /\ Ticked(tim).period = tim.period
         /\ tim.left > 0 => Ticked(tim).left = tim.left - 1
  BY DEF Ticked, TimerType

LEMMA TickRoutine ==
  ASSUME NEW s \in Servers, NEW at \in {"ran", "lost"}, RoutineInv(s, at), NEW to,
         at = "ran" => to = "idle"
  PROVE  RoutineInv([TickSession(s) EXCEPT !.timeout = Ticked(@)], to)
<1> DEFINE t == [TickSession(s) EXCEPT !.timeout = Ticked(@)]
<1>1. /\ t \in Servers /\ Nrc(t) = Nrc(s)
      /\ t.p2 = Ticked(s.p2) /\ t.etmTim = Ticked(s.etmTim) /\ t.timeout = Ticked(s.timeout)
      /\ t.isEtmActive = s.isEtmActive /\ t.etmDuration = s.etmDuration
      /\ t.etmKeepAliveInterval = s.etmKeepAliveInterval
      /\ t.routinePending = s.routinePending
  BY TickEffect
<1> HIDE DEF t
<1>2. t.nrcPending = s.nrcPending
  BY <1>1 DEF Nrc
<1>3. CASE ~s.routinePending
  BY <1>1, <1>2, <1>3 DEF RoutineInv, t
<1>4. CASE s.routinePending
  <2>1. Covered(s) /\ InTime(s, at) /\ at = "ran" /\ to = "idle"
    BY <1>4 DEF RoutineInv, InTime
  <2>2. s.timeout.left > 0 /\ s.p2.left > 0 /\ (s.etmDuration > 0 => s.etmTim.left > 0)
    BY <2>1, TimerFields DEF InTime, Covered
  <2>3. /\ s.timeout \in TimerType({RoutineTime}) /\ s.etmTim \in TimerType({0, EtmInterval})
        /\ s.p2 \in TimerType({0, p2_max, p2_enhanced})
    BY DEF Servers
  <2>4. /\ t.timeout.left = s.timeout.left - 1 /\ t.timeout.active = s.timeout.active
        /\ t.p2.left = s.p2.left - 1
        /\ s.etmDuration > 0 => t.etmTim.left = s.etmTim.left - 1
    BY <1>1, <2>2, <2>3, TickedTimer
  <2>5. t.etmTim.period = s.etmTim.period
    BY <1>1, <2>3, TickedTimer
  <2>6. Later(t) = Later(s) /\ Later(s) \in Nat
    BY <1>1, TimerFields DEF Later
  <2>7. Covered(t)
    <3>1. CASE s.etmDuration > 0
      <4>1. t.etmTim.left < t.p2.left /\ t.timeout.left < t.etmTim.left + Later(t) + p2_enhanced
        BY <2>1, <2>4, <2>6, <3>1, TimerFields DEF Covered
      <4> QED
        BY <1>1, <2>1, <2>4, <2>5, <3>1, <4>1 DEF Covered
    <3>2. CASE ~(s.etmDuration > 0)
      <4>1. t.timeout.left < t.p2.left
        BY <2>1, <2>4, <3>2, TimerFields DEF Covered
      <4> QED
        BY <1>1, <2>1, <2>4, <2>5, <3>2, <4>1 DEF Covered
    <3> QED
      BY <3>1, <3>2
  <2>8. InTime(t, to)
    BY <2>1 DEF InTime
  <2> QED
    BY <1>1, <1>2, <1>4, <2>7, <2>8 DEF RoutineInv, t
<1> QED
  BY <1>3, <1>4
\* A request that is accepted: answered, or a routine is started that the enhanced
\* timing mode will outlast.
LEMMA AcceptRoutine ==
  ASSUME TimingsFit, ServerInv, AnswerInv, NEW r \in Requests, AcceptRequest(r)
  PROVE  \/ /\ Answering(server', FALSE)
            /\ ~server'.routinePending /\ ~server'.nrcPending
            /\ OneAnswer(r) => Len(server'.out) <= 1
         \/ /\ server'.nrcPending /\ server'.routinePending
            /\ Covered(server')
            /\ server'.etmDuration > 0 => server'.etmTim.left > 0
            /\ server'.timeout.left > 0
            /\ \A i \in DOMAIN server'.out : server'.out[i].code = "RCRRP"
<1> PICK can \in Can : server' = OnData(Quiet, r, can)
  BY DEF AcceptRequest
<1>1. can \in BOOLEAN
  BY DEF Can
<1> DEFINE u == StartP2(Quiet)
           t == OnSessIndication(u, r, can)
           FP == FALSE
<1>2. Held(server, pended) /\ server \in Servers /\ ~server.isEtmActive
  BY DEF ServerInv, Held, AcceptRequest, Accepts
<1>3. ~server.nrcPending /\ ~server.routinePending
  BY <1>2, TimerFields DEF AnswerInv, RoutineInv, Covered
<1>4. /\ Ready(u, FP)
      /\ Etm(u) = Etm(server) /\ Nrc(u) = Nrc(server) /\ App(u) = App(server)
  <2> DEFINE P(pending) == (server.nrcPending => pending) =>
                              /\ Ready(u, pending)
                              /\ Etm(u) = Etm(server) /\ Nrc(u) = Nrc(server)
                              /\ App(u) = App(server)
  <2>1. \A pending \in BOOLEAN : P(pending)
    BY <1>2, AcceptEffect
  <2> HIDE DEF P
  <2>2. P(FALSE)
    BY <2>1
  <2> QED
    BY <1>3, <2>2 DEF P
<1>5. server' = t
  <2>1. Mode(Quiet) = Mode(server)
    BY <1>2, HeldQuiet
  <2>2. ~Quiet.isEtmActive
    BY <1>2, <2>1 DEF Mode
  <2> QED
    BY <2>2 DEF OnData, Accepts
<1>6. ~u.routinePending /\ u \in Servers
  BY <1>3, <1>4 DEF App, Ready
<1>7. FP \in BOOLEAN
  OBVIOUS
<1> HIDE DEF u, FP
<1>8. CASE ~StartsRoutine(u, r)
  <2>1. /\ Answering(t, FP)
        /\ t.routinePending = u.routinePending
        /\ OneAnswer(r) => Len(t.out) <= 1
    BY <1>1, <1>4, <1>7, <1>8, IndicationAnswers
  <2> HIDE DEF t
  <2>2. ~t.nrcPending
    BY <2>1 DEF Answering, FP
  <2> QED
    BY <1>5, <1>6, <2>1, <2>2 DEF FP
<1>9. CASE StartsRoutine(u, r)
  <2>1. Fits
    BY DEF TimingsFit
  <2>2. /\ t \in Servers
        /\ t.nrcPending /\ t.routinePending
        /\ t.timeout = RestartTimer(u.timeout)
        /\ t.isEtmActive
        /\ t.p2 = StartTimer(u.p2, p2_enhanced)
        /\ t.etmTim = StartTimer(u.etmTim, EtmInterval)
        /\ t.etmKeepAliveInterval = EtmInterval
        /\ t.etmDuration = EtmDuration - EtmInterval
        /\ \/ t.out = <<>>
           \/ \E msg \in Messages : msg.code = "RCRRP" /\ t.out = <<msg>>
    BY <1>1, <1>4, <1>7, <1>9, <2>1, RoutineStarts
  <2> HIDE DEF t
  <2>3. u.timeout.period = RoutineTime
    BY <1>6 DEF Servers, TimerType
  <2>4. /\ t.timeout.left = RoutineTime /\ t.timeout.active
        /\ t.p2.left = p2_enhanced
        /\ t.etmTim.left = EtmInterval /\ t.etmTim.period = EtmInterval
    BY <2>2, <2>3 DEF RestartTimer, StartTimer
  <2>5. EtmInterval < p2_enhanced /\ EtmInterval > 0 /\ RoutineTime > 0
        /\ RoutineTime < EtmDuration - EtmInterval + p2_enhanced
    BY DEF TimingsFit, Fits
  <2>6. Covered(t)
    <3>1. CASE t.etmDuration > 0
      <4>1. t.timeout.left < t.etmTim.left + Later(t) + p2_enhanced
        BY <2>2, <2>4, <2>5, <3>1, TimerFields DEF Later
      <4> QED
        BY <2>2, <2>4, <2>5, <3>1, <4>1 DEF Covered
    <3>2. CASE ~(t.etmDuration > 0)
      <4>1. EtmDuration - EtmInterval = 0
        BY <2>2, <3>2, TimerFields
      <4>2. t.timeout.left < t.p2.left
        BY <2>4, <2>5, <4>1
      <4> QED
        BY <2>2, <2>4, <3>2, <4>2 DEF Covered
    <3> QED
      BY <3>1, <3>2
  <2>7. \A i \in DOMAIN t.out : t.out[i].code = "RCRRP"
    BY <2>2
  <2> QED
    BY <1>5, <2>2, <2>4, <2>5, <2>6, <2>7
<1> QED
  BY <1>8, <1>9

LEMMA AnswerInvInit == Init => AnswerInv
  BY DEF Init, NewServer, AnswerInv, RoutineInv

LEMMA AnswerInvStep ==
  ASSUME TimingsFit, ServerInv, AnswerInv, [Next]_vars
  PROVE  AnswerInv'
<1> DEFINE q == Quiet
<1>1. /\ Held(q, pended) /\ q \in Servers /\ q.out = <<>>
      /\ Mode(q) = Mode(server) /\ RoutineInv(q, pc)
  BY HeldQuiet, RoutineQuiet DEF ServerInv, Held, AnswerInv
<1>2. /\ q.isEtmActive => /\ q.etmSi \in Sids
                          /\ q.etmDuration > 0 => q.etmTim.active
      /\ q.etmTim.endless /\ Agree(q)
  BY <1>1 DEF Held, Sids
<1>3. ASSUME NEW t, t = server', t \in Servers,
             Etm(t) = Etm(q), Mode(t) = Mode(q), t.nrcPending = q.nrcPending,
             t.routinePending = q.routinePending, t.timeout = q.timeout,
             pc' = pc \/ (pc # "lost" /\ pc' \in {"idle", "p2", "etm"})
      PROVE  AnswerInv'
  <2> HIDE DEF q
  <2> DEFINE at == pc
             to == pc'
  <2>1. RoutineInv(q, at) /\ (to = at \/ (at # "lost" /\ to \in {"idle", "p2", "etm"}))
    BY <1>1, <1>3
  <2> HIDE DEF at, to
  <2>2. RoutineInv(t, to)
    BY <1>1, <1>3, <2>1, RoutineSame
  <2> QED
    BY <1>3, <2>2 DEF AnswerInv, to
<1>4. ASSUME server' = q, pc' = pc PROVE AnswerInv'
  BY <1>1, <1>4 DEF AnswerInv
<1>5. CASE Transport
  <2>1. CASE FirstFrame
    <3> DEFINE t == OnDataFF(q)
    <3>1. server' = t /\ pc' = pc
      BY <2>1 DEF FirstFrame
    <3> HIDE DEF q
    <3>2. /\ t \in Servers
          /\ Etm(t) = Etm(q) /\ Mode(t) = Mode(q) /\ Nrc(t) = Nrc(q) /\ App(t) = App(q)
      BY <1>1, FirstFrameEffect
    <3> HIDE DEF t
    <3> QED
      BY <1>3, <3>1, <3>2 DEF Nrc, App
  <2>2. ASSUME NEW r \in Requests, Data(r) PROVE AnswerInv'
    <3>1. CASE AcceptRequest(r)
      <4>1. pc' = pc /\ pc \in {"idle", "ran"}
        BY <3>1 DEF AcceptRequest, InLoop
      <4>2. CASE ~server'.routinePending /\ ~server'.nrcPending
        BY <4>2 DEF AnswerInv, RoutineInv
      <4>3. CASE /\ server'.nrcPending /\ server'.routinePending
                 /\ Covered(server')
                 /\ server'.etmDuration > 0 => server'.etmTim.left > 0
                 /\ server'.timeout.left > 0
        BY <4>1, <4>3 DEF AnswerInv, RoutineInv, InTime
      <4> QED
        BY <3>1, <4>2, <4>3, AcceptRoutine
    <3>2. CASE IgnoreRequest(r)
      BY <1>4, <3>2 DEF IgnoreRequest
    <3>3. CASE LoseInDidKeeper(r)
      <4>1. ~server.isEtmActive /\ server \in Servers /\ Held(server, pended)
        BY <3>3 DEF LoseInDidKeeper, Accepts, ServerInv, Held
      <4>2. ~server.nrcPending /\ ~server.routinePending
        BY <4>1, TimerFields DEF AnswerInv, RoutineInv, Covered
      <4>3. ~server'.nrcPending /\ ~server'.routinePending
        <5> DEFINE u == StartP2(Quiet)
                   x == Cleared(u, r)
                   FP == FALSE
        <5>1. server' = x
          BY <3>3 DEF LoseInDidKeeper
        <5>2. Ready(u, FP) /\ App(u) = App(server)
          <6> DEFINE P(pending) == (server.nrcPending => pending) =>
                                      Ready(u, pending) /\ App(u) = App(server)
          <6>1. \A pending \in BOOLEAN : P(pending)
            BY <4>1, AcceptEffect
          <6> HIDE DEF P
          <6>2. P(FALSE)
            BY <6>1
          <6> QED
            BY <4>2, <6>2 DEF P
        <5>3. FP \in BOOLEAN
          OBVIOUS
        <5> HIDE DEF u, FP
        <5>4. x \in {Asked(u, r), Cleared(u, r)}
          OBVIOUS
        <5> HIDE DEF x
        <5>5. Answering(x, FP) /\ x.routinePending = u.routinePending
          BY <5>2, <5>3, <5>4, AskedAnswers
        <5> QED
          BY <4>2, <5>1, <5>2, <5>5 DEF Answering, App, FP
      <4> QED
        BY <4>3 DEF AnswerInv, RoutineInv
    <3> QED
      BY <2>2, <3>1, <3>2, <3>3 DEF Data
  <2>3. ASSUME NEW s \in Servers, Etm(s) = Etm(q), Mode(s) = Mode(q), Nrc(s) = Nrc(q),
               App(s) = App(q), NEW res, server' = OnConf(s, res), pc' = pc
        PROVE  AnswerInv'
    <3> DEFINE t == OnConf(s, res)
    <3>1. /\ t \in Servers
          /\ Etm(t) = Etm(s) /\ Mode(t) = Mode(s) /\ Nrc(t) = Nrc(s) /\ App(t) = App(s)
      BY OnConfEffect
    <3>2. server' = t
      BY <2>3
    <3> HIDE DEF t, q
    <3> QED
      BY <1>3, <2>3, <3>1, <3>2 DEF Nrc, App
  <2>4. CASE ReceptionTimeout
    <3>1. server' = OnConf(q, "TIMEOUT_Cr") /\ pc' = pc
      BY <2>4 DEF ReceptionTimeout
    <3> HIDE DEF q
    <3> QED
      BY <1>1, <2>3, <3>1
  <2>5. CASE ReceptionBroken
    BY <1>4, <2>5 DEF ReceptionBroken
  <2>6. ASSUME NEW res, TxDone(res) PROVE AnswerInv'
    <3> DEFINE s == [q EXCEPT !.tx = FALSE]
    <3>1. server' = OnConf(s, res) /\ pc' = pc
      BY <2>6 DEF TxDone
    <3> HIDE DEF q
    <3>2. /\ s \in Servers
          /\ Etm(s) = Etm(q) /\ Mode(s) = Mode(q) /\ Nrc(s) = Nrc(q) /\ App(s) = App(q)
      BY <1>1 DEF Servers, Etm, Mode, Nrc, App
    <3> HIDE DEF s
    <3> QED
      BY <2>3, <3>1, <3>2
  <2> QED
    BY <1>5, <2>1, <2>2, <2>4, <2>5, <2>6 DEF Transport, FromTester
<1>6. CASE Process
  <2>1. CASE PollS3
    <3> DEFINE t == ProcessS3Timer(q)
    <3>1. server' = t /\ pc' = "p2" /\ pc # "lost"
      BY <2>1 DEF PollS3, InLoop
    <3> HIDE DEF q
    <3>2. /\ t \in Servers /\ t.nrcPending = q.nrcPending
          /\ Etm(t) = Etm(q) /\ Mode(t) = Mode(q) /\ App(t) = App(q)
      BY <1>1, <1>2, S3TimerEffect
    <3> HIDE DEF t
    <3> QED
      BY <1>3, <3>1, <3>2 DEF App
  <2>2. CASE PollP2
    <3>1. PICK can \in BOOLEAN : server' = ProcessP2Timer(q, can)
      BY <2>2 DEF PollP2, Poll, Can
    <3>2. pc = "p2" /\ pc' = "etm"
      BY <2>2 DEF PollP2, Poll
    <3> HIDE DEF q
    <3>3. RoutineInv(ProcessP2Timer(q, can), "etm")
      BY <1>1, <1>2, <3>2, P2TimerRoutine
    <3> QED
      BY <3>1, <3>2, <3>3 DEF AnswerInv
  <2>3. CASE PollEtm
    <3>1. PICK can \in BOOLEAN : server' = ProcessEtm(q, can)
      BY <2>3 DEF PollEtm, Poll, Can
    <3>2. pc = "etm" /\ pc' = "app"
      BY <2>3 DEF PollEtm, Poll
    <3> HIDE DEF q
    <3>3. RoutineInv(ProcessEtm(q, can), "app")
      BY <1>1, <1>2, <3>2, EtmTimerRoutine
    <3> QED
      BY <3>1, <3>2, <3>3 DEF AnswerInv
  <2>4. CASE PollRoutine
    <3>1. PICK can \in BOOLEAN : server' = ProcessRoutine(q, can)
      BY <2>4 DEF PollRoutine, Poll, Can
    <3>2. pc = "app" /\ pc' = "ran"
      BY <2>4 DEF PollRoutine, Poll
    <3> HIDE DEF q
    <3>3. RoutineInv(ProcessRoutine(q, can), "ran")
      BY <1>1, <3>2, PollRoutineRoutine
    <3> QED
      BY <3>1, <3>2, <3>3 DEF AnswerInv
  <2> QED
    BY <1>6, <2>1, <2>2, <2>3, <2>4 DEF Process
<1>7. CASE SetActiveMode
  <2>1. PICK isactive \in BOOLEAN : server' = [q EXCEPT !.isManagerActive = isactive]
    BY <1>7 DEF SetActiveMode
  <2>2. pc' = pc
    BY <1>7 DEF SetActiveMode
  <2> DEFINE t == [q EXCEPT !.isManagerActive = isactive]
  <2> HIDE DEF q
  <2>3. /\ t \in Servers /\ t.nrcPending = q.nrcPending
        /\ t.routinePending = q.routinePending /\ t.timeout = q.timeout
        /\ Etm(t) = Etm(q) /\ Mode(t) = Mode(q)
    BY <1>1 DEF Servers, Etm, Mode
  <2> HIDE DEF t
  <2> QED
    BY <1>3, <2>1, <2>2, <2>3 DEF t
<1>8. CASE ProcessTick
  <2> DEFINE at == pc
             to == pc'
             t == [TickSession(q) EXCEPT !.timeout = Ticked(@)]
  <2>1. at \in {"ran", "lost"} /\ (at = "ran" => to = "idle") /\ server' = t
        /\ RoutineInv(q, at)
    BY <1>1, <1>8 DEF ProcessTick, TimingsFit
  <2> HIDE DEF q, at, to
  <2>2. RoutineInv([TickSession(q) EXCEPT !.timeout = Ticked(@)], to)
    BY <1>1, <2>1, TickRoutine
  <2> QED
    BY <2>1, <2>2 DEF AnswerInv, to
<1>9. CASE UNCHANGED vars
  BY <1>9 DEF vars, AnswerInv
<1> QED
  BY <1>5, <1>6, <1>7, <1>8, <1>9 DEF Next
\* The pending indicator stands for a routine at work (uds-app-manager.cpp:30, 149-153).
THEOREM PendingStandsForRoutine ==
  ASSUME TimingsFit
  PROVE  Spec => []PendingIffRoutine
<1>1. ServerInv /\ AnswerInv /\ [Next]_vars => AnswerInv'
  BY AnswerInvStep
<1>2. AnswerInv => PendingIffRoutine
  BY DEF AnswerInv, RoutineInv, PendingIffRoutine
<1> QED
  BY <1>1, <1>2, AnswerInvInit, ServerInvariant, PTL DEF Spec

-----------------------------------------------------------------------------
(* The messages of a step.                                                 *)

\* The steps that send nothing, and do not touch the enhanced timing mode.
QuietStep ==
    \/ FirstFrame
    \/ \E r \in Requests : IgnoreRequest(r)
    \/ ReceptionTimeout \/ ReceptionBroken
    \/ TxDone("OK_s") \/ TxDone("TIMEOUT_Bs")
    \/ PollS3 \/ SetActiveMode \/ ProcessTick
    \/ UNCHANGED vars

LEMMA QuietSteps ==
  ASSUME ServerInv, QuietStep, ~UNCHANGED vars
  PROVE  /\ server'.isEtmActive = server.isEtmActive
         /\ server'.out = <<>>
         /\ finals' = finals
<1> DEFINE q == Quiet
<1>1. /\ q \in Servers /\ q.out = <<>> /\ q.isEtmActive = server.isEtmActive /\ Agree(q)
  BY HeldQuiet DEF ServerInv, Held, Mode
<1>2. ASSUME NEW s \in Servers, s.out = <<>>, s.isEtmActive = q.isEtmActive,
             NEW res, server' = OnConf(s, res)
      PROVE  server'.isEtmActive = server.isEtmActive /\ server'.out = <<>>
  <2> DEFINE t == OnConf(s, res)
  <2>1. t \in Servers /\ Mode(t) = Mode(s) /\ Sent(t) = Sent(s)
    BY OnConfEffect
  <2>2. server' = t
    BY <1>2
  <2> HIDE DEF t, q
  <2> QED
    BY <1>1, <1>2, <2>1, <2>2 DEF Mode, Sent
<1>3. CASE FirstFrame
  <2> DEFINE t == OnDataFF(q)
  <2>1. server' = t /\ finals' = finals
    BY <1>3 DEF FirstFrame
  <2> HIDE DEF q
  <2>2. Mode(t) = Mode(q) /\ Sent(t) = Sent(q)
    BY <1>1, FirstFrameEffect
  <2> HIDE DEF t
  <2> QED
    BY <1>1, <2>1, <2>2 DEF Mode, Sent
<1>4. CASE \E r \in Requests : IgnoreRequest(r)
  BY <1>1, <1>4 DEF IgnoreRequest
<1>5. CASE ReceptionTimeout
  <2>1. server' = OnConf(q, "TIMEOUT_Cr") /\ finals' = finals
    BY <1>5 DEF ReceptionTimeout
  <2> HIDE DEF q
  <2> QED
    BY <1>1, <1>2, <2>1
<1>6. CASE ReceptionBroken
  BY <1>1, <1>6 DEF ReceptionBroken
<1>7. ASSUME NEW res, TxDone(res)
      PROVE  /\ server'.isEtmActive = server.isEtmActive /\ server'.out = <<>>
             /\ finals' = finals
  <2> DEFINE s == [q EXCEPT !.tx = FALSE]
  <2>1. server' = OnConf(s, res) /\ finals' = finals
    BY <1>7 DEF TxDone
  <2> HIDE DEF q
  <2>2. s \in Servers /\ s.out = <<>> /\ s.isEtmActive = q.isEtmActive
    BY <1>1 DEF Servers
  <2> HIDE DEF s
  <2> QED
    BY <1>2, <2>1, <2>2
<1>8. CASE PollS3
  <2> DEFINE t == ProcessS3Timer(q)
  <2>1. server' = t /\ finals' = finals
    BY <1>8 DEF PollS3
  <2> HIDE DEF q
  <2>2. Mode(t) = Mode(q) /\ Sent(t) = Sent(q)
    BY <1>1, S3TimerEffect
  <2> HIDE DEF t
  <2> QED
    BY <1>1, <2>1, <2>2 DEF Mode, Sent
<1>9. CASE SetActiveMode
  <2>1. PICK isactive \in BOOLEAN : server' = [q EXCEPT !.isManagerActive = isactive]
    BY <1>9 DEF SetActiveMode
  <2>2. finals' = finals
    BY <1>9 DEF SetActiveMode
  <2> HIDE DEF q
  <2> QED
    BY <1>1, <2>1, <2>2 DEF Servers
<1>10. CASE ProcessTick
  <2> DEFINE t == [TickSession(q) EXCEPT !.timeout = Ticked(@)]
  <2>1. server' = t /\ finals' = finals
    BY <1>10 DEF ProcessTick
  <2> HIDE DEF q
  <2>2. t.isEtmActive = q.isEtmActive /\ Sent(t) = Sent(q)
    BY <1>1, TickEffect
  <2> HIDE DEF t
  <2> QED
    BY <1>1, <2>1, <2>2 DEF Sent
<1> QED
  BY <1>3, <1>4, <1>5, <1>6, <1>7, <1>8, <1>9, <1>10 DEF QuietStep

\* The other steps, and all that they may send.
LEMMA SendingSteps ==
  ASSUME ServerInv, [Next]_vars, ~QuietStep
  PROVE  \/ \E r \in Requests : AcceptRequest(r)
         \/ \E r \in Requests : LoseInDidKeeper(r)
         \/ PollP2 \/ PollEtm \/ PollRoutine
  BY DEF Next, Transport, FromTester, Data, Process, QuietStep

LEMMA OneMessage ==
  ASSUME NEW msg \in Messages, NEW s \in Servers, s.out = <<>>, NEW t \in Servers,
         t.out = Append(s.out, msg)
  PROVE  Len(t.out) = 1 /\ DOMAIN t.out = {1} /\ t.out[1] = msg
  OBVIOUS

\* No answer in time: the enhanced timing mode ends with a negative response.
LEMMA PollP2Sends ==
  ASSUME ServerInv, PollP2
  PROVE  /\ server' \in Servers /\ Len(server'.out) <= 1
         /\ \A i \in DOMAIN server'.out : server'.out[i].code = "ENOA"
         /\ finals' = finals + Finals
         /\ \/ server'.out = <<>>
            \/ server.isEtmActive /\ ~server'.isEtmActive
         /\ server'.isEtmActive => server.isEtmActive
<1> DEFINE q == Quiet
<1>1. /\ q \in Servers /\ q.out = <<>> /\ q.isEtmActive = server.isEtmActive
      /\ q.isEtmActive => q.etmSi \in Sids
  BY HeldQuiet DEF ServerInv, Held, Mode, Sids
<1>2. PICK can \in BOOLEAN : server' = ProcessP2Timer(q, can)
  BY DEF PollP2, Poll, Can
<1>3. finals' = finals + Finals
  BY DEF PollP2, Poll
<1> HIDE DEF q
<1> DEFINE t == ProcessP2Timer(q, can)
<1>4. /\ t \in Servers
      /\ ~HasElapsed(q.p2) => t = q
      /\ HasElapsed(q.p2) => ~t.isEtmActive
      /\ \/ t.out = q.out
         \/ /\ q.isEtmActive
            /\ \E msg \in Messages : msg.code = "ENOA" /\ t.out = Append(q.out, msg)
  BY <1>1, P2TimerEffect
<1>5. server' = t
  BY <1>2
<1> HIDE DEF t
<1>6. CASE t.out = <<>>
  BY <1>1, <1>3, <1>4, <1>5, <1>6
<1>7. CASE t.out # <<>>
  <2>1. PICK msg \in Messages : msg.code = "ENOA" /\ t.out = Append(q.out, msg)
    BY <1>1, <1>4, <1>7
  <2>2. Len(t.out) = 1 /\ DOMAIN t.out = {1} /\ t.out[1] = msg
    BY <1>1, <1>4, <2>1, OneMessage
  <2>3. HasElapsed(q.p2) /\ q.isEtmActive
    BY <1>1, <1>4, <1>7
  <2> QED
    BY <1>1, <1>3, <1>4, <1>5, <2>1, <2>2, <2>3
<1> QED
  BY <1>6, <1>7

LEMMA PollEtmSends ==
  ASSUME ServerInv, PollEtm
  PROVE  /\ server' \in Servers
         /\ \A i \in DOMAIN server'.out : server'.out[i].code = "RCRRP"
         /\ finals' = finals + Finals
         /\ server'.isEtmActive = server.isEtmActive
<1> DEFINE q == Quiet
<1>1. /\ q \in Servers /\ q.out = <<>> /\ q.isEtmActive = server.isEtmActive
      /\ q.isEtmActive => q.etmSi \in Sids
      /\ q.etmTim.endless
  BY HeldQuiet DEF ServerInv, Held, Mode, Sids
<1>2. PICK can \in BOOLEAN : server' = ProcessEtm(q, can)
  BY DEF PollEtm, Poll, Can
<1>3. finals' = finals + Finals
  BY DEF PollEtm, Poll
<1> HIDE DEF q
<1> DEFINE t == ProcessEtm(q, can)
<1>4. /\ t \in Servers /\ t.isEtmActive = q.isEtmActive
      /\ \/ t.out = q.out
         \/ \E msg \in Messages : msg.code = "RCRRP" /\ t.out = Append(q.out, msg)
  BY <1>1, EtmTimerEffect
<1>5. server' = t
  BY <1>2
<1> HIDE DEF t
<1>6. CASE t.out = <<>>
  BY <1>1, <1>3, <1>4, <1>5, <1>6
<1>7. CASE t.out # <<>>
  <2>1. PICK msg \in Messages : msg.code = "RCRRP" /\ t.out = Append(q.out, msg)
    BY <1>1, <1>4, <1>7
  <2>2. Len(t.out) = 1 /\ DOMAIN t.out = {1} /\ t.out[1] = msg
    BY <1>1, <1>4, <2>1, OneMessage
  <2> QED
    BY <1>1, <1>3, <1>4, <1>5, <2>1, <2>2
<1> QED
  BY <1>6, <1>7

LEMMA PollRoutineSends ==
  ASSUME ServerInv, PollRoutine
  PROVE  /\ server' \in Servers /\ Len(server'.out) <= 1
         /\ \A i \in DOMAIN server'.out : server'.out[i].code = "PR"
         /\ finals' = finals + Finals
         /\ \/ server'.out = <<>> /\ (server'.isEtmActive => server.isEtmActive)
            \/ server.routinePending /\ ~server'.isEtmActive
<1> DEFINE q == Quiet
<1>1. /\ q \in Servers /\ q.out = <<>> /\ q.isEtmActive = server.isEtmActive
      /\ q.routinePending = server.routinePending
  BY HeldQuiet DEF ServerInv, Held, Mode, App
<1>2. PICK can \in BOOLEAN : server' = ProcessRoutine(q, can)
  BY DEF PollRoutine, Poll, Can
<1>3. finals' = finals + Finals
  BY DEF PollRoutine, Poll
<1> HIDE DEF q
<1> DEFINE t == ProcessRoutine(q, can)
<1>4. /\ t \in Servers
      /\ ~RoutineEnds(q) => t = q
      /\ RoutineEnds(q) =>
           \/ t.out = q.out /\ Mode(t) = Mode(q)
           \/ ~t.isEtmActive /\ \/ t.out = q.out
                                \/ \E msg \in Messages :
                                     msg.code = "PR" /\ t.out = Append(q.out, msg)
  BY <1>1, RoutineEffect
<1>5. server' = t
  BY <1>2
<1> HIDE DEF t
<1>6. t.isEtmActive => q.isEtmActive
  BY <1>4 DEF Mode
<1>7. CASE t.out = <<>>
  BY <1>1, <1>3, <1>4, <1>5, <1>6, <1>7
<1>8. CASE t.out # <<>>
  <2>1. PICK msg \in Messages : msg.code = "PR" /\ t.out = Append(q.out, msg)
    BY <1>1, <1>4, <1>8
  <2>2. Len(t.out) = 1 /\ DOMAIN t.out = {1} /\ t.out[1] = msg
    BY <1>1, <1>4, <2>1, OneMessage
  <2>3. RoutineEnds(q) /\ ~t.isEtmActive
    BY <1>1, <1>4, <1>8
  <2> QED
    BY <1>1, <1>3, <1>4, <1>5, <2>1, <2>2, <2>3 DEF RoutineEnds
<1> QED
  BY <1>7, <1>8
-----------------------------------------------------------------------------
\* No answer yet while a routine is waited for, and one at most.
OneInv ==
    /\ server.isEtmActive => finals = 0
    /\ finals <= 1

LEMMA OneInvStep ==
  ASSUME TimingsFit, \A r \in Requests : OneAnswer(r),
         ServerInv, AnswerInv, OneInv, [Next]_vars
  PROVE  OneInv'
<1>1. server.routinePending => server.isEtmActive
  BY DEF AnswerInv, RoutineInv, Covered
<1>2. finals \in Nat
  BY DEF ServerInv
<1>3. server' \in Servers =>
         /\ Finals \in Nat
         /\ Finals <= Len(server'.out)
         /\ (\A i \in DOMAIN server'.out : server'.out[i].code = "RCRRP") => Finals = 0
  BY FinalsType
<1>4. CASE UNCHANGED vars
  BY <1>4 DEF vars, OneInv
<1>5. CASE QuietStep /\ ~UNCHANGED vars
  BY <1>5, QuietSteps DEF OneInv
<1>6. ASSUME NEW r \in Requests, AcceptRequest(r) PROVE OneInv'
  <2>1. finals' = Finals /\ OneAnswer(r)
    BY <1>6 DEF AcceptRequest
  <2>2. server' \in Servers
    BY <1>6, DataHeld DEF ServerInv, Held
  <2>3. CASE Answering(server', FALSE) /\ (OneAnswer(r) => Len(server'.out) <= 1)
    <3>1. Len(server'.out) \in Nat
      BY <2>2 DEF Servers
    <3> QED
      BY <1>3, <2>1, <2>2, <2>3, <3>1 DEF OneInv, Answering
  <2>4. CASE \A i \in DOMAIN server'.out : server'.out[i].code = "RCRRP"
    BY <1>3, <2>1, <2>2, <2>4 DEF OneInv
  <2> QED
    BY <1>6, <2>3, <2>4, AcceptRoutine
<1>7. ASSUME NEW r \in Requests, LoseInDidKeeper(r) PROVE OneInv'
  BY <1>7 DEF LoseInDidKeeper, OneInv
<1>8. ASSUME server' \in Servers, finals' = finals + Finals, Len(server'.out) <= 1,
             \/ server'.out = <<>> /\ (server'.isEtmActive => server.isEtmActive)
             \/ server.isEtmActive /\ ~server'.isEtmActive
      PROVE  OneInv'
  <2>1. Len(server'.out) \in Nat /\ Finals \in Nat /\ Finals <= 1
    BY <1>3, <1>8 DEF Servers
  <2>2. CASE server'.out = <<>> /\ (server'.isEtmActive => server.isEtmActive)
    <3>1. Finals = 0
      BY <1>3, <1>8, <2>2
    <3> QED
      BY <1>2, <1>8, <2>2, <3>1 DEF OneInv
  <2>3. CASE server.isEtmActive /\ ~server'.isEtmActive
    BY <1>2, <1>8, <2>1, <2>3 DEF OneInv
  <2> QED
    BY <1>8, <2>2, <2>3
<1>9. CASE PollP2
  BY <1>8, <1>9, PollP2Sends
<1>10. CASE PollEtm
  <2>1. Finals = 0 /\ finals' = finals + Finals /\ server'.isEtmActive = server.isEtmActive
    BY <1>3, <1>10, PollEtmSends
  <2> QED
    BY <1>2, <2>1 DEF OneInv
<1>11. CASE PollRoutine
  BY <1>1, <1>8, <1>11, PollRoutineSends
<1> QED
  BY <1>4, <1>5, <1>6, <1>7, <1>9, <1>10, <1>11, SendingSteps

\* One final response at most, also when a routine answers late (session-control.cpp:5-18,
\* 36-47, 142-152, uds-app-manager.cpp:64-112, test-routine-server.h:38-49).
THEOREM RequestAnsweredOnce ==
  ASSUME TimingsFit, \A r \in Requests : OneAnswer(r)
  PROVE  Spec => []AnsweredOnce
<1>1. Init => OneInv
  BY DEF Init, NewServer, OneInv
<1>2. ServerInv /\ AnswerInv /\ [Next]_vars => AnswerInv'
  BY AnswerInvStep
<1>3. ServerInv /\ AnswerInv /\ OneInv /\ [Next]_vars => OneInv'
  BY OneInvStep
<1>4. OneInv => AnsweredOnce
  BY DEF OneInv, AnsweredOnce
<1> QED
  BY <1>1, <1>2, <1>3, <1>4, AnswerInvInit, ServerInvariant, PTL DEF Spec

\* A functionally addressed request that did not go pending is not answered with a silent
\* code (uds-app-manager.cpp:129-146, app-uds-response-allow-test.cpp:255-269).
THEOREM FunctionalRequestsSilent ==
  ASSUME TimingsFit
  PROVE  Spec => FunctionalSilent
<1> DEFINE A == \A i \in DOMAIN server'.out :
                  server'.out[i].code \in SilentCodes =>
                      server'.req.addr = "PHYS" \/ pended' = server'.req
<1>1. ServerInv /\ AnswerInv /\ [Next]_vars => AnswerInv'
  BY AnswerInvStep
<1>2. ServerInv /\ AnswerInv /\ [Next]_vars => [A]_vars
  <2> SUFFICES ASSUME ServerInv, AnswerInv, [Next]_vars, ~UNCHANGED vars PROVE A
    OBVIOUS
  <2>1. CASE QuietStep
    BY <2>1, QuietSteps
  <2>2. ASSUME NEW r \in Requests, AcceptRequest(r) PROVE A
    <3>1. CASE Answering(server', FALSE)
      BY <3>1 DEF Answering, Polite
    <3>2. CASE \A i \in DOMAIN server'.out : server'.out[i].code = "RCRRP"
      BY <3>2 DEF SilentCodes
    <3> QED
      BY <2>2, <3>1, <3>2, AcceptRoutine
  <2>3. ASSUME NEW r \in Requests, LoseInDidKeeper(r) PROVE A
    <3>1. server'.out = <<>>
      BY <2>3, LostHeld DEF ServerInv
    <3> QED
      BY <3>1
  <2>4. CASE PollP2
    BY <2>4, PollP2Sends DEF SilentCodes
  <2>5. CASE PollEtm
    BY <2>5, PollEtmSends DEF SilentCodes
  <2>6. CASE PollRoutine
    BY <2>6, PollRoutineSends DEF SilentCodes
  <2> QED
    BY <2>1, <2>2, <2>3, <2>4, <2>5, <2>6, SendingSteps
<1>3. FunctionalSilent <=> [][A]_vars
  BY DEF FunctionalSilent
<1> HIDE DEF A
<1> QED
  BY <1>1, <1>2, <1>3, AnswerInvInit, ServerInvariant, PTL DEF Spec

-----------------------------------------------------------------------------
(* The enhanced timing mode uses itself up.                                *)

\* An active mode has been started with an interval that SetPending takes
\* (session-control.cpp:20-29).
EtmPaced ==
    server.isEtmActive => Fits /\ server.etmKeepAliveInterval = EtmInterval

\* A step that stays in the enhanced timing mode either takes something off its duration
\* or leaves the duration and gives p2, which ends the mode, no time back: keep-alive
\* messages cannot put the end off for ever (session-control.cpp:5-29, 36-47, 138-152).
\* EtmEnds rests on this.
EtmRunsOut ==
    [][server.isEtmActive /\ server'.isEtmActive =>
          \/ server'.etmDuration < server.etmDuration
          \/ /\ server'.etmDuration = server.etmDuration
             /\ server'.p2 \in {server.p2, Ticked(server.p2)}]_vars

\* The mode as a step finds it, a tick apart.
EtmGoesOn(s, t) ==
    /\ t.isEtmActive = s.isEtmActive
    /\ t.p2 \in {s.p2, Ticked(s.p2)}
    /\ t.etmDuration = s.etmDuration
    /\ t.etmKeepAliveInterval = s.etmKeepAliveInterval

\* One more keep-alive message.
EtmRenewed(s, t) ==
    /\ s.etmDuration # 0
    /\ t.etmDuration = EtmLeft(s)
    /\ t.etmKeepAliveInterval = s.etmKeepAliveInterval

LEMMA EtmSame ==
  ASSUME NEW s, NEW t, Etm(t) = Etm(s), Mode(t) = Mode(s)
  PROVE  EtmGoesOn(s, t)
  BY DEF Etm, Mode, EtmGoesOn

LEMMA QuietEtm == ServerInv /\ QuietStep => EtmGoesOn(server, server')
<1> SUFFICES ASSUME ServerInv, QuietStep PROVE EtmGoesOn(server, server')
  OBVIOUS
<1> DEFINE q == Quiet
<1>1. /\ q \in Servers /\ Agree(q)
      /\ Etm(q) = Etm(server) /\ Mode(q) = Mode(server)
  BY HeldQuiet DEF ServerInv, Held
<1>2. ASSUME NEW t, server' = t, Etm(t) = Etm(q), Mode(t) = Mode(q)
      PROVE  EtmGoesOn(server, server')
  BY <1>1, <1>2, EtmSame
<1>3. ASSUME NEW s \in Servers, Etm(s) = Etm(q), Mode(s) = Mode(q), NEW res,
             server' = OnConf(s, res)
      PROVE  EtmGoesOn(server, server')
  <2> DEFINE t == OnConf(s, res)
  <2>1. Etm(t) = Etm(s) /\ Mode(t) = Mode(s)
    BY OnConfEffect
  <2>2. server' = t
    BY <1>3
  <2> HIDE DEF t, q
  <2> QED
    BY <1>2, <1>3, <2>1, <2>2
<1>4. CASE FirstFrame
  <2> DEFINE t == OnDataFF(q)
  <2>1. server' = t
    BY <1>4 DEF FirstFrame
  <2> HIDE DEF q
  <2>2. Etm(t) = Etm(q) /\ Mode(t) = Mode(q)
    BY <1>1, FirstFrameEffect
  <2> HIDE DEF t
  <2> QED
    BY <1>2, <2>1, <2>2
<1>5. CASE (\E r \in Requests : IgnoreRequest(r)) \/ ReceptionBroken
  BY <1>2, <1>5 DEF IgnoreRequest, ReceptionBroken
<1>6. CASE ReceptionTimeout
  <2>1. server' = OnConf(q, "TIMEOUT_Cr")
    BY <1>6 DEF ReceptionTimeout
  <2> HIDE DEF q
  <2> QED
    BY <1>1, <1>3, <2>1
<1>7. ASSUME NEW res, TxDone(res) PROVE EtmGoesOn(server, server')
  <2> DEFINE s == [q EXCEPT !.tx = FALSE]
  <2>1. server' = OnConf(s, res)
    BY <1>7 DEF TxDone
  <2> HIDE DEF q
  <2>2. s \in Servers /\ Etm(s) = Etm(q) /\ Mode(s) = Mode(q)
    BY <1>1 DEF Servers, Etm, Mode
  <2> HIDE DEF s
  <2> QED
    BY <1>3, <2>1, <2>2
<1>8. CASE PollS3
  <2> DEFINE t == ProcessS3Timer(q)
  <2>1. server' = t
    BY <1>8 DEF PollS3
  <2> HIDE DEF q
  <2>2. Etm(t) = Etm(q) /\ Mode(t) = Mode(q)
    BY <1>1, S3TimerEffect
  <2> HIDE DEF t
  <2> QED
    BY <1>2, <2>1, <2>2
<1>9. CASE SetActiveMode
  <2>1. PICK isactive \in BOOLEAN : server' = [q EXCEPT !.isManagerActive = isactive]
    BY <1>9 DEF SetActiveMode
  <2> DEFINE t == [q EXCEPT !.isManagerActive = isactive]
  <2> HIDE DEF q
  <2>2. Etm(t) = Etm(q) /\ Mode(t) = Mode(q)
    BY <1>1 DEF Servers, Etm, Mode
  <2> HIDE DEF t
  <2> QED
    BY <1>2, <2>1, <2>2 DEF t
<1>10. CASE ProcessTick
  <2> DEFINE t == [TickSession(q) EXCEPT !.timeout = Ticked(@)]
  <2>1. server' = t
    BY <1>10 DEF ProcessTick
  <2>2. /\ q.p2 = server.p2 /\ q.isEtmActive = server.isEtmActive
        /\ q.etmDuration = server.etmDuration
        /\ q.etmKeepAliveInterval = server.etmKeepAliveInterval
    BY <1>1 DEF Etm, Mode
  <2> HIDE DEF q
  <2>3. /\ t.p2 = Ticked(q.p2) /\ t.isEtmActive = q.isEtmActive
        /\ t.etmDuration = q.etmDuration
        /\ t.etmKeepAliveInterval = q.etmKeepAliveInterval
    BY <1>1, TickEffect
  <2> HIDE DEF t
  <2> QED
    BY <2>1, <2>2, <2>3 DEF EtmGoesOn
<1>11. CASE UNCHANGED vars
  BY <1>11, EtmSame DEF vars
<1> QED
  BY <1>4, <1>5, <1>6, <1>7, <1>8, <1>9, <1>10, <1>11 DEF QuietStep

\* What a step does to an active enhanced timing mode.
LEMMA EtmSteps ==
  ASSUME ServerInv, server.isEtmActive, [Next]_vars
  PROVE  \/ ~server'.isEtmActive
         \/ EtmGoesOn(server, server')
         \/ EtmRenewed(server, server')
<1> DEFINE q == Quiet
<1>1. /\ q \in Servers /\ q.etmTim.endless /\ (q.isEtmActive => q.etmSi \in Sids)
      /\ Etm(q) = Etm(server) /\ Mode(q) = Mode(server)
  BY HeldQuiet DEF ServerInv, Held, Sids
<1>2. CASE QuietStep
  BY <1>2, QuietEtm
<1>3. ASSUME NEW r \in Requests, AcceptRequest(r) \/ LoseInDidKeeper(r) PROVE FALSE
  BY <1>3 DEF AcceptRequest, LoseInDidKeeper, Accepts
<1>4. CASE PollP2
  <2>1. PICK can \in BOOLEAN : server' = ProcessP2Timer(q, can)
    BY <1>4 DEF PollP2, Poll, Can
  <2> DEFINE t == ProcessP2Timer(q, can)
  <2> HIDE DEF q
  <2>2. t = q \/ ~t.isEtmActive
    BY <1>1, P2TimerEffect
  <2> HIDE DEF t
  <2> QED
    BY <1>1, <2>1, <2>2, EtmSame DEF t
<1>5. CASE PollEtm
  <2>1. PICK can \in BOOLEAN : server' = ProcessEtm(q, can)
    BY <1>5 DEF PollEtm, Poll, Can
  <2> DEFINE t == ProcessEtm(q, can)
  <2>2. /\ q.etmDuration = server.etmDuration
        /\ q.etmKeepAliveInterval = server.etmKeepAliveInterval
    BY <1>1 DEF Etm
  <2> HIDE DEF q
  <2>3. /\ ~EtmExpires(q) => t = q
        /\ EtmExpires(q) => /\ t.etmDuration = EtmLeft(q)
                            /\ t.etmKeepAliveInterval = q.etmKeepAliveInterval
    BY <1>1, EtmTimerEffect
  <2>4. server' = t
    BY <2>1
  <2> HIDE DEF t
  <2>5. CASE ~EtmExpires(q)
    BY <1>1, <2>3, <2>4, <2>5, EtmSame
  <2>6. CASE EtmExpires(q)
    <3>1. EtmLeft(q) = EtmLeft(server)
      BY <2>2 DEF EtmLeft
    <3>2. server.etmDuration # 0
      BY <2>2, <2>6 DEF EtmExpires
    <3> QED
      BY <2>2, <2>3, <2>4, <2>6, <3>1, <3>2 DEF EtmRenewed
  <2> QED
    BY <2>5, <2>6
<1>6. CASE PollRoutine
  <2>1. PICK can \in BOOLEAN : server' = ProcessRoutine(q, can)
    BY <1>6 DEF PollRoutine, Poll, Can
  <2> DEFINE t == ProcessRoutine(q, can)
  <2> HIDE DEF q
  <2>2. Etm(t) = Etm(q) /\ (t = q \/ Mode(t) = Mode(q) \/ ~t.isEtmActive)
    BY <1>1, RoutineEffect
  <2> HIDE DEF t
  <2> QED
    BY <1>1, <2>1, <2>2, EtmSame DEF t
<1> QED
  BY <1>2, <1>3, <1>4, <1>5, <1>6, SendingSteps

\* The mode begins with a request that SetPending takes, and in no other way.
LEMMA EtmBegins ==
  ASSUME ServerInv, ~server.isEtmActive, server'.isEtmActive, [Next]_vars
  PROVE  Fits /\ server'.etmKeepAliveInterval = EtmInterval
<1> DEFINE q == Quiet
<1>1. /\ q \in Servers /\ q.etmTim.endless /\ ~q.isEtmActive
      /\ Held(server, pended)
  BY HeldQuiet DEF ServerInv, Held, Mode
<1>2. ~QuietStep
  BY QuietEtm DEF EtmGoesOn
<1>3. ASSUME NEW r \in Requests, AcceptRequest(r)
      PROVE  Fits /\ server'.etmKeepAliveInterval = EtmInterval
  <2> PICK can \in Can : server' = OnData(q, r, can)
    BY <1>3 DEF AcceptRequest
  <2> DEFINE u == StartP2(q)
             t == OnSessIndication(u, r, can)
             TP == TRUE
  <2>1. can \in BOOLEAN /\ TP \in BOOLEAN
    BY DEF Can
  <2>2. Ready(u, TP)
    <3> DEFINE P(pending) == (server.nrcPending => pending) => Ready(u, pending)
    <3>1. \A pending \in BOOLEAN : P(pending)
      BY <1>1, AcceptEffect
    <3> HIDE DEF P
    <3>2. P(TRUE)
      BY <3>1
    <3> QED
      BY <3>2 DEF P
  <2>3. server' = t
    BY <1>1 DEF OnData, Accepts
  <2> HIDE DEF u, TP
  <2>4. StartsRoutine(u, r)
    <3>1. SUFFICES ASSUME ~StartsRoutine(u, r) PROVE ~t.isEtmActive
      BY <2>3
    <3> QED
      BY <2>1, <2>2, <3>1, IndicationAnswers DEF Answering
  <2>5. /\ ~Fits => ~t.isEtmActive
        /\ Fits => t.etmKeepAliveInterval = EtmInterval
    BY <2>1, <2>2, <2>4, RoutineStarts
  <2> HIDE DEF t
  <2> QED
    BY <2>3, <2>5
<1>4. ASSUME NEW r \in Requests, LoseInDidKeeper(r) PROVE FALSE
  <2> DEFINE u == StartP2(q)
             t == Cleared(u, r)
             TP == TRUE
  <2>1. TP \in BOOLEAN
    OBVIOUS
  <2>2. Ready(u, TP)
    <3> DEFINE P(pending) == (server.nrcPending => pending) => Ready(u, pending)
    <3>1. \A pending \in BOOLEAN : P(pending)
      BY <1>1, AcceptEffect
    <3> HIDE DEF P
    <3>2. P(TRUE)
      BY <3>1
    <3> QED
      BY <3>2 DEF P
  <2>3. server' = t
    BY <1>4 DEF LoseInDidKeeper
  <2> HIDE DEF u, TP
  <2>4. ~t.isEtmActive
    BY <2>1, <2>2, AskedAnswers DEF Answering
  <2> QED
    BY <2>3, <2>4
<1>5. CASE PollP2
  <2>1. PICK can \in BOOLEAN : server' = ProcessP2Timer(q, can)
    BY <1>5 DEF PollP2, Poll, Can
  <2> DEFINE t == ProcessP2Timer(q, can)
  <2> HIDE DEF q
  <2>2. t = q \/ ~t.isEtmActive
    BY <1>1, P2TimerEffect
  <2> QED
    BY <1>1, <2>1, <2>2
<1>6. CASE PollEtm
  <2>1. PICK can \in BOOLEAN : server' = ProcessEtm(q, can)
    BY <1>6 DEF PollEtm, Poll, Can
  <2> HIDE DEF q
  <2>2. ProcessEtm(q, can) = q
    BY <1>1 DEF ProcessEtm, EtmExpires
  <2> QED
    BY <1>1, <2>1, <2>2
<1>7. CASE PollRoutine
  <2>1. PICK can \in BOOLEAN : server' = ProcessRoutine(q, can)
    BY <1>7 DEF PollRoutine, Poll, Can
  <2> DEFINE t == ProcessRoutine(q, can)
  <2> HIDE DEF q
  <2>2. t = q \/ Mode(t) = Mode(q) \/ ~t.isEtmActive
    BY <1>1, RoutineEffect
  <2> HIDE DEF t
  <2> QED
    BY <1>1, <2>1, <2>2 DEF Mode, t
<1> QED
  BY <1>2, <1>3, <1>4, <1>5, <1>6, <1>7, SendingSteps

LEMMA EtmPacedStep ==
  ASSUME ServerInv, EtmPaced, [Next]_vars
  PROVE  EtmPaced'
<1>1. CASE server.isEtmActive
  <2> SUFFICES ASSUME server'.isEtmActive
               PROVE  Fits /\ server'.etmKeepAliveInterval = EtmInterval
    BY DEF EtmPaced
  <2> QED
    BY <1>1, EtmSteps DEF EtmPaced, EtmGoesOn, EtmRenewed
<1>2. CASE ~server.isEtmActive
  BY <1>2, EtmBegins DEF EtmPaced
<1> QED
  BY <1>1, <1>2

\* The enhanced timing mode uses up its duration and then p2, for every duration
\* and interval, whatever the tester sends and the transport layer loses meanwhile
\* (session-control.cpp:5-29, 36-47, 138-152).
THEOREM EtmUsesItselfUp == Spec => EtmRunsOut
<1> DEFINE A == server.isEtmActive /\ server'.isEtmActive =>
                    \/ server'.etmDuration < server.etmDuration
                    \/ /\ server'.etmDuration = server.etmDuration
                       /\ server'.p2 \in {server.p2, Ticked(server.p2)}
<1>1. ASSUME ServerInv, EtmPaced, [Next]_vars PROVE A
  <2> SUFFICES ASSUME server.isEtmActive, server'.isEtmActive,
                      EtmRenewed(server, server')
               PROVE  server'.etmDuration < server.etmDuration
    BY <1>1, EtmSteps DEF EtmGoesOn
  <2>1. server.etmDuration \in Nat
    BY <1>1, TimerFields DEF ServerInv, Held
  <2>2. server.etmKeepAliveInterval = EtmInterval /\ EtmInterval > 0
    BY <1>1 DEF EtmPaced, Fits
  <2> QED
    BY <2>1, <2>2 DEF EtmRenewed, EtmLeft
<1>2. Init => EtmPaced
  BY DEF Init, NewServer, EtmPaced
<1>3. EtmRunsOut <=> [][A]_vars
  BY DEF EtmRunsOut
<1>4. ServerInv /\ EtmPaced /\ [Next]_vars => EtmPaced' /\ [A]_vars
  BY <1>1, EtmPacedStep
<1> HIDE DEF A
<1> QED
  BY <1>2, <1>3, <1>4, ServerInvariant, PTL DEF Spec

=============================================================================
