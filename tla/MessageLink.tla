----------------------------- MODULE MessageLink -----------------------------
(***************************************************************************)
(* What ISO-TP promises to its two clients (iso-tp-if.h, iso-tp-types.h):  *)
(* a channel that keeps messages in order and single, and loses one only   *)
(* if the bus lost a frame of it or the peer has no room for it.  A        *)
(* message arrives with its length and with all its bytes but those of its *)
(* first frame; with these too if it is a single frame, or the first       *)
(* message of several frames the peer has room for.  The code promises no  *)
(* more: the next one is put behind what came before it                    *)
(* (docan-receiver.cpp:53).                                                *)
(***************************************************************************)
EXTENDS Integers, Sequences

CONSTANTS
    Msgs, NoMsg,
    Short,    \* messages of a single frame
    TooLong   \* messages the peer has no room for

VARIABLES
    current,  \* the message being transmitted, NoMsg if none
    queue,    \* messages transmitted and not yet delivered
    got,      \* the latest message delivered, how much of it ("whole", or "tail" if
              \* its beginning may be wrong), and a bit that alternates
    lost,     \* the bus lost a frame since the latest request
    begun     \* number of messages of several frames asked for, without those that are
              \* too long

vars == <<current, queue, got, lost, begun>>

Nothing == <<NoMsg, "whole", 0>>

Init ==
    /\ current = NoMsg /\ queue = <<>>
    /\ got = Nothing /\ lost = FALSE /\ begun = 0

\* Request; a message of a single frame is transmitted at once.
\* Nothing that happened before is of interest once nothing is on its way.
NewRequest ==
    \/ UNCHANGED <<got, lost>>
    \/ queue = <<>> /\ lost' = FALSE /\ got' = Nothing

Ask(m) ==
    /\ m \notin Short
    /\ current' = m /\ NewRequest /\ UNCHANGED queue
    /\ begun' = IF m \in TooLong THEN begun ELSE begun + 1

AskShort(m) ==
    /\ m \in Short
    /\ current' = NoMsg /\ queue' = Append(queue, m) /\ NewRequest
    /\ UNCHANGED begun

Sent ==
    /\ current # NoMsg
    /\ queue' = Append(queue, current) /\ current' = NoMsg
    /\ UNCHANGED <<got, lost, begun>>

GiveUp ==
    /\ lost \/ current \in TooLong
    /\ current' = NoMsg
    /\ UNCHANGED <<queue, got, lost, begun>>

LoseFrame == lost' = TRUE /\ UNCHANGED <<current, queue, got, begun>>

LoseMessage ==
    /\ queue # <<>> /\ queue' = Tail(queue) /\ lost' = TRUE
    /\ UNCHANGED <<current, got, begun>>

\* The last frame of a message arrives that misses another frame.
Drop ==
    /\ lost /\ queue # <<>> /\ queue' = Tail(queue)
    /\ UNCHANGED <<current, got, lost, begun>>

Whole(m) == m \in Short \/ begun = 1

Deliver ==
    /\ queue # <<>>
    /\ \E part \in {"whole", "tail"} :
           /\ Whole(Head(queue)) => part = "whole"
           /\ got' = <<Head(queue), part, 1 - got[3]>>
    /\ queue' = Tail(queue)
    /\ UNCHANGED <<current, lost, begun>>

Next ==
    \/ \E m \in Msgs : Ask(m) \/ AskShort(m)
    \/ Sent \/ GiveUp \/ LoseFrame \/ LoseMessage \/ Drop \/ Deliver

Spec == Init /\ [][Next]_vars

=============================================================================
