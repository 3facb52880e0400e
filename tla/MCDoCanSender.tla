---------------------------- MODULE MCDoCanSender ----------------------------
(* Small instance of DoCanSender.                                            *)
EXTENDS DoCanSender

CONSTANTS s, a, b, big

\* s is a single frame, a has one consecutive frame, b three (as many as there
\* are serial numbers), big exceeds the transmit buffer.
MCMsgs == {s, a, b, big}
MCFrames == [m \in Msgs |-> CASE m = s -> 1 [] m = a -> 2 [] m = b -> 4 [] m = big -> 5]

=============================================================================
