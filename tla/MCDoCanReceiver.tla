--------------------------- MODULE MCDoCanReceiver ---------------------------
(* Small instance of DoCanReceiver: frames of 4 bytes, of which a first      *)
(* frame carries 2 and a consecutive frame 3.                                *)
EXTENDS DoCanReceiver

CONSTANTS s, a, b, big

\* s fits a single frame, a needs one consecutive frame, b needs two (as many
\* as there are serial numbers), big exceeds the buffer.
MCMsgs == {s, a, b, big}
MCSize == [m \in Msgs |-> CASE m = s -> 2 [] m = a -> 4 [] m = b -> 8 [] m = big -> 11]

=============================================================================
