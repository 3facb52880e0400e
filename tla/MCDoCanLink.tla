----------------------------- MODULE MCDoCanLink -----------------------------
(* Small instance of DoCanLink: messages of all shapes over classic CAN.     *)
EXTENDS DoCanLink

CONSTANTS s, c, b, big

\* s fills a single frame; c needs one full consecutive frame; b needs three, a block and
\* a half, the last of them one byte short; big has no room at the receiving node.
MCMsgs == {s, c, b, big}
MCSize == [m \in Msgs |-> CASE m = s -> 7 [] m = c -> 13 [] m = b -> 26 [] m = big -> 28]

\* A frame at a time without pause, or blocks of two with a pause before each frame.
MCFlowParams == {<<0, 0>>, <<2, 1>>}

=============================================================================
