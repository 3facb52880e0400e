------------------------------ MODULE MCDoCanTp ------------------------------
(* One message each way, of three frames. *)
EXTENDS DoCanTp

CONSTANTS answer, request

MCTxMsgs == {answer}
MCRxMsgs == {request}
MCSize == [m \in {answer, request} |-> 20]

=============================================================================
