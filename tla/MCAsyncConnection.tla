------------------------- MODULE MCAsyncConnection -------------------------
(* Values for model-checking AsyncConnection.                              *)
EXTENDS AsyncConnection

CONSTANTS l1, l2, l3

=============================================================================
