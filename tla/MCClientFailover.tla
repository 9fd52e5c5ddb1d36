-------------------------- MODULE MCClientFailover --------------------------
(* Values for model-checking ClientFailover.                               *)
EXTENDS ClientFailover

CONSTANTS t1, t2, m1, m2

MCThreads == {t1, t2}
MCMasters == {m1, m2}

=============================================================================
