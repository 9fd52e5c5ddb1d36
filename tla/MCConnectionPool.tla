-------------------------- MODULE MCConnectionPool --------------------------
(* Values for model-checking ConnectionPool.                               *)
EXTENDS ConnectionPool, TLC

CONSTANTS t1, t2, t3, c1, c2, c3, c4

MCThreads2 == {t1, t2}
MCThreads3 == {t1, t2, t3}
MCConns2 == {c1, c2}
MCConns3 == {c1, c2, c3}
MCConns4 == {c1, c2, c3, c4}
MCAllFaults == {"crash", "drop", "select"}

\* Threads and connections are interchangeable in the safety runs.
MCSymmetry == Permutations(Threads) \cup Permutations(Conns)

=============================================================================
