------------------------------ MODULE MCBatching ------------------------------
(* Small instances of BatchingBolt for TLC. *)
EXTENDS BatchingBolt

CONSTANTS t1, t2, t3

\* Two tuples of one keyspace and one of another.
MCMapping == [t \in Tuples |-> IF t = t2 THEN "counts" ELSE "tweets"]
===============================================================================
