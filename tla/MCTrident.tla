------------------------------ MODULE MCTrident ------------------------------
(* A small instance of TridentState for TLC. *)
EXTENDS TridentState

Handler(connection, mapping, stopped) ==
  [e \in Exceptions |->
     CASE e = "connection" -> connection [] e = "mapping" -> mapping [] e = "stopped" -> stopped]

\* No handler; one that ignores bad tuples and dies of a stopped client; one that
\* dies of a failed mutation and fails batches by default; one that ignores all.
MCHandlers ==
  {Handler("FAIL_TUPLE", "FAIL_TUPLE", "FAIL_TUPLE"),
   Handler("FAIL_TUPLE", "REPORT_ERROR", "KILL_WORKER"),
   Handler("KILL_WORKER", "LOG", "FAIL_TUPLE"),
   Handler("LOG", "LOG", "LOG")}
==============================================================================
