------------------------------ MODULE MCProducer ------------------------------
(* Requests pipelined without retries, retries with one request in flight, and  *)
(* more threads than buffers.                                                   *)
EXTENDS KafkaProducer

Pipelined == [retries |-> 0, inFlight |-> 2, buffers |-> 2, records |-> 1]
Retrying  == [retries |-> 1, inFlight |-> 1, buffers |-> 2, records |-> 2]
Crowded   == [retries |-> 0, inFlight |-> 1, buffers |-> 1, records |-> 2]

MCConfigs == {Pipelined, Retrying, Crowded}
===============================================================================
