------------------------------- MODULE MCClient -------------------------------
(* One broker or two, two polling threads, and a thread that waits for a topic. *)
EXTENDS KafkaClient
===============================================================================
