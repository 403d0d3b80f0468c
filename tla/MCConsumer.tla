------------------------------ MODULE MCConsumer ------------------------------
(* Two consumers of two partitions. *)
EXTENDS KafkaConsumer
===============================================================================
