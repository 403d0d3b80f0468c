------------------------------- MODULE MCTopics -------------------------------
(* Small instances of TopicModeling for TLC. *)
EXTENDS TopicModeling
===============================================================================
