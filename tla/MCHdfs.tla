------------------------------- MODULE MCHdfs -------------------------------
(* Small instances of HdfsBolt for TLC. *)
EXTENDS HdfsBolt
=============================================================================
