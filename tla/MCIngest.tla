------------------------------- MODULE MCIngest -------------------------------
(* Two hashtags; three tweets on two pages, and one page that is empty. *)
EXTENDS TweetIngest

MCArchive ==
  [h \in Hashtags |-> IF h = "boulder" THEN <<<<"b1", "b2">>, <<"b3">>>> ELSE <<<<>>>>]
===============================================================================
