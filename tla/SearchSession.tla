---------------------------- MODULE SearchSession ----------------------------
(***************************************************************************)
(* What a search keeps: the request that serves it, a call of views.home,  *)
(* and the page it is answered with, in the browser (search.html).         *)
(***************************************************************************)
EXTENDS Integers

CONSTANTS
  Sessions,    \* browser tabs, each with the request thread that serves it
  LastHour,    \* the milestones chart has the hours 1..LastHour, oldest first
  Late,        \* the hours after this one only the page's poller reads
  data_length, \* hours above which the poller drops the newest
  MaxReplies,  \* bound: replies on their way to one chart of a page
  MaxUpdates   \* bound: updates of one row of a table

ASSUME HoursAssumption == /\ LastHour \in Nat \ {0} /\ Late \in 0..LastHour
                          /\ data_length \in Nat

\* The tables the page reads, each for a panel, and the rows of one for a hashtag.
Panels == {"sentiments", "milestones", "geoparsing"}
Hours  == 1..LastHour

VARIABLES
  spc,      \* where the request of each session is
  query,    \* the hashtag it searches
  asked,    \* connect_kafka has been called for it
  read,     \* what home read last for each panel
  polling,  \* panels of the page whose timer runs
  shown,    \* what each panel of the page shows
  replies   \* Ajax replies the browser has not received

sessionVars == <<spc, query, asked, read, polling, shown, replies>>
=============================================================================
