----------------------------- MODULE RecordLedger -----------------------------
(***************************************************************************)
(* What a data aggregator promises for the records that it is sent: it     *)
(* takes each of them once, and then stores it or reports its loss, once   *)
(* and for all.  It may only end by itself when it holds none.             *)
(***************************************************************************)
CONSTANT Records

VARIABLES
  sent,     \* records that it has not taken
  held,     \* records that it has in memory
  kept,     \* records that are stored
  reported, \* records whose loss is in the log
  ended     \* "no", or how it came to its end: "exited" or "crashed"

ledger == <<sent, held, kept, reported, ended>>

Init ==
  /\ sent = Records
  /\ held = {} /\ kept = {} /\ reported = {}
  /\ ended = "no"

\* A record is taken.
Take(r) ==
  /\ ended = "no"
  /\ sent' = sent \ {r}
  /\ held' = held \cup {r}
  /\ UNCHANGED <<kept, reported, ended>>

\* The records K are stored, and the loss of the records F is reported.
Settle(K, F) ==
  /\ ended = "no"
  /\ kept' = kept \cup K
  /\ reported' = reported \cup F
  /\ held' = held \ (K \cup F)
  /\ UNCHANGED <<sent, ended>>

Exit ==
  /\ ended = "no" /\ held = {}
  /\ ended' = "exited"
  /\ UNCHANGED <<sent, held, kept, reported>>

\* What it holds is lost.
Crash ==
  /\ ended = "no"
  /\ ended' = "crashed"
  /\ UNCHANGED <<sent, held, kept, reported>>

Next ==
  \/ \E r \in sent : Take(r)
  \/ \E settled \in SUBSET held : \E K \in SUBSET settled : Settle(K, settled \ K)
  \/ Exit \/ Crash

Spec == Init /\ [][Next]_ledger
==============================================================================
