------------------------------ MODULE JobLedger ------------------------------
(***************************************************************************)
(* What the job queue of a distributed crawl promises, whatever Redis and  *)
(* the workers do in between: every job starts in the queue, is handed to  *)
(* one holder at a time, comes back only from a holder, and once it has    *)
(* left the ledger it never returns.                                       *)
(***************************************************************************)
CONSTANT Jobs

VARIABLES queued, held

ledger == <<queued, held>>

Init ==
  /\ queued = Jobs
  /\ held = {}

\* A worker takes a waiting job.
Take(j) ==
  /\ j \in queued
  /\ queued' = queued \ {j}
  /\ held' = held \cup {j}

\* A job whose holder is believed dead waits again.
GiveBack(j) ==
  /\ j \in held
  /\ held' = held \ {j}
  /\ queued' = queued \cup {j}

\* A held job is done with, or given up.
Retire(j) ==
  /\ j \in held
  /\ held' = held \ {j}
  /\ UNCHANGED queued

Next == \E j \in Jobs : Take(j) \/ GiveBack(j) \/ Retire(j)

Spec == Init /\ [][Next]_ledger
==============================================================================
