------------------------------ MODULE LoggingDB ------------------------------
(***************************************************************************)
(* Extension/firefox/feature.js/loggingdb.js: how the extension sends      *)
(* records to the data aggregator and which visit id it gives them.        *)
(*                                                                         *)
(* The instruments extend this module and put the calls of saveRecord into *)
(* their own actions.  The extension is not debugging: both addresses are  *)
(* configured.  A record is sent in the step that saves it.  The counter   *)
(* of extension-session-event-ordinal.ts is here too, because all the      *)
(* instruments share it; their actions count.                              *)
(***************************************************************************)
EXTENDS Integers, Sequences

CONSTANT
  MaxVisits   \* bound: visits of the browser

ASSUME VisitsAssumption == MaxVisits \in Nat

VARIABLES
  announced,  \* the visit ids that reached the extension are 1..announced
  queue,      \* listeningSocket.queue
  visitID,    \* the last id taken from the queue, NoVisit before the first
  saved,      \* records sent to the aggregator
  ordinal     \* events that incrementedEventOrdinal has counted

dbVars == <<announced, queue, visitID, saved>>

NoVisit == 0
Visits  == 1..MaxVisits

\* What the aggregator gets for a record that has no visit id.
Unattributed == -1

DBInit ==
  /\ announced = 0 /\ queue = <<>> /\ visitID = NoVisit
  /\ saved = {} /\ ordinal = 0

\* _updateQueue: the browser's process has sent the id of the next visit.
VisitIdArrives ==
  /\ announced < MaxVisits
  /\ announced' = announced + 1
  /\ queue' = Append(queue, announced + 1)
  /\ UNCHANGED <<visitID, saved>>

\* Mutant: one id is taken from the queue for each record.
LatestVisitOnlyFirst == IF queue = <<>> THEN visitID ELSE Head(queue)

\* The visit id after the loop that empties the queue.
LatestVisit == IF queue = <<>> THEN visitID ELSE queue[Len(queue)]

\* The id a record is sent with.
Attribution == IF LatestVisit = NoVisit THEN Unattributed ELSE LatestVisit

\* saveRecord: empty the queue, set the visit id, send.
SaveRecord(record) ==
  /\ visitID' = LatestVisit
  /\ queue' = <<>>
  /\ saved' = saved \union {[data |-> record, visit |-> Attribution]}
  /\ UNCHANGED announced

NothingSaved == UNCHANGED dbVars

\* The queue holds the newest ids; when it is empty the newest has been taken.
DBTypeOK ==
  /\ announced \in 0..MaxVisits /\ visitID \in 0..announced
  /\ queue \in Seq(Visits)
  /\ \A i \in 1..Len(queue) : queue[i] = announced - Len(queue) + i
  /\ queue = <<>> => visitID = announced

(***************************************************************************)
(* A record that is sent carries the newest visit id that had reached the  *)
(* extension, however many came since the last record, and -1 only before  *)
(* the first.  The S3 aggregator relies on it: a browser whose records     *)
(* turn to another visit id is through with the old one.                   *)
(***************************************************************************)
StampedWithNewest ==
  [][\A r \in saved' \ saved :
        r.visit = IF announced = 0 THEN Unattributed ELSE announced]_saved
=============================================================================
