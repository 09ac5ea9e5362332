--------------------------- MODULE LocalAggregator ---------------------------
(***************************************************************************)
(* The local data aggregator: automation/DataAggregator/LocalAggregator.py *)
(* on top of BaseAggregator.py, with the part of TaskManager.py that waits *)
(* for it before it submits a visit.                                       *)
(*                                                                         *)
(* The listener process inserts records in a transaction that it commits   *)
(* from time to time, keeps page content in a batch for LevelDB, and       *)
(* reports the length of its queue.  The manager reads the reports and     *)
(* hands out visit ids, which continue from the largest one in the         *)
(* database.  A crawl may crash at any moment and be run again on the same *)
(* database.                                                               *)
(***************************************************************************)
EXTENDS Integers, Sequences

CONSTANTS
  Tables,      \* what is sent in a visit, a record for each
  QueueLimit,  \* AGGREGATOR_QUEUE_LIMIT
  SqlBatch,    \* SQL_BATCH_SIZE
  LdbBatch,    \* LDB_BATCH_SIZE
  MaxRuns,     \* bound: crawls on the same database
  MaxVisits,   \* bound: visit ids
  QueueBound,  \* bound: records waiting in record_queue at once
  StatusBound  \* bound: reports waiting in status_queue at once

SiteVisits  == "site_visits"
Content     == "page_content"
CreateTable == "create_table"

ASSUME TablesAssumption == SiteVisits \in Tables
ASSUME BatchAssumption  == SqlBatch \in Nat \ {0} /\ LdbBatch \in Nat \ {0}
ASSUME LimitAssumption  == QueueLimit \in Nat
ASSUME BoundsAssumption ==
  MaxRuns \in Nat /\ MaxVisits \in Nat /\ QueueBound \in Nat /\ StatusBound \in Nat

\* The page of a visit has the same content, hence the same hash, in every
\* run: a crawl that is run again visits the same sites.
Records  == [run : 1..MaxRuns, visit : 1..MaxVisits, table : Tables]
NoStatus == -1

VARIABLES
  \* On disk
  db,             \* committed rows
  ldb,            \* hashes in LevelDB
  \* The manager
  run,            \* number of the crawl
  mpc,            \* where the manager stands
  currentVisitId, \* current_visit_id
  lastStatus,     \* _last_status
  signalled,      \* shutdown_queue is not empty
  \* Between them
  statusQueue,    \* status_queue
  coming,         \* records that no socket thread has put in the queue yet
  queue,          \* record_queue
  \* The listener
  lpc,            \* where the listener stands
  open,           \* rows of the open transaction
  sqlCounter,     \* _sql_counter
  batch,          \* content_batch: hashes
  ldbCounter,     \* _ldb_counter
  \* History, read by the properties alone
  issued,         \* everything that was ever sent
  rejected        \* rows whose error is in the log

disk     == <<db, ldb>>
manager  == <<run, mpc, currentVisitId, lastStatus, signalled>>
feed     == <<coming, queue>>
memory   == <<open, sqlCounter, batch, ldbCounter>>
history  == <<issued, rejected>>
vars     == <<disk, manager, statusQueue, feed, lpc, memory, history>>

Gone == {"exited", "dead", "killed"}

Init ==
  /\ db = {} /\ ldb = {}
  /\ run = 0
  /\ mpc = "off"
  /\ currentVisitId = 0
  /\ lastStatus = NoStatus
  /\ signalled = FALSE
  /\ statusQueue = <<>>
  /\ coming = {} /\ queue = <<>>
  /\ lpc = "killed"
  /\ open = {} /\ sqlCounter = 0
  /\ batch = {} /\ ldbCounter = 0
  /\ issued = {} /\ rejected = {}

------------------------------------------------------------------------------
(* The manager: LocalAggregator, execute_command_sequence.                  *)

\* Mutant: ids start anew in each run.
LastUsedNone(i, rows) == i = 0

\* _get_last_used_ids: i is the largest id in site_visits, 0 if it has none.
LastUsed(i, rows) ==
  LET ids == {0} \cup {r.visit : r \in {s \in rows : s.table = SiteVisits}}
  IN i \in ids /\ \A j \in ids : j <= i

\* A crawl starts: its manager, its listener, its queues.  (One that is started
\* while the listener of the last one still lives is not modelled.)
Start ==
  /\ mpc \in {"off", "closed"} /\ lpc \in Gone /\ run < MaxRuns
  /\ run' = run + 1
  /\ mpc' = "idle"
  /\ currentVisitId' \in 0..MaxVisits /\ LastUsed(currentVisitId', db)
  /\ lastStatus' = NoStatus
  /\ signalled' = FALSE
  /\ statusQueue' = <<>>
  /\ coming' = {} /\ queue' = <<>>
  /\ lpc' = "loop"
  /\ open' = {} /\ sqlCounter' = 0
  /\ batch' = {} /\ ldbCounter' = 0
  /\ UNCHANGED <<disk, history>>

\* Submission goes on, or is blocked, by the status s.
Decide(s) == lastStatus' = s /\ mpc' = IF s >= QueueLimit THEN "await" ELSE "submit"

\* get_most_recent_status, which takes all the reports that have come, or
\* waits for the first.  (If the last one is two minutes old it raises, with
\* nothing changed.)
Poll ==
  /\ mpc = "idle" /\ currentVisitId < MaxVisits
  /\ IF lastStatus = NoStatus
     THEN mpc' = "await" /\ UNCHANGED <<lastStatus, statusQueue>>
     ELSE /\ Decide(IF statusQueue = <<>> THEN lastStatus ELSE statusQueue[Len(statusQueue)])
          /\ statusQueue' = <<>>
  /\ UNCHANGED <<disk, run, currentVisitId, signalled, feed, lpc, memory, history>>

\* get_status: the next report.
Await ==
  /\ mpc = "await" /\ statusQueue # <<>>
  /\ Decide(Head(statusQueue))
  /\ statusQueue' = Tail(statusQueue)
  /\ UNCHANGED <<disk, run, currentVisitId, signalled, feed, lpc, memory, history>>

\* Mutant: get_status waits for ever.
AwaitForever == FALSE

\* No report came within STATUS_TIMEOUT: an exception, to the user.  (A
\* TypeError if there never was a report.)
AwaitTimeout ==
  /\ mpc = "await" /\ statusQueue = <<>>
  /\ mpc' = "idle"
  /\ UNCHANGED <<disk, run, currentVisitId, lastStatus, signalled, statusQueue, feed,
                 lpc, memory, history>>

\* _start_thread: a new visit id.  What is sent under it takes its own time.
Submit ==
  LET v    == currentVisitId + 1
      sent == {[run |-> run, visit |-> v, table |-> t] : t \in Tables}
  IN /\ mpc = "submit"
     /\ mpc' = "idle"
     /\ currentVisitId' = v
     /\ coming' = coming \cup sent
     /\ issued' = issued \cup sent
     /\ UNCHANGED <<disk, run, lastStatus, signalled, statusQueue, queue, lpc, memory, rejected>>

\* BaseAggregator.shutdown: the signal, and the join.
Close ==
  /\ mpc = "idle"
  /\ mpc' = "join"
  /\ signalled' = TRUE
  /\ UNCHANGED <<disk, run, currentVisitId, lastStatus, statusQueue, feed, lpc, memory, history>>

Joined ==
  /\ mpc = "join" /\ lpc \in Gone
  /\ mpc' = "closed"
  /\ UNCHANGED <<disk, run, currentVisitId, lastStatus, signalled, statusQueue, feed, lpc,
                 memory, history>>

\* The listener is gone; SQLite rolls its transaction back.
RollBack(how) == lpc' = how /\ open' = {} /\ batch' = {}

\* The join ends after 300 seconds; the listener goes on without its manager.
JoinTimeout ==
  /\ mpc = "join" /\ lpc \notin Gone
  /\ mpc' = "closed"
  /\ UNCHANGED <<disk, run, currentVisitId, lastStatus, signalled, statusQueue, feed, lpc,
                 memory, history>>

\* All processes of the crawl are killed, or its manager leaves and takes a
\* listener, its daemon, that is still there with it.
Crash ==
  /\ mpc # "off" /\ (mpc = "closed" => lpc \notin Gone)
  /\ mpc' = "off"
  /\ RollBack("killed")
  /\ UNCHANGED <<disk, run, currentVisitId, lastStatus, signalled, statusQueue, feed,
                 sqlCounter, ldbCounter, history>>

------------------------------------------------------------------------------
(* The socket threads.                                                      *)

\* r comes after s on the one connection on which the manager announces its
\* visits.  Other tables have a connection for each browser, and a new one after
\* each restart: nothing orders their rows across visits.
After(r, s) == r.table = SiteVisits /\ s.table = SiteVisits /\ s.visit < r.visit

\* A record reaches the queue.
Enqueue(r) ==
  /\ lpc \notin Gone
  /\ r \in coming /\ Len(queue) < QueueBound
  /\ ~ \E s \in coming : After(r, s)
  /\ coming' = coming \ {r}
  /\ queue' = Append(queue, r)
  /\ UNCHANGED <<disk, manager, statusQueue, lpc, memory, history>>

------------------------------------------------------------------------------
(* The listener: listener_process_runner, LocalListener.                    *)

\* update_status_queue, five seconds after the last report.
SendStatus ==
  /\ lpc = "loop" /\ Len(statusQueue) < StatusBound
  /\ statusQueue' = Append(statusQueue, Len(queue))
  /\ lpc' = "check"
  /\ UNCHANGED <<disk, manager, feed, memory, history>>

\* It is too early for a report.
SkipStatus ==
  /\ lpc = "loop"
  /\ lpc' = "check"
  /\ UNCHANGED <<disk, manager, statusQueue, feed, memory, history>>

ShouldShutdown ==
  /\ lpc = "check" /\ signalled
  /\ lpc' = "drain"
  /\ UNCHANGED <<disk, manager, statusQueue, feed, memory, history>>

\* Nothing to do for a second.
Sleep ==
  /\ lpc = "check" /\ ~signalled /\ queue = <<>>
  /\ lpc' = "commit"
  /\ UNCHANGED <<disk, manager, statusQueue, feed, memory, history>>

\* record_queue.get, in the loop or in drain_queue.
Get ==
  /\ queue # <<>>
  /\ \/ lpc = "check" /\ ~signalled /\ lpc' = "commit"
     \/ lpc = "drain" /\ lpc' = "drain"
  /\ queue' = Tail(queue)
  /\ UNCHANGED <<manager, statusQueue, coming, issued>>

\* site_visits has a primary key.
Collides(r) ==
  r.table = SiteVisits /\ \E s \in db \cup open : s.table = SiteVisits /\ s.visit = r.visit

\* process_record: the row is inserted.
Insert ==
  /\ Get
  /\ LET r == Head(queue) IN
     /\ r.table \notin {Content, CreateTable} /\ ~Collides(r)
     /\ open' = open \cup {r}
  /\ sqlCounter' = sqlCounter + 1
  /\ UNCHANGED <<disk, batch, ldbCounter, rejected>>

\* process_record: the database refuses the row.
Reject ==
  /\ Get
  /\ Head(queue).table \notin {Content, CreateTable}
  /\ rejected' = rejected \cup {Head(queue)}
  /\ UNCHANGED <<disk, memory>>

\* process_record: a table is created, and what is open is committed.
Create ==
  /\ Get
  /\ Head(queue).table = CreateTable
  /\ db' = db \cup open \cup {Head(queue)}
  /\ open' = {}
  /\ UNCHANGED <<ldb, sqlCounter, batch, ldbCounter, rejected>>

\* process_content.
KeepContent ==
  /\ Get
  /\ LET r == Head(queue) IN
     /\ r.table = Content
     /\ IF r.visit \in ldb
        THEN UNCHANGED <<batch, ldbCounter>>
        ELSE batch' = batch \cup {r.visit} /\ ldbCounter' = ldbCounter + 1
  /\ UNCHANGED <<disk, open, sqlCounter, rejected>>

\* Mutant: a commit that fails is rolled back, and its error only logged.
CommitFails ==
  /\ lpc = "commit" /\ sqlCounter > 0
  /\ open' = {} /\ sqlCounter' = 0
  /\ lpc' = "write"
  /\ UNCHANGED <<disk, manager, statusQueue, feed, batch, ldbCounter, history>>

\* Mutant: the counter is reset, and nothing is committed.
CommitNothing ==
  /\ lpc = "commit" /\ sqlCounter > 0
  /\ sqlCounter' = 0
  /\ lpc' = "write"
  /\ UNCHANGED <<disk, manager, statusQueue, feed, open, batch, ldbCounter, history>>

\* maybe_commit_records: there are many rows, or some and the time has come.
Commit ==
  /\ lpc = "commit" /\ sqlCounter > 0
  /\ db' = db \cup open
  /\ open' = {} /\ sqlCounter' = 0
  /\ lpc' = "write"
  /\ UNCHANGED <<ldb, manager, statusQueue, feed, batch, ldbCounter, history>>

NoCommit ==
  /\ lpc = "commit" /\ sqlCounter < SqlBatch
  /\ lpc' = "write"
  /\ UNCHANGED <<disk, manager, statusQueue, feed, memory, history>>

\* Its other half, for LevelDB.
Write ==
  /\ lpc = "write" /\ ldbCounter > 0
  /\ ldb' = ldb \cup batch
  /\ batch' = {} /\ ldbCounter' = 0
  /\ lpc' = "loop"
  /\ UNCHANGED <<db, manager, statusQueue, feed, open, sqlCounter, history>>

NoWrite ==
  /\ lpc = "write" /\ ldbCounter < LdbBatch
  /\ lpc' = "loop"
  /\ UNCHANGED <<disk, manager, statusQueue, feed, memory, history>>

\* shutdown, once drain_queue has found the queue empty.
LastCommit ==
  /\ lpc = "drain" /\ queue = <<>>
  /\ db' = db \cup open
  /\ open' = {}
  /\ lpc' = "flush"
  /\ UNCHANGED <<ldb, manager, statusQueue, feed, sqlCounter, batch, ldbCounter, history>>

\* Mutant: the last batch is forgotten.
ForgetWrite ==
  /\ lpc = "flush"
  /\ lpc' = "exited"
  /\ UNCHANGED <<disk, manager, statusQueue, feed, memory, history>>

LastWrite ==
  /\ lpc = "flush"
  /\ ldb' = ldb \cup batch
  /\ batch' = {}
  /\ lpc' = "exited"
  /\ UNCHANGED <<db, manager, statusQueue, feed, open, sqlCounter, ldbCounter, history>>

\* An exception that nothing handles: page content without LevelDB, a locked
\* database at the commit, a table that exists.
Die ==
  /\ lpc \notin Gone
  /\ RollBack("dead")
  /\ UNCHANGED <<disk, manager, statusQueue, feed, sqlCounter, ldbCounter, history>>

------------------------------------------------------------------------------
Manager == Await \/ AwaitTimeout \/ Submit \/ Joined \/ JoinTimeout

User == Start \/ Poll \/ Close

Listener ==
  \/ SendStatus \/ SkipStatus \/ ShouldShutdown \/ Sleep
  \/ Insert \/ Reject \/ Create \/ KeepContent
  \/ Commit \/ NoCommit \/ Write \/ NoWrite
  \/ LastCommit \/ LastWrite

\* The user may stop calling.
Quiet == mpc \in {"off", "closed", "idle"} /\ lpc \in Gone

Next ==
  \/ User \/ Manager \/ Listener \/ Crash \/ Die
  \/ \E r \in Records : Enqueue(r)
  \/ Quiet /\ UNCHANGED vars

Spec == Init /\ [][Next]_vars

\* Manager and listener run, and time passes: the five seconds between two
\* commits do not last for ever.
Fairness ==
  /\ WF_vars(Manager) /\ WF_vars(Listener)
  /\ SF_vars(Commit) /\ SF_vars(Write)

FairSpec == Spec /\ Fairness

------------------------------------------------------------------------------
TypeOK ==
  /\ db \subseteq Records /\ open \subseteq Records
  /\ ldb \subseteq 1..MaxVisits /\ batch \subseteq 1..MaxVisits
  /\ run \in 0..MaxRuns
  /\ mpc \in {"off", "idle", "await", "submit", "join", "closed"}
  /\ currentVisitId \in 0..MaxVisits
  /\ mpc # "off" => run > 0
  /\ mpc \in {"await", "submit"} => currentVisitId < MaxVisits
  /\ lastStatus \in Nat \cup {NoStatus}
  /\ signalled \in BOOLEAN
  /\ statusQueue \in Seq(Nat)
  /\ coming \subseteq Records /\ queue \in Seq(Records)
  /\ lpc \in {"loop", "check", "commit", "write", "drain", "flush"} \cup Gone
  /\ sqlCounter \in Nat /\ ldbCounter \in Nat
  /\ issued \subseteq Records /\ rejected \subseteq Records

Queued(r) == \E i \in DOMAIN queue : queue[i] = r

\* The visits of a crawl in site_visits are a beginning of those that were
\* submitted: wherever the crawl crashed, if a visit's row is in the database, so
\* are the rows of the visits before it, unless their rejection is in the log.
NoGaps ==
  \A s \in db : \A r \in issued :
    r.run = s.run /\ After(s, r) => r \in db \cup rejected

\* However the earlier crawls ended, the visits of this one have ids that no
\* row of site_visits in the database has: none is refused for its key.
NoCollision ==
  \A r \in issued : r.run = run /\ r.table = SiteVisits =>
    \A s \in db : s.table = SiteVisits /\ s.visit = r.visit => s = r

\* A listener that shut down by itself has stored, or rejected, everything that
\* it took from its queue, rows and content alike.
Stored(r) == r \in db \cup rejected \/ (r.table = Content /\ r.visit \in ldb)

ExitKeepsAll ==
  lpc = "exited" =>
    \A r \in issued : r.run = run => r \in coming \/ Queued(r) \/ Stored(r)

\* As long as rows or content wait in memory, a counter says so: the commit
\* that will store them is never skipped.
Counted == lpc \notin Gone => (open # {} => sqlCounter > 0) /\ (batch # {} => ldbCounter > 0)

\* What reached the queue is stored or rejected in the end, though nothing
\* else comes and nobody closes the crawl, unless the listener goes first.
EventuallyStored ==
  \A r \in Records : Queued(r) ~> (Stored(r) \/ lpc \in Gone)

\* Submission is not blocked for ever, even if the listener is dead.
SubmissionEnds == mpc = "await" ~> mpc # "await"

------------------------------------------------------------------------------
(* What the documentation says and the code does not do.                    *)

\* "Return a unique visit ID to be used as a key for a single visit"
\* (BaseAggregator.py:139): rows with the same visit id are of one visit.
VisitIdsUnique ==
  \A r, s \in db : r.visit = s.visit => r.run = s.run
==============================================================================
