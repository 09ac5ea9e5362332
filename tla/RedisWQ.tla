------------------------------- MODULE RedisWQ -------------------------------
(***************************************************************************)
(* The job queue of a distributed crawl: automation/utilities/rediswq.py,  *)
(* driven by the worker loop of crawler.py.                                *)
(*                                                                         *)
(* One action is one Redis round trip (or one transaction), since that is  *)
(* the grain at which workers interleave.  The two Redis lists are         *)
(* abstracted to the number of entries each job has in them: nothing the   *)
(* code does depends on the order of the entries.  Work is loaded once,    *)
(* before the workers start.                                               *)
(***************************************************************************)
EXTENDS Integers

CONSTANTS
  Jobs,       \* the items, all different ("assumed to have unique values")
  Workers,    \* the crawler.py processes
  Mortal,     \* the workers that may crash
  Outlast,    \* may a worker's visit outlast its lease?
  MaxRetries, \* max_retries
  NoJob       \* the None that lease() returns

ASSUME JobsAssumption    == NoJob \notin Jobs
ASSUME WorkersAssumption == Mortal \subseteq Workers
ASSUME OutlastAssumption == Outlast \in BOOLEAN
ASSUME RetryAssumption   == MaxRetries \in Nat

VARIABLES
  main,       \* _main_q_key: entries of each job
  processing, \* _processing_q_key: entries of each job
  retries,    \* _retry_hash_map_key (an absent field reads as 0)
  leases,     \* jobs whose lease key exists
  clean,      \* clean[w]: what w WATCHes has not changed since
  pc,         \* pc[w]: where worker w stands
  job,        \* job[w]: what lease() returned to w
  todo,       \* todo[w]: rest of w's snapshot in check_expired_leases
  candidate,  \* candidate[w]: the job w tries to renew
  count,      \* count[w]: retry_count as w read it
  \* History, read by the properties alone:
  completed,  \* jobs on which some worker called complete()
  dropped,    \* jobs removed for having exhausted their retries
  renewals,   \* renewals of each job, saturating at MaxRetries + 1
  forgotten   \* jobs in the lists whose retry count a late complete() deleted

redis   == <<main, processing, retries, leases, clean>>
local   == <<job, todo, candidate, count>>
history == <<completed, dropped, renewals, forgotten>>
vars    == <<redis, pc, local, history>>

PCs == {"main", "processing", "scan", "renew", "watch", "exec", "lease", "sign",
        "visit", "remove", "forget", "unlease", "done", "crashed"}

\* Where a worker stands between taking a job and being through with it.
Holding == {"sign", "visit", "remove", "forget", "unlease"}

Goto(w, l) == pc' = [pc EXCEPT ![w] = l]

\* WATCH: a change of the processing queue or of the retry map, by whomever,
\* spoils every transaction that watches them.
Touch ==
  clean' = IF processing' # processing \/ retries' # retries
           THEN [w \in Workers |-> FALSE]
           ELSE clean

Init ==
  /\ main = [j \in Jobs |-> 1]
  /\ processing = [j \in Jobs |-> 0]
  /\ retries = [j \in Jobs |-> 0]
  /\ leases = {}
  /\ clean = [w \in Workers |-> FALSE]
  /\ pc = [w \in Workers |-> "main"]
  /\ job = [w \in Workers |-> NoJob]
  /\ todo = [w \in Workers |-> {}]
  /\ candidate = [w \in Workers |-> NoJob]
  /\ count = [w \in Workers |-> 0]
  /\ completed = {}
  /\ dropped = {}
  /\ renewals = [j \in Jobs |-> 0]
  /\ forgotten = {}

------------------------------------------------------------------------------
(* while not job_queue.empty()                                              *)

IsEmpty(q) == \A j \in Jobs : q[j] = 0

\* Mutant: empty() looks at the main queue alone.
ReadMainSizeAlone(w) ==
  /\ pc[w] = "main"
  /\ Goto(w, IF IsEmpty(main) THEN "done" ELSE "scan")
  /\ UNCHANGED <<redis, local, history>>

\* The first operand of empty().
ReadMainSize(w) ==
  /\ pc[w] = "main"
  /\ Goto(w, IF IsEmpty(main) THEN "processing" ELSE "scan")
  /\ UNCHANGED <<redis, local, history>>

\* Its second operand, a round trip later.
ReadProcessingSize(w) ==
  /\ pc[w] = "processing"
  /\ Goto(w, IF IsEmpty(processing) THEN "done" ELSE "scan")
  /\ UNCHANGED <<redis, local, history>>

------------------------------------------------------------------------------
(* check_expired_leases and _maybe_renew_job                                *)

\* lrange of the processing queue.
Scan(w) ==
  /\ pc[w] = "scan"
  /\ todo' = [todo EXCEPT ![w] = {j \in Jobs : processing[j] > 0}]
  /\ Goto(w, "renew")
  /\ UNCHANGED <<redis, job, candidate, count, history>>

\* _lease_exists for the next job of the snapshot.
CheckLease(w) ==
  /\ pc[w] = "renew"
  /\ \E j \in todo[w] :
       /\ todo' = [todo EXCEPT ![w] = @ \ {j}]
       /\ IF j \in leases
          THEN UNCHANGED <<pc, candidate>>
          ELSE Goto(w, "watch") /\ candidate' = [candidate EXCEPT ![w] = j]
  /\ UNCHANGED <<redis, job, count, history>>

\* WATCH, lrange and hget.  They are one step: whatever changes between them
\* and EXEC changes a watched key, and then EXEC does nothing.
Watch(w) ==
  /\ pc[w] = "watch"
  /\ IF processing[candidate[w]] = 0
     THEN /\ Goto(w, "renew")
          /\ UNCHANGED <<clean, count>>
     ELSE /\ Goto(w, "exec")
          /\ clean' = [clean EXCEPT ![w] = TRUE]
          /\ count' = [count EXCEPT ![w] = retries[candidate[w]]]
  /\ UNCHANGED <<main, processing, retries, leases, job, todo, candidate, history>>

\* Mutant: the pipeline does not WATCH its keys.
NeverSpoiled(w) == TRUE

Unspoiled(w) == clean[w]

\* Mutant: off by one.
ExhaustedEarly(n) == n + 1 >= MaxRetries

Exhausted(n) == n + 1 > MaxRetries

\* EXEC of lrem, hdel: the job is given up.
ExecDrop(w) ==
  LET j == candidate[w] IN
  /\ pc[w] = "exec" /\ Unspoiled(w) /\ Exhausted(count[w])
  /\ processing' = [processing EXCEPT ![j] = 0]
  /\ retries' = [retries EXCEPT ![j] = 0]
  /\ Touch
  /\ dropped' = dropped \cup {j}
  /\ Goto(w, "renew")
  /\ UNCHANGED <<main, leases, local, completed, renewals, forgotten>>

\* EXEC of lrem, rpush, hincrby: the job waits again.
ExecRenew(w) ==
  LET j == candidate[w] IN
  /\ pc[w] = "exec" /\ Unspoiled(w) /\ ~Exhausted(count[w])
  /\ processing' = [processing EXCEPT ![j] = 0]
  /\ main' = [main EXCEPT ![j] = @ + 1]
  /\ retries' = [retries EXCEPT ![j] = @ + 1]
  /\ Touch
  /\ renewals' = [renewals EXCEPT ![j] = IF @ > MaxRetries THEN @ ELSE @ + 1]
  /\ Goto(w, "renew")
  /\ UNCHANGED <<leases, local, completed, dropped, forgotten>>

\* WatchError: renewal skipped for now.
ExecSpoiled(w) ==
  /\ pc[w] = "exec" /\ ~Unspoiled(w)
  /\ Goto(w, "renew")
  /\ UNCHANGED <<redis, local, history>>

ScanDone(w) ==
  /\ pc[w] = "renew" /\ todo[w] = {}
  /\ Goto(w, "lease")
  /\ UNCHANGED <<redis, local, history>>

------------------------------------------------------------------------------
(* lease                                                                    *)

\* Mutant: the entry is popped and only pushed by the worker later.
TakePopOnly(w) ==
  /\ pc[w] = "lease"
  /\ \E j \in Jobs :
       /\ main[j] > 0
       /\ main' = [main EXCEPT ![j] = @ - 1]
       /\ job' = [job EXCEPT ![w] = j]
  /\ Goto(w, "sign")
  /\ UNCHANGED <<processing, retries, leases, clean, todo, candidate, count, history>>

\* brpoplpush: an entry moves from the main queue to the processing queue.
Take(w) ==
  /\ pc[w] = "lease"
  /\ \E j \in Jobs :
       /\ main[j] > 0
       /\ main' = [main EXCEPT ![j] = @ - 1]
       /\ processing' = [processing EXCEPT ![j] = @ + 1]
       /\ job' = [job EXCEPT ![w] = j]
  /\ Touch
  /\ Goto(w, "sign")
  /\ UNCHANGED <<retries, leases, todo, candidate, count, history>>

\* Nothing came within the timeout: job is None, sleep, loop.
TakeTimeout(w) ==
  /\ pc[w] = "lease" /\ IsEmpty(main)
  /\ Goto(w, "main")
  /\ UNCHANGED <<redis, local, history>>

\* setex of the lease key, a round trip after the entry moved.
Sign(w) ==
  /\ pc[w] = "sign"
  /\ leases' = leases \cup {job[w]}
  /\ Goto(w, "visit")
  /\ UNCHANGED <<main, processing, retries, clean, local, history>>

\* Redis expires a lease key.  Unless Outlast, only after its holder is gone.
LeaseExpires(j) ==
  /\ j \in leases
  /\ Outlast \/ \A w \in Workers : ~(job[w] = j /\ pc[w] \in Holding)
  /\ leases' = leases \ {j}
  /\ UNCHANGED <<main, processing, retries, clean, pc, local, history>>

------------------------------------------------------------------------------
(* The visit, and complete                                                  *)

\* get_retry_number and manager.execute_command_sequence return.
Visit(w) ==
  /\ pc[w] = "visit"
  /\ Goto(w, "remove")
  /\ UNCHANGED <<redis, local, history>>

\* lrem of the job, whoever put the entry there.
CompleteRemove(w) ==
  /\ pc[w] = "remove"
  /\ processing' = [processing EXCEPT ![job[w]] = 0]
  /\ retries' = retries
  /\ Touch
  /\ completed' = completed \cup {job[w]}
  /\ Goto(w, "forget")
  /\ UNCHANGED <<main, leases, local, dropped, renewals, forgotten>>

\* hdel of its retry count, even if others have put the job back meanwhile.
CompleteForget(w) ==
  LET j == job[w] IN
  /\ pc[w] = "forget"
  /\ retries' = [retries EXCEPT ![j] = 0]
  /\ processing' = processing
  /\ Touch
  /\ forgotten' = IF main[j] + processing[j] > 0 THEN forgotten \cup {j} ELSE forgotten
  /\ Goto(w, "unlease")
  /\ UNCHANGED <<main, leases, local, completed, dropped, renewals>>

\* delete of the lease key, whoever owns it; back to the loop's head.
CompleteUnlease(w) ==
  /\ pc[w] = "unlease"
  /\ leases' = leases \ {job[w]}
  /\ job' = [job EXCEPT ![w] = NoJob]
  /\ Goto(w, "main")
  /\ UNCHANGED <<main, processing, retries, clean, todo, candidate, count, history>>

\* The process dies, or execute_command_sequence raises out of the loop.
Crash(w) ==
  /\ w \in Mortal /\ pc[w] \notin {"done", "crashed"}
  /\ Goto(w, "crashed")
  /\ UNCHANGED <<redis, local, history>>

------------------------------------------------------------------------------
Step(w) ==
  \/ ReadMainSize(w) \/ ReadProcessingSize(w)
  \/ Scan(w) \/ CheckLease(w) \/ Watch(w)
  \/ ExecDrop(w) \/ ExecRenew(w) \/ ExecSpoiled(w) \/ ScanDone(w)
  \/ Take(w) \/ TakeTimeout(w) \/ Sign(w) \/ Visit(w)
  \/ CompleteRemove(w) \/ CompleteForget(w) \/ CompleteUnlease(w)

Terminated == \A w \in Workers : pc[w] \in {"done", "crashed"}

Next ==
  \/ \E w \in Workers : Step(w)
  \/ \E w \in Workers : Crash(w)
  \/ \E j \in Jobs : LeaseExpires(j)
  \/ Terminated /\ UNCHANGED vars

Spec == Init /\ [][Next]_vars

\* A worker that has not crashed keeps running, and Redis expires keys.
Fairness ==
  /\ \A w \in Workers : WF_vars(Step(w))
  /\ \A j \in Jobs : WF_vars(LeaseExpires(j))

FairSpec == Spec /\ Fairness

------------------------------------------------------------------------------
TypeOK ==
  /\ main \in [Jobs -> Nat]
  /\ processing \in [Jobs -> Nat]
  /\ retries \in [Jobs -> Nat]
  /\ leases \subseteq Jobs
  /\ clean \in [Workers -> BOOLEAN]
  /\ pc \in [Workers -> PCs]
  /\ job \in [Workers -> Jobs \cup {NoJob}]
  /\ \A w \in Workers : pc[w] \in Holding => job[w] \in Jobs
  /\ todo \in [Workers -> SUBSET Jobs]
  /\ candidate \in [Workers -> Jobs \cup {NoJob}]
  /\ \A w \in Workers : pc[w] \in {"watch", "exec"} => candidate[w] \in Jobs
  /\ count \in [Workers -> Nat]
  /\ completed \subseteq Jobs
  /\ dropped \subseteq Jobs
  /\ renewals \in [Jobs -> Nat]
  /\ forgotten \subseteq Jobs

\* However many workers renew, lease and complete at once, a job is never
\* twice in the two lists: _maybe_renew_job "allows us to prevent duplicate
\* updates from different workers" (rediswq.py:92-95).
AtMostOneEntry == \A j \in Jobs : main[j] + processing[j] <= 1

\* No crash between two Redis calls loses a job: one that is in neither list
\* was completed by a worker or given up after its last retry.
NoLostJob ==
  \A j \in Jobs : main[j] + processing[j] = 0 => j \in completed \cup dropped

\* A job is kept: it is in the lists exactly once until it has been completed
\* or given up, whichever workers crash, renew or complete at the same time.
JobsKept == AtMostOneEntry /\ NoLostJob

\* The retry count of a job never passes max_retries, although the worker
\* that increments it compared a count it had read earlier.
RetriesBounded == \A j \in Jobs : retries[j] <= MaxRetries

\* A job is given up only after having been returned max_retries times.
DroppedAfterRetries == \A j \in dropped : renewals[j] >= MaxRetries

\* A job is returned at most max_retries times, unless a complete() that came
\* after others had put it back deleted its count (rediswq.py:248): the job
\* is then returned another max_retries times, against rediswq.py:38-39.
RenewalsBounded ==
  \A j \in Jobs : renewals[j] > MaxRetries => j \in forgotten

\* max_retries, the "number of times to retry a job before removing it"
\* (rediswq.py:38-39), is neither overstepped nor cut short by workers that
\* decide on a count they read before others changed it; what a late
\* complete() allows is the exception of RenewalsBounded.
RetryPolicy == RetriesBounded /\ RenewalsBounded /\ DroppedAfterRetries

\* As long as nothing spoiled its WATCH, what a worker read before EXEC still
\* holds at EXEC: the job is in the processing queue with that retry count.
WatchHolds ==
  \A w \in Workers :
    pc[w] = "exec" /\ clean[w] =>
      /\ processing[candidate[w]] > 0
      /\ retries[candidate[w]] = count[w]

\* The stored retry count never exceeds the renewals that really happened.
RetriesCounted == \A j \in Jobs : retries[j] <= renewals[j]

\* For a job whose count no late complete() deleted, it is their number.
CountExact ==
  \A j \in Jobs \ forgotten :
    main[j] + processing[j] > 0 => renewals[j] = retries[j]

\* The lists implement the ledger: a job that has left them never returns,
\* and comes back to the main queue only from the processing queue.
Ledger == INSTANCE JobLedger WITH
            queued <- {j \in Jobs : main[j] > 0},
            held <- {j \in Jobs : processing[j] > 0}

LedgerSpec == Ledger!Spec

\* If at the head of its loop a worker is the last one running, it empties
\* both lists: the leases of the others expire and their jobs come back.
SurvivorDrains ==
  \A w \in Workers \ Mortal :
    (/\ pc[w] = "main"
     /\ \A v \in Workers \ {w} : pc[v] \in {"done", "crashed"})
      ~> (IsEmpty(main) /\ IsEmpty(processing))

------------------------------------------------------------------------------
(* What the documentation says and the code does not do.                    *)

\* "The workers can detect when the queue is completely empty"
\* (rediswq.py:11-13): a worker leaves its loop only if both lists are empty.
ExitsOnlyWhenEmpty ==
  [][\A w \in Workers :
       pc[w] # "done" /\ pc'[w] = "done" => IsEmpty(main) /\ IsEmpty(processing)]_vars

\* "After that time, other workers may consider this client to have crashed or
\* stalled and pick up the item instead." (rediswq.py:203-205): while no lease
\* expires under its holder, no job has two holders.
OneHolder ==
  \A v, w \in Workers :
    v # w /\ pc[v] = "visit" /\ pc[w] = "visit" => job[v] # job[w]
==============================================================================
