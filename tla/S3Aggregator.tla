----------------------------- MODULE S3Aggregator -----------------------------
(***************************************************************************)
(* The S3 data aggregator: automation/DataAggregator/S3Aggregator.py on top *)
(* of BaseAggregator.py, fed by the serversocket of SocketInterface.py.    *)
(*                                                                         *)
(* The listener process keeps the records of a visit until it sees that    *)
(* the browser has moved on, turns them into one batch per table, and      *)
(* uploads the batches of a table when there are many, when no record      *)
(* arrived for a while, or when it shuts down.  Socket threads feed its    *)
(* queue, one per connection, hence records of one browser that took       *)
(* different connections arrive in any order.                              *)
(***************************************************************************)
EXTENDS Integers, Sequences, FiniteSets

CONSTANTS
  Records,    \* what the browsers send in the crawl, each with the fields below
  CacheSize,  \* CACHE_SIZE
  QueueBound  \* bound: records waiting in record_queue at once

ASSUME CacheAssumption == CacheSize \in Nat /\ QueueBound \in Nat \ {0}

Unkeyed    == 0
Content    == "page_content"
SiteVisits == "site_visits"
Index      == "_site_visits_index"
NoRecord   == [crawl |-> "none", visit |-> 0, table |-> "none"]

\* crawl: the browser; visit: the visit id, Unkeyed if the record lacks an id
\* it should have, or the hash of a page's content; table: the table.  The index
\* is not one.
ASSUME RecordsAssumption ==
  \A r \in Records :
    /\ DOMAIN r = {"crawl", "visit", "table"}
    /\ r.visit \in Nat
    /\ r.table \notin {Index, NoRecord.table}

Crawls  == {r.crawl : r \in Records}
Visits  == {r.visit : r \in Records} \cup {Unkeyed}
Rows    == {r \in Records : r.table # Content}
Tables  == {r.table : r \in Rows} \cup {SiteVisits}
Files   == Tables \cup {Index}

VARIABLES
  coming,     \* records that no socket thread has put in the queue yet
  queue,      \* record_queue
  signalled,  \* shutdown_queue is not empty
  pc,         \* where the listener stands
  record,     \* the record it processes, or NoRecord
  draining,   \* why it drains the queue: "no", "timeout" or "shutdown"
  received,   \* _last_record_received is not None
  browserMap, \* browser_map (Unkeyed for an absent key)
  records,    \* _records
  batches,    \* _batches: a set of batches, sets of rows, for each table
  sending,    \* tables that _send_to_s3 has yet to send
  cache,      \* _s3_content_cache: hashes
  stored,     \* hashes stored in the bucket
  uploaded,   \* uploaded[t]: records uploaded
  failed      \* failed[t]: records whose loss was logged

feed     == <<coming, queue>>
control  == <<signalled, pc, record, draining>>
memory   == <<received, browserMap, records, batches>>
bucket   == <<cache, stored, uploaded, failed>>
vars     == <<feed, control, memory, sending, bucket>>

Gone == {"exited", "dead", "killed"}
PCs  == {"loop", "check", "drain", "record", "send"} \cup Gone

Init ==
  /\ coming = Records
  /\ queue = <<>>
  /\ signalled = FALSE
  /\ pc = "loop"
  /\ record = NoRecord
  /\ draining = "no"
  /\ received = FALSE
  /\ browserMap = [c \in Crawls |-> Unkeyed]
  /\ records = {}
  /\ batches = [t \in Files |-> {}]
  /\ sending = {}
  /\ cache = {}
  /\ stored = {}
  /\ uploaded = [t \in Files \cup {Content} |-> {}]
  /\ failed = [t \in Files \cup {Content} |-> {}]

------------------------------------------------------------------------------
(* The socket threads of serversocket.                                       *)

\* A record reaches the queue.  Rows of one table come in their order.  Those of
\* different tables need not: the manager, each command and the extension have a
\* connection each.  (The tables of the extension share one, hence their rows do
\* come in order; the model allows more.)
Enqueue(r) ==
  /\ r \in coming /\ Len(queue) < QueueBound
  /\ ~ \E s \in coming : s.crawl = r.crawl /\ s.table = r.table /\ s.visit < r.visit
  /\ coming' = coming \ {r}
  /\ queue' = Append(queue, r)
  /\ UNCHANGED <<control, memory, sending, bucket>>

------------------------------------------------------------------------------
(* listener_process_runner.                                                  *)

\* save_batch_if_past_timeout, past BATCH_COMMIT_TIMEOUT.
PastTimeout ==
  /\ pc = "loop" /\ received
  /\ draining' = "timeout" /\ pc' = "drain"
  /\ UNCHANGED <<feed, signalled, record, memory, sending, bucket>>

\* It returns early.
NotPastTimeout ==
  /\ pc = "loop"
  /\ pc' = "check"
  /\ UNCHANGED <<feed, signalled, record, draining, memory, sending, bucket>>

\* should_shutdown, which takes the signal from the queue.
ShouldShutdown ==
  /\ pc = "check" /\ signalled
  /\ draining' = "shutdown" /\ pc' = "drain"
  /\ UNCHANGED <<feed, signalled, record, memory, sending, bucket>>

\* record_queue.get, in the loop or in drain_queue.
GetRecord ==
  /\ \/ pc = "check" /\ ~signalled
     \/ pc = "drain"
  /\ queue # <<>>
  /\ record' = Head(queue) /\ queue' = Tail(queue)
  /\ pc' = "record"
  /\ UNCHANGED <<coming, signalled, draining, memory, sending, bucket>>

\* queue.Empty after five seconds.
GetTimeout ==
  /\ pc = "check" /\ ~signalled /\ queue = <<>>
  /\ pc' = "loop"
  /\ UNCHANGED <<feed, signalled, record, draining, memory, sending, bucket>>

\* Back to where process_record was called.
Return == pc' = IF draining = "no" THEN "loop" ELSE "drain"

------------------------------------------------------------------------------
(* process_record and process_content.                                       *)

\* Mutant: the time of the record is not noted.
ReceiveUntimed == UNCHANGED received

Receive == received' = TRUE

Report(t, rs) == failed' = [failed EXCEPT ![t] = @ \cup rs]

\* The record lacks a visit_id or a crawl_id: it is logged and dropped.
DropUnkeyed ==
  /\ pc = "record" /\ record.table # Content /\ record.visit = Unkeyed
  /\ Receive
  /\ Report(record.table, {record})
  /\ record' = NoRecord
  /\ Return
  /\ UNCHANGED <<feed, signalled, draining, browserMap, records, batches, sending,
                 cache, stored, uploaded>>

\* The row belongs to the visit its browser is at, or is the browser's first.
WriteRow ==
  /\ pc = "record" /\ record.table # Content /\ record.visit # Unkeyed
  /\ browserMap[record.crawl] \in {Unkeyed, record.visit}
  /\ Receive
  /\ browserMap' = [browserMap EXCEPT ![record.crawl] = record.visit]
  /\ records' = records \cup {record}
  /\ record' = NoRecord
  /\ Return
  /\ UNCHANGED <<feed, signalled, draining, batches, sending, bucket>>

\* _create_batch for the visits vs: a batch for each visit and table, except
\* for those that are not valid, whose loss is logged.  The index has an item
\* for each row of site_visits, valid or not.
CreateBatches(vs) ==
  LET rows(v, t) == {r \in records : r.visit = v /\ r.table = t}
      keys       == {<<r.visit, r.table>> : r \in {s \in records : s.visit \in vs}}
  IN \E invalid \in SUBSET keys :
       /\ batches' = [t \in Files |-> batches[t] \cup
            IF t = Index
            THEN {{r} : r \in {s \in records : s.visit \in vs /\ s.table = SiteVisits}}
            ELSE {rows(k[1], t) : k \in {l \in keys \ invalid : l[2] = t}}]
       /\ failed' = [t \in DOMAIN failed |-> failed[t] \cup
            UNION {rows(k[1], t) : k \in {l \in invalid : l[2] = t}}]
       /\ records' = {r \in records : r.visit \notin vs}

\* Tables sent although it is not the last call.
Sends(t) == Cardinality(batches[t]) > CacheSize

\* Mutant: the batches of the previous visit are not created.
MoveOnAlone ==
  /\ pc = "record" /\ record.table # Content /\ record.visit # Unkeyed
  /\ browserMap[record.crawl] \notin {Unkeyed, record.visit}
  /\ Receive
  /\ sending' = {t \in Files : Sends(t)}
  /\ pc' = "send"
  /\ UNCHANGED <<feed, signalled, record, draining, browserMap, records, batches, bucket>>

\* The browser has moved on to a new visit.
MoveOn ==
  /\ pc = "record" /\ record.table # Content /\ record.visit # Unkeyed
  /\ browserMap[record.crawl] \notin {Unkeyed, record.visit}
  /\ Receive
  /\ CreateBatches({browserMap[record.crawl]})
  /\ sending' = {t \in Files : Sends(t)'}
  /\ pc' = "send"
  /\ UNCHANGED <<feed, signalled, record, draining, browserMap, cache, stored, uploaded>>

\* Once the batches are sent, the row is written.
MovedOn ==
  /\ pc = "send" /\ sending = {} /\ record # NoRecord
  /\ browserMap' = [browserMap EXCEPT ![record.crawl] = record.visit]
  /\ records' = records \cup {record}
  /\ record' = NoRecord
  /\ Return
  /\ UNCHANGED <<feed, signalled, draining, received, batches, sending, bucket>>

\* Mutant: the file name is cached whatever comes of the upload.
CacheAlways(ok) == cache' = cache \cup {record.visit}

Remember(ok) == cache' = IF ok THEN cache \cup {record.visit} ELSE cache

\* _write_str_to_s3: the page's content is there already, is uploaded, or is
\* lost with an error in the log.
WriteContent ==
  /\ pc = "record" /\ record.table = Content
  /\ Receive
  /\ \/ /\ record.visit \in cache \cup stored
        /\ Remember(TRUE)
        /\ uploaded' = [uploaded EXCEPT ![Content] = @ \cup {record}]
        /\ UNCHANGED <<stored, failed>>
     \/ /\ record.visit \notin cache
        /\ Remember(TRUE)
        /\ stored' = stored \cup {record.visit}
        /\ uploaded' = [uploaded EXCEPT ![Content] = @ \cup {record}]
        /\ UNCHANGED failed
     \/ /\ record.visit \notin cache
        /\ Remember(FALSE)
        /\ Report(Content, {record})
        /\ UNCHANGED <<stored, uploaded>>
  /\ record' = NoRecord
  /\ Return
  /\ UNCHANGED <<feed, signalled, draining, browserMap, records, batches, sending>>

------------------------------------------------------------------------------
(* _send_to_s3 and drain_queue.                                              *)

\* Mutant: the batches of a table are kept after its upload.
KeepBatches(t) == UNCHANGED batches

ClearBatches(t) == batches' = [batches EXCEPT ![t] = {}]

\* The table is uploaded, or an error is logged; its batches go either way.
SendTable(t) ==
  /\ pc = "send" /\ t \in sending
  /\ \/ /\ uploaded' = [uploaded EXCEPT ![t] = @ \cup UNION batches[t]]
        /\ UNCHANGED failed
     \/ /\ Report(t, UNION batches[t])
        /\ UNCHANGED uploaded
  /\ ClearBatches(t)
  /\ sending' = sending \ {t}
  /\ UNCHANGED <<feed, control, received, browserMap, records, cache, stored>>

\* The queue is found empty: batch what every browser has, send everything.
\* (An empty index is uploaded too; it has nothing in it.)
Flush ==
  /\ pc = "drain" /\ queue = <<>>
  /\ CreateBatches({browserMap[c] : c \in Crawls} \ {Unkeyed})
  /\ sending' = {t \in Files : batches'[t] # {}}
  /\ pc' = "send"
  /\ UNCHANGED <<feed, signalled, record, draining, received, browserMap, cache,
                 stored, uploaded>>

\* drain_queue returns, to save_batch_if_past_timeout or to shut down.
Flushed ==
  /\ pc = "send" /\ sending = {} /\ record = NoRecord
  /\ IF draining = "timeout"
     THEN pc' = "check" /\ received' = FALSE
     ELSE pc' = "exited" /\ UNCHANGED received
  /\ draining' = "no"
  /\ UNCHANGED <<feed, signalled, record, browserMap, records, batches, sending, bucket>>

------------------------------------------------------------------------------
\* An exception that nothing handles: a table that the schema lacks, or an S3
\* error other than the ones caught.
Die ==
  /\ pc \in {"record", "send"}
  /\ pc' = "dead"
  /\ UNCHANGED <<feed, signalled, record, draining, memory, sending, bucket>>

\* BaseAggregator.shutdown, called when the browsers are closed.
Signal ==
  /\ ~signalled
  /\ signalled' = TRUE
  /\ UNCHANGED <<feed, pc, record, draining, memory, sending, bucket>>

\* The join ends after 300 seconds, and the daemon process goes with its parent.
Kill ==
  /\ signalled /\ pc \notin Gone
  /\ pc' = "killed"
  /\ UNCHANGED <<feed, signalled, record, draining, memory, sending, bucket>>

Listener ==
  \/ PastTimeout \/ NotPastTimeout \/ ShouldShutdown \/ GetRecord \/ GetTimeout
  \/ DropUnkeyed \/ WriteRow \/ MoveOn \/ MovedOn \/ WriteContent
  \/ \E t \in Files : SendTable(t)
  \/ Flush \/ Flushed

Next ==
  \/ \E r \in Records : Enqueue(r)
  \/ Listener \/ Die
  \/ Signal \/ Kill
  \/ pc \in Gone /\ UNCHANGED vars

Spec == Init /\ [][Next]_vars

\* The listener runs, and 30 seconds do pass when no record comes.
Fairness == WF_vars(Listener) /\ SF_vars(PastTimeout)

FairSpec == Spec /\ Fairness

------------------------------------------------------------------------------
TypeOK ==
  /\ coming \subseteq Records
  /\ queue \in Seq(Records)
  /\ signalled \in BOOLEAN /\ received \in BOOLEAN
  /\ pc \in PCs
  /\ record \in Records \cup {NoRecord}
  /\ draining \in {"no", "timeout", "shutdown"}
  /\ browserMap \in [Crawls -> Visits]
  /\ records \subseteq Rows
  /\ batches \in [Files -> SUBSET SUBSET Rows]
  /\ sending \subseteq Files
  /\ cache \subseteq Visits /\ stored \subseteq Visits
  /\ uploaded \in [Files \cup {Content} -> SUBSET Records]
  /\ failed \in [Files \cup {Content} -> SUBSET Records]

\* Every record is at one place, once: a record that was accepted is uploaded
\* or its loss is in the log, it is never dropped silently or uploaded twice,
\* in whatever order the connections deliver and whatever upload fails.
OnePlace ==
  \A r \in Records :
    LET at == [coming   |-> r \in coming,
               queue    |-> \E i \in DOMAIN queue : queue[i] = r,
               record   |-> r = record,
               records  |-> r \in records,
               batches  |-> r.table \in Tables /\ r \in UNION batches[r.table],
               uploaded |-> r \in uploaded[r.table],
               failed   |-> r \in failed[r.table]]
    IN Cardinality({p \in DOMAIN at : at[p]}) = 1

\* A row of site_visits that was turned into a batch has one item in the index,
\* to be uploaded, uploaded, or reported.
IndexComplete ==
  \A r \in Records : r.table = SiteVisits /\ r.visit # Unkeyed =>
    LET at == [batches  |-> r \in UNION batches[Index],
               uploaded |-> r \in uploaded[Index],
               failed   |-> r \in failed[Index]]
    IN Cardinality({p \in DOMAIN at : at[p]}) =
         IF \/ r \in coming \cup records \cup {record}
            \/ \E i \in DOMAIN queue : queue[i] = r
         THEN 0 ELSE 1

\* The final drain looks for rows under the visits of browser_map alone: no
\* row is kept under another visit, even if a row of the previous visit comes
\* late, or two browsers use the same visit id.
DrainFindsAll == \A r \in records : \E c \in Crawls : browserMap[c] = r.visit

\* A listener that shut down by itself has nothing left in memory.
NothingLeftInMemory ==
  pc = "exited" => records = {} /\ record = NoRecord /\ \A t \in Files : batches[t] = {}

\* Nothing escapes the last upload: every row in memory is one that the drain
\* looks for, and when it is over there is none.
DrainedAll == DrainFindsAll /\ NothingLeftInMemory

\* Content that was not uploaded because it "already exists on s3" does exist.
ContentKept == \A r \in uploaded[Content] : r.visit \in stored

\* The aggregator keeps the ledger of its records: what it takes from its
\* queue it holds until it is uploaded or its loss is in the log; neither is
\* ever undone, and it does not exit while it holds a record.
Ledger == INSTANCE RecordLedger WITH
            sent     <- {r \in Records : r \in coming \/ \E i \in DOMAIN queue : queue[i] = r},
            held     <- {r \in Records : \/ r = record
                                        \/ r \in records
                                        \/ (r.table \in Tables /\ r \in UNION batches[r.table])},
            kept     <- {r \in Records : r \in uploaded[r.table]},
            reported <- {r \in Records : r \in failed[r.table]},
            ended    <- IF pc \notin Gone THEN "no" ELSE IF pc = "exited" THEN "exited" ELSE "crashed"

LedgerSpec == Ledger!Spec

\* A row that reached the queue is uploaded or reported in the end, without
\* any further record or a shutdown, unless the listener goes before it.
Settled(r) == r \in uploaded[r.table] \cup failed[r.table]

EventuallySettled ==
  \A r \in Records :
    (\E i \in DOMAIN queue : queue[i] = r) ~> (Settled(r) \/ pc \in Gone)
==============================================================================
