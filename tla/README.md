# Verification of OpenWPM

OpenWPM (this repository) crawls web sites: a `TaskManager` drives several
browsers, the browsers' extension and the TaskManager send records to a data
aggregator, and many crawl workers share a queue of sites in Redis.  This
directory holds TLA+ models of its parts, configurations that check them with
TLC on small instances, and proofs that TLAPS checks for every instance.

## 1. Inventory

| Part | Code | State it keeps | Operations | Talks to |
|---|---|---|---|---|
| Job queue | `automation/utilities/rediswq.py` | in Redis: list of waiting jobs, list of jobs being processed, hash of retry counts, a lease key per job | `empty`, `check_expired_leases`, `_maybe_renew_job`, `lease`, `complete` | Redis only; other workers through it |
| Crawl loop | `crawler.py` | the job at hand | take, visit, complete, until empty | job queue, TaskManager |
| TaskManager | `automation/TaskManager.py` | `closing`, `failure_status`, `failurecount`, the aggregator socket | `execute_command_sequence`, `close`, one command thread per visit, memory watchdog | Browser objects (shared with its threads), aggregator |
| Browser / BrowserManager | `automation/BrowserManager.py` | `is_fresh`, `restart_required`, `curr_visit_id`, the two queues, the process | launch, restart, close, kill; the child's command loop | a pair of `multiprocessing` queues |
| Aggregators | `automation/DataAggregator/` | S3: rows by visit, batches by table, content cache. Local: open transaction, id counters | `process_record`, `drain_queue`, uploads or commits, status reports | queue fed by socket threads; a shutdown queue, a status queue |
| Socket transport | `automation/SocketInterface.py`, `Extension/firefox/src/privileged/sockets` | bytes of a connection, the message being read | framing (`bufferpack`), `receive_msg`, `onInputStreamReady` | aggregators, logging server, extension |
| HTTP instrument | `Extension/webext-instrumentation/src/background/http-instrument.ts` and its `lib/pending-*`, `lib/response-body-listener.ts` | pending requests and responses, body listeners, waiting handlers | four `webRequest` listeners, the response filter | browser, `loggingdb.js` |
| Navigation, cookie, stack instruments | `background/navigation-instrument.ts`, `cookie-instrument.ts`, `callstack-instrument`, `privileged/stackDump` | pending navigations; channels and stacks on their way | `webNavigation` and cookie listeners, actors, polling | browser, content process, `loggingdb.js` |
| JavaScript instrument | `lib/js-instruments.ts`, `content/javascript-instrument-*`, `background/javascript-instrument.ts` | `inLog`, `logCounter`, queue of messages, values behind accessors | accessors, log calls, debounced queue | the page, content script, `loggingdb.js` |
| Extension data path | `Extension/firefox/feature.js` | visit id, queue of announced ids, start-up phase, ordinal of events | `saveRecord`, listening socket, `main()` | aggregator, the browser's process |
| Logging server | `automation/MPLogger.py` | one queue used as handshake and shutdown signal | `_start_listener`, `close` | all processes |
| Commands | `automation/Commands/` | tabs, windows of a browser | `GET`, `BROWSE`, screenshots, dumps | Selenium, the extension's socket |

What is hard in it:

* *Interleaving.* Workers share Redis lists in several round trips; command
  threads, the main thread and the watchdog share Browser objects without locks
  (`threadlock` guards one counter); socket threads feed one queue; in the
  extension everything between two `await`s of a handler may be another handler.
* *Failure.* A worker may die anywhere; a browser may hang, crash, fail to start
  or answer late; an upload may fail; the listener may die; a tab may be closed
  under a handler that asks for it; a response filter may fail.
* *Timeouts.* Every wait for a browser is bounded, and what was waited for may
  come later, when somebody else is waiting.  The extension's handlers give up
  one second after an event that may yet come.
* *Ordering.* Statuses and records carry no sequence numbers; a browser's
  records take several connections; a stack and its channel reach the parent
  process by different ways; two events of a navigation wait for the tab
  independently.
* *Stale state.* Visit ids are announced in a queue that is read only when a
  record is saved; pending requests and navigations are not removed.
* *Re-entrance.* Serialising a logged value runs code of the page, which uses
  instrumented properties and logs again.

What makes each part correct: no job is lost, entered twice or retried without
bound, and work ends when there is none; a status is credited to the command it
answers, the history of a visit is complete up to its first failure, a profile
is shared by two visits only if nothing went wrong, no BrowserManager process is left behind,
failures stop the crawl, everything ends; each record is stored or reported
once; each event of the browser becomes one record or one of the losses the
code allows, with its own ordinal and the newest visit id; the instrumented
page behaves as it would without the instrument; a stream of bytes is read as
the messages that were written to it.

## 2. Modules

| Module | Models | Kind |
|---|---|---|
| `JobLedger` | what the job queue promises: a job is queued, held or retired | abstract specification |
| `RedisWQ` | `rediswq.py` and `crawler.py`'s loop, for any number of workers | component |
| `TaskManager` | `TaskManager.py` and `BrowserManager.py`: main thread, command threads, children, watchdog, user | component |
| `RecordLedger` | what the S3 aggregator promises for records: taken once, then stored or reported, for good | abstract specification |
| `S3Aggregator` | `S3Aggregator.py` on `BaseAggregator.py`, fed by socket threads | component |
| `LocalAggregator` | `LocalAggregator.py` on `BaseAggregator.py`, with the manager that waits for it before it submits a visit | component |
| `LoggingDB` | `loggingdb.js`: `saveRecord` and the visit ids; the instruments extend it | shared part |
| `HttpInstrument` | `http-instrument.ts`, pending requests and responses, response bodies | component |
| `NavigationInstrument` | `navigation-instrument.ts` and `pending-navigation.ts` | part of `Extension` |
| `StackDump` | the stack of a request from the content process to its record | part of `Extension` |
| `Extension` | `index.js`: starts the instruments; composes navigations, cookies and stacks on one visit id and one counter | composition |
| `JsInstruments` | `js-instruments.ts`, the content script and the background part | component |
| `BufferPack` | integers of `bufferpack.js` as sequences of bytes | pure operators |
| `MessagePipe` | what a connection promises: a first-in, first-out queue of whole messages | abstract specification |
| `SocketTransport` | a connection: sender, network, and the extension's or Python's reader | component |
| `*_proofs` | theorems about the module they are named after (`SocketTransport_proofs` about `BufferPack` too) | proofs |
| `MCRedisWQ`, `MCS3Aggregator`, `MCSocketTransport` | small sets of workers, jobs, records and payloads for TLC | instances |

The other components have only numbers, strings and sets of strings for
constants, so their configurations use them directly.  A definition whose
comment begins with "Mutant" is a variant with a plausible bug: no specification
uses it, and putting it in the place of the definition it varies breaks a
property (`PROJECT.json` lists which).

### Job queue (`RedisWQ`)

Each Redis command or transaction is one action, and between two of them any
other worker may act.  `main[j]` and `processing[j]` count the entries of job
*j* in the two lists: the order in which jobs are taken does not matter to any
property, so `brpoplpush` takes any entry.  `WATCH` is a flag per worker that
every write to a watched key raises (`Touch`); `EXEC` goes through only if it is
down (`Unspoiled`).  A worker's program counter names the call it is in:
`ReadMainSize` and `ReadProcessingSize` are `empty()`; `Scan`, `CheckLease`,
`Watch`, `ExecDrop`, `ExecRenew`, `ExecSpoiled`, `ScanDone` are
`check_expired_leases` with `_maybe_renew_job`; `Take`, `TakeTimeout`, `Sign`
are `lease`, whose pop and lease key are two round trips; `Visit` is the crawl
of the site; the three `Complete` actions are the three calls of `complete`.
`Mortal` workers may crash in any state.  `LeaseExpires` removes a lease key at
any time when `Outlast` is set, else only when its owner is gone.

### Command life cycle (`TaskManager`)

The main thread is actor 0; the command thread of browser *b* is actor *b*, idle
when no visit is running.  The procedures that launch and close a browser
(`launch_browser_manager`, `close_browser_manager`) run in either, so they are
written once for an actor *a* that works on browser `Target(a)`.  `child[b]` is
the BrowserManager process, with the two queues between it and its parent; a
child answers in its own time or never, which stands for a slow, a hung and a
killed browser alike.  A status remembers the command it answers (`of`), which
no action reads and the properties do.  A timeout may fire whenever there is
nothing to read: this covers every relation between the timeouts and the
browser's speed.  The five launch statuses are one, since a launch that stops
halfway is a `FAILED` or a timeout whatever it stopped at.

Close in the main thread: `Close`/`FailOnExecute`/`FailOnJoin`/`LaunchFails`/
`MainSpawnCritical` begin the shutdown; then for each browser `JoinThread` or
`JoinTimeout`, `SendShutdown`, `ShutdownAcked`, `ShutdownRefused`,
`ShutdownTimeout`, `Reap`, and `FinishShutdown` at the end.  A visit in a
command thread: `PutCommand`, one of `ReceiveOk`, `ReceiveFailure`,
`ReceiveCritical`, `RecordRaises`, then `Tally`, `EndVisit` or `Restart`.

### S3 aggregator (`S3Aggregator`)

Socket threads put `Records` in the queue in an order that respects only the rows
of one browser and table, which allows more than the connections do.  The listener's loop is split where it reads
shared state: `PastTimeout`/`NotPastTimeout`, `ShouldShutdown`, `GetRecord`,
`GetTimeout`; `process_record` is `DropUnkeyed`, `WriteRow`, or `MoveOn` with
`SendTable` steps and `MovedOn`; `process_content` is `WriteContent`;
`drain_queue` is `GetRecord` until the queue is empty, then `Flush`, `SendTable`
steps and `Flushed`.  Batches may be invalid (schema), uploads may fail with an
error that is logged, or with one that ends the process (`Die`); the parent may
shut down at any time (`Signal`) and leave before the listener is done (`Kill`).

It implements `RecordLedger`: a record is `sent` until the listener takes it from
its queue, `held` while it is in hand, among the rows or in a batch, `kept` once
it is uploaded, `reported` once its loss is in the log; the listener `ended` by
itself (`exited`) or not (`crashed`).  A step that stores or reports a whole
table, or logs the batches that do not fit the schema, is one `Settle` of the
ledger.

### Local aggregator (`LocalAggregator`)

One process is the manager (`mpc`), the other the listener (`lpc`), and `run`
counts the crawls on one database.  `Start` is the constructor, which continues
the visit ids from the database (`LastUsed`), and the launch of the listener;
`Poll`, `Await`, `AwaitTimeout` are `get_most_recent_status` and `get_status`
inside `execute_command_sequence`, which submits only when the reported queue is
short; `Submit` is `_start_thread`, after which the records of the visit reach
the queue one by one (`Enqueue`), in an order that only the manager's own
connection constrains.  The listener's loop is `SendStatus`/`SkipStatus`,
`ShouldShutdown`, then `Sleep` or a record (`Insert`, `Reject`, `Create`,
`KeepContent`), then `Commit`/`NoCommit` and `Write`/`NoWrite`; its end is the
drain, `LastCommit` and `LastWrite`.  `JoinTimeout` is the manager
that stops waiting: the listener goes on until it ends by itself or the manager
leaves.  `Crash` ends all processes at any moment, also that of a manager that
leaves a listener behind, and SQLite rolls back what was not committed; `Die` is an exception that nothing
handles.  A commit may happen whenever its counter is positive, and must when
the counter reaches the batch size: the clock is not modelled.

### Records and visit ids (`LoggingDB`)

`announced` counts the ids that reached the listening socket, `queue` holds
those that no record has taken, `visitID` is the last one taken.  `SaveRecord`
is an operator, not an action: it is called inside the handlers' actions, as
`saveRecord` is, and it empties the queue before it stamps the record.
`ordinal` is the counter of `extension-session-event-ordinal.ts`, which all
instruments of the background page share.

### HTTP instrument (`HttpInstrument`)

The browser's side is `traits`, `stage`, `leg`, `post`, `delivered` and
`tabOpen`: a request is opened, sent, perhaps redirected (another leg under the
same id), completed or failed.  `OnBeforeRequest`, `OnBeforeSendHeaders`,
`OnBeforeRedirect` and `OnCompleted` are the listeners up to their first
`await`; the rest of a handler is a member of `tasks` whose `pc` says what it
waits for, and `GotTab`, `TabGone`, `RequestBodyReady`, `RequestBodyTimeout` and
`ResponseBodyReady` are its continuations.  A promise that is resolved a second
time keeps its first value (`Resolved`), which decides what body a redirected
POST is recorded with.  `OnData`, `OnStop`, `FilterFails` and `DigestReady` are
the response filter: the digests are asynchronous, and `contentHash` is the
first that is ready.  A digest is named by the chunk it is made of.

### Navigations (`NavigationInstrument`)

`pendingNavigations[f]` is the navigation whose pending object the frame has;
`before[f][n]` is what its promise was resolved with.  `OnBeforeNavigate` and
`OnCommitted` add a handler to `navTasks`.  It first waits for the tab
(`BeforeDescribed`, `CommittedDescribed`, `TabUnknown`); the second one then
waits for the pending object (`Joined`, `TimesOut`).

### Stacks (`StackDump`)

`OpenInChild` sends a message of each actor whose window the request belongs to;
`OpenInParent` and `ExamineResponse` keep `gChannelMap`, which the parent's
observer fills only once it is registered.  A message goes through `messages`,
perhaps `polling`, `firing` and the record: `Receive`, `Poll`, `SaveStack`.  An
event that nobody listens to is `unheard`.

### The extension's background page (`Extension`)

`phase` is how far `main()` is: `ReadConfig`, `Opened`, `Registered`.
`WritePort` is the continuation that `open()` does not wait for, and
`VisitStarts` needs the port.  The next-state relation is that of the two
instruments with `CookieChanged` and the start-up, over one `LoggingDB`.

### JavaScript instrument (`JsInstruments`)

The page is one thread.  `frames` is the stack of log calls whose value is being
serialised; while it is not empty the page may use properties again.  `Get`,
`Call`, `SetPrevented`, `SetByAccessor`, `SetFails`, `SetData`, `SetThrows` and
`SetOwn` are the uses of a property, through the object or an heir, each with
its log call (`Log`); `Serialized` ends one.  `Flush` and `Rearm` are the
debounced timer, `HandleMessage` the background page, `Unload` the end of the
page.  `reference` and `refOwn` are what an uninstrumented page would have.

### Sockets (`SocketTransport`, `BufferPack`)

`wire` is all that was written, `arrived` how much of it the reader's socket
has, `read` how much it has taken.  `Arrive` cuts the stream anywhere.
`OnInputStreamReady` is the extension's reader, which takes a message as a whole
or stops; `ReceiveHeader` and `ReceivePayload` are Python's, which waits for
what it lacks.  It implements `MessagePipe`: a message is `waiting` from the
moment it is written, if its reader accepts it, and `passed` when the
reader has put it in its queue; what happens to bytes and headers in between is
no step of the pipe.  `BufferPack` has `Pack` and `Unpack` of big- and little-endian
integers over bytes of any even base, so that small bases can be checked and all
be proved about.

## 3. Runs

| Run | Instance | Shows |
|---|---|---|
| `job_queue` | 3 workers (2 mortal), 1 job, 1 retry, leases may run out during a visit | no crash, race or late completion loses a job or enters it twice (`JobsKept`); a job is dropped only after `max_retries` renewals, and renewed no more often unless a late completion has deleted its count (`RetryPolicy`); the lists implement `JobLedger` (`LedgerSpec`); a surviving worker drains the queue (`SurvivorDrains`) |
| `task_manager` | 2 browsers, 2 visits of 2 commands, limit 1, 1 spawn attempt | a late answer is never credited to another command (`RepliesMatch`); histories are prefixes and profiles are shared only by visits without failure or reset (`CleanVisits`); no BrowserManager process is overwritten (`NoOrphan`); failures in a row beyond the limit are noticed, unless another thread's success resets the count between increment and comparison (`LimitEnforced`); after `close()` a joined browser is gone (`JoinedMeansGone`) |
| `task_manager_live` | 2 browsers, 1 visit, 2 spawn attempts | command threads and the shutdown end, however the browsers behave |
| `s3` | 2 browsers, 7 records, 1 batch per table kept | each record is stored or reported once (`OnePlace`), for good, and none is held when the listener exits (`LedgerSpec`); the index is complete; the drain leaves nothing (`DrainedAll`); the cache of contents tells the truth (`ContentKept`); nothing waits for ever |
| `local` | 3 crawls of 2 visits, a row and a content each | visits in `site_visits` have no gap and no id twice, wherever the crawls crashed; a listener that shuts down by itself keeps what it took |
| `local_live` | 1 crawl of 2 visits, which also creates tables | what the listener has is stored though nothing else comes; back-pressure ends, even with a dead listener |
| `http` | 1 request in or out of a tab, 2 legs, 2 chunks, 2 visits | every record carries the newest visit id (`StampedWithNewest`); each counted event is waiting, recorded once or lost with its tab (`EventsAccounted`); ordinals tell the order of a request's events whatever order the handlers end in (`OrdinalsTellOrder`); a POST that was seen from its start is recorded with its body on every leg (`PostBodyKept`); stored contents are whole (`ContentComplete`); handlers end but for the responses whose body never comes (`HandlersEnd`) |
| `extension` | 1 frame with 2 navigations, 1 channel, 1 actor, 1 cookie, 1 visit | a navigation never has an earlier one's attributes (`NeverStale`); each commit that was seen is accounted for; no visit begins before the navigation and cookie instruments listen; nothing is recorded twice; everything settles |
| `js_page` | 1 property (data, writable or not, accessor, accessor without a setter, or missing), 4 uses, log limit 2, nesting 2, 1 visit | the records are in the page's order without a gap (`InOrder`); `inLog` tells logging (`InLogTellsLogging`); reads are what they would be without the instrument, functions in wrappers, with the exceptions of section 4 (`Transparent`); what was logged arrives (`Delivered`) |
| `sockets` | 3 messages to either reader, bytes of base 4, 3 symbols, 2 payloads, of which Python refuses one under one symbol | whatever pieces the bytes come in, the messages are those that were sent (`NothingGarbled`), in the order of a queue (`PipeSpec`), and all come, unless the connection breaks, the extension's reader meets a part of a message, or Python's a payload that it refuses (`AllReceived`) |
| `one_holder`, `http_hash` | 3 workers and a job; 1 request with 2 chunks | the findings of section 4 |

*Why the bounds are enough.*

* `job_queue`: a job in trouble concerns the worker that holds it, the one that
  renews it and the one that takes it next: three workers.  Two of them may
  crash, so that a job can lose two holders in a row, and the third shows that
  work goes on.  With one retry a job is renewed, taken again and given up.
  Jobs share nothing but the program counters of the workers: a second job adds
  no new conflict, and the theorems hold for any number.
* `task_manager`: two browsers are the least with which threads race for
  `failurecount` and the shutdown passes from one browser to another; two
  visits, the least with which an answer or a profile can reach the wrong visit;
  two commands, the least with which a sequence can be cut.  With a limit of one
  a single failure is forgiven and the second in a row is not.  That a success
  of a third visit hides the second takes a limit of zero
  (`TaskManager_limit.cfg`) or more visits; the theorem is about any.
* `task_manager_live` has a second spawn attempt, so that a launch that fails is
  followed by one that does not, and only one visit, since liveness is checked
  on the whole graph.
* `s3`: the seven records hold the cases the code must tell apart: a row without
  ids, two browsers on one visit id (the extension's -1), a row of a visit that
  comes after its browser has moved on, the same content twice.  A cache of one
  batch is passed by the second.  The queue is bounded by `QueueBound` = 1: the
  order of arrival is free even so, because socket threads choose which record
  goes next.
* `local`: a third crawl continues from what two crashed ones left; two visits
  are the least with which there is a gap or a transaction with a past.  A
  batch of two is reached by the second record, and passed over by the clock
  before.  `local_live` has a queue limit of one, so that every record that
  waits when a report is made blocks the second visit.
* `http`: requests share only the counter and the visit ids; what is hard is
  several legs of one id, whose handlers, promises and listeners overlap, so one
  request with a redirect, and two chunks, the least for which the first digest
  is not the whole.  Two ids in the queue are the least of which the older must
  be skipped.  Two requests of one leg and one chunk (`Requests = {"r1", "r2"}`,
  `MaxVisits = 0`) hold too, on a graph of 1.7 million states that is left out
  of the runs for its size; the theorems hold for any number.
* `extension`: two navigations of a frame are the least for which one can take
  the other's place; frames share nothing but the counter.
* `js_page`: the initial states take each of the five `Kinds`, every type of value
  and both settings.  With a limit of two a symbol is logged, logged again
  inside of its own log call, and refused; the kinds are independent per
  property, and nesting needs only one.  `MaxLogCount` is the code's limit (500),
  not a bound on the model.
* `sockets`: one of the payloads is a sequence that reads like a header, so that
  a reader which loses its place goes on with nonsense; three messages let it
  lose its place, misread, and go on.  `MCSocketTransport` also has an `ASSUME`
  that checks `Unpack` against `Pack` for all values of the format.

Bounds in guards: `MaxVisits` (visits the user starts, or ids that are
announced), `MaxRuns` (crawls on a database), `QueueBound` (records in the
aggregator's queue), `StatusBound` (reports in the status queue; a report that
finds it full is skipped), `MaxLegs` and `MaxChunks` (of a request),
`MaxNavs` (of a frame), `MaxCookies`, `MaxOps` (uses of properties), `MaxDepth`
(of nested log calls), `MaxMessages` (of a connection), and the saturation of
`renewals` above `MaxRetries`.  In `TaskManager`, `failurecount` is bounded by
the visits, in `RedisWQ` the retry counts by `MaxRetries`.  `SYMMETRY` is used
only in `one_holder`, where no worker is mortal and the property is an
invariant.  Deadlock is checked in the runs of the Python side; a page that is
used up, an extension without events and a closed connection do stop, so
`http`, `http_hash`, `extension`, `js_page` and `sockets` say `CHECK_DEADLOCK
FALSE`.

*Fairness.*  `RedisWQ`: a worker that has not crashed keeps running, and Redis
does expire keys (weak fairness of each worker's steps and of each expiry).
`SurvivorDrains` is claimed for immortal workers only, and from the state in
which the worker is the last: two workers that take each other's jobs for
expired need not finish.  `TaskManager`: the main thread and the command threads
run, because every one of their waits has a timeout; nothing is assumed of
browsers, watchdog or user, so that a browser that hangs for ever is among the
behaviours.  `S3Aggregator`: the listener runs, and 30 seconds without a record
do pass (strong fairness of `PastTimeout`, since the loop comes by it again and
again until then).  `Die` and `Kill` are never forced; a listener that is gone
settles nothing, and `EventuallySettled` says so.  `LocalAggregator`: manager
and listener run, and the five seconds between two commits pass (strong fairness
of `Commit` and `Write`); the user, crashes and the network are not forced.
`HttpInstrument`: `tabs.get` is answered or rejected and timers fire, digests
are computed, and a completed response is streamed to its end; no request has to
be made or answered, no filter has to fail.  `Extension`: `main()` goes on,
`tabs.get` is answered, timers fire and messages arrive; nothing has to happen
in a page.  `JsInstruments`: code of the page returns, timers fire, messages
arrive; the page need not do anything.  `SocketTransport`: the network delivers
and the reader is called.

## 4. Findings

Each is a behaviour of the code that contradicts a sentence of its
documentation or tests, found by a run of one property.

1. `one_holder`: `lease()` moves a job and leases it in two round trips
   (`rediswq.py:210-221`).  A worker that looks for expired leases in between
   gives the job away though no lease ran out (docstring, 203-205).
2. `http_hash`: `ondata` hashes each chunk as it arrives
   (`response-body-listener.ts:24-27`) and the promise keeps the digest that is
   ready first, while the body is all the chunks.  A script that comes in more
   than one chunk is stored under the hash of one of them (`README.md:132-133`,
   `test/test_http_instrumentation.py:644`).

Further disagreements have a configuration each, which TLC refutes; they are
reproduced with `tlc -config X.cfg M`.

| Configuration | Module, property | What happens |
|---|---|---|
| `MCRedisWQ_Exits.cfg` | `MCRedisWQ`, `ExitsOnlyWhenEmpty` | `empty()` reads the queues in two round trips (`rediswq.py:74`); a job renewed in between is seen in neither, and the worker leaves while work is left (docstring, 11-13).  `SurvivorDrains` is the part that holds |
| `TaskManager_abort.cfg` | `TaskManager`, `ShutdownReachesAll` | closing a browser that was never launched reads the pid of `None` (`BrowserManager.py:310`), and the socket, the aggregator and the logging server stay open |
| `TaskManager_closed.cfg` | `TaskManager`, `BrowsersClosed` | a command thread tests `closing` and then restarts its browser (`TaskManager.py:471`); the shutdown does not wait so long, and the new process outlives the TaskManager.  `JoinedMeansGone` is the part that holds |
| `TaskManager_limit.cfg` | `TaskManager`, `OverstepNoticed` | a thread counts the failure that passes the limit, another thread counts a success before the first compares (`TaskManager.py:445-447`, 461-462), and the crawl goes on ("the number of successive command failures the platform will tolerate", `README.md:276-279`).  `LimitEnforced` is the part that holds |
| `TaskManager_series.cfg` | `TaskManager`, `SeriesPerformed` | the watchdog's request cuts a command sequence after a command that succeeded (`TaskManager.py:464`); the rest is skipped without a trace |
| `LocalAggregator_ids.cfg` | `LocalAggregator`, `VisitIdsUnique` | the next visit id continues from the largest one in `site_visits` (`LocalAggregator.py:208`), but other tables may hold rows of a visit whose own row was lost; the next crawl gives that id to another visit ("a unique visit ID", `BaseAggregator.py:139`).  `NoCollision` is the part that holds |

Behaviour that the models have and a reader of the code should know.  The
properties name each of these as an exception where they touch it:

* A worker that outlasted its lease deletes the retry count of its job when it
  completes it (`rediswq.py:248`), although others may have put the job back: it
  is then renewed up to `max_retries` times again (`forgotten`), against "number
  of times to retry a job before removing it" (38-39).
* A payload that Python's deserialiser refuses ends the reader: the handler calls
  `traceback.format_exc(e)`, which takes the exception for a limit and raises a
  `TypeError`, so that the `continue` after it (`SocketInterface.py:88-91`) is
  never reached and no further message of that connection is read (`stuck`).
* A committed navigation may be recorded with the attributes of a *later* one of
  its frame: the handler looks for the pending object only after it has waited
  for the tab (`navigation-instrument.ts:112-124`, whose comment says
  "corresponding").  It is never an earlier one (`NeverStale`).
* The parent actor, and with it the observer, is made at the first message of a
  window, so that channels opened before never enter `gChannelMap` and the
  receiver polls for ever (`PollsForEver`).  The stack of a request in an iframe
  is sent by the actor of each window above it as well.
* The HTTP and callstack instruments may start after the first visit id has
  arrived: `main()` waits for the content script in between (`index.js:54-68`),
  the port does not wait for `main()` (`loggingdb.js:37`).
* The extension's reader is not called again once it was called with part of a
  message (`sockets/api.js:62`).
* A response whose filter fails, or that has no data, leaves its handler waiting
  for ever: there is no timeout around `logWithResponseBody`.
* In a page: a function is read in a wrapper, a new one at every get
  (`js-instruments.ts:677-692`), so that `obj.f === obj.f` is false and a property
  that is put on it is lost; an assignment to a data property that is not
  writable takes effect (738-746); what `preventSets` turns away, a second assignment to an heir (the
  first made a property that is not writable), and an assignment through an heir
  to a property that did not exist (shared with all heirs) are seen by the page;
  an assignment inside of a log call resets `inLog`, and one to a frozen heir
  leaves it set for good.

## 5. Proofs

All theorems assume only the named assumptions of the modules: bounds are
natural, at least one browser, command and spawn attempt, batches are not
empty, `NoJob` is not a job, mortal workers are workers, `site_visits` is among
the tables, a request has at least one leg, a log limit is positive, a base is
even and greater than one, and the length of a payload fits in the four bytes
that `SocketInterface.py:156` packs it in.  `tlapm` checks each to the last step.
Type invariants (`TypeOK`) are proved, and no run spends time on them.

`RedisWQ_proofs`:

* `TypeCorrect`.
* `JobsKeptAlways` and `RetryPolicyAlways`.  They are not inductive by
  themselves: `EXEC` adds an entry to the main queue because of what was read
  before it.  What is missing is `WatchHolds` (an unspoiled worker at `EXEC` has
  read the truth; a theorem of its own, `WatchHoldsAlways`), `RetriesCounted`
  (the stored count never exceeds the renewals) and `CountExact` (a count that was
  no late `complete()` deleted is exactly the number of renewals).  The conjunction is inductive:
  a step that changes a watched key spoils all watchers, so `WatchHolds`
  survives it, and a renewal moves an entry that `WatchHolds` says exists, so
  that no job is entered twice.
* `ImplementsLedger`: with that invariant each step changes the two sets of jobs
  as an action of `JobLedger` does, or not at all.

`TaskManager_proofs`:

* `TypeCorrect`, one lemma for each part of `TypeOK`.
* `Safety`: `Spec => []IInv`.  `RepliesMatch` speaks of a thread that waits for a
  status; to be inductive it needs to know what may be in the two queues at all
  other times (`Queues`): nothing when a browser is about to get a command
  (`Silent`), at most the command at hand and its answer while it is waited for
  (`Waiting`), nothing but the launch's own status during a launch
  (`Launching`).  That a failure leads to a restart, and a restart to new
  queues, is what carries the argument from one visit to the next: between them
  the thread goes through the phases that `Phases` orders.  `LaunchInOrder` says
  that while the main thread launches the browsers, those it is through with are
  silent and those to come have no process yet; `NoOrphan` needs it.
* `RepliesMatched` and `NoneOrphaned` follow from it.
* `FailuresLimited`: the failures in a row are counted apart from `failurecount`
  (`streak`), and an overstep stays `counted` until `failure_status` is set or a
  success forgives it.  The invariant (`LimitInv`) says that `failurecount`
  has missed none of the failures in a row, so that as long as a `counted`
  overstep is not forgiven, `failurecount` is past the limit and a thread is at
  the comparison, or `failure_status` is set.
* `VisitsClean`: `CleanVisits` compares the log of two visits that used one
  process, and what is in the log of a visit is decided by what its thread did
  before.  The invariant (`HInv`) adds to `IInv` that a visit belongs to one
  browser (`Numbered`), so that no other thread writes in its log; that the
  thread's position tells how long the log is, and that nothing in it has failed
  unless a restart is due (`InHand`); and that the visits a process has served
  are clean, but for the one at hand, with which the process may end, and all of
  them once the thread is idle and the crawl goes on (`Shared`).  That the
  restart has emptied `used` before the next visit begins is what `Phases`,
  strengthened for this proof, orders.
* `JoinedGone`: the main thread passes the browsers in order.  Those it has dealt
  with (`Passed`), unless the join of their thread expired, have neither a thread
  nor a process (`PassedAreGone`); a thread that was joined is idle and stays so,
  since the main thread alone starts one, and by `IInv` no other actor spawns
  that browser's process.
* `NeverBaffled`, `VisitsRunDown` and `ShutdownRunsDown`: the part of the argument
  for `ThreadsEnd` and `ShutdownEnds` that does not speak of fairness.  A thread
  never meets a status that its call has no branch for (`CanGoOn`): during a visit
  no `READY`, which is about a launch (`AboutLaunch`) while `Waiting` says that all
  there is answers the command; during a launch no `OK`, since an awaited browser
  has no command to answer (`AwaitsLaunch`, from `Launching`); the spawns of a
  launch stay within the limit (`Counted`); a thread's browser was launched
  (`WasLaunched`).  Each step of a command thread lowers `Rank`, which counts the
  commands, then the spawns, then the steps of a turn of the launch loop that are
  left, and nobody else touches what `Rank` reads while the thread runs (but for
  the main thread, which counts the spawns of its own launches, when by
  `LaunchInOrder` no thread runs).  `MainRank` does the same for the browsers that
  a shutdown has left.  That a scheduled thread therefore ends is the step that
  stays with TLC, for it needs ENABLED.

`S3Aggregator_proofs` assumes of the records only that they have their fields,
and that none is in the table of the index, which the listener makes itself:

* `DrainComplete`: `DrainedAll`, with what it needs: a record is in hand only
  where `InHand` says; while the batches of a visit are sent because its browser
  moved on, no row of that visit is kept (`Moving`), so that replacing the
  browser's entry hides none; and in the last uploads all that is left is in
  tables still to send (`Flushing`).
* `OnePlaceAlways`: the places of a record are counted (`Places`) and always sum
  up to one; a record is not twice in the queue (`Distinct`).
* `IndexAlways`: the items of a row in the index are counted the same way, and
  are none until the row is batched and one from then on.
* `ContentAlways`: the cache holds only hashes that are stored.  `TypeCorrect`.
* `KeepsLedger`: the refinement of `RecordLedger`.  By `OnePlaceAlways` before and
  after a step, the four classes of the ledger (`Waiting`, `Held`, `Stored`,
  `Lost`) are disjoint and all there is (`Classes`).  A step that takes no record
  and takes nothing back from what is stored or lost is then a `Settle`, whatever
  it does in memory (`SettleStep`): this is most of the listener.  `GetRecord`
  is a `Take`; `Flushed` at a shutdown is an `Exit`, because `Flushing` says that
  the last upload left nothing; `Die` and `Kill` are a `Crash`.

`LocalAggregator_proofs`:

* `Safety`: the inductive invariant.  `Current` says that what waits or is open
  belongs to this crawl, so that a new crawl starts with none of it; `Ids`, that
  this crawl's ids come after all that `site_visits` held when it began;
  `OpenInOrder` and `QueueInOrder` carry the order of the manager's connection
  from the queue through the open transaction; `Tracked`, that nothing sent in
  this crawl is lost while its listener lives, which is what makes the record
  that enters the queue come after its predecessors; `Emptied`, what the last
  commit and write leave.
* `NoGapsAlways`, `NoCollisionAlways` (from `Ids`), `ExitKeepsAllAlways` (from
  `Tracked` and `Emptied`), `TypeCorrect`, and `CountedAlways`: what is in memory is
  counted, so that a commit is due.

`HttpInstrument_proofs`.  The steps are first summarised by what they do to the
handlers (`Moves`, `Counts`, `Loses`, `Quiet`: one handler goes on, is added, is
lost, or none changes), and each theorem uses the summary:

* `StampedAlways` needs only the part about the queue of visit ids: it holds the
  newest ids in order, and when it is empty the newest has been taken.
* `AccountedAlways`: ordinals of handlers and records are below the counter and
  no two are equal (`Numbered`), so that one ordinal is in one place.
* `OrderAlways`: what is known of a request, handlers and records alike
  (`Known`), is in the order of its legs and events (`InSequence`), and none of
  it is beyond the place the request has reached (`Reached`), which is why the
  next event comes after all of them.
* `PostAlways`, `ContentAlways`, `TypeCorrect`.

`Extension_proofs`:

* `ListeningAlways`: by the order of the start-up (`InPhase`).
* `NeverStaleAlways` and `AccountedAlways`, from `NavInv`: a frame's pending
  object is that of its last navigation or of none, a handler was made for a
  navigation that had begun (`Fresh`), and a commit has one handler (`Single`).
* `OnceAlways`: ordinals in handlers and records are distinct (`Numbered` over
  both instruments), and a stack is in one of `messages`, `polling`, `firing` and
  the records (`StackInv`).

`JsInstruments_proofs`: `TypeCorrect`; `InLogAlways`, where a second frame can be
there only after an assignment has reset `inLog` (`Nested`); `TransparentAlways`
(`Alike`: the values kept in the two worlds agree on what is not excused, and
what is read of them is the same but for the wrapper); `InOrderAlways` (what is
queued, emitted and saved is one sequence of ordinals: `InQueue`, `OnTheWay`,
`Ordered`).

`SocketTransport_proofs`:

* `Codec`, for every even base greater than one, both byte orders and every type
  of integer: what is unpacked is what was packed, clamped to the range of its
  type.
* `StreamIntact`: the invariant (`StreamInv`) says that there are borders in the
  stream, between two of which lies the frame of one message (`Framing`), and
  that the reader stands at one of them, or after the header of the next message,
  which it has read right (`ReaderAt`); what it passed on is what was to be kept
  of the messages before that border (`Kept`).  A message adds a border; a reader
  at a border reads by `Codec` the length and symbol that were written, and
  stops at the next border.
* `ImplementsPipe`: with the same invariant, what waits in the pipe is what is
  kept of the messages beyond the reader's border.  A step that reads a header, or
  a message with an unknown symbol, changes nothing there; one that reads a
  message takes the first.
* `TypeCorrect`.

`LengthOf`, `Pack` and `Kept` are recursive functions.  That their
equations hold, and what they compute, needs induction; it is done on sets of
numbers (`Induct`: a set with 0 and the successor of each of its members has all
of them, from the well-foundedness of the naturals), which needs no operator as
a parameter.

*Only model-checked*: liveness (`SurvivorDrains`, `ThreadsEnd`, `ShutdownEnds`,
`EventuallySettled`, `EventuallyStored`, `SubmissionEnds`, `HandlersEnd`,
`EverythingSettles`, `Delivered`, `AllReceived`), which is out of the prover's
reach; of `ThreadsEnd` and `ShutdownEnds` the rest of the argument is proved.
Every invariant and every refinement that a run checks is also proved.
`StreamInv`, `HInv`, `CanGoOn` with what it needs, and the two ranks were checked
by TLC on the instances of the runs before they were proved.

## 6. Not modelled

* The browser, Selenium, Firefox profiles and preferences: inside
  `TaskManager` they are the outcomes of `Deploy` and `DoCommand`; inside the
  extension's modules, the order of events that its API documents.
* geckodriver and Firefox as processes.  `kill_browser_manager` kills them by
  `browser_pid` (`BrowserManager.py:324-350`), which is `None` or that of an
  earlier process when a launch failed before "Browser Launched": a Firefox of
  that launch survives, although the docstring (307) says "all of its children".
  `NoOrphan` and `JoinedMeansGone` speak of BrowserManager processes only.
* The branch of `launch_browser_manager` for a mismatch (`BrowserManager.py:160-166`)
  is never taken: each spawn has a status queue of its own, in which one process
  puts the statuses of a launch in one order, the fifth being `READY`.
* Several senders on one connection: the threads of the TaskManager share its
  `clientsocket` without a lock, and `send` may take several calls for a message
  (`SocketInterface.py:156-162`).
* The json flag of a message to the extension, which `onDataReceived` drops
  (`sockets/api.js:86-87`) after the point where `SocketTransport` stops.
* A crawl that is started in a process whose last listener still lives, its join
  having timed out.
* What a command does to tabs and pages, parsing of cookies and HTTP bodies
  (`http-post-parser.ts`), scripts that analyse a crawl offline: sequential code
  without shared state.
* `MPLogger.py`: one queue, which decides only about log lines; the drain of such
  a listener is in the aggregators' modules.
* Files: temporary profiles, tarballs, `profileDirIO`.
* Of the JavaScript instrument: accessors without a getter (`get(failed)`),
  recursive instrumentation and its depth,
  `logFunctionGets`, which no built-in setting uses, records held before `run()`,
  and the list of instrumented interfaces.
* Of the extension: `cleanup()` and `saveAllCookies`, which nothing calls,
  debugging mode, the exception for OCSP requests, and all columns of records
  that no property is about.
* `bufferpack`'s strings, floats, repeat counts and names, which no caller uses.
* Crawl ids and `save_configuration`, which the manager writes before any visit.

Abstractions a reader should know: a status remembers its command; the
statuses of a launch are one; the user calls only what the code allows after a
constructor that succeeded; parquet conversion is a choice of valid or invalid;
uploads succeed or fail at once; random ids (`crawl_id`, `visit_id` on S3) are
given with the records; a record is sent in the step that saves it; a script of
the page is one script, so that the log limit counts by symbol alone.

## 7. Plan

1. Proofs: the safety part of the arguments for liveness of the aggregators and
   the extension, as `NeverBaffled` and `VisitsRunDown` give it for the command
   threads.
2. A ledger for the local aggregator.  `RecordLedger` does not fit it as it is: a
   content is stored by its hash, so that a later crawl stores what an earlier
   one lost, and a crawl that is run again ends more than once.
3. Composition: the extension's connections feeding an aggregator, with the
   visit ids that `StampedWithNewest` gives and `OnePlace` relies on.
4. `MPLogger`: handshake and drain at close.
5. Recursive instrumentation and the records held before `run()`.
