----------------------------- MODULE TaskManager -----------------------------
(***************************************************************************)
(* The command life cycle: automation/TaskManager.py and                   *)
(* automation/BrowserManager.py.                                           *)
(*                                                                         *)
(* The main thread launches the browsers, starts a command thread for each *)
(* command sequence (a visit) and shuts everything down.  A command thread *)
(* talks to its browser's BrowserManager process (the child) through a     *)
(* pair of queues, and restarts it when the visit is over.  The watchdog   *)
(* thread asks for restarts.  The main thread and the command threads      *)
(* share the Browser objects, hence the procedures that close and launch a *)
(* browser are written once, for any actor.                                *)
(*                                                                         *)
(* Time is abstracted: a wait with a timeout may end as soon as there is   *)
(* nothing to wait for yet.                                                *)
(***************************************************************************)
EXTENDS Integers, Sequences

CONSTANTS
  NumBrowsers,  \* manager_params['num_browsers']
  FailureLimit, \* failure_limit
  SpawnLimit,   \* _UNSUCCESSFUL_SPAWN_LIMIT
  NumCommands,  \* commands in a sequence
  Bloating,     \* browsers whose memory may pass BROWSER_MEMORY_LIMIT
  MaxVisits     \* bound: visits the user starts

ASSUME BrowsersAssumption == NumBrowsers \in Nat \ {0}
ASSUME LimitAssumption    == FailureLimit \in Nat /\ SpawnLimit \in Nat \ {0}
ASSUME BloatAssumption    == Bloating \subseteq 1..NumBrowsers
ASSUME BoundsAssumption   == MaxVisits \in Nat /\ NumCommands \in Nat \ {0}

Main     == 0
Browsers == 1..NumBrowsers
Actors   == {Main} \cup Browsers   \* the command thread of browser b is b
Visits   == 1..MaxVisits
Commands == Visits \X (1..NumCommands)
Shutdown == <<0, 0>>       \* also stands for "no command"

VARIABLES
  \* TaskManager
  closing, failureStatus, failurecount,
  sockOpen,        \* the client socket to the aggregator, and what follows it
  raising,         \* the shutdown in progress ends in an exception
  visits,          \* visit ids handed out by get_next_visit_id
  \* Control of the main thread and of the command threads
  pc,              \* pc[a]; "idle" for a command thread that is not alive
  mainBrowser,     \* the browser the main thread works on
  cmd,             \* cmd[b]: the command of the sequence b's thread is at
  spawns,          \* spawns[b]: unsuccessful spawns in this launch
  \* Browser
  currVisit,       \* curr_visit_id (0 for None)
  reset,           \* reset[v]: visit v asked for a reset of its browser
  isFresh, restartRequired,
  commandQueue, statusQueue,
  \* BrowserManager, the child process
  child,
  \* History, read by the properties alone
  log,             \* log[v]: what crawl_history got for visit v
  used,            \* used[b]: the visits the current child got commands of
  expired,         \* browsers whose command thread outlasted the join
  streak,          \* failures since the last success, saturating past FailureLimit
  overstep         \* what became of a streak past FailureLimit

manager == <<closing, failureStatus, failurecount, sockOpen, raising, visits>>
control == <<pc, mainBrowser, cmd, spawns>>
browser == <<currVisit, reset, isFresh, restartRequired>>
queues  == <<commandQueue, statusQueue>>
series  == <<streak, overstep>>
history == <<log, used, expired, series>>
vars    == <<manager, control, browser, queues, child, history>>

ThreadPCs == {"idle", "put", "status", "tally", "drain"}
LaunchPCs == {"spawn", "await", "shutdown", "ack", "reap"}
MainPCs   == {"ready", "blocked", "join", "finish", "closed", "raised", "aborted"}

Finished == {"closed", "raised", "aborted"}

\* The child is "none" at first, "exited" at the end.  A child that hangs, or is
\* killed from outside, is one that takes no further step: all that its parent
\* sees of it is the status queue.
Alive == {"deploying", "ready"}

\* A streak past FailureLimit was counted, and perhaps forgiven by a success that
\* another thread counted before failure_status was set.
Oversteps == {"none", "counted", "forgiven"}

\* What the child puts in the status queue.  "FAILED" stands for NETERROR too:
\* they differ in the text of the crawl_history record.
Statuses == [kind : {"READY", "OK", "FAILED", "CRITICAL"}, of : Commands \cup {Shutdown}]

Status(k, c) == [kind |-> k, of |-> c]

Goto(a, l) == pc' = [pc EXCEPT ![a] = l]

\* The Browser object that actor a works on.
Target(a) == IF a = Main THEN mainBrowser ELSE a

Init ==
  /\ closing = FALSE
  /\ failureStatus = "none"
  /\ failurecount = 0
  /\ sockOpen = TRUE
  /\ raising = FALSE
  /\ visits = 0
  /\ pc = [a \in Actors |-> IF a = Main THEN "spawn" ELSE "idle"]
  /\ mainBrowser = 1
  /\ cmd = [b \in Browsers |-> 0]
  /\ spawns = [b \in Browsers |-> 0]
  /\ currVisit = [b \in Browsers |-> 0]
  /\ reset = [v \in Visits |-> FALSE]
  /\ isFresh = [b \in Browsers |-> TRUE]
  /\ restartRequired = [b \in Browsers |-> FALSE]
  /\ commandQueue = [b \in Browsers |-> <<>>]
  /\ statusQueue = [b \in Browsers |-> <<>>]
  /\ child = [b \in Browsers |-> "none"]
  /\ log = [v \in Visits |-> <<>>]
  /\ used = [b \in Browsers |-> {}]
  /\ expired = {}
  /\ streak = 0
  /\ overstep = "none"

------------------------------------------------------------------------------
(* kill_browser_manager, close_browser_manager, by actor a on its browser.   *)

\* SIGKILL to the BrowserManager process.  Of geckodriver and Firefox, which are
\* killed next if browser_pid is known, there is no state here.
Kill(b) == child' = [child EXCEPT ![b] = "exited"]

\* close_browser_manager returns: to the launch loop, or to
\* _shutdown_manager, which goes on with the next browser.
CloseReturns(a) ==
  IF a = Main /\ closing
  THEN IF mainBrowser < NumBrowsers
       THEN mainBrowser' = mainBrowser + 1 /\ Goto(Main, "join")
       ELSE Goto(Main, "finish") /\ UNCHANGED mainBrowser
  ELSE Goto(a, "spawn") /\ UNCHANGED mainBrowser

\* There is no command queue, hence no process: kill_browser_manager reads
\* the pid of None, and the exception leaves _shutdown_manager.
CloseNeverLaunched(a) ==
  /\ pc[a] = "shutdown" /\ child[Target(a)] = "none"
  /\ Goto(a, "aborted")
  /\ UNCHANGED <<manager, mainBrowser, cmd, spawns, browser, queues, child, history>>

SendShutdown(a) ==
  LET b == Target(a) IN
  /\ pc[a] = "shutdown" /\ child[b] # "none"
  /\ commandQueue' = [commandQueue EXCEPT ![b] = Append(@, Shutdown)]
  /\ Goto(a, "ack")
  /\ UNCHANGED <<manager, mainBrowser, cmd, spawns, browser, statusQueue, child, history>>

\* The first status in the queue is "OK": the answer to SHUTDOWN, or the late
\* answer to a command that timed out.
ShutdownAcked(a) ==
  LET b == Target(a) IN
  /\ pc[a] = "ack" /\ statusQueue[b] # <<>> /\ Head(statusQueue[b]).kind = "OK"
  /\ statusQueue' = [statusQueue EXCEPT ![b] = Tail(@)]
  /\ Goto(a, "reap")
  /\ UNCHANGED <<manager, mainBrowser, cmd, spawns, browser, commandQueue, child, history>>

\* Mutant: a browser that answers with an error is taken to be gone.
ShutdownRefusedNoKill(a) ==
  LET b == Target(a) IN
  /\ pc[a] = "ack" /\ statusQueue[b] # <<>> /\ Head(statusQueue[b]).kind # "OK"
  /\ statusQueue' = [statusQueue EXCEPT ![b] = Tail(@)]
  /\ CloseReturns(a)
  /\ UNCHANGED <<manager, cmd, spawns, browser, commandQueue, child, history>>

\* It is another status: the browser is killed.
ShutdownRefused(a) ==
  LET b == Target(a) IN
  /\ pc[a] = "ack" /\ statusQueue[b] # <<>> /\ Head(statusQueue[b]).kind # "OK"
  /\ statusQueue' = [statusQueue EXCEPT ![b] = Tail(@)]
  /\ Kill(b)
  /\ CloseReturns(a)
  /\ UNCHANGED <<manager, cmd, spawns, browser, commandQueue, history>>

\* Mutant: the status is awaited without a timeout.
ShutdownNeverTimesOut(a) == FALSE

\* No status within 30 seconds: the browser is killed.
ShutdownTimeout(a) ==
  /\ pc[a] = "ack" /\ statusQueue[Target(a)] = <<>>
  /\ Kill(Target(a))
  /\ CloseReturns(a)
  /\ UNCHANGED <<manager, cmd, spawns, browser, queues, history>>

\* The process is joined; if it is still alive after 30 seconds, it is killed.
Reap(a) ==
  /\ pc[a] = "reap"
  /\ IF child[Target(a)] = "exited" THEN UNCHANGED child ELSE Kill(Target(a))
  /\ CloseReturns(a)
  /\ UNCHANGED <<manager, cmd, spawns, browser, queues, history>>

------------------------------------------------------------------------------
(* launch_browser_manager, by actor a on its browser.                        *)

\* An iteration of the spawn loop: a process and a new pair of queues.
Spawn(a) ==
  LET b == Target(a) IN
  /\ pc[a] = "spawn" /\ spawns[b] < SpawnLimit
  /\ isFresh' = [isFresh EXCEPT ![b] = TRUE]
  /\ commandQueue' = [commandQueue EXCEPT ![b] = <<>>]
  /\ statusQueue' = [statusQueue EXCEPT ![b] = <<>>]
  /\ child' = [child EXCEPT ![b] = "deploying"]
  /\ used' = [used EXCEPT ![b] = {}]
  /\ Goto(a, "await")
  /\ UNCHANGED <<manager, mainBrowser, cmd, spawns, currVisit, reset,
                 restartRequired, log, expired, series>>

\* The last of the statuses of a launch.  They are put in one order by one
\* process, in a queue of its own, hence the fifth is always 'READY' and the
\* branch for a mismatch (BrowserManager.py:160-166) is never taken.
Launched(a) ==
  /\ pc[a] = "await" /\ statusQueue[Target(a)] # <<>>
  /\ Head(statusQueue[Target(a)]).kind = "READY"
  /\ statusQueue' = [statusQueue EXCEPT ![Target(a)] = Tail(@)]

\* The browser is up: _issue_command clears the request that led here.
ThreadRestarted(b) ==
  /\ Launched(b)
  /\ restartRequired' = [restartRequired EXCEPT ![b] = FALSE]
  /\ Goto(b, "idle")
  /\ UNCHANGED <<manager, mainBrowser, cmd, spawns, currVisit, reset, isFresh,
                 commandQueue, child, history>>

\* The browser is up: _launch_browsers goes on with the next.
MainLaunched ==
  /\ Launched(Main)
  /\ IF mainBrowser < NumBrowsers
     THEN mainBrowser' = mainBrowser + 1 /\ Goto(Main, "spawn")
     ELSE Goto(Main, "ready") /\ UNCHANGED mainBrowser
  /\ UNCHANGED <<manager, cmd, spawns, browser, commandQueue, child, history>>

\* The child reports a failure, or nothing within _SPAWN_TIMEOUT.
SpawnFails(a) ==
  LET b == Target(a) IN
  /\ pc[a] = "await"
  /\ IF statusQueue[b] = <<>>
     THEN UNCHANGED statusQueue
     ELSE /\ Head(statusQueue[b]).kind = "FAILED"
          /\ statusQueue' = [statusQueue EXCEPT ![b] = Tail(@)]
  /\ spawns' = [spawns EXCEPT ![b] = @ + 1]
  /\ Goto(a, "shutdown")
  /\ UNCHANGED <<manager, mainBrowser, cmd, browser, commandQueue, child, history>>

SpawnCritical(a) ==
  /\ pc[a] = "await" /\ statusQueue[Target(a)] # <<>>
  /\ Head(statusQueue[Target(a)]).kind = "CRITICAL"
  /\ statusQueue' = [statusQueue EXCEPT ![Target(a)] = Tail(@)]

\* check_queue raises out of the command thread, which dies.
ThreadSpawnCritical(b) ==
  /\ SpawnCritical(b)
  /\ Goto(b, "idle")
  /\ UNCHANGED <<manager, mainBrowser, cmd, spawns, browser, commandQueue,
                 child, history>>

------------------------------------------------------------------------------
(* _shutdown_manager, in the main thread.                                    *)

BeginShutdown(fails) ==
  /\ closing' = TRUE
  /\ raising' = fails
  /\ mainBrowser' = 1
  /\ Goto(Main, "join")

\* check_queue raises out of _launch_browsers: clean up, then raise.
MainSpawnCritical ==
  /\ SpawnCritical(Main)
  /\ BeginShutdown(TRUE)
  /\ UNCHANGED <<failureStatus, failurecount, sockOpen, visits, cmd, spawns,
                 browser, commandQueue, child, history>>

\* All spawns failed in a command thread, or in _launch_browsers.
LaunchFails(a) ==
  /\ pc[a] = "spawn" /\ spawns[Target(a)] = SpawnLimit
  /\ IF a = Main
     THEN BeginShutdown(FALSE) /\ UNCHANGED failureStatus
     ELSE /\ failureStatus' = "ExceedLaunchFailureLimit"
          /\ Goto(a, "idle")
          /\ UNCHANGED <<closing, raising, mainBrowser>>
  /\ UNCHANGED <<failurecount, sockOpen, visits, cmd, spawns, browser, queues,
                 child, history>>

\* Mutant: the command thread is not joined.
JoinNobody ==
  /\ pc[Main] = "join"
  /\ Goto(Main, "shutdown")
  /\ UNCHANGED <<manager, mainBrowser, cmd, spawns, browser, queues, child, history>>

\* The command thread of the browser is dead, or never was.
JoinThread ==
  /\ pc[Main] = "join" /\ pc[mainBrowser] = "idle"
  /\ Goto(Main, "shutdown")
  /\ UNCHANGED <<manager, mainBrowser, cmd, spawns, browser, queues, child, history>>

\* It is still alive after current_timeout + 10 seconds: kill the browser.
JoinTimeout ==
  /\ pc[Main] = "join" /\ pc[mainBrowser] # "idle"
  /\ Kill(mainBrowser)
  /\ expired' = expired \cup {mainBrowser}
  /\ CloseReturns(Main)
  /\ UNCHANGED <<manager, cmd, spawns, browser, queues, log, used, series>>

\* The socket, the aggregator and the logging server are closed.
FinishShutdown ==
  /\ pc[Main] = "finish"
  /\ sockOpen' = FALSE
  /\ Goto(Main, IF raising THEN "raised" ELSE "closed")
  /\ UNCHANGED <<closing, failureStatus, failurecount, raising, visits, mainBrowser, cmd,
                 spawns, browser, queues, child, history>>

------------------------------------------------------------------------------
(* The user's calls: execute_command_sequence and close.                     *)

\* A command thread has set failure_status.
Failed == failureStatus # "none"

\* Mutant: is_fresh stays set, and the restart after the visit is skipped.
StaysFresh(b) == UNCHANGED isFresh

NoLongerFresh(b) == isFresh' = [isFresh EXCEPT ![b] = FALSE]

\* A command sequence starts on a ready browser, whose thread dies or
\* never lived.  (The user names the browser, or takes the first ready one.)
Execute(b, wantsReset, blocking) ==
  /\ pc[Main] = "ready" /\ pc[b] = "idle" /\ visits < MaxVisits
  /\ ~Failed
  /\ visits' = visits + 1
  /\ currVisit' = [currVisit EXCEPT ![b] = visits + 1]
  /\ reset' = [reset EXCEPT ![visits + 1] = wantsReset]
  /\ NoLongerFresh(b)
  /\ cmd' = [cmd EXCEPT ![b] = 1]
  /\ mainBrowser' = b
  /\ pc' = [pc EXCEPT ![b] = "put", ![Main] = IF blocking THEN "blocked" ELSE "ready"]
  /\ UNCHANGED <<closing, failureStatus, failurecount, sockOpen, raising, spawns,
                 restartRequired, queues, child, history>>

\* A blocking sequence is over.
Unblock ==
  /\ pc[Main] = "blocked" /\ pc[mainBrowser] = "idle" /\ ~Failed
  /\ Goto(Main, "ready")
  /\ UNCHANGED <<manager, mainBrowser, cmd, spawns, browser, queues, child, history>>

\* _check_failure_status before a sequence starts: clean up, then raise.
FailOnExecute ==
  /\ pc[Main] = "ready" /\ visits < MaxVisits /\ Failed
  /\ \E b \in Browsers : pc[b] = "idle"
  /\ BeginShutdown(TRUE)
  /\ UNCHANGED <<failureStatus, failurecount, sockOpen, visits, cmd, spawns,
                 browser, queues, child, history>>

\* _check_failure_status after a blocking sequence.
FailOnJoin ==
  /\ pc[Main] = "blocked" /\ pc[mainBrowser] = "idle" /\ Failed
  /\ BeginShutdown(TRUE)
  /\ UNCHANGED <<failureStatus, failurecount, sockOpen, visits, cmd, spawns,
                 browser, queues, child, history>>

Close ==
  /\ pc[Main] = "ready"
  /\ BeginShutdown(FALSE)
  /\ UNCHANGED <<failureStatus, failurecount, sockOpen, visits, cmd, spawns,
                 browser, queues, child, history>>

------------------------------------------------------------------------------
(* _issue_command, in the command thread of browser b.                       *)

PutCommand(b) ==
  /\ pc[b] = "put"
  /\ commandQueue' = [commandQueue EXCEPT ![b] = Append(@, <<currVisit[b], cmd[b]>>)]
  /\ used' = [used EXCEPT ![b] = @ \cup {currVisit[b]}]
  /\ Goto(b, "status")
  /\ UNCHANGED <<manager, mainBrowser, cmd, spawns, browser, statusQueue, child,
                 log, expired, series>>

\* The next status, if it is of this kind, leaves the queue.
Receive(b, kind) ==
  /\ pc[b] = "status" /\ statusQueue[b] # <<>> /\ Head(statusQueue[b]).kind = kind
  /\ statusQueue' = [statusQueue EXCEPT ![b] = Tail(@)]

\* The crawl_history record of the command at hand is sent.
Record(b, outcome) ==
  /\ sockOpen
  /\ log' = [log EXCEPT ![currVisit[b]] = Append(@, <<cmd[b], outcome>>)]
  /\ UNCHANGED <<used, expired>>

\* failurecount is reset, whatever another thread is about to compare it with.
CountSuccess ==
  /\ failurecount' = 0
  /\ streak' = 0
  /\ overstep' = IF overstep = "counted" /\ ~Failed THEN "forgiven" ELSE overstep

\* The failure goes into the history whether it is counted or not.
SeeFailure ==
  /\ streak' = IF streak > FailureLimit THEN streak ELSE streak + 1
  /\ overstep' = IF streak >= FailureLimit THEN "counted" ELSE overstep

\* Mutant: without the lock, an increment is lost to one that another thread made
\* at the same time.
CountFailureUnlocked ==
  /\ failurecount' = IF \E b \in Browsers : pc[b] = "tally"
                     THEN failurecount ELSE failurecount + 1
  /\ SeeFailure

CountFailure ==
  /\ failurecount' = failurecount + 1
  /\ SeeFailure

LastCommand(b) == cmd[b] = NumCommands

ReceiveOk(b) ==
  /\ Receive(b, "OK")
  /\ Record(b, "ok")
  /\ CountSuccess
  /\ IF restartRequired[b] \/ LastCommand(b)
     THEN Goto(b, "drain") /\ UNCHANGED cmd
     ELSE Goto(b, "put") /\ cmd' = [cmd EXCEPT ![b] = @ + 1]
  /\ UNCHANGED <<closing, failureStatus, sockOpen, raising, visits, mainBrowser,
                 spawns, browser, commandQueue, child>>

ReceiveCritical(b) ==
  /\ Receive(b, "CRITICAL")
  /\ Record(b, "critical")
  /\ failureStatus' = "CriticalChildException"
  /\ Goto(b, "idle")
  /\ UNCHANGED <<closing, failurecount, sockOpen, raising, visits, mainBrowser, cmd,
                 spawns, browser, commandQueue, child, series>>

\* The command failed, or its timeout passed: count it.
ReceiveFailure(b) ==
  /\ \/ Receive(b, "FAILED")
     \/ pc[b] = "status" /\ statusQueue[b] = <<>> /\ UNCHANGED statusQueue
  /\ Record(b, "error")
  /\ CountFailure
  /\ Goto(b, "tally")
  /\ UNCHANGED <<closing, failureStatus, sockOpen, raising, visits, mainBrowser, cmd,
                 spawns, browser, commandQueue, child>>

\* The socket is closed already: sending the record raises, the thread dies.
RecordRaises(b) ==
  /\ pc[b] = "status" /\ ~sockOpen
  /\ IF statusQueue[b] = <<>>
     THEN UNCHANGED <<statusQueue, failureStatus>>
     ELSE /\ statusQueue' = [statusQueue EXCEPT ![b] = Tail(@)]
          /\ failureStatus' = IF Head(statusQueue[b]).kind = "CRITICAL"
                              THEN "CriticalChildException" ELSE failureStatus
  /\ Goto(b, "idle")
  /\ UNCHANGED <<closing, failurecount, sockOpen, raising, visits, mainBrowser, cmd,
                 spawns, browser, commandQueue, child, history>>

\* Read after the lock was released.
OverLimit == failurecount > FailureLimit

\* Mutant: the thread does not ask for a restart.
TallyKeepsBrowser(b) ==
  /\ pc[b] = "tally"
  /\ IF OverLimit
     THEN /\ failureStatus' = "ExceedCommandFailureLimit"
          /\ Goto(b, "idle")
     ELSE Goto(b, "drain") /\ UNCHANGED failureStatus
  /\ UNCHANGED <<closing, failurecount, sockOpen, raising, visits, mainBrowser, cmd,
                 spawns, browser, queues, child, history>>

\* After a failure: give up the crawl, or ask for a restart of the browser.
Tally(b) ==
  /\ pc[b] = "tally"
  /\ IF OverLimit
     THEN /\ failureStatus' = "ExceedCommandFailureLimit"
          /\ Goto(b, "idle")
          /\ UNCHANGED restartRequired
     ELSE /\ restartRequired' = [restartRequired EXCEPT ![b] = TRUE]
          /\ Goto(b, "drain")
          /\ UNCHANGED failureStatus
  /\ UNCHANGED <<closing, failurecount, sockOpen, raising, visits, mainBrowser, cmd,
                 spawns, currVisit, reset, isFresh, queues, child, history>>

WantsRestart(b) == restartRequired[b] \/ reset[currVisit[b]]

\* After two more seconds: nothing left to do.
EndVisit(b) ==
  /\ pc[b] = "drain"
  /\ closing \/ ~WantsRestart(b)
  /\ Goto(b, "idle")
  /\ UNCHANGED <<manager, mainBrowser, cmd, spawns, browser, queues, child, history>>

\* restart_browser_manager, skipped if the browser is fresh.
Restart(b) ==
  /\ pc[b] = "drain" /\ ~closing /\ WantsRestart(b)
  /\ IF isFresh[b]
     THEN /\ restartRequired' = [restartRequired EXCEPT ![b] = FALSE]
          /\ Goto(b, "idle")
          /\ UNCHANGED spawns
     ELSE /\ spawns' = [spawns EXCEPT ![b] = 0]
          /\ Goto(b, "shutdown")
          /\ UNCHANGED restartRequired
  /\ UNCHANGED <<manager, mainBrowser, cmd, currVisit, reset, isFresh, queues,
                 child, history>>

\* _manager_watchdog: the browser uses too much memory.
Watchdog(b) ==
  /\ b \in Bloating
  /\ visits > 0 \/ pc[Main] = "ready"
  /\ child[b] \in Alive /\ ~restartRequired[b]
  /\ restartRequired' = [restartRequired EXCEPT ![b] = TRUE]
  /\ UNCHANGED <<manager, control, currVisit, reset, isFresh, queues, child, history>>

------------------------------------------------------------------------------
(* BrowserManager, the child process of browser b.                           *)

Answer(b, kind, of, next) ==
  /\ statusQueue' = [statusQueue EXCEPT ![b] = Append(@, Status(kind, of))]
  /\ child' = [child EXCEPT ![b] = next]
  /\ UNCHANGED <<manager, control, browser, history>>

\* deploy_browser and the extension's port: up, or failed.
Deploy(b) ==
  /\ child[b] = "deploying"
  /\ \/ Answer(b, "READY", Shutdown, "ready")
     \/ Answer(b, "FAILED", Shutdown, "exited")
     \/ Answer(b, "CRITICAL", Shutdown, "exited")
  /\ UNCHANGED commandQueue

\* The next command is taken and, in its own time, answered.  A command
\* returns; raises WebDriverException, and the loop goes on; or raises
\* something else, and the process ends.  SHUTDOWN ends it in any case.
DoCommand(b) ==
  /\ child[b] = "ready" /\ commandQueue[b] # <<>>
  /\ commandQueue' = [commandQueue EXCEPT ![b] = Tail(@)]
  /\ LET c == Head(commandQueue[b]) IN
     \/ c # Shutdown /\ Answer(b, "OK", c, "ready")
     \/ c # Shutdown /\ Answer(b, "FAILED", c, "ready")
     \/ c # Shutdown /\ Answer(b, "CRITICAL", c, "exited")
     \/ c = Shutdown /\ Answer(b, "OK", c, "exited")
     \/ Answer(b, "FAILED", c, "exited")

------------------------------------------------------------------------------
MainStep ==
  \/ MainLaunched \/ MainSpawnCritical
  \/ JoinThread \/ JoinTimeout \/ FinishShutdown
  \/ CloseNeverLaunched(Main)
  \/ Unblock \/ FailOnJoin

ThreadStep(b) ==
  \/ PutCommand(b) \/ ReceiveOk(b) \/ ReceiveCritical(b) \/ ReceiveFailure(b)
  \/ RecordRaises(b) \/ Tally(b) \/ EndVisit(b) \/ Restart(b)
  \/ ThreadRestarted(b) \/ ThreadSpawnCritical(b)

\* What any actor does when it launches or closes a browser.
BrowserStep(a) ==
  \/ Spawn(a) \/ SpawnFails(a) \/ LaunchFails(a)
  \/ SendShutdown(a) \/ ShutdownAcked(a) \/ ShutdownRefused(a) \/ ShutdownTimeout(a)
  \/ Reap(a)

UserStep ==
  \/ \E b \in Browsers, r, k \in BOOLEAN : Execute(b, r, k)
  \/ FailOnExecute \/ Close

ChildStep(b) == Deploy(b) \/ DoCommand(b)

\* The user may stop calling; everything else may stop only when it is over.
Quiet ==
  /\ pc[Main] \in Finished \cup {"ready"}
  /\ \A b \in Browsers : pc[b] = "idle"

Next ==
  \/ MainStep
  \/ \E b \in Browsers : ThreadStep(b)
  \/ \E a \in Actors : BrowserStep(a)
  \/ UserStep
  \/ \E b \in Browsers : ChildStep(b)
  \/ \E b \in Browsers : Watchdog(b)
  \/ Quiet /\ UNCHANGED vars

Spec == Init /\ [][Next]_vars

\* The threads of the TaskManager keep running.  Nothing is assumed of the
\* children, of the watchdog or of the user.
Fairness ==
  /\ WF_vars(MainStep \/ BrowserStep(Main))
  /\ \A b \in Browsers : WF_vars(ThreadStep(b) \/ BrowserStep(b))

FairSpec == Spec /\ Fairness

------------------------------------------------------------------------------
ManagerType ==
  /\ closing \in BOOLEAN /\ sockOpen \in BOOLEAN /\ raising \in BOOLEAN
  /\ failureStatus \in {"none", "ExceedCommandFailureLimit", "ExceedLaunchFailureLimit",
                        "CriticalChildException"}
  /\ failurecount \in Nat
  /\ visits \in 0..MaxVisits

ControlType ==
  /\ pc \in [Actors -> ThreadPCs \cup LaunchPCs \cup MainPCs]
  /\ pc[Main] \in LaunchPCs \cup MainPCs
  /\ \A b \in Browsers : pc[b] \in ThreadPCs \cup LaunchPCs
  /\ mainBrowser \in Browsers

SequenceType ==
  /\ cmd \in [Browsers -> 0..NumCommands]
  /\ spawns \in [Browsers -> Nat]
  /\ currVisit \in [Browsers -> 0..MaxVisits]
  /\ \A b \in Browsers :
       pc[b] \in ThreadPCs \ {"idle"} => currVisit[b] # 0 /\ cmd[b] # 0

BrowserType ==
  /\ reset \in [Visits -> BOOLEAN]
  /\ isFresh \in [Browsers -> BOOLEAN]
  /\ restartRequired \in [Browsers -> BOOLEAN]
  /\ child \in [Browsers -> Alive \cup {"none", "exited"}]

QueueType ==
  /\ commandQueue \in [Browsers -> Seq(Commands \cup {Shutdown})]
  /\ statusQueue \in [Browsers -> Seq(Statuses)]

HistoryType ==
  /\ log \in [Visits -> Seq((1..NumCommands) \X {"ok", "error", "critical"})]
  /\ used \in [Browsers -> SUBSET Visits]
  /\ expired \subseteq Browsers

SeriesType == streak \in 0..FailureLimit + 1 /\ overstep \in Oversteps

TypeOK ==
  /\ ManagerType /\ ControlType /\ SequenceType
  /\ BrowserType /\ QueueType /\ HistoryType /\ SeriesType

\* A status is credited to the command it answers: a late answer to a command
\* that timed out is never taken for the answer to a later one, although the
\* statuses carry no command and the browser may answer at any time.
RepliesMatch ==
  \A b \in Browsers :
    pc[b] = "status" =>
      \A i \in DOMAIN statusQueue[b] : statusQueue[b][i].of = <<currVisit[b], cmd[b]>>

\* crawl_history has the commands of a visit in order, without gaps, and
\* nothing after a command that did not succeed.
HistoryIsPrefix ==
  \A v \in Visits : \A i \in DOMAIN log[v] :
    /\ log[v][i][1] = i
    /\ i < Len(log[v]) => log[v][i][2] = "ok"

\* Two visits share a browser process only if the first asked for no reset and
\* all its commands succeeded (README.md, "Stateful vs Stateless crawls").
CleanBrowser ==
  \A b \in Browsers : \A u, v \in used[b] :
    u < v => /\ ~reset[u]
             /\ \A i \in DOMAIN log[u] : log[u][i][2] = "ok"

\* crawl_history tells what happened to a visit, and a visit that shares its
\* browser process with a later one left it clean.
CleanVisits == HistoryIsPrefix /\ CleanBrowser

\* A BrowserManager process is spawned only when the previous one of that
\* browser is gone: none is left running that no Browser object knows.  This
\* says nothing of geckodriver and Firefox, which that process starts.
NoOrphan ==
  \A a \in Actors :
    pc[a] = "spawn" /\ ~closing => child[Target(a)] \in {"none", "exited"}

\* "The number of successive command failures the platform will tolerate"
\* (README.md:276-279): once the failures in a row, of all the browsers
\* together, exceed failure_limit, a thread is about to compare the count or
\* failure_status is set, however the increments of several threads
\* interleave.  The exception is "forgiven": a success that another thread
\* counts between the increment and the comparison resets the count, and the
\* overstep is never seen (OverstepNoticed, below, does not hold).
LimitEnforced ==
  overstep = "counted" => Failed \/ \E b \in Browsers : pc[b] = "tally"

\* When close() or the failing call returns, every browser whose command
\* thread was joined in time has neither a BrowserManager nor a thread.
JoinedMeansGone ==
  pc[Main] \in {"closed", "raised"} =>
    \A b \in Browsers \ expired : pc[b] = "idle" /\ child[b] \notin Alive

\* Every command thread ends, even if its browser never answers again.
ThreadsEnd == \A b \in Browsers : pc[b] # "idle" ~> pc[b] = "idle"

\* Once begun, the shutdown of the TaskManager ends.
ShutdownEnds == closing ~> pc[Main] \in Finished

------------------------------------------------------------------------------
(* What the documentation says and the code does not do.                     *)

\* "Let's kill any child processes that we can find" (BrowserManager.py:258):
\* closing a browser that was never launched does not stop the shutdown.
ShutdownReachesAll == pc[Main] # "aborted"

\* failure_limit (README.md:276-279) without the exception that LimitEnforced
\* makes: an overstepped limit is noticed whatever the other threads do.
OverstepNoticed ==
  overstep # "none" => Failed \/ \E b \in Browsers : pc[b] = "tally"

\* "close all child processes and threads" (TaskManager.py:258-259).
BrowsersClosed ==
  pc[Main] \in {"closed", "raised"} => \A b \in Browsers : child[b] \notin Alive

\* "CommandSequence guarantees that a series of commands will be performed by
\* a single browser instance" (CommandSequence.py:16-17): a visit that ended
\* without an error performed all of its commands.
SeriesPerformed ==
  \A b \in Browsers :
    pc[b] = "idle" /\ currVisit[b] # 0 /\ ~closing =>
      \/ Len(log[currVisit[b]]) = NumCommands
      \/ log[currVisit[b]][Len(log[currVisit[b]])][2] # "ok"
==============================================================================
