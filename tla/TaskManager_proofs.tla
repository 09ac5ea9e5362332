-------------------------- MODULE TaskManager_proofs --------------------------
(***************************************************************************)
(* Proofs about the command life cycle, for any number of browsers, visits *)
(* and commands, any limits, and any browsers that use too much memory.    *)
(***************************************************************************)
EXTENDS TaskManager, TLAPS

------------------------------------------------------------------------------
(* Type correctness, one lemma for each part of TypeOK.                     *)

\* The actors are the main thread and the command threads.
LEMMA ActorSet == Main \in Actors /\ Main \notin Browsers /\ Actors = {Main} \cup Browsers
BY BrowsersAssumption DEF Main, Actors, Browsers

\* The main thread goes through the browsers from the first to the last.
LEMMA BrowserOrder ==
  1 \in Browsers /\ \A b \in Browsers : b < NumBrowsers => b + 1 \in Browsers
BY BrowsersAssumption DEF Browsers

\* The browser that an actor works on.
LEMMA TargetType == ASSUME TypeOK, NEW a \in Actors PROVE Target(a) \in Browsers
BY ActorSet DEF Target, TypeOK, ControlType

\* What a thread that works on a sequence sends is a command of its visit.
LEMMA CommandType ==
  ASSUME TypeOK, NEW b \in Browsers, pc[b] \in ThreadPCs \ {"idle"}
  PROVE  /\ currVisit[b] \in Visits
         /\ cmd[b] \in 1..NumCommands
         /\ <<currVisit[b], cmd[b]>> \in Commands
BY BoundsAssumption DEF TypeOK, SequenceType, Visits, Commands

\* What a child puts in its status queue is a status.
LEMMA StatusType ==
  \A k \in {"READY", "OK", "FAILED", "CRITICAL"}, c \in Commands \cup {Shutdown} :
    Status(k, c) \in Statuses
BY DEF Status, Statuses

\* Taking the head of a queue, and adding to its end.
LEMMA QueueOps ==
  ASSUME NEW S, NEW q \in Seq(S)
  PROVE  /\ q # <<>> => Head(q) \in S /\ Tail(q) \in Seq(S)
         /\ \A x \in S : Append(q, x) \in Seq(S)
OBVIOUS

\* The variables of the TaskManager keep their types.
LEMMA ManagerTypeStep ==
  ASSUME TypeOK, Next
  PROVE  ManagerType'
<1> USE DEF manager, Goto, ManagerType
<1>1. ASSUME MainSpawnCritical PROVE ManagerType'
  BY <1>1 DEF MainSpawnCritical, SpawnCritical, BeginShutdown, Target, TypeOK
<1>2. ASSUME FinishShutdown PROVE ManagerType'
  BY <1>2 DEF FinishShutdown, TypeOK
<1>3. ASSUME FailOnJoin PROVE ManagerType'
  BY <1>3 DEF FailOnJoin, BeginShutdown, TypeOK
<1>4. ASSUME NEW b \in Browsers, ReceiveOk(b) PROVE ManagerType'
  BY <1>4 DEF ReceiveOk, Receive, Record, CountSuccess, LastCommand, TypeOK
<1>5. ASSUME NEW b \in Browsers, ReceiveCritical(b) PROVE ManagerType'
  BY <1>5 DEF ReceiveCritical, Receive, Record, TypeOK
<1>6. ASSUME NEW b \in Browsers, ReceiveFailure(b) PROVE ManagerType'
  BY <1>6 DEF ReceiveFailure, Receive, Record, CountFailure, SeeFailure, TypeOK
<1>7. ASSUME NEW b \in Browsers, RecordRaises(b) PROVE ManagerType'
  BY <1>7 DEF RecordRaises, TypeOK
<1>8. ASSUME NEW b \in Browsers, Tally(b) PROVE ManagerType'
  BY <1>8 DEF Tally, OverLimit, TypeOK
<1>9. ASSUME NEW a \in Actors, LaunchFails(a) PROVE ManagerType'
  BY <1>9, TargetType DEF LaunchFails, BeginShutdown, TypeOK
<1>10. ASSUME NEW b \in Browsers, NEW r \in BOOLEAN, NEW k \in BOOLEAN,
             Execute(b, r, k)
      PROVE  ManagerType'
  BY <1>10, BoundsAssumption DEF Execute, NoLongerFresh, TypeOK
<1>11. ASSUME FailOnExecute PROVE ManagerType'
  BY <1>11 DEF FailOnExecute, BeginShutdown, TypeOK
<1>12. ASSUME Close PROVE ManagerType'
  BY <1>12 DEF Close, BeginShutdown, TypeOK
<1>13. ASSUME UNCHANGED manager PROVE ManagerType'
  BY <1>13 DEF TypeOK
<1>14. ASSUME MainStep PROVE ManagerType'
  BY <1>14, <1>1, <1>2, <1>3, <1>13
  DEF MainStep, MainLaunched, JoinThread, JoinTimeout, CloseNeverLaunched, Unblock
<1>15. ASSUME NEW b \in Browsers, ThreadStep(b) PROVE ManagerType'
  BY <1>15, <1>4, <1>5, <1>6, <1>7, <1>8, <1>13
  DEF ThreadStep, PutCommand, EndVisit, Restart, ThreadRestarted, ThreadSpawnCritical
<1>16. ASSUME NEW a \in Actors, BrowserStep(a) PROVE ManagerType'
  BY <1>16, <1>9, <1>13
  DEF BrowserStep, Spawn, SpawnFails, SendShutdown, ShutdownAcked, ShutdownRefused,
      ShutdownTimeout, Reap
<1>17. ASSUME UserStep PROVE ManagerType'
  BY <1>17, <1>10, <1>11, <1>12 DEF UserStep
<1>18. ASSUME NEW b \in Browsers, ChildStep(b) PROVE ManagerType'
  BY <1>18, <1>13 DEF ChildStep, Deploy, DoCommand, Answer
<1>19. ASSUME NEW b \in Browsers, Watchdog(b) PROVE ManagerType'
  BY <1>19, <1>13 DEF Watchdog
<1>20. QED
  BY <1>14, <1>15, <1>16, <1>17, <1>18, <1>19, <1>13 DEF Next, vars

\* Program counters keep their types, and mainBrowser names a browser.
LEMMA ControlTypeStep ==
  ASSUME TypeOK, Next
  PROVE  ControlType'
<1> USE ActorSet DEF control, Goto, ThreadPCs, LaunchPCs, MainPCs, ControlType
<1>1. ASSUME MainLaunched PROVE ControlType'
  BY <1>1, BrowserOrder DEF MainLaunched, Launched, Target, TypeOK
<1>2. ASSUME MainSpawnCritical PROVE ControlType'
  BY <1>2, BrowserOrder
  DEF MainSpawnCritical, SpawnCritical, BeginShutdown, Target, TypeOK
<1>3. ASSUME JoinThread PROVE ControlType'
  BY <1>3 DEF JoinThread, TypeOK
<1>4. ASSUME JoinTimeout PROVE ControlType'
  BY <1>4, BrowserOrder DEF JoinTimeout, Kill, CloseReturns, TypeOK
<1>5. ASSUME FinishShutdown PROVE ControlType'
  BY <1>5 DEF FinishShutdown, TypeOK
<1>6. ASSUME CloseNeverLaunched(Main) PROVE ControlType'
  BY <1>6 DEF CloseNeverLaunched, TypeOK
<1>7. ASSUME Unblock PROVE ControlType'
  BY <1>7 DEF Unblock, TypeOK
<1>8. ASSUME FailOnJoin PROVE ControlType'
  BY <1>8, BrowserOrder DEF FailOnJoin, BeginShutdown, TypeOK
<1>9. ASSUME NEW b \in Browsers, PutCommand(b) PROVE ControlType'
  BY <1>9 DEF PutCommand, TypeOK
<1>10. ASSUME NEW b \in Browsers, ReceiveOk(b) PROVE ControlType'
  BY <1>10 DEF ReceiveOk, Receive, Record, LastCommand, TypeOK
<1>11. ASSUME NEW b \in Browsers, ReceiveCritical(b) PROVE ControlType'
  BY <1>11 DEF ReceiveCritical, Receive, Record, TypeOK
<1>12. ASSUME NEW b \in Browsers, ReceiveFailure(b) PROVE ControlType'
  BY <1>12 DEF ReceiveFailure, Receive, Record, TypeOK
<1>13. ASSUME NEW b \in Browsers, RecordRaises(b) PROVE ControlType'
  BY <1>13 DEF RecordRaises, TypeOK
<1>14. ASSUME NEW b \in Browsers, Tally(b) PROVE ControlType'
  BY <1>14 DEF Tally, OverLimit, TypeOK
<1>15. ASSUME NEW b \in Browsers, EndVisit(b) PROVE ControlType'
  BY <1>15 DEF EndVisit, WantsRestart, TypeOK
<1>16. ASSUME NEW b \in Browsers, Restart(b) PROVE ControlType'
  BY <1>16 DEF Restart, WantsRestart, TypeOK
<1>17. ASSUME NEW b \in Browsers, ThreadRestarted(b) PROVE ControlType'
  BY <1>17 DEF ThreadRestarted, Launched, Target, TypeOK
<1>18. ASSUME NEW b \in Browsers, ThreadSpawnCritical(b) PROVE ControlType'
  BY <1>18 DEF ThreadSpawnCritical, SpawnCritical, Target, TypeOK
<1>19. ASSUME NEW a \in Actors, Spawn(a) PROVE ControlType'
  BY <1>19, TargetType DEF Spawn, TypeOK
<1>20. ASSUME NEW a \in Actors, SpawnFails(a) PROVE ControlType'
  BY <1>20, TargetType DEF SpawnFails, TypeOK
<1>21. ASSUME NEW a \in Actors, LaunchFails(a) PROVE ControlType'
  BY <1>21, TargetType, BrowserOrder DEF LaunchFails, BeginShutdown, TypeOK
<1>22. ASSUME NEW a \in Actors, SendShutdown(a) PROVE ControlType'
  BY <1>22, TargetType DEF SendShutdown, TypeOK
<1>23. ASSUME NEW a \in Actors, ShutdownAcked(a) PROVE ControlType'
  BY <1>23, TargetType DEF ShutdownAcked, TypeOK
<1>24. ASSUME NEW a \in Actors, ShutdownRefused(a) PROVE ControlType'
  BY <1>24, TargetType, BrowserOrder DEF ShutdownRefused, Kill, CloseReturns, TypeOK
<1>25. ASSUME NEW a \in Actors, ShutdownTimeout(a) PROVE ControlType'
  BY <1>25, TargetType, BrowserOrder DEF ShutdownTimeout, Kill, CloseReturns, TypeOK
<1>26. ASSUME NEW a \in Actors, Reap(a) PROVE ControlType'
  BY <1>26, TargetType, BrowserOrder DEF Reap, Kill, CloseReturns, TypeOK
<1>27. ASSUME NEW b \in Browsers, NEW r \in BOOLEAN, NEW k \in BOOLEAN,
             Execute(b, r, k)
      PROVE  ControlType'
  BY <1>27 DEF Execute, NoLongerFresh, TypeOK
<1>28. ASSUME FailOnExecute PROVE ControlType'
  BY <1>28, BrowserOrder DEF FailOnExecute, BeginShutdown, TypeOK
<1>29. ASSUME Close PROVE ControlType'
  BY <1>29, BrowserOrder DEF Close, BeginShutdown, TypeOK
<1>30. ASSUME UNCHANGED <<pc, mainBrowser>> PROVE ControlType'
  BY <1>30 DEF TypeOK
<1>31. ASSUME MainStep PROVE ControlType'
  BY <1>31, <1>1, <1>2, <1>3, <1>4, <1>5, <1>6, <1>7, <1>8 DEF MainStep
<1>32. ASSUME NEW b \in Browsers, ThreadStep(b) PROVE ControlType'
  BY <1>32, <1>9, <1>10, <1>11, <1>12, <1>13, <1>14, <1>15, <1>16, <1>17, <1>18
  DEF ThreadStep
<1>33. ASSUME NEW a \in Actors, BrowserStep(a) PROVE ControlType'
  BY <1>33, <1>19, <1>20, <1>21, <1>22, <1>23, <1>24, <1>25, <1>26 DEF BrowserStep
<1>34. ASSUME UserStep PROVE ControlType'
  BY <1>34, <1>27, <1>28, <1>29 DEF UserStep
<1>35. ASSUME NEW b \in Browsers, ChildStep(b) PROVE ControlType'
  BY <1>35, <1>30 DEF ChildStep, Deploy, DoCommand, Answer
<1>36. ASSUME NEW b \in Browsers, Watchdog(b) PROVE ControlType'
  BY <1>36, <1>30 DEF Watchdog
<1>37. QED
  BY <1>31, <1>32, <1>33, <1>34, <1>35, <1>36, <1>30 DEF Next, vars

\* A thread that works on a sequence has a visit and a command.
LEMMA SequenceTypeStep ==
  ASSUME TypeOK, Next
  PROVE  SequenceType'
<1> USE ActorSet DEF control, browser, Goto, ThreadPCs, LaunchPCs, MainPCs, ControlType, ManagerType,
           SequenceType
<1>1. ASSUME MainLaunched PROVE SequenceType'
  BY <1>1 DEF MainLaunched, Launched, Target, TypeOK
<1>2. ASSUME MainSpawnCritical PROVE SequenceType'
  BY <1>2 DEF MainSpawnCritical, SpawnCritical, BeginShutdown, Target, TypeOK
<1>3. ASSUME JoinThread PROVE SequenceType'
  BY <1>3 DEF JoinThread, TypeOK
<1>4. ASSUME JoinTimeout PROVE SequenceType'
  BY <1>4 DEF JoinTimeout, Kill, CloseReturns, TypeOK
<1>5. ASSUME FinishShutdown PROVE SequenceType'
  BY <1>5 DEF FinishShutdown, TypeOK
<1>6. ASSUME CloseNeverLaunched(Main) PROVE SequenceType'
  BY <1>6 DEF CloseNeverLaunched, TypeOK
<1>7. ASSUME Unblock PROVE SequenceType'
  BY <1>7 DEF Unblock, TypeOK
<1>8. ASSUME FailOnJoin PROVE SequenceType'
  BY <1>8 DEF FailOnJoin, BeginShutdown, TypeOK
<1>9. ASSUME NEW b \in Browsers, PutCommand(b) PROVE SequenceType'
  BY <1>9 DEF PutCommand, TypeOK
<1>10. ASSUME NEW b \in Browsers, ReceiveOk(b) PROVE SequenceType'
  <2>1. currVisit[b] \in Visits /\ cmd[b] \in 1..NumCommands
    BY <1>10, CommandType DEF ReceiveOk, Receive
  <2>2. UNCHANGED <<spawns, currVisit>>
    BY <1>10 DEF ReceiveOk
  <2>3. cmd' \in [Browsers -> 0..NumCommands] /\ cmd'[b] # 0
    BY <1>10, <2>1, BoundsAssumption DEF ReceiveOk, LastCommand, TypeOK
  <2>4. ASSUME NEW c \in Browsers, pc'[c] \in ThreadPCs \ {"idle"}
        PROVE  currVisit[c] # 0 /\ cmd'[c] # 0
    <3>1. CASE c = b
      BY <2>1, <2>3, <3>1 DEF Visits
    <3>2. CASE c # b
      BY <1>10, <2>4, <3>2 DEF ReceiveOk, TypeOK
    <3>3. QED
      BY <3>1, <3>2
  <2>5. QED
    BY <2>2, <2>3, <2>4 DEF TypeOK
<1>11. ASSUME NEW b \in Browsers, ReceiveCritical(b) PROVE SequenceType'
  BY <1>11 DEF ReceiveCritical, Receive, Record, TypeOK
<1>12. ASSUME NEW b \in Browsers, ReceiveFailure(b) PROVE SequenceType'
  BY <1>12 DEF ReceiveFailure, Receive, Record, TypeOK
<1>13. ASSUME NEW b \in Browsers, RecordRaises(b) PROVE SequenceType'
  BY <1>13 DEF RecordRaises, TypeOK
<1>14. ASSUME NEW b \in Browsers, Tally(b) PROVE SequenceType'
  BY <1>14 DEF Tally, OverLimit, TypeOK
<1>15. ASSUME NEW b \in Browsers, EndVisit(b) PROVE SequenceType'
  BY <1>15 DEF EndVisit, WantsRestart, TypeOK
<1>16. ASSUME NEW b \in Browsers, Restart(b) PROVE SequenceType'
  BY <1>16 DEF Restart, WantsRestart, TypeOK
<1>17. ASSUME NEW b \in Browsers, ThreadRestarted(b) PROVE SequenceType'
  BY <1>17 DEF ThreadRestarted, Launched, Target, TypeOK
<1>18. ASSUME NEW b \in Browsers, ThreadSpawnCritical(b) PROVE SequenceType'
  BY <1>18 DEF ThreadSpawnCritical, SpawnCritical, Target, TypeOK
<1>19. ASSUME NEW a \in Actors, Spawn(a) PROVE SequenceType'
  BY <1>19, TargetType DEF Spawn, TypeOK
<1>20. ASSUME NEW a \in Actors, SpawnFails(a) PROVE SequenceType'
  BY <1>20, TargetType DEF SpawnFails, TypeOK
<1>21. ASSUME NEW a \in Actors, LaunchFails(a) PROVE SequenceType'
  BY <1>21, TargetType DEF LaunchFails, BeginShutdown, TypeOK
<1>22. ASSUME NEW a \in Actors, SendShutdown(a) PROVE SequenceType'
  BY <1>22, TargetType DEF SendShutdown, TypeOK
<1>23. ASSUME NEW a \in Actors, ShutdownAcked(a) PROVE SequenceType'
  BY <1>23, TargetType DEF ShutdownAcked, TypeOK
<1>24. ASSUME NEW a \in Actors, ShutdownRefused(a) PROVE SequenceType'
  BY <1>24, TargetType DEF ShutdownRefused, Kill, CloseReturns, TypeOK
<1>25. ASSUME NEW a \in Actors, ShutdownTimeout(a) PROVE SequenceType'
  BY <1>25, TargetType DEF ShutdownTimeout, Kill, CloseReturns, TypeOK
<1>26. ASSUME NEW a \in Actors, Reap(a) PROVE SequenceType'
  BY <1>26, TargetType DEF Reap, Kill, CloseReturns, TypeOK
<1>27. ASSUME NEW b \in Browsers, NEW r \in BOOLEAN, NEW k \in BOOLEAN,
             Execute(b, r, k)
      PROVE  SequenceType'
  BY <1>27, BoundsAssumption DEF Execute, NoLongerFresh, TypeOK
<1>28. ASSUME FailOnExecute PROVE SequenceType'
  BY <1>28 DEF FailOnExecute, BeginShutdown, TypeOK
<1>29. ASSUME Close PROVE SequenceType'
  BY <1>29 DEF Close, BeginShutdown, TypeOK
<1>30. ASSUME UNCHANGED <<pc, cmd, spawns, currVisit>> PROVE SequenceType'
  BY <1>30 DEF TypeOK
<1>31. ASSUME MainStep PROVE SequenceType'
  BY <1>31, <1>1, <1>2, <1>3, <1>4, <1>5, <1>6, <1>7, <1>8 DEF MainStep
<1>32. ASSUME NEW b \in Browsers, ThreadStep(b) PROVE SequenceType'
  BY <1>32, <1>9, <1>10, <1>11, <1>12, <1>13, <1>14, <1>15, <1>16, <1>17, <1>18
  DEF ThreadStep
<1>33. ASSUME NEW a \in Actors, BrowserStep(a) PROVE SequenceType'
  BY <1>33, <1>19, <1>20, <1>21, <1>22, <1>23, <1>24, <1>25, <1>26 DEF BrowserStep
<1>34. ASSUME UserStep PROVE SequenceType'
  BY <1>34, <1>27, <1>28, <1>29 DEF UserStep
<1>35. ASSUME NEW b \in Browsers, ChildStep(b) PROVE SequenceType'
  BY <1>35, <1>30 DEF ChildStep, Deploy, DoCommand, Answer
<1>36. ASSUME NEW b \in Browsers, Watchdog(b) PROVE SequenceType'
  BY <1>36, <1>30 DEF Watchdog
<1>37. QED
  BY <1>31, <1>32, <1>33, <1>34, <1>35, <1>36, <1>30 DEF Next, vars

\* The variables of the Browser objects and the children keep their types.
LEMMA BrowserTypeStep ==
  ASSUME TypeOK, Next
  PROVE  BrowserType'
<1> USE ActorSet DEF browser, Alive, BrowserType
<1>1. ASSUME JoinTimeout PROVE BrowserType'
  BY <1>1 DEF JoinTimeout, Kill, CloseReturns, TypeOK
<1>2. ASSUME NEW b \in Browsers, Tally(b) PROVE BrowserType'
  BY <1>2 DEF Tally, OverLimit, TypeOK
<1>3. ASSUME NEW b \in Browsers, Restart(b) PROVE BrowserType'
  BY <1>3 DEF Restart, WantsRestart, TypeOK
<1>4. ASSUME NEW b \in Browsers, ThreadRestarted(b) PROVE BrowserType'
  BY <1>4 DEF ThreadRestarted, Launched, Target, TypeOK
<1>5. ASSUME NEW a \in Actors, Spawn(a) PROVE BrowserType'
  BY <1>5, TargetType DEF Spawn, TypeOK
<1>6. ASSUME NEW a \in Actors, ShutdownRefused(a) PROVE BrowserType'
  BY <1>6, TargetType DEF ShutdownRefused, Kill, CloseReturns, TypeOK
<1>7. ASSUME NEW a \in Actors, ShutdownTimeout(a) PROVE BrowserType'
  BY <1>7, TargetType DEF ShutdownTimeout, Kill, CloseReturns, TypeOK
<1>8. ASSUME NEW a \in Actors, Reap(a) PROVE BrowserType'
  BY <1>8, TargetType DEF Reap, Kill, CloseReturns, TypeOK
<1>9. ASSUME NEW b \in Browsers, NEW r \in BOOLEAN, NEW k \in BOOLEAN,
             Execute(b, r, k)
      PROVE  BrowserType'
  BY <1>9 DEF Execute, NoLongerFresh, TypeOK
<1>10. ASSUME NEW b \in Browsers, Deploy(b) PROVE BrowserType'
  BY <1>10 DEF Deploy, Answer, Status, TypeOK
<1>11. ASSUME NEW b \in Browsers, DoCommand(b) PROVE BrowserType'
  BY <1>11 DEF DoCommand, Answer, Status, TypeOK
<1>12. ASSUME NEW b \in Browsers, Watchdog(b) PROVE BrowserType'
  BY <1>12 DEF Watchdog, TypeOK
<1>13. ASSUME UNCHANGED <<reset, isFresh, restartRequired, child>> PROVE BrowserType'
  BY <1>13 DEF TypeOK
<1>14. ASSUME MainStep PROVE BrowserType'
  BY <1>14, <1>1, <1>13
  DEF MainStep, MainLaunched, MainSpawnCritical, JoinThread, FinishShutdown,
      CloseNeverLaunched, Unblock, FailOnJoin
<1>15. ASSUME NEW b \in Browsers, ThreadStep(b) PROVE BrowserType'
  BY <1>15, <1>2, <1>3, <1>4, <1>13
  DEF ThreadStep, PutCommand, ReceiveOk, ReceiveCritical, ReceiveFailure, RecordRaises,
      EndVisit, ThreadSpawnCritical
<1>16. ASSUME NEW a \in Actors, BrowserStep(a) PROVE BrowserType'
  BY <1>16, <1>5, <1>6, <1>7, <1>8, <1>13
  DEF BrowserStep, SpawnFails, LaunchFails, SendShutdown, ShutdownAcked
<1>17. ASSUME UserStep PROVE BrowserType'
  BY <1>17, <1>9, <1>13 DEF UserStep, FailOnExecute, Close
<1>18. ASSUME NEW b \in Browsers, ChildStep(b) PROVE BrowserType'
  BY <1>18, <1>10, <1>11 DEF ChildStep
<1>19. QED
  BY <1>14, <1>15, <1>16, <1>17, <1>18, <1>12, <1>13 DEF Next, vars

\* The queues hold commands and statuses.
LEMMA QueueTypeStep ==
  ASSUME TypeOK, Next
  PROVE  QueueType'
<1> USE ActorSet DEF queues, QueueType
<1>1. ASSUME MainLaunched PROVE QueueType'
  BY <1>1, TargetType, QueueOps DEF MainLaunched, Launched, Target, TypeOK
<1>2. ASSUME MainSpawnCritical PROVE QueueType'
  BY <1>2, TargetType, QueueOps
  DEF MainSpawnCritical, SpawnCritical, BeginShutdown, Target, TypeOK
<1>3. ASSUME NEW b \in Browsers, PutCommand(b) PROVE QueueType'
  BY <1>3, CommandType, QueueOps DEF PutCommand, TypeOK, ThreadPCs
<1>4. ASSUME NEW b \in Browsers, ReceiveOk(b) PROVE QueueType'
  BY <1>4 DEF ReceiveOk, Receive, Record, LastCommand, TypeOK
<1>5. ASSUME NEW b \in Browsers, ReceiveCritical(b) PROVE QueueType'
  BY <1>5 DEF ReceiveCritical, Receive, Record, TypeOK
<1>6. ASSUME NEW b \in Browsers, ReceiveFailure(b) PROVE QueueType'
  <2>1. CASE Receive(b, "FAILED")
    BY <1>6, <2>1, QueueOps DEF Receive, ReceiveFailure, TypeOK
  <2>2. CASE UNCHANGED statusQueue
    BY <1>6, <2>2 DEF ReceiveFailure, TypeOK
  <2>3. QED
    BY <1>6, <2>1, <2>2 DEF ReceiveFailure
<1>7. ASSUME NEW b \in Browsers, RecordRaises(b) PROVE QueueType'
  <2>1. CASE statusQueue[b] = <<>>
    BY <1>7, <2>1 DEF RecordRaises, TypeOK
  <2>2. CASE statusQueue[b] # <<>>
    <3>1. Tail(statusQueue[b]) \in Seq(Statuses)
      BY <2>2, QueueOps DEF TypeOK
    <3>2. QED
      BY <1>7, <2>2, <3>1 DEF RecordRaises, TypeOK
  <2>3. QED
    BY <2>1, <2>2
<1>8. ASSUME NEW b \in Browsers, ThreadRestarted(b) PROVE QueueType'
  BY <1>8 DEF ThreadRestarted, Launched, Target, TypeOK
<1>9. ASSUME NEW b \in Browsers, ThreadSpawnCritical(b) PROVE QueueType'
  BY <1>9 DEF ThreadSpawnCritical, SpawnCritical, Target, TypeOK
<1>10. ASSUME NEW a \in Actors, Spawn(a) PROVE QueueType'
  BY <1>10, TargetType DEF Spawn, TypeOK
<1>11. ASSUME NEW a \in Actors, SpawnFails(a) PROVE QueueType'
  <2> DEFINE b == Target(a)
  <2>1. b \in Browsers
    BY TargetType
  <2> HIDE DEF b
  <2>2. CASE statusQueue[b] = <<>>
    BY <1>11, <2>2 DEF SpawnFails, TypeOK, b
  <2>3. CASE statusQueue[b] # <<>>
    <3>1. Tail(statusQueue[b]) \in Seq(Statuses)
      BY <2>1, <2>3, QueueOps DEF TypeOK
    <3>2. QED
      BY <1>11, <2>3, <3>1 DEF SpawnFails, TypeOK, b
  <2>4. QED
    BY <2>2, <2>3
<1>12. ASSUME NEW a \in Actors, SendShutdown(a) PROVE QueueType'
  BY <1>12, TargetType DEF SendShutdown, TypeOK
<1>13. ASSUME NEW a \in Actors, ShutdownAcked(a) PROVE QueueType'
  BY <1>13, TargetType DEF ShutdownAcked, TypeOK
<1>14. ASSUME NEW a \in Actors, ShutdownRefused(a) PROVE QueueType'
  BY <1>14, TargetType DEF ShutdownRefused, Kill, CloseReturns, TypeOK
<1>15. ASSUME NEW b \in Browsers, Deploy(b) PROVE QueueType'
  <2>1. PICK s \in Statuses : statusQueue' = [statusQueue EXCEPT ![b] = Append(@, s)]
    BY <1>15, StatusType DEF Deploy, Answer
  <2>2. QED
    BY <1>15, <2>1, QueueOps DEF Deploy, TypeOK
<1>16. ASSUME NEW b \in Browsers, DoCommand(b) PROVE QueueType'
  <2>1. /\ Head(commandQueue[b]) \in Commands \cup {Shutdown}
        /\ Tail(commandQueue[b]) \in Seq(Commands \cup {Shutdown})
    BY <1>16, QueueOps DEF DoCommand, TypeOK
  <2>2. PICK s \in Statuses : statusQueue' = [statusQueue EXCEPT ![b] = Append(@, s)]
    BY <1>16, <2>1, StatusType DEF DoCommand, Answer
  <2>3. QED
    BY <1>16, <2>1, <2>2, QueueOps DEF DoCommand, TypeOK
<1>17. ASSUME UNCHANGED queues PROVE QueueType'
  BY <1>17 DEF TypeOK
<1>18. ASSUME MainStep PROVE QueueType'
  BY <1>18, <1>1, <1>2, <1>17
  DEF MainStep, JoinThread, JoinTimeout, FinishShutdown, CloseNeverLaunched, Unblock,
      FailOnJoin
<1>19. ASSUME NEW b \in Browsers, ThreadStep(b) PROVE QueueType'
  BY <1>19, <1>3, <1>4, <1>5, <1>6, <1>7, <1>8, <1>9, <1>17
  DEF ThreadStep, Tally, EndVisit, Restart
<1>20. ASSUME NEW a \in Actors, BrowserStep(a) PROVE QueueType'
  BY <1>20, <1>10, <1>11, <1>12, <1>13, <1>14, <1>17
  DEF BrowserStep, LaunchFails, ShutdownTimeout, Reap
<1>21. ASSUME UserStep PROVE QueueType'
  BY <1>21, <1>17 DEF UserStep, Execute, FailOnExecute, Close
<1>22. ASSUME NEW b \in Browsers, ChildStep(b) PROVE QueueType'
  BY <1>22, <1>15, <1>16 DEF ChildStep
<1>23. ASSUME NEW b \in Browsers, Watchdog(b) PROVE QueueType'
  BY <1>23, <1>17 DEF Watchdog
<1>24. QED
  BY <1>18, <1>19, <1>20, <1>21, <1>22, <1>23, <1>17 DEF Next, vars

\* The history variables keep their types.
LEMMA HistoryTypeStep ==
  ASSUME TypeOK, Next
  PROVE  HistoryType'
<1> USE DEF history, ThreadPCs, HistoryType
<1>1. ASSUME JoinTimeout PROVE HistoryType'
  BY <1>1 DEF JoinTimeout, Kill, CloseReturns, TypeOK, ControlType
<1>2. ASSUME NEW b \in Browsers, PutCommand(b) PROVE HistoryType'
  BY <1>2, CommandType DEF PutCommand, TypeOK
<1>3. ASSUME NEW b \in Browsers, ReceiveOk(b) PROVE HistoryType'
  BY <1>3, CommandType, QueueOps DEF ReceiveOk, Receive, Record, LastCommand, TypeOK
<1>4. ASSUME NEW b \in Browsers, ReceiveCritical(b) PROVE HistoryType'
  <2>1. currVisit[b] \in Visits /\ cmd[b] \in 1..NumCommands
    BY <1>4, CommandType DEF ReceiveCritical, Receive
  <2>2. QED
    BY <1>4, <2>1, QueueOps DEF ReceiveCritical, Record, TypeOK
<1>5. ASSUME NEW b \in Browsers, ReceiveFailure(b) PROVE HistoryType'
  <2>1. currVisit[b] \in Visits /\ cmd[b] \in 1..NumCommands
    BY <1>5, CommandType DEF ReceiveFailure, Receive
  <2>2. /\ log' = [log EXCEPT ![currVisit[b]] = Append(@, <<cmd[b], "error">>)]
        /\ UNCHANGED <<used, expired>>
    BY <1>5 DEF ReceiveFailure, Record
  <2>3. QED
    BY <2>1, <2>2, QueueOps DEF TypeOK
<1>6. ASSUME NEW a \in Actors, Spawn(a) PROVE HistoryType'
  BY <1>6, TargetType DEF Spawn, TypeOK
<1>7. ASSUME UNCHANGED history PROVE HistoryType'
  BY <1>7 DEF TypeOK
<1>8. ASSUME MainStep PROVE HistoryType'
  BY <1>8, <1>1, <1>7
  DEF MainStep, MainLaunched, MainSpawnCritical, JoinThread, FinishShutdown,
      CloseNeverLaunched, Unblock, FailOnJoin
<1>9. ASSUME NEW b \in Browsers, ThreadStep(b) PROVE HistoryType'
  BY <1>9, <1>2, <1>3, <1>4, <1>5, <1>7
  DEF ThreadStep, RecordRaises, Tally, EndVisit, Restart, ThreadRestarted,
      ThreadSpawnCritical
<1>10. ASSUME NEW a \in Actors, BrowserStep(a) PROVE HistoryType'
  BY <1>10, <1>6, <1>7
  DEF BrowserStep, SpawnFails, LaunchFails, SendShutdown, ShutdownAcked,
      ShutdownRefused, ShutdownTimeout, Reap
<1>11. ASSUME UserStep PROVE HistoryType'
  BY <1>11, <1>7 DEF UserStep, Execute, FailOnExecute, Close
<1>12. ASSUME NEW b \in Browsers, ChildStep(b) PROVE HistoryType'
  BY <1>12, <1>7 DEF ChildStep, Deploy, DoCommand, Answer
<1>13. ASSUME NEW b \in Browsers, Watchdog(b) PROVE HistoryType'
  BY <1>13, <1>7 DEF Watchdog
<1>14. QED
  BY <1>8, <1>9, <1>10, <1>11, <1>12, <1>13, <1>7 DEF Next, vars

\* So do those about failures in a row: only a status read changes them.
LEMMA SeriesTypeStep ==
  ASSUME TypeOK, Next
  PROVE  SeriesType'
<1> USE LimitAssumption DEF history, series, Oversteps, SeriesType
<1>1. ASSUME NEW b \in Browsers, ReceiveOk(b) PROVE SeriesType'
  BY <1>1 DEF ReceiveOk, CountSuccess, TypeOK
<1>2. ASSUME NEW b \in Browsers, ReceiveFailure(b) PROVE SeriesType'
  BY <1>2 DEF ReceiveFailure, CountFailure, SeeFailure, TypeOK
<1>3. ASSUME UNCHANGED series PROVE SeriesType'
  BY <1>3 DEF TypeOK
<1>4. ASSUME MainStep PROVE SeriesType'
  BY <1>4, <1>3
  DEF MainStep, MainLaunched, MainSpawnCritical, JoinThread, JoinTimeout, FinishShutdown,
      CloseNeverLaunched, Unblock, FailOnJoin
<1>5. ASSUME NEW b \in Browsers, ThreadStep(b) PROVE SeriesType'
  BY <1>5, <1>1, <1>2, <1>3
  DEF ThreadStep, PutCommand, ReceiveCritical, RecordRaises, Tally, EndVisit, Restart,
      ThreadRestarted, ThreadSpawnCritical
<1>6. ASSUME NEW a \in Actors, BrowserStep(a) PROVE SeriesType'
  BY <1>6, <1>3
  DEF BrowserStep, Spawn, SpawnFails, LaunchFails, SendShutdown, ShutdownAcked,
      ShutdownRefused, ShutdownTimeout, Reap
<1>7. ASSUME UserStep PROVE SeriesType'
  BY <1>7, <1>3 DEF UserStep, Execute, FailOnExecute, Close
<1>8. ASSUME NEW b \in Browsers, ChildStep(b) PROVE SeriesType'
  BY <1>8, <1>3 DEF ChildStep, Deploy, DoCommand, Answer
<1>9. ASSUME NEW b \in Browsers, Watchdog(b) PROVE SeriesType'
  BY <1>9, <1>3 DEF Watchdog
<1>10. QED
  BY <1>4, <1>5, <1>6, <1>7, <1>8, <1>9, <1>3 DEF Next, vars

\* Every variable keeps its type.
THEOREM TypeCorrect == Spec => []TypeOK
<1>1. Init => TypeOK
  <2>1. Init => ManagerType
    <3>1. Init => closing \in BOOLEAN /\ sockOpen \in BOOLEAN /\ raising \in BOOLEAN
      BY DEF Init
    <3>2. Init => failurecount \in Nat /\ visits \in 0..MaxVisits
      BY BoundsAssumption DEF Init
    <3>3. QED
      BY <3>1, <3>2 DEF Init, ManagerType
  <2>2. Init => ControlType
    BY ActorSet, BrowserOrder DEF Init, ControlType, ThreadPCs, LaunchPCs, MainPCs
  <2>3. Init => SequenceType /\ BrowserType
    BY ActorSet, BoundsAssumption DEF Init, SequenceType, BrowserType, ThreadPCs
  <2>4. Init => QueueType /\ HistoryType
    BY DEF Init, QueueType, HistoryType
  <2>5. Init => SeriesType
    BY LimitAssumption DEF Init, SeriesType, Oversteps
  <2>6. QED
    BY <2>1, <2>2, <2>3, <2>4, <2>5 DEF TypeOK
<1>2. TypeOK /\ Next => TypeOK'
  BY ManagerTypeStep, ControlTypeStep, SequenceTypeStep, BrowserTypeStep, QueueTypeStep,
     HistoryTypeStep, SeriesTypeStep DEF TypeOK
<1>3. TypeOK /\ UNCHANGED vars => TypeOK'
  BY DEF TypeOK, vars, manager, control, browser, queues, history, series, ManagerType,
     ControlType, SequenceType, BrowserType, QueueType, HistoryType, SeriesType
<1>4. QED
  BY <1>1, <1>2, <1>3, PTL DEF Spec


------------------------------------------------------------------------------
(* The inductive invariant.  RepliesMatch speaks of a thread that waits for *)
(* a status; that no late answer can reach it follows from where queues are *)
(* known to be empty (Queues): when a thread leaves a visit without asking  *)
(* for a restart, when a launch succeeds, when a visit starts.  The main    *)
(* thread works on the same queues, hence Phases and LaunchInOrder, which   *)
(* say that it leaves a browser with a running thread alone but for the     *)
(* kill after a join that timed out.                                        *)

\* Nothing is on its way to or from browser b.
Silent(b) ==
  commandQueue[b] = <<>> /\ statusQueue[b] = <<>> /\ child[b] # "deploying"

\* The one command that was sent is still to be answered, or its answer is
\* all there is.
Waiting(b) ==
  LET c == <<currVisit[b], cmd[b]>> IN
  /\ child[b] # "deploying"
  /\ \/ commandQueue[b] = <<c>> /\ statusQueue[b] = <<>>
     \/ /\ commandQueue[b] = <<>>
        /\ Len(statusQueue[b]) <= 1
        /\ \A i \in DOMAIN statusQueue[b] : statusQueue[b][i].of = c

\* A browser that is launched has at most one thing to say.
Launching(b) ==
  /\ commandQueue[b] = <<>>
  /\ Len(statusQueue[b]) <= 1
  /\ child[b] = "deploying" => statusQueue[b] = <<>>

\* The phases of the main thread.
Phases ==
  /\ closing => pc[Main] \notin {"ready", "blocked", "spawn", "await"}
  /\ ~closing => pc[Main] \notin {"join", "finish", "closed", "raised"}
  /\ closing /\ pc[Main] \in {"shutdown", "ack", "reap"} => pc[mainBrowser] = "idle"
  /\ ~sockOpen => pc[Main] \in {"closed", "raised"}

\* While the main thread launches the browsers, no command thread runs.
LaunchInOrder ==
  ~closing /\ pc[Main] \in LaunchPCs =>
    /\ \A b \in Browsers : pc[b] = "idle"
    /\ \A b \in Browsers : b < mainBrowser => Silent(b)
    /\ \A b \in Browsers : b > mainBrowser => child[b] = "none"

\* What the queues hold, by where the thread of the browser stands.
Queues(b) ==
  /\ pc[b] = "put" => Silent(b)
  /\ pc[b] = "status" => Waiting(b)
  /\ pc[b] = "drain" => restartRequired[b] \/ Silent(b)
  /\ pc[b] \in ThreadPCs \ {"idle"} => ~isFresh[b]
  /\ pc[b] = "await" => Launching(b)
  /\ pc[b] = "idle" /\ pc[Main] \in {"ready", "blocked"} /\ ~Failed => Silent(b)
  /\ pc[Main] = "await" /\ b = mainBrowser => Launching(b)

\* The inductive invariant.
IInv ==
  /\ TypeOK
  /\ Phases
  /\ LaunchInOrder
  /\ NoOrphan
  /\ \A b \in Browsers : Queues(b)

\* The phases of the main thread.
LEMMA PhasesStep ==
  ASSUME TypeOK, Phases, Next
  PROVE  Phases'
<1> USE ActorSet DEF manager, control, Goto, Finished, Failed, ThreadPCs, LaunchPCs, MainPCs, ControlType, Phases
<1>1. ASSUME MainLaunched PROVE Phases'
  BY <1>1, BrowserOrder DEF MainLaunched, Launched, TypeOK, Target
<1>2. ASSUME MainSpawnCritical PROVE Phases'
  BY <1>2, BrowserOrder
  DEF MainSpawnCritical, SpawnCritical, BeginShutdown, TypeOK, Target
<1>3. ASSUME JoinThread PROVE Phases'
  BY <1>3 DEF JoinThread, TypeOK
<1>4. ASSUME JoinTimeout PROVE Phases'
  BY <1>4, BrowserOrder DEF JoinTimeout, Kill, CloseReturns, TypeOK
<1>5. ASSUME FinishShutdown PROVE Phases'
  BY <1>5 DEF FinishShutdown, TypeOK
<1>6. ASSUME CloseNeverLaunched(Main) PROVE Phases'
  BY <1>6 DEF CloseNeverLaunched, TypeOK
<1>7. ASSUME Unblock PROVE Phases'
  BY <1>7 DEF Unblock, TypeOK
<1>8. ASSUME FailOnJoin PROVE Phases'
  BY <1>8, BrowserOrder DEF FailOnJoin, BeginShutdown, TypeOK
<1>9. ASSUME NEW b \in Browsers, PutCommand(b) PROVE Phases'
  BY <1>9 DEF PutCommand, TypeOK
<1>10. ASSUME NEW b \in Browsers, ReceiveOk(b) PROVE Phases'
  BY <1>10 DEF ReceiveOk, Receive, Record, LastCommand, TypeOK
<1>11. ASSUME NEW b \in Browsers, ReceiveCritical(b) PROVE Phases'
  BY <1>11 DEF ReceiveCritical, Receive, Record, TypeOK
<1>12. ASSUME NEW b \in Browsers, ReceiveFailure(b) PROVE Phases'
  BY <1>12 DEF ReceiveFailure, Receive, Record, TypeOK
<1>13. ASSUME NEW b \in Browsers, RecordRaises(b) PROVE Phases'
  BY <1>13 DEF RecordRaises, TypeOK
<1>14. ASSUME NEW b \in Browsers, Tally(b) PROVE Phases'
  BY <1>14 DEF Tally, OverLimit, TypeOK
<1>15. ASSUME NEW b \in Browsers, EndVisit(b) PROVE Phases'
  BY <1>15 DEF EndVisit, WantsRestart, TypeOK
<1>16. ASSUME NEW b \in Browsers, Restart(b) PROVE Phases'
  BY <1>16 DEF Restart, WantsRestart, TypeOK
<1>17. ASSUME NEW b \in Browsers, ThreadRestarted(b) PROVE Phases'
  BY <1>17 DEF ThreadRestarted, Launched, TypeOK, Target
<1>18. ASSUME NEW b \in Browsers, ThreadSpawnCritical(b) PROVE Phases'
  BY <1>18 DEF ThreadSpawnCritical, SpawnCritical, TypeOK, Target
<1>19. ASSUME NEW a \in Actors, Spawn(a) PROVE Phases'
  BY <1>19 DEF Spawn, TypeOK, Target
<1>20. ASSUME NEW a \in Actors, SpawnFails(a) PROVE Phases'
  BY <1>20 DEF SpawnFails, TypeOK, Target
<1>21. ASSUME NEW a \in Actors, LaunchFails(a) PROVE Phases'
  BY <1>21, BrowserOrder DEF LaunchFails, BeginShutdown, TypeOK, Target
<1>22. ASSUME NEW a \in Actors, SendShutdown(a) PROVE Phases'
  BY <1>22 DEF SendShutdown, TypeOK, Target
<1>23. ASSUME NEW a \in Actors, ShutdownAcked(a) PROVE Phases'
  BY <1>23 DEF ShutdownAcked, TypeOK, Target
<1>24. ASSUME NEW a \in Actors, ShutdownRefused(a) PROVE Phases'
  BY <1>24, BrowserOrder DEF ShutdownRefused, Kill, CloseReturns, TypeOK, Target
<1>25. ASSUME NEW a \in Actors, ShutdownTimeout(a) PROVE Phases'
  BY <1>25, BrowserOrder DEF ShutdownTimeout, Kill, CloseReturns, TypeOK, Target
<1>26. ASSUME NEW a \in Actors, Reap(a) PROVE Phases'
  BY <1>26, BrowserOrder DEF Reap, Kill, CloseReturns, TypeOK, Target
<1>27. ASSUME NEW b \in Browsers, NEW r \in BOOLEAN, NEW k \in BOOLEAN,
             Execute(b, r, k)
      PROVE  Phases'
  BY <1>27 DEF Execute, NoLongerFresh, TypeOK
<1>28. ASSUME FailOnExecute PROVE Phases'
  BY <1>28, BrowserOrder DEF FailOnExecute, BeginShutdown, TypeOK
<1>29. ASSUME Close PROVE Phases'
  BY <1>29, BrowserOrder DEF Close, BeginShutdown, TypeOK
<1>30. ASSUME UNCHANGED <<closing, sockOpen, pc, mainBrowser>> PROVE Phases'
  BY <1>30 DEF TypeOK
<1>31. ASSUME MainStep PROVE Phases'
  BY <1>31, <1>1, <1>2, <1>3, <1>4, <1>5, <1>6, <1>7, <1>8 DEF MainStep
<1>32. ASSUME NEW b \in Browsers, ThreadStep(b) PROVE Phases'
  BY <1>32, <1>9, <1>10, <1>11, <1>12, <1>13, <1>14, <1>15, <1>16, <1>17, <1>18
  DEF ThreadStep
<1>33. ASSUME NEW a \in Actors, BrowserStep(a) PROVE Phases'
  BY <1>33, <1>19, <1>20, <1>21, <1>22, <1>23, <1>24, <1>25, <1>26 DEF BrowserStep
<1>34. ASSUME UserStep PROVE Phases'
  BY <1>34, <1>27, <1>28, <1>29 DEF UserStep
<1>35. ASSUME NEW b \in Browsers, ChildStep(b) PROVE Phases'
  BY <1>35, <1>30 DEF ChildStep, Deploy, DoCommand, Answer
<1>36. ASSUME NEW b \in Browsers, Watchdog(b) PROVE Phases'
  BY <1>36, <1>30 DEF Watchdog
<1>37. QED
  BY <1>31, <1>32, <1>33, <1>34, <1>35, <1>36, <1>30 DEF Next, vars

\* The main thread launches the browsers one after the other.
LEMMA LaunchInOrderStep ==
  ASSUME IInv, Next
  PROVE  LaunchInOrder'
<1> USE ActorSet DEF manager, control, Goto, Failed, ThreadPCs, LaunchPCs, MainPCs, ControlType, Phases, LaunchInOrder, Silent, queues
<1>1. ASSUME MainLaunched PROVE LaunchInOrder'
  <2> DEFINE m == mainBrowser
  <2>1. /\ statusQueue[m] # <<>> /\ Launching(m)
        /\ statusQueue' = [statusQueue EXCEPT ![m] = Tail(@)]
        /\ UNCHANGED <<closing, commandQueue, child>>
    BY <1>1 DEF MainLaunched, Launched, Target, IInv, TypeOK, Queues
  <2>2. /\ \A b \in Browsers : b < m => Silent(b)
        /\ \A b \in Browsers : b > m => child[b] = "none"
        /\ \A b \in Browsers : pc[b] = "idle"
        /\ m \in Browsers
    BY <1>1 DEF MainLaunched, Launched, IInv, TypeOK
  <2>3. Tail(statusQueue[m]) = <<>>
    BY <2>1, <2>2 DEF Launching, IInv, TypeOK, QueueType
  <2>4. \A b \in Browsers : b < m + 1 =>
          commandQueue'[b] = <<>> /\ statusQueue'[b] = <<>> /\ child'[b] # "deploying"
    BY <2>1, <2>2, <2>3 DEF Launching, IInv, TypeOK, QueueType, Browsers
  <2>5. CASE pc'[Main] = "spawn" /\ mainBrowser' = m + 1
    <3>1. \A b \in Browsers : pc'[b] = "idle"
      BY <1>1, <2>2 DEF MainLaunched, IInv, TypeOK
    <3>2. \A b \in Browsers : b > m + 1 => child'[b] = "none"
      BY <2>1, <2>2 DEF Browsers
    <3>3. QED
      BY <2>4, <2>5, <3>1, <3>2
  <2>6. CASE pc'[Main] = "ready"
    BY <2>6
  <2>7. QED
    BY <1>1, <2>5, <2>6 DEF MainLaunched, IInv, TypeOK
<1>2. ASSUME MainSpawnCritical PROVE LaunchInOrder'
  BY <1>2, BrowserOrder
  DEF MainSpawnCritical, SpawnCritical, BeginShutdown, IInv, TypeOK, BrowserType, Target
<1>3. ASSUME JoinThread PROVE LaunchInOrder'
  BY <1>3 DEF JoinThread, IInv, TypeOK, BrowserType
<1>4. ASSUME JoinTimeout PROVE LaunchInOrder'
  BY <1>4, BrowserOrder DEF JoinTimeout, Kill, CloseReturns, IInv, TypeOK, BrowserType
<1>5. ASSUME FinishShutdown PROVE LaunchInOrder'
  BY <1>5 DEF FinishShutdown, IInv, TypeOK, BrowserType
<1>6. ASSUME CloseNeverLaunched(Main) PROVE LaunchInOrder'
  BY <1>6 DEF CloseNeverLaunched, IInv, TypeOK, BrowserType
<1>7. ASSUME Unblock PROVE LaunchInOrder'
  BY <1>7 DEF Unblock, IInv, TypeOK, BrowserType
<1>8. ASSUME FailOnJoin PROVE LaunchInOrder'
  BY <1>8, BrowserOrder DEF FailOnJoin, BeginShutdown, IInv, TypeOK, BrowserType
<1>9. ASSUME NEW b \in Browsers, PutCommand(b) PROVE LaunchInOrder'
  BY <1>9 DEF PutCommand, IInv, TypeOK, BrowserType
<1>10. ASSUME NEW b \in Browsers, ReceiveOk(b) PROVE LaunchInOrder'
  BY <1>10 DEF ReceiveOk, Receive, Record, LastCommand, IInv, TypeOK, BrowserType
<1>11. ASSUME NEW b \in Browsers, ReceiveCritical(b) PROVE LaunchInOrder'
  BY <1>11 DEF ReceiveCritical, Receive, Record, IInv, TypeOK, BrowserType
<1>12. ASSUME NEW b \in Browsers, ReceiveFailure(b) PROVE LaunchInOrder'
  BY <1>12 DEF ReceiveFailure, Receive, Record, IInv, TypeOK, BrowserType
<1>13. ASSUME NEW b \in Browsers, RecordRaises(b) PROVE LaunchInOrder'
  BY <1>13 DEF RecordRaises, IInv, TypeOK, BrowserType
<1>14. ASSUME NEW b \in Browsers, Tally(b) PROVE LaunchInOrder'
  BY <1>14 DEF Tally, OverLimit, IInv, TypeOK, BrowserType
<1>15. ASSUME NEW b \in Browsers, EndVisit(b) PROVE LaunchInOrder'
  BY <1>15 DEF EndVisit, WantsRestart, IInv, TypeOK, BrowserType
<1>16. ASSUME NEW b \in Browsers, Restart(b) PROVE LaunchInOrder'
  BY <1>16 DEF Restart, WantsRestart, IInv, TypeOK, BrowserType
<1>17. ASSUME NEW b \in Browsers, ThreadRestarted(b) PROVE LaunchInOrder'
  BY <1>17 DEF ThreadRestarted, Launched, IInv, TypeOK, BrowserType, Target
<1>18. ASSUME NEW b \in Browsers, ThreadSpawnCritical(b) PROVE LaunchInOrder'
  BY <1>18 DEF ThreadSpawnCritical, SpawnCritical, IInv, TypeOK, BrowserType, Target
<1>19. ASSUME NEW a \in Actors, Spawn(a) PROVE LaunchInOrder'
  <2>1. /\ pc[a] = "spawn" /\ pc' = [pc EXCEPT ![a] = "await"]
        /\ UNCHANGED <<closing, mainBrowser>>
        /\ \A b \in Browsers : b # Target(a) =>
             UNCHANGED <<commandQueue[b], statusQueue[b], child[b]>>
    BY <1>19 DEF Spawn, IInv, TypeOK, QueueType, BrowserType
  <2>2. QED
    BY <1>19, <2>1 DEF Target, IInv, TypeOK, Browsers
<1>20. ASSUME NEW a \in Actors, SpawnFails(a) PROVE LaunchInOrder'
  <2>1. /\ UNCHANGED <<closing, mainBrowser, commandQueue, child>>
        /\ \A b \in Browsers : b # Target(a) => statusQueue'[b] = statusQueue[b]
        /\ pc[Target(a)] # "idle" \/ Target(a) = mainBrowser
    BY <1>20 DEF SpawnFails, Target, IInv, TypeOK, QueueType
  <2>2. QED
    BY <1>20, <2>1 DEF SpawnFails, Target, IInv, TypeOK, Browsers
<1>21. ASSUME NEW a \in Actors, LaunchFails(a) PROVE LaunchInOrder'
  BY <1>21, BrowserOrder
  DEF LaunchFails, BeginShutdown, IInv, TypeOK, BrowserType, Target
<1>22. ASSUME NEW a \in Actors, SendShutdown(a) PROVE LaunchInOrder'
  BY <1>22 DEF SendShutdown, IInv, TypeOK, BrowserType, Target
<1>23. ASSUME NEW a \in Actors, ShutdownAcked(a) PROVE LaunchInOrder'
  BY <1>23 DEF ShutdownAcked, IInv, TypeOK, BrowserType, Target
<1>24. ASSUME NEW a \in Actors, ShutdownRefused(a) PROVE LaunchInOrder'
  BY <1>24, BrowserOrder
  DEF ShutdownRefused, Kill, CloseReturns, IInv, TypeOK, BrowserType, Target
<1>25. ASSUME NEW a \in Actors, ShutdownTimeout(a) PROVE LaunchInOrder'
  BY <1>25, BrowserOrder
  DEF ShutdownTimeout, Kill, CloseReturns, IInv, TypeOK, BrowserType, Target
<1>26. ASSUME NEW a \in Actors, Reap(a) PROVE LaunchInOrder'
  BY <1>26, BrowserOrder DEF Reap, Kill, CloseReturns, IInv, TypeOK, BrowserType, Target
<1>27. ASSUME NEW b \in Browsers, NEW r \in BOOLEAN, NEW k \in BOOLEAN,
             Execute(b, r, k)
      PROVE  LaunchInOrder'
  BY <1>27 DEF Execute, NoLongerFresh, IInv, TypeOK, BrowserType
<1>28. ASSUME FailOnExecute PROVE LaunchInOrder'
  BY <1>28, BrowserOrder DEF FailOnExecute, BeginShutdown, IInv, TypeOK, BrowserType
<1>29. ASSUME Close PROVE LaunchInOrder'
  BY <1>29, BrowserOrder DEF Close, BeginShutdown, IInv, TypeOK, BrowserType
<1>30. ASSUME NEW b \in Browsers, Deploy(b) PROVE LaunchInOrder'
  <2>1. CASE ~closing /\ pc[Main] \in LaunchPCs
    <3>1. b = mainBrowser
      BY <1>30, <2>1 DEF Deploy, IInv, TypeOK, Browsers
    <3>2. /\ \A c \in Browsers : c # b => /\ commandQueue'[c] = commandQueue[c]
                                          /\ statusQueue'[c] = statusQueue[c]
                                          /\ child'[c] = child[c]
          /\ UNCHANGED <<closing, pc, mainBrowser>>
      BY <1>30 DEF Deploy, Answer, IInv, TypeOK, BrowserType, QueueType
    <3>3. QED
      BY <2>1, <3>1, <3>2 DEF IInv, TypeOK, Browsers
  <2>2. CASE ~(~closing /\ pc[Main] \in LaunchPCs)
    BY <1>30, <2>2 DEF Deploy, Answer
  <2>3. QED
    BY <2>1, <2>2
<1>31. ASSUME NEW b \in Browsers, DoCommand(b) PROVE LaunchInOrder'
  <2>1. CASE ~closing /\ pc[Main] \in LaunchPCs
    <3>1. b = mainBrowser
      BY <1>31, <2>1 DEF DoCommand, IInv, TypeOK, Browsers
    <3>2. /\ \A c \in Browsers : c # b => /\ commandQueue'[c] = commandQueue[c]
                                          /\ statusQueue'[c] = statusQueue[c]
                                          /\ child'[c] = child[c]
          /\ UNCHANGED <<closing, pc, mainBrowser>>
      BY <1>31 DEF DoCommand, Answer, IInv, TypeOK, BrowserType, QueueType
    <3>3. QED
      BY <2>1, <3>1, <3>2 DEF IInv, TypeOK, Browsers
  <2>2. CASE ~(~closing /\ pc[Main] \in LaunchPCs)
    BY <1>31, <2>2 DEF DoCommand, Answer
  <2>3. QED
    BY <2>1, <2>2
<1>32. ASSUME UNCHANGED <<closing, pc, mainBrowser, queues, child>> PROVE LaunchInOrder'
  BY <1>32 DEF IInv, TypeOK
<1>33. ASSUME MainStep PROVE LaunchInOrder'
  BY <1>33, <1>1, <1>2, <1>3, <1>4, <1>5, <1>6, <1>7, <1>8 DEF MainStep
<1>34. ASSUME NEW b \in Browsers, ThreadStep(b) PROVE LaunchInOrder'
  BY <1>34, <1>9, <1>10, <1>11, <1>12, <1>13, <1>14, <1>15, <1>16, <1>17, <1>18
  DEF ThreadStep
<1>35. ASSUME NEW a \in Actors, BrowserStep(a) PROVE LaunchInOrder'
  BY <1>35, <1>19, <1>20, <1>21, <1>22, <1>23, <1>24, <1>25, <1>26 DEF BrowserStep
<1>36. ASSUME UserStep PROVE LaunchInOrder'
  BY <1>36, <1>27, <1>28, <1>29 DEF UserStep
<1>37. ASSUME NEW b \in Browsers, ChildStep(b) PROVE LaunchInOrder'
  BY <1>37, <1>30, <1>31 DEF ChildStep
<1>38. ASSUME NEW b \in Browsers, Watchdog(b) PROVE LaunchInOrder'
  BY <1>38, <1>32 DEF Watchdog
<1>39. QED
  BY <1>33, <1>34, <1>35, <1>36, <1>37, <1>38, <1>32 DEF Next, vars

\* A browser is spawned when its process is gone.
LEMMA NoOrphanStep ==
  ASSUME IInv, Next
  PROVE  NoOrphan'
<1> USE ActorSet DEF manager, control, Goto, ThreadPCs, LaunchPCs, MainPCs, ControlType, Phases, LaunchInOrder, NoOrphan, Target
<1>1. ASSUME MainLaunched PROVE NoOrphan'
  <2>1. mainBrowser' = mainBrowser + 1 => child[mainBrowser'] \in {"none", "exited"}
    BY <1>1, BrowserOrder DEF MainLaunched, Launched, IInv, TypeOK, Browsers
  <2>2. QED
    BY <1>1, <2>1 DEF MainLaunched, IInv, TypeOK, Browsers
<1>2. ASSUME MainSpawnCritical PROVE NoOrphan'
  BY <1>2, BrowserOrder
  DEF MainSpawnCritical, SpawnCritical, BeginShutdown, IInv, TypeOK, BrowserType
<1>3. ASSUME JoinThread PROVE NoOrphan'
  BY <1>3 DEF JoinThread, IInv, TypeOK, BrowserType
<1>4. ASSUME JoinTimeout PROVE NoOrphan'
  BY <1>4, BrowserOrder DEF JoinTimeout, Kill, CloseReturns, IInv, TypeOK, BrowserType
<1>5. ASSUME FinishShutdown PROVE NoOrphan'
  BY <1>5 DEF FinishShutdown, IInv, TypeOK, BrowserType
<1>6. ASSUME CloseNeverLaunched(Main) PROVE NoOrphan'
  BY <1>6 DEF CloseNeverLaunched, IInv, TypeOK, BrowserType
<1>7. ASSUME Unblock PROVE NoOrphan'
  BY <1>7 DEF Unblock, IInv, TypeOK, BrowserType
<1>8. ASSUME FailOnJoin PROVE NoOrphan'
  BY <1>8, BrowserOrder DEF FailOnJoin, BeginShutdown, IInv, TypeOK, BrowserType
<1>9. ASSUME NEW b \in Browsers, PutCommand(b) PROVE NoOrphan'
  BY <1>9 DEF PutCommand, IInv, TypeOK, BrowserType
<1>10. ASSUME NEW b \in Browsers, ReceiveOk(b) PROVE NoOrphan'
  BY <1>10 DEF ReceiveOk, Receive, Record, LastCommand, IInv, TypeOK, BrowserType
<1>11. ASSUME NEW b \in Browsers, ReceiveCritical(b) PROVE NoOrphan'
  BY <1>11 DEF ReceiveCritical, Receive, Record, IInv, TypeOK, BrowserType
<1>12. ASSUME NEW b \in Browsers, ReceiveFailure(b) PROVE NoOrphan'
  BY <1>12 DEF ReceiveFailure, Receive, Record, IInv, TypeOK, BrowserType
<1>13. ASSUME NEW b \in Browsers, RecordRaises(b) PROVE NoOrphan'
  BY <1>13 DEF RecordRaises, IInv, TypeOK, BrowserType
<1>14. ASSUME NEW b \in Browsers, Tally(b) PROVE NoOrphan'
  BY <1>14 DEF Tally, OverLimit, IInv, TypeOK, BrowserType
<1>15. ASSUME NEW b \in Browsers, EndVisit(b) PROVE NoOrphan'
  BY <1>15 DEF EndVisit, WantsRestart, IInv, TypeOK, BrowserType
<1>16. ASSUME NEW b \in Browsers, Restart(b) PROVE NoOrphan'
  BY <1>16 DEF Restart, WantsRestart, IInv, TypeOK, BrowserType
<1>17. ASSUME NEW b \in Browsers, ThreadRestarted(b) PROVE NoOrphan'
  BY <1>17 DEF ThreadRestarted, Launched, IInv, TypeOK, BrowserType
<1>18. ASSUME NEW b \in Browsers, ThreadSpawnCritical(b) PROVE NoOrphan'
  BY <1>18 DEF ThreadSpawnCritical, SpawnCritical, IInv, TypeOK, BrowserType
<1>19. ASSUME NEW a \in Actors, Spawn(a) PROVE NoOrphan'
  BY <1>19 DEF Spawn, IInv, TypeOK, BrowserType
<1>20. ASSUME NEW a \in Actors, SpawnFails(a) PROVE NoOrphan'
  BY <1>20 DEF SpawnFails, IInv, TypeOK, BrowserType
<1>21. ASSUME NEW a \in Actors, LaunchFails(a) PROVE NoOrphan'
  BY <1>21, BrowserOrder DEF LaunchFails, BeginShutdown, IInv, TypeOK, BrowserType
<1>22. ASSUME NEW a \in Actors, SendShutdown(a) PROVE NoOrphan'
  BY <1>22 DEF SendShutdown, IInv, TypeOK, BrowserType
<1>23. ASSUME NEW a \in Actors, ShutdownAcked(a) PROVE NoOrphan'
  BY <1>23 DEF ShutdownAcked, IInv, TypeOK, BrowserType
<1>24. ASSUME NEW a \in Actors, ShutdownRefused(a) PROVE NoOrphan'
  BY <1>24, BrowserOrder
  DEF ShutdownRefused, Kill, CloseReturns, IInv, TypeOK, BrowserType
<1>25. ASSUME NEW a \in Actors, ShutdownTimeout(a) PROVE NoOrphan'
  BY <1>25, BrowserOrder
  DEF ShutdownTimeout, Kill, CloseReturns, IInv, TypeOK, BrowserType
<1>26. ASSUME NEW a \in Actors, Reap(a) PROVE NoOrphan'
  BY <1>26, BrowserOrder DEF Reap, Kill, CloseReturns, IInv, TypeOK, BrowserType
<1>27. ASSUME NEW b \in Browsers, NEW r \in BOOLEAN, NEW k \in BOOLEAN,
             Execute(b, r, k)
      PROVE  NoOrphan'
  BY <1>27 DEF Execute, NoLongerFresh, IInv, TypeOK, BrowserType
<1>28. ASSUME FailOnExecute PROVE NoOrphan'
  BY <1>28, BrowserOrder DEF FailOnExecute, BeginShutdown, IInv, TypeOK, BrowserType
<1>29. ASSUME Close PROVE NoOrphan'
  BY <1>29, BrowserOrder DEF Close, BeginShutdown, IInv, TypeOK, BrowserType
<1>30. ASSUME NEW b \in Browsers, Deploy(b) PROVE NoOrphan'
  BY <1>30 DEF Deploy, Answer, IInv, TypeOK, BrowserType, control
<1>31. ASSUME NEW b \in Browsers, DoCommand(b) PROVE NoOrphan'
  BY <1>31 DEF DoCommand, Answer, IInv, TypeOK, BrowserType, control
<1>32. ASSUME UNCHANGED <<closing, pc, mainBrowser, child>> PROVE NoOrphan'
  BY <1>32 DEF IInv, TypeOK
<1>33. ASSUME MainStep PROVE NoOrphan'
  BY <1>33, <1>1, <1>2, <1>3, <1>4, <1>5, <1>6, <1>7, <1>8 DEF MainStep
<1>34. ASSUME NEW b \in Browsers, ThreadStep(b) PROVE NoOrphan'
  BY <1>34, <1>9, <1>10, <1>11, <1>12, <1>13, <1>14, <1>15, <1>16, <1>17, <1>18
  DEF ThreadStep
<1>35. ASSUME NEW a \in Actors, BrowserStep(a) PROVE NoOrphan'
  BY <1>35, <1>19, <1>20, <1>21, <1>22, <1>23, <1>24, <1>25, <1>26 DEF BrowserStep
<1>36. ASSUME UserStep PROVE NoOrphan'
  BY <1>36, <1>27, <1>28, <1>29 DEF UserStep
<1>37. ASSUME NEW b \in Browsers, ChildStep(b) PROVE NoOrphan'
  BY <1>37, <1>30, <1>31 DEF ChildStep
<1>38. ASSUME NEW b \in Browsers, Watchdog(b) PROVE NoOrphan'
  BY <1>38, <1>32 DEF Watchdog
<1>39. QED
  BY <1>33, <1>34, <1>35, <1>36, <1>37, <1>38, <1>32 DEF Next, vars

\* A command thread that runs is not disturbed by the main thread, and the main
\* thread launches and closes browsers whose threads do not run.
LEMMA Apart ==
  ASSUME IInv
  PROVE  /\ \A b \in Browsers : pc[b] # "idle" => pc[Main] # "await"
         /\ pc[Main] \in LaunchPCs => pc[mainBrowser] = "idle"
BY DEF IInv, TypeOK, ControlType, Phases, LaunchInOrder, LaunchPCs

\* A step that does not concern browser x.
LEMMA Elsewhere ==
  ASSUME NEW x \in Browsers, Queues(x),
         UNCHANGED <<pc[x], cmd[x], currVisit[x], isFresh[x], restartRequired[x],
                     commandQueue[x], statusQueue[x], child[x]>>,
         pc'[Main] = "await" /\ x = mainBrowser' => pc[Main] = "await" /\ x = mainBrowser,
         pc'[Main] \in {"ready", "blocked"} /\ ~Failed' =>
           pc[Main] \in {"ready", "blocked"} /\ ~Failed
  PROVE  Queues(x)'
BY DEF Queues, Silent, Waiting, Launching

\* A step after which nothing is asked of browser x.
LEMMA NothingAsked ==
  ASSUME NEW x \in Browsers,
         pc'[x] \in {"idle"} \cup (LaunchPCs \ {"await"}),
         pc'[x] = "idle" => pc'[Main] \notin {"ready", "blocked"} \/ Failed',
         pc'[Main] = "await" => x # mainBrowser'
  PROVE  Queues(x)'
BY DEF Queues, ThreadPCs, LaunchPCs

\* A step in which an actor launches or closes its browser, up to the next spawn.
LEMMA ActorStep ==
  ASSUME IInv, NEW x \in Browsers, NEW a \in Actors, pc[a] \in LaunchPCs,
         a \in Browsers => pc'[a] \in LaunchPCs \ {"await"} /\ UNCHANGED mainBrowser,
         a = Main => pc'[Main] \notin {"ready", "blocked", "await"},
         \A c \in Actors : c # a => pc'[c] = pc[c],
         UNCHANGED <<failureStatus, cmd, currVisit, isFresh, restartRequired>>,
         \A b \in Browsers \ {Target(a)} :
           UNCHANGED <<commandQueue[b], statusQueue[b], child[b]>>
  PROVE  Queues(x)'
<1> USE ActorSet, Apart
<1>1. Queues(x)
  BY DEF IInv
<1>2. CASE x # Target(a)
  <2>1. CASE a = Main
    BY <1>1, <1>2, <2>1, Elsewhere DEF Failed
  <2>2. CASE a # Main
    BY <1>1, <1>2, <2>2, Elsewhere DEF Failed, Target
  <2>3. QED
    BY <2>1, <2>2
<1>3. CASE x = Target(a)
  <2>1. CASE a = Main
    BY <1>3, <2>1, NothingAsked DEF Target
  <2>2. CASE a # Main
    BY <1>3, <2>2, NothingAsked DEF Target, LaunchPCs
  <2>3. QED
    BY <2>1, <2>2
<1>4. QED
  BY <1>2, <1>3

\* What the queues hold.
LEMMA QueuesStep ==
  ASSUME IInv, NEW x \in Browsers, Next
  PROVE  Queues(x)'
<1> USE ActorSet DEF manager, control, browser, queues, Goto, Failed, ThreadPCs, LaunchPCs, MainPCs,
           ControlType, Queues, Silent, Waiting, Launching, Phases
<1>1. ASSUME MainLaunched PROVE Queues(x)'
  <2>1. pc[Main] = "await" /\ pc[x] = "idle" /\ pc'[x] = "idle"
    BY <1>1 DEF MainLaunched, Launched, IInv, TypeOK, LaunchInOrder
  <2>2. CASE mainBrowser < NumBrowsers
    BY <1>1, <2>1, <2>2, NothingAsked DEF MainLaunched, IInv, TypeOK
  <2>3. CASE mainBrowser >= NumBrowsers
    <3>1. Silent(x)'
      <4>1. CASE x < mainBrowser
        BY <1>1, <2>1, <4>1 DEF MainLaunched, Launched, Target, IInv, TypeOK, LaunchInOrder, QueueType, Browsers
      <4>2. CASE x = mainBrowser
        <5>1. Launching(x) /\ statusQueue[x] # <<>>
          BY <1>1, <2>1, <4>2 DEF MainLaunched, Launched, Target, IInv
        <5>2. Tail(statusQueue[x]) = <<>>
          BY <5>1 DEF IInv, TypeOK, QueueType
        <5>3. QED
          BY <1>1, <4>2, <5>1, <5>2 DEF MainLaunched, Launched, Target, IInv, TypeOK, QueueType
      <4>3. QED
        BY <2>3, <4>1, <4>2, BrowsersAssumption DEF IInv, TypeOK, Browsers
    <3>2. pc'[Main] = "ready"
      BY <1>1, <2>3, BrowsersAssumption DEF MainLaunched, IInv, TypeOK, Browsers
    <3>3. QED
      BY <2>1, <3>1, <3>2
  <2>4. QED
    BY <2>2, <2>3, BrowsersAssumption DEF IInv, TypeOK, Browsers
<1>2. ASSUME MainSpawnCritical PROVE Queues(x)'
  BY <1>2, BrowserOrder
  DEF MainSpawnCritical, SpawnCritical, BeginShutdown, IInv, TypeOK, Target, QueueType,
      BrowserType, SequenceType
<1>3. ASSUME JoinThread PROVE Queues(x)'
  BY <1>3 DEF JoinThread, IInv, TypeOK, QueueType, BrowserType, SequenceType
<1>4. ASSUME JoinTimeout PROVE Queues(x)'
  <2>1. /\ pc'[Main] \in {"join", "finish"} /\ pc'[x] = pc[x]
        /\ child'[x] # "deploying" \/ child'[x] = child[x]
        /\ UNCHANGED <<cmd, currVisit, isFresh, restartRequired, queues>>
    BY <1>4 DEF JoinTimeout, Kill, CloseReturns, IInv, TypeOK, BrowserType
  <2>2. Queues(x)
    BY DEF IInv
  <2>3. QED
    BY <2>1, <2>2
<1>5. ASSUME FinishShutdown PROVE Queues(x)'
  BY <1>5 DEF FinishShutdown, IInv, TypeOK, QueueType, BrowserType, SequenceType
<1>6. ASSUME CloseNeverLaunched(Main) PROVE Queues(x)'
  BY <1>6 DEF CloseNeverLaunched, IInv, TypeOK, QueueType, BrowserType, SequenceType
<1>7. ASSUME Unblock PROVE Queues(x)'
  BY <1>7 DEF Unblock, IInv, TypeOK, QueueType, BrowserType, SequenceType
<1>8. ASSUME FailOnJoin PROVE Queues(x)'
  BY <1>8, BrowserOrder
  DEF FailOnJoin, BeginShutdown, IInv, TypeOK, QueueType, BrowserType, SequenceType
<1>9. ASSUME NEW b \in Browsers, PutCommand(b) PROVE Queues(x)'
  <2>1. CASE x # b
    <3>1. /\ UNCHANGED <<pc[x], cmd[x], currVisit[x], isFresh[x], restartRequired[x]>>
          /\ UNCHANGED <<commandQueue[x], statusQueue[x], child[x]>>
          /\ UNCHANGED <<mainBrowser, pc[Main]>> /\ (Failed' \/ UNCHANGED failureStatus)
      BY <1>9, <2>1 DEF PutCommand, IInv, TypeOK, QueueType, BrowserType, SequenceType
    <3>2. QED
      BY <3>1, Elsewhere DEF IInv
  <2>2. CASE x = b
    <3>1. /\ Silent(b) /\ ~isFresh[b] /\ pc[Main] # "await"
      BY <1>9, Apart DEF PutCommand, IInv
    <3>2. /\ pc'[b] = "status" /\ pc'[Main] = pc[Main]
          /\ commandQueue'[b] = <<<<currVisit[b], cmd[b]>>>>
          /\ UNCHANGED <<cmd, currVisit, isFresh, statusQueue, child>>
      BY <1>9, <3>1 DEF PutCommand, IInv, TypeOK, QueueType
    <3>3. QED
      BY <2>2, <3>1, <3>2
  <2>3. QED
    BY <2>1, <2>2
<1>10. ASSUME NEW b \in Browsers, ReceiveOk(b) PROVE Queues(x)'
  <2>1. CASE x # b
    <3>1. /\ UNCHANGED <<pc[x], cmd[x], currVisit[x], isFresh[x], restartRequired[x]>>
          /\ UNCHANGED <<commandQueue[x], statusQueue[x], child[x]>>
          /\ UNCHANGED <<mainBrowser, pc[Main]>> /\ (Failed' \/ UNCHANGED failureStatus)
      BY <1>10, <2>1 DEF ReceiveOk, Receive, IInv, TypeOK, QueueType, BrowserType, SequenceType
    <3>2. QED
      BY <3>1, Elsewhere DEF IInv
  <2>2. CASE x = b
    <3>1. /\ Waiting(b) /\ ~isFresh[b] /\ pc[Main] # "await"
          /\ statusQueue[b] # <<>> /\ statusQueue' = [statusQueue EXCEPT ![b] = Tail(@)]
      BY <1>10, Apart DEF ReceiveOk, Receive, IInv
    <3>2. Tail(statusQueue[b]) = <<>> /\ commandQueue[b] = <<>>
      BY <3>1 DEF IInv, TypeOK, QueueType
    <3>3. /\ pc'[b] \in {"put", "drain"} /\ pc'[Main] = pc[Main]
          /\ commandQueue'[b] = <<>> /\ statusQueue'[b] = <<>>
          /\ child'[b] # "deploying" /\ ~isFresh'[b]
      BY <1>10, <3>1, <3>2 DEF ReceiveOk, IInv, TypeOK, QueueType
    <3>4. QED
      BY <2>2, <3>1, <3>3
  <2>3. QED
    BY <2>1, <2>2
<1>11. ASSUME NEW b \in Browsers, ReceiveCritical(b) PROVE Queues(x)'
  BY <1>11
  DEF ReceiveCritical, Receive, Record, IInv, TypeOK, QueueType, BrowserType,
      SequenceType
<1>12. ASSUME NEW b \in Browsers, ReceiveFailure(b) PROVE Queues(x)'
  <2>1. CASE x # b
    <3>1. /\ UNCHANGED <<pc[x], cmd[x], currVisit[x], isFresh[x], restartRequired[x]>>
          /\ UNCHANGED <<commandQueue[x], statusQueue[x], child[x]>>
          /\ UNCHANGED <<mainBrowser, pc[Main]>> /\ (Failed' \/ UNCHANGED failureStatus)
      BY <1>12, <2>1 DEF ReceiveFailure, Receive, IInv, TypeOK, QueueType, BrowserType, SequenceType
    <3>2. QED
      BY <3>1, Elsewhere DEF IInv
  <2>2. CASE x = b
    <3>1. ~isFresh[b] /\ pc[Main] # "await"
      BY <1>12, Apart DEF ReceiveFailure, Receive, IInv
    <3>2. pc'[b] = "tally" /\ pc'[Main] = pc[Main] /\ UNCHANGED isFresh
      BY <1>12 DEF ReceiveFailure, IInv, TypeOK
    <3>3. QED
      BY <2>2, <3>1, <3>2
  <2>3. QED
    BY <2>1, <2>2
<1>13. ASSUME NEW b \in Browsers, RecordRaises(b) PROVE Queues(x)'
  <2>1. CASE x # b
    <3>1. /\ UNCHANGED <<pc[x], cmd[x], currVisit[x], isFresh[x], restartRequired[x]>>
          /\ UNCHANGED <<commandQueue[x], statusQueue[x], child[x]>>
          /\ UNCHANGED <<mainBrowser, pc[Main]>> /\ (Failed' \/ UNCHANGED failureStatus)
      BY <1>13, <2>1 DEF RecordRaises, IInv, TypeOK, QueueType, BrowserType, SequenceType
    <3>2. QED
      BY <3>1, Elsewhere DEF IInv
  <2>2. CASE x = b
    <3>1. pc'[b] = "idle" /\ pc'[Main] \in {"closed", "raised"}
      BY <1>13 DEF RecordRaises, IInv, TypeOK
    <3>2. QED
      BY <2>2, <3>1, NothingAsked
  <2>3. QED
    BY <2>1, <2>2
<1>14. ASSUME NEW b \in Browsers, Tally(b) PROVE Queues(x)'
  BY <1>14 DEF Tally, OverLimit, IInv, TypeOK, QueueType, BrowserType, SequenceType
<1>15. ASSUME NEW b \in Browsers, EndVisit(b) PROVE Queues(x)'
  BY <1>15
  DEF EndVisit, WantsRestart, IInv, TypeOK, QueueType, BrowserType, SequenceType
<1>16. ASSUME NEW b \in Browsers, Restart(b) PROVE Queues(x)'
  BY <1>16 DEF Restart, WantsRestart, IInv, TypeOK, QueueType, BrowserType, SequenceType
<1>17. ASSUME NEW b \in Browsers, ThreadRestarted(b) PROVE Queues(x)'
  <2>1. CASE x # b
    <3>1. /\ UNCHANGED <<pc[x], cmd[x], currVisit[x], isFresh[x], restartRequired[x]>>
          /\ UNCHANGED <<commandQueue[x], statusQueue[x], child[x]>>
          /\ UNCHANGED <<mainBrowser, pc[Main]>> /\ (Failed' \/ UNCHANGED failureStatus)
      BY <1>17, <2>1 DEF ThreadRestarted, Launched, Target, IInv, TypeOK, QueueType, BrowserType, SequenceType
    <3>2. QED
      BY <3>1, Elsewhere DEF IInv
  <2>2. CASE x = b
    <3>1. /\ Launching(b) /\ pc[Main] # "await"
          /\ statusQueue[b] # <<>> /\ statusQueue' = [statusQueue EXCEPT ![b] = Tail(@)]
      BY <1>17, Apart DEF ThreadRestarted, Launched, Target, IInv
    <3>2. Tail(statusQueue[b]) = <<>>
      BY <3>1 DEF IInv, TypeOK, QueueType
    <3>3. pc'[b] = "idle" /\ pc'[Main] = pc[Main] /\ Silent(b)'
      BY <1>17, <3>1, <3>2 DEF ThreadRestarted, IInv, TypeOK, QueueType
    <3>4. QED
      BY <2>2, <3>1, <3>3
  <2>3. QED
    BY <2>1, <2>2
<1>18. ASSUME NEW b \in Browsers, ThreadSpawnCritical(b) PROVE Queues(x)'
  <2>1. CASE x # b
    <3>1. /\ UNCHANGED <<pc[x], cmd[x], currVisit[x], isFresh[x], restartRequired[x]>>
          /\ UNCHANGED <<commandQueue[x], statusQueue[x], child[x]>>
          /\ UNCHANGED <<mainBrowser, pc[Main]>> /\ (Failed' \/ UNCHANGED failureStatus)
      BY <1>18, <2>1 DEF ThreadSpawnCritical, SpawnCritical, Target, IInv, TypeOK, QueueType, BrowserType, SequenceType
    <3>2. QED
      BY <3>1, Elsewhere DEF IInv
  <2>2. CASE x = b
    <3>1. /\ Launching(b) /\ pc[Main] # "await"
          /\ statusQueue[b] # <<>> /\ statusQueue' = [statusQueue EXCEPT ![b] = Tail(@)]
      BY <1>18, Apart DEF ThreadSpawnCritical, SpawnCritical, Target, IInv
    <3>2. Tail(statusQueue[b]) = <<>>
      BY <3>1 DEF IInv, TypeOK, QueueType
    <3>3. pc'[b] = "idle" /\ pc'[Main] = pc[Main] /\ Silent(b)'
      BY <1>18, <3>1, <3>2 DEF ThreadSpawnCritical, IInv, TypeOK, QueueType
    <3>4. QED
      BY <2>2, <3>1, <3>3
  <2>3. QED
    BY <2>1, <2>2
<1>19. ASSUME NEW a \in Actors, Spawn(a) PROVE Queues(x)'
  <2>1. /\ pc'[a] = "await" /\ \A c \in Actors : c # a => pc'[c] = pc[c]
        /\ UNCHANGED <<failureStatus, mainBrowser, cmd, currVisit, restartRequired>>
        /\ \A b \in Browsers \ {Target(a)} :
             UNCHANGED <<isFresh[b], commandQueue[b], statusQueue[b], child[b]>>
    BY <1>19 DEF Spawn, IInv, TypeOK, QueueType, BrowserType
  <2>2. CASE x # Target(a)
    BY <2>1, <2>2, Elsewhere DEF Target, IInv
  <2>3. CASE x = Target(a)
    <3>1. Launching(x)'
      BY <1>19, <2>3 DEF Spawn, IInv, TypeOK, QueueType
    <3>2. a = Main => pc[x] = "idle"
      BY <1>19, <2>3, Apart DEF Spawn, Target
    <3>3. a # Main => pc[Main] # "await"
      BY <1>19, Apart DEF Spawn
    <3>4. QED
      BY <2>1, <2>3, <3>1, <3>2, <3>3 DEF Target, Queues
  <2>4. QED
    BY <2>2, <2>3
<1>20. ASSUME NEW a \in Actors, SpawnFails(a) PROVE Queues(x)'
  <2>1. /\ pc[a] \in LaunchPCs
        /\ a \in Browsers => pc'[a] \in LaunchPCs \ {"await"} /\ UNCHANGED mainBrowser
        /\ a = Main => pc'[Main] \notin {"ready", "blocked", "await"}
        /\ \A c \in Actors : c # a => pc'[c] = pc[c]
    BY <1>20 DEF SpawnFails, IInv, TypeOK
  <2>2. /\ UNCHANGED <<failureStatus, cmd, currVisit, isFresh, restartRequired>>
        /\ \A b \in Browsers \ {Target(a)} :
             UNCHANGED <<commandQueue[b], statusQueue[b], child[b]>>
    BY <1>20 DEF SpawnFails, IInv, TypeOK, QueueType, BrowserType
  <2>3. QED
    BY <2>1, <2>2, ActorStep
<1>21. ASSUME NEW a \in Actors, LaunchFails(a) PROVE Queues(x)'
  <2>1. CASE a = Main
    BY <1>21, <2>1, Elsewhere DEF LaunchFails, BeginShutdown, IInv, TypeOK
  <2>2. CASE a # Main
    <3>1. /\ pc'[a] = "idle" /\ \A c \in Actors : c # a => pc'[c] = pc[c]
          /\ Failed' /\ pc[Main] # "await" /\ pc[a] = "spawn"
          /\ UNCHANGED <<mainBrowser, cmd, browser, queues, child>>
      BY <1>21, <2>2, Apart DEF LaunchFails, IInv, TypeOK
    <3>2. CASE x # a
      BY <2>2, <3>1, <3>2, Elsewhere DEF IInv
    <3>3. CASE x = a
      BY <2>2, <3>1, <3>3, NothingAsked
    <3>4. QED
      BY <3>2, <3>3
  <2>3. QED
    BY <2>1, <2>2
<1>22. ASSUME NEW a \in Actors, SendShutdown(a) PROVE Queues(x)'
  <2>1. /\ pc[a] \in LaunchPCs
        /\ a \in Browsers => pc'[a] \in LaunchPCs \ {"await"} /\ UNCHANGED mainBrowser
        /\ a = Main => pc'[Main] \notin {"ready", "blocked", "await"}
        /\ \A c \in Actors : c # a => pc'[c] = pc[c]
    BY <1>22 DEF SendShutdown, IInv, TypeOK
  <2>2. /\ UNCHANGED <<failureStatus, cmd, currVisit, isFresh, restartRequired>>
        /\ \A b \in Browsers \ {Target(a)} :
             UNCHANGED <<commandQueue[b], statusQueue[b], child[b]>>
    BY <1>22 DEF SendShutdown, IInv, TypeOK, QueueType, BrowserType
  <2>3. QED
    BY <2>1, <2>2, ActorStep
<1>23. ASSUME NEW a \in Actors, ShutdownAcked(a) PROVE Queues(x)'
  <2>1. /\ pc[a] \in LaunchPCs
        /\ a \in Browsers => pc'[a] \in LaunchPCs \ {"await"} /\ UNCHANGED mainBrowser
        /\ a = Main => pc'[Main] \notin {"ready", "blocked", "await"}
        /\ \A c \in Actors : c # a => pc'[c] = pc[c]
    BY <1>23 DEF ShutdownAcked, IInv, TypeOK
  <2>2. /\ UNCHANGED <<failureStatus, cmd, currVisit, isFresh, restartRequired>>
        /\ \A b \in Browsers \ {Target(a)} :
             UNCHANGED <<commandQueue[b], statusQueue[b], child[b]>>
    BY <1>23 DEF ShutdownAcked, IInv, TypeOK, QueueType, BrowserType
  <2>3. QED
    BY <2>1, <2>2, ActorStep
<1>24. ASSUME NEW a \in Actors, ShutdownRefused(a) PROVE Queues(x)'
  <2>1. /\ pc[a] \in LaunchPCs
        /\ a \in Browsers => pc'[a] \in LaunchPCs \ {"await"} /\ UNCHANGED mainBrowser
        /\ a = Main => pc'[Main] \notin {"ready", "blocked", "await"}
        /\ \A c \in Actors : c # a => pc'[c] = pc[c]
    BY <1>24 DEF ShutdownRefused, Kill, CloseReturns, IInv, TypeOK
  <2>2. /\ UNCHANGED <<failureStatus, cmd, currVisit, isFresh, restartRequired>>
        /\ \A b \in Browsers \ {Target(a)} :
             UNCHANGED <<commandQueue[b], statusQueue[b], child[b]>>
    BY <1>24 DEF ShutdownRefused, Kill, CloseReturns, IInv, TypeOK, QueueType, BrowserType
  <2>3. QED
    BY <2>1, <2>2, ActorStep
<1>25. ASSUME NEW a \in Actors, ShutdownTimeout(a) PROVE Queues(x)'
  <2>1. /\ pc[a] \in LaunchPCs
        /\ a \in Browsers => pc'[a] \in LaunchPCs \ {"await"} /\ UNCHANGED mainBrowser
        /\ a = Main => pc'[Main] \notin {"ready", "blocked", "await"}
        /\ \A c \in Actors : c # a => pc'[c] = pc[c]
    BY <1>25 DEF ShutdownTimeout, Kill, CloseReturns, IInv, TypeOK
  <2>2. /\ UNCHANGED <<failureStatus, cmd, currVisit, isFresh, restartRequired>>
        /\ \A b \in Browsers \ {Target(a)} :
             UNCHANGED <<commandQueue[b], statusQueue[b], child[b]>>
    BY <1>25 DEF ShutdownTimeout, Kill, CloseReturns, IInv, TypeOK, QueueType, BrowserType
  <2>3. QED
    BY <2>1, <2>2, ActorStep
<1>26. ASSUME NEW a \in Actors, Reap(a) PROVE Queues(x)'
  <2>1. /\ pc[a] \in LaunchPCs
        /\ a \in Browsers => pc'[a] \in LaunchPCs \ {"await"} /\ UNCHANGED mainBrowser
        /\ a = Main => pc'[Main] \notin {"ready", "blocked", "await"}
        /\ \A c \in Actors : c # a => pc'[c] = pc[c]
    BY <1>26 DEF Reap, Kill, CloseReturns, IInv, TypeOK
  <2>2. /\ UNCHANGED <<failureStatus, cmd, currVisit, isFresh, restartRequired>>
        /\ \A b \in Browsers \ {Target(a)} :
             UNCHANGED <<commandQueue[b], statusQueue[b], child[b]>>
    BY <1>26 DEF Reap, Kill, CloseReturns, IInv, TypeOK, QueueType, BrowserType
  <2>3. QED
    BY <2>1, <2>2, ActorStep
<1>27. ASSUME NEW b \in Browsers, NEW r \in BOOLEAN, NEW k \in BOOLEAN,
             Execute(b, r, k)
      PROVE  Queues(x)'
  BY <1>27
  DEF Execute, NoLongerFresh, IInv, TypeOK, QueueType, BrowserType, SequenceType
<1>28. ASSUME FailOnExecute PROVE Queues(x)'
  BY <1>28, BrowserOrder
  DEF FailOnExecute, BeginShutdown, IInv, TypeOK, QueueType, BrowserType, SequenceType
<1>29. ASSUME Close PROVE Queues(x)'
  BY <1>29, BrowserOrder
  DEF Close, BeginShutdown, IInv, TypeOK, QueueType, BrowserType, SequenceType
<1>30. ASSUME NEW b \in Browsers, Deploy(b) PROVE Queues(x)'
  <2>1. CASE x # b
    <3>1. /\ UNCHANGED <<pc[x], cmd[x], currVisit[x], isFresh[x], restartRequired[x]>>
          /\ UNCHANGED <<commandQueue[x], statusQueue[x], child[x]>>
          /\ UNCHANGED <<mainBrowser, pc[Main]>> /\ (Failed' \/ UNCHANGED failureStatus)
      BY <1>30, <2>1 DEF Deploy, Answer, IInv, TypeOK, QueueType, BrowserType, SequenceType
    <3>2. QED
      BY <3>1, Elsewhere DEF IInv
  <2>2. CASE x = b
    <3>1. /\ child[b] = "deploying" /\ child'[b] # "deploying"
          /\ UNCHANGED <<pc, mainBrowser, failureStatus, commandQueue, isFresh, restartRequired>>
      BY <1>30 DEF Deploy, Answer, IInv, TypeOK, BrowserType
    <3>2. /\ pc[b] \notin {"put", "status"} /\ (pc[b] = "drain" => restartRequired[b])
          /\ ~(pc[b] = "idle" /\ pc[Main] \in {"ready", "blocked"} /\ ~Failed)
      BY <3>1 DEF IInv
    <3>3. ASSUME Launching(b)
          PROVE  Launching(b)'
      <4>1. PICK k \in {"READY", "FAILED", "CRITICAL"} :
              statusQueue'[b] = Append(statusQueue[b], Status(k, Shutdown))
        BY <1>30 DEF Deploy, Answer, IInv, TypeOK, QueueType
      <4>2. QED
        BY <3>1, <3>3, <4>1
    <3>4. Queues(b)
      BY DEF IInv
    <3>5. QED
      BY <2>2, <3>1, <3>2, <3>3, <3>4 DEF Queues
  <2>3. QED
    BY <2>1, <2>2
<1>31. ASSUME NEW b \in Browsers, DoCommand(b) PROVE Queues(x)'
  <2>1. CASE x # b
    <3>1. /\ UNCHANGED <<pc[x], cmd[x], currVisit[x], isFresh[x], restartRequired[x]>>
          /\ UNCHANGED <<commandQueue[x], statusQueue[x], child[x]>>
          /\ UNCHANGED <<mainBrowser, pc[Main]>> /\ (Failed' \/ UNCHANGED failureStatus)
      BY <1>31, <2>1 DEF DoCommand, Answer, IInv, TypeOK, QueueType, BrowserType, SequenceType
    <3>2. QED
      BY <3>1, Elsewhere DEF IInv
  <2>2. CASE x = b
    <3>1. /\ child[b] = "ready" /\ child'[b] # "deploying" /\ commandQueue[b] # <<>>
          /\ UNCHANGED <<pc, mainBrowser, failureStatus, cmd, currVisit, isFresh, restartRequired>>
      BY <1>31 DEF DoCommand, Answer, IInv, TypeOK, BrowserType
    <3>2. /\ pc[b] \notin {"put", "await"} /\ (pc[b] = "drain" => restartRequired[b])
          /\ ~(pc[b] = "idle" /\ pc[Main] \in {"ready", "blocked"} /\ ~Failed)
          /\ ~(pc[Main] = "await" /\ b = mainBrowser)
      BY <3>1 DEF IInv
    <3>3. ASSUME pc[b] = "status"
          PROVE  Waiting(b)'
      <4>1. commandQueue[b] = <<<<currVisit[b], cmd[b]>>>> /\ statusQueue[b] = <<>>
        BY <3>1, <3>3 DEF IInv
      <4>2. PICK k \in {"OK", "FAILED", "CRITICAL"} :
              statusQueue'[b] = Append(statusQueue[b], Status(k, Head(commandQueue[b])))
        BY <1>31 DEF DoCommand, Answer, IInv, TypeOK, QueueType
      <4>3. commandQueue'[b] = <<>>
        BY <1>31, <4>1 DEF DoCommand, IInv, TypeOK, QueueType
      <4>4. QED
        BY <3>1, <4>1, <4>2, <4>3 DEF Status
    <3>4. Queues(b)
      BY DEF IInv
    <3>5. QED
      BY <2>2, <3>1, <3>2, <3>3, <3>4 DEF Queues
  <2>3. QED
    BY <2>1, <2>2
<1>32. ASSUME NEW b \in Browsers, Watchdog(b) PROVE Queues(x)'
  BY <1>32 DEF Watchdog, IInv, TypeOK, QueueType, BrowserType, SequenceType
<1>33. ASSUME UNCHANGED <<failureStatus, pc, mainBrowser, cmd, currVisit, isFresh, restartRequired, queues, child>>
      PROVE  Queues(x)'
  BY <1>33 DEF IInv, TypeOK
<1>34. ASSUME MainStep PROVE Queues(x)'
  BY <1>34, <1>1, <1>2, <1>3, <1>4, <1>5, <1>6, <1>7, <1>8 DEF MainStep
<1>35. ASSUME NEW b \in Browsers, ThreadStep(b) PROVE Queues(x)'
  BY <1>35, <1>9, <1>10, <1>11, <1>12, <1>13, <1>14, <1>15, <1>16, <1>17, <1>18
  DEF ThreadStep
<1>36. ASSUME NEW a \in Actors, BrowserStep(a) PROVE Queues(x)'
  BY <1>36, <1>19, <1>20, <1>21, <1>22, <1>23, <1>24, <1>25, <1>26 DEF BrowserStep
<1>37. ASSUME UserStep PROVE Queues(x)'
  BY <1>37, <1>27, <1>28, <1>29 DEF UserStep
<1>38. ASSUME NEW b \in Browsers, ChildStep(b) PROVE Queues(x)'
  BY <1>38, <1>30, <1>31 DEF ChildStep
<1>39. QED
  BY <1>34, <1>35, <1>36, <1>37, <1>38, <1>32, <1>33 DEF Next, vars

\* IInv holds initially, and in every reachable state.
THEOREM Safety == Spec => []IInv
<1> USE DEF queues
<1>1. Init /\ TypeOK => IInv
  <2>1. Init => Phases /\ NoOrphan
    BY ActorSet, BrowserOrder DEF Init, Phases, NoOrphan, Target, Main
  <2>2. Init /\ TypeOK => LaunchInOrder
    <3>1. \A b \in Browsers : ~(b < 1)
      BY BrowsersAssumption DEF Browsers
    <3>2. QED
      BY <3>1, ActorSet DEF Init, LaunchInOrder, Main
  <2>3. ASSUME Init, NEW b \in Browsers
        PROVE  Queues(b)
    BY <2>3, ActorSet DEF Init, Queues, ThreadPCs
  <2>4. QED
    BY <2>1, <2>2, <2>3 DEF IInv
<1>2. IInv /\ TypeOK' /\ Next => IInv'
  <2>1. IInv => TypeOK /\ Phases
    BY DEF IInv
  <2>2. QED
    BY <2>1, PhasesStep, LaunchInOrderStep, NoOrphanStep, QueuesStep DEF IInv
<1>3. IInv /\ TypeOK' /\ UNCHANGED vars => IInv'
  <2>1. ASSUME IInv, UNCHANGED vars
        PROVE  Phases' /\ LaunchInOrder' /\ NoOrphan'
    BY <2>1 DEF vars, manager, control, browser, IInv, Phases, LaunchInOrder, NoOrphan, Silent,
       Target
  <2>2. ASSUME IInv, UNCHANGED vars, NEW b \in Browsers
        PROVE  Queues(b)'
    BY <2>2, Elsewhere DEF vars, manager, control, browser, IInv, Failed
  <2>3. QED
    BY <2>1, <2>2 DEF IInv
<1>4. QED
  BY <1>1, <1>2, <1>3, TypeCorrect, PTL DEF Spec

\* A status is credited to the command it answers.
THEOREM RepliesMatched == Spec => []RepliesMatch
<1>1. IInv => RepliesMatch
  BY DEF IInv, Queues, Waiting, RepliesMatch
<1>2. QED
  BY <1>1, Safety, PTL

\* A browser is spawned only when its previous process is gone.
THEOREM NoneOrphaned == Spec => []NoOrphan
<1>1. IInv => NoOrphan
  BY DEF IInv
<1>2. QED
  BY <1>1, Safety, PTL

------------------------------------------------------------------------------
(* The failure limit.  LimitEnforced is not inductive: it must be known     *)
(* that failurecount has missed none of the failures in a row, and that it  *)
(* still exceeds the limit when the thread at "tally" compares it.          *)

LimitInv ==
  /\ streak <= failurecount
  /\ overstep = "counted" =>
       \/ Failed
       \/ failurecount > FailureLimit /\ \E b \in Browsers : pc[b] = "tally"

\* Every step keeps it.
LEMMA LimitStep ==
  ASSUME TypeOK, LimitInv, Next
  PROVE  LimitInv'
<1> USE ActorSet, LimitAssumption
    DEF manager, control, history, series, Goto, Failed, ControlType, SeriesType, LimitInv
<1>1. ASSUME MainLaunched PROVE LimitInv'
  BY <1>1 DEF MainLaunched, Launched, TypeOK
<1>2. ASSUME MainSpawnCritical PROVE LimitInv'
  BY <1>2 DEF MainSpawnCritical, SpawnCritical, BeginShutdown, TypeOK
<1>3. ASSUME JoinThread PROVE LimitInv'
  BY <1>3 DEF JoinThread, TypeOK
<1>4. ASSUME JoinTimeout PROVE LimitInv'
  BY <1>4 DEF JoinTimeout, CloseReturns, TypeOK
<1>5. ASSUME FinishShutdown PROVE LimitInv'
  BY <1>5 DEF FinishShutdown, TypeOK
<1>6. ASSUME CloseNeverLaunched(Main) PROVE LimitInv'
  BY <1>6 DEF CloseNeverLaunched, TypeOK
<1>7. ASSUME Unblock PROVE LimitInv'
  BY <1>7 DEF Unblock, TypeOK
<1>8. ASSUME FailOnJoin PROVE LimitInv'
  BY <1>8 DEF FailOnJoin, BeginShutdown, TypeOK
<1>9. ASSUME NEW b \in Browsers, PutCommand(b) PROVE LimitInv'
  BY <1>9 DEF PutCommand, TypeOK
<1>10. ASSUME NEW b \in Browsers, ReceiveOk(b) PROVE LimitInv'
  BY <1>10 DEF ReceiveOk, CountSuccess, Receive, TypeOK, ManagerType
<1>11. ASSUME NEW b \in Browsers, ReceiveCritical(b) PROVE LimitInv'
  BY <1>11 DEF ReceiveCritical, Receive, TypeOK
<1>12. ASSUME NEW b \in Browsers, ReceiveFailure(b) PROVE LimitInv'
  BY <1>12 DEF ReceiveFailure, CountFailure, SeeFailure, Receive, TypeOK, ManagerType
<1>13. ASSUME NEW b \in Browsers, RecordRaises(b) PROVE LimitInv'
  BY <1>13 DEF RecordRaises, TypeOK
<1>14. ASSUME NEW b \in Browsers, Tally(b) PROVE LimitInv'
  BY <1>14 DEF Tally, OverLimit, TypeOK, ManagerType
<1>15. ASSUME NEW b \in Browsers, EndVisit(b) PROVE LimitInv'
  BY <1>15 DEF EndVisit, TypeOK
<1>16. ASSUME NEW b \in Browsers, Restart(b) PROVE LimitInv'
  BY <1>16 DEF Restart, TypeOK
<1>17. ASSUME NEW b \in Browsers, ThreadRestarted(b) PROVE LimitInv'
  BY <1>17 DEF ThreadRestarted, Launched, TypeOK
<1>18. ASSUME NEW b \in Browsers, ThreadSpawnCritical(b) PROVE LimitInv'
  BY <1>18 DEF ThreadSpawnCritical, SpawnCritical, TypeOK
<1>19. ASSUME NEW a \in Actors, Spawn(a) PROVE LimitInv'
  BY <1>19 DEF Spawn, TypeOK
<1>20. ASSUME NEW a \in Actors, SpawnFails(a) PROVE LimitInv'
  BY <1>20 DEF SpawnFails, TypeOK
<1>21. ASSUME NEW a \in Actors, LaunchFails(a) PROVE LimitInv'
  BY <1>21 DEF LaunchFails, BeginShutdown, TypeOK
<1>22. ASSUME NEW a \in Actors, SendShutdown(a) PROVE LimitInv'
  BY <1>22 DEF SendShutdown, TypeOK
<1>23. ASSUME NEW a \in Actors, ShutdownAcked(a) PROVE LimitInv'
  BY <1>23 DEF ShutdownAcked, TypeOK
<1>24. ASSUME NEW a \in Actors, ShutdownRefused(a) PROVE LimitInv'
  BY <1>24 DEF ShutdownRefused, CloseReturns, TypeOK
<1>25. ASSUME NEW a \in Actors, ShutdownTimeout(a) PROVE LimitInv'
  BY <1>25 DEF ShutdownTimeout, CloseReturns, TypeOK
<1>26. ASSUME NEW a \in Actors, Reap(a) PROVE LimitInv'
  BY <1>26 DEF Reap, CloseReturns, TypeOK
<1>27. ASSUME NEW b \in Browsers, NEW r \in BOOLEAN, NEW k \in BOOLEAN,
             Execute(b, r, k)
      PROVE  LimitInv'
  BY <1>27 DEF Execute, NoLongerFresh, TypeOK
<1>28. ASSUME FailOnExecute PROVE LimitInv'
  BY <1>28 DEF FailOnExecute, BeginShutdown, TypeOK
<1>29. ASSUME Close PROVE LimitInv'
  BY <1>29 DEF Close, BeginShutdown, TypeOK
<1>30. ASSUME UNCHANGED <<failurecount, failureStatus, pc, series>> PROVE LimitInv'
  BY <1>30 DEF TypeOK
<1>31. ASSUME MainStep PROVE LimitInv'
  BY <1>31, <1>1, <1>2, <1>3, <1>4, <1>5, <1>6, <1>7, <1>8 DEF MainStep
<1>32. ASSUME NEW b \in Browsers, ThreadStep(b) PROVE LimitInv'
  BY <1>32, <1>9, <1>10, <1>11, <1>12, <1>13, <1>14, <1>15, <1>16, <1>17, <1>18
  DEF ThreadStep
<1>33. ASSUME NEW a \in Actors, BrowserStep(a) PROVE LimitInv'
  BY <1>33, <1>19, <1>20, <1>21, <1>22, <1>23, <1>24, <1>25, <1>26 DEF BrowserStep
<1>34. ASSUME UserStep PROVE LimitInv'
  BY <1>34, <1>27, <1>28, <1>29 DEF UserStep
<1>35. ASSUME NEW b \in Browsers, ChildStep(b) PROVE LimitInv'
  BY <1>35, <1>30 DEF ChildStep, Deploy, DoCommand, Answer
<1>36. ASSUME NEW b \in Browsers, Watchdog(b) PROVE LimitInv'
  BY <1>36, <1>30 DEF Watchdog
<1>37. QED
  BY <1>31, <1>32, <1>33, <1>34, <1>35, <1>36, <1>30 DEF Next, vars

\* Once the failures in a row exceed the limit, failure_status is set or a
\* thread is about to set it, unless a success of another thread came between
\* its increment and its comparison.
THEOREM FailuresLimited == Spec => []LimitEnforced
<1>1. Init => LimitInv
  BY LimitAssumption DEF Init, LimitInv
<1>2. TypeOK /\ LimitInv /\ Next => LimitInv'
  BY LimitStep
<1>3. LimitInv /\ UNCHANGED vars => LimitInv'
  BY DEF LimitInv, Failed, vars, manager, control, history, series
<1>4. LimitInv => LimitEnforced
  BY DEF LimitInv, LimitEnforced
<1>5. QED
  BY <1>1, <1>2, <1>3, <1>4, TypeCorrect, PTL DEF Spec

------------------------------------------------------------------------------
(* crawl_history.  A visit belongs to one browser (Numbered).  While a       *)
(* thread works on a visit, its records are those of the commands before the *)
(* one at hand (InHand).  When the next visit of the browser begins, every   *)
(* visit that the process has served is clean (Shared): one that is not asks *)
(* for a restart, and the restart leaves no visit in the process.            *)

\* All commands of visit v that have a record succeeded.
AllOk(v) == \A i \in DOMAIN log[v] : log[v][i][2] = "ok"

\* Visit v may share its browser process with a later one.
Clean(v) == ~reset[v] /\ AllOk(v)

\* Visits are numbered as they start, each is given to one browser.
Numbered ==
  /\ \A b \in Browsers : currVisit[b] <= visits /\ used[b] \subseteq 1..currVisit[b]
  /\ \A v \in Visits : v > visits => log[v] = <<>>
  /\ \A b, c \in Browsers : b # c =>
       /\ currVisit[b] \notin used[c]
       /\ currVisit[b] = currVisit[c] => currVisit[b] = 0

\* The records of the visit that browser b's thread works on.
InHand(b) ==
  /\ pc[b] \in {"put", "status"} =>
       Len(log[currVisit[b]]) = cmd[b] - 1 /\ AllOk(currVisit[b])
  /\ pc[b] = "drain" => restartRequired[b] \/ AllOk(currVisit[b])

\* The visits that browser b's process has served.
Shared(b) ==
  /\ \A u \in used[b] : u # currVisit[b] => Clean(u)
  /\ pc[b] = "idle" /\ ~closing /\ ~Failed => \A u \in used[b] : Clean(u)
  /\ pc[b] = "await" => used[b] = {}

HInv ==
  /\ IInv
  /\ Numbered
  /\ HistoryIsPrefix
  /\ \A b \in Browsers : InHand(b) /\ Shared(b)

\* A record is added to the log of the visit at hand, and to no other.
LEMMA RecordAdds ==
  ASSUME TypeOK, NEW b \in Browsers, pc[b] = "status",
         NEW o \in {"ok", "error", "critical"}, Record(b, o)
  PROVE  /\ currVisit[b] \in Visits /\ cmd[b] \in 1..NumCommands
         /\ Len(log'[currVisit[b]]) = Len(log[currVisit[b]]) + 1
         /\ log'[currVisit[b]][Len(log[currVisit[b]]) + 1] = <<cmd[b], o>>
         /\ \A i \in DOMAIN log[currVisit[b]] :
              log'[currVisit[b]][i] = log[currVisit[b]][i]
         /\ \A v \in Visits : v # currVisit[b] => log'[v] = log[v]
<1>1. currVisit[b] \in Visits /\ cmd[b] \in 1..NumCommands
  BY CommandType DEF ThreadPCs
<1>2. log[currVisit[b]] \in Seq((1..NumCommands) \X {"ok", "error", "critical"})
  BY <1>1 DEF TypeOK, HistoryType
<1>3. /\ log'[currVisit[b]] = Append(log[currVisit[b]], <<cmd[b], o>>)
      /\ \A v \in Visits : v # currVisit[b] => log'[v] = log[v]
  BY <1>1 DEF Record, TypeOK, HistoryType
<1>4. QED
  BY <1>1, <1>2, <1>3

\* Visits stay numbered.
LEMMA NumberedStep ==
  ASSUME HInv, Next
  PROVE  Numbered'
<1> USE ActorSet DEF manager, control, history, browser, Goto, Numbered
<1>1. ASSUME NEW b \in Browsers, PutCommand(b) PROVE Numbered'
  <2>1. currVisit[b] \in Visits
    BY <1>1, CommandType DEF PutCommand, ThreadPCs, HInv, IInv
  <2>2. /\ used'[b] = used[b] \cup {currVisit[b]}
        /\ \A c \in Browsers : c # b => used'[c] = used[c]
        /\ UNCHANGED <<visits, currVisit, log>>
    BY <1>1 DEF PutCommand, HInv, IInv, TypeOK, HistoryType
  <2>3. used[b] \cup {currVisit[b]} \subseteq 1..currVisit[b]
    BY <2>1 DEF HInv, Visits
  <2>4. \A c \in Browsers : currVisit'[c] <= visits' /\ used'[c] \subseteq 1..currVisit'[c]
    BY <2>2, <2>3 DEF HInv
  <2>5. \A c, d \in Browsers : c # d => currVisit'[c] \notin used'[d]
    BY <2>1, <2>2 DEF HInv, Visits
  <2>6. QED
    BY <2>2, <2>4, <2>5 DEF HInv
<1>2. ASSUME NEW b \in Browsers, ReceiveOk(b) PROVE Numbered'
  BY <1>2
  DEF ReceiveOk, Receive, Record, LastCommand, HInv, IInv, TypeOK, SequenceType, ManagerType
<1>3. ASSUME NEW b \in Browsers, ReceiveCritical(b) PROVE Numbered'
  BY <1>3 DEF ReceiveCritical, Receive, Record, HInv, IInv, TypeOK, SequenceType, ManagerType
<1>4. ASSUME NEW b \in Browsers, ReceiveFailure(b) PROVE Numbered'
  BY <1>4 DEF ReceiveFailure, Receive, Record, HInv, IInv, TypeOK, SequenceType, ManagerType
<1>5. ASSUME NEW a \in Actors, Spawn(a) PROVE Numbered'
  BY <1>5 DEF Spawn, Target, HInv, IInv, TypeOK, SequenceType, ManagerType
<1>6. ASSUME NEW b \in Browsers, NEW r \in BOOLEAN, NEW k \in BOOLEAN,
             Execute(b, r, k)
      PROVE  Numbered'
  <2>1. /\ visits' = visits + 1 /\ currVisit' = [currVisit EXCEPT ![b] = visits + 1]
        /\ UNCHANGED <<used, log>>
    BY <1>6 DEF Execute
  <2>2. \A c \in Browsers : currVisit[c] \in Nat /\ currVisit[c] <= visits
    BY DEF HInv, IInv, TypeOK, SequenceType
  <2>3. \A c \in Browsers : used[c] \subseteq 1..currVisit[c]
    BY DEF HInv
  <2>4. visits \in Nat /\ \A c \in Browsers : visits + 1 \notin used[c]
    BY <2>2, <2>3 DEF HInv, IInv, TypeOK, ManagerType
  <2>5. \A c \in Browsers : currVisit'[c] <= visits' /\ used'[c] \subseteq 1..currVisit'[c]
    BY <2>1, <2>2, <2>3, <2>4 DEF HInv, IInv, TypeOK, SequenceType
  <2>6. \A v \in Visits : v > visits' => log'[v] = <<>>
    BY <2>1, <2>4, BoundsAssumption DEF HInv, Visits
  <2>7. \A c, d \in Browsers : c # d =>
          /\ currVisit'[c] \notin used'[d]
          /\ currVisit'[c] = currVisit'[d] => currVisit'[c] = 0
    BY <2>1, <2>2, <2>4 DEF HInv, IInv, TypeOK, SequenceType
  <2>8. QED
    BY <2>5, <2>6, <2>7
<1>7. ASSUME UNCHANGED <<visits, currVisit, used, log>> PROVE Numbered'
  BY <1>7 DEF HInv
<1>8. ASSUME MainStep PROVE Numbered'
  BY <1>8, <1>7
  DEF MainStep, MainLaunched, MainSpawnCritical, JoinThread, JoinTimeout, FinishShutdown,
      CloseNeverLaunched, Unblock, FailOnJoin
<1>9. ASSUME NEW b \in Browsers, ThreadStep(b) PROVE Numbered'
  BY <1>9, <1>1, <1>2, <1>3, <1>4, <1>7
  DEF ThreadStep, RecordRaises, Tally, EndVisit, Restart, ThreadRestarted, ThreadSpawnCritical
<1>10. ASSUME NEW a \in Actors, BrowserStep(a) PROVE Numbered'
  BY <1>10, <1>5, <1>7
  DEF BrowserStep, SpawnFails, LaunchFails, SendShutdown, ShutdownAcked, ShutdownRefused,
      ShutdownTimeout, Reap
<1>11. ASSUME UserStep PROVE Numbered'
  BY <1>11, <1>6, <1>7 DEF UserStep, FailOnExecute, Close
<1>12. ASSUME NEW b \in Browsers, ChildStep(b) PROVE Numbered'
  BY <1>12, <1>7 DEF ChildStep, Deploy, Answer, DoCommand
<1>13. ASSUME NEW b \in Browsers, Watchdog(b) PROVE Numbered'
  BY <1>13, <1>7 DEF Watchdog
<1>14. QED
  BY <1>8, <1>9, <1>10, <1>11, <1>12, <1>13, <1>7 DEF Next, vars

\* A record of the command at hand continues the history of its visit.
LEMMA PrefixAdds ==
  ASSUME TypeOK, HistoryIsPrefix, NEW b \in Browsers, pc[b] = "status",
         NEW o \in {"ok", "error", "critical"}, Record(b, o),
         Len(log[currVisit[b]]) = cmd[b] - 1, AllOk(currVisit[b])
  PROVE  HistoryIsPrefix'
<1>1. SUFFICES ASSUME NEW v \in Visits, NEW i \in DOMAIN log'[v]
               PROVE  /\ log'[v][i][1] = i
                      /\ i < Len(log'[v]) => log'[v][i][2] = "ok"
  BY DEF HistoryIsPrefix
<1>2. CASE v = currVisit[b]
  <2>1. log[v] \in Seq((1..NumCommands) \X {"ok", "error", "critical"})
    BY <1>2, RecordAdds DEF TypeOK, HistoryType
  <2>2. log'[v] = Append(log[v], <<cmd[b], o>>)
    BY <1>1, <1>2 DEF Record, TypeOK, HistoryType
  <2>3. cmd[b] \in Nat
    BY BoundsAssumption DEF TypeOK, SequenceType
  <2>4. CASE i \in DOMAIN log[v]
    BY <1>1, <1>2, <2>1, <2>2, <2>4 DEF HistoryIsPrefix, AllOk
  <2>5. CASE i \notin DOMAIN log[v]
    <3>1. i = Len(log[v]) + 1 /\ Len(log'[v]) = Len(log[v]) + 1
      BY <1>1, <2>1, <2>2, <2>5
    <3>2. QED
      BY <1>2, <2>1, <2>2, <2>3, <3>1
  <2>6. QED
    BY <2>4, <2>5
<1>3. CASE v # currVisit[b]
  BY <1>1, <1>3, RecordAdds DEF HistoryIsPrefix
<1>4. QED
  BY <1>2, <1>3

\* crawl_history stays in order.
LEMMA PrefixStep ==
  ASSUME HInv, Next
  PROVE  HistoryIsPrefix'
<1> USE ActorSet DEF manager, control, history, browser
<1>1. ASSUME NEW b \in Browsers, ReceiveOk(b) PROVE HistoryIsPrefix'
  <2>1. pc[b] = "status" /\ Record(b, "ok")
    BY <1>1 DEF ReceiveOk, Receive
  <2>2. Len(log[currVisit[b]]) = cmd[b] - 1 /\ AllOk(currVisit[b])
    BY <2>1 DEF HInv, InHand
  <2>3. QED
    BY <2>1, <2>2, RecordAdds, PrefixAdds DEF HInv, IInv
<1>2. ASSUME NEW b \in Browsers, ReceiveCritical(b) PROVE HistoryIsPrefix'
  <2>1. pc[b] = "status" /\ Record(b, "critical")
    BY <1>2 DEF ReceiveCritical, Receive
  <2>2. Len(log[currVisit[b]]) = cmd[b] - 1 /\ AllOk(currVisit[b])
    BY <2>1 DEF HInv, InHand
  <2>3. QED
    BY <2>1, <2>2, RecordAdds, PrefixAdds DEF HInv, IInv
<1>3. ASSUME NEW b \in Browsers, ReceiveFailure(b) PROVE HistoryIsPrefix'
  <2>1. pc[b] = "status" /\ Record(b, "error")
    BY <1>3 DEF ReceiveFailure, Receive
  <2>2. Len(log[currVisit[b]]) = cmd[b] - 1 /\ AllOk(currVisit[b])
    BY <2>1 DEF HInv, InHand
  <2>3. QED
    BY <2>1, <2>2, RecordAdds, PrefixAdds DEF HInv, IInv
<1>4. ASSUME UNCHANGED log PROVE HistoryIsPrefix'
  BY <1>4 DEF HInv, HistoryIsPrefix
<1>5. ASSUME MainStep PROVE HistoryIsPrefix'
  BY <1>5, <1>4
  DEF MainStep, MainLaunched, MainSpawnCritical, JoinThread, JoinTimeout, FinishShutdown,
      CloseNeverLaunched, Unblock, FailOnJoin
<1>6. ASSUME NEW b \in Browsers, ThreadStep(b) PROVE HistoryIsPrefix'
  BY <1>6, <1>1, <1>2, <1>3, <1>4
  DEF ThreadStep, PutCommand, RecordRaises, Tally, EndVisit, Restart, ThreadRestarted,
      ThreadSpawnCritical
<1>7. ASSUME NEW a \in Actors, BrowserStep(a) PROVE HistoryIsPrefix'
  BY <1>7, <1>4
  DEF BrowserStep, Spawn, SpawnFails, LaunchFails, SendShutdown, ShutdownAcked,
      ShutdownRefused, ShutdownTimeout, Reap
<1>8. ASSUME UserStep PROVE HistoryIsPrefix'
  BY <1>8, <1>4 DEF UserStep, Execute, FailOnExecute, Close
<1>9. ASSUME NEW b \in Browsers, ChildStep(b) PROVE HistoryIsPrefix'
  BY <1>9, <1>4 DEF ChildStep, Deploy, Answer, DoCommand
<1>10. ASSUME NEW b \in Browsers, Watchdog(b) PROVE HistoryIsPrefix'
  BY <1>10, <1>4 DEF Watchdog
<1>11. QED
  BY <1>5, <1>6, <1>7, <1>8, <1>9, <1>10, <1>4 DEF Next, vars

\* What happens in another browser's thread leaves a visit as it is.
LEMMA ElsewhereInHand ==
  ASSUME HInv, NEW x \in Browsers, NEW b \in Browsers, x # b, pc[b] = "status",
         NEW o \in {"ok", "error", "critical"}, Record(b, o),
         UNCHANGED <<pc[x], cmd[x], restartRequired[x], currVisit>>
  PROVE  InHand(x)'
<1>1. pc[x] \in {"put", "status", "drain"} => log'[currVisit[x]] = log[currVisit[x]]
  <2>1. pc[x] \in {"put", "status", "drain"} => currVisit[x] \in Visits
    BY CommandType DEF HInv, IInv, ThreadPCs
  <2>2. currVisit[x] \in Visits => currVisit[x] # currVisit[b]
    BY DEF HInv, Numbered, Visits
  <2>3. QED
    BY <2>1, <2>2, RecordAdds DEF HInv, IInv
<1>2. QED
  BY <1>1 DEF HInv, InHand, AllOk

\* The visit at hand has the records of the commands before the one at hand.
LEMMA InHandStep ==
  ASSUME HInv, NEW x \in Browsers, Next
  PROVE  InHand(x)'
<1> USE ActorSet
  DEF manager, control, history, browser, Goto, ThreadPCs, LaunchPCs, MainPCs, ControlType,
      AllOk, InHand
<1>1. ASSUME MainLaunched PROVE InHand(x)'
  BY <1>1 DEF MainLaunched, Launched, Target, HInv, IInv, TypeOK, SequenceType, BrowserType
<1>2. ASSUME MainSpawnCritical PROVE InHand(x)'
  BY <1>2
  DEF MainSpawnCritical, SpawnCritical, BeginShutdown, Target, HInv, IInv, TypeOK,
      SequenceType, BrowserType
<1>3. ASSUME JoinThread PROVE InHand(x)'
  BY <1>3 DEF JoinThread, HInv, IInv, TypeOK, SequenceType, BrowserType
<1>4. ASSUME JoinTimeout PROVE InHand(x)'
  BY <1>4 DEF JoinTimeout, Kill, CloseReturns, HInv, IInv, TypeOK, SequenceType, BrowserType
<1>5. ASSUME FinishShutdown PROVE InHand(x)'
  BY <1>5 DEF FinishShutdown, HInv, IInv, TypeOK, SequenceType, BrowserType
<1>6. ASSUME CloseNeverLaunched(Main) PROVE InHand(x)'
  BY <1>6 DEF CloseNeverLaunched, HInv, IInv, TypeOK, SequenceType, BrowserType
<1>7. ASSUME Unblock PROVE InHand(x)'
  BY <1>7 DEF Unblock, HInv, IInv, TypeOK, SequenceType, BrowserType
<1>8. ASSUME FailOnJoin PROVE InHand(x)'
  BY <1>8 DEF FailOnJoin, BeginShutdown, HInv, IInv, TypeOK, SequenceType, BrowserType
<1>9. ASSUME NEW b \in Browsers, PutCommand(b) PROVE InHand(x)'
  BY <1>9 DEF PutCommand, HInv, IInv, TypeOK, SequenceType, BrowserType
<1>10. ASSUME NEW b \in Browsers, ReceiveOk(b) PROVE InHand(x)'
  <2>1. pc[b] = "status" /\ Record(b, "ok")
    BY <1>10 DEF ReceiveOk, Receive
  <2>2. /\ pc'[b] \in {"put", "drain"} /\ UNCHANGED <<currVisit, restartRequired>>
        /\ pc'[b] = "put" => cmd'[b] = cmd[b] + 1
        /\ \A c \in Browsers : c # b => UNCHANGED <<pc[c], cmd[c]>>
    BY <1>10 DEF ReceiveOk, HInv, IInv, TypeOK, SequenceType
  <2>3. CASE x # b
    BY <2>1, <2>2, <2>3, ElsewhereInHand
  <2>4. CASE x = b
    <3> DEFINE v == currVisit[b]
    <3>1. v \in Visits /\ cmd[b] \in Nat
      BY <2>1, RecordAdds DEF HInv, IInv
    <3>2. Len(log[v]) = cmd[b] - 1 /\ AllOk(v)
      BY <2>1 DEF HInv
    <3>3. log[v] \in Seq((1..NumCommands) \X {"ok", "error", "critical"})
      BY <3>1 DEF HInv, IInv, TypeOK, HistoryType
    <3>4. log'[v] = Append(log[v], <<cmd[b], "ok">>)
      BY <2>1, <3>1 DEF Record, HInv, IInv, TypeOK, HistoryType
    <3> HIDE DEF v
    <3>5. Len(log'[v]) = cmd[b] /\ \A i \in DOMAIN log'[v] : log'[v][i][2] = "ok"
      BY <3>1, <3>2, <3>3, <3>4
    <3>6. QED
      BY <2>2, <2>4, <3>1, <3>5 DEF v
  <2>5. QED
    BY <2>3, <2>4
<1>11. ASSUME NEW b \in Browsers, ReceiveCritical(b) PROVE InHand(x)'
  <2>1. pc[b] = "status" /\ Record(b, "critical") /\ pc'[b] = "idle"
        /\ \A c \in Browsers : c # b => UNCHANGED <<pc[c], cmd[c], restartRequired[c]>>
        /\ UNCHANGED currVisit
    BY <1>11 DEF ReceiveCritical, Receive, HInv, IInv, TypeOK, BrowserType, SequenceType
  <2>2. CASE x # b
    BY <2>1, <2>2, ElsewhereInHand DEF HInv, IInv
  <2>3. CASE x = b
    BY <2>1, <2>3 DEF InHand
  <2>4. QED
    BY <2>2, <2>3
<1>12. ASSUME NEW b \in Browsers, ReceiveFailure(b) PROVE InHand(x)'
  <2>1. pc[b] = "status" /\ Record(b, "error") /\ pc'[b] = "tally"
        /\ \A c \in Browsers : c # b => UNCHANGED <<pc[c], cmd[c], restartRequired[c]>>
        /\ UNCHANGED currVisit
    BY <1>12 DEF ReceiveFailure, Receive, HInv, IInv, TypeOK, BrowserType, SequenceType
  <2>2. CASE x # b
    BY <2>1, <2>2, ElsewhereInHand DEF HInv, IInv
  <2>3. CASE x = b
    BY <2>1, <2>3 DEF InHand
  <2>4. QED
    BY <2>2, <2>3
<1>13. ASSUME NEW b \in Browsers, RecordRaises(b) PROVE InHand(x)'
  BY <1>13 DEF RecordRaises, HInv, IInv, TypeOK, SequenceType, BrowserType
<1>14. ASSUME NEW b \in Browsers, Tally(b) PROVE InHand(x)'
  BY <1>14 DEF Tally, OverLimit, HInv, IInv, TypeOK, SequenceType, BrowserType
<1>15. ASSUME NEW b \in Browsers, EndVisit(b) PROVE InHand(x)'
  BY <1>15 DEF EndVisit, WantsRestart, HInv, IInv, TypeOK, SequenceType, BrowserType
<1>16. ASSUME NEW b \in Browsers, Restart(b) PROVE InHand(x)'
  BY <1>16 DEF Restart, WantsRestart, HInv, IInv, TypeOK, SequenceType, BrowserType
<1>17. ASSUME NEW b \in Browsers, ThreadRestarted(b) PROVE InHand(x)'
  BY <1>17 DEF ThreadRestarted, Launched, Target, HInv, IInv, TypeOK, SequenceType, BrowserType
<1>18. ASSUME NEW b \in Browsers, ThreadSpawnCritical(b) PROVE InHand(x)'
  BY <1>18
  DEF ThreadSpawnCritical, SpawnCritical, Target, HInv, IInv, TypeOK, SequenceType, BrowserType
<1>19. ASSUME NEW a \in Actors, Spawn(a) PROVE InHand(x)'
  BY <1>19 DEF Spawn, Target, HInv, IInv, TypeOK, SequenceType, BrowserType
<1>20. ASSUME NEW a \in Actors, SpawnFails(a) PROVE InHand(x)'
  BY <1>20 DEF SpawnFails, Target, HInv, IInv, TypeOK, SequenceType, BrowserType
<1>21. ASSUME NEW a \in Actors, LaunchFails(a) PROVE InHand(x)'
  BY <1>21 DEF LaunchFails, BeginShutdown, Target, HInv, IInv, TypeOK, SequenceType, BrowserType
<1>22. ASSUME NEW a \in Actors, SendShutdown(a) PROVE InHand(x)'
  BY <1>22 DEF SendShutdown, Target, HInv, IInv, TypeOK, SequenceType, BrowserType
<1>23. ASSUME NEW a \in Actors, ShutdownAcked(a) PROVE InHand(x)'
  BY <1>23 DEF ShutdownAcked, Target, HInv, IInv, TypeOK, SequenceType, BrowserType
<1>24. ASSUME NEW a \in Actors, ShutdownRefused(a) PROVE InHand(x)'
  BY <1>24
  DEF ShutdownRefused, Kill, CloseReturns, Target, HInv, IInv, TypeOK, SequenceType, BrowserType
<1>25. ASSUME NEW a \in Actors, ShutdownTimeout(a) PROVE InHand(x)'
  BY <1>25
  DEF ShutdownTimeout, Kill, CloseReturns, Target, HInv, IInv, TypeOK, SequenceType, BrowserType
<1>26. ASSUME NEW a \in Actors, Reap(a) PROVE InHand(x)'
  BY <1>26 DEF Reap, Kill, CloseReturns, Target, HInv, IInv, TypeOK, SequenceType, BrowserType
<1>27. ASSUME NEW b \in Browsers, NEW r \in BOOLEAN, NEW k \in BOOLEAN,
             Execute(b, r, k)
      PROVE  InHand(x)'
  <2>1. CASE x # b
    BY <1>27, <2>1 DEF Execute, NoLongerFresh, HInv, IInv, TypeOK, SequenceType
  <2>2. CASE x = b
    <3>1. /\ pc'[b] = "put" /\ cmd'[b] = 1 /\ currVisit'[b] = visits + 1 /\ UNCHANGED log
      BY <1>27 DEF Execute, HInv, IInv, TypeOK, SequenceType
    <3>2. log[visits + 1] = <<>>
      BY <1>27, BoundsAssumption DEF Execute, HInv, IInv, TypeOK, ManagerType, Numbered, Visits
    <3>3. QED
      BY <2>2, <3>1, <3>2
  <2>3. QED
    BY <2>1, <2>2
<1>28. ASSUME FailOnExecute PROVE InHand(x)'
  BY <1>28 DEF FailOnExecute, BeginShutdown, HInv, IInv, TypeOK, SequenceType, BrowserType
<1>29. ASSUME Close PROVE InHand(x)'
  BY <1>29 DEF Close, BeginShutdown, HInv, IInv, TypeOK, SequenceType, BrowserType
<1>30. ASSUME NEW b \in Browsers, Watchdog(b) PROVE InHand(x)'
  BY <1>30 DEF Watchdog, HInv, IInv, TypeOK, SequenceType, BrowserType
<1>31. ASSUME UNCHANGED <<pc, cmd, currVisit, restartRequired, log>> PROVE InHand(x)'
  BY <1>31 DEF HInv
<1>32. ASSUME MainStep PROVE InHand(x)'
  BY <1>32, <1>1, <1>2, <1>3, <1>4, <1>5, <1>6, <1>7, <1>8 DEF MainStep
<1>33. ASSUME NEW b \in Browsers, ThreadStep(b) PROVE InHand(x)'
  BY <1>33, <1>9, <1>10, <1>11, <1>12, <1>13, <1>14, <1>15, <1>16, <1>17, <1>18 DEF ThreadStep
<1>34. ASSUME NEW a \in Actors, BrowserStep(a) PROVE InHand(x)'
  BY <1>34, <1>19, <1>20, <1>21, <1>22, <1>23, <1>24, <1>25, <1>26 DEF BrowserStep
<1>35. ASSUME UserStep PROVE InHand(x)'
  BY <1>35, <1>27, <1>28, <1>29 DEF UserStep
<1>36. ASSUME NEW b \in Browsers, ChildStep(b) PROVE InHand(x)'
  BY <1>36, <1>31 DEF ChildStep, Deploy, Answer, DoCommand
<1>37. QED
  BY <1>32, <1>33, <1>34, <1>35, <1>36, <1>30, <1>31 DEF Next, vars

\* A step that does not concern the visits that browser x's process has served.
LEMMA Untouched ==
  ASSUME NEW x \in Browsers, Shared(x),
         pc'[x] = pc[x] \/ pc'[x] \notin {"idle", "await"} \/ (pc'[x] = "idle" /\ (closing' \/ Failed')),
         closing => closing', Failed => Failed',
         UNCHANGED <<currVisit[x], reset, log, used[x]>>
  PROVE  Shared(x)'
BY DEF Shared, Clean, AllOk

\* A record changes the log of the visit at hand, which is in no other process.
LEMMA RecordShared ==
  ASSUME HInv, NEW x \in Browsers, NEW b \in Browsers, pc[b] = "status",
         NEW o \in {"ok", "error", "critical"}, Record(b, o),
         pc'[x] = "await" => pc[x] = "await",
         pc'[x] = "idle" => pc[x] = "idle" \/ Failed',
         Failed => Failed',
         UNCHANGED <<closing, currVisit, reset, used>>
  PROVE  Shared(x)'
<1>1. Shared(x)
  BY DEF HInv
<1>2. \A u \in used[x] : u \in Visits /\ (u # currVisit[x] => u # currVisit[b])
  BY DEF HInv, Numbered, IInv, TypeOK, HistoryType
<1>3. ASSUME NEW u \in used[x], u # currVisit[b], Clean(u)
      PROVE  Clean(u)'
  BY <1>2, <1>3, RecordAdds DEF HInv, IInv, Clean, AllOk
<1>4. CASE x # b
  BY <1>1, <1>2, <1>3, <1>4 DEF Shared, HInv, Numbered
<1>5. CASE x = b
  BY <1>1, <1>2, <1>3, <1>5 DEF Shared
<1>6. QED
  BY <1>4, <1>5

\* A process that is to serve a later visit has served only clean ones.
LEMMA SharedStep ==
  ASSUME HInv, NEW x \in Browsers, Next
  PROVE  Shared(x)'
<1> USE ActorSet
  DEF manager, control, history, browser, Goto, ThreadPCs, LaunchPCs, MainPCs, ControlType,
      Phases, Failed, Clean, AllOk, Shared
<1>0. Shared(x)
  BY DEF HInv
<1>1. ASSUME MainLaunched PROVE Shared(x)'
  BY <1>1, <1>0, Untouched DEF MainLaunched, Launched, Target, HInv, IInv, TypeOK
<1>2. ASSUME MainSpawnCritical PROVE Shared(x)'
  BY <1>2, <1>0, Untouched
  DEF MainSpawnCritical, SpawnCritical, BeginShutdown, Target, HInv, IInv, TypeOK
<1>3. ASSUME JoinThread PROVE Shared(x)'
  BY <1>3, <1>0, Untouched DEF JoinThread, HInv, IInv, TypeOK
<1>4. ASSUME JoinTimeout PROVE Shared(x)'
  BY <1>4, <1>0, Untouched DEF JoinTimeout, Kill, CloseReturns, HInv, IInv, TypeOK
<1>5. ASSUME FinishShutdown PROVE Shared(x)'
  BY <1>5, <1>0, Untouched DEF FinishShutdown, HInv, IInv, TypeOK
<1>6. ASSUME CloseNeverLaunched(Main) PROVE Shared(x)'
  BY <1>6, <1>0, Untouched DEF CloseNeverLaunched, HInv, IInv, TypeOK
<1>7. ASSUME Unblock PROVE Shared(x)'
  BY <1>7, <1>0, Untouched DEF Unblock, HInv, IInv, TypeOK
<1>8. ASSUME FailOnJoin PROVE Shared(x)'
  BY <1>8, <1>0, Untouched DEF FailOnJoin, BeginShutdown, HInv, IInv, TypeOK
<1>9. ASSUME NEW b \in Browsers, PutCommand(b) PROVE Shared(x)'
  <2>1. /\ pc'[b] = "status" /\ \A c \in Browsers : c # b => pc'[c] = pc[c]
        /\ used'[b] = used[b] \cup {currVisit[b]}
        /\ \A c \in Browsers : c # b => used'[c] = used[c]
        /\ UNCHANGED <<closing, failureStatus, currVisit, reset, log>>
    BY <1>9 DEF PutCommand, HInv, IInv, TypeOK, HistoryType
  <2>2. CASE x # b
    BY <1>0, <2>1, <2>2, Untouched DEF Failed
  <2>3. CASE x = b
    BY <1>0, <2>1, <2>3 DEF Shared, Clean, AllOk
  <2>4. QED
    BY <2>2, <2>3
<1>10. ASSUME NEW b \in Browsers, ReceiveOk(b) PROVE Shared(x)'
  <2>1. pc[b] = "status" /\ Record(b, "ok")
    BY <1>10 DEF ReceiveOk, Receive
  <2>2. /\ \A c \in Browsers : c # b => pc'[c] = pc[c]
        /\ pc'[b] \in {"put", "drain"}
        /\ UNCHANGED <<closing, currVisit, reset, used>>
    BY <1>10 DEF ReceiveOk, Receive, Record, HInv, IInv, TypeOK
  <2>3. Failed => Failed'
    BY <1>10 DEF ReceiveOk
  <2>4. pc'[x] = "await" => pc[x] = "await"
    BY <2>2
  <2>5. pc'[x] = "idle" => pc[x] = "idle"
    BY <2>2
  <2>6. QED
    BY <2>1, <2>2, <2>3, <2>4, <2>5, RecordShared
<1>11. ASSUME NEW b \in Browsers, ReceiveCritical(b) PROVE Shared(x)'
  <2>1. pc[b] = "status" /\ Record(b, "critical")
    BY <1>11 DEF ReceiveCritical, Receive
  <2>2. /\ \A c \in Browsers : c # b => pc'[c] = pc[c]
        /\ pc'[b] = "idle"
        /\ UNCHANGED <<closing, currVisit, reset, used>>
    BY <1>11 DEF ReceiveCritical, Receive, Record, HInv, IInv, TypeOK
  <2>3. Failed => Failed'
    BY <1>11 DEF ReceiveCritical
  <2>4. pc'[x] = "await" => pc[x] = "await"
    BY <2>2
  <2>5. Failed'
    BY <1>11 DEF ReceiveCritical
  <2>6. QED
    BY <2>1, <2>2, <2>3, <2>4, <2>5, RecordShared
<1>12. ASSUME NEW b \in Browsers, ReceiveFailure(b) PROVE Shared(x)'
  <2>1. pc[b] = "status" /\ Record(b, "error")
    BY <1>12 DEF ReceiveFailure, Receive
  <2>2. /\ \A c \in Browsers : c # b => pc'[c] = pc[c]
        /\ pc'[b] = "tally"
        /\ UNCHANGED <<closing, currVisit, reset, used>>
    BY <1>12 DEF ReceiveFailure, Receive, Record, HInv, IInv, TypeOK
  <2>3. Failed => Failed'
    BY <1>12 DEF ReceiveFailure
  <2>4. pc'[x] = "await" => pc[x] = "await"
    BY <2>2
  <2>5. pc'[x] = "idle" => pc[x] = "idle"
    BY <2>2
  <2>6. QED
    BY <2>1, <2>2, <2>3, <2>4, <2>5, RecordShared
<1>13. ASSUME NEW b \in Browsers, RecordRaises(b) PROVE Shared(x)'
  <2>1. /\ \A c \in Browsers : c # b => pc'[c] = pc[c]
        /\ pc'[b] = "idle" /\ closing
        /\ UNCHANGED <<closing, currVisit, reset, log, used>>
    BY <1>13 DEF RecordRaises, HInv, IInv, TypeOK
  <2>2. QED
    BY <1>0, <1>13, <2>1, Untouched DEF RecordRaises, Failed
<1>14. ASSUME NEW b \in Browsers, Tally(b) PROVE Shared(x)'
  <2>1. /\ \A c \in Browsers : c # b => pc'[c] = pc[c]
        /\ UNCHANGED <<closing, currVisit, reset, log, used>>
    BY <1>14 DEF Tally, HInv, IInv, TypeOK
  <2>2. /\ pc'[b] \in {"drain", "idle"}
        /\ pc'[b] = "drain" \/ failureStatus' # "none"
        /\ Failed => Failed'
    BY <1>14 DEF Tally, OverLimit, HInv, IInv, TypeOK
  <2>3. QED
    BY <1>0, <2>1, <2>2, Untouched
<1>15. ASSUME NEW b \in Browsers, EndVisit(b) PROVE Shared(x)'
  <2>1. /\ \A c \in Browsers : c # b => pc'[c] = pc[c]
        /\ UNCHANGED <<closing, failureStatus, currVisit, reset, log, used>>
    BY <1>15 DEF EndVisit, HInv, IInv, TypeOK
  <2>2. CASE x # b
    BY <1>0, <2>1, <2>2, Untouched DEF Failed
  <2>3. CASE x = b
    <3>1. closing \/ Clean(currVisit[b])
      BY <1>15 DEF EndVisit, WantsRestart, HInv, InHand, Clean
    <3>2. pc'[b] = "idle"
      BY <1>15 DEF EndVisit, HInv, IInv, TypeOK
    <3>3. QED
      BY <1>0, <2>1, <2>3, <3>1, <3>2 DEF Shared, Clean, AllOk
  <2>4. QED
    BY <2>2, <2>3
<1>16. ASSUME NEW b \in Browsers, Restart(b) PROVE Shared(x)'
  <2>1. /\ \A c \in Browsers : c # b => pc'[c] = pc[c]
        /\ pc'[b] = "shutdown"
        /\ UNCHANGED <<closing, failureStatus, currVisit, reset, log, used>>
    BY <1>16 DEF Restart, HInv, IInv, TypeOK, Queues
  <2>2. QED
    BY <1>0, <1>0, <2>1, Untouched DEF Failed
<1>17. ASSUME NEW b \in Browsers, ThreadRestarted(b) PROVE Shared(x)'
  <2>1. /\ \A c \in Browsers : c # b => pc'[c] = pc[c]
        /\ pc[b] = "await" /\ pc'[b] = "idle"
        /\ UNCHANGED <<closing, failureStatus, currVisit, reset, log, used>>
    BY <1>17 DEF ThreadRestarted, Launched, HInv, IInv, TypeOK
  <2>2. CASE x # b
    BY <1>0, <2>1, <2>2, Untouched DEF Failed
  <2>3. CASE x = b
    BY <1>0, <2>1, <2>3 DEF Shared
  <2>4. QED
    BY <2>2, <2>3
<1>18. ASSUME NEW b \in Browsers, ThreadSpawnCritical(b) PROVE Shared(x)'
  <2>1. /\ \A c \in Browsers : c # b => pc'[c] = pc[c]
        /\ pc[b] = "await" /\ pc'[b] = "idle"
        /\ UNCHANGED <<closing, failureStatus, currVisit, reset, log, used>>
    BY <1>18 DEF ThreadSpawnCritical, SpawnCritical, HInv, IInv, TypeOK
  <2>2. CASE x # b
    BY <1>0, <2>1, <2>2, Untouched DEF Failed
  <2>3. CASE x = b
    BY <1>0, <2>1, <2>3 DEF Shared
  <2>4. QED
    BY <2>2, <2>3
<1>19. ASSUME NEW a \in Actors, Spawn(a) PROVE Shared(x)'
  <2>1. /\ pc'[a] = "await" /\ \A c \in Actors : c # a => pc'[c] = pc[c]
        /\ used'[Target(a)] = {}
        /\ \A c \in Browsers : c # Target(a) => used'[c] = used[c]
        /\ UNCHANGED <<closing, failureStatus, currVisit, reset, log>>
    BY <1>19, TargetType DEF Spawn, HInv, IInv, TypeOK, HistoryType
  <2>2. CASE x # Target(a)
    BY <1>0, <2>1, <2>2, Untouched DEF Failed, Target
  <2>3. CASE x = Target(a)
    BY <1>0, <2>1, <2>3 DEF Shared
  <2>4. QED
    BY <2>2, <2>3
<1>20. ASSUME NEW a \in Actors, SpawnFails(a) PROVE Shared(x)'
  BY <1>20, <1>0, Untouched DEF SpawnFails, Target, HInv, IInv, TypeOK
<1>21. ASSUME NEW a \in Actors, LaunchFails(a) PROVE Shared(x)'
  <2>1. CASE a = Main
    BY <1>0, <1>21, <2>1, Untouched DEF LaunchFails, BeginShutdown, HInv, IInv, TypeOK, Failed
  <2>2. CASE a # Main
    <3>1. /\ \A c \in Browsers : c # a => pc'[c] = pc[c]
          /\ pc'[a] = "idle" /\ Failed'
          /\ UNCHANGED <<closing, currVisit, reset, log, used>>
      BY <1>21, <2>2 DEF LaunchFails, Failed, HInv, IInv, TypeOK
    <3>2. QED
      BY <1>0, <2>2, <3>1, Untouched
  <2>3. QED
    BY <2>1, <2>2
<1>22. ASSUME NEW a \in Actors, SendShutdown(a) PROVE Shared(x)'
  BY <1>22, <1>0, Untouched DEF SendShutdown, Target, HInv, IInv, TypeOK
<1>23. ASSUME NEW a \in Actors, ShutdownAcked(a) PROVE Shared(x)'
  BY <1>23, <1>0, Untouched DEF ShutdownAcked, Target, HInv, IInv, TypeOK
<1>24. ASSUME NEW a \in Actors, ShutdownRefused(a) PROVE Shared(x)'
  BY <1>24, <1>0, Untouched DEF ShutdownRefused, Kill, CloseReturns, Target, HInv, IInv, TypeOK
<1>25. ASSUME NEW a \in Actors, ShutdownTimeout(a) PROVE Shared(x)'
  BY <1>25, <1>0, Untouched DEF ShutdownTimeout, Kill, CloseReturns, Target, HInv, IInv, TypeOK
<1>26. ASSUME NEW a \in Actors, Reap(a) PROVE Shared(x)'
  BY <1>26, <1>0, Untouched DEF Reap, Kill, CloseReturns, Target, HInv, IInv, TypeOK
<1>27. ASSUME NEW b \in Browsers, NEW r \in BOOLEAN, NEW k \in BOOLEAN,
             Execute(b, r, k)
      PROVE  Shared(x)'
  <2>1. /\ pc[Main] = "ready" /\ pc[b] = "idle" /\ pc'[b] = "put" /\ ~Failed
        /\ \A c \in Browsers : c # b => pc'[c] = pc[c] /\ currVisit'[c] = currVisit[c]
        /\ \A u \in Visits : u # visits + 1 => reset'[u] = reset[u]
        /\ UNCHANGED <<closing, failureStatus, log, used>>
    BY <1>27 DEF Execute, HInv, IInv, TypeOK, SequenceType, BrowserType
  <2>2. \A u \in used[x] : u \in Visits /\ u # visits + 1
    BY DEF HInv, Numbered, IInv, TypeOK, HistoryType, SequenceType, ManagerType
  <2>3. \A u \in used[x] : Clean(u) => Clean(u)'
    BY <2>1, <2>2 DEF Clean, AllOk
  <2>4. CASE x # b
    BY <1>0, <2>1, <2>3, <2>4 DEF Shared, Failed
  <2>5. CASE x = b
    BY <1>0, <2>1, <2>3, <2>5 DEF Shared, HInv, IInv
  <2>6. QED
    BY <2>4, <2>5
<1>28. ASSUME FailOnExecute PROVE Shared(x)'
  BY <1>28, <1>0, Untouched DEF FailOnExecute, BeginShutdown, HInv, IInv, TypeOK
<1>29. ASSUME Close PROVE Shared(x)'
  BY <1>29, <1>0, Untouched DEF Close, BeginShutdown, HInv, IInv, TypeOK
<1>30. ASSUME UNCHANGED <<closing, failureStatus, pc, currVisit, reset, log,
  used>> PROVE Shared(x)'
  BY <1>0, Untouched, <1>30 DEF HInv
<1>31. ASSUME MainStep PROVE Shared(x)'
  BY <1>31, <1>1, <1>2, <1>3, <1>4, <1>5, <1>6, <1>7, <1>8 DEF MainStep
<1>32. ASSUME NEW b \in Browsers, ThreadStep(b) PROVE Shared(x)'
  BY <1>32, <1>9, <1>10, <1>11, <1>12, <1>13, <1>14, <1>15, <1>16, <1>17, <1>18 DEF ThreadStep
<1>33. ASSUME NEW a \in Actors, BrowserStep(a) PROVE Shared(x)'
  BY <1>33, <1>19, <1>20, <1>21, <1>22, <1>23, <1>24, <1>25, <1>26 DEF BrowserStep
<1>34. ASSUME UserStep PROVE Shared(x)'
  BY <1>34, <1>27, <1>28, <1>29 DEF UserStep
<1>35. ASSUME NEW b \in Browsers, ChildStep(b) PROVE Shared(x)'
  BY <1>35, <1>30 DEF ChildStep, Deploy, Answer, DoCommand
<1>36. ASSUME NEW b \in Browsers, Watchdog(b) PROVE Shared(x)'
  BY <1>36, <1>30 DEF Watchdog
<1>37. QED
  BY <1>31, <1>32, <1>33, <1>34, <1>35, <1>36, <1>30 DEF Next, vars

\* The history keeps its invariant.
LEMMA HistoryStep ==
  ASSUME HInv, IInv', Next
  PROVE  HInv'
<1>1. Numbered'
  BY NumberedStep
<1>2. HistoryIsPrefix'
  BY PrefixStep
<1>3. ASSUME NEW x \in Browsers
      PROVE  InHand(x)' /\ Shared(x)'
  BY InHandStep, SharedStep
<1>4. QED
  BY <1>1, <1>2, <1>3 DEF HInv

\* crawl_history tells what happened to a visit, and a visit that shares its
\* browser process with a later one left it clean, whatever the timing of the
\* answers, the watchdog and the shutdown.
THEOREM VisitsClean == Spec => []CleanVisits
<1>1. Init /\ IInv => HInv
  <2>1. Init => Numbered /\ HistoryIsPrefix
    BY DEF Init, Numbered, HistoryIsPrefix, Browsers, Visits
  <2>2. ASSUME Init, NEW b \in Browsers
        PROVE  InHand(b) /\ Shared(b)
    BY <2>2, ActorSet DEF Init, InHand, Shared
  <2>3. QED
    BY <2>1, <2>2 DEF HInv
<1>2. HInv /\ IInv' /\ Next => HInv'
  BY HistoryStep
<1>3. HInv /\ IInv' /\ UNCHANGED vars => HInv'
  <2>1. ASSUME HInv, UNCHANGED vars
        PROVE  Numbered' /\ HistoryIsPrefix'
    BY <2>1 DEF HInv, Numbered, HistoryIsPrefix, vars, manager, browser, history
  <2>2. ASSUME HInv, UNCHANGED vars, NEW b \in Browsers
        PROVE  InHand(b)' /\ Shared(b)'
    BY <2>2
    DEF HInv, InHand, Shared, Clean, AllOk, Failed, vars, manager, control, browser, history
  <2>3. QED
    BY <2>1, <2>2 DEF HInv
<1>4. HInv => CleanVisits
  <2>1. ASSUME HInv, NEW b \in Browsers, NEW u \in used[b], NEW v \in used[b], u < v
        PROVE  Clean(u)
    <3>1. u \in Nat /\ v \in Nat /\ currVisit[b] \in Nat /\ v <= currVisit[b]
      BY <2>1 DEF HInv, IInv, TypeOK, SequenceType, Numbered
    <3>2. QED
      BY <2>1, <3>1 DEF HInv, Shared
  <2>2. QED
    BY <2>1 DEF HInv, CleanVisits, CleanBrowser, Clean, AllOk
<1>5. QED
  BY <1>1, <1>2, <1>3, <1>4, Safety, PTL DEF Spec

------------------------------------------------------------------------------
(* The shutdown.  The main thread goes through the browsers in order; those  *)
(* it has dealt with, but for those whose thread outlasted the join, stay    *)
(* gone although other command threads still run.                            *)

\* Browser b has neither a thread nor a process.
Gone(b) == pc[b] = "idle" /\ child[b] \notin Alive

\* The shutdown has dealt with browser b.
Passed(b) ==
  /\ closing
  /\ \/ pc[Main] \in {"finish", "closed", "raised"}
     \/ pc[Main] \in {"join", "shutdown", "ack", "reap"} /\ b < mainBrowser

PassedAreGone == \A b \in Browsers \ expired : Passed(b) => Gone(b)

\* When close_browser_manager returns, the main thread has dealt with a browser
\* that is gone, or that outlasted the join.
LEMMA CloseReturnsStep ==
  ASSUME IInv, PassedAreGone, NEW a \in Actors,
         pc[a] \in {"join", "ack", "reap"}, CloseReturns(a), UNCHANGED closing,
         \A b \in Browsers : child'[b] = child[b] \/ child'[b] = "exited",
         child'[Target(a)] = "exited",
         expired \subseteq expired',
         a = Main /\ closing => pc[mainBrowser] = "idle" \/ mainBrowser \in expired'
  PROVE  PassedAreGone'
<1> USE ActorSet, BrowserOrder DEF IInv, TypeOK, ControlType, CloseReturns, Goto
<1>1. SUFFICES ASSUME NEW b \in Browsers \ expired', Passed(b)'
               PROVE  Gone(b)'
  BY DEF PassedAreGone
<1>2. CASE a = Main
  <2>1. closing /\ pc'[b] = pc[b]
    BY <1>1, <1>2 DEF Passed
  <2>2. CASE b = mainBrowser
    BY <1>2, <2>1, <2>2 DEF Gone, Alive, Target
  <2>3. CASE b # mainBrowser
    <3>1. Passed(b)
      BY <1>1, <1>2, <2>1, <2>3, BrowsersAssumption DEF Passed, Browsers
    <3>2. QED
      BY <2>1, <3>1 DEF PassedAreGone, Gone, Alive
  <2>4. QED
    BY <2>2, <2>3
<1>3. CASE a # Main
  <2>1. pc'[Main] = pc[Main] /\ UNCHANGED mainBrowser
    BY <1>3
  <2>2. Passed(b)
    BY <1>1, <2>1 DEF Passed
  <2>3. Gone(b)
    BY <1>1, <2>2 DEF PassedAreGone
  <2>4. a # b
    BY <2>3 DEF Gone
  <2>5. QED
    BY <1>3, <2>3, <2>4 DEF Gone, Alive
<1>4. QED
  BY <1>2, <1>3

\* What the shutdown has dealt with stays gone.
LEMMA PassedAreGoneStep ==
  ASSUME IInv, PassedAreGone, Next
  PROVE  PassedAreGone'
<1> USE ActorSet, BrowserOrder
  DEF manager, control, history, Goto, Failed, ThreadPCs, LaunchPCs, MainPCs, ControlType,
      Phases, Alive,
           Gone, Passed, PassedAreGone
<1>1. ASSUME MainLaunched PROVE PassedAreGone'
  BY <1>1 DEF MainLaunched, Launched, Target, IInv, TypeOK, BrowserType, Browsers
<1>2. ASSUME MainSpawnCritical PROVE PassedAreGone'
  BY <1>2
  DEF MainSpawnCritical, SpawnCritical, BeginShutdown, Target, IInv, TypeOK, BrowserType,
      Browsers
<1>3. ASSUME JoinThread PROVE PassedAreGone'
  BY <1>3 DEF JoinThread, IInv, TypeOK, BrowserType, Browsers
<1>4. ASSUME JoinTimeout PROVE PassedAreGone'
  <2>1. /\ CloseReturns(Main) /\ pc[Main] = "join" /\ UNCHANGED closing
        /\ \A b \in Browsers : child'[b] = child[b] \/ child'[b] = "exited"
        /\ child'[Target(Main)] = "exited"
        /\ expired \subseteq expired' /\ mainBrowser \in expired'
    BY <1>4 DEF JoinTimeout, Kill, Target, IInv, TypeOK, BrowserType
  <2>2. QED
    BY <2>1, CloseReturnsStep
<1>5. ASSUME FinishShutdown PROVE PassedAreGone'
  BY <1>5 DEF FinishShutdown, IInv, TypeOK, BrowserType, Browsers
<1>6. ASSUME CloseNeverLaunched(Main) PROVE PassedAreGone'
  BY <1>6 DEF CloseNeverLaunched, IInv, TypeOK, BrowserType, Browsers
<1>7. ASSUME Unblock PROVE PassedAreGone'
  BY <1>7 DEF Unblock, IInv, TypeOK, BrowserType, Browsers
<1>8. ASSUME FailOnJoin PROVE PassedAreGone'
  BY <1>8 DEF FailOnJoin, BeginShutdown, IInv, TypeOK, BrowserType, Browsers
<1>9. ASSUME NEW b \in Browsers, PutCommand(b) PROVE PassedAreGone'
  BY <1>9 DEF PutCommand, IInv, TypeOK, BrowserType, Browsers
<1>10. ASSUME NEW b \in Browsers, ReceiveOk(b) PROVE PassedAreGone'
  BY <1>10 DEF ReceiveOk, Receive, Record, LastCommand, IInv, TypeOK, BrowserType, Browsers
<1>11. ASSUME NEW b \in Browsers, ReceiveCritical(b) PROVE PassedAreGone'
  BY <1>11 DEF ReceiveCritical, Receive, Record, IInv, TypeOK, BrowserType, Browsers
<1>12. ASSUME NEW b \in Browsers, ReceiveFailure(b) PROVE PassedAreGone'
  BY <1>12 DEF ReceiveFailure, Receive, Record, IInv, TypeOK, BrowserType, Browsers
<1>13. ASSUME NEW b \in Browsers, RecordRaises(b) PROVE PassedAreGone'
  BY <1>13 DEF RecordRaises, IInv, TypeOK, BrowserType, Browsers
<1>14. ASSUME NEW b \in Browsers, Tally(b) PROVE PassedAreGone'
  BY <1>14 DEF Tally, OverLimit, IInv, TypeOK, BrowserType, Browsers
<1>15. ASSUME NEW b \in Browsers, EndVisit(b) PROVE PassedAreGone'
  BY <1>15 DEF EndVisit, WantsRestart, IInv, TypeOK, BrowserType, Browsers
<1>16. ASSUME NEW b \in Browsers, Restart(b) PROVE PassedAreGone'
  BY <1>16 DEF Restart, WantsRestart, IInv, TypeOK, BrowserType, Browsers
<1>17. ASSUME NEW b \in Browsers, ThreadRestarted(b) PROVE PassedAreGone'
  BY <1>17 DEF ThreadRestarted, Launched, Target, IInv, TypeOK, BrowserType, Browsers
<1>18. ASSUME NEW b \in Browsers, ThreadSpawnCritical(b) PROVE PassedAreGone'
  BY <1>18 DEF ThreadSpawnCritical, SpawnCritical, Target, IInv, TypeOK, BrowserType, Browsers
<1>19. ASSUME NEW a \in Actors, Spawn(a) PROVE PassedAreGone'
  BY <1>19 DEF Spawn, Target, IInv, TypeOK, BrowserType, Browsers
<1>20. ASSUME NEW a \in Actors, SpawnFails(a) PROVE PassedAreGone'
  BY <1>20 DEF SpawnFails, Target, IInv, TypeOK, BrowserType, Browsers
<1>21. ASSUME NEW a \in Actors, LaunchFails(a) PROVE PassedAreGone'
  <2>1. CASE a = Main
    BY <1>21, <2>1 DEF LaunchFails, BeginShutdown, IInv, TypeOK, Browsers
  <2>2. CASE a # Main
    <3>1. /\ pc[a] = "spawn" /\ pc' = [pc EXCEPT ![a] = "idle"]
          /\ UNCHANGED <<closing, mainBrowser, child, expired>>
      BY <1>21, <2>2 DEF LaunchFails
    <3>2. QED
      BY <2>2, <3>1 DEF IInv, TypeOK
  <2>3. QED
    BY <2>1, <2>2
<1>22. ASSUME NEW a \in Actors, SendShutdown(a) PROVE PassedAreGone'
  BY <1>22 DEF SendShutdown, Target, IInv, TypeOK, BrowserType, Browsers
<1>23. ASSUME NEW a \in Actors, ShutdownAcked(a) PROVE PassedAreGone'
  BY <1>23 DEF ShutdownAcked, Target, IInv, TypeOK, BrowserType, Browsers
<1>24. ASSUME NEW a \in Actors, ShutdownRefused(a) PROVE PassedAreGone'
  <2>1. /\ CloseReturns(a) /\ pc[a] = "ack" /\ UNCHANGED <<closing, expired>>
        /\ \A b \in Browsers : child'[b] = child[b] \/ child'[b] = "exited"
        /\ child'[Target(a)] = "exited"
    BY <1>24, TargetType DEF ShutdownRefused, Kill, IInv, TypeOK, BrowserType
  <2>2. QED
    BY <2>1, CloseReturnsStep DEF IInv
<1>25. ASSUME NEW a \in Actors, ShutdownTimeout(a) PROVE PassedAreGone'
  <2>1. /\ CloseReturns(a) /\ pc[a] = "ack" /\ UNCHANGED <<closing, expired>>
        /\ \A b \in Browsers : child'[b] = child[b] \/ child'[b] = "exited"
        /\ child'[Target(a)] = "exited"
    BY <1>25, TargetType DEF ShutdownTimeout, Kill, IInv, TypeOK, BrowserType
  <2>2. QED
    BY <2>1, CloseReturnsStep DEF IInv
<1>26. ASSUME NEW a \in Actors, Reap(a) PROVE PassedAreGone'
  <2>1. /\ CloseReturns(a) /\ pc[a] = "reap" /\ UNCHANGED <<closing, expired>>
        /\ \A b \in Browsers : child'[b] = child[b] \/ child'[b] = "exited"
        /\ child'[Target(a)] = "exited"
    BY <1>26, TargetType DEF Reap, Kill, IInv, TypeOK, BrowserType
  <2>2. QED
    BY <2>1, CloseReturnsStep DEF IInv
<1>27. ASSUME NEW b \in Browsers, NEW r \in BOOLEAN, NEW k \in BOOLEAN,
             Execute(b, r, k)
      PROVE  PassedAreGone'
  BY <1>27 DEF Execute, NoLongerFresh, IInv, TypeOK, BrowserType, Browsers
<1>28. ASSUME FailOnExecute PROVE PassedAreGone'
  BY <1>28 DEF FailOnExecute, BeginShutdown, IInv, TypeOK, BrowserType, Browsers
<1>29. ASSUME Close PROVE PassedAreGone'
  BY <1>29 DEF Close, BeginShutdown, IInv, TypeOK, BrowserType, Browsers
<1>30. ASSUME NEW b \in Browsers, Deploy(b) PROVE PassedAreGone'
  BY <1>30 DEF Deploy, Answer, IInv, TypeOK, BrowserType, Browsers
<1>31. ASSUME NEW b \in Browsers, DoCommand(b) PROVE PassedAreGone'
  BY <1>31 DEF DoCommand, Answer, IInv, TypeOK, BrowserType, Browsers
<1>32. ASSUME NEW b \in Browsers, Watchdog(b) PROVE PassedAreGone'
  BY <1>32 DEF Watchdog, IInv, TypeOK, BrowserType, Browsers
<1>33. ASSUME UNCHANGED <<closing, pc, mainBrowser, child, expired>> PROVE PassedAreGone'
  BY <1>33 DEF IInv, TypeOK, BrowserType, Browsers
<1>34. ASSUME MainStep PROVE PassedAreGone'
  BY <1>34, <1>1, <1>2, <1>3, <1>4, <1>5, <1>6, <1>7, <1>8 DEF MainStep
<1>35. ASSUME NEW b \in Browsers, ThreadStep(b) PROVE PassedAreGone'
  BY <1>35, <1>9, <1>10, <1>11, <1>12, <1>13, <1>14, <1>15, <1>16, <1>17, <1>18 DEF ThreadStep
<1>36. ASSUME NEW a \in Actors, BrowserStep(a) PROVE PassedAreGone'
  BY <1>36, <1>19, <1>20, <1>21, <1>22, <1>23, <1>24, <1>25, <1>26 DEF BrowserStep
<1>37. ASSUME UserStep PROVE PassedAreGone'
  BY <1>37, <1>27, <1>28, <1>29 DEF UserStep
<1>38. ASSUME NEW b \in Browsers, ChildStep(b) PROVE PassedAreGone'
  BY <1>38, <1>30, <1>31 DEF ChildStep
<1>39. QED
  BY <1>34, <1>35, <1>36, <1>37, <1>38, <1>32, <1>33 DEF Next, vars

\* When close() or the failing call returns, every browser whose command
\* thread was joined in time has neither a process nor a thread.
THEOREM JoinedGone == Spec => []JoinedMeansGone
<1>1. Init => PassedAreGone
  BY DEF Init, PassedAreGone, Passed
<1>2. IInv /\ PassedAreGone /\ Next => PassedAreGone'
  BY PassedAreGoneStep
<1>3. PassedAreGone /\ UNCHANGED vars => PassedAreGone'
  BY DEF PassedAreGone, Passed, Gone, vars, manager, control, history
<1>4. IInv /\ PassedAreGone => JoinedMeansGone
  BY DEF IInv, Phases, PassedAreGone, Passed, Gone, JoinedMeansGone
<1>5. QED
  BY <1>1, <1>2, <1>3, <1>4, Safety, PTL DEF Spec

------------------------------------------------------------------------------
(* The end of a visit, and of the shutdown.  That a thread ends follows, if  *)
(* it is scheduled, from three facts: it finds what it looks for whenever it *)
(* looks (CanGoOn), each of its steps lowers a natural number (Rank), and no *)
(* step of anybody else raises that number.                                  *)

\* Actor a, if it runs, finds what one of its steps looks for.
CanGoOn(a) ==
  LET b == Target(a) IN
  /\ pc[a] = "status" /\ statusQueue[b] # <<>> =>
       Head(statusQueue[b]).kind \in {"OK", "FAILED", "CRITICAL"}
  /\ pc[a] = "await" /\ statusQueue[b] # <<>> =>
       Head(statusQueue[b]).kind \in {"READY", "FAILED", "CRITICAL"}
  /\ pc[a] = "spawn" => spawns[b] <= SpawnLimit
  /\ pc[a] = "shutdown" /\ a # Main => child[b] # "none"

\* A child that says it is ready speaks of its launch.
AboutLaunch(b) ==
  \A i \in DOMAIN statusQueue[b] :
    statusQueue[b][i].kind = "READY" => statusQueue[b][i].of = Shutdown

\* Browser b is awaited by its thread, or by the main thread.
Awaited(b) ==
  \/ pc[b] = "await"
  \/ pc[Main] = "await" /\ b = mainBrowser

\* While a launch is awaited, nothing but the launch has a status.
AwaitsLaunch(b) ==
  Awaited(b) => \A i \in DOMAIN statusQueue[b] : statusQueue[b][i].kind # "OK"

\* The unsuccessful spawns are counted, and a browser that is awaited may fail
\* once more.
Counted(b) == spawns[b] <= SpawnLimit /\ (Awaited(b) => spawns[b] < SpawnLimit)

\* A browser that has a thread was launched.
WasLaunched(b) ==
  /\ pc[b] # "idle" => child[b] # "none"
  /\ pc[Main] \in {"ready", "blocked"} => child[b] # "none"
  /\ ~closing /\ pc[Main] \in LaunchPCs /\ b < mainBrowser => child[b] # "none"
  /\ pc[Main] = "await" /\ b = mainBrowser => child[b] # "none"

\* What CanGoOn needs besides IInv, for browser b.
Expected(b) == AboutLaunch(b) /\ AwaitsLaunch(b) /\ Counted(b) /\ WasLaunched(b)

\* The steps that a launch has left, in the order of a turn of its loop.
Turn(l) ==
  CASE l = "shutdown" -> 5 [] l = "ack" -> 4 [] l = "reap" -> 3 [] l = "spawn" -> 2
    [] OTHER -> 1

\* At most so many steps are left to browser b's thread.
Rank(b) ==
  CASE pc[b] = "idle"   -> 0
    [] pc[b] = "drain"  -> 6 * SpawnLimit + 6
    [] pc[b] = "tally"  -> 6 * SpawnLimit + 7
    [] pc[b] = "status" -> 6 * SpawnLimit + 8 + 2 * (NumCommands - cmd[b])
    [] pc[b] = "put"    -> 6 * SpawnLimit + 9 + 2 * (NumCommands - cmd[b])
    [] OTHER            -> 6 * (SpawnLimit - spawns[b]) + Turn(pc[b])

\* At most so many steps are left to the main thread once it shuts down.
MainRank ==
  CASE pc[Main] \in Finished -> 0
    [] pc[Main] = "finish"   -> 1
    [] pc[Main] = "join"     -> 4 * (NumBrowsers - mainBrowser) + 5
    [] OTHER                 -> 4 * (NumBrowsers - mainBrowser) + Turn(pc[Main]) - 1

\* Each step of a command thread lowers its rank, and no step of anybody else
\* raises the rank of a thread that runs.
RankFalls ==
  \A b \in Browsers :
    /\ ThreadStep(b) \/ BrowserStep(b) => Rank(b)' < Rank(b)
    /\ pc[b] # "idle" => Rank(b)' <= Rank(b)

\* The same for the main thread, once it shuts down.
MainRankFalls ==
  closing =>
    /\ MainStep \/ BrowserStep(Main) => MainRank' < MainRank
    /\ MainRank' <= MainRank

\* A thread at rest keeps its rank.
LEMMA RankKept ==
  ASSUME NEW b \in Browsers, UNCHANGED <<pc[b], cmd[b], spawns[b]>>
  PROVE  Rank(b)' = Rank(b)
BY DEF Rank

\* The rank counts what is left.
LEMMA RankType ==
  ASSUME TypeOK, NEW b \in Browsers, Counted(b)
  PROVE  /\ Rank(b) \in Nat
         /\ pc[b] # "idle" => Rank(b) > 0
<1> USE LimitAssumption, BoundsAssumption
  DEF TypeOK, ControlType, SequenceType, Counted, ThreadPCs, LaunchPCs
<1>1. cmd[b] \in 0..NumCommands /\ spawns[b] \in 0..SpawnLimit
  OBVIOUS
<1>2. Turn(pc[b]) \in 1..5
  BY DEF Turn
<1>3. QED
  BY <1>1, <1>2 DEF Rank

\* Each step of a command thread lowers its rank.
LEMMA ThreadFalls ==
  ASSUME TypeOK, NEW b \in Browsers, Counted(b), ThreadStep(b) \/ BrowserStep(b)
  PROVE  Rank(b)' < Rank(b)
<1> USE ActorSet, LimitAssumption, BoundsAssumption
  DEF manager, control, Goto, TypeOK, ControlType, SequenceType, Target
<1>1. /\ b \in Actors /\ Target(b) = b
      /\ cmd[b] \in 0..NumCommands /\ spawns[b] \in 0..SpawnLimit
  BY DEF Counted
<1>2. ASSUME pc'[b] = "idle", pc[b] # "idle" PROVE Rank(b)' < Rank(b)
  BY <1>2, RankType DEF Rank
<1>3. ASSUME PutCommand(b) PROVE Rank(b)' < Rank(b)
  BY <1>1, <1>3 DEF PutCommand, Rank
<1>4. ASSUME ReceiveOk(b) PROVE Rank(b)' < Rank(b)
  <2>1. pc[b] = "status" /\ Rank(b) = 6 * SpawnLimit + 8 + 2 * (NumCommands - cmd[b])
    BY <1>4 DEF ReceiveOk, Receive, Rank
  <2>2. CASE pc'[b] = "drain"
    BY <1>1, <2>1, <2>2 DEF Rank
  <2>3. CASE pc'[b] = "put" /\ cmd'[b] = cmd[b] + 1
    BY <1>1, <2>1, <2>3 DEF Rank
  <2>4. QED
    BY <1>1, <1>4, <2>2, <2>3 DEF ReceiveOk
<1>5. ASSUME ReceiveCritical(b) PROVE Rank(b)' < Rank(b)
  BY <1>2, <1>5 DEF ReceiveCritical, Receive
<1>6. ASSUME ReceiveFailure(b) PROVE Rank(b)' < Rank(b)
  BY <1>1, <1>6 DEF ReceiveFailure, Receive, Rank
<1>7. ASSUME RecordRaises(b) PROVE Rank(b)' < Rank(b)
  BY <1>2, <1>7 DEF RecordRaises
<1>8. ASSUME Tally(b) PROVE Rank(b)' < Rank(b)
  BY <1>1, <1>8 DEF Tally, OverLimit, Rank
<1>9. ASSUME EndVisit(b) PROVE Rank(b)' < Rank(b)
  BY <1>2, <1>9 DEF EndVisit
<1>10. ASSUME Restart(b) PROVE Rank(b)' < Rank(b)
  BY <1>1, <1>10 DEF Restart, Rank, Turn
<1>11. ASSUME ThreadRestarted(b) PROVE Rank(b)' < Rank(b)
  BY <1>2, <1>11 DEF ThreadRestarted, Launched
<1>12. ASSUME ThreadSpawnCritical(b) PROVE Rank(b)' < Rank(b)
  BY <1>2, <1>12 DEF ThreadSpawnCritical, SpawnCritical
<1>13. ASSUME Spawn(b) PROVE Rank(b)' < Rank(b)
  BY <1>1, <1>13 DEF Spawn, Rank, Turn
<1>14. ASSUME SpawnFails(b) PROVE Rank(b)' < Rank(b)
  BY <1>1, <1>14 DEF SpawnFails, Rank, Turn
<1>15. ASSUME LaunchFails(b) PROVE Rank(b)' < Rank(b)
  BY <1>2, <1>15 DEF LaunchFails
<1>16. ASSUME SendShutdown(b) PROVE Rank(b)' < Rank(b)
  BY <1>1, <1>16 DEF SendShutdown, Rank, Turn
<1>17. ASSUME ShutdownAcked(b) PROVE Rank(b)' < Rank(b)
  BY <1>1, <1>17 DEF ShutdownAcked, Rank, Turn
<1>18. ASSUME pc[b] \in {"ack", "reap"}, CloseReturns(b), UNCHANGED <<cmd, spawns>>
      PROVE  Rank(b)' < Rank(b)
  BY <1>1, <1>18 DEF CloseReturns, Rank, Turn
<1>19. QED
  BY <1>3, <1>4, <1>5, <1>6, <1>7, <1>8, <1>9, <1>10, <1>11, <1>12, <1>13, <1>14, <1>15,
     <1>16, <1>17, <1>18
  DEF ThreadStep, BrowserStep, ShutdownRefused, ShutdownTimeout, Reap

\* A command thread leaves the control of the other threads alone.
LEMMA ThreadAlone ==
  ASSUME TypeOK, NEW b \in Browsers, ThreadStep(b) \/ BrowserStep(b)
  PROVE  /\ \A c \in Actors : c # b => pc'[c] = pc[c]
         /\ \A c \in Browsers : c # b => UNCHANGED <<cmd[c], spawns[c]>>
         /\ UNCHANGED <<closing, mainBrowser>>
<1> USE ActorSet DEF manager, control, Goto, TypeOK, ControlType, SequenceType, Target
<1>1. CASE ThreadStep(b)
  BY <1>1 DEF ThreadStep, PutCommand, ReceiveOk, ReceiveCritical, ReceiveFailure, RecordRaises,
     Tally, EndVisit, Restart, ThreadRestarted, ThreadSpawnCritical
<1>2. CASE BrowserStep(b)
  BY <1>2 DEF BrowserStep, Spawn, SpawnFails, LaunchFails, SendShutdown, ShutdownAcked,
     ShutdownRefused, ShutdownTimeout, Reap, CloseReturns
<1>3. QED
  BY <1>1, <1>2

\* The main thread leaves the control of a command thread that runs alone, but
\* that it counts the spawns of the browser it launches.
LEMMA MainAlone ==
  ASSUME TypeOK, NEW b \in Browsers, pc[b] # "idle",
         MainStep \/ BrowserStep(Main) \/ UserStep
  PROVE  /\ UNCHANGED <<pc[b], cmd[b]>>
         /\ \/ UNCHANGED spawns[b]
            \/ pc[Main] = "await" /\ b = mainBrowser
<1> USE ActorSet, BrowserOrder DEF manager, control, Goto, TypeOK, ControlType, SequenceType, Target
<1>1. CASE MainStep
  <2>1. MainLaunched => UNCHANGED <<pc[b], cmd[b], spawns[b]>>
    BY DEF MainLaunched
  <2>2. MainSpawnCritical => UNCHANGED <<pc[b], cmd[b], spawns[b]>>
    BY DEF MainSpawnCritical, BeginShutdown
  <2>3. JoinThread \/ FinishShutdown \/ CloseNeverLaunched(Main) \/ Unblock =>
          UNCHANGED <<pc[b], cmd[b], spawns[b]>>
    BY DEF JoinThread, FinishShutdown, CloseNeverLaunched, Unblock
  <2>4. JoinTimeout => UNCHANGED <<pc[b], cmd[b], spawns[b]>>
    BY DEF JoinTimeout, CloseReturns
  <2>5. FailOnJoin => UNCHANGED <<pc[b], cmd[b], spawns[b]>>
    BY DEF FailOnJoin, BeginShutdown
  <2>6. QED
    BY <1>1, <2>1, <2>2, <2>3, <2>4, <2>5 DEF MainStep
<1>2. CASE BrowserStep(Main)
  <2>1. CASE SpawnFails(Main)
    BY <2>1 DEF SpawnFails
  <2>2. Spawn(Main) \/ SendShutdown(Main) \/ ShutdownAcked(Main) =>
          UNCHANGED <<pc[b], cmd[b], spawns[b]>>
    BY DEF Spawn, SendShutdown, ShutdownAcked
  <2>3. LaunchFails(Main) => UNCHANGED <<pc[b], cmd[b], spawns[b]>>
    BY DEF LaunchFails, BeginShutdown
  <2>4. CloseReturns(Main) => UNCHANGED pc[b]
    BY DEF CloseReturns
  <2>5. ShutdownRefused(Main) \/ ShutdownTimeout(Main) \/ Reap(Main) =>
          UNCHANGED <<pc[b], cmd[b], spawns[b]>>
    BY <2>4 DEF ShutdownRefused, ShutdownTimeout, Reap
  <2>6. QED
    BY <1>2, <2>1, <2>2, <2>3, <2>5 DEF BrowserStep
<1>3. CASE UserStep
  <2>1. ASSUME NEW c \in Browsers, NEW r \in BOOLEAN, NEW k \in BOOLEAN, Execute(c, r, k)
        PROVE  UNCHANGED <<pc[b], cmd[b], spawns[b]>>
    BY <2>1 DEF Execute
  <2>2. FailOnExecute \/ Close => UNCHANGED <<pc[b], cmd[b], spawns[b]>>
    BY DEF FailOnExecute, Close, BeginShutdown
  <2>3. QED
    BY <1>3, <2>1, <2>2 DEF UserStep
<1>4. QED
  BY <1>1, <1>2, <1>3

\* Once it shuts down, the main thread only closes browsers.
LEMMA ShutdownPhases ==
  ASSUME IInv, closing
  PROVE  pc[Main] \in {"join", "shutdown", "ack", "reap", "finish"} \cup Finished
BY DEF IInv, TypeOK, ControlType, Phases, LaunchPCs, MainPCs, Finished

\* The rank of the main thread counts what is left.
LEMMA MainRankType == ASSUME IInv, closing PROVE MainRank \in Nat
<1>1. mainBrowser \in 1..NumBrowsers /\ NumBrowsers \in Nat
  BY BrowsersAssumption DEF IInv, TypeOK, ControlType, Browsers
<1>2. QED
  BY <1>1, ShutdownPhases DEF MainRank, Turn, Finished

\* Each step of the shutdown lowers the rank of the main thread.
LEMMA ShutdownFalls ==
  ASSUME IInv, closing, MainStep \/ BrowserStep(Main)
  PROVE  MainRank' < MainRank
<1> USE ActorSet, ShutdownPhases DEF manager, control, Goto, TypeOK, ControlType, Target, Finished
<1>1. TypeOK /\ mainBrowser \in 1..NumBrowsers /\ NumBrowsers \in Nat
  BY BrowsersAssumption DEF IInv, Browsers
<1>2. ASSUME pc[Main] \in {"join", "ack", "reap"}, CloseReturns(Main)
      PROVE  MainRank' < MainRank
  BY <1>1, <1>2 DEF CloseReturns, MainRank, Turn
<1>3. ASSUME JoinThread PROVE MainRank' < MainRank
  BY <1>1, <1>3 DEF JoinThread, MainRank, Turn
<1>4. ASSUME FinishShutdown PROVE MainRank' < MainRank
  BY <1>1, <1>4 DEF FinishShutdown, MainRank
<1>5. ASSUME CloseNeverLaunched(Main) PROVE MainRank' < MainRank
  BY <1>1, <1>5 DEF CloseNeverLaunched, MainRank, Turn
<1>6. ASSUME SendShutdown(Main) PROVE MainRank' < MainRank
  BY <1>1, <1>6 DEF SendShutdown, MainRank, Turn
<1>7. ASSUME ShutdownAcked(Main) PROVE MainRank' < MainRank
  BY <1>1, <1>7 DEF ShutdownAcked, MainRank, Turn
<1>8. ~(MainLaunched \/ MainSpawnCritical \/ Unblock \/ FailOnJoin)
  BY DEF MainLaunched, Launched, MainSpawnCritical, SpawnCritical, Unblock, FailOnJoin
<1>9. ~(Spawn(Main) \/ SpawnFails(Main) \/ LaunchFails(Main))
  BY DEF Spawn, SpawnFails, LaunchFails
<1>10. QED
  BY <1>2, <1>3, <1>4, <1>5, <1>6, <1>7, <1>8, <1>9
  DEF MainStep, BrowserStep, JoinTimeout, ShutdownRefused, ShutdownTimeout, Reap

------------------------------------------------------------------------------
(* Expected is inductive with IInv: one lemma for each of its parts.         *)

\* What the children and the watchdog leave alone.
LEMMA ChildAlone ==
  ASSUME NEW b \in Browsers, ChildStep(b) \/ Watchdog(b)
  PROVE  UNCHANGED <<closing, pc, mainBrowser, cmd, spawns>>
BY DEF ChildStep, Deploy, DoCommand, Answer, Watchdog, manager, control

\* The shutdown is not taken back.
LEMMA ClosingForGood ==
  ASSUME TypeOK, Next, closing
  PROVE  closing'
<1> USE DEF manager
<1>1. MainStep => closing'
  BY DEF MainStep, MainLaunched, MainSpawnCritical, JoinThread, JoinTimeout, FinishShutdown,
     CloseNeverLaunched, Unblock, FailOnJoin, BeginShutdown
<1>2. ASSUME NEW b \in Browsers, ThreadStep(b) \/ BrowserStep(b) PROVE closing'
  BY <1>2, ThreadAlone
<1>3. BrowserStep(Main) => closing'
  BY DEF BrowserStep, Spawn, SpawnFails, LaunchFails, BeginShutdown, SendShutdown, ShutdownAcked,
     ShutdownRefused, ShutdownTimeout, Reap
<1>4. UserStep => closing'
  BY DEF UserStep, Execute, FailOnExecute, Close, BeginShutdown
<1>5. ASSUME NEW b \in Browsers, ChildStep(b) \/ Watchdog(b) PROVE closing'
  BY <1>5, ChildAlone
<1>6. UNCHANGED vars => closing'
  BY DEF vars
<1>7. QED
  BY <1>1, <1>2, <1>3, <1>4, <1>5, <1>6, ActorSet DEF Next

\* A thread that takes a step is not idle.
LEMMA ThreadRuns ==
  ASSUME NEW b \in Browsers, ThreadStep(b) \/ BrowserStep(b)
  PROVE  pc[b] # "idle"
<1>1. CASE ThreadStep(b)
  BY <1>1 DEF ThreadStep, PutCommand, ReceiveOk, ReceiveCritical, ReceiveFailure, Receive,
     RecordRaises, Tally, EndVisit, Restart, ThreadRestarted, Launched, ThreadSpawnCritical,
     SpawnCritical
<1>2. CASE BrowserStep(b)
  BY <1>2 DEF BrowserStep, Spawn, SpawnFails, LaunchFails, SendShutdown, ShutdownAcked,
     ShutdownRefused, ShutdownTimeout, Reap
<1>3. QED
  BY <1>1, <1>2

\* Only a spawn makes an actor await a browser.
LEMMA AwaitedStep ==
  ASSUME TypeOK, Next, NEW x \in Browsers, Awaited(x)', ~Awaited(x)
  PROVE  \E a \in Actors : Spawn(a) /\ Target(a) = x
<1> USE ActorSet DEF manager, control, Goto, TypeOK, ControlType, Target, Awaited
<1>1. ~MainStep
  <2>1. MainStep => pc'[Main] # "await" /\ pc'[x] = pc[x]
    BY DEF MainStep, MainLaunched, MainSpawnCritical, JoinThread, JoinTimeout, FinishShutdown,
       CloseNeverLaunched, Unblock, FailOnJoin, BeginShutdown, CloseReturns
  <2>2. QED
    BY <2>1
<1>2. ASSUME NEW b \in Browsers, ThreadStep(b) PROVE FALSE
  <2>1. pc'[b] # "await"
    BY <1>2 DEF ThreadStep, PutCommand, ReceiveOk, ReceiveCritical, ReceiveFailure, RecordRaises,
       Tally, EndVisit, Restart, ThreadRestarted, ThreadSpawnCritical
  <2>2. QED
    BY <1>2, <2>1, ThreadAlone
<1>3. ASSUME NEW a \in Actors, BrowserStep(a), ~Spawn(a) PROVE FALSE
  <2>1. pc'[a] # "await" /\ \A c \in Actors : c # a => pc'[c] = pc[c]
    BY <1>3 DEF BrowserStep, SpawnFails, LaunchFails, BeginShutdown, SendShutdown, ShutdownAcked,
       ShutdownRefused, ShutdownTimeout, Reap, CloseReturns
  <2>2. a # Main => UNCHANGED mainBrowser
    BY <1>3, ThreadAlone
  <2>3. QED
    BY <2>1, <2>2
<1>4. ASSUME NEW a \in Actors, Spawn(a) PROVE Target(a) = x
  <2>1. UNCHANGED mainBrowser /\ \A c \in Actors : c # a => pc'[c] = pc[c]
    BY <1>4 DEF Spawn
  <2>2. QED
    BY <2>1
<1>5. ~UserStep
  <2>1. UserStep => pc'[Main] # "await" /\ (pc'[x] = "await" => pc[x] = "await")
    BY DEF UserStep, Execute, FailOnExecute, Close, BeginShutdown
  <2>2. QED
    BY <2>1
<1>6. ASSUME NEW b \in Browsers, ChildStep(b) \/ Watchdog(b) PROVE FALSE
  BY <1>6, ChildAlone
<1>7. ~UNCHANGED vars
  BY DEF vars
<1>8. QED
  BY <1>1, <1>2, <1>3, <1>4, <1>5, <1>6, <1>7 DEF Next

\* The unsuccessful spawns are counted.
LEMMA CountedStep ==
  ASSUME IInv, \A b \in Browsers : Counted(b), Next, NEW x \in Browsers
  PROVE  Counted(x)'
<1> USE ActorSet, LimitAssumption DEF TypeOK, SequenceType
<1>1. TypeOK /\ Counted(x) /\ spawns[x] \in Nat
  BY DEF IInv
<1>2. ASSUME NEW a \in Actors, Spawn(a) PROVE Counted(x)'
  <2>1. UNCHANGED spawns /\ spawns[Target(a)] < SpawnLimit
    BY <1>2 DEF Spawn
  <2>2. CASE x = Target(a)
    BY <1>1, <2>1, <2>2 DEF Counted
  <2>3. CASE x # Target(a)
    <3>1. UNCHANGED mainBrowser /\ \A c \in Actors : c # a => pc'[c] = pc[c]
      BY <1>1, <1>2 DEF Spawn, control, Goto, ControlType
    <3>2. QED
      BY <1>1, <2>1, <2>3, <3>1 DEF Counted, Awaited, Target
  <2>4. QED
    BY <2>2, <2>3
<1>3. Awaited(x)' => Awaited(x) \/ Counted(x)'
  BY <1>1, <1>2, AwaitedStep
<1>4. ASSUME UNCHANGED spawns[x] PROVE Counted(x)'
  BY <1>1, <1>3, <1>4 DEF Counted
<1>5. ASSUME NEW b \in Browsers, Restart(b) PROVE Counted(x)'
  <2>1. /\ pc[b] = "drain" /\ pc'[b] # "await" /\ spawns'[b] \in {0, spawns[b]}
        /\ pc'[Main] = pc[Main] /\ UNCHANGED mainBrowser
    BY <1>1, <1>5 DEF Restart, control, Goto, ControlType
  <2>2. CASE x = b
    BY <1>1, <2>1, <2>2, Apart DEF Counted, Awaited
  <2>3. CASE x # b
    BY <1>1, <1>4, <1>5, <2>3 DEF Restart
  <2>4. QED
    BY <2>2, <2>3
<1>6. ASSUME NEW a \in Actors, SpawnFails(a) PROVE Counted(x)'
  <2>1. CASE x = Target(a)
    <3>1. Awaited(x)
      BY <1>6, <2>1 DEF SpawnFails, Target, Awaited
    <3>2. spawns'[x] = spawns[x] + 1
      BY <1>1, <1>6, <2>1 DEF SpawnFails
    <3>3. /\ pc[x] # "idle" => pc[Main] # "await"
          /\ pc[Main] = "await" => pc[mainBrowser] = "idle"
      BY Apart DEF LaunchPCs
    <3>4. ~Awaited(x)'
      BY <1>1, <1>6, <2>1, <3>3 DEF SpawnFails, control, Goto, ControlType, Target, Awaited
    <3>5. QED
      BY <1>1, <3>1, <3>2, <3>4 DEF Counted
  <2>2. CASE x # Target(a)
    BY <1>1, <1>4, <1>6, <2>2 DEF SpawnFails
  <2>3. QED
    BY <2>1, <2>2
<1>7. ASSUME MainStep PROVE UNCHANGED spawns
  BY <1>7 DEF MainStep, MainLaunched, MainSpawnCritical, JoinThread, JoinTimeout, FinishShutdown,
     CloseNeverLaunched, Unblock, FailOnJoin
<1>8. ASSUME NEW b \in Browsers, ThreadStep(b), ~Restart(b) PROVE UNCHANGED spawns
  BY <1>8 DEF ThreadStep, PutCommand, ReceiveOk, ReceiveCritical, ReceiveFailure, RecordRaises,
     Tally, EndVisit, ThreadRestarted, ThreadSpawnCritical, control
<1>9. ASSUME NEW a \in Actors, BrowserStep(a), ~SpawnFails(a) PROVE UNCHANGED spawns
  BY <1>9 DEF BrowserStep, Spawn, LaunchFails, SendShutdown, ShutdownAcked, ShutdownRefused,
     ShutdownTimeout, Reap
<1>10. ASSUME UserStep PROVE UNCHANGED spawns
  BY <1>10 DEF UserStep, Execute, FailOnExecute, Close
<1>11. ASSUME NEW b \in Browsers, ChildStep(b) \/ Watchdog(b) PROVE UNCHANGED spawns
  BY <1>11, ChildAlone
<1>12. ASSUME UNCHANGED vars PROVE UNCHANGED spawns
  BY <1>12 DEF vars, control
<1>13. QED
  BY <1>4, <1>5, <1>6, <1>7, <1>8, <1>9, <1>10, <1>11, <1>12 DEF Next

\* A status queue loses its head, is replaced, or gets what the child says.
LEMMA StatusStep ==
  ASSUME TypeOK, Next, NEW x \in Browsers
  PROVE  \/ UNCHANGED statusQueue[x]
         \/ statusQueue[x] # <<>> /\ statusQueue'[x] = Tail(statusQueue[x])
         \/ statusQueue'[x] = <<>>
         \/ ChildStep(x)
<1> USE ActorSet DEF TypeOK, QueueType, queues
<1> DEFINE Taken == \/ UNCHANGED statusQueue[x]
                    \/ statusQueue[x] # <<>> /\ statusQueue'[x] = Tail(statusQueue[x])
<1>1. MainStep => Taken
  BY DEF MainStep, MainLaunched, Launched, MainSpawnCritical, SpawnCritical, JoinThread,
     JoinTimeout, FinishShutdown, CloseNeverLaunched, Unblock, FailOnJoin
<1>2. ASSUME NEW b \in Browsers, ThreadStep(b) PROVE Taken
  BY <1>2 DEF ThreadStep, PutCommand, ReceiveOk, ReceiveCritical, ReceiveFailure, Receive,
     RecordRaises, Tally, EndVisit, Restart, ThreadRestarted, Launched, ThreadSpawnCritical, SpawnCritical
<1>3. ASSUME NEW a \in Actors, BrowserStep(a), ~Spawn(a) PROVE Taken
  BY <1>3 DEF BrowserStep, SpawnFails, LaunchFails, SendShutdown, ShutdownAcked, ShutdownRefused,
     ShutdownTimeout, Reap
<1>4. ASSUME NEW a \in Actors, Spawn(a) PROVE Taken \/ statusQueue'[x] = <<>>
  BY <1>4 DEF Spawn
<1>5. UserStep => Taken
  BY DEF UserStep, Execute, FailOnExecute, Close
<1>6. ASSUME NEW b \in Browsers, ChildStep(b), b # x PROVE Taken
  BY <1>6 DEF ChildStep, Deploy, DoCommand, Answer
<1>7. ASSUME NEW b \in Browsers, Watchdog(b) PROVE Taken
  BY <1>7 DEF Watchdog
<1>8. UNCHANGED vars => Taken
  BY DEF vars
<1>9. QED
  BY <1>1, <1>2, <1>3, <1>4, <1>5, <1>6, <1>7, <1>8 DEF Next

\* What a child says: READY or a failure of its launch, or the answer to a command.
LEMMA ChildSays ==
  ASSUME TypeOK, NEW x \in Browsers, ChildStep(x)
  PROVE  \E k \in {"READY", "OK", "FAILED", "CRITICAL"}, c \in Commands \cup {Shutdown} :
           /\ statusQueue'[x] = Append(statusQueue[x], Status(k, c))
           /\ k = "READY" => c = Shutdown
           /\ k = "OK" => commandQueue[x] # <<>>
<1> USE DEF TypeOK, QueueType
<1>1. CASE Deploy(x)
  BY <1>1 DEF Deploy, Answer
<1>2. CASE DoCommand(x)
  <2>1. commandQueue[x] # <<>> /\ Head(commandQueue[x]) \in Commands \cup {Shutdown}
    BY <1>2, QueueOps DEF DoCommand
  <2>2. \E k \in {"OK", "FAILED", "CRITICAL"} :
          statusQueue'[x] = Append(statusQueue[x], Status(k, Head(commandQueue[x])))
    BY <1>2 DEF DoCommand, Answer
  <2>3. QED
    BY <2>1, <2>2
<1>3. QED
  BY <1>1, <1>2 DEF ChildStep

\* A child that says it is ready speaks of its launch.
LEMMA AboutLaunchStep ==
  ASSUME TypeOK, Next, NEW x \in Browsers, AboutLaunch(x)
  PROVE  AboutLaunch(x)'
<1>1. statusQueue[x] \in Seq(Statuses)
  BY DEF TypeOK, QueueType
<1>2. CASE UNCHANGED statusQueue[x] \/ statusQueue'[x] = <<>>
  BY <1>2 DEF AboutLaunch
<1>3. CASE statusQueue[x] # <<>> /\ statusQueue'[x] = Tail(statusQueue[x])
  BY <1>1, <1>3 DEF AboutLaunch
<1>4. CASE ChildStep(x)
  <2>1. PICK k \in {"READY", "OK", "FAILED", "CRITICAL"}, c \in Commands \cup {Shutdown} :
          /\ statusQueue'[x] = Append(statusQueue[x], Status(k, c))
          /\ k = "READY" => c = Shutdown
    BY <1>4, ChildSays
  <2>2. QED
    BY <1>1, <2>1 DEF AboutLaunch, Status
<1>5. QED
  BY <1>2, <1>3, <1>4, StatusStep

\* While a launch is awaited, nothing but the launch has a status.
LEMMA AwaitsLaunchStep ==
  ASSUME IInv, Next, NEW x \in Browsers, AwaitsLaunch(x)
  PROVE  AwaitsLaunch(x)'
<1>1. TypeOK /\ statusQueue[x] \in Seq(Statuses)
  BY DEF IInv, TypeOK, QueueType
<1>2. SUFFICES ASSUME Awaited(x)'
               PROVE  \A i \in DOMAIN statusQueue'[x] : statusQueue'[x][i].kind # "OK"
  BY DEF AwaitsLaunch
<1>3. CASE ~Awaited(x)
  <2>1. PICK a \in Actors : Spawn(a) /\ Target(a) = x
    BY <1>1, <1>2, <1>3, AwaitedStep
  <2>2. statusQueue'[x] = <<>>
    BY <1>1, <2>1 DEF Spawn, TypeOK, QueueType
  <2>3. QED
    BY <2>2
<1>4. CASE Awaited(x)
  <2>1. \A i \in DOMAIN statusQueue[x] : statusQueue[x][i].kind # "OK"
    BY <1>4 DEF AwaitsLaunch
  <2>2. CASE UNCHANGED statusQueue[x] \/ statusQueue'[x] = <<>>
    BY <2>1, <2>2
  <2>3. CASE statusQueue[x] # <<>> /\ statusQueue'[x] = Tail(statusQueue[x])
    BY <1>1, <2>1, <2>3
  <2>4. CASE ChildStep(x)
    <3>1. commandQueue[x] = <<>>
      BY <1>4 DEF Awaited, IInv, Queues, Launching
    <3>2. PICK k \in {"READY", "FAILED", "CRITICAL"}, c \in Commands \cup {Shutdown} :
            statusQueue'[x] = Append(statusQueue[x], Status(k, c))
      BY <1>1, <2>4, <3>1, ChildSays
    <3>3. QED
      BY <1>1, <2>1, <3>2 DEF Status
  <2>5. QED
    BY <1>1, <2>2, <2>3, <2>4, StatusStep
<1>5. QED
  BY <1>3, <1>4

\* A browser that was launched once is known from then on.
LEMMA LaunchedForGood ==
  ASSUME TypeOK, Next, NEW x \in Browsers, child[x] # "none"
  PROVE  child'[x] # "none"
<1> USE ActorSet DEF TypeOK, BrowserType
<1>1. ASSUME NEW b \in Browsers, Kill(b) \/ UNCHANGED child PROVE child'[x] # "none"
  BY <1>1 DEF Kill
<1>2. MainStep => \/ UNCHANGED child
                  \/ Kill(mainBrowser)
  BY DEF MainStep, MainLaunched, MainSpawnCritical, JoinThread, JoinTimeout,
     FinishShutdown, CloseNeverLaunched, Unblock, FailOnJoin
<1>3. mainBrowser \in Browsers
  BY DEF ControlType
<1>4. ASSUME NEW b \in Browsers, ThreadStep(b) PROVE UNCHANGED child
  BY <1>4 DEF ThreadStep, PutCommand, ReceiveOk, ReceiveCritical, ReceiveFailure, RecordRaises,
     Tally, EndVisit, Restart, ThreadRestarted, ThreadSpawnCritical
<1>5. ASSUME NEW a \in Actors, Spawn(a) PROVE child'[x] # "none"
  BY <1>5 DEF Spawn
<1>6. ASSUME NEW a \in Actors, BrowserStep(a), ~Spawn(a)
      PROVE  UNCHANGED child \/ Kill(Target(a))
  BY <1>6 DEF BrowserStep, SpawnFails, LaunchFails, SendShutdown, ShutdownAcked, ShutdownRefused,
     ShutdownTimeout, Reap
<1>7. UserStep => UNCHANGED child
  BY DEF UserStep, Execute, FailOnExecute, Close
<1>8. ASSUME NEW b \in Browsers, ChildStep(b) \/ Watchdog(b) PROVE child'[x] # "none"
  BY <1>8 DEF ChildStep, Deploy, DoCommand, Answer, Watchdog
<1>9. UNCHANGED vars => UNCHANGED child
  BY DEF vars
<1>10. QED
  BY <1>1, <1>2, <1>3, <1>4, <1>5, <1>6, <1>7, <1>8, <1>9, TargetType DEF Next

\* A browser that has a thread was launched.
LEMMA WasLaunchedStep ==
  ASSUME IInv, Next, NEW x \in Browsers, WasLaunched(x)
  PROVE  WasLaunched(x)'
<1> USE ActorSet DEF manager, control, Goto, ControlType, Target, LaunchPCs, WasLaunched
<1>1. TypeOK /\ ControlType /\ (child[x] # "none" => child'[x] # "none")
  BY LaunchedForGood DEF IInv, TypeOK
<1>2. closing => pc[Main] \notin {"ready", "blocked", "spawn", "await"}
  BY DEF IInv, Phases
<1>3. ASSUME MainLaunched PROVE WasLaunched(x)'
  <2>1. ~closing /\ pc[Main] = "await" /\ pc'[x] = pc[x]
    BY <1>1, <1>2, <1>3 DEF MainLaunched, Launched
  <2>2. x <= mainBrowser => child[x] # "none"
    BY <1>1, <2>1 DEF Browsers
  <2>3. CASE mainBrowser < NumBrowsers
    BY <1>1, <1>3, <2>1, <2>2, <2>3 DEF MainLaunched, Browsers
  <2>4. CASE mainBrowser >= NumBrowsers
    <3>1. child[x] # "none"
      BY <1>1, <2>2, <2>4, BrowsersAssumption DEF Browsers
    <3>2. QED
      BY <1>1, <3>1
  <2>5. QED
    BY <1>1, <2>3, <2>4, BrowsersAssumption DEF Browsers
<1>4. ASSUME Unblock PROVE WasLaunched(x)'
  BY <1>1, <1>4 DEF Unblock
<1>5. ASSUME pc'[x] = pc[x], closing' \/ pc'[Main] \notin LaunchPCs,
             pc'[Main] \notin {"ready", "blocked", "await"}
      PROVE  WasLaunched(x)'
  BY <1>1, <1>5
<1>6. ASSUME MainStep, ~MainLaunched, ~Unblock PROVE WasLaunched(x)'
  <2>1. CASE CloseNeverLaunched(Main)
    BY <1>1, <1>5, <2>1 DEF CloseNeverLaunched
  <2>2. CASE JoinThread \/ JoinTimeout \/ FinishShutdown
    <3>1. closing
      BY <2>2 DEF IInv, Phases, JoinThread, JoinTimeout, FinishShutdown
    <3>2. UNCHANGED closing /\ pc'[x] = pc[x] /\ pc'[Main] \notin {"ready", "blocked", "await"}
      BY <1>1, <2>2, <3>1 DEF JoinThread, JoinTimeout, FinishShutdown, CloseReturns
    <3>3. QED
      BY <1>5, <3>1, <3>2
  <2>3. CASE MainSpawnCritical \/ FailOnJoin
    BY <1>1, <1>5, <2>3 DEF MainSpawnCritical, FailOnJoin, BeginShutdown
  <2>4. QED
    BY <1>6, <2>1, <2>2, <2>3 DEF MainStep
<1>7. ASSUME UNCHANGED <<closing, mainBrowser>>, pc'[Main] = pc[Main],
             pc[x] = "idle" => pc'[x] = "idle"
      PROVE  WasLaunched(x)'
  BY <1>1, <1>7
<1>8. ASSUME NEW b \in Browsers, ThreadStep(b) \/ BrowserStep(b) PROVE WasLaunched(x)'
  BY <1>1, <1>7, <1>8, ThreadAlone, ThreadRuns
<1>9. ASSUME BrowserStep(Main) PROVE WasLaunched(x)'
  <2>1. CASE Spawn(Main)
    <3>1. /\ UNCHANGED <<closing, mainBrowser>> /\ pc'[Main] = "await" /\ pc'[x] = pc[x]
          /\ pc[Main] = "spawn" /\ child'[mainBrowser] = "deploying"
      BY <1>1, <2>1 DEF Spawn, TypeOK, BrowserType
    <3>2. QED
      BY <1>1, <3>1
  <2>2. CASE ~Spawn(Main) /\ ~closing'
    <3>1. /\ pc[Main] \in LaunchPCs /\ UNCHANGED <<closing, mainBrowser>> /\ pc'[x] = pc[x]
          /\ pc'[Main] \in LaunchPCs \ {"await"}
      BY <1>1, <1>9, <2>2
      DEF BrowserStep, SpawnFails, LaunchFails, BeginShutdown, SendShutdown, ShutdownAcked,
          ShutdownRefused, ShutdownTimeout, Reap, CloseReturns
    <3>2. QED
      BY <1>1, <3>1
  <2>3. CASE ~Spawn(Main) /\ closing'
    <3>1. pc'[x] = pc[x] /\ pc'[Main] \notin {"ready", "blocked", "await"}
      BY <1>1, <1>9, <2>3
      DEF BrowserStep, SpawnFails, LaunchFails, BeginShutdown, SendShutdown, ShutdownAcked,
          ShutdownRefused, ShutdownTimeout, Reap, CloseReturns
    <3>2. QED
      BY <1>5, <2>3, <3>1
  <2>4. QED
    BY <2>1, <2>2, <2>3
<1>10. ASSUME NEW b \in Browsers, NEW r \in BOOLEAN, NEW k \in BOOLEAN, Execute(b, r, k)
       PROVE  WasLaunched(x)'
  <2>1. pc[Main] = "ready" /\ pc'[Main] \in {"ready", "blocked"}
    BY <1>1, <1>10 DEF Execute
  <2>2. QED
    BY <1>1, <2>1
<1>11. ASSUME FailOnExecute \/ Close PROVE WasLaunched(x)'
  BY <1>1, <1>5, <1>11 DEF FailOnExecute, Close, BeginShutdown
<1>12. ASSUME NEW b \in Browsers, ChildStep(b) \/ Watchdog(b) PROVE WasLaunched(x)'
  BY <1>7, <1>12, ChildAlone
<1>13. ASSUME UNCHANGED vars PROVE WasLaunched(x)'
  BY <1>7, <1>13 DEF vars
<1>14. QED
  BY <1>3, <1>4, <1>6, <1>8, <1>9, <1>10, <1>11, <1>12, <1>13 DEF Next, UserStep

\* What CanGoOn needs besides IInv, for every browser.
AllExpected == \A b \in Browsers : Expected(b)

\* What CanGoOn needs holds in every reachable state.
LEMMA ExpectedAlways == Spec => [](IInv /\ AllExpected)
<1>1. Init => AllExpected
  <2>1. \A b \in Browsers : ~(b < 1)
    BY BrowsersAssumption DEF Browsers
  <2>2. QED
    BY <2>1, ActorSet, LimitAssumption
    DEF Init, AllExpected, Expected, AboutLaunch, AwaitsLaunch, Counted, WasLaunched, Awaited
<1>2. IInv /\ AllExpected /\ Next => AllExpected'
  <2>1. SUFFICES ASSUME IInv, AllExpected, Next, NEW x \in Browsers
                 PROVE  Expected(x)'
    BY DEF AllExpected
  <2>2. TypeOK /\ Expected(x) /\ \A b \in Browsers : Counted(b)
    BY <2>1 DEF IInv, AllExpected, Expected
  <2>3. AboutLaunch(x)' /\ AwaitsLaunch(x)' /\ Counted(x)' /\ WasLaunched(x)'
    BY <2>1, <2>2, AboutLaunchStep, AwaitsLaunchStep, CountedStep, WasLaunchedStep DEF Expected
  <2>4. QED
    BY <2>3 DEF Expected
<1>3. AllExpected /\ UNCHANGED vars => AllExpected'
  BY DEF AllExpected, Expected, AboutLaunch, AwaitsLaunch, Counted, WasLaunched, Awaited,
     vars, manager, control, queues
<1>4. QED
  BY <1>1, <1>2, <1>3, Safety, PTL DEF Spec

\* No thread waits for what cannot come: whatever status an actor finds is one
\* that the call it is in deals with, a spawn is left or the launch is given
\* up, and a command thread that closes its browser has one to close.
THEOREM NeverBaffled == Spec => [](\A a \in Actors : CanGoOn(a))
<1>1. ASSUME IInv, AllExpected, NEW a \in Actors
      PROVE  CanGoOn(a)
  <2> DEFINE b == Target(a)
  <2>1. TypeOK /\ b \in Browsers /\ statusQueue[b] \in Seq(Statuses) /\ Queues(b) /\ Expected(b)
    BY <1>1, TargetType DEF IInv, AllExpected, TypeOK, QueueType
  <2>2. ASSUME statusQueue[b] # <<>>
        PROVE  /\ 1 \in DOMAIN statusQueue[b] /\ Head(statusQueue[b]) = statusQueue[b][1]
               /\ statusQueue[b][1].kind \in {"READY", "OK", "FAILED", "CRITICAL"}
    <3> HIDE DEF b
    <3>1. 1 \in DOMAIN statusQueue[b] /\ Head(statusQueue[b]) = statusQueue[b][1]
      BY <2>1, <2>2
    <3>2. statusQueue[b][1] \in Statuses
      BY <2>1, <3>1
    <3>3. QED
      BY <3>1, <3>2 DEF Statuses
  <2>3. ASSUME pc[a] = "status", statusQueue[b] # <<>>
        PROVE  Head(statusQueue[b]).kind # "READY"
    <3>1. a \in Browsers /\ b = a
      BY <2>1, <2>3, ActorSet DEF TypeOK, ControlType, Target, LaunchPCs, MainPCs
    <3>2. statusQueue[b][1].of = <<currVisit[b], cmd[b]>>
      BY <2>1, <2>2, <2>3, <3>1 DEF Queues, Waiting
    <3>3. currVisit[b] # 0
      BY <2>1, <2>3, <3>1 DEF TypeOK, SequenceType, ThreadPCs
    <3>4. statusQueue[b][1].of # Shutdown
      BY <3>2, <3>3 DEF Shutdown
    <3>5. QED
      BY <2>1, <2>2, <2>3, <3>4 DEF Expected, AboutLaunch
  <2>4. ASSUME pc[a] = "await", statusQueue[b] # <<>>
        PROVE  Head(statusQueue[b]).kind # "OK"
    <3>1. Awaited(b)
      BY <2>4 DEF Awaited, Target
    <3>2. QED
      BY <2>1, <2>2, <2>4, <3>1 DEF Expected, AwaitsLaunch
  <2>5. pc[a] = "spawn" => spawns[b] <= SpawnLimit
    BY <2>1 DEF Expected, Counted
  <2>6. pc[a] = "shutdown" /\ a # Main => child[b] # "none"
    BY <2>1 DEF Expected, WasLaunched, Target
  <2>7. QED
    BY <2>2, <2>3, <2>4, <2>5, <2>6 DEF CanGoOn
<1>2. IInv /\ AllExpected => \A a \in Actors : CanGoOn(a)
  BY <1>1
<1>3. QED
  BY <1>2, ExpectedAlways, PTL

\* A visit runs down: each step of a command thread lowers the number of the
\* steps that are left to it, and no step of the main thread, of another
\* thread, of a child or of the watchdog gives a running thread more to do.
THEOREM VisitsRunDown ==
  Spec => [](\A b \in Browsers : Rank(b) \in Nat) /\ [][RankFalls]_vars
<1>1. IInv /\ AllExpected => \A b \in Browsers : Rank(b) \in Nat
  BY RankType DEF IInv, AllExpected, Expected
<1>2. (IInv /\ AllExpected)' => (\A b \in Browsers : Rank(b) \in Nat)'
  BY <1>1, PTL
<1>3. ASSUME IInv, AllExpected, (IInv /\ AllExpected)', Next
      PROVE  RankFalls
  <2>1. SUFFICES ASSUME NEW b \in Browsers
                 PROVE  /\ ThreadStep(b) \/ BrowserStep(b) => Rank(b)' < Rank(b)
                        /\ pc[b] # "idle" => Rank(b)' <= Rank(b)
    BY DEF RankFalls
  <2>2. TypeOK /\ Counted(b) /\ Rank(b) \in Nat
    BY <1>1, <1>3 DEF IInv, AllExpected, Expected
  <2>3. ThreadStep(b) \/ BrowserStep(b) => Rank(b)' < Rank(b)
    BY <2>2, ThreadFalls
  <2>4. ASSUME pc[b] # "idle"
        PROVE  Rank(b)' = Rank(b) \/ Rank(b)' < Rank(b)
    <3>1. ASSUME MainStep \/ BrowserStep(Main) \/ UserStep
          PROVE  Rank(b)' = Rank(b)
      BY <1>3, <2>2, <2>4, <3>1, MainAlone, Apart, RankKept
    <3>2. ASSUME NEW c \in Browsers, c # b, ThreadStep(c) \/ BrowserStep(c)
          PROVE  Rank(b)' = Rank(b)
      BY <2>2, <3>2, ThreadAlone, ActorSet, RankKept
    <3>3. ASSUME NEW c \in Browsers, ChildStep(c) \/ Watchdog(c)
          PROVE  Rank(b)' = Rank(b)
      BY <3>3, ChildAlone, RankKept
    <3>4. ASSUME UNCHANGED vars
          PROVE  Rank(b)' = Rank(b)
      BY <3>4, RankKept DEF vars, control
    <3>5. QED
      BY <1>3, <2>3, <3>1, <3>2, <3>3, <3>4, ActorSet DEF Next
  <2>5. Rank(b)' \in Nat
    BY <1>2, <1>3
  <2>6. QED
    BY <2>2, <2>3, <2>4, <2>5
<1>4. QED
  BY <1>1, <1>3, ExpectedAlways, PTL DEF Spec

\* The shutdown runs down: each step of the main thread lowers the number of
\* the steps that are left to it, and nobody else gives it more to do.
THEOREM ShutdownRunsDown ==
  Spec => [](closing => MainRank \in Nat) /\ [][MainRankFalls]_vars
<1>1. IInv => (closing => MainRank \in Nat)
  BY MainRankType
<1>2. IInv' => (closing => MainRank \in Nat)'
  BY <1>1, PTL
<1>3. ASSUME IInv, IInv', Next, closing
      PROVE  /\ MainStep \/ BrowserStep(Main) => MainRank' < MainRank
             /\ MainRank' <= MainRank
  <2>1. TypeOK /\ MainRank \in Nat
    BY <1>1, <1>3 DEF IInv
  <2>2. MainStep \/ BrowserStep(Main) => MainRank' < MainRank
    BY <1>3, ShutdownFalls
  <2>3. ASSUME UNCHANGED <<pc[Main], mainBrowser>>
        PROVE  MainRank' = MainRank
    BY <2>3 DEF MainRank
  <2>4. ASSUME NEW b \in Browsers, ThreadStep(b) \/ BrowserStep(b)
        PROVE  MainRank' = MainRank
    BY <2>1, <2>3, <2>4, ThreadAlone, ActorSet
  <2>5. ~UserStep
    BY <1>3, ShutdownPhases DEF UserStep, Execute, FailOnExecute, Close, Finished
  <2>6. ASSUME NEW b \in Browsers, ChildStep(b) \/ Watchdog(b)
        PROVE  MainRank' = MainRank
    BY <2>3, <2>6, ChildAlone
  <2>7. ASSUME UNCHANGED vars
        PROVE  MainRank' = MainRank
    BY <2>3, <2>7 DEF vars, control
  <2>8. closing'
    BY <1>3, <2>1, ClosingForGood
  <2>9. MainRank' \in Nat
    BY <1>2, <1>3, <2>8
  <2>10. MainRank' < MainRank \/ MainRank' = MainRank
    BY <1>3, <2>2, <2>4, <2>5, <2>6, <2>7, ActorSet DEF Next
  <2>11. QED
    BY <2>1, <2>2, <2>9, <2>10
<1>4. IInv /\ IInv' /\ Next => MainRankFalls
  BY <1>3 DEF MainRankFalls
<1>5. QED
  BY <1>1, <1>4, Safety, PTL DEF Spec
===============================================================================
