----------------------- MODULE LocalAggregator_proofs -----------------------
(***************************************************************************)
(* Proofs about the local data aggregator, for any tables, limits and      *)
(* batch sizes, and any number of crawls on the database.                  *)
(***************************************************************************)
EXTENDS LocalAggregator, TLAPS

------------------------------------------------------------------------------
(* The inductive invariant.                                                 *)

\* What waits, or is not yet committed, was sent in this crawl.
Current ==
  /\ \A r \in coming \cup open : r \in issued /\ r.run = run
  /\ \A i \in DOMAIN queue : queue[i] \in issued /\ queue[i].run = run
  /\ db \subseteq issued

\* The ids of this crawl come after those in the database, and the next one
\* after all of them.
Ids ==
  /\ \A r \in issued : r.run <= run /\ (r.run = run => r.visit <= currentVisitId)
  /\ \A s \in db : s.table = SiteVisits => s.visit <= currentVisitId
  /\ \A s \in db : \A r \in issued :
       s.table = SiteVisits /\ s.run # run /\ r.run = run => s.visit < r.visit

\* r was sent before s in the same crawl, on the same connection.
Before(r, s) == r.run = s.run /\ After(s, r)

Landed == db \cup open \cup rejected

\* The open transaction and the queue keep the order in which visits were sent.
OpenInOrder == \A s \in open : \A r \in issued : Before(r, s) => r \in Landed

Ahead(r, i) == r \in Landed \/ \E j \in 1..(i - 1) : queue[j] = r

QueueInOrder ==
  lpc \notin Gone =>
    \A i \in DOMAIN queue : \A r \in issued :
      Before(r, queue[i]) => Ahead(r, i)

\* Nothing that was sent in this crawl is lost while its listener lives.
Kept(r) == r \in Landed \/ (r.table = Content /\ r.visit \in ldb \cup batch)

Tracked ==
  lpc \notin {"dead", "killed"} =>
    \A r \in issued : r.run = run => r \in coming \/ Queued(r) \/ Kept(r)

\* Memory is empty after the last commit and the last write.
Emptied ==
  /\ lpc \in {"flush", "exited"} => open = {}
  /\ lpc = "exited" => batch = {}

IInv ==
  /\ TypeOK /\ Counted /\ Current /\ Ids
  /\ NoGaps /\ OpenInOrder /\ QueueInOrder /\ Tracked /\ Emptied

------------------------------------------------------------------------------
(* The queue.                                                               *)

\* A record that is taken was the first of the queue.
LEMMA Taken ==
  ASSUME TypeOK, Get
  PROVE  /\ Head(queue) \in Records
         /\ 1 \in DOMAIN queue /\ queue[1] = Head(queue)
         /\ queue' \in Seq(Records)
         /\ \A i \in DOMAIN queue' : i \in Nat \ {0} /\ i + 1 \in DOMAIN queue /\ queue'[i] = queue[i + 1]
         /\ \A i \in DOMAIN queue : i = 1 \/ (i - 1 \in DOMAIN queue' /\ queue'[i - 1] = queue[i])
         /\ \A r : Queued(r) => r = Head(queue) \/ Queued(r)'
<1>1. queue \in Seq(Records) /\ queue # <<>> /\ queue' = Tail(queue)
  BY DEF TypeOK, Get
<1>2. /\ Len(queue) \in Nat /\ Len(queue) > 0
      /\ \A i \in 1..(Len(queue) - 1) : queue'[i] = queue[i + 1]
      /\ Head(queue) = queue[1]
      /\ DOMAIN queue = 1..Len(queue) /\ DOMAIN queue' = 1..(Len(queue) - 1)
      /\ queue' \in Seq(Records)
  BY <1>1
<1>3. 1 \in DOMAIN queue /\ Head(queue) \in Records
  BY <1>1, <1>2
<1>4. \A i \in DOMAIN queue' : i \in Nat \ {0} /\ i + 1 \in DOMAIN queue /\ queue'[i] = queue[i + 1]
  BY <1>2
<1>5. \A i \in DOMAIN queue : i = 1 \/ (i - 1 \in DOMAIN queue' /\ queue'[i - 1] = queue[i])
  BY <1>2
<1>6. ASSUME NEW r, Queued(r) PROVE r = Head(queue) \/ Queued(r)'
  <2>1. PICK i \in DOMAIN queue : queue[i] = r
    BY <1>6 DEF Queued
  <2> QED
    BY <1>2, <1>5, <2>1 DEF Queued
<1> QED
  BY <1>2, <1>3, <1>4, <1>5, <1>6

\* A record that is put goes to the end of the queue.
LEMMA Put ==
  ASSUME TypeOK, NEW r \in Records, queue' = Append(queue, r)
  PROVE  /\ queue' \in Seq(Records)
         /\ \A i \in DOMAIN queue : i \in DOMAIN queue' /\ queue'[i] = queue[i]
         /\ \A i \in DOMAIN queue' :
              i \in Nat \ {0} /\ (i \in DOMAIN queue \/ (queue'[i] = r /\ i = Len(queue) + 1))
         /\ DOMAIN queue = 1..Len(queue) /\ Len(queue) \in Nat
         /\ Queued(r)'
         /\ \A s : Queued(s) => Queued(s)'
<1>1. queue \in Seq(Records)
  BY DEF TypeOK
<1>2. /\ Len(queue) \in Nat
      /\ \A i \in 1..Len(queue) : queue'[i] = queue[i]
      /\ queue'[Len(queue) + 1] = r
      /\ DOMAIN queue = 1..Len(queue) /\ DOMAIN queue' = 1..(Len(queue) + 1)
      /\ queue' \in Seq(Records)
  BY <1>1
<1> QED
  BY <1>2 DEF Queued

------------------------------------------------------------------------------
(* Types and counters.                                                      *)

LEMMA TypeStep == TypeOK /\ [Next]_vars => TypeOK'
<1> SUFFICES ASSUME TypeOK, [Next]_vars PROVE TypeOK'
  OBVIOUS
<1> USE BoundsAssumption, LimitAssumption DEF TypeOK, Gone
<1>1. CASE Start
  <2>1. statusQueue' \in Seq(Nat) /\ queue' \in Seq(Records)
    BY <1>1 DEF Start
  <2>2. run' \in 1..MaxRuns /\ currentVisitId' \in 0..MaxVisits
    BY <1>1 DEF Start
  <2>3. /\ mpc' = "idle" /\ lpc' = "loop" /\ lastStatus' = NoStatus /\ signalled' \in BOOLEAN
        /\ coming' \subseteq Records /\ open' \subseteq Records /\ batch' \subseteq 1..MaxVisits
        /\ sqlCounter' \in Nat /\ ldbCounter' \in Nat
        /\ db' = db /\ ldb' = ldb /\ issued' = issued /\ rejected' = rejected
    BY <1>1 DEF Start, disk, history
  <2> QED
    BY <2>1, <2>2, <2>3
<1>2. ASSUME NEW s \in Nat, Decide(s)
      PROVE  lastStatus' \in Nat \cup {NoStatus} /\ mpc' \in {"await", "submit"}
  BY <1>2 DEF Decide
<1>3. CASE Poll
  <2>1. CASE lastStatus = NoStatus
    BY <1>3, <2>1 DEF Poll, disk, feed, memory, history
  <2>2. CASE lastStatus # NoStatus
    <3>1. (IF statusQueue = <<>> THEN lastStatus ELSE statusQueue[Len(statusQueue)]) \in Nat
      BY <2>2
    <3>2. Decide(IF statusQueue = <<>> THEN lastStatus ELSE statusQueue[Len(statusQueue)])
      BY <1>3, <2>2 DEF Poll
    <3>3. lastStatus' \in Nat \cup {NoStatus} /\ mpc' \in {"await", "submit"}
      BY <1>2, <3>1, <3>2
    <3> QED
      BY <1>3, <2>2, <3>3 DEF Poll, disk, feed, memory, history
  <2> QED
    BY <2>1, <2>2
<1>4. CASE Await
  <2>1. Head(statusQueue) \in Nat /\ Tail(statusQueue) \in Seq(Nat)
    BY <1>4 DEF Await
  <2>2. Decide(Head(statusQueue))
    BY <1>4 DEF Await
  <2>3. lastStatus' \in Nat \cup {NoStatus} /\ mpc' \in {"await", "submit"}
    BY <1>2, <2>1, <2>2
  <2> QED
    BY <1>4, <2>1, <2>3 DEF Await, disk, feed, memory, history
<1>5. CASE AwaitTimeout
  BY <1>5 DEF AwaitTimeout, disk, feed, memory, history
<1>6. CASE Submit
  <2>1. currentVisitId + 1 \in 1..MaxVisits /\ run \in 1..MaxRuns
    BY <1>6 DEF Submit
  <2>2. {[run |-> run, visit |-> currentVisitId + 1, table |-> t] : t \in Tables} \subseteq Records
    BY <2>1 DEF Records
  <2> QED
    BY <1>6, <2>1, <2>2 DEF Submit, disk, memory
<1>7. CASE Close \/ Joined \/ JoinTimeout \/ Crash
  BY <1>7 DEF Close, Joined, JoinTimeout, Crash, RollBack, disk, feed, memory, history
<1>8. ASSUME NEW r \in Records, Enqueue(r) PROVE TypeOK'
  <2>1. queue' \in Seq(Records)
    BY <1>8, Put DEF Enqueue
  <2> QED
    BY <1>8, <2>1 DEF Enqueue, disk, manager, memory, history
<1>9. CASE SendStatus
  <2>1. Len(queue) \in Nat
    OBVIOUS
  <2>2. statusQueue' \in Seq(Nat)
    BY <1>9, <2>1 DEF SendStatus
  <2> QED
    BY <1>9, <2>2 DEF SendStatus, disk, manager, feed, memory, history
<1>10. CASE SkipStatus \/ ShouldShutdown \/ Sleep \/ NoCommit \/ NoWrite
  BY <1>10 DEF SkipStatus, ShouldShutdown, Sleep, NoCommit, NoWrite, disk, manager, feed, memory,
               history
<1>18. CASE Commit
  BY <1>18 DEF Commit, manager, feed, history
<1>19. CASE Write
  BY <1>19 DEF Write, manager, feed, history
<1>11. ASSUME Get
       PROVE  /\ queue' \in Seq(Records) /\ Head(queue) \in Records
              /\ lpc' \in {"commit", "drain"}
              /\ UNCHANGED <<manager, statusQueue, coming, issued>>
  BY <1>11, Taken DEF Get
<1>12. CASE Insert
  BY <1>11, <1>12 DEF Insert, disk, manager
<1>13. CASE Reject
  BY <1>11, <1>13 DEF Reject, disk, manager, memory
<1>14. CASE Create
  BY <1>11, <1>14 DEF Create, manager
<1>15. CASE KeepContent
  <2>1. Head(queue).visit \in 1..MaxVisits
    BY <1>11, <1>15 DEF KeepContent, Records
  <2>2. \/ batch' = batch /\ ldbCounter' = ldbCounter
        \/ batch' = batch \cup {Head(queue).visit} /\ ldbCounter' = ldbCounter + 1
    BY <1>15 DEF KeepContent
  <2>3. batch' \subseteq 1..MaxVisits /\ ldbCounter' \in Nat
    <3>1. CASE batch' = batch /\ ldbCounter' = ldbCounter
      BY <3>1
    <3>2. CASE batch' = batch \cup {Head(queue).visit} /\ ldbCounter' = ldbCounter + 1
      <4>1. {Head(queue).visit} \subseteq 1..MaxVisits
        BY <2>1
      <4>2. ldbCounter' \in Nat
        BY <3>2
      <4> HIDE DEF TypeOK
      <4>3. batch \subseteq 1..MaxVisits
        BY DEF TypeOK
      <4>4. batch' \subseteq 1..MaxVisits
        BY <3>2, <4>1, <4>3
      <4> QED
        BY <4>2, <4>4
    <3> QED
      BY <2>2, <3>1, <3>2
  <2>4. Get /\ UNCHANGED <<disk, open, sqlCounter, rejected>>
    BY <1>15 DEF KeepContent
  <2> QED
    BY <1>11, <2>3, <2>4 DEF disk, manager
<1>16. CASE LastCommit \/ LastWrite \/ Die
  BY <1>16 DEF LastCommit, LastWrite, Die, RollBack, disk, manager, feed, memory, history
<1>17. CASE UNCHANGED vars
  BY <1>17 DEF vars, disk, manager, feed, memory, history
<1> QED
  BY <1>1, <1>3, <1>4, <1>5, <1>6, <1>7, <1>8, <1>9, <1>10, <1>12, <1>13, <1>14, <1>15, <1>16, <1>17, <1>18,
     <1>19 DEF Next, User, Manager, Listener

------------------------------------------------------------------------------
(* The steps, as far as records are concerned.                              *)

\* No record moves.
Still ==
  /\ UNCHANGED <<disk, run, currentVisitId, feed, memory, history>>
  /\ \/ lpc' = lpc
     \/ lpc \notin {"drain", "flush"} \cup Gone /\ lpc' \notin {"flush"} \cup Gone

\* What is in the listener's memory is lost.
Killed ==
  /\ UNCHANGED <<disk, run, currentVisitId, feed, history>>
  /\ lpc' \in {"dead", "killed"} /\ open' = {} /\ batch' = {}

LEMMA Steps ==
  ASSUME [Next]_vars
  PROVE  \/ Still \/ Killed \/ Start \/ Submit
         \/ \E r \in Records : Enqueue(r)
         \/ Insert \/ Reject \/ Create \/ KeepContent
         \/ Commit \/ Write \/ LastCommit \/ LastWrite
<1>1. CASE SendStatus \/ SkipStatus \/ ShouldShutdown \/ Sleep \/ NoCommit \/ NoWrite
  <2>1. Still
    BY <1>1 DEF SendStatus, SkipStatus, ShouldShutdown, Sleep, NoCommit, NoWrite, manager, Still, Gone
  <2> QED
    BY <2>1
<1>2. CASE Poll \/ Await \/ AwaitTimeout \/ Close \/ Joined \/ JoinTimeout
  <2>1. Still
    BY <1>2 DEF Poll, Await, AwaitTimeout, Close, Joined, JoinTimeout, Still
  <2> QED
    BY <2>1
<1>3. CASE UNCHANGED vars
  <2>1. Still
    BY <1>3 DEF vars, manager, Still
  <2> QED
    BY <2>1
<1>4. CASE Crash \/ Die
  <2>1. Killed
    BY <1>4 DEF Crash, Die, RollBack, manager, Killed
  <2> QED
    BY <2>1
<1> QED
  BY <1>1, <1>2, <1>3, <1>4 DEF Next, User, Manager, Listener

LEMMA CountedStep == TypeOK /\ Counted /\ [Next]_vars => Counted'
<1> SUFFICES ASSUME TypeOK, Counted, [Next]_vars PROVE Counted'
  OBVIOUS
<1> USE DEF Counted, Gone
<1>1. sqlCounter \in Nat /\ ldbCounter \in Nat
  BY DEF TypeOK
<1>2. CASE Still
  BY <1>2 DEF Still, memory
<1>3. CASE Killed \/ Start
  BY <1>3 DEF Killed, Start
<1>4. CASE Submit
  BY <1>4 DEF Submit, memory
<1>5. CASE \E r \in Records : Enqueue(r)
  BY <1>5 DEF Enqueue, memory
<1>6. CASE Insert
  BY <1>1, <1>6 DEF Insert, Get
<1>7. CASE Reject
  BY <1>7 DEF Reject, Get, memory
<1>8. CASE Create
  BY <1>8 DEF Create, Get
<1>9. CASE KeepContent
  BY <1>1, <1>9 DEF KeepContent, Get
<1>10. CASE Commit \/ Write \/ LastCommit \/ LastWrite
  BY <1>10 DEF Commit, Write, LastCommit, LastWrite
<1> QED
  BY <1>2, <1>3, <1>4, <1>5, <1>6, <1>7, <1>8, <1>9, <1>10, Steps

LEMMA EmptiedStep == Emptied /\ [Next]_vars => Emptied'
<1> SUFFICES ASSUME Emptied, [Next]_vars PROVE Emptied'
  OBVIOUS
<1> USE DEF Emptied, Gone
<1>1. CASE Still
  BY <1>1 DEF Still, memory
<1>2. CASE Killed \/ Start
  BY <1>2 DEF Killed, Start
<1>3. CASE Submit
  BY <1>3 DEF Submit, memory
<1>4. CASE \E r \in Records : Enqueue(r)
  BY <1>4 DEF Enqueue, memory
<1>5. CASE Insert \/ Reject \/ Create \/ KeepContent
  BY <1>5 DEF Insert, Reject, Create, KeepContent, Get
<1>6. CASE Commit \/ Write \/ LastCommit \/ LastWrite
  BY <1>6 DEF Commit, Write, LastCommit, LastWrite
<1> QED
  BY <1>1, <1>2, <1>3, <1>4, <1>5, <1>6, Steps

\* What a listener does to the record it takes: nothing else changes place.
LEMMA TakenSteps ==
  ASSUME TypeOK, Insert \/ Reject \/ Create \/ KeepContent
  PROVE  /\ Get /\ UNCHANGED <<ldb, run, currentVisitId, coming, issued>>
         /\ lpc \notin Gone /\ lpc' \notin Gone
         /\ db' \cup open' \subseteq db \cup open \cup {Head(queue)}
         /\ open' \subseteq open \cup {Head(queue)}
         /\ Landed \subseteq Landed'
         /\ Head(queue).table # Content => Head(queue) \in Landed'
         /\ Head(queue).table = Content => db' = db /\ open' = open
         /\ Head(queue).table = Content => Head(queue).visit \in ldb' \cup batch'
         /\ batch \subseteq batch'
<1>1. Get /\ UNCHANGED <<ldb, run, currentVisitId, coming, issued>>
  BY DEF Insert, Reject, Create, KeepContent, Get, disk, manager
<1>2. lpc \notin Gone /\ lpc' \notin Gone
  BY <1>1 DEF Get, Gone
<1> USE DEF Landed
<1>3. CASE Insert
  BY <1>1, <1>2, <1>3 DEF Insert, disk
<1>4. CASE Reject
  BY <1>1, <1>2, <1>4 DEF Reject, disk, memory
<1>5. CASE Create
  BY <1>1, <1>2, <1>5 DEF Create, CreateTable, Content
<1>6. CASE KeepContent
  BY <1>1, <1>2, <1>6 DEF KeepContent, disk
<1> QED
  BY <1>3, <1>4, <1>5, <1>6

LEMMA CurrentStep == TypeOK /\ Current /\ Ids /\ [Next]_vars => Current'
<1> SUFFICES ASSUME TypeOK, Current, Ids, [Next]_vars PROVE Current'
  OBVIOUS
<1> USE DEF Current
<1>1. CASE Still
  BY <1>1 DEF Still, disk, feed, memory, history
<1>2. CASE Killed
  BY <1>2 DEF Killed, disk, feed, history
<1>3. CASE Start
  BY <1>3 DEF Start, disk, history
<1>4. CASE Submit
  <2> DEFINE sent == {[run |-> run, visit |-> currentVisitId + 1, table |-> t] : t \in Tables}
  <2>1. \A r \in sent : r.run = run
    OBVIOUS
  <2>2. coming' = coming \cup sent /\ issued' = issued \cup sent
        /\ UNCHANGED <<db, run, queue, open>>
    BY <1>4 DEF Submit, disk, memory
  <2> HIDE DEF sent
  <2> QED
    BY <2>1, <2>2
<1>5. ASSUME NEW r \in Records, Enqueue(r) PROVE Current'
  <2>1. /\ coming' = coming \ {r} /\ r \in coming /\ queue' = Append(queue, r)
        /\ UNCHANGED <<db, run, open, issued>>
    BY <1>5 DEF Enqueue, disk, manager, memory, history
  <2>2. \A i \in DOMAIN queue' : i \in DOMAIN queue \/ queue'[i] = r
    BY <2>1, Put
  <2>3. \A i \in DOMAIN queue : queue'[i] = queue[i]
    BY <2>1, Put
  <2>4. r \in issued /\ r.run = run
    BY <2>1
  <2> QED
    BY <2>1, <2>2, <2>3, <2>4
<1>6. CASE Insert \/ Reject \/ Create \/ KeepContent
  <2>1. /\ UNCHANGED <<run, coming, issued>>
        /\ db' \cup open' \subseteq db \cup open \cup {Head(queue)}
    BY <1>6, TakenSteps
  <2>2. Head(queue) \in issued /\ Head(queue).run = run
    BY <1>6, Taken, TakenSteps
  <2>3. \A i \in DOMAIN queue' : i + 1 \in DOMAIN queue /\ queue'[i] = queue[i + 1]
    BY <1>6, Taken, TakenSteps
  <2>4. \A r \in coming' \cup open' : r \in issued' /\ r.run = run'
    BY <1>6, <2>1, <2>2, TakenSteps
  <2>5. \A i \in DOMAIN queue' : queue'[i] \in issued' /\ queue'[i].run = run'
    BY <2>1, <2>3
  <2>6. db' \subseteq issued'
    BY <2>1, <2>2
  <2> QED
    BY <2>4, <2>5, <2>6
<1>7. CASE Commit \/ Write \/ LastCommit \/ LastWrite
  BY <1>7 DEF Commit, Write, LastCommit, LastWrite, manager, feed, history
<1> QED
  BY <1>1, <1>2, <1>3, <1>4, <1>5, <1>6, <1>7, Steps

------------------------------------------------------------------------------
(* Ids.                                                                     *)

\* A visit that is submitted has the next id, and none of its records was sent
\* before.
LEMMA Submitted ==
  ASSUME TypeOK, Submit
  PROVE  \E sent \in SUBSET Records :
           /\ coming' = coming \cup sent /\ issued' = issued \cup sent
           /\ \A r \in sent : r.run = run /\ r.visit = currentVisitId + 1
           /\ currentVisitId' = currentVisitId + 1 /\ currentVisitId \in Nat
           /\ UNCHANGED <<db, ldb, run, lpc, queue, open, batch, rejected>>
<1> DEFINE sent == {[run |-> run, visit |-> currentVisitId + 1, table |-> t] : t \in Tables}
<1>1. \A r \in sent : r.run = run /\ r.visit = currentVisitId + 1
  OBVIOUS
<1>2. currentVisitId \in 0..MaxVisits /\ currentVisitId + 1 \in 1..MaxVisits /\ run \in 1..MaxRuns
  BY BoundsAssumption DEF TypeOK, Submit
<1>3. sent \in SUBSET Records
  BY <1>2 DEF Records
<1>4. /\ coming' = coming \cup sent /\ issued' = issued \cup sent
      /\ currentVisitId' = currentVisitId + 1
      /\ UNCHANGED <<db, ldb, run, lpc, queue, open, batch, rejected>>
  BY DEF Submit, disk, memory
<1> HIDE DEF sent
<1> QED
  BY <1>1, <1>2, <1>3, <1>4, BoundsAssumption

LEMMA IdsStep == TypeOK /\ Current /\ Ids /\ [Next]_vars => Ids'
<1> SUFFICES ASSUME TypeOK, Current, Ids, [Next]_vars PROVE Ids'
  OBVIOUS
<1> USE DEF Ids
<1>1. \A r \in issued : r.run \in Nat /\ r.visit \in Nat
  BY BoundsAssumption DEF TypeOK, Records
<1>2. /\ db \subseteq issued /\ open \subseteq issued /\ run \in Nat
      /\ \A r \in open : r.run = run
  BY BoundsAssumption DEF TypeOK, Current
<1>3. CASE UNCHANGED <<db, run, currentVisitId, issued>>
  BY <1>3
<1>4. ASSUME UNCHANGED <<run, currentVisitId, issued>>,
             \A s \in db' : s \in db \/ (s \in issued /\ s.run = run)
      PROVE  Ids'
  BY <1>1, <1>4
<1>5. CASE Start
  <2>1. /\ run' = run + 1 /\ db' = db /\ issued' = issued
        /\ LastUsed(currentVisitId', db)
    BY <1>5 DEF Start, disk, history
  <2>2. PICK i : currentVisitId' = i
    OBVIOUS
  <2>3. LastUsed(i, db)
    BY <2>1, <2>2
  <2>4. \A s \in db : s.table = SiteVisits => s.visit <= i
    BY <2>3 DEF LastUsed
  <2>5. \A r \in issued : r.run # run'
    BY <1>1, <1>2, <2>1
  <2>6. \A r \in issued : r.run <= run'
    BY <1>1, <1>2, <2>1
  <2> QED
    BY <2>1, <2>2, <2>4, <2>5, <2>6
<1>6. CASE Submit
  <2>1. PICK sent \in SUBSET Records :
           /\ issued' = issued \cup sent
           /\ \A r \in sent : r.run = run /\ r.visit = currentVisitId + 1
           /\ currentVisitId' = currentVisitId + 1 /\ currentVisitId \in Nat
           /\ UNCHANGED <<db, run>>
    BY <1>6, Submitted
  <2>2. \A r \in issued' : r.run <= run' /\ (r.run = run' => r.visit <= currentVisitId')
    BY <1>1, <1>2, <2>1
  <2>3. \A s \in db' : s.table = SiteVisits => s.visit <= currentVisitId'
    BY <1>1, <1>2, <2>1
  <2>4. \A s \in db' : \A r \in issued' :
          s.table = SiteVisits /\ s.run # run' /\ r.run = run' => s.visit < r.visit
    BY <1>1, <1>2, <2>1
  <2> QED
    BY <2>2, <2>3, <2>4
<1>7. CASE Still \/ Killed
  BY <1>3, <1>7 DEF Still, Killed, disk, history
<1>8. CASE \E r \in Records : Enqueue(r)
  BY <1>3, <1>8 DEF Enqueue, disk, manager, history
<1>9. CASE Insert \/ Reject \/ Create \/ KeepContent
  <2>1. UNCHANGED <<run, currentVisitId, issued>> /\ db' \subseteq db \cup open \cup {Head(queue)}
    BY <1>9, TakenSteps
  <2>2. Head(queue) \in issued /\ Head(queue).run = run
    BY <1>9, Taken, TakenSteps DEF Current
  <2> QED
    BY <1>2, <1>4, <2>1, <2>2
<1>10. CASE Commit \/ LastCommit
  BY <1>2, <1>4, <1>10 DEF Commit, LastCommit, manager, history
<1>11. CASE Write \/ LastWrite
  BY <1>3, <1>11 DEF Write, LastWrite, manager, history
<1> QED
  BY <1>5, <1>6, <1>7, <1>8, <1>9, <1>10, <1>11, Steps

------------------------------------------------------------------------------
(* Order.                                                                   *)

LEMMA BeforeParts ==
  ASSUME NEW r, NEW s, Before(r, s)
  PROVE  /\ r.run = s.run /\ r.table = SiteVisits /\ s.table = SiteVisits
         /\ r.visit < s.visit /\ r.table # Content /\ s.table # Content
BY DEF Before, After, SiteVisits, Content

Ordered == NoGaps /\ OpenInOrder /\ QueueInOrder

\* The order in which rows reach the database, with sets for what moves.
LEMMA NoGapsBefore == NoGaps <=> \A s \in db : \A r \in issued : Before(r, s) => r \in db \cup rejected
BY DEF NoGaps, Before

LEMMA OrderedStep == TypeOK /\ Current /\ Ids /\ Tracked /\ Ordered /\ [Next]_vars => Ordered'
<1> SUFFICES ASSUME TypeOK, Current, Ids, Tracked, Ordered, [Next]_vars PROVE Ordered'
  OBVIOUS
<1>1. /\ \A s \in db : \A r \in issued : Before(r, s) => r \in db \cup rejected
      /\ \A s \in open : \A r \in issued : Before(r, s) => r \in Landed
  BY NoGapsBefore DEF Ordered, OpenInOrder
<1>2. lpc \notin Gone =>
        \A i \in DOMAIN queue : \A r \in issued :
          Before(r, queue[i]) => Ahead(r, i)
  BY DEF Ordered, QueueInOrder
<1>3. SUFFICES
        /\ \A s \in db' : \A r \in issued' : Before(r, s) => r \in db' \cup rejected'
        /\ \A s \in open' : \A r \in issued' : Before(r, s) => r \in db' \cup open' \cup rejected'
        /\ lpc' \notin Gone =>
             \A i \in DOMAIN queue' : \A r \in issued' :
               Before(r, queue'[i]) =>
                 r \in db' \cup open' \cup rejected' \/ \E j \in 1..(i - 1) : queue'[j] = r
  BY DEF Ordered, NoGaps, OpenInOrder, QueueInOrder, Before, Landed, Ahead
<1>4. CASE Still
  BY <1>1, <1>2, <1>4 DEF Still, disk, feed, memory, history, Landed, Ahead
<1>5. CASE Killed
  BY <1>1, <1>5 DEF Killed, disk, history, Gone
<1>6. CASE Start
  BY <1>1, <1>6 DEF Start, disk, history
<1>7. CASE Submit
  <2>1. PICK sent \in SUBSET Records :
           /\ issued' = issued \cup sent
           /\ \A r \in sent : r.run = run /\ r.visit = currentVisitId + 1
           /\ currentVisitId \in Nat
           /\ UNCHANGED <<db, lpc, queue, open, rejected>>
    BY <1>7, Submitted
  <2>2. \A s \in issued, r \in sent : ~Before(r, s)
    <3>1. \A s \in issued : s.visit \in Nat
      BY DEF TypeOK, Records
    <3> QED
      BY <2>1, <3>1, BeforeParts DEF Ids
  <2>3. db \subseteq issued /\ open \subseteq issued /\ \A i \in DOMAIN queue : queue[i] \in issued
    BY DEF Current
  <2> QED
    BY <1>1, <1>2, <2>1, <2>2, <2>3 DEF Landed, Ahead
<1>8. CASE \E q \in Records : Enqueue(q)
  <2>0. PICK q \in Records : Enqueue(q)
    BY <1>8
  <2>1. /\ UNCHANGED <<db, open, issued, rejected, lpc>>
        /\ lpc \notin Gone /\ queue' = Append(queue, q) /\ q \in coming
        /\ ~ \E s \in coming : After(q, s)
    BY <2>0 DEF Enqueue, disk, memory, history
  <2>2. ASSUME NEW r \in issued, Before(r, q)
        PROVE  r \in Landed \/ Queued(r)
    <3>1. r.run = run /\ r \notin coming
      BY <2>1, <2>2 DEF Before, Current
    <3>2. r.table # Content
      BY <2>2, BeforeParts
    <3> QED
      BY <2>1, <2>2, <3>1, <3>2 DEF Tracked, Kept, Gone
  <2>3. ASSUME NEW i \in DOMAIN queue', NEW r \in issued, Before(r, queue'[i])
        PROVE  r \in Landed \/ \E j \in 1..(i - 1) : queue'[j] = r
    <3>1. CASE i \in DOMAIN queue
      <4>1. Before(r, queue[i])
        BY <2>1, <2>3, <3>1, Put
      <4>2. r \in Landed \/ \E j \in 1..(i - 1) : queue[j] = r
        BY <1>2, <2>1, <2>3, <3>1, <4>1 DEF Ahead
      <4>3. \A j \in 1..(i - 1) : queue'[j] = queue[j]
        BY <2>1, <3>1, Put
      <4> QED
        BY <4>2, <4>3
    <3>2. CASE queue'[i] = q /\ i = Len(queue) + 1
      <4>1. r \in Landed \/ Queued(r)
        BY <2>2, <2>3, <3>2
      <4>2. CASE Queued(r)
        <5>1. PICK j \in DOMAIN queue : queue[j] = r
          BY <4>2 DEF Queued
        <5>2. j \in 1..(i - 1) /\ queue'[j] = r
          BY <2>1, <3>2, <5>1, Put
        <5> QED
          BY <5>2
      <4> QED
        BY <4>1, <4>2
    <3> QED
      BY <2>1, <3>1, <3>2, Put
  <2> QED
    BY <1>1, <1>3, <2>1, <2>3 DEF Landed
<1>9. CASE Insert \/ Reject \/ Create \/ KeepContent
  <2>1. /\ lpc \notin Gone /\ issued' = issued
        /\ open' \subseteq open \cup {Head(queue)}
        /\ Landed \subseteq db' \cup open' \cup rejected'
        /\ Head(queue).table # Content => Head(queue) \in db' \cup open' \cup rejected'
        /\ Head(queue).table = Content => db' = db /\ open' = open
    BY <1>9, TakenSteps DEF Landed
  <2>2. 1 \in DOMAIN queue /\ queue[1] = Head(queue)
    BY <1>9, Taken, TakenSteps
  <2>3. \A i \in DOMAIN queue' : i \in Nat \ {0} /\ i + 1 \in DOMAIN queue /\ queue'[i] = queue[i + 1]
    BY <1>9, Taken, TakenSteps
  <2>4. \A i \in DOMAIN queue : i = 1 \/ (i - 1 \in DOMAIN queue' /\ queue'[i - 1] = queue[i])
    BY <1>9, Taken, TakenSteps
  <2>5. ASSUME NEW r \in issued, Before(r, Head(queue))
        PROVE  r \in Landed
    <3>1. Ahead(r, 1)
      BY <1>2, <2>1, <2>2, <2>5 DEF Before
    <3> QED
      BY <3>1 DEF Ahead
  <2>6. ASSUME NEW s \in open', NEW r \in issued, Before(r, s)
        PROVE  r \in db' \cup open' \cup rejected'
    <3>1. CASE s \in open
      BY <1>1, <2>1, <2>6, <3>1
    <3>2. CASE s = Head(queue) /\ Head(queue).table # Content
      BY <2>1, <2>5, <2>6, <3>2
    <3> QED
      BY <2>1, <2>6, <3>1, <3>2
  <2>7. ASSUME NEW s \in db', NEW r \in issued, Before(r, s)
        PROVE  r \in db' \cup rejected'
    <3>1. CASE Create
      <4>1. /\ db' = db \cup open \cup {Head(queue)} /\ rejected' = rejected
            /\ Head(queue).table # Content
        BY <3>1 DEF Create, CreateTable, Content
      <4>2. r \in Landed
        BY <1>1, <2>5, <2>7, <4>1 DEF Landed
      <4> QED
        BY <4>1, <4>2 DEF Landed
    <3>2. CASE Insert \/ Reject \/ KeepContent
      <4>1. db' = db /\ rejected \subseteq rejected'
        BY <3>2 DEF Insert, Reject, KeepContent, disk
      <4> QED
        BY <1>1, <2>7, <4>1
    <3> QED
      BY <1>9, <3>1, <3>2
  <2>8. ASSUME NEW i \in DOMAIN queue', NEW r \in issued, Before(r, queue'[i])
        PROVE  r \in db' \cup open' \cup rejected' \/ \E j \in 1..(i - 1) : queue'[j] = r
    <3>1. Ahead(r, i + 1)
      BY <1>2, <2>1, <2>3, <2>8
    <3>2. CASE r \in Landed
      BY <2>1, <3>2
    <3>3. ASSUME NEW j \in 1..i, queue[j] = r
          PROVE  r \in db' \cup open' \cup rejected' \/ \E k \in 1..(i - 1) : queue'[k] = r
      <4>1. CASE j = 1
        BY <2>1, <2>2, <2>8, <3>3, <4>1, BeforeParts
      <4>2. CASE j # 1
        <5>1. i \in Nat /\ j - 1 \in 1..(i - 1)
          BY <2>3, <4>2
        <5>2. j \in DOMAIN queue
          <6>1. queue \in Seq(Records)
            BY DEF TypeOK
          <6>2. i + 1 \in 1..Len(queue) /\ Len(queue) \in Nat /\ DOMAIN queue = 1..Len(queue)
            BY <2>3, <6>1
          <6> QED
            BY <5>1, <6>2
        <5>3. queue'[j - 1] = r
          BY <2>4, <3>3, <4>2, <5>2
        <5> QED
          BY <5>1, <5>3
      <4> QED
        BY <4>1, <4>2
    <3>4. i \in Nat /\ (i + 1) - 1 = i
      BY <2>3
    <3> QED
      BY <3>1, <3>2, <3>3, <3>4 DEF Ahead
  <2> QED
    BY <1>3, <2>1, <2>6, <2>7, <2>8
<1>10. CASE Commit
  BY <1>1, <1>2, <1>10 DEF Commit, feed, history, Landed, Ahead, Gone
<1>11. CASE LastCommit
  BY <1>1, <1>2, <1>11 DEF LastCommit, feed, history, Landed, Ahead, Gone
<1>12. CASE Write \/ LastWrite
  BY <1>1, <1>2, <1>12 DEF Write, LastWrite, feed, history, Landed, Ahead, Gone
<1> QED
  BY <1>4, <1>5, <1>6, <1>7, <1>8, <1>9, <1>10, <1>11, <1>12, Steps

------------------------------------------------------------------------------
(* Nothing is lost while the listener lives.                                *)

LEMMA TrackedStep == TypeOK /\ Current /\ Ids /\ Tracked /\ [Next]_vars => Tracked'
<1> SUFFICES ASSUME TypeOK, Current, Ids, Tracked, [Next]_vars PROVE Tracked'
  OBVIOUS
<1>1. lpc \notin {"dead", "killed"} =>
        \A r \in issued : r.run = run => r \in coming \/ Queued(r) \/ Kept(r)
  BY DEF Tracked
<1>2. ASSUME lpc' \notin {"dead", "killed"} => lpc \notin {"dead", "killed"},
             UNCHANGED <<run, issued>>,
             \A r \in issued : r \in coming => r \in coming' \/ Queued(r)',
             \A r \in issued : Queued(r) => Queued(r)' \/ Kept(r)',
             \A r \in issued : Kept(r) => Kept(r)'
      PROVE  Tracked'
  BY <1>1, <1>2 DEF Tracked
<1>3. ASSUME queue' = queue PROVE \A r : Queued(r)' <=> Queued(r)
  BY <1>3 DEF Queued
<1>4. ASSUME db \cup open \cup rejected \subseteq db' \cup open' \cup rejected',
             ldb \cup batch \subseteq ldb' \cup batch'
      PROVE  \A r : Kept(r) => Kept(r)'
  BY <1>4 DEF Kept, Landed
<1>5. CASE Still
  BY <1>2, <1>3, <1>4, <1>5 DEF Still, disk, feed, memory, history, Gone
<1>6. CASE Killed
  BY <1>6 DEF Killed, Tracked
<1>7. CASE Start
  <2>1. run' = run + 1 /\ issued' = issued
    BY <1>7 DEF Start, history
  <2>2. \A r \in issued : r.run # run + 1
    BY BoundsAssumption DEF Ids, TypeOK, Records
  <2> QED
    BY <2>1, <2>2 DEF Tracked
<1>8. CASE Submit
  <2>1. PICK sent \in SUBSET Records :
           /\ coming' = coming \cup sent /\ issued' = issued \cup sent
           /\ UNCHANGED <<db, ldb, run, lpc, queue, open, batch, rejected>>
    BY <1>8, Submitted
  <2>2. \A r : Kept(r) => Kept(r)'
    BY <1>4, <2>1
  <2>3. \A r : Queued(r) => Queued(r)'
    BY <1>3, <2>1
  <2> QED
    BY <1>1, <2>1, <2>2, <2>3 DEF Tracked
<1>9. ASSUME NEW q \in Records, Enqueue(q) PROVE Tracked'
  <2>1. /\ UNCHANGED <<db, ldb, run, lpc, open, batch, issued, rejected>>
        /\ coming' = coming \ {q} /\ queue' = Append(queue, q)
    BY <1>9 DEF Enqueue, disk, manager, memory, history
  <2>2. Queued(q)' /\ \A s : Queued(s) => Queued(s)'
    BY <2>1, Put
  <2> QED
    BY <1>2, <1>4, <2>1, <2>2
<1>10. CASE Insert \/ Reject \/ Create \/ KeepContent
  <2>1. /\ UNCHANGED <<ldb, run, coming, issued>>
        /\ lpc \notin {"dead", "killed"}
        /\ db \cup open \cup rejected \subseteq db' \cup open' \cup rejected'
        /\ batch \subseteq batch'
        /\ Head(queue).table # Content => Head(queue) \in db' \cup open' \cup rejected'
        /\ Head(queue).table = Content => Head(queue).visit \in ldb' \cup batch'
    BY <1>10, TakenSteps DEF Landed, Gone
  <2>2. \A s : Queued(s) => s = Head(queue) \/ Queued(s)'
    BY <1>10, Taken, TakenSteps
  <2>3. \A s : Kept(s) => Kept(s)'
    BY <1>4, <2>1
  <2>4. PICK h : h = Head(queue)
    OBVIOUS
  <2>5. Kept(h)'
    BY <2>1, <2>4 DEF Kept, Landed
  <2> QED
    BY <1>2, <2>1, <2>2, <2>3, <2>4, <2>5
<1>11. CASE Commit \/ LastCommit
  BY <1>2, <1>3, <1>4, <1>11 DEF Commit, LastCommit, manager, feed, history
<1>12. CASE Write \/ LastWrite
  BY <1>2, <1>3, <1>4, <1>12 DEF Write, LastWrite, manager, feed, history
<1> QED
  BY <1>5, <1>6, <1>7, <1>8, <1>9, <1>10, <1>11, <1>12, Steps

------------------------------------------------------------------------------
(* The theorems.                                                            *)

LEMMA InvInit == Init => IInv
<1> SUFFICES ASSUME Init PROVE IInv
  OBVIOUS
<1>1. TypeOK
  <2>1. statusQueue \in Seq(Nat) /\ queue \in Seq(Records)
    <3>1. statusQueue = <<>> /\ queue = <<>>
      BY DEF Init
    <3> QED
      BY <3>1
  <2>4. signalled \in BOOLEAN
    BY Zenon DEF Init
  <2>2. run = 0 /\ mpc = "off" /\ currentVisitId = 0 /\ lastStatus = NoStatus /\ lpc = "killed"
        /\ sqlCounter = 0 /\ ldbCounter = 0
    BY DEF Init
  <2>3. /\ db \subseteq Records /\ open \subseteq Records /\ coming \subseteq Records
        /\ issued \subseteq Records /\ rejected \subseteq Records
        /\ ldb \subseteq 1..MaxVisits /\ batch \subseteq 1..MaxVisits
    BY DEF Init
  <2> QED
    BY <2>1, <2>2, <2>3, <2>4, BoundsAssumption DEF TypeOK, Gone
<1>2. DOMAIN queue = {}
  BY DEF Init
<1>3. Counted /\ Current /\ Ids /\ NoGaps /\ OpenInOrder
  BY <1>2 DEF Init, Counted, Current, Ids, NoGaps, OpenInOrder
<1>4. QueueInOrder /\ Tracked /\ Emptied
  BY DEF Init, QueueInOrder, Tracked, Emptied, Gone
<1> QED
  BY <1>1, <1>3, <1>4 DEF IInv

\* The invariant that the theorems below rest on.
THEOREM Safety == Spec => []IInv
<1>1. IInv /\ [Next]_vars => IInv'
  BY TypeStep, CountedStep, CurrentStep, IdsStep, OrderedStep, TrackedStep, EmptiedStep
     DEF IInv, Ordered
<1> QED
  BY InvInit, <1>1, PTL DEF Spec

\* The variables keep their types.
THEOREM TypeCorrect == Spec => []TypeOK
<1>1. IInv => TypeOK
  BY DEF IInv
<1> QED
  BY <1>1, Safety, PTL

\* maybe_commit_records never skips a commit that something waits for.
THEOREM CountedAlways == Spec => []Counted
<1>1. IInv => Counted
  BY DEF IInv
<1> QED
  BY <1>1, Safety, PTL

\* A crash cuts the end of the list of visits, and leaves no gap in it.
THEOREM NoGapsAlways == Spec => []NoGaps
<1>1. IInv => NoGaps
  BY DEF IInv
<1> QED
  BY <1>1, Safety, PTL

\* The visits of a crawl have ids of their own in site_visits.
THEOREM NoCollisionAlways == Spec => []NoCollision
<1>1. ASSUME IInv PROVE NoCollision
  <2> SUFFICES ASSUME NEW r \in issued, r.run = run, r.table = SiteVisits,
                      NEW s \in db, s.table = SiteVisits, s.visit = r.visit
               PROVE  s = r
    BY DEF NoCollision
  <2>1. r \in Records /\ s \in Records
    BY <1>1 DEF IInv, TypeOK
  <2>2. s.run = run
    BY <1>1, <2>1, BoundsAssumption DEF IInv, Ids, Records
  <2> QED
    BY <2>1, <2>2 DEF Records
<1> QED
  BY <1>1, Safety, PTL

\* A listener that shuts down by itself has stored or rejected all it took.
THEOREM ExitKeepsAllAlways == Spec => []ExitKeepsAll
<1>1. ASSUME IInv PROVE ExitKeepsAll
  <2> SUFFICES ASSUME lpc = "exited", NEW r \in issued, r.run = run
               PROVE  r \in coming \/ Queued(r) \/ Stored(r)
    BY DEF ExitKeepsAll
  <2>1. r \in coming \/ Queued(r) \/ Kept(r)
    BY <1>1 DEF IInv, Tracked
  <2>2. open = {} /\ batch = {}
    BY <1>1 DEF IInv, Emptied
  <2> QED
    BY <2>1, <2>2 DEF Kept, Landed, Stored
<1> QED
  BY <1>1, Safety, PTL
=============================================================================
