---------------------------- MODULE RedisWQ_proofs ----------------------------
(***************************************************************************)
(* Proofs about the job queue, for any number of jobs, workers and         *)
(* retries, any set of mortal workers and any timing of leases.            *)
(***************************************************************************)
EXTENDS RedisWQ, TLAPS

\* Every variable keeps its type.
THEOREM TypeCorrect == Spec => []TypeOK
<1> USE JobsAssumption, RetryAssumption DEF redis, local, history, PCs, Holding, Goto, Touch
<1>1. Init => TypeOK
  BY DEF Init, TypeOK
<1>2. ASSUME TypeOK, NEW w \in Workers, Step(w)
      PROVE  TypeOK'
  <2>1. CASE ReadMainSize(w)
    BY <2>1, <1>2 DEF ReadMainSize, TypeOK
  <2>2. CASE ReadProcessingSize(w)
    BY <2>2, <1>2 DEF ReadProcessingSize, TypeOK
  <2>3. CASE Scan(w)
    BY <2>3, <1>2 DEF Scan, TypeOK
  <2>4. CASE CheckLease(w)
    BY <2>4, <1>2 DEF CheckLease, TypeOK
  <2>5. CASE Watch(w)
    BY <2>5, <1>2 DEF Watch, TypeOK
  <2>6. CASE ExecDrop(w)
    BY <2>6, <1>2 DEF ExecDrop, TypeOK
  <2>7. CASE ExecRenew(w)
    BY <2>7, <1>2 DEF ExecRenew, TypeOK
  <2>8. CASE ExecSpoiled(w)
    BY <2>8, <1>2 DEF ExecSpoiled, TypeOK
  <2>9. CASE ScanDone(w)
    BY <2>9, <1>2 DEF ScanDone, TypeOK
  <2>10. CASE Take(w)
    BY <2>10, <1>2 DEF Take, TypeOK
  <2>11. CASE TakeTimeout(w)
    BY <2>11, <1>2 DEF TakeTimeout, TypeOK
  <2>12. CASE Sign(w)
    BY <2>12, <1>2 DEF Sign, TypeOK
  <2>13. CASE Visit(w)
    BY <2>13, <1>2 DEF Visit, TypeOK
  <2>14. CASE CompleteRemove(w)
    BY <2>14, <1>2 DEF CompleteRemove, TypeOK
  <2>15. CASE CompleteForget(w)
    BY <2>15, <1>2 DEF CompleteForget, TypeOK
  <2>16. CASE CompleteUnlease(w)
    BY <2>16, <1>2 DEF CompleteUnlease, TypeOK
  <2>17. QED
    BY <1>2, <2>1, <2>2, <2>3, <2>4, <2>5, <2>6, <2>7, <2>8, <2>9, <2>10, <2>11, <2>12, <2>13, <2>14, <2>15, <2>16 DEF Step
<1>3. ASSUME TypeOK, NEW w \in Workers, Crash(w)
      PROVE  TypeOK'
  BY <1>3 DEF Crash, TypeOK
<1>4. ASSUME TypeOK, NEW j \in Jobs, LeaseExpires(j)
      PROVE  TypeOK'
  BY <1>4 DEF LeaseExpires, TypeOK
<1>5. ASSUME TypeOK, UNCHANGED vars
      PROVE  TypeOK'
  BY <1>5 DEF vars, TypeOK
<1>6. TypeOK /\ [Next]_vars => TypeOK'
  BY <1>2, <1>3, <1>4, <1>5 DEF Next
<1>7. QED
  BY <1>1, <1>6, PTL DEF Spec

------------------------------------------------------------------------------
(* The inductive invariant.  AtMostOneEntry is not inductive by itself: the *)
(* transaction that renews a job adds it to the main queue, and only what   *)
(* WATCH guarantees (WatchHolds) says that the entry it removes from the    *)
(* processing queue is there.  WatchHolds also ties the count that is       *)
(* compared with max_retries to the count that is incremented.              *)

IInv ==
  /\ TypeOK
  /\ AtMostOneEntry
  /\ WatchHolds
  /\ RetriesBounded
  /\ RetriesCounted
  /\ CountExact
  /\ RenewalsBounded
  /\ DroppedAfterRetries
  /\ NoLostJob

\* A spoiled WATCH is noticed, an unspoiled one is still true.
LEMMA WatchHoldsStep ==
  ASSUME TypeOK, WatchHolds, NEW w \in Workers, Step(w)
  PROVE  WatchHolds'
<1> USE RetryAssumption DEF redis, local, history, Goto, Touch, TypeOK, WatchHolds
<1>1. CASE ReadMainSize(w)
  BY <1>1 DEF ReadMainSize
<1>2. CASE ReadProcessingSize(w)
  BY <1>2 DEF ReadProcessingSize
<1>3. CASE Scan(w)
  BY <1>3 DEF Scan
<1>4. CASE CheckLease(w)
  BY <1>4 DEF CheckLease
<1>5. CASE Watch(w)
  BY <1>5 DEF Watch
<1>6. CASE ExecDrop(w)
  BY <1>6 DEF ExecDrop, Unspoiled, Exhausted
<1>7. CASE ExecRenew(w)
  BY <1>7 DEF ExecRenew, Unspoiled, Exhausted
<1>8. CASE ExecSpoiled(w)
  BY <1>8 DEF ExecSpoiled
<1>9. CASE ScanDone(w)
  BY <1>9 DEF ScanDone
<1>10. CASE Take(w)
  BY <1>10 DEF Take
<1>11. CASE TakeTimeout(w)
  BY <1>11 DEF TakeTimeout
<1>12. CASE Sign(w)
  BY <1>12 DEF Sign
<1>13. CASE Visit(w)
  BY <1>13 DEF Visit
<1>14. CASE CompleteRemove(w)
  BY <1>14 DEF CompleteRemove
<1>15. CASE CompleteForget(w)
  BY <1>15 DEF CompleteForget
<1>16. CASE CompleteUnlease(w)
  BY <1>16 DEF CompleteUnlease
<1>17. QED
  BY <1>1, <1>2, <1>3, <1>4, <1>5, <1>6, <1>7, <1>8, <1>9, <1>10, <1>11, <1>12, <1>13, <1>14, <1>15, <1>16 DEF Step

\* No step puts a second entry of a job in the lists.
LEMMA AtMostOneEntryStep ==
  ASSUME TypeOK, WatchHolds, AtMostOneEntry, NEW w \in Workers, Step(w)
  PROVE  AtMostOneEntry'
<1> USE RetryAssumption DEF redis, local, history, Goto, Touch, TypeOK, WatchHolds, AtMostOneEntry
<1>1. CASE ReadMainSize(w)
  BY <1>1 DEF ReadMainSize
<1>2. CASE ReadProcessingSize(w)
  BY <1>2 DEF ReadProcessingSize
<1>3. CASE Scan(w)
  BY <1>3 DEF Scan
<1>4. CASE CheckLease(w)
  BY <1>4 DEF CheckLease
<1>5. CASE Watch(w)
  BY <1>5 DEF Watch
<1>6. CASE ExecDrop(w)
  BY <1>6 DEF ExecDrop, Unspoiled, Exhausted
<1>7. CASE ExecRenew(w)
  BY <1>7 DEF ExecRenew, Unspoiled, Exhausted
<1>8. CASE ExecSpoiled(w)
  BY <1>8 DEF ExecSpoiled
<1>9. CASE ScanDone(w)
  BY <1>9 DEF ScanDone
<1>10. CASE Take(w)
  BY <1>10 DEF Take
<1>11. CASE TakeTimeout(w)
  BY <1>11 DEF TakeTimeout
<1>12. CASE Sign(w)
  BY <1>12 DEF Sign
<1>13. CASE Visit(w)
  BY <1>13 DEF Visit
<1>14. CASE CompleteRemove(w)
  BY <1>14 DEF CompleteRemove
<1>15. CASE CompleteForget(w)
  BY <1>15 DEF CompleteForget
<1>16. CASE CompleteUnlease(w)
  BY <1>16 DEF CompleteUnlease
<1>17. QED
  BY <1>1, <1>2, <1>3, <1>4, <1>5, <1>6, <1>7, <1>8, <1>9, <1>10, <1>11, <1>12, <1>13, <1>14, <1>15, <1>16 DEF Step

\* No step takes a retry count past max_retries.
LEMMA RetriesBoundedStep ==
  ASSUME TypeOK, WatchHolds, RetriesBounded, NEW w \in Workers, Step(w)
  PROVE  RetriesBounded'
<1> USE RetryAssumption DEF redis, local, history, Goto, Touch, TypeOK, WatchHolds, RetriesBounded
<1>1. CASE ReadMainSize(w)
  BY <1>1 DEF ReadMainSize
<1>2. CASE ReadProcessingSize(w)
  BY <1>2 DEF ReadProcessingSize
<1>3. CASE Scan(w)
  BY <1>3 DEF Scan
<1>4. CASE CheckLease(w)
  BY <1>4 DEF CheckLease
<1>5. CASE Watch(w)
  BY <1>5 DEF Watch
<1>6. CASE ExecDrop(w)
  BY <1>6 DEF ExecDrop, Unspoiled, Exhausted
<1>7. CASE ExecRenew(w)
  BY <1>7 DEF ExecRenew, Unspoiled, Exhausted
<1>8. CASE ExecSpoiled(w)
  BY <1>8 DEF ExecSpoiled
<1>9. CASE ScanDone(w)
  BY <1>9 DEF ScanDone
<1>10. CASE Take(w)
  BY <1>10 DEF Take
<1>11. CASE TakeTimeout(w)
  BY <1>11 DEF TakeTimeout
<1>12. CASE Sign(w)
  BY <1>12 DEF Sign
<1>13. CASE Visit(w)
  BY <1>13 DEF Visit
<1>14. CASE CompleteRemove(w)
  BY <1>14 DEF CompleteRemove
<1>15. CASE CompleteForget(w)
  BY <1>15 DEF CompleteForget
<1>16. CASE CompleteUnlease(w)
  BY <1>16 DEF CompleteUnlease
<1>17. QED
  BY <1>1, <1>2, <1>3, <1>4, <1>5, <1>6, <1>7, <1>8, <1>9, <1>10, <1>11, <1>12, <1>13, <1>14, <1>15, <1>16 DEF Step

\* Every increment of a retry count is a renewal.
LEMMA RetriesCountedStep ==
  ASSUME TypeOK, RetriesBounded, RetriesCounted, NEW w \in Workers, Step(w)
  PROVE  RetriesCounted'
<1> USE RetryAssumption DEF redis, local, history, Goto, Touch, TypeOK, RetriesBounded, RetriesCounted
<1>1. CASE ReadMainSize(w)
  BY <1>1 DEF ReadMainSize
<1>2. CASE ReadProcessingSize(w)
  BY <1>2 DEF ReadProcessingSize
<1>3. CASE Scan(w)
  BY <1>3 DEF Scan
<1>4. CASE CheckLease(w)
  BY <1>4 DEF CheckLease
<1>5. CASE Watch(w)
  BY <1>5 DEF Watch
<1>6. CASE ExecDrop(w)
  BY <1>6 DEF ExecDrop, Unspoiled, Exhausted
<1>7. CASE ExecRenew(w)
  BY <1>7 DEF ExecRenew, Unspoiled, Exhausted
<1>8. CASE ExecSpoiled(w)
  BY <1>8 DEF ExecSpoiled
<1>9. CASE ScanDone(w)
  BY <1>9 DEF ScanDone
<1>10. CASE Take(w)
  BY <1>10 DEF Take
<1>11. CASE TakeTimeout(w)
  BY <1>11 DEF TakeTimeout
<1>12. CASE Sign(w)
  BY <1>12 DEF Sign
<1>13. CASE Visit(w)
  BY <1>13 DEF Visit
<1>14. CASE CompleteRemove(w)
  BY <1>14 DEF CompleteRemove
<1>15. CASE CompleteForget(w)
  BY <1>15 DEF CompleteForget
<1>16. CASE CompleteUnlease(w)
  BY <1>16 DEF CompleteUnlease
<1>17. QED
  BY <1>1, <1>2, <1>3, <1>4, <1>5, <1>6, <1>7, <1>8, <1>9, <1>10, <1>11, <1>12, <1>13, <1>14, <1>15, <1>16 DEF Step

\* The count of a job follows its renewals until a late completion deletes it.
LEMMA CountExactStep ==
  ASSUME TypeOK, WatchHolds, AtMostOneEntry, RetriesBounded, CountExact, RenewalsBounded, NEW w \in Workers, Step(w)
  PROVE  CountExact'
<1> USE RetryAssumption DEF redis, local, history, Goto, Touch, TypeOK, WatchHolds, AtMostOneEntry, RetriesBounded, CountExact, RenewalsBounded
<1>1. CASE ReadMainSize(w)
  BY <1>1 DEF ReadMainSize
<1>2. CASE ReadProcessingSize(w)
  BY <1>2 DEF ReadProcessingSize
<1>3. CASE Scan(w)
  BY <1>3 DEF Scan
<1>4. CASE CheckLease(w)
  BY <1>4 DEF CheckLease
<1>5. CASE Watch(w)
  BY <1>5 DEF Watch
<1>6. CASE ExecDrop(w)
  BY <1>6 DEF ExecDrop, Unspoiled, Exhausted
<1>7. CASE ExecRenew(w)
  BY <1>7 DEF ExecRenew, Unspoiled, Exhausted
<1>8. CASE ExecSpoiled(w)
  BY <1>8 DEF ExecSpoiled
<1>9. CASE ScanDone(w)
  BY <1>9 DEF ScanDone
<1>10. CASE Take(w)
  BY <1>10 DEF Take
<1>11. CASE TakeTimeout(w)
  BY <1>11 DEF TakeTimeout
<1>12. CASE Sign(w)
  BY <1>12 DEF Sign
<1>13. CASE Visit(w)
  BY <1>13 DEF Visit
<1>14. CASE CompleteRemove(w)
  BY <1>14 DEF CompleteRemove
<1>15. CASE CompleteForget(w)
  BY <1>15 DEF CompleteForget
<1>16. CASE CompleteUnlease(w)
  BY <1>16 DEF CompleteUnlease
<1>17. QED
  BY <1>1, <1>2, <1>3, <1>4, <1>5, <1>6, <1>7, <1>8, <1>9, <1>10, <1>11, <1>12, <1>13, <1>14, <1>15, <1>16 DEF Step

\* A renewal compares the number of renewals, unless that was forgotten.
LEMMA RenewalsBoundedStep ==
  ASSUME TypeOK, WatchHolds, AtMostOneEntry, RetriesBounded, CountExact, RenewalsBounded, NEW w \in Workers, Step(w)
  PROVE  RenewalsBounded'
<1> USE RetryAssumption DEF redis, local, history, Goto, Touch, TypeOK, WatchHolds, AtMostOneEntry, RetriesBounded, CountExact, RenewalsBounded
<1>1. CASE ReadMainSize(w)
  BY <1>1 DEF ReadMainSize
<1>2. CASE ReadProcessingSize(w)
  BY <1>2 DEF ReadProcessingSize
<1>3. CASE Scan(w)
  BY <1>3 DEF Scan
<1>4. CASE CheckLease(w)
  BY <1>4 DEF CheckLease
<1>5. CASE Watch(w)
  BY <1>5 DEF Watch
<1>6. CASE ExecDrop(w)
  BY <1>6 DEF ExecDrop, Unspoiled, Exhausted
<1>7. CASE ExecRenew(w)
  BY <1>7 DEF ExecRenew, Unspoiled, Exhausted
<1>8. CASE ExecSpoiled(w)
  BY <1>8 DEF ExecSpoiled
<1>9. CASE ScanDone(w)
  BY <1>9 DEF ScanDone
<1>10. CASE Take(w)
  BY <1>10 DEF Take
<1>11. CASE TakeTimeout(w)
  BY <1>11 DEF TakeTimeout
<1>12. CASE Sign(w)
  BY <1>12 DEF Sign
<1>13. CASE Visit(w)
  BY <1>13 DEF Visit
<1>14. CASE CompleteRemove(w)
  BY <1>14 DEF CompleteRemove
<1>15. CASE CompleteForget(w)
  BY <1>15 DEF CompleteForget
<1>16. CASE CompleteUnlease(w)
  BY <1>16 DEF CompleteUnlease
<1>17. QED
  BY <1>1, <1>2, <1>3, <1>4, <1>5, <1>6, <1>7, <1>8, <1>9, <1>10, <1>11, <1>12, <1>13, <1>14, <1>15, <1>16 DEF Step

\* A job is dropped only with its retries exhausted.
LEMMA DroppedAfterRetriesStep ==
  ASSUME TypeOK, WatchHolds, RetriesCounted, DroppedAfterRetries, NEW w \in Workers, Step(w)
  PROVE  DroppedAfterRetries'
<1> USE RetryAssumption DEF redis, local, history, Goto, Touch, TypeOK, WatchHolds, RetriesCounted, DroppedAfterRetries
<1>1. CASE ReadMainSize(w)
  BY <1>1 DEF ReadMainSize
<1>2. CASE ReadProcessingSize(w)
  BY <1>2 DEF ReadProcessingSize
<1>3. CASE Scan(w)
  BY <1>3 DEF Scan
<1>4. CASE CheckLease(w)
  BY <1>4 DEF CheckLease
<1>5. CASE Watch(w)
  BY <1>5 DEF Watch
<1>6. CASE ExecDrop(w)
  BY <1>6 DEF ExecDrop, Unspoiled, Exhausted
<1>7. CASE ExecRenew(w)
  BY <1>7 DEF ExecRenew, Unspoiled, Exhausted
<1>8. CASE ExecSpoiled(w)
  BY <1>8 DEF ExecSpoiled
<1>9. CASE ScanDone(w)
  BY <1>9 DEF ScanDone
<1>10. CASE Take(w)
  BY <1>10 DEF Take
<1>11. CASE TakeTimeout(w)
  BY <1>11 DEF TakeTimeout
<1>12. CASE Sign(w)
  BY <1>12 DEF Sign
<1>13. CASE Visit(w)
  BY <1>13 DEF Visit
<1>14. CASE CompleteRemove(w)
  BY <1>14 DEF CompleteRemove
<1>15. CASE CompleteForget(w)
  BY <1>15 DEF CompleteForget
<1>16. CASE CompleteUnlease(w)
  BY <1>16 DEF CompleteUnlease
<1>17. QED
  BY <1>1, <1>2, <1>3, <1>4, <1>5, <1>6, <1>7, <1>8, <1>9, <1>10, <1>11, <1>12, <1>13, <1>14, <1>15, <1>16 DEF Step

\* A job leaves both lists only when completed or dropped.
LEMMA NoLostJobStep ==
  ASSUME TypeOK, WatchHolds, NoLostJob, NEW w \in Workers, Step(w)
  PROVE  NoLostJob'
<1> USE RetryAssumption DEF redis, local, history, Goto, Touch, TypeOK, WatchHolds, NoLostJob
<1>1. CASE ReadMainSize(w)
  BY <1>1 DEF ReadMainSize
<1>2. CASE ReadProcessingSize(w)
  BY <1>2 DEF ReadProcessingSize
<1>3. CASE Scan(w)
  BY <1>3 DEF Scan
<1>4. CASE CheckLease(w)
  BY <1>4 DEF CheckLease
<1>5. CASE Watch(w)
  BY <1>5 DEF Watch
<1>6. CASE ExecDrop(w)
  BY <1>6 DEF ExecDrop, Unspoiled, Exhausted
<1>7. CASE ExecRenew(w)
  BY <1>7 DEF ExecRenew, Unspoiled, Exhausted
<1>8. CASE ExecSpoiled(w)
  BY <1>8 DEF ExecSpoiled
<1>9. CASE ScanDone(w)
  BY <1>9 DEF ScanDone
<1>10. CASE Take(w)
  BY <1>10 DEF Take
<1>11. CASE TakeTimeout(w)
  BY <1>11 DEF TakeTimeout
<1>12. CASE Sign(w)
  BY <1>12 DEF Sign
<1>13. CASE Visit(w)
  BY <1>13 DEF Visit
<1>14. CASE CompleteRemove(w)
  BY <1>14 DEF CompleteRemove
<1>15. CASE CompleteForget(w)
  BY <1>15 DEF CompleteForget
<1>16. CASE CompleteUnlease(w)
  BY <1>16 DEF CompleteUnlease
<1>17. QED
  BY <1>1, <1>2, <1>3, <1>4, <1>5, <1>6, <1>7, <1>8, <1>9, <1>10, <1>11, <1>12, <1>13, <1>14, <1>15, <1>16 DEF Step

\* The invariant holds in every behaviour: in particular no job is ever twice
\* in the queue, lost, or given up before its last retry.
THEOREM Safety == Spec => []IInv
<1>1. Init => IInv
  <2>1. SUFFICES ASSUME Init PROVE IInv
    OBVIOUS
  <2>2. TypeOK
    BY <2>1, JobsAssumption, RetryAssumption
    DEF Init, TypeOK, PCs, Holding
  <2>3. AtMostOneEntry /\ WatchHolds /\ RetriesCounted /\ CountExact
    BY <2>1 DEF Init, AtMostOneEntry, WatchHolds, RetriesCounted, CountExact
  <2>4. RetriesBounded /\ RenewalsBounded /\ DroppedAfterRetries /\ NoLostJob
    BY <2>1, RetryAssumption
    DEF Init, RetriesBounded, RenewalsBounded, DroppedAfterRetries, NoLostJob
  <2>5. QED
    BY <2>2, <2>3, <2>4 DEF IInv
<1>2. ASSUME IInv, TypeOK', NEW w \in Workers, Step(w)
      PROVE  IInv'
  BY <1>2, WatchHoldsStep, AtMostOneEntryStep, RetriesBoundedStep,
     RetriesCountedStep, CountExactStep, RenewalsBoundedStep, DroppedAfterRetriesStep, NoLostJobStep DEF IInv
<1>3. ASSUME IInv, TypeOK', NEW w \in Workers, Crash(w)
      PROVE  IInv'
  BY <1>3 DEF Crash, Goto, redis, local, history, IInv, TypeOK, AtMostOneEntry, WatchHolds,
     RetriesBounded, RetriesCounted, CountExact, RenewalsBounded, DroppedAfterRetries,
     NoLostJob
<1>4. ASSUME IInv, TypeOK', NEW j \in Jobs, LeaseExpires(j)
      PROVE  IInv'
  BY <1>4 DEF LeaseExpires, local, history, IInv, AtMostOneEntry, WatchHolds,
     RetriesBounded, RetriesCounted, CountExact, RenewalsBounded, DroppedAfterRetries,
     NoLostJob
<1>5. ASSUME IInv, TypeOK', UNCHANGED vars
      PROVE  IInv'
  BY <1>5 DEF vars, redis, local, history, IInv, AtMostOneEntry, WatchHolds,
     RetriesBounded, RetriesCounted, CountExact, RenewalsBounded, DroppedAfterRetries,
     NoLostJob
<1>6. IInv /\ TypeOK' /\ [Next]_vars => IInv'
  BY <1>2, <1>3, <1>4, <1>5 DEF Next
<1>7. QED
  BY <1>1, <1>6, TypeCorrect, PTL DEF Spec

\* No job is lost or entered twice, whoever crashes and whichever leases expire.
THEOREM JobsKeptAlways == Spec => []JobsKept
<1>1. IInv => JobsKept
  BY DEF IInv, JobsKept
<1>2. QED
  BY <1>1, Safety, PTL

\* A job is returned at most max_retries times unless a late complete()
\* deleted its count, which itself never passes max_retries; it is dropped
\* only when it has been returned that often.
THEOREM RetryPolicyAlways == Spec => []RetryPolicy
<1>1. IInv => RetryPolicy
  BY DEF IInv, RetryPolicy
<1>2. QED
  BY <1>1, Safety, PTL

\* What a worker read before EXEC holds at EXEC, unless its WATCH was spoiled.
THEOREM WatchHoldsAlways == Spec => []WatchHolds
<1>1. IInv => WatchHolds
  BY DEF IInv
<1>2. QED
  BY <1>1, Safety, PTL

------------------------------------------------------------------------------
(* Refinement: every step of the queue is a step of the ledger or leaves it *)
(* unchanged.                                                               *)

\* The lists implement the ledger of jobs.
THEOREM ImplementsLedger == Spec => LedgerSpec
<1> DEFINE Q == {j \in Jobs : main[j] > 0}
           H == {j \in Jobs : processing[j] > 0}
<1> USE DEF redis, local, history, Goto
<1>1. Init => Ledger!Init
  BY DEF Init, Ledger!Init
<1>2. ASSUME IInv, NEW w \in Workers, Take(w)
      PROVE  \E j \in Jobs : Ledger!Take(j)
  <2>1. PICK j \in Jobs : /\ main[j] > 0
                          /\ main' = [main EXCEPT ![j] = @ - 1]
                          /\ processing' = [processing EXCEPT ![j] = @ + 1]
    BY <1>2 DEF Take
  <2>2. main[j] = 1
    BY <2>1, <1>2 DEF IInv, TypeOK, AtMostOneEntry
  <2>3. j \in Q /\ Q' = Q \ {j} /\ H' = H \cup {j}
    BY <2>1, <2>2, <1>2 DEF IInv, TypeOK
  <2>4. QED
    BY <2>3 DEF Ledger!Take
<1>3. ASSUME IInv, NEW w \in Workers, ExecRenew(w)
      PROVE  \E j \in Jobs : Ledger!GiveBack(j)
  <2>1. candidate[w] \in Jobs /\ processing[candidate[w]] > 0
    BY <1>3 DEF ExecRenew, Unspoiled, IInv, TypeOK, WatchHolds
  <2>2. /\ candidate[w] \in H
        /\ H' = H \ {candidate[w]}
        /\ Q' = Q \cup {candidate[w]}
    BY <1>3, <2>1 DEF ExecRenew, IInv, TypeOK
  <2>3. QED
    BY <2>1, <2>2 DEF Ledger!GiveBack
<1>4. ASSUME IInv, NEW w \in Workers, ExecDrop(w)
      PROVE  \E j \in Jobs : Ledger!Retire(j)
  <2>1. candidate[w] \in Jobs /\ processing[candidate[w]] > 0
    BY <1>4 DEF ExecDrop, Unspoiled, IInv, TypeOK, WatchHolds
  <2>2. candidate[w] \in H /\ H' = H \ {candidate[w]} /\ Q' = Q
    BY <1>4, <2>1 DEF ExecDrop, IInv, TypeOK
  <2>3. QED
    BY <2>1, <2>2 DEF Ledger!Retire
<1>5. ASSUME IInv, NEW w \in Workers, CompleteRemove(w)
      PROVE  [Ledger!Next]_(Ledger!ledger)
  <2>1. job[w] \in Jobs
    BY <1>5 DEF CompleteRemove, Holding, IInv, TypeOK
  <2>2. H' = H \ {job[w]} /\ Q' = Q
    BY <1>5, <2>1 DEF CompleteRemove, IInv, TypeOK
  <2>3. CASE job[w] \in H
    BY <2>1, <2>2, <2>3 DEF Ledger!Next, Ledger!Retire
  <2>4. CASE job[w] \notin H
    BY <2>2, <2>4 DEF Ledger!ledger
  <2>5. QED
    BY <2>3, <2>4
<1>6. ASSUME NEW w \in Workers, Step(w),
             ~Take(w), ~ExecRenew(w), ~ExecDrop(w), ~CompleteRemove(w)
      PROVE  UNCHANGED <<main, processing>>
  BY <1>6 DEF Step, ReadMainSize, ReadProcessingSize, Scan, CheckLease, Watch, ExecSpoiled,
     ScanDone, TakeTimeout, Sign, Visit, CompleteForget, CompleteUnlease
<1>7. ASSUME NEW w \in Workers, Crash(w)
      PROVE  UNCHANGED <<main, processing>>
  BY <1>7 DEF Crash
<1>8. ASSUME NEW j \in Jobs, LeaseExpires(j)
      PROVE  UNCHANGED <<main, processing>>
  BY <1>8 DEF LeaseExpires
<1>9. UNCHANGED <<main, processing>> => UNCHANGED Ledger!ledger
  BY DEF Ledger!ledger
<1>10. IInv /\ [Next]_vars => [Ledger!Next]_(Ledger!ledger)
  BY <1>2, <1>3, <1>4, <1>5, <1>6, <1>7, <1>8, <1>9 DEF Next, vars, Ledger!Next
<1>11. QED
  BY <1>1, <1>10, Safety, PTL DEF Spec, LedgerSpec, Ledger!Spec
===============================================================================
