------------------------- MODULE S3Aggregator_proofs -------------------------
(***************************************************************************)
(* Proofs about the S3 aggregator, for any set of records, however many    *)
(* browsers sent them and in whatever order they arrive.                   *)
(***************************************************************************)
EXTENDS S3Aggregator, FiniteSetTheorems, TLAPS

------------------------------------------------------------------------------
(* Records and batches.                                                     *)

\* The names of a record's parts belong to the sets made of them.
LEMMA RecordParts ==
  ASSUME NEW r \in Records
  PROVE  /\ r # NoRecord
         /\ r.crawl \in Crawls
         /\ r.visit \in Visits
         /\ r.table # Content => r \in Rows /\ r.table \in Files
         /\ r.table \in Files \cup {Content}
BY RecordsAssumption DEF NoRecord, Crawls, Visits, Rows, Tables, Files

\* _create_batch makes batches of rows and reports rows.
LEMMA BatchesType ==
  ASSUME TypeOK, NEW vs \in SUBSET Visits, CreateBatches(vs)
  PROVE  /\ batches' \in [Files -> SUBSET SUBSET Rows]
         /\ failed' \in [Files \cup {Content} -> SUBSET Records]
         /\ records' = {r \in records : r.visit \notin vs}
<1> DEFINE rows(v, t) == {r \in records : r.visit = v /\ r.table = t}
           keys == {<<r.visit, r.table>> : r \in {s \in records : s.visit \in vs}}
<1>1. PICK invalid \in SUBSET keys :
        /\ batches' = [t \in Files |-> batches[t] \cup
             IF t = Index
             THEN {{r} : r \in {s \in records : s.visit \in vs /\ s.table = SiteVisits}}
             ELSE {rows(k[1], t) : k \in {l \in keys \ invalid : l[2] = t}}]
        /\ failed' = [t \in DOMAIN failed |-> failed[t] \cup
             UNION {rows(k[1], t) : k \in {l \in invalid : l[2] = t}}]
        /\ records' = {r \in records : r.visit \notin vs}
  BY DEF CreateBatches
<1>2. records \subseteq Rows /\ Rows \subseteq Records
  BY DEF TypeOK, Rows
<1>3. \A v, t : rows(v, t) \subseteq Rows
  BY <1>2
<1>4. ASSUME NEW t \in Files
      PROVE  batches'[t] \in SUBSET SUBSET Rows
  <2>1. batches[t] \in SUBSET SUBSET Rows
    BY DEF TypeOK
  <2>2. {{r} : r \in {s \in records : s.visit \in vs /\ s.table = SiteVisits}} \in SUBSET SUBSET Rows
    BY <1>2
  <2>3. {rows(k[1], t) : k \in {l \in keys \ invalid : l[2] = t}} \in SUBSET SUBSET Rows
    BY <1>3
  <2> QED
    BY <1>1, <2>1, <2>2, <2>3
<1>5. ASSUME NEW t \in Files \cup {Content}
      PROVE  failed'[t] \in SUBSET Records
  <2>1. failed[t] \in SUBSET Records /\ DOMAIN failed = Files \cup {Content}
    BY DEF TypeOK
  <2>2. UNION {rows(k[1], t) : k \in {l \in invalid : l[2] = t}} \in SUBSET Rows
    BY <1>3
  <2>3. failed'[t] = failed[t] \cup UNION {rows(k[1], t) : k \in {l \in invalid : l[2] = t}}
    BY <1>1, <2>1
  <2> QED
    BY <1>2, <2>1, <2>2, <2>3
<1>6. DOMAIN failed = Files \cup {Content}
  BY DEF TypeOK
<1>7. batches' = [t \in Files |-> batches'[t]] /\ failed' = [t \in Files \cup {Content} |-> failed'[t]]
  BY <1>1, <1>6
<1> QED
  BY <1>1, <1>4, <1>5, <1>7

------------------------------------------------------------------------------
(* What is in memory.                                                       *)

\* Whether the listener has a record in hand.
InHand ==
  /\ pc \in {"loop", "check", "drain", "exited"} => record = NoRecord
  /\ pc = "record" => record # NoRecord

\* Between the batches of the visit a browser has left and its first row of
\* the next, no row of the visit it has left is kept.
Moving ==
  pc = "send" /\ record # NoRecord =>
    /\ record.table # Content /\ record.visit # Unkeyed
    /\ \A r \in records : r.visit # browserMap[record.crawl]

\* During the last uploads, all that is left is in the tables still to send.
Flushing ==
  pc = "send" /\ record = NoRecord =>
    records = {} /\ \A t \in Files \ sending : batches[t] = {}

\* The inductive invariant.
IInv ==
  /\ TypeOK
  /\ InHand
  /\ \A r \in records : r.visit # Unkeyed
  /\ DrainFindsAll
  /\ Moving
  /\ Flushing
  /\ NothingLeftInMemory

\* Every step keeps the types.
LEMMA TypeStep ==
  ASSUME TypeOK, Moving, [Next]_vars
  PROVE  TypeOK'
<1> USE DEF feed, control, memory, bucket, TypeOK, PCs, Gone
<1>1. ASSUME NEW r \in Records, Enqueue(r) PROVE TypeOK'
  BY <1>1 DEF Enqueue
<1>2. ASSUME PastTimeout PROVE TypeOK'
  BY <1>2 DEF PastTimeout
<1>3. ASSUME NotPastTimeout PROVE TypeOK'
  BY <1>3 DEF NotPastTimeout
<1>4. ASSUME ShouldShutdown PROVE TypeOK'
  BY <1>4 DEF ShouldShutdown
<1>5. ASSUME GetRecord PROVE TypeOK'
  <2>1. Head(queue) \in Records /\ Tail(queue) \in Seq(Records)
    BY <1>5 DEF GetRecord
  <2> QED
    BY <1>5, <2>1 DEF GetRecord
<1>6. ASSUME GetTimeout PROVE TypeOK'
  BY <1>6 DEF GetTimeout
<1>7. ASSUME DropUnkeyed PROVE TypeOK'
  <2>1. failed' = [failed EXCEPT ![record.table] = @ \cup {record}]
    BY <1>7 DEF DropUnkeyed, Report
  <2>2. failed' \in [Files \cup {Content} -> SUBSET Records]
    <3>1. CASE record \in Records
      BY <2>1, <3>1, RecordParts
    <3>2. CASE record = NoRecord
      <4>1. record.table \notin Files \cup {Content}
        BY <3>2, RecordsAssumption DEF NoRecord, Files, Tables, Rows, Content, SiteVisits, Index
      <4> QED
        BY <2>1, <4>1
    <3> QED
      BY <3>1, <3>2
  <2> QED
    BY <1>7, <2>2 DEF DropUnkeyed, Receive, Return
<1>8. ASSUME WriteRow PROVE TypeOK'
  BY <1>8, RecordParts DEF WriteRow, Receive, Return, NoRecord, Unkeyed
<1>9. ASSUME MoveOn PROVE TypeOK'
  <2>1. record \in Records /\ record.crawl \in Crawls
    BY <1>9, RecordParts DEF MoveOn, NoRecord, Unkeyed
  <2>2. {browserMap[record.crawl]} \in SUBSET Visits
    BY <2>1
  <2>3. CreateBatches({browserMap[record.crawl]})
    BY <1>9 DEF MoveOn
  <2>4. /\ batches' \in [Files -> SUBSET SUBSET Rows]
        /\ failed' \in [Files \cup {Content} -> SUBSET Records]
        /\ records' \subseteq records
    BY <2>2, <2>3, BatchesType
  <2> QED
    BY <1>9, <2>4 DEF MoveOn, Receive
<1>10. ASSUME MovedOn PROVE TypeOK'
  <2>1. record \in Rows /\ record.visit \in Visits
    BY <1>10, RecordParts DEF MovedOn, Moving
  <2>2. browserMap' \in [Crawls -> Visits]
    BY <1>10, <2>1 DEF MovedOn
  <2>3. records' \subseteq Rows
    BY <1>10, <2>1 DEF MovedOn
  <2> QED
    BY <1>10, <2>2, <2>3 DEF MovedOn, Return
<1>11. ASSUME WriteContent PROVE TypeOK'
  <2>1. record \in Records /\ record.visit \in Visits
    BY <1>11, RecordParts DEF WriteContent, NoRecord, Content
  <2>2. cache' \subseteq Visits /\ stored' \subseteq Visits
    BY <1>11, <2>1 DEF WriteContent, Remember
  <2>3. /\ uploaded' \in [Files \cup {Content} -> SUBSET Records]
        /\ failed' \in [Files \cup {Content} -> SUBSET Records]
    <3>1. \/ UNCHANGED failed /\ uploaded' = [uploaded EXCEPT ![Content] = @ \cup {record}]
          \/ UNCHANGED uploaded /\ failed' = [failed EXCEPT ![Content] = @ \cup {record}]
      BY <1>11 DEF WriteContent, Report
    <3>2. [uploaded EXCEPT ![Content] = @ \cup {record}] \in [Files \cup {Content} -> SUBSET Records]
      BY <2>1
    <3>3. [failed EXCEPT ![Content] = @ \cup {record}] \in [Files \cup {Content} -> SUBSET Records]
      BY <2>1
    <3> QED
      BY <3>1, <3>2, <3>3
  <2> QED
    BY <1>11, <2>2, <2>3 DEF WriteContent, Receive, Return
<1>12. ASSUME NEW t \in Files, SendTable(t) PROVE TypeOK'
  BY <1>12 DEF SendTable, Report, ClearBatches, Rows
<1>13. ASSUME Flush PROVE TypeOK'
  <2>1. {browserMap[c] : c \in Crawls} \ {Unkeyed} \in SUBSET Visits
    OBVIOUS
  <2>2. /\ batches' \in [Files -> SUBSET SUBSET Rows]
        /\ failed' \in [Files \cup {Content} -> SUBSET Records]
        /\ records' \subseteq records
    BY <1>13, <2>1, BatchesType DEF Flush
  <2> QED
    BY <1>13, <2>2 DEF Flush
<1>14. ASSUME Flushed PROVE TypeOK'
  BY <1>14 DEF Flushed
<1>15. ASSUME Die PROVE TypeOK'
  BY <1>15 DEF Die
<1>16. ASSUME Signal PROVE TypeOK'
  BY <1>16 DEF Signal
<1>17. ASSUME Kill PROVE TypeOK'
  BY <1>17 DEF Kill
<1>18. ASSUME UNCHANGED vars PROVE TypeOK'
  BY <1>18 DEF vars
<1> QED
  BY <1>1, <1>2, <1>3, <1>4, <1>5, <1>6, <1>7, <1>8, <1>9, <1>10, <1>11, <1>12,
     <1>13, <1>14, <1>15, <1>16, <1>17, <1>18 DEF Next, Listener

\* Every step keeps the invariant.
LEMMA IInvStep ==
  ASSUME IInv, [Next]_vars
  PROVE  IInv'
<1>0. TypeOK /\ TypeOK'
  BY TypeStep DEF IInv
<1> USE DEF feed, control, memory, bucket, PCs, Gone, InHand, DrainFindsAll, Moving, Flushing,
            NothingLeftInMemory
<1>1. ASSUME NEW r \in Records, Enqueue(r) PROVE IInv'
  BY <1>0, <1>1 DEF IInv, Enqueue
<1>2. ASSUME PastTimeout PROVE IInv'
  BY <1>0, <1>2 DEF IInv, PastTimeout
<1>3. ASSUME NotPastTimeout PROVE IInv'
  BY <1>0, <1>3 DEF IInv, NotPastTimeout
<1>4. ASSUME ShouldShutdown PROVE IInv'
  BY <1>0, <1>4 DEF IInv, ShouldShutdown
<1>5. ASSUME GetRecord PROVE IInv'
  <2>1. Head(queue) \in Records
    BY <1>0, <1>5 DEF GetRecord, TypeOK
  <2>2. record' # NoRecord
    BY <1>5, <2>1, RecordParts DEF GetRecord
  <2> QED
    BY <1>0, <1>5, <2>2 DEF IInv, GetRecord
<1>6. ASSUME GetTimeout PROVE IInv'
  BY <1>0, <1>6 DEF IInv, GetTimeout
<1>7. ASSUME DropUnkeyed PROVE IInv'
  BY <1>0, <1>7 DEF IInv, DropUnkeyed, Return
<1>8. ASSUME WriteRow PROVE IInv'
  <2>1. record \in Records /\ record.crawl \in Crawls
    BY <1>0, <1>8, RecordParts DEF IInv, WriteRow, TypeOK
  <2>2. /\ browserMap'[record.crawl] = record.visit
        /\ \A c \in Crawls \ {record.crawl} : browserMap'[c] = browserMap[c]
    BY <1>0, <1>8, <2>1 DEF WriteRow, TypeOK
  <2>3. DrainFindsAll'
    <3> SUFFICES ASSUME NEW r \in records'
                 PROVE  \E c \in Crawls : browserMap'[c] = r.visit
      OBVIOUS
    <3>1. CASE r = record
      BY <2>1, <2>2, <3>1
    <3>2. CASE r \in records
      <4>1. PICK c \in Crawls : browserMap[c] = r.visit
        BY <3>2 DEF IInv
      <4>2. r.visit # Unkeyed
        BY <3>2 DEF IInv
      <4>3. browserMap'[c] = browserMap[c]
        BY <1>8, <2>2, <4>1, <4>2 DEF WriteRow
      <4> QED
        BY <4>1, <4>3
    <3> QED
      BY <1>8, <3>1, <3>2 DEF WriteRow
  <2> QED
    BY <1>0, <1>8, <2>3 DEF IInv, WriteRow, Return
<1>9. ASSUME MoveOn PROVE IInv'
  <2>1. record \in Records /\ record.crawl \in Crawls
    BY <1>0, <1>9, RecordParts DEF IInv, MoveOn, TypeOK
  <2>2. {browserMap[record.crawl]} \in SUBSET Visits
    BY <1>0, <2>1 DEF TypeOK
  <2>3. records' = {r \in records : r.visit \notin {browserMap[record.crawl]}}
    BY <1>0, <1>9, <2>2, BatchesType DEF MoveOn
  <2> QED
    BY <1>0, <1>9, <2>3 DEF IInv, MoveOn
<1>10. ASSUME MovedOn PROVE IInv'
  <2>1. record \in Records /\ record.crawl \in Crawls
    BY <1>0, <1>10, RecordParts DEF MovedOn, TypeOK
  <2>2. /\ browserMap'[record.crawl] = record.visit
        /\ \A c \in Crawls \ {record.crawl} : browserMap'[c] = browserMap[c]
    BY <1>0, <1>10, <2>1 DEF MovedOn, TypeOK
  <2>3. DrainFindsAll'
    <3> SUFFICES ASSUME NEW r \in records'
                 PROVE  \E c \in Crawls : browserMap'[c] = r.visit
      OBVIOUS
    <3>1. CASE r = record
      BY <2>1, <2>2, <3>1
    <3>2. CASE r \in records
      <4>1. PICK c \in Crawls : browserMap[c] = r.visit
        BY <3>2 DEF IInv
      <4>2. c # record.crawl
        BY <1>10, <3>2, <4>1 DEF IInv, MovedOn
      <4> QED
        BY <2>2, <4>1, <4>2
    <3> QED
      BY <1>10, <3>1, <3>2 DEF MovedOn
  <2> QED
    BY <1>0, <1>10, <2>3 DEF IInv, MovedOn, Return
<1>11. ASSUME WriteContent PROVE IInv'
  BY <1>0, <1>11 DEF IInv, WriteContent, Return
<1>12. ASSUME NEW t \in Files, SendTable(t) PROVE IInv'
  BY <1>0, <1>12 DEF IInv, SendTable, ClearBatches, TypeOK
<1>13. ASSUME Flush PROVE IInv'
  <2>1. {browserMap[c] : c \in Crawls} \ {Unkeyed} \in SUBSET Visits
    BY <1>0 DEF TypeOK
  <2>2. records' = {r \in records : r.visit \notin {browserMap[c] : c \in Crawls} \ {Unkeyed}}
    BY <1>0, <1>13, <2>1, BatchesType DEF Flush
  <2>3. records' = {}
    BY <2>2 DEF IInv
  <2>4. sending' = {t \in Files : batches'[t] # {}}
    BY <1>13 DEF Flush
  <2> QED
    BY <1>0, <1>13, <2>3, <2>4 DEF IInv, Flush
<1>14. ASSUME Flushed PROVE IInv'
  BY <1>0, <1>14 DEF IInv, Flushed
<1>15. ASSUME Die PROVE IInv'
  BY <1>0, <1>15 DEF IInv, Die
<1>16. ASSUME Signal PROVE IInv'
  BY <1>0, <1>16 DEF IInv, Signal
<1>17. ASSUME Kill PROVE IInv'
  BY <1>0, <1>17 DEF IInv, Kill
<1>18. ASSUME UNCHANGED vars PROVE IInv'
  BY <1>0, <1>18 DEF IInv, vars
<1> QED
  BY <1>1, <1>2, <1>3, <1>4, <1>5, <1>6, <1>7, <1>8, <1>9, <1>10, <1>11, <1>12,
     <1>13, <1>14, <1>15, <1>16, <1>17, <1>18 DEF Next, Listener

\* The invariant of the listener's memory.
THEOREM Safety == Spec => []IInv
<1>1. Init => IInv
  <2> SUFFICES ASSUME Init PROVE IInv
    OBVIOUS
  <2>1. Unkeyed \in Visits
    BY DEF Visits
  <2>2. browserMap \in [Crawls -> Visits]
    BY <2>1 DEF Init
  <2>3. batches \in [Files -> SUBSET SUBSET Rows]
    BY DEF Init
  <2>4. /\ uploaded \in [Files \cup {Content} -> SUBSET Records]
        /\ failed \in [Files \cup {Content} -> SUBSET Records]
    BY DEF Init
  <2>5. queue \in Seq(Records)
    BY DEF Init
  <2>6. TypeOK
    BY <2>2, <2>3, <2>4, <2>5 DEF Init, TypeOK, PCs
  <2> QED
    BY <2>6 DEF Init, IInv, InHand, DrainFindsAll, Moving, Flushing, NothingLeftInMemory, Gone
<1> QED
  BY <1>1, IInvStep, PTL DEF Spec

\* The variables of the aggregator always have their types (TypeOK), for any
\* records.
THEOREM TypeCorrect == Spec => []TypeOK
<1>1. IInv => TypeOK
  BY DEF IInv
<1> QED
  BY <1>1, Safety, PTL

\* No row escapes the final drain (DrainedAll): each that is kept in
\* memory belongs to the visit of some entry of browser_map, although rows
\* arrive late and browsers share visit ids.
THEOREM DrainComplete == Spec => []DrainedAll
<1>1. IInv => DrainedAll
  BY DEF IInv, DrainedAll
<1> QED
  BY <1>1, Safety, PTL

------------------------------------------------------------------------------
(* Every record is at one place.                                            *)

InQueue(r) == \E i \in DOMAIN queue : queue[i] = r

InBatch(r) == r.table \in Tables /\ r \in UNION batches[r.table]

One(b) == IF b THEN 1 ELSE 0

\* The places of a record, counted.
Places(r) ==
  One(r \in coming) + One(InQueue(r)) + One(r = record) + One(r \in records)
    + One(InBatch(r)) + One(r \in uploaded[r.table]) + One(r \in failed[r.table])

\* No record is twice in the queue.
Distinct == \A i, j \in DOMAIN queue : queue[i] = queue[j] => i = j

\* The inductive invariant.
Placed == Distinct /\ \A r \in Records : Places(r) = 1

\* What _create_batch does to each record: if it is a row of one of the visits,
\* it leaves the rows for a batch, or for the log; else it stays.
LEMMA BatchesPlace ==
  ASSUME TypeOK, NEW vs \in SUBSET Visits, CreateBatches(vs), NEW r \in Records
  PROVE  /\ r \in records' <=> (r \in records /\ r.visit \notin vs)
         /\ ~ (r \in records /\ r.visit \in vs) =>
              /\ InBatch(r)' <=> InBatch(r)
              /\ r \in failed'[r.table] <=> r \in failed[r.table]
         /\ r \in records /\ r.visit \in vs /\ ~InBatch(r) /\ r \notin failed[r.table] =>
              (InBatch(r)' <=> r \notin failed'[r.table])
<1> DEFINE rows(v, t) == {s \in records : s.visit = v /\ s.table = t}
           keys == {<<s.visit, s.table>> : s \in {x \in records : x.visit \in vs}}
           key == <<r.visit, r.table>>
<1>1. PICK invalid \in SUBSET keys :
        /\ batches' = [t \in Files |-> batches[t] \cup
             IF t = Index
             THEN {{s} : s \in {x \in records : x.visit \in vs /\ x.table = SiteVisits}}
             ELSE {rows(k[1], t) : k \in {l \in keys \ invalid : l[2] = t}}]
        /\ failed' = [t \in DOMAIN failed |-> failed[t] \cup
             UNION {rows(k[1], t) : k \in {l \in invalid : l[2] = t}}]
        /\ records' = {s \in records : s.visit \notin vs}
  BY DEF CreateBatches
<1>2. \A k \in keys : k[1] \in vs /\ k = <<k[1], k[2]>>
  OBVIOUS
<1>3. ASSUME NEW S \in SUBSET keys
      PROVE  r \in UNION {rows(k[1], r.table) : k \in {l \in S : l[2] = r.table}}
               <=> r \in records /\ key \in S
  <2>1. ASSUME r \in UNION {rows(k[1], r.table) : k \in {l \in S : l[2] = r.table}}
        PROVE  r \in records /\ key \in S
    <3>1. PICK k \in S : k[2] = r.table /\ r \in rows(k[1], r.table)
      BY <2>1
    <3>2. k = key
      BY <1>2, <3>1
    <3> QED
      BY <3>1, <3>2
  <2>2. ASSUME r \in records, key \in S
        PROVE  r \in UNION {rows(k[1], r.table) : k \in {l \in S : l[2] = r.table}}
    <3>1. r \in rows(key[1], r.table) /\ key \in {l \in S : l[2] = r.table}
      BY <2>2
    <3> QED
      BY <3>1
  <2> QED
    BY <2>1, <2>2
<1>4. r \in records /\ r.visit \in vs => key \in keys
  OBVIOUS
<1>5. key \in keys => r.visit \in vs
  BY <1>2
<1>6. r.table \in Tables => r.table \in Files /\ r.table # Index
  BY RecordsAssumption DEF Files
<1>7. r.table \in Tables =>
        (r \in UNION batches'[r.table] <=>
           r \in UNION batches[r.table] \/ (r \in records /\ key \in keys \ invalid))
  <2> SUFFICES ASSUME r.table \in Tables
               PROVE  r \in UNION batches'[r.table] <=>
                        r \in UNION batches[r.table] \/ (r \in records /\ key \in keys \ invalid)
    OBVIOUS
  <2> DEFINE new == {rows(k[1], r.table) : k \in {l \in keys \ invalid : l[2] = r.table}}
  <2>1. batches'[r.table] = batches[r.table] \cup new
    BY <1>1, <1>6
  <2>2. r \in UNION new <=> r \in records /\ key \in keys \ invalid
    BY <1>3
  <2> HIDE DEF new, rows, keys, key
  <2> QED
    BY <2>1, <2>2
<1>8. r \in failed'[r.table] <=> r \in failed[r.table] \/ (r \in records /\ key \in invalid)
  <2> DEFINE lost == UNION {rows(k[1], r.table) : k \in {l \in invalid : l[2] = r.table}}
  <2>1. r.table \in DOMAIN failed
    BY RecordParts DEF TypeOK
  <2>2. failed'[r.table] = failed[r.table] \cup lost
    BY <1>1, <2>1
  <2>3. r \in lost <=> r \in records /\ key \in invalid
    BY <1>3
  <2> HIDE DEF lost, rows, keys, key
  <2> QED
    BY <2>2, <2>3
<1>9. r \in records => r.table \in Tables
  BY DEF TypeOK, Tables
<1> HIDE DEF rows, keys, key
<1> QED
  BY <1>1, <1>4, <1>5, <1>7, <1>8, <1>9 DEF InBatch

\* A record that reaches the end of the queue.
LEMMA QueueAppend ==
  ASSUME TypeOK, NEW r \in Records, queue' = Append(queue, r)
  PROVE  /\ \A s \in Records : InQueue(s)' <=> InQueue(s) \/ s = r
         /\ Distinct /\ ~InQueue(r) => Distinct'
<1>1. queue \in Seq(Records)
  BY DEF TypeOK
<1>2. /\ Len(queue') = Len(queue) + 1
      /\ \A i \in 1..Len(queue) : queue'[i] = queue[i]
      /\ queue'[Len(queue) + 1] = r
  BY <1>1
<1>3. DOMAIN queue = 1..Len(queue) /\ DOMAIN queue' = 1..(Len(queue) + 1) /\ Len(queue) \in Nat
  BY <1>1
<1> QED
  BY <1>2, <1>3 DEF InQueue, Distinct

\* The record h that leaves the queue.
LEMMA QueueTail ==
  ASSUME TypeOK, Distinct, queue # <<>>, queue' = Tail(queue), NEW h, h = Head(queue)
  PROVE  /\ h \in Records
         /\ InQueue(h) /\ ~InQueue(h)'
         /\ \A s \in Records : InQueue(s) <=> InQueue(s)' \/ s = h
         /\ Distinct'
<1>1. queue \in Seq(Records)
  BY DEF TypeOK
<1>2. /\ Len(queue) \in Nat /\ Len(queue) > 0 /\ Len(queue') = Len(queue) - 1
      /\ \A i \in 1..(Len(queue) - 1) : queue'[i] = queue[i + 1]
      /\ h = queue[1]
  BY <1>1
<1>3. DOMAIN queue = 1..Len(queue) /\ DOMAIN queue' = 1..(Len(queue) - 1)
  BY <1>1, <1>2
<1>4. 1 \in DOMAIN queue /\ h \in Records
  BY <1>1, <1>2, <1>3
<1>5. \A i \in DOMAIN queue' : i + 1 \in DOMAIN queue /\ i + 1 # 1 /\ queue'[i] = queue[i + 1]
  BY <1>2, <1>3
<1>6. \A i \in DOMAIN queue : i = 1 \/ (i - 1 \in DOMAIN queue' /\ queue'[i - 1] = queue[i])
  BY <1>2, <1>3
<1>7. InQueue(h) /\ ~InQueue(h)'
  BY <1>2, <1>4, <1>5 DEF InQueue, Distinct
<1>8. \A s \in Records : InQueue(s) <=> InQueue(s)' \/ s = h
  <2>1. ASSUME NEW s \in Records, InQueue(s) PROVE InQueue(s)' \/ s = h
    <3>1. PICK i \in DOMAIN queue : queue[i] = s
      BY <2>1 DEF InQueue
    <3> QED
      BY <1>2, <1>6, <3>1 DEF InQueue
  <2>2. ASSUME NEW s \in Records, InQueue(s)' PROVE InQueue(s)
    <3>1. PICK i \in DOMAIN queue' : queue'[i] = s
      BY <2>2 DEF InQueue
    <3> QED
      BY <1>5, <3>1 DEF InQueue
  <2> QED
    BY <1>7, <2>1, <2>2
<1>9. Distinct'
  BY <1>2, <1>3 DEF Distinct
<1> QED
  BY <1>4, <1>7, <1>8, <1>9

\* Whatever a step does, each record is at one place after it.
LEMMA PlacedStep ==
  ASSUME IInv, Placed, [Next]_vars
  PROVE  Placed'
<1>0. TypeOK /\ Distinct /\ \A r \in Records : Places(r) = 1
  BY DEF IInv, Placed
<1>t. \A r \in Records : r # NoRecord /\ r.table \in Files \cup {Content}
  BY RecordParts
<1> USE DEF feed, control, memory, bucket
<1>1. ASSUME NEW r \in Records, Enqueue(r) PROVE Placed'
  <2>1. /\ \A s \in Records : InQueue(s)' <=> InQueue(s) \/ s = r
        /\ Distinct /\ ~InQueue(r) => Distinct'
    BY <1>0, <1>1, QueueAppend DEF Enqueue
  <2>2. ~InQueue(r)
    BY <1>0, <1>1 DEF Enqueue, Places, One
  <2>3. ASSUME NEW s \in Records PROVE Places(s)' = 1
    <3>1. Places(s) = 1 /\ InBatch(s)' = InBatch(s)
      BY <1>0, <1>1 DEF Enqueue, InBatch
    <3>2. InQueue(s)' <=> InQueue(s) \/ s = r
      BY <2>1
    <3> QED
      BY <1>1, <2>2, <3>1, <3>2 DEF Enqueue, Places, One
  <2> QED
    BY <1>0, <2>1, <2>2, <2>3 DEF Placed
<1>2. ASSUME GetRecord PROVE Placed'
  <2> DEFINE h == record'
  <2>1. /\ h \in Records
        /\ InQueue(h) /\ \A i \in DOMAIN queue' : queue'[i] # h
        /\ \A s \in Records : InQueue(s) <=> InQueue(s)' \/ s = h
        /\ Distinct'
    <3>1. PICK x : x = Head(queue)
      OBVIOUS
    <3>2. /\ x \in Records
          /\ InQueue(x) /\ ~InQueue(x)'
          /\ \A s \in Records : InQueue(s) <=> InQueue(s)' \/ s = x
          /\ Distinct'
      BY <1>0, <1>2, <3>1, QueueTail DEF GetRecord
    <3>3. x = h
      BY <1>2, <3>1 DEF GetRecord
    <3> QED
      BY <3>2, <3>3 DEF InQueue
  <2>2. record = NoRecord
    BY <1>2 DEF GetRecord, IInv, InHand
  <2>3. ASSUME NEW s \in Records PROVE Places(s)' = 1
    <3>1. Places(s) = 1 /\ (InBatch(s)' <=> InBatch(s))
      BY <1>0, <1>2 DEF GetRecord, InBatch
    <3>2. InQueue(s) <=> InQueue(s)' \/ s = h
      BY <2>1
    <3>3. s = h => InQueue(s) /\ ~InQueue(s)'
      BY <2>1 DEF InQueue
    <3> QED
      BY <1>2, <1>t, <2>2, <3>1, <3>2, <3>3 DEF GetRecord, Places, One
  <2> QED
    BY <2>1, <2>3 DEF Placed
\* The other steps do not touch the queue.
<1>3. ASSUME queue' = queue, \A s \in Records : Places(s)' = 1
      PROVE  Placed'
  BY <1>0, <1>3 DEF Placed, Distinct
<1>4. ASSUME queue' = queue
      PROVE  \A s \in Records : InQueue(s)' <=> InQueue(s)
  BY <1>4 DEF InQueue
<1>5. ASSUME batches' = batches
      PROVE  \A s \in Records : InBatch(s)' <=> InBatch(s)
  BY <1>5 DEF InBatch
<1>6. ASSUME UNCHANGED <<feed, record, records, batches, uploaded, failed>>
      PROVE  Placed'
  <2>1. ASSUME NEW s \in Records PROVE Places(s)' = 1
    BY <1>0, <1>4, <1>5, <1>6 DEF Places, One
  <2> QED
    BY <1>3, <1>6, <2>1
<1>7. ASSUME DropUnkeyed PROVE Placed'
  <2>1. record \in Records
    BY <1>0, <1>7 DEF DropUnkeyed, IInv, InHand, TypeOK
  <2>2. ASSUME NEW s \in Records PROVE Places(s)' = 1
    <3>1. Places(s) = 1 /\ (InQueue(s)' <=> InQueue(s)) /\ (InBatch(s)' <=> InBatch(s))
      BY <1>0, <1>4, <1>5, <1>7 DEF DropUnkeyed
    <3>2. s \in failed'[s.table] <=> s \in failed[s.table] \/ s = record
      BY <1>0, <1>7, <1>t, <2>1 DEF DropUnkeyed, Report, TypeOK
    <3> QED
      BY <1>7, <1>t, <3>1, <3>2 DEF DropUnkeyed, Places, One
  <2> QED
    BY <1>3, <1>7, <2>2 DEF DropUnkeyed
<1>8. ASSUME WriteRow \/ MovedOn PROVE Placed'
  <2>1. ASSUME NEW s \in Records PROVE Places(s)' = 1
    <3>1. Places(s) = 1 /\ (InQueue(s)' <=> InQueue(s)) /\ (InBatch(s)' <=> InBatch(s))
      BY <1>0, <1>4, <1>5, <1>8 DEF WriteRow, MovedOn
    <3> QED
      BY <1>8, <1>t, <3>1 DEF WriteRow, MovedOn, Places, One
  <2> QED
    BY <1>3, <1>8, <2>1 DEF WriteRow, MovedOn
<1>9. ASSUME NEW vs \in SUBSET Visits, CreateBatches(vs),
             UNCHANGED <<feed, record, uploaded>>
      PROVE  Placed'
  <2>1. ASSUME NEW s \in Records PROVE Places(s)' = 1
    <3>1. Places(s) = 1 /\ (InQueue(s)' <=> InQueue(s))
      BY <1>0, <1>4, <1>9
    <3>2. /\ s \in records' <=> (s \in records /\ s.visit \notin vs)
          /\ ~ (s \in records /\ s.visit \in vs) =>
               /\ InBatch(s)' <=> InBatch(s)
               /\ s \in failed'[s.table] <=> s \in failed[s.table]
          /\ s \in records /\ s.visit \in vs /\ ~InBatch(s) /\ s \notin failed[s.table] =>
               (InBatch(s)' <=> s \notin failed'[s.table])
      BY <1>0, <1>9, BatchesPlace
    <3> QED
      BY <1>9, <3>1, <3>2 DEF Places, One
  <2> QED
    BY <1>3, <1>9, <2>1
<1>10. ASSUME MoveOn PROVE Placed'
  <2>1. record \in Records
    BY <1>0, <1>10 DEF MoveOn, IInv, InHand, TypeOK
  <2>2. {browserMap[record.crawl]} \in SUBSET Visits
    BY <1>0, <2>1, RecordParts DEF TypeOK
  <2> QED
    BY <1>9, <1>10, <2>2 DEF MoveOn
<1>11. ASSUME WriteContent PROVE Placed'
  <2>1. record \in Records
    BY <1>0, <1>11 DEF WriteContent, IInv, InHand, TypeOK
  <2>2. ASSUME NEW s \in Records PROVE Places(s)' = 1
    <3>1. Places(s) = 1 /\ (InQueue(s)' <=> InQueue(s)) /\ (InBatch(s)' <=> InBatch(s))
      BY <1>0, <1>4, <1>5, <1>11 DEF WriteContent
    <3>2. \/ /\ s \in uploaded'[s.table] <=> s \in uploaded[s.table] \/ s = record
             /\ failed' = failed
          \/ /\ s \in failed'[s.table] <=> s \in failed[s.table] \/ s = record
             /\ uploaded' = uploaded
      <4>1. \/ failed' = failed /\ uploaded' = [uploaded EXCEPT ![Content] = @ \cup {record}]
            \/ uploaded' = uploaded /\ failed' = [failed EXCEPT ![Content] = @ \cup {record}]
        BY <1>11 DEF WriteContent, Report
      <4>2. record.table = Content
        BY <1>11 DEF WriteContent
      <4> QED
        BY <1>0, <1>t, <2>1, <4>1, <4>2 DEF TypeOK
    <3> QED
      BY <1>11, <1>t, <3>1, <3>2 DEF WriteContent, Places, One
  <2> QED
    BY <1>3, <1>11, <2>2 DEF WriteContent
<1>12. ASSUME NEW t \in Files, SendTable(t) PROVE Placed'
  <2>1. ASSUME NEW s \in Records PROVE Places(s)' = 1
    <3>1. Places(s) = 1 /\ (InQueue(s)' <=> InQueue(s))
      BY <1>0, <1>4, <1>12 DEF SendTable
    <3>2. CASE s.table # t
      <4>1. /\ batches'[s.table] = batches[s.table] \/ s.table \notin Files
            /\ uploaded'[s.table] = uploaded[s.table]
            /\ failed'[s.table] = failed[s.table]
        BY <1>0, <1>12, <1>t, <3>2 DEF SendTable, ClearBatches, Report, TypeOK
      <4>2. InBatch(s)' <=> InBatch(s)
        BY <4>1 DEF InBatch, Files
      <4> QED
        BY <1>12, <3>1, <4>1, <4>2 DEF SendTable, Places, One
    <3>3. CASE s.table = t
      <4>1. s.table \in Tables
        BY <3>3, RecordsAssumption DEF Files
      <4>2. ~InBatch(s)'
        BY <1>0, <1>12, <3>3 DEF SendTable, ClearBatches, TypeOK, InBatch
      <4>3. \/ /\ s \in uploaded'[s.table] <=> s \in uploaded[s.table] \/ InBatch(s)
               /\ failed' = failed
            \/ /\ s \in failed'[s.table] <=> s \in failed[s.table] \/ InBatch(s)
               /\ uploaded' = uploaded
        BY <1>0, <1>12, <1>t, <3>3, <4>1 DEF SendTable, Report, TypeOK, InBatch
      <4> QED
        BY <1>12, <3>1, <4>2, <4>3 DEF SendTable, Places, One
    <3> QED
      BY <3>2, <3>3
  <2> QED
    BY <1>3, <1>12, <2>1 DEF SendTable
<1>13. ASSUME Flush PROVE Placed'
  <2>1. {browserMap[c] : c \in Crawls} \ {Unkeyed} \in SUBSET Visits
    BY <1>0 DEF TypeOK
  <2> QED
    BY <1>9, <1>13, <2>1 DEF Flush
<1>14. ASSUME PastTimeout \/ NotPastTimeout \/ ShouldShutdown \/ GetTimeout \/ Flushed \/ Die \/ Signal
                \/ Kill \/ UNCHANGED vars
       PROVE  Placed'
  BY <1>6, <1>14 DEF PastTimeout, NotPastTimeout, ShouldShutdown, GetTimeout, Flushed, Die, Signal,
     Kill, vars
<1> QED
  BY <1>1, <1>2, <1>7, <1>8, <1>10, <1>11, <1>12, <1>13, <1>14 DEF Next, Listener

\* A record whose places sum up to one is at one of them.
LEMMA OnePlaceCounted == Placed => OnePlace
<1> SUFFICES ASSUME Placed, NEW r \in Records
             PROVE  LET at == [coming   |-> r \in coming,
                               queue    |-> \E i \in DOMAIN queue : queue[i] = r,
                               record   |-> r = record,
                               records  |-> r \in records,
                               batches  |-> r.table \in Tables /\ r \in UNION batches[r.table],
                               uploaded |-> r \in uploaded[r.table],
                               failed   |-> r \in failed[r.table]]
                    IN Cardinality({p \in DOMAIN at : at[p]}) = 1
  BY DEF OnePlace
<1> DEFINE at == [coming   |-> r \in coming,
                  queue    |-> InQueue(r),
                  record   |-> r = record,
                  records  |-> r \in records,
                  batches  |-> InBatch(r),
                  uploaded |-> r \in uploaded[r.table],
                  failed   |-> r \in failed[r.table]]
<1>1. Places(r) = 1
  BY DEF Placed
<1>2. DOMAIN at = {"coming", "queue", "record", "records", "batches", "uploaded", "failed"}
  OBVIOUS
<1>3. /\ at["coming"] <=> r \in coming
      /\ at["queue"] <=> InQueue(r)
      /\ at["record"] <=> r = record
      /\ at["records"] <=> r \in records
      /\ at["batches"] <=> InBatch(r)
      /\ at["uploaded"] <=> r \in uploaded[r.table]
      /\ at["failed"] <=> r \in failed[r.table]
  BY DEF InQueue, InBatch
<1> HIDE DEF at
<1>5. PICK q : {p \in DOMAIN at : at[p]} = {q}
  <2>1. \/ at["coming"] \/ at["queue"] \/ at["record"] \/ at["records"]
        \/ at["batches"] \/ at["uploaded"] \/ at["failed"]
    BY <1>1, <1>3 DEF Places, One
  <2>2. CASE at["coming"]
    <3>1. \A p \in DOMAIN at : at[p] <=> p = "coming"
      BY <1>1, <1>2, <1>3, <2>2 DEF Places, One
    <3> QED
      BY <1>2, <3>1
  <2>3. CASE at["queue"]
    <3>1. \A p \in DOMAIN at : at[p] <=> p = "queue"
      BY <1>1, <1>2, <1>3, <2>3 DEF Places, One
    <3> QED
      BY <1>2, <3>1
  <2>4. CASE at["record"]
    <3>1. \A p \in DOMAIN at : at[p] <=> p = "record"
      BY <1>1, <1>2, <1>3, <2>4 DEF Places, One
    <3> QED
      BY <1>2, <3>1
  <2>5. CASE at["records"]
    <3>1. \A p \in DOMAIN at : at[p] <=> p = "records"
      BY <1>1, <1>2, <1>3, <2>5 DEF Places, One
    <3> QED
      BY <1>2, <3>1
  <2>6. CASE at["batches"]
    <3>1. \A p \in DOMAIN at : at[p] <=> p = "batches"
      BY <1>1, <1>2, <1>3, <2>6 DEF Places, One
    <3> QED
      BY <1>2, <3>1
  <2>7. CASE at["uploaded"]
    <3>1. \A p \in DOMAIN at : at[p] <=> p = "uploaded"
      BY <1>1, <1>2, <1>3, <2>7 DEF Places, One
    <3> QED
      BY <1>2, <3>1
  <2>8. CASE at["failed"]
    <3>1. \A p \in DOMAIN at : at[p] <=> p = "failed"
      BY <1>1, <1>2, <1>3, <2>8 DEF Places, One
    <3> QED
      BY <1>2, <3>1
  <2> QED
    BY <2>1, <2>2, <2>3, <2>4, <2>5, <2>6, <2>7, <2>8
<1>4. Cardinality({p \in DOMAIN at : at[p]}) = 1
  BY <1>5, FS_Singleton
<1> QED
  BY <1>4 DEF at, InQueue, InBatch

\* The places of every record always sum up to one.
THEOREM PlacedAlways == Spec => []Placed
<1>1. Init => Placed
  <2> SUFFICES ASSUME Init PROVE Placed
    OBVIOUS
  <2>1. Distinct
    BY DEF Init, Distinct
  <2>2. ASSUME NEW r \in Records PROVE Places(r) = 1
    <3>1. r # NoRecord /\ r.table \in Files \cup {Content} /\ (r.table \in Tables => r.table \in Files)
      BY RecordParts DEF Files
    <3>2. ~InQueue(r) /\ ~InBatch(r)
      BY <3>1 DEF Init, InQueue, InBatch
    <3> QED
      BY <3>1, <3>2 DEF Init, Places, One
  <2> QED
    BY <2>1, <2>2 DEF Placed
<1>2. IInv /\ Placed /\ [Next]_vars => Placed'
  BY PlacedStep
<1> QED
  BY <1>1, <1>2, Safety, PTL DEF Spec

\* Every record is at one place, once (OnePlace): none is lost without a
\* trace and none is uploaded twice, for any records in any order.
THEOREM OnePlaceAlways == Spec => []OnePlace
BY PlacedAlways, OnePlaceCounted, PTL

------------------------------------------------------------------------------
(* The index of site_visits.                                                *)

\* The item of a row in the index: kept in a batch, uploaded or reported.
Items(r) ==
  One(r \in UNION batches[Index]) + One(r \in uploaded[Index]) + One(r \in failed[Index])

\* The row has yet to be turned into a batch.
Unbatched(r) == r \in coming \/ InQueue(r) \/ r = record \/ r \in records

Visited == {r \in Records : r.table = SiteVisits /\ r.visit # Unkeyed}

Indexed == \A r \in Visited : Items(r) = IF Unbatched(r) THEN 0 ELSE 1

\* What _create_batch does to the index: it gets an item for each row of
\* site_visits of these visits.
LEMMA BatchesIndex ==
  ASSUME TypeOK, NEW vs \in SUBSET Visits, CreateBatches(vs), NEW r \in Visited
  PROVE  /\ r \in UNION batches'[Index]
              <=> r \in UNION batches[Index] \/ (r \in records /\ r.visit \in vs)
         /\ failed'[Index] = failed[Index]
<1> DEFINE rows(v, t) == {s \in records : s.visit = v /\ s.table = t}
           keys == {<<s.visit, s.table>> : s \in {x \in records : x.visit \in vs}}
           items == {{s} : s \in {x \in records : x.visit \in vs /\ x.table = SiteVisits}}
<1>1. PICK invalid \in SUBSET keys :
        /\ batches' = [t \in Files |-> batches[t] \cup
             IF t = Index THEN items
             ELSE {rows(k[1], t) : k \in {l \in keys \ invalid : l[2] = t}}]
        /\ failed' = [t \in DOMAIN failed |-> failed[t] \cup
             UNION {rows(k[1], t) : k \in {l \in invalid : l[2] = t}}]
  BY DEF CreateBatches
<1>2. Index \in Files /\ Index \in DOMAIN failed
  BY DEF Files, TypeOK
<1>3. batches'[Index] = batches[Index] \cup items
  BY <1>1, <1>2
<1>4. r \in UNION items <=> r \in records /\ r.visit \in vs
  BY DEF Visited
<1>5. \A k \in keys : k[2] # Index
  BY RecordsAssumption DEF TypeOK, Rows
<1>6. failed'[Index] = failed[Index] \cup UNION {rows(k[1], Index) : k \in {l \in invalid : l[2] = Index}}
  BY <1>1, <1>2
<1>7. {rows(k[1], Index) : k \in {l \in invalid : l[2] = Index}} = {}
  BY <1>5
<1> HIDE DEF items, rows, keys
<1>8. r \in UNION batches'[Index] <=> r \in UNION batches[Index] \/ r \in UNION items
  BY <1>3
<1> QED
  BY <1>4, <1>6, <1>7, <1>8

\* Every step keeps the index in step with the rows.
LEMMA IndexedStep ==
  ASSUME IInv, Placed, Indexed, [Next]_vars
  PROVE  Indexed'
<1>0. /\ TypeOK /\ TypeOK' /\ Visited \subseteq Records
      /\ \A r \in Visited : Items(r) = IF Unbatched(r) THEN 0 ELSE 1
      /\ \A r \in Records : Places(r) = 1 /\ Places(r)' = 1
      /\ \A r \in Records : r # NoRecord
  BY TypeStep, PlacedStep, RecordParts DEF IInv, Placed, Indexed, Visited
<1> USE DEF feed, control, memory, bucket
<1>1. ASSUME UNCHANGED <<batches, uploaded, failed>>
      PROVE  Indexed'
  <2> SUFFICES ASSUME NEW r \in Visited PROVE Items(r)' = IF Unbatched(r)' THEN 0 ELSE 1
    BY DEF Indexed
  <2>1. Items(r)' = Items(r) /\ (InBatch(r)' <=> InBatch(r))
    BY <1>1 DEF Items, InBatch
  <2>2. Places(r) = 1 /\ Places(r)' = 1
    BY <1>0
  <2>3. Unbatched(r) <=> ~ (InBatch(r) \/ r \in uploaded[r.table] \/ r \in failed[r.table])
    BY <2>2 DEF Unbatched, Places, One
  <2>4. Unbatched(r)' <=> ~ (InBatch(r) \/ r \in uploaded[r.table] \/ r \in failed[r.table])
    BY <1>1, <2>1, <2>2 DEF Unbatched, Places, One
  <2> QED
    BY <1>0, <2>1, <2>3, <2>4
<1>3. ASSUME DropUnkeyed PROVE Indexed'
  <2> SUFFICES ASSUME NEW r \in Visited PROVE Items(r)' = IF Unbatched(r)' THEN 0 ELSE 1
    BY DEF Indexed
  <2>1. record \in Records /\ record.table # Index /\ r # record
    BY <1>0, <1>3, RecordsAssumption DEF DropUnkeyed, IInv, InHand, TypeOK, Visited
  <2>2. failed'[Index] = failed[Index]
    BY <1>0, <1>3, <2>1 DEF DropUnkeyed, Report, TypeOK, Files
  <2>3. Items(r)' = Items(r)
    BY <1>3, <2>2 DEF DropUnkeyed, Items
  <2>4. Unbatched(r)' <=> Unbatched(r)
    BY <1>0, <1>3, <2>1 DEF DropUnkeyed, Unbatched, InQueue
  <2> QED
    BY <1>0, <2>3, <2>4
<1>4. ASSUME NEW vs \in SUBSET Visits, CreateBatches(vs),
             UNCHANGED <<feed, record, uploaded>>
      PROVE  Indexed'
  <2> SUFFICES ASSUME NEW r \in Visited PROVE Items(r)' = IF Unbatched(r)' THEN 0 ELSE 1
    BY DEF Indexed
  <2>1. /\ r \in UNION batches'[Index]
             <=> r \in UNION batches[Index] \/ (r \in records /\ r.visit \in vs)
        /\ failed'[Index] = failed[Index]
    BY <1>0, <1>4, BatchesIndex
  <2>2. r \in records' <=> (r \in records /\ r.visit \notin vs)
    BY <1>0, <1>4, BatchesPlace
  <2>3. InQueue(r)' <=> InQueue(r)
    BY <1>4 DEF InQueue
  <2>4. Items(r) = (IF Unbatched(r) THEN 0 ELSE 1) /\ Places(r) = 1
    BY <1>0
  <2>5. r \in records => ~ (r \in coming \/ InQueue(r) \/ r = record)
    BY <2>4 DEF Places, One
  <2> QED
    BY <1>4, <2>1, <2>2, <2>3, <2>4, <2>5 DEF Items, One, Unbatched
<1>5. ASSUME MoveOn PROVE Indexed'
  <2>1. record \in Records
    BY <1>0, <1>5 DEF MoveOn, IInv, InHand, TypeOK
  <2>2. {browserMap[record.crawl]} \in SUBSET Visits
    BY <1>0, <2>1, RecordParts DEF TypeOK
  <2> QED
    BY <1>4, <1>5, <2>2 DEF MoveOn
<1>6. ASSUME Flush PROVE Indexed'
  <2>1. {browserMap[c] : c \in Crawls} \ {Unkeyed} \in SUBSET Visits
    BY <1>0 DEF TypeOK
  <2> QED
    BY <1>4, <1>6, <2>1 DEF Flush
<1>7. ASSUME WriteContent PROVE Indexed'
  <2> SUFFICES ASSUME NEW r \in Visited PROVE Items(r)' = IF Unbatched(r)' THEN 0 ELSE 1
    BY DEF Indexed
  <2>1. r # record
    BY <1>7 DEF WriteContent, Visited, Content, SiteVisits
  <2>2. uploaded'[Index] = uploaded[Index] /\ failed'[Index] = failed[Index]
    <3>1. \/ failed' = failed /\ uploaded' = [uploaded EXCEPT ![Content] = @ \cup {record}]
          \/ uploaded' = uploaded /\ failed' = [failed EXCEPT ![Content] = @ \cup {record}]
      BY <1>7 DEF WriteContent, Report
    <3>2. Index \in Files /\ Index # Content
      BY DEF Files, Index, Content
    <3> QED
      BY <1>0, <3>1, <3>2 DEF TypeOK
  <2>3. Items(r)' = Items(r)
    BY <1>7, <2>2 DEF WriteContent, Items
  <2>4. Unbatched(r)' <=> Unbatched(r)
    BY <1>0, <1>7, <2>1 DEF WriteContent, Unbatched, InQueue
  <2> QED
    BY <1>0, <2>3, <2>4
<1>8. ASSUME NEW t \in Files, SendTable(t) PROVE Indexed'
  <2> SUFFICES ASSUME NEW r \in Visited PROVE Items(r)' = IF Unbatched(r)' THEN 0 ELSE 1
    BY DEF Indexed
  <2>1. Unbatched(r)' <=> Unbatched(r)
    BY <1>8 DEF SendTable, Unbatched, InQueue
  <2>2. Index \in Files
    BY DEF Files
  <2>3. CASE t # Index
    <3>1. /\ batches'[Index] = batches[Index] /\ uploaded'[Index] = uploaded[Index]
          /\ failed'[Index] = failed[Index]
      BY <1>0, <1>8, <2>2, <2>3 DEF SendTable, ClearBatches, Report, TypeOK
    <3> QED
      BY <1>0, <2>1, <3>1 DEF Items
  <2>4. CASE t = Index
    <3>1. r \notin UNION batches'[Index]
      BY <1>0, <1>8, <2>2, <2>4 DEF SendTable, ClearBatches, TypeOK
    <3>2. \/ /\ r \in uploaded'[Index] <=> r \in uploaded[Index] \/ r \in UNION batches[Index]
             /\ failed' = failed
          \/ /\ r \in failed'[Index] <=> r \in failed[Index] \/ r \in UNION batches[Index]
             /\ uploaded' = uploaded
      BY <1>0, <1>8, <2>2, <2>4 DEF SendTable, Report, TypeOK
    <3> QED
      BY <1>0, <2>1, <3>1, <3>2 DEF Items, One
  <2> QED
    BY <2>3, <2>4
<1>9. ASSUME (\E r \in Records : Enqueue(r)) \/ PastTimeout \/ NotPastTimeout \/ ShouldShutdown
               \/ GetRecord \/ GetTimeout \/ WriteRow \/ MovedOn \/ Flushed \/ Die \/ Signal \/ Kill
               \/ UNCHANGED vars
      PROVE  Indexed'
  BY <1>1, <1>9 DEF Enqueue, PastTimeout, NotPastTimeout, ShouldShutdown, GetRecord, GetTimeout,
     WriteRow, MovedOn, Flushed, Die, Signal, Kill, vars
<1> QED
  BY <1>3, <1>5, <1>6, <1>7, <1>8, <1>9 DEF Next, Listener

\* Items counted are items in one place.
LEMMA IndexCounted == Placed /\ Indexed => IndexComplete
<1> SUFFICES ASSUME Placed, Indexed, NEW r \in Records, r.table = SiteVisits, r.visit # Unkeyed
             PROVE  LET at == [batches  |-> r \in UNION batches[Index],
                               uploaded |-> r \in uploaded[Index],
                               failed   |-> r \in failed[Index]]
                    IN Cardinality({p \in DOMAIN at : at[p]}) =
                         IF \/ r \in coming \cup records \cup {record}
                            \/ \E i \in DOMAIN queue : queue[i] = r
                         THEN 0 ELSE 1
  BY DEF IndexComplete
<1> DEFINE at == [batches  |-> r \in UNION batches[Index],
                  uploaded |-> r \in uploaded[Index],
                  failed   |-> r \in failed[Index]]
<1>1. Items(r) = IF Unbatched(r) THEN 0 ELSE 1
  BY DEF Indexed, Visited
<1>2. DOMAIN at = {"batches", "uploaded", "failed"}
  OBVIOUS
<1>3. /\ at["batches"] <=> r \in UNION batches[Index]
      /\ at["uploaded"] <=> r \in uploaded[Index]
      /\ at["failed"] <=> r \in failed[Index]
  OBVIOUS
<1> HIDE DEF at
<1>4. Unbatched(r) <=> (\/ r \in coming \cup records \cup {record}
                        \/ \E i \in DOMAIN queue : queue[i] = r)
  BY DEF Unbatched, InQueue
<1>5. CASE Unbatched(r)
  <2>1. {p \in DOMAIN at : at[p]} = {}
    BY <1>1, <1>2, <1>3, <1>5 DEF Items, One
  <2>2. Cardinality({p \in DOMAIN at : at[p]}) = 0
    BY <2>1, FS_EmptySet
  <2> QED
    BY <1>4, <1>5, <2>2 DEF at
<1>6. CASE ~Unbatched(r)
  <2>1. PICK q : {p \in DOMAIN at : at[p]} = {q}
    <3>1. at["batches"] \/ at["uploaded"] \/ at["failed"]
      BY <1>1, <1>3, <1>6 DEF Items, One
    <3>2. CASE at["batches"]
      <4>1. \A p \in DOMAIN at : at[p] <=> p = "batches"
        BY <1>1, <1>2, <1>3, <1>6, <3>2 DEF Items, One
      <4> QED
        BY <1>2, <4>1
    <3>3. CASE at["uploaded"]
      <4>1. \A p \in DOMAIN at : at[p] <=> p = "uploaded"
        BY <1>1, <1>2, <1>3, <1>6, <3>3 DEF Items, One
      <4> QED
        BY <1>2, <4>1
    <3>4. CASE at["failed"]
      <4>1. \A p \in DOMAIN at : at[p] <=> p = "failed"
        BY <1>1, <1>2, <1>3, <1>6, <3>4 DEF Items, One
      <4> QED
        BY <1>2, <4>1
    <3> QED
      BY <3>1, <3>2, <3>3, <3>4
  <2>2. Cardinality({p \in DOMAIN at : at[p]}) = 1
    BY <2>1, FS_Singleton
  <2> QED
    BY <1>4, <1>6, <2>2 DEF at
<1> QED
  BY <1>5, <1>6

\* The index has one item for each row of site_visits that was batched
\* (IndexComplete), whether or not the batch was valid.
THEOREM IndexAlways == Spec => []IndexComplete
<1>1. Init => Indexed
  <2> SUFFICES ASSUME Init, NEW r \in Visited PROVE Items(r) = IF Unbatched(r) THEN 0 ELSE 1
    BY DEF Indexed
  <2>1. r \in coming /\ Index \in Files
    BY DEF Init, Visited, Files
  <2> QED
    BY <2>1 DEF Init, Items, One, Unbatched
<1>2. IInv /\ Placed /\ Indexed /\ [Next]_vars => Indexed'
  BY IndexedStep
<1> QED
  BY <1>1, <1>2, PlacedAlways, IndexCounted, Safety, PTL DEF Spec

------------------------------------------------------------------------------
(* Page content.                                                            *)

\* The cache of the listener knows only hashes that are stored.
Kept == cache \subseteq stored /\ ContentKept

LEMMA KeptStep ==
  ASSUME TypeOK, Kept, [Next]_vars
  PROVE  Kept'
<1> USE DEF feed, control, memory, bucket, Kept, ContentKept
<1>1. ASSUME UNCHANGED <<cache, stored, uploaded>> PROVE Kept'
  BY <1>1
<1>2. ASSUME WriteContent PROVE Kept'
  <2>1. \/ /\ record.visit \in cache \cup stored
           /\ cache' = cache \cup {record.visit} /\ stored' = stored
           /\ uploaded' = [uploaded EXCEPT ![Content] = @ \cup {record}]
        \/ /\ cache' = cache \cup {record.visit} /\ stored' = stored \cup {record.visit}
           /\ uploaded' = [uploaded EXCEPT ![Content] = @ \cup {record}]
        \/ UNCHANGED <<cache, stored, uploaded>>
    BY <1>2 DEF WriteContent, Remember
  <2>2. [uploaded EXCEPT ![Content] = @ \cup {record}][Content] = uploaded[Content] \cup {record}
    BY DEF TypeOK
  <2> QED
    BY <2>1, <2>2
<1>3. ASSUME NEW t \in Files, SendTable(t) PROVE Kept'
  <2>1. Content # t
    BY DEF Files, Tables, Rows, Content, SiteVisits, Index
  <2>2. uploaded'[Content] = uploaded[Content]
    BY <1>3, <2>1 DEF SendTable, TypeOK
  <2> QED
    BY <1>3, <2>2 DEF SendTable
<1> QED
  BY <1>1, <1>2, <1>3 DEF Next, Listener, Enqueue, PastTimeout, NotPastTimeout, ShouldShutdown,
     GetRecord, GetTimeout, DropUnkeyed, WriteRow, MoveOn, MovedOn, Flush, Flushed, Die, Signal,
     Kill, vars

\* Content that was taken to be on S3 already is on S3 (ContentKept).
THEOREM ContentAlways == Spec => []ContentKept
<1>1. Init => Kept
  BY DEF Init, Kept, ContentKept
<1>2. Kept => ContentKept
  BY DEF Kept
<1> QED
  BY <1>1, <1>2, KeptStep, TypeCorrect, PTL DEF Spec

------------------------------------------------------------------------------
(* The ledger.                                                              *)

\* What the ledger's variables stand for.
Waiting == {r \in Records : r \in coming \/ InQueue(r)}
Held    == {r \in Records : r = record \/ r \in records \/ InBatch(r)}
Stored  == {r \in Records : r \in uploaded[r.table]}
Lost    == {r \in Records : r \in failed[r.table]}
End     == IF pc \notin Gone THEN "no" ELSE IF pc = "exited" THEN "exited" ELSE "crashed"

\* A record is waiting, held, stored or lost, and only one of these.
Classes ==
  /\ Records = Waiting \cup Held \cup Stored \cup Lost
  /\ Waiting \cap Held = {} /\ Waiting \cap Stored = {} /\ Waiting \cap Lost = {}
  /\ Held \cap Stored = {} /\ Held \cap Lost = {} /\ Stored \cap Lost = {}

LEMMA OneClass == Placed => Classes
<1> SUFFICES ASSUME Placed PROVE Classes
  OBVIOUS
<1>1. ASSUME NEW r \in Records
      PROVE  /\ r \in Waiting <=> ~ (r \in Held \/ r \in Stored \/ r \in Lost)
             /\ r \in Held <=> ~ (r \in Waiting \/ r \in Stored \/ r \in Lost)
             /\ ~ (r \in Stored /\ r \in Lost)
  <2>1. Places(r) = 1
    BY DEF Placed
  <2> QED
    BY <2>1 DEF Places, One, Waiting, Held, Stored, Lost
<1>2. Waiting \cup Held \cup Stored \cup Lost \subseteq Records
  BY DEF Waiting, Held, Stored, Lost
<1> QED
  BY <1>1, <1>2 DEF Classes

\* Nor is it two of these after a step.
LEMMA OneClassAfter == Placed' => Classes'
BY OneClass, PTL

\* The ledger's actions, said of these sets.
LEMMA LedgerActions ==
  /\ \A r \in Waiting :
       /\ End = "no" /\ UNCHANGED <<Stored, Lost, End>>
       /\ Waiting' = Waiting \ {r} /\ Held' = Held \cup {r}
       => Ledger!Next
  /\ \A K, F \in SUBSET Held :
       /\ K \cap F = {} /\ End = "no" /\ UNCHANGED <<Waiting, End>>
       /\ Stored' = Stored \cup K /\ Lost' = Lost \cup F /\ Held' = Held \ (K \cup F)
       => Ledger!Next
  /\ End = "no" /\ Held = {} /\ End' = "exited" /\ UNCHANGED <<Waiting, Held, Stored, Lost>>
       => Ledger!Next
  /\ End = "no" /\ End' = "crashed" /\ UNCHANGED <<Waiting, Held, Stored, Lost>> => Ledger!Next
  /\ UNCHANGED <<Waiting, Held, Stored, Lost, End>> => UNCHANGED Ledger!ledger
<1> USE DEF Waiting, Held, Stored, Lost, End, InQueue, InBatch
<1>1. ASSUME NEW r \in Waiting, End = "no", UNCHANGED <<Stored, Lost, End>>,
             Waiting' = Waiting \ {r}, Held' = Held \cup {r}
      PROVE  Ledger!Next
  BY <1>1 DEF Ledger!Next, Ledger!Take
<1>2. ASSUME NEW K \in SUBSET Held, NEW F \in SUBSET Held, K \cap F = {}, End = "no",
             UNCHANGED <<Waiting, End>>, Stored' = Stored \cup K, Lost' = Lost \cup F,
             Held' = Held \ (K \cup F)
      PROVE  Ledger!Next
  <2>1. Ledger!Settle(K, F)
    BY <1>2 DEF Ledger!Settle
  <2>2. F = (K \cup F) \ K /\ K \cup F \in SUBSET Held /\ K \in SUBSET (K \cup F)
    BY <1>2
  <2> QED
    BY <2>1, <2>2 DEF Ledger!Next
<1>3. ASSUME End = "no", Held = {}, End' = "exited", UNCHANGED <<Waiting, Held, Stored, Lost>>
      PROVE  Ledger!Next
  BY <1>3 DEF Ledger!Next, Ledger!Exit
<1>4. ASSUME End = "no", End' = "crashed", UNCHANGED <<Waiting, Held, Stored, Lost>>
      PROVE  Ledger!Next
  BY <1>4 DEF Ledger!Next, Ledger!Crash
<1>5. ASSUME UNCHANGED <<Waiting, Held, Stored, Lost, End>>
      PROVE  UNCHANGED Ledger!ledger
  BY <1>5 DEF Ledger!ledger
<1> QED
  BY <1>1, <1>2, <1>3, <1>4, <1>5

\* A step of a listener that runs on settles records if it takes none and
\* undoes nothing.
LEMMA SettleStep ==
  ASSUME Placed, Placed', pc \notin Gone, pc' \notin Gone,
         Waiting' = Waiting, Stored \subseteq Stored', Lost \subseteq Lost'
  PROVE  Ledger!Next
<1> DEFINE K == Stored' \ Stored
           F == Lost' \ Lost
<1>1. Classes /\ Classes'
  BY OneClass, OneClassAfter
<1>2. K \in SUBSET Held /\ F \in SUBSET Held /\ K \cap F = {}
  BY <1>1 DEF Classes
<1>3. Stored' = Stored \cup K /\ Lost' = Lost \cup F
  OBVIOUS
<1>4. Held' = Held \ (K \cup F)
  BY <1>1 DEF Classes
<1>5. End = "no" /\ End' = "no"
  BY DEF End
<1> HIDE DEF K, F
<1> QED
  BY <1>2, <1>3, <1>4, <1>5, LedgerActions

\* Every step of the aggregator is a step of the ledger, or changes nothing in it.
LEMMA LedgerStep ==
  ASSUME IInv, Placed, Placed', [Next]_vars
  PROVE  [Ledger!Next]_(Ledger!ledger)
<1>0. TypeOK /\ Distinct
  BY DEF IInv, Placed
<1>t. \A r \in Records : r # NoRecord /\ r.table \in Files \cup {Content}
  BY RecordParts
<1> USE DEF feed, control, memory, bucket
<1>1. ASSUME UNCHANGED <<record, records, batches, uploaded, failed>>
      PROVE  UNCHANGED <<Held, Stored, Lost>>
  BY <1>1 DEF Held, Stored, Lost, InBatch
<1>2. ASSUME UNCHANGED feed
      PROVE  Waiting' = Waiting
  BY <1>2 DEF Waiting, InQueue
\* No record is taken, stored or lost.
<1>3. ASSUME UNCHANGED <<feed, record, records, batches, uploaded, failed>>, End' = End
      PROVE  [Ledger!Next]_(Ledger!ledger)
  BY <1>1, <1>2, <1>3, LedgerActions
<1>4. ASSUME NEW r \in Records, Enqueue(r) PROVE [Ledger!Next]_(Ledger!ledger)
  <2>1. \A s \in Records : InQueue(s)' <=> InQueue(s) \/ s = r
    BY <1>0, <1>4, QueueAppend DEF Enqueue
  <2>2. Waiting' = Waiting
    BY <1>4, <2>1 DEF Enqueue, Waiting
  <2>3. End' = End
    BY <1>4 DEF Enqueue, End
  <2> QED
    BY <1>1, <1>4, <2>2, <2>3, LedgerActions DEF Enqueue
<1>5. ASSUME GetRecord PROVE [Ledger!Next]_(Ledger!ledger)
  <2>1. PICK h : h = Head(queue)
    OBVIOUS
  <2>2. /\ h \in Records
        /\ InQueue(h) /\ ~InQueue(h)'
        /\ \A s \in Records : InQueue(s) <=> InQueue(s)' \/ s = h
    BY <1>0, <1>5, <2>1, QueueTail DEF GetRecord
  <2>3. h \notin coming
    <3>1. Places(h) = 1
      BY <2>2 DEF Placed
    <3> QED
      BY <2>2, <3>1 DEF Places, One
  <2>4. h \in Waiting /\ Waiting' = Waiting \ {h}
    BY <1>5, <2>2, <2>3 DEF GetRecord, Waiting
  <2>5. record = NoRecord /\ record' = h
    BY <1>5, <2>1 DEF GetRecord, IInv, InHand
  <2>6. Held' = Held \cup {h}
    BY <1>5, <1>t, <2>2, <2>5 DEF GetRecord, Held, InBatch
  <2>7. UNCHANGED <<Stored, Lost>>
    BY <1>5 DEF GetRecord, Stored, Lost
  <2>8. End = "no" /\ End' = "no"
    BY <1>5 DEF GetRecord, End, Gone
  <2> QED
    BY <2>4, <2>6, <2>7, <2>8, LedgerActions
\* What is stored or lost remains so.
<1>6. ASSUME pc \notin Gone, pc' \notin Gone, UNCHANGED feed,
             \A r \in Records : r \in uploaded[r.table] => r \in uploaded'[r.table],
             \A r \in Records : r \in failed[r.table] => r \in failed'[r.table]
      PROVE  [Ledger!Next]_(Ledger!ledger)
  <2>1. Stored \subseteq Stored' /\ Lost \subseteq Lost'
    BY <1>6 DEF Stored, Lost
  <2> QED
    BY <1>2, <1>6, <2>1, SettleStep
<1>7. ASSUME DropUnkeyed PROVE [Ledger!Next]_(Ledger!ledger)
  <2>1. failed' = [failed EXCEPT ![record.table] = @ \cup {record}] /\ uploaded' = uploaded
    BY <1>7 DEF DropUnkeyed, Report
  <2>2. \A r \in Records : r \in failed[r.table] => r \in failed'[r.table]
    BY <1>0, <1>t, <2>1 DEF TypeOK
  <2>3. pc \notin Gone /\ pc' \notin Gone
    BY <1>7 DEF DropUnkeyed, Return, Gone
  <2> QED
    BY <1>6, <1>7, <2>1, <2>2, <2>3 DEF DropUnkeyed
<1>8. ASSUME WriteRow \/ MovedOn PROVE [Ledger!Next]_(Ledger!ledger)
  <2>1. pc \notin Gone /\ pc' \notin Gone
    BY <1>8 DEF WriteRow, MovedOn, Return, Gone
  <2> QED
    BY <1>6, <1>8, <2>1 DEF WriteRow, MovedOn
<1>9. ASSUME NEW vs \in SUBSET Visits, CreateBatches(vs)
      PROVE  \A r \in Records : r \in failed[r.table] => r \in failed'[r.table]
  <2> SUFFICES ASSUME NEW r \in Records, r \in failed[r.table] PROVE r \in failed'[r.table]
    OBVIOUS
  <2>1. r \notin records
    <3>1. Places(r) = 1
      BY DEF Placed
    <3> QED
      BY <3>1 DEF Places, One
  <2> QED
    BY <1>0, <1>9, <2>1, BatchesPlace
<1>10. ASSUME MoveOn PROVE [Ledger!Next]_(Ledger!ledger)
  <2>1. record \in Records
    BY <1>0, <1>10 DEF MoveOn, IInv, InHand, TypeOK
  <2>2. {browserMap[record.crawl]} \in SUBSET Visits
    BY <1>0, <2>1, RecordParts DEF TypeOK
  <2>3. \A r \in Records : r \in failed[r.table] => r \in failed'[r.table]
    BY <1>9, <1>10, <2>2 DEF MoveOn
  <2>4. pc \notin Gone /\ pc' \notin Gone /\ UNCHANGED <<feed, uploaded>>
    BY <1>10 DEF MoveOn, Gone
  <2> QED
    BY <1>6, <2>3, <2>4
<1>11. ASSUME WriteContent PROVE [Ledger!Next]_(Ledger!ledger)
  <2>1. \/ failed' = failed /\ uploaded' = [uploaded EXCEPT ![Content] = @ \cup {record}]
        \/ uploaded' = uploaded /\ failed' = [failed EXCEPT ![Content] = @ \cup {record}]
    BY <1>11 DEF WriteContent, Report
  <2>2. /\ \A r \in Records : r \in uploaded[r.table] => r \in uploaded'[r.table]
        /\ \A r \in Records : r \in failed[r.table] => r \in failed'[r.table]
    BY <1>0, <1>t, <2>1 DEF TypeOK
  <2>3. pc \notin Gone /\ pc' \notin Gone /\ UNCHANGED feed
    BY <1>11 DEF WriteContent, Return, Gone
  <2> QED
    BY <1>6, <2>2, <2>3
<1>12. ASSUME NEW t \in Files, SendTable(t) PROVE [Ledger!Next]_(Ledger!ledger)
  <2>1. \/ failed' = failed /\ uploaded' = [uploaded EXCEPT ![t] = @ \cup UNION batches[t]]
        \/ uploaded' = uploaded /\ failed' = [failed EXCEPT ![t] = @ \cup UNION batches[t]]
    BY <1>12 DEF SendTable, Report
  <2>2. /\ \A r \in Records : r \in uploaded[r.table] => r \in uploaded'[r.table]
        /\ \A r \in Records : r \in failed[r.table] => r \in failed'[r.table]
    BY <1>0, <1>t, <2>1 DEF TypeOK
  <2>3. pc \notin Gone /\ pc' \notin Gone /\ UNCHANGED feed
    BY <1>12 DEF SendTable, Gone
  <2> QED
    BY <1>6, <2>2, <2>3
<1>13. ASSUME Flush PROVE [Ledger!Next]_(Ledger!ledger)
  <2>1. {browserMap[c] : c \in Crawls} \ {Unkeyed} \in SUBSET Visits
    BY <1>0 DEF TypeOK
  <2>2. \A r \in Records : r \in failed[r.table] => r \in failed'[r.table]
    BY <1>9, <1>13, <2>1 DEF Flush
  <2>3. pc \notin Gone /\ pc' \notin Gone /\ UNCHANGED <<feed, uploaded>>
    BY <1>13 DEF Flush, Gone
  <2> QED
    BY <1>6, <2>2, <2>3
<1>14. ASSUME Flushed PROVE [Ledger!Next]_(Ledger!ledger)
  <2>1. CASE draining = "timeout"
    BY <1>3, <1>14, <2>1 DEF Flushed, End, Gone
  <2>2. CASE draining # "timeout"
    <3>1. Held = {}
      BY <1>14, <1>t DEF Flushed, IInv, Flushing, Held, InBatch, Files
    <3>2. End = "no" /\ End' = "exited"
      BY <1>14, <2>2 DEF Flushed, End, Gone
    <3>3. UNCHANGED <<Waiting, Held, Stored, Lost>>
      BY <1>1, <1>2, <1>14 DEF Flushed
    <3> QED
      BY <3>1, <3>2, <3>3, LedgerActions
  <2> QED
    BY <2>1, <2>2
<1>15. ASSUME Die \/ Kill PROVE [Ledger!Next]_(Ledger!ledger)
  <2>1. End = "no" /\ End' = "crashed"
    BY <1>15 DEF Die, Kill, End, Gone
  <2>2. UNCHANGED <<Waiting, Held, Stored, Lost>>
    BY <1>1, <1>2, <1>15 DEF Die, Kill
  <2> QED
    BY <2>1, <2>2, LedgerActions
<1>16. ASSUME PastTimeout \/ NotPastTimeout \/ ShouldShutdown \/ GetTimeout \/ Signal \/ UNCHANGED vars
       PROVE  [Ledger!Next]_(Ledger!ledger)
  <2>1. End' = End
    BY <1>16 DEF PastTimeout, NotPastTimeout, ShouldShutdown, GetTimeout, Signal, vars, End, Gone
  <2>2. UNCHANGED <<feed, record, records, batches, uploaded, failed>>
    BY <1>16 DEF PastTimeout, NotPastTimeout, ShouldShutdown, GetTimeout, Signal, vars
  <2> QED
    BY <1>3, <2>1, <2>2
<1> QED
  BY <1>4, <1>5, <1>7, <1>8, <1>10, <1>11, <1>12, <1>13, <1>14, <1>15, <1>16 DEF Next, Listener

\* The aggregator keeps the ledger of its records (LedgerSpec): each that the
\* listener takes is stored or its loss is logged, for good, and only a
\* listener that dies or is killed leaves any in memory.
THEOREM KeepsLedger == Spec => LedgerSpec
<1>1. Init => Ledger!Init
  <2> SUFFICES ASSUME Init PROVE Ledger!Init
    OBVIOUS
  <2>1. \A r \in Records : /\ r # NoRecord /\ r.table \in Files \cup {Content}
                           /\ r.table \in Tables => r.table \in Files
    BY RecordParts DEF Files
  <2> QED
    BY <2>1 DEF Init, Ledger!Init, Gone
<1>2. IInv /\ Placed /\ Placed' /\ [Next]_vars => [Ledger!Next]_(Ledger!ledger)
  BY LedgerStep
<1> QED
  BY <1>1, <1>2, Safety, PlacedAlways, PTL DEF Spec, LedgerSpec, Ledger!Spec
==============================================================================
