------------------------- MODULE JsInstruments_proofs -------------------------
(***************************************************************************)
(* Proofs about the JavaScript instrument, for any set of properties, any  *)
(* limit of log calls, any nesting and any use that the page makes of it.  *)
(***************************************************************************)
EXTENDS JsInstruments, SequenceTheorems, TLAPS

Message(p) == [symbol |-> p, ordinal |-> pageOrdinal]

\* A sequence without its last element.
LEMMA Popped ==
  ASSUME NEW S, NEW s \in Seq(S), s # <<>>
  PROVE  /\ SubSeq(s, 1, Len(s) - 1) \in Seq(S)
         /\ Len(SubSeq(s, 1, Len(s) - 1)) = Len(s) - 1
<1>1. Len(s) - 1 \in Nat /\ \A i \in 1..(Len(s) - 1) : s[i] \in S
  BY EmptySeq, ElementOfSeq
<1>2. ASSUME NEW n \in Nat, \A i \in 1..n : s[i] \in S
      PROVE  SubSeq(s, 1, n) \in Seq(S) /\ Len(SubSeq(s, 1, n)) = n
  <2>1. 1 \in Int /\ n \in Int
    OBVIOUS
  <2>2. SubSeq(s, 1, n) \in Seq(S) /\ Len(SubSeq(s, 1, n)) = IF 1 <= n THEN n - 1 + 1 ELSE 0
    BY <1>2, <2>1, SubSeqProperties
  <2>3. QED
    BY <2>2
<1>3. QED
  BY <1>1, <1>2

\* What a log call does to the queue.
Queues(p) ==
  \/ UNCHANGED <<messages, pageOrdinal, timer>>
  \/ Send(p)

\* What it does to inLog and the stack of log calls.
Marks(p, logging) ==
  \/ logging /\ inLog' = TRUE /\ UNCHANGED frames
  \/ ~logging /\ inLog' = FALSE /\ UNCHANGED frames
  \/ ~logging /\ inLog' = TRUE /\ frames' = Append(frames, p)

\* A log call in these terms.
LEMMA LogEffect ==
  ASSUME NEW p, NEW v, NEW logging \in BOOLEAN, Log(p, v, logging)
  PROVE  Queues(p) /\ Marks(p, logging)
  BY DEF Log, OverLimit, Queues, Marks, Send

\* What a log call may change keeps its type.
LogTyped ==
  /\ inLog \in BOOLEAN /\ logCounter \in [Properties -> 0..MaxLogCount]
  /\ frames \in Seq(Properties) /\ Len(frames) <= MaxDepth
  /\ pageOrdinal \in Nat /\ messages \in Seq(Messages) /\ timer \in {"off", "armed", "again"}

LEMMA SendTyped ==
  ASSUME pageOrdinal \in Nat, messages \in Seq(Messages), NEW p \in Properties, Send(p)
  PROVE  pageOrdinal' \in Nat /\ messages' \in Seq(Messages) /\ timer' \in {"off", "armed", "again"}
<1>1. Message(p) \in Messages
  BY DEF Message, Messages
<1>2. QED
  BY <1>1 DEF Send, Message

LEMMA LogTypes ==
  ASSUME LogTyped, NEW p \in Properties, NEW v, NEW logging \in BOOLEAN, Log(p, v, logging)
  PROVE  LogTyped'
<1> USE JsAssumption
<1>1. CASE logging
  BY <1>1 DEF Log, LogTyped
<1>2. CASE ~logging /\ IsOver(p)
  BY <1>2 DEF Log, LogTyped, OverLimit
<1>3. CASE ~logging /\ ~IsOver(p)
  <2>1. logCounter' \in [Properties -> 0..MaxLogCount]
    BY <1>3 DEF Log, LogTyped, IsOver
  <2>2. CASE v # "object" \/ Len(frames) = MaxDepth
    <3>1. Send(p) /\ inLog' = FALSE /\ UNCHANGED frames
      BY <1>3, <2>2 DEF Log, LogTyped
    <3>2. QED
      BY <2>1, <3>1, SendTyped DEF LogTyped
  <2>3. CASE v = "object" /\ Len(frames) # MaxDepth
    <3>1. /\ frames' = Append(frames, p) /\ inLog' = TRUE
          /\ UNCHANGED <<pageOrdinal, messages, timer>> /\ Len(frames) < MaxDepth
      BY <1>3, <2>3 DEF Log, LogTyped
    <3>2. frames' \in Seq(Properties) /\ Len(frames') <= MaxDepth
      BY <3>1 DEF LogTyped
    <3>3. QED
      BY <2>1, <3>1, <3>2 DEF LogTyped
  <2>4. QED
    BY <2>2, <2>3
<1>4. QED
  BY <1>1, <1>2, <1>3

\* What the page's values have for types.
PageTyped ==
  /\ kind \in [Properties -> Kinds] /\ preventSets \in BOOLEAN /\ frozen \in BOOLEAN
  /\ alive \in BOOLEAN /\ ops \in 0..MaxOps
  /\ original \in PropertyValues /\ own \in PropertyValues
  /\ reference \in PropertyValues /\ refOwn \in PropertyValues
  /\ excused \subseteq Properties \X Paths
  /\ setInLog \in BOOLEAN /\ thrown \in BOOLEAN

LEMMA Typed == TypeOK <=> LogTyped /\ PageTyped /\ ordinal \in Nat /\ emitted \in Seq(Messages)
  BY DEF TypeOK, LogTyped, PageTyped

\* What the uninstrumented page would do keeps its types.
LEMMA ReferenceTyped ==
  ASSUME PageTyped, NEW p \in Properties, NEW path \in Paths, NEW v \in Values,
         ReferenceSet(p, path, v)
  PROVE  reference' \in PropertyValues /\ refOwn' \in PropertyValues
  BY DEF PageTyped, PropertyValues, ReferenceSet

LEMMA SetTypes ==
  ASSUME PageTyped, NEW p \in Properties, NEW path \in Paths, NEW v \in Values, Set(p, path, v)
  PROVE  PageTyped'
<1> USE JsAssumption DEF Use, PageTyped, PropertyValues
<1>1. CASE SetPrevented(p, path, v)
  BY <1>1, ReferenceTyped DEF SetPrevented, Excuse
<1>2. CASE SetByAccessor(p, path, v)
  BY <1>2, ReferenceTyped DEF SetByAccessor, Excuse
<1>3. CASE SetFails(p, path, v)
  BY <1>3, ReferenceTyped DEF SetFails
<1>4. CASE SetData(p, path, v)
  BY <1>4, ReferenceTyped DEF SetData, NewValue, Reached, Excuse, Paths
<1>5. QED
  BY <1>1, <1>2, <1>3, <1>4 DEF Set

LEMMA OtherTypes ==
  ASSUME PageTyped, NEW p \in Properties, NEW path \in Paths, NEW v \in Values,
         Get(p, path) \/ Call(p, path, v) \/ SetThrows(p, v) \/ SetOwn(p, v)
  PROVE  PageTyped'
<1> USE JsAssumption DEF Use, PageTyped, PropertyValues, history
<1>1. CASE Get(p, path)
  BY <1>1 DEF Get
<1>2. CASE Call(p, path, v)
  BY <1>2 DEF Call
<1>3. CASE SetThrows(p, v)
  BY <1>3, ReferenceTyped DEF SetThrows, Paths
<1>4. CASE SetOwn(p, v)
  BY <1>4, ReferenceTyped DEF SetOwn, Paths, Excuse
<1>5. QED
  BY <1>1, <1>2, <1>3, <1>4

\* A step of the page is a log call or leaves the queue alone, and nothing that
\* is on its way is touched.
Logs ==
  \/ \E p \in Properties, v \in Values \union {NoValue}, logging \in BOOLEAN : Log(p, v, logging)
  \/ UNCHANGED logVars
  \/ inLog' = TRUE /\ UNCHANGED <<logCounter, frames, pageOrdinal, messages, timer>>

LEMMA PageLogs ==
  ASSUME TypeOK, Page
  PROVE  Logs /\ alive /\ UNCHANGED <<alive, emitted, ordinal, dbVars>>
<1> USE DEF Use, Logs
<1>1. ASSUME NEW p \in Properties, NEW path \in Paths, Get(p, path)
      PROVE  Logs /\ alive /\ UNCHANGED <<alive, emitted, ordinal, dbVars>>
  BY <1>1 DEF Get, TypeOK, PropertyValues
<1>2. ASSUME NEW p \in Properties, NEW path \in Paths, NEW v \in Values, Call(p, path, v)
      PROVE  Logs /\ alive /\ UNCHANGED <<alive, emitted, ordinal, dbVars>>
  BY <1>2 DEF Call, TypeOK
<1>3. ASSUME NEW p \in Properties, NEW path \in Paths, NEW v \in Values, Set(p, path, v)
      PROVE  Logs /\ alive /\ UNCHANGED <<alive, emitted, ordinal, dbVars>>
  BY <1>3 DEF Set, SetPrevented, SetByAccessor, SetFails, SetData, TypeOK
<1>4. ASSUME NEW p \in Properties, NEW v \in Values, SetThrows(p, v) \/ SetOwn(p, v)
      PROVE  Logs /\ alive /\ UNCHANGED <<alive, emitted, ordinal, dbVars>>
  BY <1>4 DEF SetThrows, SetOwn
<1>5. QED
  BY <1>1, <1>2, <1>3, <1>4 DEF Page

\* Every variable of the JavaScript instrument keeps its type.
THEOREM TypeCorrect == Spec => []TypeOK
<1> USE JsAssumption
<1>1. Init => TypeOK
  <2> SUFFICES ASSUME Init
               PROVE  TypeOK
    OBVIOUS
  <2>1. original \in PropertyValues /\ own \in PropertyValues
    BY DEF Init, PropertyValues
  <2>2. reference \in PropertyValues /\ refOwn \in PropertyValues
    BY <2>1 DEF Init
  <2>3. messages \in Seq(Messages) /\ emitted \in Seq(Messages) /\ frames \in Seq(Properties)
    BY EmptySeq DEF Init
  <2>4. ordinal \in Nat /\ pageOrdinal \in Nat /\ ops \in 0..MaxOps /\ Len(frames) <= MaxDepth
    BY DEF Init, DBInit
  <2>5. logCounter \in [Properties -> 0..MaxLogCount]
    BY DEF Init
  <2>6. QED
    BY <2>1, <2>2, <2>3, <2>4, <2>5 DEF Init, TypeOK
<1>2. TypeOK /\ [Next]_vars => TypeOK'
  <2> SUFFICES ASSUME TypeOK, [Next]_vars
               PROVE  TypeOK'
    OBVIOUS
  <2>1. CASE Page
    <3>1. PageTyped'
      <4>1. PICK p \in Properties :
               \/ \E path \in Paths :
                    \/ Get(p, path)
                    \/ \E v \in Values : Set(p, path, v) \/ Call(p, path, v)
               \/ \E v \in Values : SetThrows(p, v) \/ SetOwn(p, v)
        BY <2>1 DEF Page
      <4>2. "object" \in Paths /\ "one" \in Values
        BY DEF Paths, Values, Static
      <4>3. QED
        BY <4>1, <4>2, Typed, SetTypes, OtherTypes
    <3>2. LogTyped'
      BY <2>1, Typed, PageLogs, LogTypes DEF Logs, LogTyped, logVars
    <3>3. QED
      BY <2>1, <3>1, <3>2, PageLogs DEF TypeOK, LogTyped, PageTyped
  <2>2. CASE Serialized
    <3>1. frames[Len(frames)] \in Properties /\ Len(frames) \in Nat \ {0}
      BY <2>2 DEF TypeOK, Serialized
    <3>2. pageOrdinal' \in Nat /\ messages' \in Seq(Messages) /\ timer' \in {"off", "armed", "again"}
      BY <2>2, <3>1, SendTyped DEF TypeOK, Serialized
    <3>3. frames' \in Seq(Properties) /\ Len(frames') = Len(frames) - 1
      BY <2>2, <3>1, Popped DEF TypeOK, Serialized
    <3>4. LogTyped'
      <4>1. Len(frames') <= MaxDepth
        BY <3>1, <3>3 DEF TypeOK
      <4>2. inLog' = FALSE /\ logCounter' = logCounter
        BY <2>2 DEF Serialized
      <4>3. QED
        BY <3>2, <3>3, <4>1, <4>2 DEF TypeOK, LogTyped
    <3>5. QED
      BY <2>2, <3>4 DEF TypeOK, LogTyped, Serialized, pageVars, history
  <2>3. CASE Flush
    BY <2>3 DEF TypeOK, Flush, pageVars, history
  <2>4. CASE Rearm
    BY <2>4 DEF TypeOK, Rearm, pageVars, history
  <2>5. CASE HandleMessage
    BY <2>5 DEF TypeOK, HandleMessage, pageVars, logVars, history
  <2>6. CASE Unload
    BY <2>6 DEF TypeOK, Unload, logVars, history
  <2>7. CASE VisitStarts \/ UNCHANGED vars
    BY <2>7 DEF TypeOK, VisitStarts, vars, pageVars, logVars, history
  <2>8. QED
    BY <2>1, <2>2, <2>3, <2>4, <2>5, <2>6, <2>7 DEF Next
<1>3. QED
  BY <1>1, <1>2, PTL DEF Spec

-----------------------------------------------------------------------------
(* Marking that a log call is under way *)

\* InLogTellsLogging is inductive when it is known how log calls came to be
\* inside of each other: an assignment had reset inLog.
Nested == InLogTellsLogging /\ (Len(frames) > 1 => setInLog)

LEMMA NestedKept ==
  ASSUME TypeOK, Nested, NEW p, NEW logging \in BOOLEAN, Marks(p, logging),
         logging = inLog \/ (logging = FALSE /\ (frames # <<>> => setInLog')),
         setInLog' = setInLog \/ setInLog' = TRUE, thrown' = thrown, p \in Properties
  PROVE  Nested'
<1>1. Len(frames) \in Nat /\ (frames # <<>> => Len(frames) > 0) /\ Len(<<>>) = 0
  BY EmptySeq DEF TypeOK
<1>2. CASE logging /\ inLog' = TRUE /\ UNCHANGED frames
  BY <1>2 DEF Nested, InLogTellsLogging
<1>3. CASE ~logging /\ inLog' = FALSE /\ UNCHANGED frames
  BY <1>3 DEF Nested, InLogTellsLogging, TypeOK
<1>4. CASE ~logging /\ inLog' = TRUE /\ frames' = Append(frames, p)
  <2>1. frames' # <<>> /\ Len(frames') = Len(frames) + 1
    BY <1>1, <1>4 DEF TypeOK
  <2>2. frames = <<>> => Len(frames) = 0
    BY <1>1
  <2>3. frames # <<>> => setInLog'
    BY <1>4 DEF Nested, InLogTellsLogging, TypeOK
  <2>4. QED
    BY <1>1, <1>4, <2>1, <2>2, <2>3 DEF Nested, InLogTellsLogging
<1>5. QED
  BY <1>2, <1>3, <1>4 DEF Marks

\* While log calls are serialised inLog is set, and afterwards it is not,
\* but for an assignment inside of a log call and one that throws.
THEOREM InLogAlways == Spec => []InLogTellsLogging
<1>1. Init => Nested
  BY EmptySeq DEF Init, Nested, InLogTellsLogging
<1>2. TypeOK /\ Nested /\ [Next]_vars => Nested'
  <2> SUFFICES ASSUME TypeOK, Nested, [Next]_vars
               PROVE  Nested'
    OBVIOUS
  <2>1. ASSUME NEW p \in Properties, NEW path \in Paths, NEW v \in Values,
               Get(p, path) \/ Call(p, path, v)
        PROVE  Nested'
    <3>1. setInLog' = setInLog /\ thrown' = thrown
      BY <2>1 DEF Get, Call, history
    <3>2. CASE UNCHANGED logVars
      BY <3>1, <3>2 DEF logVars, Nested, InLogTellsLogging
    <3>3. CASE \E w : Log(p, w, inLog)
      BY <3>1, <3>3, LogEffect, NestedKept DEF TypeOK
    <3>4. QED
      BY <2>1, <3>2, <3>3 DEF Get, Call
  <2>2. ASSUME NEW p \in Properties, NEW path \in Paths, NEW v \in Values, Set(p, path, v)
        PROVE  Nested'
    <3>1. CASE SetPrevented(p, path, v) \/ SetByAccessor(p, path, v) \/ SetFails(p, path, v)
      <4>1. Log(p, v, inLog) /\ setInLog' = setInLog /\ thrown' = thrown
        BY <3>1 DEF SetPrevented, SetByAccessor, SetFails
      <4>2. QED
        BY <4>1, LogEffect, NestedKept DEF TypeOK
    <3>2. CASE SetData(p, path, v)
      <4>1. Log(p, v, FALSE) /\ setInLog' = (setInLog \/ frames # <<>>) /\ thrown' = thrown
        BY <3>2 DEF SetData
      <4>2. Marks(p, FALSE)
        BY <4>1, LogEffect
      <4>3. setInLog' = setInLog \/ setInLog' = TRUE
        BY <4>1, Zenon DEF TypeOK
      <4>4. QED
        BY <4>1, <4>2, <4>3, NestedKept
    <3>3. QED
      BY <2>2, <3>1, <3>2 DEF Set
  <2>3. ASSUME NEW p \in Properties, NEW v \in Values, SetThrows(p, v) \/ SetOwn(p, v)
        PROVE  Nested'
    BY <2>3 DEF SetThrows, SetOwn, logVars, Nested, InLogTellsLogging
  <2>4. CASE Serialized
    <3>1. frames' = SubSeq(frames, 1, Len(frames) - 1) /\ inLog' = FALSE /\ frames # <<>>
      BY <2>4 DEF Serialized
    <3>2. setInLog' = setInLog /\ thrown' = thrown
      BY <2>4 DEF Serialized, history
    <3>3. frames' \in Seq(Properties) /\ Len(frames') = Len(frames) - 1
      BY <3>1, Popped DEF TypeOK
    <3>4. frames' # <<>> => Len(frames) > 1
      BY <3>3, EmptySeq DEF TypeOK
    <3>5. Len(frames') > 1 => Len(frames) > 1
      BY <3>3 DEF TypeOK
    <3>6. QED
      BY <3>1, <3>2, <3>4, <3>5 DEF Nested, InLogTellsLogging
  <2>5. CASE Flush \/ Rearm \/ HandleMessage \/ Unload \/ VisitStarts \/ UNCHANGED vars
    BY <2>5 DEF Flush, Rearm, HandleMessage, Unload, VisitStarts, vars, logVars, history,
       Nested, InLogTellsLogging
  <2>6. QED
    <3>1. "object" \in Paths /\ "one" \in Values
      BY DEF Paths, Values, Static
    <3>2. QED
      BY <2>1, <2>2, <2>3, <2>4, <2>5, <3>1 DEF Next, Page
<1>3. Nested => InLogTellsLogging
  BY DEF Nested
<1>4. QED
  BY <1>1, <1>2, <1>3, TypeCorrect, PTL DEF Spec

-----------------------------------------------------------------------------
(* Transparency *)

\* What is kept is what would be kept, place by place; only an heir of a data
\* property has one of its own.
Alike ==
  \A p \in Properties :
    /\ <<p, "object">> \notin excused => original[p] = reference[p]
    /\ <<p, "heir">> \notin excused =>
         own[p] = refOwn[p] /\ <<p, "object">> \notin excused
    /\ own[p] # NoValue => IsData(p)

LEMMA SetsAlike ==
  ASSUME TypeOK, Alike, NEW p \in Properties, NEW path \in Paths, NEW v \in Values,
         Set(p, path, v)
  PROVE  Alike'
<1> USE DEF TypeOK, PropertyValues, Alike, Paths, ReferenceSet, IsData
<1>1. CASE SetPrevented(p, path, v)
  <2>1. original' = original /\ own' = own /\ kind' = kind /\ IsData(p)
    BY <1>1 DEF SetPrevented, Use, Prevented
  <2>2. \A q \in Properties \ {p} : reference'[q] = reference[q] /\ refOwn'[q] = refOwn[q]
    BY <1>1 DEF SetPrevented
  <2>3. CASE kind[p] = "data"
    <3>1. excused' = excused \union ({p} \X Paths)
      BY <1>1, <2>3 DEF SetPrevented, Excuse
    <3>2. QED
      BY <2>1, <2>2, <3>1
  <2>4. CASE kind[p] = "constant"
    <3>1. excused' = excused /\ reference' = reference /\ refOwn' = refOwn
      BY <1>1, <2>4 DEF SetPrevented
    <3>2. QED
      BY <2>1, <3>1
  <2>5. QED
    BY <2>1, <2>3, <2>4
<1>2. CASE SetByAccessor(p, path, v)
  <2>1. CASE kind[p] = "missing" /\ path = "heir"
    <3>1. excused' = excused \union ({p} \X Paths)
      BY <1>2, <2>1 DEF SetByAccessor, Excuse
    <3>2. reference' = reference /\ own' = own /\ kind' = kind
      BY <1>2, <2>1 DEF SetByAccessor, Use
    <3>3. \A q \in Properties \ {p} : original'[q] = original[q] /\ refOwn'[q] = refOwn[q]
      BY <1>2, <2>1 DEF SetByAccessor
    <3>4. QED
      BY <3>1, <3>2, <3>3
  <2>2. CASE ~(kind[p] = "missing" /\ path = "heir")
    BY <1>2, <2>2 DEF SetByAccessor, Use
  <2>3. QED
    BY <2>1, <2>2
<1>3. CASE SetFails(p, path, v)
  BY <1>3 DEF SetFails, Use
<1>4. CASE SetData(p, path, v)
  <2>1. /\ IsData(p) /\ kind' = kind
        /\ \A q \in Properties \ {p} :
             /\ original'[q] = original[q] /\ own'[q] = own[q]
             /\ reference'[q] = reference[q] /\ refOwn'[q] = refOwn[q]
    BY <1>4 DEF SetData, NewValue, Use
  <2>2. CASE kind[p] = "constant" /\ path = "object"
    <3>1. excused' = excused \union ({p} \X Paths) /\ own' = own
      BY <1>4, <2>2 DEF SetData, NewValue, Reached, Excuse
    <3>2. QED
      BY <2>1, <3>1
  <2>3. CASE kind[p] = "constant" /\ path = "heir"
    <3>1. /\ excused' = excused \union ({p} \X {"heir"})
          /\ original' = original /\ reference' = reference
      BY <1>4, <2>3 DEF SetData, NewValue, Reached, Excuse
    <3>2. QED
      BY <2>1, <3>1
  <2>4. CASE kind[p] = "data" /\ path = "object"
    <3>1. /\ excused' = excused /\ own' = own /\ refOwn' = refOwn
          /\ original'[p] = v /\ reference'[p] = v
      BY <1>4, <2>4 DEF SetData, NewValue
    <3>2. QED
      BY <2>1, <3>1
  <2>5. CASE kind[p] = "data" /\ path = "heir"
    <3>1. /\ excused' = excused /\ original' = original /\ reference' = reference
          /\ own'[p] = v /\ refOwn'[p] = v
      BY <1>4, <2>5 DEF SetData, NewValue
    <3>2. QED
      BY <2>1, <3>1
  <2>6. QED
    BY <2>1, <2>2, <2>3, <2>4, <2>5
<1>5. QED
  BY <1>1, <1>2, <1>3, <1>4 DEF Set

LEMMA SingleSetsAlike ==
  ASSUME TypeOK, Alike, NEW p \in Properties, NEW v \in Values, SetThrows(p, v) \/ SetOwn(p, v)
  PROVE  Alike'
<1> USE DEF TypeOK, PropertyValues, Alike, Paths, ReferenceSet, IsData
<1>1. CASE SetThrows(p, v)
  BY <1>1 DEF SetThrows, Use
<1>2. CASE SetOwn(p, v)
  <2>1. IsData(p) /\ excused' = excused \union ({p} \X {"heir"}) /\ kind' = kind
    BY <1>2 DEF SetOwn, Excuse, Use, Instrumented
  <2>2. original' = original /\ own' = own /\ reference' = reference
    BY <1>2, <2>1 DEF SetOwn
  <2>3. \A q \in Properties \ {p} : refOwn'[q] = refOwn[q]
    BY <1>2 DEF SetOwn
  <2>4. QED
    BY <2>1, <2>2, <2>3
<1>3. QED
  BY <1>1, <1>2

\* Whatever the page does with instrumented properties, it reads what it would
\* read without the instrument, a function in a wrapper, unless an assignment
\* was one of those for which Transparent names a difference.
THEOREM TransparentAlways == Spec => []Transparent
<1>1. Init => Alike
  BY DEF Init, Alike, PropertyValues
<1>2. TypeOK /\ Alike /\ [Next]_vars => Alike'
  <2> SUFFICES ASSUME TypeOK, Alike, [Next]_vars
               PROVE  Alike'
    OBVIOUS
  <2>1. ASSUME NEW p \in Properties, NEW path \in Paths, NEW v \in Values,
               Get(p, path) \/ Call(p, path, v)
        PROVE  Alike'
    BY <2>1 DEF Get, Call, Use, history, Alike, IsData
  <2>2. CASE Serialized \/ Flush \/ Rearm \/ HandleMessage \/ Unload \/ VisitStarts \/ UNCHANGED vars
    BY <2>2 DEF Serialized, Flush, Rearm, HandleMessage, Unload, VisitStarts, vars, pageVars,
       history, Alike, IsData
  <2>3. QED
    <3>1. "one" \in Values
      BY DEF Values, Static
    <3>2. QED
      BY <2>1, <2>2, <3>1, SetsAlike, SingleSetsAlike DEF Next, Page
<1>3. Alike => Transparent
  <2> SUFFICES ASSUME Alike, NEW p \in Properties, NEW path \in Paths, <<p, path>> \notin excused
               PROVE  Read(p, path) = IF Instrumented(p, path) THEN Returned(ReferenceRead(p, path))
                                                               ELSE ReferenceRead(p, path)
    BY DEF Transparent
  <2>1. CASE path = "object"
    BY <2>1 DEF Alike, Read, ReferenceRead, Instrumented
  <2>2. CASE path = "heir"
    BY <2>2 DEF Alike, Read, ReferenceRead, Instrumented
  <2>3. QED
    BY <2>1, <2>2 DEF Paths
<1>4. QED
  BY <1>1, <1>2, <1>3, TypeCorrect, PTL DEF Spec

-----------------------------------------------------------------------------
(* Order *)

\* The queue holds the last ordinals of the page, in their order.
InQueue ==
  \A i \in 1..Len(messages) : messages[i].ordinal = pageOrdinal - Len(messages) + i - 1

\* What is on its way continues what is recorded.
OnTheWay ==
  /\ \A i \in 1..Len(emitted) : emitted[i].ordinal = ordinal + i - 1
  /\ alive => pageOrdinal = ordinal + Len(emitted) + Len(messages)

Ordered ==
  /\ \A s \in saved : s.data.page = s.data.ordinal
  /\ {s.data.page : s \in saved} = 0..(ordinal - 1)

LEMMA Split == InOrder <=> Ordered /\ OnTheWay
  BY DEF InOrder, Ordered, OnTheWay

\* A message that is sent takes the next ordinal and the end of the queue.
LEMMA SendQueues ==
  ASSUME TypeOK, InQueue, OnTheWay, NEW p \in Properties, Send(p),
         UNCHANGED <<alive, emitted, ordinal>>
  PROVE  InQueue' /\ OnTheWay'
<1>1. Message(p) \in Messages /\ Message(p).ordinal = pageOrdinal
  BY DEF Message, Messages, TypeOK
<1>2. messages' = Append(messages, Message(p)) /\ pageOrdinal' = pageOrdinal + 1
  BY DEF Send, Message
<1>3. /\ Len(messages') = Len(messages) + 1
      /\ \A i \in 1..Len(messages') :
           messages'[i] = IF i = Len(messages) + 1 THEN Message(p) ELSE messages[i]
  BY <1>1, <1>2 DEF TypeOK
<1>4. Len(messages) \in Nat /\ pageOrdinal \in Nat
  BY DEF TypeOK
<1>5. InQueue'
  BY <1>1, <1>2, <1>3, <1>4 DEF InQueue
<1>6. OnTheWay'
  <2>1. emitted' = emitted /\ ordinal' = ordinal /\ alive' = alive
    OBVIOUS
  <2>2. Len(messages') = Len(messages) + 1 /\ Len(emitted) \in Nat /\ ordinal \in Nat
    BY <1>3 DEF TypeOK
  <2>3. alive => pageOrdinal + 1 = ordinal + Len(emitted) + (Len(messages) + 1)
    BY <1>4, <2>2 DEF OnTheWay
  <2>4. QED
    BY <1>2, <2>1, <2>2, <2>3 DEF OnTheWay
<1>7. QED
  BY <1>5, <1>6

LEMMA FlushQueues ==
  ASSUME TypeOK, InQueue, OnTheWay, Flush
  PROVE  InQueue' /\ OnTheWay'
<1>1. Len(messages) \in Nat /\ Len(emitted) \in Nat /\ pageOrdinal \in Nat /\ ordinal \in Nat
  BY DEF TypeOK
<1>2. /\ Len(emitted') = Len(emitted) + Len(messages)
      /\ \A i \in 1..Len(emitted') :
           emitted'[i] = IF i <= Len(emitted) THEN emitted[i] ELSE messages[i - Len(emitted)]
  BY ConcatProperties DEF TypeOK, Flush
<1>3. messages' = <<>> /\ Len(messages') = 0 /\ UNCHANGED <<alive, pageOrdinal, ordinal>> /\ alive
  BY EmptySeq DEF Flush, pageVars
<1>4. ASSUME NEW i \in 1..Len(emitted')
      PROVE  emitted'[i].ordinal = ordinal + i - 1
  <2>1. CASE i <= Len(emitted)
    BY <1>1, <1>2, <2>1 DEF OnTheWay
  <2>2. CASE ~(i <= Len(emitted))
    <3>1. i - Len(emitted) \in 1..Len(messages)
      BY <1>1, <1>2, <2>2
    <3>2. messages[i - Len(emitted)].ordinal = pageOrdinal - Len(messages) + (i - Len(emitted)) - 1
      BY <3>1 DEF InQueue
    <3>3. QED
      BY <1>1, <1>2, <1>3, <2>2, <3>2 DEF OnTheWay
  <2>3. QED
    BY <2>1, <2>2
<1>5. QED
  BY <1>1, <1>2, <1>3, <1>4 DEF InQueue, OnTheWay

LEMMA HandleKeepsOrder ==
  ASSUME TypeOK, InQueue, OnTheWay, Ordered, HandleMessage
  PROVE  InQueue' /\ OnTheWay' /\ Ordered'
<1>1. emitted # <<>> /\ emitted' = Tail(emitted) /\ ordinal' = ordinal + 1
  BY DEF HandleMessage
<1>2. UNCHANGED <<alive, messages, pageOrdinal>>
  BY DEF HandleMessage, pageVars, logVars
<1>3. ordinal \in Nat /\ Len(emitted) \in Nat \ {0} /\ Len(messages) \in Nat
  BY <1>1, EmptySeq DEF TypeOK
<1>4. /\ Len(emitted') = Len(emitted) - 1
      /\ \A i \in 1..Len(emitted') : emitted'[i] = emitted[i + 1]
  BY <1>1, HeadTailProperties DEF TypeOK
<1>5. Head(emitted).ordinal = ordinal
  BY <1>1, <1>3 DEF OnTheWay, TypeOK
<1>6. PICK s : saved' = saved \union {s} /\ s.data.page = ordinal /\ s.data.ordinal = ordinal
  <2> DEFINE r == [data |-> [symbol |-> Head(emitted).symbol, page |-> Head(emitted).ordinal,
                             ordinal |-> ordinal],
                   visit |-> Attribution]
  <2>1. saved' = saved \union {r}
    BY DEF HandleMessage, SaveRecord
  <2>2. r.data.page = ordinal /\ r.data.ordinal = ordinal
    BY <1>5
  <2>3. QED
    BY <2>1, <2>2, Zenon
<1>7. OnTheWay'
  BY <1>1, <1>2, <1>3, <1>4 DEF OnTheWay
<1>8. {r.data.page : r \in saved'} = {r.data.page : r \in saved} \union {ordinal}
  BY <1>6
<1>9. 0..(ordinal - 1) \union {ordinal} = 0..(ordinal + 1 - 1)
  BY <1>3
<1>10. Ordered'
  BY <1>1, <1>6, <1>8, <1>9 DEF Ordered
<1>11. QED
  BY <1>2, <1>7, <1>10 DEF InQueue

\* The records of a page come in the order in which the page used its
\* properties, without a gap, however log calls were nested and however the
\* queue was cut into batches.
THEOREM InOrderAlways == Spec => []InOrder
<1> DEFINE Inv == InQueue /\ OnTheWay /\ Ordered
<1>1. Init => Inv
  <2> SUFFICES ASSUME Init
               PROVE  Inv
    OBVIOUS
  <2>1. Len(messages) = 0 /\ Len(emitted) = 0 /\ pageOrdinal = 0 /\ ordinal = 0 /\ saved = {}
    BY EmptySeq DEF Init, DBInit
  <2>2. QED
    BY <2>1 DEF InQueue, OnTheWay, Ordered
<1>2. TypeOK /\ Inv /\ [Next]_vars => Inv'
  <2> SUFFICES ASSUME TypeOK, Inv, [Next]_vars
               PROVE  Inv'
    OBVIOUS
  <2>1. ASSUME UNCHANGED <<messages, pageOrdinal, emitted, alive, ordinal, saved>>
        PROVE  Inv'
    BY <2>1 DEF InQueue, OnTheWay, Ordered
  <2>2. CASE Page
    <3>1. Logs /\ UNCHANGED <<alive, emitted, ordinal, saved>>
      BY <2>2, PageLogs DEF dbVars
    <3>2. ASSUME NEW p \in Properties, Send(p)
          PROVE  Inv'
      BY <3>1, <3>2, SendQueues DEF Ordered
    <3>3. CASE \E p \in Properties, logging \in BOOLEAN : \E v : Log(p, v, logging)
      BY <2>1, <3>1, <3>2, <3>3, LogEffect DEF Queues
    <3>4. CASE UNCHANGED <<pageOrdinal, messages>>
      BY <2>1, <3>1, <3>4
    <3>5. \/ \E p \in Properties, logging \in BOOLEAN : \E v : Log(p, v, logging)
          \/ UNCHANGED <<pageOrdinal, messages>>
      <4>1. CASE UNCHANGED logVars
        BY <4>1 DEF logVars
      <4>2. CASE UNCHANGED <<logCounter, frames, pageOrdinal, messages, timer>>
        BY <4>2
      <4>3. CASE \E p \in Properties, v \in Values \union {NoValue}, logging \in BOOLEAN :
                   Log(p, v, logging)
        <5>1. PICK p \in Properties, v \in Values \union {NoValue}, logging \in BOOLEAN :
                Log(p, v, logging)
          BY <4>3
        <5>2. QED
          BY <5>1
      <4>4. QED
        BY <3>1, <4>1, <4>2, <4>3, Zenon DEF Logs
    <3>6. QED
      BY <3>3, <3>4, <3>5, Zenon
  <2>3. CASE Serialized
    <3>1. frames[Len(frames)] \in Properties /\ Send(frames[Len(frames)])
      BY <2>3 DEF TypeOK, Serialized
    <3>2. UNCHANGED <<alive, emitted, ordinal, saved>>
      BY <2>3 DEF Serialized, pageVars, dbVars
    <3>3. QED
      BY <3>1, <3>2, SendQueues DEF Ordered
  <2>4. CASE Flush
    BY <2>4, FlushQueues DEF Flush, dbVars, Ordered
  <2>5. CASE HandleMessage
    BY <2>5, HandleKeepsOrder
  <2>6. CASE Unload
    BY <2>6 DEF Unload, logVars, dbVars, InQueue, OnTheWay, Ordered
  <2>7. CASE Rearm \/ VisitStarts \/ UNCHANGED vars
    BY <2>1, <2>7 DEF Rearm, VisitStarts, VisitIdArrives, vars, pageVars, logVars, dbVars
  <2>8. QED
    BY <2>2, <2>3, <2>4, <2>5, <2>6, <2>7 DEF Next
<1>3. Inv => InOrder
  BY Split
<1>4. QED
  BY <1>1, <1>2, <1>3, TypeCorrect, PTL DEF Spec
=============================================================================
