------------------------ MODULE HttpInstrument_proofs ------------------------
(***************************************************************************)
(* Proofs about the HTTP instrument, for any set of requests, any number   *)
(* of legs and chunks and any number of visits.                            *)
(***************************************************************************)
EXTENDS HttpInstrument, SequenceTheorems, TLAPS

-----------------------------------------------------------------------------
(* Visit ids *)

\* What a step may do to the data that records are sent with.
DBStep == UNCHANGED dbVars \/ VisitIdArrives \/ (\E r : SaveRecord(r))

LEMMA HandleSteps ==
  ASSUME NEW r, NEW kind, Handle(r, kind)
  PROVE  DBStep
  BY DEF Handle, Proceed, Save, NothingSaved, DBStep

LEMMA ResumeSteps ==
  ASSUME NEW t, Resume(t)
  PROVE  DBStep
<1>1. CASE GotTab(t)
  BY <1>1 DEF GotTab, Proceed, Save, NothingSaved, DBStep
<1>2. CASE TabGone(t)
  BY <1>2 DEF TabGone, DBStep
<1>3. CASE RequestBodyReady(t)
  BY <1>3 DEF RequestBodyReady, Save, DBStep
<1>4. CASE RequestBodyTimeout(t)
  BY <1>4 DEF RequestBodyTimeout, Save, DBStep
<1>5. CASE ResponseBodyReady(t)
  BY <1>5 DEF ResponseBodyReady, Save, DBStep
<1>6. QED
  BY <1>1, <1>2, <1>3, <1>4, <1>5 DEF Resume

LEMMA Steps ==
  ASSUME [Next]_vars
  PROVE  DBStep
<1>1. CASE Run \/ CloseTab \/ VisitStarts \/ UNCHANGED vars
  BY <1>1 DEF Run, CloseTab, VisitStarts, vars, DBStep
<1>2. ASSUME NEW r, Events(r)
      PROVE  DBStep
  BY <1>2, HandleSteps DEF Events, OnBeforeRequest, OnBeforeSendHeaders, OnBeforeRedirect, OnCompleted,
     Fail, DBStep
<1>3. ASSUME NEW r, Stream(r)
      PROVE  DBStep
  BY <1>3 DEF Stream, OnData, OnStop, FilterFails, DigestReady, DBStep
<1>4. QED
  BY <1>1, <1>2, <1>3, ResumeSteps DEF Next

LEMMA Newest ==
  ASSUME DBTypeOK
  PROVE  LatestVisit = announced
<1>1. CASE queue = <<>>
  BY <1>1 DEF DBTypeOK, LatestVisit
<1>2. CASE queue # <<>>
  <2>1. Len(queue) \in Nat \ {0} /\ announced \in Int
    BY <1>2, EmptySeq DEF DBTypeOK
  <2>2. queue[Len(queue)] = announced - Len(queue) + Len(queue)
    BY <2>1 DEF DBTypeOK
  <2>3. QED
    BY <1>2, <2>1, <2>2 DEF LatestVisit
<1>3. QED
  BY <1>1, <1>2

LEMMA DBInvariant == Spec => []DBTypeOK
<1>1. Init => DBTypeOK
  BY VisitsAssumption, EmptySeq DEF Init, DBInit, DBTypeOK, NoVisit
<1>2. ASSUME DBTypeOK, DBStep
      PROVE  DBTypeOK'
  <2>1. CASE UNCHANGED dbVars
    BY <1>2, <2>1 DEF DBTypeOK, dbVars
  <2>2. CASE VisitIdArrives
    <3> DEFINE new == announced + 1
    <3>1. new \in Visits /\ announced' = new /\ announced' \in 0..MaxVisits
      BY <1>2, <2>2, VisitsAssumption DEF DBTypeOK, VisitIdArrives, Visits
    <3>2. queue' = Append(queue, new) /\ visitID' = visitID
      BY <2>2 DEF VisitIdArrives
    <3>3. /\ queue' \in Seq(Visits) /\ Len(queue') = Len(queue) + 1 /\ Len(queue) \in Nat
          /\ \A i \in 1..Len(queue') : queue'[i] = IF i = Len(queue) + 1 THEN new ELSE queue[i]
      BY <1>2, <3>1, <3>2 DEF DBTypeOK
    <3>4. queue' # <<>>
      BY <3>3, EmptySeq
    <3>5. \A i \in 1..Len(queue') : queue'[i] = announced' - Len(queue') + i
      BY <1>2, <3>1, <3>3 DEF DBTypeOK
    <3>6. QED
      BY <1>2, <3>1, <3>2, <3>3, <3>4, <3>5 DEF DBTypeOK
  <2>3. ASSUME NEW r, SaveRecord(r)
        PROVE  DBTypeOK'
    <3>1. queue' = <<>> /\ visitID' = announced /\ announced' = announced
      BY <1>2, <2>3, Newest DEF SaveRecord
    <3>2. queue' \in Seq(Visits) /\ Len(queue') = 0
      BY <3>1, EmptySeq
    <3>3. QED
      BY <1>2, <3>1, <3>2 DEF DBTypeOK
  <2>4. QED
    BY <1>2, <2>1, <2>2, <2>3 DEF DBStep
<1>3. DBTypeOK /\ [Next]_vars => DBTypeOK'
  BY <1>2, Steps
<1>4. QED
  BY <1>1, <1>3, PTL DEF Spec

\* A record is sent with the newest visit id that has reached the extension,
\* however many have come since the last record.
THEOREM StampedAlways == Spec => StampedWithNewest
<1> DEFINE A == \A r \in saved' \ saved :
                  r.visit = IF announced = 0 THEN Unattributed ELSE announced
<1>1. DBTypeOK /\ [Next]_vars => [A]_saved
  <2> SUFFICES ASSUME DBTypeOK, DBStep
               PROVE  A
    BY Steps
  <2>1. CASE UNCHANGED dbVars
    BY <2>1 DEF dbVars
  <2>2. CASE VisitIdArrives
    BY <2>2 DEF VisitIdArrives
  <2>3. ASSUME NEW d, SaveRecord(d)
        PROVE  A
    BY <2>3, Newest DEF SaveRecord, Attribution, NoVisit
  <2>4. QED
    BY <2>1, <2>2, <2>3 DEF DBStep
<1>2. QED
  BY <1>1, DBInvariant, PTL DEF Spec, StampedWithNewest

-----------------------------------------------------------------------------
(* Types *)

\* The handlers and what they have recorded.
HandlersTyped ==
  /\ tasks \subseteq Tasks /\ ordinal \in Nat
  /\ \A c \in contents : c.req \in Requests /\ c.leg \in Legs /\ c.hash \in Chunks
  /\ logged \subseteq Nat /\ lost \subseteq Nat

\* The browser and the pending objects.
BrowserTyped ==
  /\ traits \in [Requests -> Traits]
  /\ running \in BOOLEAN /\ tabOpen \in BOOLEAN
  /\ stage \in [Requests -> {"new", "opened", "sent", "redirected", "completed", "failed"}]
  /\ leg \in [Requests -> Legs]
  /\ post \in [Requests -> BOOLEAN]
  /\ delivered \in [Requests -> 0..MaxChunks]
  /\ whole \subseteq Requests
  /\ pendingRequest \in [Requests -> Details \union {Unresolved}]
  /\ listener \in [Requests -> Listeners \union {NoListener}]

Inv1 == HandlersTyped /\ BrowserTyped

LEMMA TypeParts == TypeOK <=> DBTypeOK /\ Inv1
  BY DEF TypeOK, Inv1, HandlersTyped, BrowserTyped

LEMMA ProceedTypes ==
  ASSUME HandlersTyped, NEW t \in Tasks, Proceed(t), UNCHANGED <<contents, lost>>,
         ordinal' \in Nat
  PROVE  HandlersTyped'
<1>1. [t EXCEPT !.pc = "body"] \in Tasks /\ t.ordinal \in Nat
  BY DEF Tasks
<1>2. tasks' \subseteq Tasks /\ logged' \subseteq Nat
  BY <1>1 DEF Proceed, HandlersTyped
<1>3. QED
  BY <1>2 DEF HandlersTyped

LEMMA HandleTypes ==
  ASSUME Inv1, NEW r \in Requests, NEW kind \in Kinds, Handle(r, kind)
  PROVE  HandlersTyped'
<1> DEFINE t == [kind |-> kind, req |-> r, leg |-> leg[r], post |-> post[r],
                 ordinal |-> ordinal, pc |-> "tab"]
<1>1. t \in Tasks
  BY DEF Inv1, HandlersTyped, BrowserTyped, Tasks
<1>2. UNCHANGED <<contents, lost>>
  BY DEF Handle
<1>3. CASE UNCHANGED <<tasks, ordinal, logged>>
  BY <1>2, <1>3 DEF Inv1, HandlersTyped
<1>4. CASE tasks' = tasks \union {t} /\ ordinal' = ordinal + 1 /\ UNCHANGED logged
  BY <1>1, <1>2, <1>4 DEF Inv1, HandlersTyped
<1>5. CASE Proceed(t) /\ ordinal' = ordinal + 1
  <2>1. ordinal' \in Nat
    BY <1>5 DEF Inv1, HandlersTyped
  <2> HIDE DEF t
  <2>2. QED
    BY <1>1, <1>2, <1>5, <2>1, ProceedTypes DEF Inv1
<1>6. QED
  BY <1>3, <1>4, <1>5 DEF Handle

LEMMA ResumeTypes ==
  ASSUME Inv1, NEW t \in tasks, Resume(t)
  PROVE  HandlersTyped'
<1>1. t \in Tasks /\ t.ordinal \in Nat /\ t.req \in Requests /\ t.leg \in Legs
  BY DEF Inv1, HandlersTyped, Tasks
<1>2. CASE GotTab(t)
  <2>1. Proceed(t) /\ UNCHANGED <<ordinal, contents, lost>>
    BY <1>2 DEF GotTab
  <2>2. QED
    BY <1>1, <2>1, ProceedTypes DEF Inv1, HandlersTyped
<1>3. CASE TabGone(t)
  BY <1>1, <1>3 DEF TabGone, Inv1, HandlersTyped
<1>4. CASE RequestBodyReady(t) \/ RequestBodyTimeout(t)
  BY <1>1, <1>4 DEF RequestBodyReady, RequestBodyTimeout, Inv1, HandlersTyped
<1>5. CASE ResponseBodyReady(t)
  <2> DEFINE c == [req |-> t.req, leg |-> t.leg, hash |-> listener[t.req].hash,
                   body |-> listener[t.req].body]
  <2>1. c.req \in Requests /\ c.leg \in Legs /\ c.hash \in Chunks
    BY <1>1, <1>5 DEF ResponseBodyReady, Inv1, BrowserTyped, Listeners, NoListener, Pending
  <2>2. contents' = contents \union {c} /\ tasks' = tasks \ {t} /\ UNCHANGED <<ordinal, logged, lost>>
    BY <1>5 DEF ResponseBodyReady
  <2> HIDE DEF c
  <2>3. QED
    BY <2>1, <2>2 DEF Inv1, HandlersTyped
<1>6. QED
  BY <1>2, <1>3, <1>4, <1>5 DEF Resume

LEMMA EventTypes ==
  ASSUME Inv1, NEW r \in Requests, Events(r)
  PROVE  Inv1'
<1> USE HttpAssumption DEF Inv1
<1>1. CASE OnBeforeRequest(r)
  <2> DEFINE d == [leg |-> leg[r], post |-> post[r]]
             l == [leg |-> leg[r], filter |-> "open", body |-> <<>>, digesting |-> {}, hash |-> Pending]
  <2>1. d \in Details /\ l \in Listeners
    BY EmptySeq DEF BrowserTyped, Details, Listeners, Pending
  <2>2. pendingRequest' \in [Requests -> Details \union {Unresolved}]
    BY <1>1, <2>1 DEF OnBeforeRequest, Resolved, BrowserTyped
  <2>3. listener' \in [Requests -> Listeners \union {NoListener}]
    BY <1>1, <2>1 DEF OnBeforeRequest, BrowserTyped
  <2>4. QED
    BY <1>1, <2>2, <2>3 DEF OnBeforeRequest, BrowserTyped, HandlersTyped, handlerVars
<1>2. CASE OnBeforeSendHeaders(r)
  <2>1. HandlersTyped'
    BY <1>2, HandleTypes DEF OnBeforeSendHeaders, Kinds
  <2>2. QED
    BY <1>2, <2>1 DEF OnBeforeSendHeaders, BrowserTyped
<1>3. CASE OnBeforeRedirect(r)
  <2>1. HandlersTyped'
    BY <1>3, HandleTypes DEF OnBeforeRedirect, Kinds
  <2>2. leg' \in [Requests -> Legs]
    BY <1>3 DEF OnBeforeRedirect, BrowserTyped, Legs
  <2>3. post' \in [Requests -> BOOLEAN]
    BY <1>3 DEF OnBeforeRedirect, BrowserTyped
  <2>4. stage' \in [Requests -> {"new", "opened", "sent", "redirected", "completed", "failed"}]
    BY <1>3 DEF OnBeforeRedirect, BrowserTyped
  <2>5. QED
    BY <1>3, <2>1, <2>2, <2>3, <2>4 DEF OnBeforeRedirect, BrowserTyped
<1>4. CASE OnCompleted(r)
  <2>1. HandlersTyped'
    BY <1>4, HandleTypes DEF OnCompleted, Kinds
  <2>2. QED
    BY <1>4, <2>1 DEF OnCompleted, BrowserTyped
<1>5. CASE Fail(r)
  BY <1>5 DEF Fail, BrowserTyped, HandlersTyped, handlerVars
<1>6. QED
  BY <1>1, <1>2, <1>3, <1>4, <1>5 DEF Events

LEMMA StreamTypes ==
  ASSUME Inv1, NEW r \in Requests, Stream(r)
  PROVE  Inv1'
<1> USE HttpAssumption DEF Inv1
<1>1. listener[r] # NoListener => listener[r] \in Listeners
  BY DEF BrowserTyped
<1>2. CASE OnData(r)
  <2> DEFINE chunk == delivered[r] + 1
             l == [listener[r] EXCEPT !.body = Append(@, chunk), !.digesting = @ \union {chunk}]
  <2>1. listener[r] \in Listeners /\ chunk \in Chunks
    BY <1>1, <1>2 DEF OnData, Streaming, NoListener, BrowserTyped, Chunks
  <2>2. listener[r].body \in Seq(Chunks) /\ listener[r].digesting \in SUBSET Chunks
    BY <2>1 DEF Listeners
  <2>3. Append(listener[r].body, chunk) \in Seq(Chunks) /\ listener[r].digesting \union {chunk} \in SUBSET Chunks
    BY <2>1, <2>2
  <2>4. l \in Listeners
    BY <2>1, <2>3 DEF Listeners
  <2>5. listener' = [listener EXCEPT ![r] = l] /\ delivered' = [delivered EXCEPT ![r] = chunk]
    BY <1>2 DEF OnData, Concatenated, BrowserTyped
  <2> HIDE DEF l
  <2>6. delivered' \in [Requests -> 0..MaxChunks]
    BY <2>1, <2>5 DEF BrowserTyped, Chunks
  <2>7. listener' \in [Requests -> Listeners \union {NoListener}]
    BY <2>4, <2>5 DEF BrowserTyped
  <2>8. UNCHANGED <<traits, running, tabOpen, stage, leg, post, whole, pendingRequest, handlerVars>>
    BY <1>2 DEF OnData
  <2>9. QED
    BY <2>6, <2>7, <2>8 DEF BrowserTyped, HandlersTyped, handlerVars
<1>3. ASSUME NEW l \in Listeners, listener' = [listener EXCEPT ![r] = l],
             UNCHANGED <<browserVars, pendingRequest, handlerVars, dbVars>>
      PROVE  Inv1'
  BY <1>3 DEF BrowserTyped, HandlersTyped, handlerVars, browserVars
<1>4. CASE OnStop(r)
  <2>1. listener[r] \in Listeners
    BY <1>1, <1>4 DEF OnStop, Streaming, NoListener
  <2>2. [listener[r] EXCEPT !.filter = "stopped"] \in Listeners
    BY <2>1 DEF Listeners
  <2>3. QED
    BY <1>3, <1>4, <2>2 DEF OnStop
<1>5. CASE FilterFails(r)
  <2>1. listener[r] \in Listeners
    BY <1>1, <1>5 DEF FilterFails, NoListener
  <2>2. [listener[r] EXCEPT !.filter = "error"] \in Listeners
    BY <2>1 DEF Listeners
  <2>3. QED
    BY <1>3, <1>5, <2>2 DEF FilterFails
<1>6. ASSUME NEW c \in Chunks, DigestReady(r, c)
      PROVE  Inv1'
  <2>1. listener[r] \in Listeners
    BY <1>1, <1>6 DEF DigestReady, NoListener
  <2>2. [listener[r] EXCEPT !.digesting = @ \ {c}, !.hash = IF @ = Pending THEN c ELSE @] \in Listeners
    BY <2>1 DEF Listeners
  <2>3. QED
    BY <1>3, <1>6, <2>2 DEF DigestReady
<1>7. QED
  BY <1>2, <1>4, <1>5, <1>6 DEF Stream

LEMMA Typing == Spec => []Inv1
<1>1. Init => Inv1
  <2> SUFFICES ASSUME Init
               PROVE  Inv1
    OBVIOUS
  <2>1. HandlersTyped
    BY DEF Init, DBInit, HandlersTyped
  <2>2. leg \in [Requests -> Legs] /\ delivered \in [Requests -> 0..MaxChunks]
    BY HttpAssumption DEF Init, Legs
  <2>3. /\ pendingRequest \in [Requests -> Details \union {Unresolved}]
        /\ listener \in [Requests -> Listeners \union {NoListener}]
    BY DEF Init
  <2>4. QED
    BY <2>1, <2>2, <2>3 DEF Init, Inv1, BrowserTyped
<1>2. Inv1 /\ [Next]_vars => Inv1'
  <2> SUFFICES ASSUME Inv1, [Next]_vars
               PROVE  Inv1'
    OBVIOUS
  <2>1. CASE Run \/ CloseTab \/ VisitStarts \/ UNCHANGED vars
    BY <2>1 DEF Run, CloseTab, VisitStarts, vars, browserVars, handlerVars, Inv1, BrowserTyped,
       HandlersTyped
  <2>2. ASSUME NEW t \in tasks, Resume(t)
        PROVE  Inv1'
    <3>1. UNCHANGED <<browserVars, pendingRequest, listener>>
      BY <2>2 DEF Resume, GotTab, TabGone, RequestBodyReady, RequestBodyTimeout, ResponseBodyReady
    <3>2. QED
      BY <2>2, <3>1, ResumeTypes DEF Inv1, BrowserTyped, browserVars
  <2>3. QED
    BY <2>1, <2>2, EventTypes, StreamTypes DEF Next
<1>3. QED
  BY <1>1, <1>2, PTL DEF Spec

\* Every variable of the HTTP instrument keeps its type.
THEOREM TypeCorrect == Spec => []TypeOK
  BY TypeParts, DBInvariant, Typing, PTL

-----------------------------------------------------------------------------
(* What becomes of a handler *)

\* Handlers and records are of the same event.
Same(a, b) ==
  a.kind = b.kind /\ a.req = b.req /\ a.leg = b.leg /\ a.post = b.post /\ a.ordinal = b.ordinal

\* d is a right record of the handler t.
Right(d, t) ==
  /\ Same(d, t)
  /\ d.kind = "request" /\ d.post =>
       d.body = IF pendingRequest[t.req].post THEN pendingRequest[t.req].leg ELSE NoLeg
  /\ d.kind = "response" /\ d.hash \notin {NoHash, ErrorHash} =>
       /\ listener[t.req].filter = "stopped"
       /\ [req |-> t.req, leg |-> t.leg, hash |-> d.hash, body |-> listener[t.req].body] \in contents'

\* The handler t goes on waiting, or is replaced by its record.
Moves(t) ==
  \/ \E u : Same(u, t) /\ tasks' = (tasks \ {t}) \union {u} /\ UNCHANGED saved
  \/ \E s : Right(s.data, t) /\ tasks' = tasks \ {t} /\ saved' = saved \union {s}

LEMMA SaveMoves ==
  ASSUME NEW t, NEW body, NEW hash, tasks' = tasks \ {t}, Save(t, body, hash),
         Right(Record(t, body, hash), t)
  PROVE  Moves(t)
<1> DEFINE s == [data |-> Record(t, body, hash), visit |-> Attribution]
<1>1. saved' = saved \union {s} /\ Right(s.data, t)
  BY DEF Save, SaveRecord
<1>2. QED
  BY <1>1, Zenon DEF Moves

LEMMA ProceedMoves ==
  ASSUME NEW t \in Tasks, Proceed(t)
  PROVE  Moves(t)
<1>1. CASE /\ tasks' = (tasks \ {t}) \union {[t EXCEPT !.pc = "body"]} /\ NothingSaved
  <2>1. Same([t EXCEPT !.pc = "body"], t)
    BY DEF Same, Tasks
  <2>2. QED
    BY <1>1, <2>1 DEF Moves, NothingSaved, dbVars
<1>2. CASE /\ NeedsResponseBody(t)
           /\ tasks' = tasks \ {t} /\ Save(t, NoLeg, ErrorHash)
  <2>1. Right(Record(t, NoLeg, ErrorHash), t)
    BY <1>2 DEF Right, Record, Same, NeedsResponseBody
  <2>2. QED
    BY <1>2, <2>1, SaveMoves
<1>3. CASE /\ ~NeedsRequestBody(t)
           /\ tasks' = tasks \ {t} /\ Save(t, NoLeg, NoHash)
  <2>1. Right(Record(t, NoLeg, NoHash), t)
    BY <1>3 DEF Right, Record, Same, NeedsRequestBody
  <2>2. QED
    BY <1>3, <2>1, SaveMoves
<1>4. QED
  BY <1>1, <1>2, <1>3 DEF Proceed

\* An event is counted and gets a handler, or nobody sees it.
Counts(r, kind) ==
  /\ ordinal' = ordinal + 1 /\ UNCHANGED <<contents, lost>>
  /\ \E t \in Tasks :
       /\ t.kind = kind /\ t.req = r /\ t.leg = leg[r] /\ t.post = post[r] /\ t.ordinal = ordinal
       /\ Moves(t)

Quiet == UNCHANGED <<tasks, saved, ordinal, contents, lost>>

LEMMA HandleMoves ==
  ASSUME Inv1, NEW r \in Requests, NEW kind \in Kinds, Handle(r, kind)
  PROVE  Quiet \/ Counts(r, kind)
<1> DEFINE t == [kind |-> kind, req |-> r, leg |-> leg[r], post |-> post[r],
                 ordinal |-> ordinal, pc |-> "tab"]
<1>1. /\ t \in Tasks /\ t.kind = kind /\ t.req = r /\ t.leg = leg[r] /\ t.post = post[r]
      /\ t.ordinal = ordinal /\ Same(t, t)
  BY DEF Inv1, HandlersTyped, BrowserTyped, Tasks, Same
<1>2. UNCHANGED <<contents, lost>>
  BY DEF Handle
<1>3. CASE UNCHANGED <<tasks, ordinal, logged>> /\ NothingSaved
  BY <1>2, <1>3 DEF Quiet, NothingSaved, dbVars
<1>4. CASE tasks' = tasks \union {t} /\ ordinal' = ordinal + 1 /\ NothingSaved
  <2>1. (tasks \ {t}) \union {t} = tasks \union {t}
    OBVIOUS
  <2>2. Moves(t)
    BY <1>1, <1>4, <2>1 DEF Moves, NothingSaved, dbVars
  <2> HIDE DEF t
  <2>3. QED
    BY <1>1, <1>2, <1>4, <2>2 DEF Counts
<1>5. CASE Proceed(t) /\ ordinal' = ordinal + 1
  <2> HIDE DEF t
  <2>1. Moves(t)
    BY <1>1, <1>5, ProceedMoves
  <2>2. QED
    BY <1>1, <1>2, <1>5, <2>1 DEF Counts
<1>6. QED
  BY <1>3, <1>4, <1>5 DEF Handle

\* A handler whose tab was closed ends.
Loses(t) ==
  /\ ~tabOpen /\ tasks' = tasks \ {t} /\ lost' = lost \union {t.ordinal}
  /\ UNCHANGED <<saved, ordinal, contents>>

LEMMA ResumeMoves ==
  ASSUME Inv1, NEW t \in tasks, Resume(t)
  PROVE  \/ Moves(t) /\ UNCHANGED <<ordinal, lost>> /\ contents \subseteq contents'
         \/ Loses(t)
<1>1. t \in Tasks
  BY DEF Inv1, HandlersTyped
<1>2. CASE GotTab(t)
  BY <1>1, <1>2, ProceedMoves DEF GotTab
<1>3. CASE TabGone(t)
  BY <1>3 DEF TabGone, Loses, dbVars
<1>4. CASE RequestBodyReady(t)
  <2> DEFINE b == IF pendingRequest[t.req].post THEN pendingRequest[t.req].leg ELSE NoLeg
  <2>1. tasks' = tasks \ {t} /\ Save(t, b, NoHash) /\ UNCHANGED <<ordinal, lost, contents>>
    BY <1>4 DEF RequestBodyReady
  <2>2. Right(Record(t, b, NoHash), t)
    BY <1>4 DEF Right, Record, Same
  <2>3. QED
    BY <2>1, <2>2, SaveMoves
<1>5. CASE RequestBodyTimeout(t)
  <2>1. tasks' = tasks \ {t} /\ Save(t, NoLeg, NoHash) /\ UNCHANGED <<ordinal, lost, contents>>
    BY <1>5 DEF RequestBodyTimeout
  <2>2. Right(Record(t, NoLeg, NoHash), t)
    BY <1>5 DEF RequestBodyTimeout, Right, Record, Same, Unresolved
  <2>3. QED
    BY <2>1, <2>2, SaveMoves
<1>6. CASE ResponseBodyReady(t)
  <2> DEFINE l == listener[t.req]
             c == [req |-> t.req, leg |-> t.leg, hash |-> l.hash, body |-> l.body]
  <2>1. /\ tasks' = tasks \ {t} /\ Save(t, NoLeg, l.hash) /\ UNCHANGED <<ordinal, lost>>
        /\ contents' = contents \union {c} /\ l.filter = "stopped" /\ t.kind = "response"
    BY <1>6 DEF ResponseBodyReady
  <2>2. Right(Record(t, NoLeg, l.hash), t)
    BY <2>1 DEF Right, Record, Same
  <2> HIDE DEF l
  <2>3. QED
    BY <2>1, <2>2, SaveMoves
<1>7. QED
  BY <1>2, <1>3, <1>4, <1>5, <1>6 DEF Resume

-----------------------------------------------------------------------------
(* Every event is accounted for *)

\* Ordinals are those of events that were counted, and each has one handler.
Numbered ==
  /\ ordinal \in Nat
  /\ \A t \in tasks : t.ordinal \in 0..(ordinal - 1)
  /\ \A s \in saved : s.data.ordinal \in 0..(ordinal - 1)
  /\ lost \subseteq 0..(ordinal - 1)
  /\ \A t1, t2 \in tasks : t1.ordinal = t2.ordinal => t1 = t2

Accounted == Numbered /\ EventsAccounted

\* A handler that moves keeps its event accounted for, if it was or is new.
LEMMA MovesAccounted ==
  ASSUME Accounted, NEW t, Moves(t), lost' = lost, tabOpen' = tabOpen,
         \/ t \in tasks /\ ordinal' = ordinal
         \/ t.ordinal = ordinal /\ ordinal' = ordinal + 1
  PROVE  Accounted'
<1> USE DEF Accounted
<1>1. PICK n \in Nat : n = t.ordinal /\ n \in 0..(ordinal' - 1) /\ n \notin lost
  <2>1. CASE t \in tasks /\ ordinal' = ordinal
    <3>1. t.ordinal \in 0..(ordinal - 1) /\ Waiting(t.ordinal)
      BY <2>1, Zenon DEF Numbered, Waiting
    <3>2. t.ordinal \notin lost
      BY <3>1 DEF EventsAccounted
    <3>3. QED
      BY <2>1, <3>1, <3>2
  <2>2. CASE t.ordinal = ordinal /\ ordinal' = ordinal + 1
    BY <2>2 DEF Numbered
  <2>3. QED
    BY <2>1, <2>2
<1>2. ~Recorded(n)
  <2>1. CASE t \in tasks /\ ordinal' = ordinal
    <3>1. n \in 0..(ordinal - 1) /\ Waiting(n)
      BY <1>1, <2>1, Zenon DEF Numbered, Waiting
    <3>2. QED
      BY <3>1 DEF EventsAccounted
  <2>2. CASE t.ordinal = ordinal /\ ordinal' = ordinal + 1
    BY <1>1, <2>2 DEF Numbered, Recorded
  <2>3. QED
    BY <2>1, <2>2
<1>3. \A u \in tasks : u.ordinal = n => u = t
  BY <1>1 DEF Numbered
<1>4. ordinal' \in Nat /\ 0..(ordinal - 1) \subseteq 0..(ordinal' - 1)
      /\ (\A o \in 0..(ordinal' - 1) : o # n => o \in 0..(ordinal - 1))
  BY <1>1 DEF Numbered
<1>5. lost' \subseteq 0..(ordinal' - 1) /\ (lost' # {} => ~tabOpen')
  BY <1>4 DEF Numbered, EventsAccounted
<1>6. ASSUME NEW u, Same(u, t), tasks' = (tasks \ {t}) \union {u}, UNCHANGED saved
      PROVE  Accounted'
  <2>1. u.ordinal = n
    BY <1>1, <1>6 DEF Same
  <2>2. Numbered'
    BY <1>1, <1>3, <1>4, <1>5, <1>6, <2>1 DEF Numbered
  <2>3. \A o : (Recorded(o)' <=> Recorded(o)) /\ (o # n => (Waiting(o)' <=> Waiting(o)))
    BY <1>1, <1>6, <2>1 DEF Recorded, Waiting
  <2>4. Waiting(n)'
    BY <1>6, <2>1 DEF Waiting
  <2>5. QED
    BY <1>1, <1>2, <1>4, <1>5, <1>6, <2>2, <2>3, <2>4 DEF EventsAccounted
<1>7. ASSUME NEW s, Right(s.data, t), tasks' = tasks \ {t}, saved' = saved \union {s}
      PROVE  Accounted'
  <2>1. s.data.ordinal = n
    BY <1>1, <1>7 DEF Right, Same
  <2>2. Numbered'
    BY <1>1, <1>3, <1>4, <1>5, <1>7, <2>1 DEF Numbered
  <2>3. \A o : o # n => (Recorded(o)' <=> Recorded(o)) /\ (Waiting(o)' <=> Waiting(o))
    BY <1>1, <1>7, <2>1 DEF Recorded, Waiting
  <2>4. Recorded(n)' /\ ~Waiting(n)'
    BY <1>3, <1>7, <2>1 DEF Recorded, Waiting
  <2>5. \A r \in saved : r.data.ordinal # n
    BY <1>2 DEF Recorded
  <2>6. QED
    BY <1>1, <1>4, <1>5, <1>7, <2>1, <2>2, <2>3, <2>4, <2>5 DEF EventsAccounted
<1>8. QED
  BY <1>6, <1>7 DEF Moves

LEMMA LosesAccounted ==
  ASSUME Accounted, NEW t \in tasks, Loses(t), tabOpen' = tabOpen
  PROVE  Accounted'
<1> USE DEF Accounted
<1>1. PICK n : n = t.ordinal
  OBVIOUS
<1>2. n \in 0..(ordinal - 1) /\ Waiting(n)
  BY <1>1, Zenon DEF Numbered, Waiting
<1>3. ~Recorded(n) /\ n \notin lost
  BY <1>2 DEF EventsAccounted
<1>4. /\ tasks' = tasks \ {t} /\ lost' = lost \union {n} /\ saved' = saved /\ ordinal' = ordinal
      /\ ~tabOpen'
  BY <1>1 DEF Loses
<1>5. Numbered'
  BY <1>2, <1>4 DEF Numbered
<1>6. \A o : (Recorded(o)' <=> Recorded(o)) /\ (o # n => (Waiting(o)' <=> Waiting(o)))
  BY <1>1, <1>4 DEF Recorded, Waiting
<1>7. ~Waiting(n)'
  BY <1>1, <1>4 DEF Waiting, Numbered
<1>8. QED
  BY <1>2, <1>3, <1>4, <1>5, <1>6, <1>7 DEF EventsAccounted

LEMMA QuietAccounted ==
  ASSUME Accounted, UNCHANGED <<tasks, saved, ordinal, lost>>, tabOpen' = tabOpen \/ tabOpen' = FALSE
  PROVE  Accounted'
<1>1. \A o : (Recorded(o)' <=> Recorded(o)) /\ (Waiting(o)' <=> Waiting(o))
  BY DEF Recorded, Waiting
<1>2. lost' # {} => ~tabOpen'
  BY DEF Accounted, EventsAccounted
<1>3. QED
  BY <1>1, <1>2 DEF Accounted, Numbered, EventsAccounted

\* Every event that was counted is waited for, recorded once, or was lost with
\* its tab.
THEOREM AccountedAlways == Spec => []EventsAccounted
<1>1. Init => Accounted
  BY DEF Init, DBInit, Accounted, Numbered, EventsAccounted
<1>2. Inv1 /\ Accounted /\ [Next]_vars => Accounted'
  <2> SUFFICES ASSUME Inv1, Accounted, [Next]_vars
               PROVE  Accounted'
    OBVIOUS
  <2>1. CASE Run \/ CloseTab \/ VisitStarts \/ UNCHANGED vars
    BY <2>1, QuietAccounted DEF Run, CloseTab, VisitStarts, VisitIdArrives, vars, browserVars, handlerVars, dbVars
  <2>2. ASSUME NEW r \in Requests, NEW kind \in Kinds, Handle(r, kind), tabOpen' = tabOpen
        PROVE  Accounted'
    BY <2>2, HandleMoves, MovesAccounted, QuietAccounted DEF Quiet, Counts
  <2>3. ASSUME NEW r \in Requests, Events(r)
        PROVE  Accounted'
    <3>1. CASE OnBeforeRequest(r) \/ Fail(r)
      BY <3>1, QuietAccounted DEF OnBeforeRequest, Fail, handlerVars, dbVars
    <3>2. CASE OnBeforeSendHeaders(r) \/ OnBeforeRedirect(r) \/ OnCompleted(r)
      BY <2>2, <3>2 DEF OnBeforeSendHeaders, OnBeforeRedirect, OnCompleted, Kinds
    <3>3. QED
      BY <2>3, <3>1, <3>2 DEF Events
  <2>4. ASSUME NEW r \in Requests, Stream(r)
        PROVE  Accounted'
    BY <2>4, QuietAccounted DEF Stream, OnData, OnStop, FilterFails, DigestReady, browserVars, handlerVars, dbVars
  <2>5. ASSUME NEW t \in tasks, Resume(t)
        PROVE  Accounted'
    <3>1. tabOpen' = tabOpen
      BY <2>5 DEF Resume, GotTab, TabGone, RequestBodyReady, RequestBodyTimeout, ResponseBodyReady, browserVars
    <3>2. QED
      BY <2>5, <3>1, ResumeMoves, MovesAccounted, LosesAccounted
  <2>6. QED
    BY <2>1, <2>3, <2>4, <2>5 DEF Next
<1>3. Accounted => EventsAccounted
  BY DEF Accounted
<1>4. QED
  BY <1>1, <1>2, <1>3, Typing, PTL DEF Spec

-----------------------------------------------------------------------------
(* Order *)

\* What is known of the events that were counted.
Known == tasks \union {s.data : s \in saved}

LEMMA MovesKnown ==
  ASSUME NEW t, Moves(t)
  PROVE  \A e \in Known' : e \in Known \/ Same(e, t)
  BY DEF Moves, Known, Right

\* The largest position of an event of r up to now.
Reached(r) ==
  IF stage[r] \in {"new", "opened", "redirected"} THEN 2 * leg[r] - 1
  ELSE IF stage[r] = "sent" THEN 2 * leg[r] ELSE 2 * leg[r] + 1

InSequence ==
  /\ \A e \in Known : /\ e.req \in Requests /\ e.leg \in Nat /\ e.ordinal \in Nat
                      /\ e.ordinal < ordinal /\ Position(e) <= Reached(e.req)
  /\ \A e1, e2 \in Known :
       e1.req = e2.req /\ Position(e1) < Position(e2) => e1.ordinal < e2.ordinal

\* What is known stays, and what is reached does not go back.
LEMMA KnownInSequence ==
  ASSUME InSequence, Known' \subseteq Known, ordinal' = ordinal, ordinal \in Nat,
         \A r \in Requests : Reached(r) \in Int /\ Reached(r)' \in Int /\ Reached(r) <= Reached(r)'
  PROVE  InSequence'
<1>1. ASSUME NEW e \in Known
      PROVE  Position(e) \in Int /\ Position(e) <= Reached(e.req)'
  <2>1. Position(e) \in Int /\ Position(e) <= Reached(e.req) /\ e.req \in Requests
    BY DEF InSequence, Position
  <2>2. PICK r \in Requests : r = e.req
    BY <2>1
  <2>3. Reached(r) \in Int /\ Reached(r)' \in Int /\ Reached(r) <= Reached(r)'
    OBVIOUS
  <2>4. QED
    BY <2>1, <2>2, <2>3
<1>2. QED
  BY <1>1 DEF InSequence

\* A handler that was known moves.
LEMMA MovesInSequence ==
  ASSUME InSequence, NEW t \in tasks, Moves(t), ordinal' = ordinal, UNCHANGED <<stage, leg>>
  PROVE  InSequence'
<1>1. t \in Known /\ \A e \in Known' : e \in Known \/ Same(e, t)
  BY MovesKnown DEF Known
<1>2. \A r : Reached(r)' = Reached(r)
  BY DEF Reached
<1>3. \A e \in Known' : \E k \in Known : Same(e, k)
  BY <1>1 DEF Same
<1>4. \A e, k : Same(e, k) => Position(e) = Position(k)
  BY DEF Same, Position
<1>5. ASSUME NEW e \in Known'
      PROVE  /\ e.req \in Requests /\ e.leg \in Nat /\ e.ordinal \in Nat
             /\ e.ordinal < ordinal /\ Position(e) <= Reached(e.req)
  <2>1. PICK k \in Known : Same(e, k)
    BY <1>3
  <2>2. QED
    BY <1>4, <2>1 DEF InSequence, Same
<1>6. ASSUME NEW e1 \in Known', NEW e2 \in Known', e1.req = e2.req, Position(e1) < Position(e2)
      PROVE  e1.ordinal < e2.ordinal
  <2>1. PICK k1 \in Known, k2 \in Known : Same(e1, k1) /\ Same(e2, k2)
    BY <1>3
  <2>2. Position(e1) = Position(k1) /\ Position(e2) = Position(k2)
    BY <1>4, <2>1
  <2>3. k1.req = k2.req /\ k1.ordinal = e1.ordinal /\ k2.ordinal = e2.ordinal
    BY <1>6, <2>1 DEF Same
  <2>4. Position(k1) < Position(k2)
    BY <1>6, <2>2
  <2>5. QED
    BY <2>1, <2>3, <2>4 DEF InSequence
<1>7. QED
  BY <1>2, <1>5, <1>6 DEF InSequence

\* An event is counted: it comes after all others of its request.
LEMMA CountsInSequence ==
  ASSUME Inv1, InSequence, NEW r \in Requests, NEW kind, Counts(r, kind),
         \A q \in Requests : /\ Reached(q) \in Int /\ Reached(q)' \in Int
                             /\ Reached(q) <= Reached(q)',
         NEW p \in Int, p = 2 * leg[r] + (IF kind = "request" THEN 0 ELSE 1),
         Reached(r) < p, p <= Reached(r)'
  PROVE  InSequence'
<1>1. ordinal' = ordinal + 1 /\ ordinal \in Nat
  BY DEF Counts, Inv1, HandlersTyped
<1>2. PICK t : /\ t.kind = kind /\ t.req = r /\ t.leg = leg[r] /\ t.ordinal = ordinal
               /\ Moves(t)
  BY DEF Counts
<1>3. \A e \in Known' : e \in Known \/ Same(e, t)
  BY <1>2, MovesKnown
<1>4. leg[r] \in Nat
  BY DEF Inv1, BrowserTyped, Legs
<1>5. ASSUME NEW e, Same(e, t)
      PROVE  e.req = r /\ e.leg = leg[r] /\ e.ordinal = ordinal /\ Position(e) = p
  BY <1>2, <1>5 DEF Same, Position
<1>6. ASSUME NEW e \in Known
      PROVE  /\ e.req \in Requests /\ e.leg \in Nat /\ e.ordinal \in Nat /\ e.ordinal < ordinal
             /\ Position(e) \in Int /\ Position(e) <= Reached(e.req)'
             /\ e.req = r => Position(e) < p
  <2>1. /\ e.req \in Requests /\ e.leg \in Nat /\ e.ordinal \in Nat /\ e.ordinal < ordinal
        /\ Position(e) \in Int /\ Position(e) <= Reached(e.req)
    BY DEF InSequence, Position
  <2>2. PICK q \in Requests : q = e.req
    BY <2>1
  <2>3. Reached(q) \in Int /\ Reached(q)' \in Int /\ Reached(q) <= Reached(q)'
    OBVIOUS
  <2>4. Position(e) <= Reached(q)'
    BY <2>1, <2>2, <2>3
  <2>5. e.req = r => Position(e) < p
    BY <2>1
  <2>6. QED
    BY <2>1, <2>2, <2>4, <2>5
<1>7. ASSUME NEW e \in Known'
      PROVE  /\ e.req \in Requests /\ e.leg \in Nat /\ e.ordinal \in Nat
             /\ e.ordinal < ordinal' /\ Position(e) <= Reached(e.req)'
  BY <1>1, <1>3, <1>4, <1>5, <1>6
<1>8. ASSUME NEW e1 \in Known', NEW e2 \in Known', e1.req = e2.req, Position(e1) < Position(e2)
      PROVE  e1.ordinal < e2.ordinal
  <2>1. CASE e1 \in Known /\ e2 \in Known
    BY <1>8, <2>1 DEF InSequence
  <2>2. CASE e1 \in Known /\ Same(e2, t)
    BY <1>5, <1>6, <2>2
  <2>3. CASE Same(e1, t) /\ e2 \in Known
    BY <1>5, <1>6, <1>8, <2>3
  <2>4. CASE Same(e1, t) /\ Same(e2, t)
    BY <1>5, <1>8, <2>4
  <2>5. QED
    BY <1>3, <2>1, <2>2, <2>3, <2>4
<1>9. QED
  BY <1>7, <1>8 DEF InSequence

LEMMA EventsInSequence ==
  ASSUME Inv1, Inv1', InSequence, NEW r \in Requests, Events(r)
  PROVE  InSequence'
<1>1. \A q \in Requests : Reached(q) \in Int /\ Reached(q)' \in Int /\ leg[q] \in Nat
  BY DEF Inv1, BrowserTyped, Legs, Reached
<1>2. ASSUME \A q \in Requests : Reached(q) <= Reached(q)', Quiet
      PROVE  InSequence'
  <2>1. Known' \subseteq Known /\ ordinal' = ordinal /\ ordinal \in Nat
    BY <1>2 DEF Quiet, Known, Inv1, HandlersTyped
  <2>2. QED
    BY <1>1, <1>2, <2>1, KnownInSequence
<1>3. ASSUME NEW kind \in Kinds, Handle(r, kind), \A q \in Requests : Reached(q) <= Reached(q)',
             NEW p \in Int, p = 2 * leg[r] + (IF kind = "request" THEN 0 ELSE 1),
             Reached(r) < p, p <= Reached(r)'
      PROVE  InSequence'
  BY <1>1, <1>2, <1>3, HandleMoves, CountsInSequence
<1>4. stage \in [Requests -> {"new", "opened", "sent", "redirected", "completed", "failed"}]
      /\ leg \in [Requests -> Legs]
  BY DEF Inv1, BrowserTyped
<1>5. CASE OnBeforeRequest(r)
  <2>1. \A q \in Requests : Reached(q) <= Reached(q)'
    BY <1>1, <1>4, <1>5 DEF OnBeforeRequest, Reached
  <2>2. Quiet
    BY <1>5 DEF OnBeforeRequest, handlerVars, dbVars, Quiet
  <2>3. QED
    BY <1>2, <2>1, <2>2
<1>6. CASE Fail(r)
  <2>1. \A q \in Requests : Reached(q) <= Reached(q)'
    BY <1>1, <1>4, <1>6 DEF Fail, Reached
  <2>2. Quiet
    BY <1>6 DEF Fail, handlerVars, dbVars, Quiet
  <2>3. QED
    BY <1>2, <2>1, <2>2
<1>7. CASE OnBeforeSendHeaders(r)
  <2>1. /\ \A q \in Requests : Reached(q) <= Reached(q)'
        /\ Reached(r) < 2 * leg[r] /\ 2 * leg[r] <= Reached(r)'
    BY <1>1, <1>4, <1>7 DEF OnBeforeSendHeaders, Reached
  <2>2. Handle(r, "request") /\ 2 * leg[r] \in Int
    BY <1>1, <1>7 DEF OnBeforeSendHeaders
  <2>3. QED
    BY <1>3, <2>1, <2>2 DEF Kinds
<1>8. CASE OnBeforeRedirect(r)
  <2>1. /\ \A q \in Requests : Reached(q) <= Reached(q)'
        /\ Reached(r) < 2 * leg[r] + 1 /\ 2 * leg[r] + 1 <= Reached(r)'
    BY <1>1, <1>4, <1>8 DEF OnBeforeRedirect, Reached
  <2>2. Handle(r, "redirect") /\ 2 * leg[r] + 1 \in Int
    BY <1>1, <1>8 DEF OnBeforeRedirect
  <2>3. QED
    BY <1>3, <2>1, <2>2 DEF Kinds
<1>9. CASE OnCompleted(r)
  <2>1. /\ \A q \in Requests : Reached(q) <= Reached(q)'
        /\ Reached(r) < 2 * leg[r] + 1 /\ 2 * leg[r] + 1 <= Reached(r)'
    BY <1>1, <1>4, <1>9 DEF OnCompleted, Reached
  <2>2. Handle(r, "response") /\ 2 * leg[r] + 1 \in Int
    BY <1>1, <1>9 DEF OnCompleted
  <2>3. QED
    BY <1>3, <2>1, <2>2 DEF Kinds
<1>10. QED
  BY <1>5, <1>6, <1>7, <1>8, <1>9 DEF Events

\* The ordinals of a request's records tell the order of its events, in
\* whatever order the handlers save them.
THEOREM OrderAlways == Spec => []OrdinalsTellOrder
<1>1. Init => InSequence
  BY DEF Init, DBInit, InSequence, Known
<1>2. Inv1 /\ Inv1' /\ InSequence /\ [Next]_vars => InSequence'
  <2> SUFFICES ASSUME Inv1, Inv1', InSequence, [Next]_vars
               PROVE  InSequence'
    OBVIOUS
  <2>1. \A q \in Requests : Reached(q) \in Int /\ ordinal \in Nat
    BY DEF Inv1, BrowserTyped, HandlersTyped, Legs, Reached
  <2>2. ASSUME Known' \subseteq Known, ordinal' = ordinal, UNCHANGED <<stage, leg>>
        PROVE  InSequence'
    <3>1. \A q \in Requests : Reached(q)' = Reached(q)
      BY <2>2 DEF Reached
    <3>2. \A q \in Requests : Reached(q) \in Int /\ Reached(q)' \in Int /\ Reached(q) <= Reached(q)'
      BY <2>1, <3>1
    <3>3. ordinal \in Nat
      BY DEF Inv1, HandlersTyped
    <3>4. QED
      BY <2>2, <3>2, <3>3, KnownInSequence
  <2>3. CASE Run \/ CloseTab \/ VisitStarts \/ UNCHANGED vars
    BY <2>2, <2>3 DEF Run, CloseTab, VisitStarts, VisitIdArrives, vars, browserVars, handlerVars,
       dbVars, Known
  <2>4. ASSUME NEW r \in Requests, Stream(r)
        PROVE  InSequence'
    BY <2>2, <2>4 DEF Stream, OnData, OnStop, FilterFails, DigestReady, browserVars, handlerVars,
       dbVars, Known
  <2>5. ASSUME NEW t \in tasks, Resume(t)
        PROVE  InSequence'
    <3>1. UNCHANGED <<stage, leg>>
      BY <2>5 DEF Resume, GotTab, TabGone, RequestBodyReady, RequestBodyTimeout, ResponseBodyReady,
         browserVars
    <3>2. CASE Loses(t)
      BY <2>2, <3>1, <3>2 DEF Loses, Known
    <3>3. CASE Moves(t) /\ ordinal' = ordinal
      BY <3>1, <3>3, MovesInSequence
    <3>4. QED
      BY <2>5, <3>2, <3>3, ResumeMoves
  <2>6. QED
    BY <2>3, <2>4, <2>5, EventsInSequence DEF Next
<1>3. InSequence => OrdinalsTellOrder
  BY DEF InSequence, OrdinalsTellOrder, Known
<1>4. QED
  BY <1>1, <1>2, <1>3, Typing, PTL DEF Spec

-----------------------------------------------------------------------------
(* Bodies of requests *)

\* The details of onBeforeRequest that are kept are those of the first leg,
\* for a request that was seen from its start.
FirstKept ==
  /\ \A r \in Requests : stage[r] = "new" =>
       leg[r] = 1 /\ r \notin whole /\ pendingRequest[r] = Unresolved
  /\ \A r \in whole : pendingRequest[r].leg = 1 /\ (post[r] => pendingRequest[r].post)
  /\ \A e \in Known : /\ e.req \in Requests /\ stage[e.req] # "new"
                      /\ e.req \in whole /\ e.post => pendingRequest[e.req].post

Posts == FirstKept /\ PostBodyKept

\* Nothing more is known, and what was resolved stays.
LEMMA QuietPosts ==
  ASSUME Posts, Known' \subseteq Known, saved' = saved,
         UNCHANGED <<whole, pendingRequest>>,
         \A r \in Requests : /\ stage[r]' = "new" => stage[r] = "new" /\ leg[r]' = leg[r]
                             /\ post[r]' => post[r],
         whole \subseteq Requests
  PROVE  Posts'
<1>1. FirstKept'
  BY DEF Posts, FirstKept
<1>2. PostBodyKept'
  BY DEF Posts, PostBodyKept
<1>3. QED
  BY <1>1, <1>2 DEF Posts

LEMMA MovesPosts ==
  ASSUME Posts, NEW t, Moves(t), UNCHANGED <<whole, pendingRequest>>,
         t.req \in Requests, stage[t.req]' # "new",
         t.req \in whole /\ t.post => pendingRequest[t.req].post,
         \A r \in Requests : /\ stage[r]' = "new" => stage[r] = "new" /\ leg[r]' = leg[r]
                             /\ post[r]' => post[r],
         whole \subseteq Requests
  PROVE  Posts'
<1>1. ASSUME NEW e \in Known'
      PROVE  /\ e.req \in Requests /\ stage[e.req]' # "new"
             /\ e.req \in whole' /\ e.post => pendingRequest[e.req]'.post
  <2>1. CASE e \in Known
    BY <2>1 DEF Posts, FirstKept
  <2>2. CASE Same(e, t)
    BY <2>2 DEF Same
  <2>3. QED
    BY <2>1, <2>2, MovesKnown
<1>2. FirstKept'
  BY <1>1 DEF Posts, FirstKept
<1>3. ASSUME NEW s \in saved', s.data.kind = "request", s.data.post, s.data.req \in whole
      PROVE  s.data.body = 1
  <2>1. CASE s \in saved
    BY <1>3, <2>1 DEF Posts, PostBodyKept
  <2>2. CASE Right(s.data, t)
    <3>1. s.data.req = t.req /\ s.data.post = t.post
      BY <2>2 DEF Right, Same
    <3>2. pendingRequest[t.req].post /\ pendingRequest[t.req].leg = 1
      BY <1>3, <3>1 DEF Posts, FirstKept
    <3>3. QED
      BY <1>3, <2>2, <3>2 DEF Right
  <2>3. QED
    BY <2>1, <2>2 DEF Moves
<1>4. PostBodyKept'
  BY <1>3 DEF PostBodyKept
<1>5. QED
  BY <1>2, <1>4 DEF Posts

LEMMA OpensPosts ==
  ASSUME Inv1, Posts, NEW r \in Requests, OnBeforeRequest(r)
  PROVE  Posts'
<1> DEFINE d == [leg |-> leg[r], post |-> post[r]]
<1>1. Known' = Known /\ UNCHANGED <<saved, leg, post>>
  BY DEF OnBeforeRequest, handlerVars, dbVars, Known
<1>2. stage' = [stage EXCEPT ![r] = "opened"] /\ stage[r] \in {"new", "redirected"}
  BY DEF OnBeforeRequest
<1>3. /\ stage \in [Requests -> {"new", "opened", "sent", "redirected", "completed", "failed"}]
      /\ whole \subseteq Requests /\ pendingRequest \in [Requests -> Details \union {Unresolved}]
  BY DEF Inv1, BrowserTyped
<1>4. \A q \in Requests : stage[q]' = "new" => stage[q] = "new" /\ q # r
  BY <1>2, <1>3
<1>5. CASE UNCHANGED <<whole, pendingRequest>>
  BY <1>1, <1>3, <1>4, <1>5, QuietPosts
<1>6. CASE Seen(r) /\ stage[r] = "new"
  <2>1. pendingRequest[r] = Unresolved /\ leg[r] = 1 /\ r \notin whole /\ \A e \in Known : e.req # r
    BY <1>6 DEF Posts, FirstKept
  <2>2. pendingRequest' = [pendingRequest EXCEPT ![r] = d] /\ whole' = whole \union {r}
    BY <1>3, <1>6, <2>1 DEF OnBeforeRequest, Resolved
  <2>3. pendingRequest[r]'.leg = 1 /\ pendingRequest[r]'.post = post[r]
    BY <1>3, <2>1, <2>2
  <2>4. \A q \in Requests : q # r => pendingRequest[q]' = pendingRequest[q]
    BY <1>3, <2>2
  <2>5. FirstKept'
    BY <1>1, <1>2, <1>3, <1>4, <2>1, <2>2, <2>3, <2>4 DEF Posts, FirstKept
  <2>6. PostBodyKept'
    BY <1>1, <2>1, <2>2 DEF Posts, PostBodyKept, Known
  <2>7. QED
    BY <2>5, <2>6 DEF Posts
<1>7. CASE Seen(r) /\ stage[r] = "redirected"
  <2>1. whole' = whole /\ \A q \in Requests : q # r => pendingRequest[q]' = pendingRequest[q]
    BY <1>3, <1>7 DEF OnBeforeRequest
  <2>2. r \in whole => pendingRequest[r]' = pendingRequest[r]
    <3> SUFFICES ASSUME r \in whole
                 PROVE  pendingRequest[r]' = pendingRequest[r]
      OBVIOUS
    <3>1. pendingRequest[r] # Unresolved
      BY DEF Posts, FirstKept, Unresolved, NoLeg
    <3>2. QED
      BY <1>3, <1>7, <3>1 DEF OnBeforeRequest, Resolved
  <2>3. \A q \in whole : pendingRequest[q]' = pendingRequest[q]
    BY <1>3, <2>1, <2>2
  <2>4. FirstKept'
    BY <1>1, <1>2, <1>3, <1>4, <2>1, <2>3 DEF Posts, FirstKept
  <2>5. PostBodyKept'
    BY <1>1, <2>1 DEF Posts, PostBodyKept
  <2>6. QED
    BY <2>4, <2>5 DEF Posts
<1>8. CASE ~Seen(r)
  BY <1>5, <1>8 DEF OnBeforeRequest
<1>9. QED
  BY <1>2, <1>6, <1>7, <1>8

LEMMA HandlesPosts ==
  ASSUME Inv1, Posts, NEW r \in Requests, NEW kind \in Kinds, Handle(r, kind),
         UNCHANGED <<whole, pendingRequest>>, stage[r]' # "new",
         \A q \in Requests : /\ stage[q]' = "new" => stage[q] = "new" /\ leg[q]' = leg[q]
                             /\ post[q]' => post[q]
  PROVE  Posts'
<1>1. whole \subseteq Requests
  BY DEF Inv1, BrowserTyped
<1>2. CASE Quiet
  BY <1>1, <1>2, QuietPosts DEF Quiet, Known
<1>3. CASE Counts(r, kind)
  <2>1. PICK t : t.req = r /\ t.post = post[r] /\ Moves(t)
    BY <1>3 DEF Counts
  <2>2. r \in whole /\ post[r] => pendingRequest[r].post
    BY DEF Posts, FirstKept
  <2>3. QED
    BY <1>1, <2>1, <2>2, MovesPosts
<1>4. QED
  BY <1>2, <1>3, HandleMoves

\* A POST that was seen from its start is recorded with the body it was sent
\* with, on every leg.
THEOREM PostAlways == Spec => []PostBodyKept
<1>1. Init => Posts
  BY DEF Init, DBInit, Posts, FirstKept, PostBodyKept, Known
<1>2. Inv1 /\ Posts /\ [Next]_vars => Posts'
  <2> SUFFICES ASSUME Inv1, Posts, [Next]_vars
               PROVE  Posts'
    OBVIOUS
  <2>1. /\ whole \subseteq Requests
        /\ stage \in [Requests -> {"new", "opened", "sent", "redirected", "completed", "failed"}]
        /\ post \in [Requests -> BOOLEAN] /\ leg \in [Requests -> Legs]
    BY DEF Inv1, BrowserTyped
  <2>2. ASSUME UNCHANGED <<whole, pendingRequest, tasks, saved, leg, post>>,
               stage' = stage \/ \E r \in Requests : stage' = [stage EXCEPT ![r] = "failed"]
        PROVE  Posts'
    <3>1. \A r \in Requests : stage[r]' = "new" => stage[r] = "new"
      BY <2>1, <2>2
    <3>2. Known' \subseteq Known
      BY <2>2 DEF Known
    <3>3. QED
      BY <2>1, <2>2, <3>1, <3>2, QuietPosts
  <2>3. CASE Run \/ CloseTab \/ VisitStarts \/ UNCHANGED vars
    BY <2>2, <2>3 DEF Run, CloseTab, VisitStarts, VisitIdArrives, vars, browserVars, handlerVars,
       dbVars
  <2>4. ASSUME NEW r \in Requests, Stream(r)
        PROVE  Posts'
    BY <2>2, <2>4 DEF Stream, OnData, OnStop, FilterFails, DigestReady, browserVars, handlerVars,
       dbVars
  <2>5. ASSUME NEW r \in Requests, Events(r)
        PROVE  Posts'
    <3>1. CASE Fail(r)
      BY <2>2, <3>1 DEF Fail, handlerVars, dbVars
    <3>2. CASE OnBeforeSendHeaders(r)
      <4>1. stage[r]' # "new" /\ \A q \in Requests : stage[q]' = "new" => stage[q] = "new"
        BY <2>1, <3>2 DEF OnBeforeSendHeaders
      <4>2. QED
        BY <3>2, <4>1, HandlesPosts DEF OnBeforeSendHeaders, Kinds
    <3>3. CASE OnBeforeRedirect(r)
      <4>1. stage[r]' # "new" /\ \A q \in Requests : stage[q]' = "new" => stage[q] = "new" /\ q # r
        BY <2>1, <3>3 DEF OnBeforeRedirect
      <4>2. \A q \in Requests : q # r => leg[q]' = leg[q]
        BY <2>1, <3>3 DEF OnBeforeRedirect
      <4>3. \A q \in Requests : post[q]' => post[q]
        BY <2>1, <3>3 DEF OnBeforeRedirect
      <4>4. QED
        BY <3>3, <4>1, <4>2, <4>3, HandlesPosts DEF OnBeforeRedirect, Kinds
    <3>4. CASE OnCompleted(r)
      <4>1. stage[r]' # "new" /\ \A q \in Requests : stage[q]' = "new" => stage[q] = "new"
        BY <2>1, <3>4 DEF OnCompleted
      <4>2. QED
        BY <3>4, <4>1, HandlesPosts DEF OnCompleted, Kinds
    <3>5. QED
      BY <2>5, <3>1, <3>2, <3>3, <3>4, OpensPosts DEF Events
  <2>6. ASSUME NEW t \in tasks, Resume(t)
        PROVE  Posts'
    <3>1. UNCHANGED <<whole, pendingRequest, stage, leg, post>>
      BY <2>6 DEF Resume, GotTab, TabGone, RequestBodyReady, RequestBodyTimeout, ResponseBodyReady,
         browserVars
    <3>2. CASE Loses(t)
      BY <2>1, <3>1, <3>2, QuietPosts DEF Loses, Known
    <3>3. CASE Moves(t)
      <4>1. t \in Known
        BY DEF Known
      <4>2. t.req \in Requests /\ stage[t.req] # "new"
            /\ (t.req \in whole /\ t.post => pendingRequest[t.req].post)
        BY <4>1 DEF Posts, FirstKept
      <4>3. QED
        BY <2>1, <3>1, <3>3, <4>2, MovesPosts
    <3>4. QED
      BY <2>6, <3>2, <3>3, ResumeMoves
  <2>7. QED
    BY <2>3, <2>4, <2>5, <2>6 DEF Next
<1>3. Posts => PostBodyKept
  BY DEF Posts
<1>4. QED
  BY <1>1, <1>2, <1>3, Typing, PTL DEF Spec

-----------------------------------------------------------------------------
(* Bodies of responses *)

\* A listener holds all chunks that were delivered; the filter of an earlier
\* leg has seen none.
Bodies ==
  \A r \in Requests :
    /\ listener[r].body = [i \in 1..delivered[r] |-> i]
    /\ stage[r] \in {"new", "redirected"} => delivered[r] = 0

LEMMA EmptyBody == <<>> = [i \in 1..0 |-> i]
  OBVIOUS

LEMMA BodiesAlways == Spec => []Bodies
<1>1. Init => Bodies
  BY EmptyBody DEF Init, Bodies, NoListener
<1>2. Inv1 /\ Bodies /\ [Next]_vars => Bodies'
  <2> SUFFICES ASSUME Inv1, Bodies, [Next]_vars
               PROVE  Bodies'
    OBVIOUS
  <2>1. /\ stage \in [Requests -> {"new", "opened", "sent", "redirected", "completed", "failed"}]
        /\ delivered \in [Requests -> 0..MaxChunks]
        /\ listener \in [Requests -> Listeners \union {NoListener}]
    BY DEF Inv1, BrowserTyped
  <2>2. ASSUME UNCHANGED <<listener, delivered>>,
               \A r \in Requests : stage[r]' \in {"new", "redirected"} =>
                 stage[r] = stage[r]' \/ delivered[r] = 0
        PROVE  Bodies'
    BY <2>2 DEF Bodies
  <2>3. CASE Run \/ CloseTab \/ VisitStarts \/ UNCHANGED vars
    BY <2>2, <2>3 DEF Run, CloseTab, VisitStarts, vars, browserVars
  <2>4. ASSUME NEW t \in tasks, Resume(t)
        PROVE  Bodies'
    BY <2>2, <2>4 DEF Resume, GotTab, TabGone, RequestBodyReady, RequestBodyTimeout,
       ResponseBodyReady, browserVars
  <2>5. ASSUME NEW r \in Requests, OnBeforeRequest(r)
        PROVE  Bodies'
    <3>1. /\ stage' = [stage EXCEPT ![r] = "opened"] /\ delivered' = delivered
          /\ delivered[r] = 0
      BY <2>5 DEF OnBeforeRequest, Bodies
    <3>2. listener[r]' = listener[r] \/ listener[r]'.body = <<>>
      BY <2>1, <2>5 DEF OnBeforeRequest
    <3>3. \A q \in Requests : q # r => listener[q]' = listener[q]
      BY <2>1, <2>5 DEF OnBeforeRequest
    <3>4. listener[r]'.body = [i \in 1..delivered[r]' |-> i]
      BY <3>1, <3>2, EmptyBody DEF Bodies
    <3>5. QED
      BY <2>1, <3>1, <3>3, <3>4 DEF Bodies
  <2>6. ASSUME NEW r \in Requests,
               \/ OnBeforeSendHeaders(r) \/ OnBeforeRedirect(r) \/ OnCompleted(r) \/ Fail(r)
        PROVE  Bodies'
    BY <2>1, <2>2, <2>6 DEF OnBeforeSendHeaders, OnBeforeRedirect, OnCompleted, Fail
  <2>7. ASSUME NEW r \in Requests, Stream(r)
        PROVE  Bodies'
    <3>1. stage' = stage /\ \A q \in Requests : q # r => listener[q]' = listener[q]
      BY <2>1, <2>7 DEF Stream, OnData, OnStop, FilterFails, DigestReady, browserVars
    <3>2. CASE OnStop(r) \/ FilterFails(r) \/ \E c \in Chunks : DigestReady(r, c)
      <4>1. CASE OnStop(r) \/ FilterFails(r)
        BY <2>1, <3>1, <4>1 DEF OnStop, FilterFails, browserVars, Listeners, NoListener, Bodies
      <4>2. ASSUME NEW c \in Chunks, DigestReady(r, c)
            PROVE  listener[r]'.body = listener[r].body /\ delivered' = delivered
        BY <2>1, <4>2 DEF DigestReady, browserVars, Listeners, NoListener
      <4>3. QED
        BY <3>1, <3>2, <4>1, <4>2 DEF Bodies
    <3>3. CASE OnData(r)
      <4> DEFINE n == delivered[r]
      <4>1. n \in Nat /\ stage[r] \notin {"new", "redirected"}
        BY <2>1, <3>3 DEF OnData, Streaming
      <4>2. delivered' = [delivered EXCEPT ![r] = n + 1]
        BY <3>3 DEF OnData
      <4>3. listener[r].body = [i \in 1..n |-> i]
        BY DEF Bodies
      <4>4. listener[r]'.body = Append(listener[r].body, n + 1)
        BY <2>1, <3>3 DEF OnData, Concatenated, Streaming, Listeners, NoListener
      <4>5. Append([i \in 1..n |-> i], n + 1) = [i \in 1..(n + 1) |-> i]
        BY <4>1
      <4>6. QED
        BY <2>1, <3>1, <4>1, <4>2, <4>3, <4>4, <4>5 DEF Bodies
    <3>4. QED
      BY <2>7, <3>2, <3>3 DEF Stream
  <2>8. QED
    BY <2>3, <2>4, <2>5, <2>6, <2>7 DEF Next, Events
<1>3. QED
  BY <1>1, <1>2, Typing, PTL DEF Spec

\* The content under whose hash a record was made is stored.
Hashed(d) == d.kind = "response" /\ d.hash \notin {NoHash, ErrorHash}

Stored(d) ==
  [req |-> d.req, leg |-> leg[d.req], hash |-> d.hash,
   body |-> [i \in 1..delivered[d.req] |-> i]] \in contents

\* A response is the last event of its request, and once it has been recorded
\* its body does not change.
Content ==
  /\ \A e \in Known : e.req \in Requests
  /\ \A e \in Known : e.kind = "response" => stage[e.req] = "completed" /\ e.leg = leg[e.req]
  /\ \A s \in saved : Hashed(s.data) => listener[s.data.req].filter = "stopped" /\ Stored(s.data)

\* What a step leaves alone of a request that is completed.
Settled(q) ==
  stage[q] = "completed" =>
    /\ stage[q]' = "completed" /\ leg[q]' = leg[q]
    /\ listener[q].filter = "stopped" =>
         listener[q]'.filter = "stopped" /\ delivered[q]' = delivered[q]

LEMMA KnownContent ==
  ASSUME Content, \A q \in Requests : Settled(q), contents \subseteq contents'
  PROVE  /\ \A e \in Known : /\ e.req \in Requests
                             /\ e.kind = "response" =>
                                  stage[e.req]' = "completed" /\ e.leg = leg[e.req]'
         /\ \A s \in saved : Hashed(s.data) =>
              listener[s.data.req]'.filter = "stopped" /\ Stored(s.data)'
<1>1. ASSUME NEW e \in Known
      PROVE  /\ e.req \in Requests
             /\ e.kind = "response" => stage[e.req]' = "completed" /\ e.leg = leg[e.req]'
  BY DEF Content, Settled
<1>2. ASSUME NEW s \in saved, Hashed(s.data)
      PROVE  listener[s.data.req]'.filter = "stopped" /\ Stored(s.data)'
  <2>1. PICK d : d = s.data
    OBVIOUS
  <2>2. d \in Known /\ d.kind = "response"
    BY <1>2, <2>1 DEF Known, Hashed
  <2>3. d.req \in Requests /\ stage[d.req] = "completed"
    BY <2>2 DEF Content
  <2>4. listener[d.req].filter = "stopped" /\ Stored(d)
    BY <1>2, <2>1 DEF Content
  <2>5. /\ listener[d.req]'.filter = "stopped"
        /\ delivered[d.req]' = delivered[d.req] /\ leg[d.req]' = leg[d.req]
    BY <2>3, <2>4 DEF Settled
  <2>6. Stored(d)'
    BY <2>4, <2>5 DEF Stored
  <2>7. QED
    BY <2>1, <2>5, <2>6
<1>3. QED
  BY <1>1, <1>2

LEMMA QuietContent ==
  ASSUME Content, \A q \in Requests : Settled(q), contents \subseteq contents',
         tasks' \subseteq tasks, saved' = saved
  PROVE  Content'
<1>1. Known' \subseteq Known
  BY DEF Known
<1>2. QED
  BY <1>1, KnownContent DEF Content

LEMMA MovesContent ==
  ASSUME Bodies, Content, \A q \in Requests : Settled(q), contents \subseteq contents',
         NEW t, Moves(t), t.req \in Requests, UNCHANGED <<listener, delivered>>,
         t.kind = "response" => stage[t.req]' = "completed" /\ t.leg = leg[t.req]'
  PROVE  Content'
<1>1. ASSUME NEW e \in Known'
      PROVE  /\ e.req \in Requests
             /\ e.kind = "response" => stage[e.req]' = "completed" /\ e.leg = leg[e.req]'
  <2>1. CASE e \in Known
    BY <2>1, KnownContent
  <2>2. CASE Same(e, t)
    BY <2>2 DEF Same
  <2>3. QED
    BY <2>1, <2>2, MovesKnown
<1>2. ASSUME NEW s \in saved', Hashed(s.data)
      PROVE  listener[s.data.req]'.filter = "stopped" /\ Stored(s.data)'
  <2>1. CASE s \in saved
    BY <1>2, <2>1, KnownContent
  <2>2. CASE Right(s.data, t)
    <3>1. PICK d : d = s.data
      OBVIOUS
    <3>2. d.req = t.req /\ d.leg = t.leg /\ d.kind = t.kind /\ t.kind = "response"
      BY <1>2, <2>2, <3>1 DEF Right, Same, Hashed
    <3>3. /\ listener[t.req].filter = "stopped"
          /\ [req |-> t.req, leg |-> t.leg, hash |-> d.hash, body |-> listener[t.req].body] \in contents'
      BY <1>2, <2>2, <3>1 DEF Right, Hashed
    <3>4. t.leg = leg[t.req]' /\ listener[t.req].body = [i \in 1..delivered[t.req] |-> i]
      BY <3>2 DEF Bodies
    <3>5. Stored(d)'
      BY <3>2, <3>3, <3>4 DEF Stored
    <3>6. QED
      BY <3>1, <3>2, <3>3, <3>5
  <2>3. QED
    BY <2>1, <2>2 DEF Moves
<1>3. QED
  BY <1>1, <1>2 DEF Content

\* A response that is saved with a hash has its whole content stored.
THEOREM ContentAlways == Spec => []ContentComplete
<1>1. Init => Content
  BY DEF Init, DBInit, Content, Known
<1>2. Inv1 /\ Bodies /\ Content /\ [Next]_vars => Content'
  <2> SUFFICES ASSUME Inv1, Bodies, Content, [Next]_vars
               PROVE  Content'
    OBVIOUS
  <2>1. /\ stage \in [Requests -> {"new", "opened", "sent", "redirected", "completed", "failed"}]
        /\ leg \in [Requests -> Legs] /\ delivered \in [Requests -> 0..MaxChunks]
        /\ listener \in [Requests -> Listeners \union {NoListener}]
    BY DEF Inv1, BrowserTyped
  <2>2. CASE Run \/ CloseTab \/ VisitStarts \/ UNCHANGED vars
    BY <2>2, QuietContent DEF Run, CloseTab, VisitStarts, VisitIdArrives, vars, browserVars,
       handlerVars, dbVars, Settled
  <2>3. ASSUME NEW r \in Requests, Stream(r)
        PROVE  Content'
    <3>1. /\ UNCHANGED <<stage, leg>>
          /\ \A q \in Requests : q # r => UNCHANGED <<listener[q], delivered[q]>>
      BY <2>1, <2>3 DEF Stream, OnData, OnStop, FilterFails, DigestReady, browserVars
    <3>2. listener[r].filter = "stopped" =>
            listener[r]'.filter = "stopped" /\ delivered[r]' = delivered[r]
      <4>1. CASE OnData(r) \/ FilterFails(r) \/ OnStop(r)
        BY <4>1 DEF OnData, OnStop, FilterFails, Streaming
      <4>2. ASSUME NEW c \in Chunks, DigestReady(r, c)
            PROVE  listener[r]'.filter = listener[r].filter /\ delivered' = delivered
        BY <2>1, <4>2 DEF DigestReady, browserVars, Listeners, NoListener
      <4>3. QED
        BY <2>3, <4>1, <4>2 DEF Stream
    <3>3. \A q \in Requests : Settled(q)
      BY <3>1, <3>2 DEF Settled
    <3>4. QED
      BY <2>3, <3>3, QuietContent DEF Stream, OnData, OnStop, FilterFails, DigestReady,
         handlerVars, dbVars
  <2>4. ASSUME NEW t \in tasks, Resume(t)
        PROVE  Content'
    <3>1. UNCHANGED <<listener, delivered, stage, leg>>
      BY <2>4 DEF Resume, GotTab, TabGone, RequestBodyReady, RequestBodyTimeout, ResponseBodyReady,
         browserVars
    <3>2. \A q \in Requests : Settled(q)
      BY <3>1 DEF Settled
    <3>3. CASE Loses(t)
      BY <3>2, <3>3, QuietContent DEF Loses
    <3>4. CASE Moves(t) /\ contents \subseteq contents'
      <4>1. t \in Known
        BY DEF Known
      <4>2. t.req \in Requests
            /\ (t.kind = "response" => stage[t.req] = "completed" /\ t.leg = leg[t.req])
        BY <4>1 DEF Content
      <4>3. QED
        BY <3>1, <3>2, <3>4, <4>2, MovesContent
    <3>5. QED
      BY <2>4, <3>3, <3>4, ResumeMoves
  <2>5. ASSUME NEW r \in Requests, Events(r)
        PROVE  Content'
    <3>1. \A q \in Requests : Settled(q)
      BY <2>1, <2>5 DEF Events, OnBeforeRequest, OnBeforeSendHeaders, OnBeforeRedirect, OnCompleted,
         Fail, Settled
    <3>2. CASE OnBeforeRequest(r) \/ Fail(r)
      BY <3>1, <3>2, QuietContent DEF OnBeforeRequest, Fail, handlerVars, dbVars
    <3>3. ASSUME NEW kind \in Kinds, Handle(r, kind), UNCHANGED <<listener, delivered>>,
                 kind = "response" => stage[r]' = "completed" /\ leg' = leg
          PROVE  Content'
      <4>1. CASE Quiet
        BY <3>1, <4>1, QuietContent DEF Quiet
      <4>2. CASE Counts(r, kind)
        <5>1. PICK t : t.kind = kind /\ t.req = r /\ t.leg = leg[r] /\ Moves(t) /\ contents' = contents
          BY <4>2 DEF Counts
        <5>2. QED
          BY <3>1, <3>3, <5>1, MovesContent
      <4>3. QED
        BY <3>3, <4>1, <4>2, HandleMoves
    <3>4. CASE OnBeforeSendHeaders(r) \/ OnBeforeRedirect(r)
      BY <3>3, <3>4 DEF OnBeforeSendHeaders, OnBeforeRedirect, Kinds
    <3>5. CASE OnCompleted(r)
      BY <2>1, <3>3, <3>5 DEF OnCompleted, Kinds
    <3>6. QED
      BY <2>5, <3>2, <3>4, <3>5 DEF Events
  <2>6. QED
    BY <2>2, <2>3, <2>4, <2>5 DEF Next
<1>3. Content => ContentComplete
  BY DEF Content, ContentComplete, Hashed, Stored
<1>4. QED
  BY <1>1, <1>2, <1>3, Typing, BodiesAlways, PTL DEF Spec
=============================================================================
