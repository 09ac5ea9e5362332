---------------------------- MODULE HttpInstrument ----------------------------
(***************************************************************************)
(* The HTTP instrument of the extension (http-instrument.ts) with its      *)
(* pending requests and responses and the listener for response bodies.    *)
(*                                                                         *)
(* The browser reports the life of a request in four events that carry its *)
(* id; a redirect starts another leg under the same id.  Each handler of   *)
(* an event takes an ordinal at once and then waits: for the tab, for the  *)
(* body of a POST, for the body of the response.  A waiting handler is a   *)
(* member of `tasks`; everything that happens between two of its steps is  *)
(* another action.                                                         *)
(***************************************************************************)
EXTENDS LoggingDB, FiniteSets

CONSTANTS
  Requests,      \* request ids
  MaxLegs,       \* bound: legs of a request, redirects plus one
  MaxChunks      \* bound: chunks of a response body

ASSUME HttpAssumption ==
  /\ MaxLegs \in Nat \ {0} /\ MaxChunks \in Nat

VARIABLES
  \* the browser
  traits,    \* what a request is, see Traits
  running,   \* run() has added the listeners
  tabOpen,   \* the tab of the requests that have one exists
  stage,     \* what a request's last event was
  leg,       \* its current leg
  post,      \* its current leg is a POST
  delivered, \* chunks of the response body that reached the filter
  whole,     \* history: requests that the instrument has seen from their start
  \* the instrument
  pendingRequest,  \* what resolved pendingRequests[id].onBeforeRequestEventDetails
  listener,        \* pendingResponses[id].responseBodyListener
  tasks,           \* handlers that wait
  contents,        \* what saveContent has sent
  logged,          \* ordinals whose handlers logged an error
  lost             \* ordinals whose handlers died of a rejected promise

browserVars == <<traits, running, tabOpen, stage, leg, post, delivered, whole>>
handlerVars == <<tasks, ordinal, contents, logged, lost>>
vars == <<browserVars, pendingRequest, listener, handlerVars, dbVars>>

\* A request belongs to a tab (tabId > -1) or not; its type is one whose
\* content is saved or not; an extension made it or not.
Traits == [tab : BOOLEAN, content : BOOLEAN, extension : BOOLEAN]

InTab(r)         == traits[r].tab
ContentSaved(r)  == traits[r].content
FromExtension(r) == traits[r].extension

NoLeg    == 0
Legs     == 1..MaxLegs
Chunks   == 1..MaxChunks
NoHash   == 0       \* a response whose content is not saved
Pending  == 0       \* a hash that has not been computed
ErrorHash == -1     \* "<error>"

\* A ResponseBodyListener: the leg it was made in, the state of its filter,
\* responseBody, the chunks whose digest is being computed, and the value of
\* the promise contentHash.  A digest is named by the chunk it is made of.
Listeners == [leg : Legs, filter : {"open", "stopped", "error"},
              body : Seq(Chunks), digesting : SUBSET Chunks, hash : Chunks \union {Pending}]

\* pendingResponse without a responseBodyListener.
NoListener == [leg |-> NoLeg, filter |-> "error", body |-> <<>>, digesting |-> {}, hash |-> Pending]

\* The details of onBeforeRequest that matter: whether they hold a body.
Details    == [leg : Legs, post : BOOLEAN]
Unresolved == [leg |-> NoLeg, post |-> FALSE]

Kinds == {"request", "redirect", "response"}

Tasks == [kind : Kinds, req : Requests, leg : Legs, post : BOOLEAN, ordinal : Nat,
          pc : {"tab", "body"}]

Init ==
  /\ DBInit
  /\ traits \in [Requests -> Traits]
  /\ running = FALSE /\ tabOpen = TRUE
  /\ stage = [r \in Requests |-> "new"]
  /\ leg = [r \in Requests |-> 1]
  /\ post \in [Requests -> BOOLEAN]
  /\ delivered = [r \in Requests |-> 0]
  /\ whole = {}
  /\ pendingRequest = [r \in Requests |-> Unresolved]
  /\ listener = [r \in Requests |-> NoListener]
  /\ tasks = {}
  /\ contents = {} /\ logged = {} /\ lost = {}

-----------------------------------------------------------------------------
(* The four listeners *)

\* run(): all listeners are added in one go.
Run ==
  /\ ~running
  /\ running' = TRUE
  /\ UNCHANGED <<traits, tabOpen, stage, leg, post, delivered, whole, pendingRequest, listener,
                 handlerVars, dbVars>>

\* An event of r reaches its listener and is not ignored by it.
Seen(r) == running /\ ~FromExtension(r)

\* Mutant: every leg starts with new pending objects.
Replaced(old, details) == details

\* A promise keeps the first value it is resolved with.
Resolved(old, details) == IF old = Unresolved THEN details ELSE old

\* onBeforeRequest: resolve the promises of both pending objects, and listen
\* to the body of this leg.
OnBeforeRequest(r) ==
  /\ stage[r] \in {"new", "redirected"}
  /\ stage' = [stage EXCEPT ![r] = "opened"]
  /\ pendingRequest' =
       IF Seen(r)
       THEN [pendingRequest EXCEPT ![r] = Resolved(@, [leg |-> leg[r], post |-> post[r]])]
       ELSE pendingRequest
  /\ listener' =
       IF Seen(r) /\ ContentSaved(r)
       THEN [listener EXCEPT ![r] = [leg |-> leg[r], filter |-> "open", body |-> <<>>,
                                     digesting |-> {}, hash |-> Pending]]
       ELSE listener
  /\ whole' = IF Seen(r) /\ stage[r] = "new" THEN whole \union {r} ELSE whole
  /\ UNCHANGED <<traits, running, tabOpen, leg, post, delivered, handlerVars, dbVars>>

\* Mutant: the ordinal is taken when the record is made.
RecordCountedLate(t, body, hash) ==
  [kind |-> t.kind, req |-> t.req, leg |-> t.leg, post |-> t.post,
   ordinal |-> Cardinality(saved), body |-> body, hash |-> hash]

\* The record a handler makes.  `body` is the leg whose request body it holds.
Record(t, body, hash) ==
  [kind |-> t.kind, req |-> t.req, leg |-> t.leg, post |-> t.post,
   ordinal |-> t.ordinal, body |-> body, hash |-> hash]

Save(t, body, hash) == SaveRecord(Record(t, body, hash))

\* What a handler waits for once it has the tab.
NeedsRequestBody(t)  == t.kind = "request" /\ t.post
NeedsResponseBody(t) == t.kind = "response" /\ ContentSaved(t.req)

\* The rest of a handler after `await browser.tabs.get`: wait for a body, or
\* save the record.  Without a body listener logWithResponseBody throws, logs
\* and saves in the same step.
Proceed(t) ==
  \/ /\ NeedsRequestBody(t) \/ (NeedsResponseBody(t) /\ listener[t.req] # NoListener)
     /\ tasks' = (tasks \ {t}) \union {[t EXCEPT !.pc = "body"]}
     /\ NothingSaved /\ UNCHANGED logged
  \/ /\ NeedsResponseBody(t) /\ listener[t.req] = NoListener
     /\ tasks' = tasks \ {t}
     /\ Save(t, NoLeg, ErrorHash)
     /\ logged' = logged \union {t.ordinal}
  \/ /\ ~NeedsRequestBody(t) /\ ~NeedsResponseBody(t)
     /\ tasks' = tasks \ {t}
     /\ Save(t, NoLeg, NoHash)
     /\ UNCHANGED logged

\* The handler of an event: it counts the event, and waits if there is a tab.
Handle(r, kind) ==
  LET t == [kind |-> kind, req |-> r, leg |-> leg[r], post |-> post[r],
            ordinal |-> ordinal, pc |-> "tab"]
  IN /\ \/ /\ ~Seen(r)
           /\ UNCHANGED <<tasks, ordinal, logged>> /\ NothingSaved
        \/ /\ Seen(r) /\ InTab(r)
           /\ tasks' = tasks \union {t} /\ ordinal' = ordinal + 1
           /\ UNCHANGED logged /\ NothingSaved
        \/ /\ Seen(r) /\ ~InTab(r)
           /\ Proceed(t) /\ ordinal' = ordinal + 1
     /\ UNCHANGED <<contents, lost>>

OnBeforeSendHeaders(r) ==
  /\ stage[r] = "opened"
  /\ stage' = [stage EXCEPT ![r] = "sent"]
  /\ Handle(r, "request")
  /\ UNCHANGED <<traits, running, tabOpen, leg, post, delivered, whole, pendingRequest, listener>>

\* The server redirects, or the browser before it sends (an upgrade to https):
\* the next leg keeps the method (307) or is a GET.  A response that redirects
\* is not streamed.
OnBeforeRedirect(r) ==
  /\ stage[r] \in {"opened", "sent"} /\ leg[r] < MaxLegs
  /\ delivered[r] = 0 /\ listener[r].filter # "stopped"
  /\ stage' = [stage EXCEPT ![r] = "redirected"]
  /\ leg' = [leg EXCEPT ![r] = @ + 1]
  /\ \E keeps \in BOOLEAN : post' = [post EXCEPT ![r] = @ /\ keeps]
  /\ Handle(r, "redirect")
  /\ UNCHANGED <<traits, running, tabOpen, delivered, whole, pendingRequest, listener>>

OnCompleted(r) ==
  /\ stage[r] = "sent"
  /\ stage' = [stage EXCEPT ![r] = "completed"]
  /\ Handle(r, "response")
  /\ UNCHANGED <<traits, running, tabOpen, leg, post, delivered, whole, pendingRequest, listener>>

\* A request that fails at any point: onErrorOccurred has no listener.
Fail(r) ==
  /\ stage[r] \in {"opened", "sent", "redirected"}
  /\ stage' = [stage EXCEPT ![r] = "failed"]
  /\ UNCHANGED <<traits, running, tabOpen, leg, post, delivered, whole, pendingRequest, listener,
                 handlerVars, dbVars>>

\* The next command of the crawl closes the tab.
CloseTab ==
  /\ tabOpen
  /\ tabOpen' = FALSE
  /\ UNCHANGED <<traits, running, stage, leg, post, delivered, whole, pendingRequest, listener,
                 handlerVars, dbVars>>

-----------------------------------------------------------------------------
(* The filter of a response body *)

\* The filter of r's current leg may still report.
Streaming(r) ==
  /\ listener[r].filter = "open" /\ listener[r].leg = leg[r]
  /\ stage[r] \in {"sent", "completed"}

\* Mutant: the body is the chunk that came last.
LastChunk(body, chunk) == <<chunk>>

Concatenated(body, chunk) == Append(body, chunk)

\* ondata: start the digest of this chunk, append it to the body.
OnData(r) ==
  /\ Streaming(r) /\ delivered[r] < MaxChunks
  /\ LET chunk == delivered[r] + 1
     IN /\ delivered' = [delivered EXCEPT ![r] = chunk]
        /\ listener' = [listener EXCEPT ![r].body = Concatenated(@, chunk),
                                        ![r].digesting = @ \union {chunk}]
  /\ UNCHANGED <<traits, running, tabOpen, stage, leg, post, whole, pendingRequest, handlerVars, dbVars>>

\* onstop: the body is what has been collected.
OnStop(r) ==
  /\ Streaming(r)
  /\ listener' = [listener EXCEPT ![r].filter = "stopped"]
  /\ UNCHANGED <<browserVars, pendingRequest, handlerVars, dbVars>>

\* The filter fails (an image from the cache, a request that is aborted):
\* onerror is not handled.
FilterFails(r) ==
  /\ listener[r].filter = "open"
  /\ listener' = [listener EXCEPT ![r].filter = "error"]
  /\ UNCHANGED <<browserVars, pendingRequest, handlerVars, dbVars>>

\* A digest is ready; the first one resolves contentHash.
DigestReady(r, chunk) ==
  /\ chunk \in listener[r].digesting
  /\ listener' = [listener EXCEPT ![r].digesting = @ \ {chunk},
                                  ![r].hash = IF @ = Pending THEN chunk ELSE @]
  /\ UNCHANGED <<browserVars, pendingRequest, handlerVars, dbVars>>

-----------------------------------------------------------------------------
(* The handlers after their waits *)

\* tabs.get answers.
GotTab(t) ==
  /\ t.pc = "tab" /\ tabOpen
  /\ Proceed(t)
  /\ UNCHANGED <<browserVars, pendingRequest, listener, ordinal, contents, lost>>

\* tabs.get is rejected: nobody catches it, and the record is gone.
TabGone(t) ==
  /\ t.pc = "tab" /\ ~tabOpen
  /\ tasks' = tasks \ {t}
  /\ lost' = lost \union {t.ordinal}
  /\ UNCHANGED <<browserVars, pendingRequest, listener, ordinal, contents, logged, dbVars>>

\* resolvedWithinTimeout: the details of onBeforeRequest are there.
RequestBodyReady(t) ==
  /\ t.kind = "request" /\ t.pc = "body" /\ pendingRequest[t.req] # Unresolved
  /\ tasks' = tasks \ {t}
  /\ Save(t, IF pendingRequest[t.req].post THEN pendingRequest[t.req].leg ELSE NoLeg, NoHash)
  /\ UNCHANGED <<browserVars, pendingRequest, listener, ordinal, contents, logged, lost>>

\* Mutant: a request without its body is not recorded.
RequestBodyTimeoutUnsaved(t) ==
  /\ t.kind = "request" /\ t.pc = "body" /\ pendingRequest[t.req] = Unresolved
  /\ tasks' = tasks \ {t}
  /\ logged' = logged \union {t.ordinal}
  /\ NothingSaved
  /\ UNCHANGED <<browserVars, pendingRequest, listener, ordinal, contents, lost>>

\* Mutant: the handler waits for the details however long it takes.
RequestBodyNoTimeout(t) == FALSE /\ t.pc = "body"

\* A second has passed without them: log, and save without the body.
RequestBodyTimeout(t) ==
  /\ t.kind = "request" /\ t.pc = "body" /\ pendingRequest[t.req] = Unresolved
  /\ tasks' = tasks \ {t}
  /\ Save(t, NoLeg, NoHash)
  /\ logged' = logged \union {t.ordinal}
  /\ UNCHANGED <<browserVars, pendingRequest, listener, ordinal, contents, lost>>

\* logWithResponseBody: both promises of the listener are resolved.
ResponseBodyReady(t) ==
  LET l == listener[t.req]
  IN /\ t.kind = "response" /\ t.pc = "body"
     /\ l.filter = "stopped" /\ l.hash # Pending
     /\ contents' = contents \union
          {[req |-> t.req, leg |-> t.leg, hash |-> l.hash, body |-> l.body]}
     /\ tasks' = tasks \ {t}
     /\ Save(t, NoLeg, l.hash)
     /\ UNCHANGED <<browserVars, pendingRequest, listener, ordinal, logged, lost>>

VisitStarts ==
  /\ VisitIdArrives
  /\ UNCHANGED <<browserVars, pendingRequest, listener, handlerVars>>

Events(r) ==
  \/ OnBeforeRequest(r) \/ OnBeforeSendHeaders(r) \/ OnBeforeRedirect(r)
  \/ OnCompleted(r) \/ Fail(r)

Stream(r) ==
  OnData(r) \/ OnStop(r) \/ FilterFails(r) \/ \E c \in Chunks : DigestReady(r, c)

Resume(t) ==
  \/ GotTab(t) \/ TabGone(t) \/ RequestBodyReady(t) \/ RequestBodyTimeout(t)
  \/ ResponseBodyReady(t)

Next ==
  \/ Run \/ CloseTab \/ VisitStarts
  \/ \E r \in Requests : Events(r) \/ Stream(r)
  \/ \E t \in tasks : Resume(t)

Spec == Init /\ [][Next]_vars

\* Timers and tabs.get come back, digests are computed, and a response that
\* is complete is streamed to its end.  No request has to be made or answered.
Fairness ==
  /\ WF_vars(\E t \in tasks : Resume(t))
  /\ \A r \in Requests :
       /\ WF_vars(stage[r] = "completed" /\ OnStop(r))
       /\ WF_vars(\E c \in Chunks : DigestReady(r, c))

FairSpec == Spec /\ Fairness

-----------------------------------------------------------------------------
TypeOK ==
  /\ DBTypeOK /\ ordinal \in Nat
  /\ traits \in [Requests -> Traits]
  /\ running \in BOOLEAN /\ tabOpen \in BOOLEAN
  /\ stage \in [Requests -> {"new", "opened", "sent", "redirected", "completed", "failed"}]
  /\ leg \in [Requests -> Legs]
  /\ post \in [Requests -> BOOLEAN]
  /\ delivered \in [Requests -> 0..MaxChunks]
  /\ whole \subseteq Requests
  /\ pendingRequest \in [Requests -> Details \union {Unresolved}]
  /\ listener \in [Requests -> Listeners \union {NoListener}]
  /\ tasks \subseteq Tasks
  /\ \A c \in contents : c.req \in Requests /\ c.leg \in Legs /\ c.hash \in Chunks
  /\ logged \subseteq Nat /\ lost \subseteq Nat

\* Where the event with ordinal o is accounted for.
Waiting(o)  == \E t \in tasks : t.ordinal = o
Recorded(o) == \E s \in saved : s.data.ordinal = o

(***************************************************************************)
(* Every event that was counted is in one place: its handler waits, or its *)
(* record was sent, once, or its handler died because the tab was closed.  *)
(***************************************************************************)
EventsAccounted ==
  /\ \A o \in 0..(ordinal - 1) :
       \/ Waiting(o) /\ ~Recorded(o) /\ o \notin lost
       \/ ~Waiting(o) /\ Recorded(o) /\ o \notin lost
       \/ ~Waiting(o) /\ ~Recorded(o) /\ o \in lost
  /\ \A s1, s2 \in saved : s1.data.ordinal = s2.data.ordinal => s1 = s2
  /\ lost # {} => ~tabOpen

(***************************************************************************)
(* The ordinals of a request's records tell the order of its events: the   *)
(* request, the redirect, the request of the next leg, ..., the response,  *)
(* although the handlers wait for different things and save in any order.  *)
(***************************************************************************)
Position(d) == 2 * d.leg + (IF d.kind = "request" THEN 0 ELSE 1)

OrdinalsTellOrder ==
  \A s1, s2 \in saved :
    s1.data.req = s2.data.req /\ Position(s1.data) < Position(s2.data)
      => s1.data.ordinal < s2.data.ordinal

(***************************************************************************)
(* A POST that the instrument saw from its start is recorded with the body *)
(* it was sent with, on every leg, although the record may be made after a *)
(* redirect has turned the request into a GET.                             *)
(***************************************************************************)
PostBodyKept ==
  \A s \in saved :
    LET d == s.data
    IN d.kind = "request" /\ d.post /\ d.req \in whole => d.body = 1

(***************************************************************************)
(* A response that is saved with a hash has its content stored under that  *)
(* hash, and the content is all that the final leg of the request          *)
(* delivered, whatever the order of data, digests, end and completion.     *)
(***************************************************************************)
ContentComplete ==
  \A s \in saved :
    LET d == s.data
    IN d.kind = "response" /\ d.hash \notin {NoHash, ErrorHash} =>
         [req |-> d.req, leg |-> leg[d.req], hash |-> d.hash,
          body |-> [i \in 1..delivered[d.req] |-> i]] \in contents

(***************************************************************************)
(* The handler of an event ends: its record is saved, or its tab was       *)
(* closed, or it is a response whose body stream failed or was empty, for  *)
(* which logWithResponseBody waits for ever.                               *)
(***************************************************************************)
BodyNeverComes(o) ==
  \E t \in tasks :
    /\ t.ordinal = o /\ t.kind = "response" /\ t.pc = "body"
    /\ \/ listener[t.req].filter = "error"
       \/ listener[t.req].filter = "stopped" /\ delivered[t.req] = 0

HandlersEnd ==
  []<>(\A o \in 0..(ordinal - 1) : Recorded(o) \/ o \in lost \/ BodyNeverComes(o))

(***************************************************************************)
(* "content_hash" is the hash of the content (README.md:132, and the       *)
(* assertion of test_http_instrumentation.py:644).  The listener hashes    *)
(* each chunk and keeps the digest that comes first.                       *)
(***************************************************************************)
HashOfContent ==
  \A c \in contents : c.body = <<c.hash>>
=============================================================================
