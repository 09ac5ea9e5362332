---------------------------- MODULE JsInstruments ----------------------------
(***************************************************************************)
(* The JavaScript instrument: the accessors that js-instruments.ts puts in *)
(* the place of a property, the log calls that they make in the page, the  *)
(* queue that a debounced timer sends to the content script, and the       *)
(* background page that records what the content script passes on.         *)
(*                                                                         *)
(* The page is one thread.  It may use a property, through the object or   *)
(* an heir of it, at any time when it runs, and it also runs inside of a   *)
(* log call: serialising an object calls its toJSON and its getters.       *)
(* `frames` is the stack of the log calls that are being serialised.       *)
(***************************************************************************)
EXTENDS LoggingDB

CONSTANTS
  Properties,   \* instrumented properties, by the symbol they are logged with
  MaxLogCount,  \* maxLogCount, per script and symbol; there is one script
  MaxOps,       \* bound: uses of a property by the page
  MaxDepth      \* bound: log calls inside of each other

ASSUME JsAssumption == MaxLogCount \in Nat \ {0} /\ MaxOps \in Nat /\ MaxDepth \in Nat

\* Values by their type.  Serialising an object runs code of the page.  A
\* function that the page assigns may be a wrapper that it read before.
Static  == {"one", "two"}
Values  == Static \union {"object", "function"}
NoValue == "undefined"
Wrapper == "wrapper"  \* an instrumentedFunctionWrapper, new at every get

\* What the page had in the place of the property: a data property, writable or
\* not, an accessor property, one without a setter, or nothing.
Kinds == {"data", "constant", "accessor", "readonly", "missing"}

Paths == {"object", "heir"}

VARIABLES
  kind,         \* propDesc of each property
  preventSets,  \* logSettings.preventSets
  frozen,       \* the heir is not extensible
  alive,        \* the page has not been unloaded
  ops,          \* uses of the properties so far
  original,     \* originalValue, undefinedPropValue or what the accessors keep
  own,          \* the heir's own property, which hides the instrumented one
  inLog,
  logCounter,
  frames,       \* symbols of the log calls that are being serialised
  pageOrdinal,  \* `ordinal` of js-instruments.ts
  messages,     \* the queue of sendFactory
  timer,        \* debounce: "off", "armed", or "again" if it was called since
  emitted,      \* messages on their way to the background page
  \* history
  reference,    \* what the object would hold if nothing were instrumented
  refOwn,       \* what the heir would hold of its own
  excused,      \* properties and paths on which a difference is known
  setInLog,     \* a data property was set inside of a log call
  thrown        \* defineProperty threw on the frozen heir

pageVars == <<kind, preventSets, frozen, alive, ops, original, own>>
logVars  == <<inLog, logCounter, frames, pageOrdinal, messages, timer>>
history  == <<reference, refOwn, excused, setInLog, thrown>>
vars     == <<pageVars, logVars, emitted, history, ordinal, dbVars>>

Init ==
  /\ DBInit
  /\ kind \in [Properties -> Kinds] /\ preventSets \in BOOLEAN /\ frozen \in BOOLEAN
  /\ alive = TRUE /\ ops = 0
  /\ \E v \in Values :
       original = [p \in Properties |-> IF kind[p] = "missing" THEN NoValue ELSE v]
  /\ own = [p \in Properties |-> NoValue]
  /\ inLog = FALSE /\ logCounter = [p \in Properties |-> 0] /\ frames = <<>>
  /\ pageOrdinal = 0 /\ messages = <<>> /\ timer = "off" /\ emitted = <<>>
  /\ reference = original /\ refOwn = own /\ excused = {}
  /\ setInLog = FALSE /\ thrown = FALSE

-----------------------------------------------------------------------------
(* Logging *)

\* sendFactory: queue the message; debounce starts its timer or notes the call.
Send(p) ==
  /\ messages' = Append(messages, [symbol |-> p, ordinal |-> pageOrdinal])
  /\ pageOrdinal' = pageOrdinal + 1
  /\ timer' = IF timer = "off" THEN "armed" ELSE "again"

\* updateCounterAndCheckIfOver.
IsOver(p) == logCounter[p] >= MaxLogCount

\* Mutant: a call over the limit leaves inLog set.
StaysInLog(p) == inLog' = TRUE /\ UNCHANGED <<logCounter, frames, pageOrdinal, messages, timer>>

\* The symbol is over its limit.
OverLimit(p) == inLog' = FALSE /\ UNCHANGED <<logCounter, frames, pageOrdinal, messages, timer>>

\* logValue and logCall of a value, when inLog is `logging`: ignored inside of
\* another one; ignored over the limit; sent at once; or sent when the value
\* is serialised.
Log(p, v, logging) ==
  \/ /\ logging
     /\ inLog' = TRUE
     /\ UNCHANGED <<logCounter, frames, pageOrdinal, messages, timer>>
  \/ /\ ~logging /\ IsOver(p)
     /\ OverLimit(p)
  \/ /\ ~logging /\ ~IsOver(p)
     /\ logCounter' = [logCounter EXCEPT ![p] = @ + 1]
     /\ \/ /\ v # "object" \/ Len(frames) = MaxDepth
           /\ Send(p)
           /\ inLog' = FALSE /\ UNCHANGED frames
        \/ /\ v = "object" /\ Len(frames) < MaxDepth
           /\ frames' = Append(frames, p)
           /\ inLog' = TRUE /\ UNCHANGED <<pageOrdinal, messages, timer>>

\* The innermost value is serialised.
Serialized ==
  /\ frames # <<>> /\ alive
  /\ Send(frames[Len(frames)])
  /\ frames' = SubSeq(frames, 1, Len(frames) - 1)
  /\ inLog' = FALSE
  /\ UNCHANGED <<pageVars, logCounter, emitted, history, ordinal, dbVars>>

-----------------------------------------------------------------------------
(* The page uses a property *)

\* The page runs, and has not used its bound.
Use ==
  /\ alive /\ ops < MaxOps
  /\ ops' = ops + 1
  /\ UNCHANGED <<kind, preventSets, frozen, alive, emitted, ordinal, dbVars>>

\* The path leads to the accessors of the instrument.
Instrumented(p, path) == path = "object" \/ own[p] = NoValue

\* What the getter makes of a value: a function is put in a wrapper that logs its
\* calls.
Returned(v) == IF v = "function" THEN Wrapper ELSE v

\* What the page reads.
Read(p, path) == IF Instrumented(p, path) THEN Returned(original[p]) ELSE own[p]

\* What it would return.
ReferenceRead(p, path) ==
  IF path = "object" \/ refOwn[p] = NoValue THEN reference[p] ELSE refOwn[p]

\* get: logged, unless the value is a function.
Get(p, path) ==
  /\ Use
  /\ Instrumented(p, path)
  /\ IF original[p] = "function" THEN UNCHANGED logVars ELSE Log(p, original[p], inLog)
  /\ UNCHANGED <<original, own, history>>

\* A call of the wrapper with an argument.
Call(p, path, argument) ==
  /\ Use
  /\ Instrumented(p, path) /\ original[p] = "function"
  /\ Log(p, argument, inLog)
  /\ UNCHANGED <<original, own, history>>

\* What the assignment would do if nothing were instrumented.
ReferenceSet(p, path, v) ==
  LET inherits == path = "heir" /\ kind[p] \in {"data", "missing"}
  IN /\ reference' = IF kind[p] \in {"readonly", "constant"} \/ inherits THEN reference
                     ELSE [reference EXCEPT ![p] = v]
     /\ refOwn' = IF inherits /\ ~frozen THEN [refOwn EXCEPT ![p] = v] ELSE refOwn

Excuse(p, paths) == excused' = excused \union ({p} \X paths)

IsData(p) == kind[p] \in {"data", "constant"}

\* preventSets: a function or an object in a data property is not overwritten.
Prevented(p) == preventSets /\ IsData(p) /\ original[p] \in {"object", "function"}

SetPrevented(p, path, v) ==
  /\ Use /\ Instrumented(p, path) /\ Prevented(p)
  /\ Log(p, v, inLog)
  /\ ReferenceSet(p, path, v)
  /\ IF kind[p] = "data" THEN Excuse(p, Paths) ELSE UNCHANGED excused
  /\ UNCHANGED <<original, own, setInLog, thrown>>

\* The original setter, or the one of a property that did not exist, which
\* keeps one value for the object and its heirs.
SetByAccessor(p, path, v) ==
  /\ Use /\ Instrumented(p, path) /\ kind[p] \in {"accessor", "missing"}
  /\ original' = [original EXCEPT ![p] = v]
  /\ Log(p, v, inLog)
  /\ ReferenceSet(p, path, v)
  /\ IF kind[p] = "missing" /\ path = "heir" THEN Excuse(p, Paths) ELSE UNCHANGED excused
  /\ UNCHANGED <<own, setInLog, thrown>>

\* There is no setter: "set(failed)".
SetFails(p, path, v) ==
  /\ Use /\ Instrumented(p, path) /\ kind[p] = "readonly"
  /\ Log(p, v, inLog)
  /\ ReferenceSet(p, path, v)
  /\ UNCHANGED <<original, own, excused, setInLog, thrown>>

\* Mutant: the value of the object is changed for its heirs, too.
SharedValue(p, path, v) ==
  /\ original' = [original EXCEPT ![p] = v]
  /\ UNCHANGED own

\* A data property: an heir gets a property of its own, which is not writable.
NewValue(p, path, v) ==
  IF path = "heir" THEN own' = [own EXCEPT ![p] = v] /\ UNCHANGED original
                   ELSE original' = [original EXCEPT ![p] = v] /\ UNCHANGED own

\* The paths on which an assignment through this one shows.
Reached(path) == IF path = "object" THEN Paths ELSE {path}

\* It is changed between inLog = true and inLog = false, and then logged.
\* propDesc.writable is not asked for.
SetData(p, path, v) ==
  /\ Use /\ Instrumented(p, path) /\ IsData(p) /\ ~Prevented(p)
  /\ ~(path = "heir" /\ frozen)
  /\ NewValue(p, path, v)
  /\ Log(p, v, FALSE)
  /\ ReferenceSet(p, path, v)
  /\ setInLog' = (setInLog \/ frames # <<>>)
  /\ IF kind[p] = "constant" THEN Excuse(p, Reached(path)) ELSE UNCHANGED excused
  /\ UNCHANGED thrown

\* defineProperty throws, and inLog is not reset.
SetThrows(p, v) ==
  /\ Use /\ Instrumented(p, "heir") /\ IsData(p) /\ ~Prevented(p) /\ frozen
  /\ inLog' = TRUE
  /\ thrown' = TRUE
  /\ ReferenceSet(p, "heir", v)
  /\ UNCHANGED <<original, own, logCounter, frames, pageOrdinal, messages, timer, excused, setInLog>>

\* The heir's own property is used; an assignment has no effect on it.
SetOwn(p, v) ==
  /\ Use /\ ~Instrumented(p, "heir")
  /\ ReferenceSet(p, "heir", v) /\ Excuse(p, {"heir"})
  /\ UNCHANGED <<original, own, logVars, setInLog, thrown>>

Set(p, path, v) ==
  \/ SetPrevented(p, path, v) \/ SetByAccessor(p, path, v) \/ SetFails(p, path, v)
  \/ SetData(p, path, v)

Page ==
  \E p \in Properties :
    \/ \E path \in Paths :
         \/ Get(p, path)
         \/ \E v \in Values : Set(p, path, v) \/ Call(p, path, v)
    \/ \E v \in Values : SetThrows(p, v) \/ SetOwn(p, v)

-----------------------------------------------------------------------------
(* Delivery *)

\* Mutant: the queue is not cleared.
FlushKeepsQueue ==
  /\ timer = "armed" /\ alive /\ frames = <<>>
  /\ timer' = "off"
  /\ emitted' = emitted \o messages
  /\ UNCHANGED <<pageVars, inLog, logCounter, frames, pageOrdinal, messages, history, ordinal,
                 dbVars>>

\* later: nothing was queued since the timer was set.  The event reaches the
\* content script, which sends each message to the background page.
Flush ==
  /\ timer = "armed" /\ alive /\ frames = <<>>
  /\ timer' = "off"
  /\ emitted' = emitted \o messages /\ messages' = <<>>
  /\ UNCHANGED <<pageVars, inLog, logCounter, frames, pageOrdinal, history, ordinal, dbVars>>

\* Mutant: the timer is not set again.
LetsTimerGo ==
  /\ timer = "again" /\ alive /\ frames = <<>>
  /\ timer' = "gone"
  /\ UNCHANGED <<pageVars, inLog, logCounter, frames, pageOrdinal, messages, emitted, history,
                 ordinal, dbVars>>

\* later: something was, so wait for the rest of the time.
Rearm ==
  /\ timer = "again" /\ alive /\ frames = <<>>
  /\ timer' = "armed"
  /\ UNCHANGED <<pageVars, inLog, logCounter, frames, pageOrdinal, messages, emitted, history,
                 ordinal, dbVars>>

\* handleJsInstrumentationMessage of the configured instrument.
HandleMessage ==
  /\ emitted # <<>>
  /\ SaveRecord([symbol |-> Head(emitted).symbol, page |-> Head(emitted).ordinal,
                 ordinal |-> ordinal])
  /\ ordinal' = ordinal + 1
  /\ emitted' = Tail(emitted)
  /\ UNCHANGED <<pageVars, logVars, history>>

\* The tab goes to another page; what is queued is lost.
Unload ==
  /\ alive /\ frames = <<>>
  /\ alive' = FALSE
  /\ UNCHANGED <<kind, preventSets, frozen, ops, original, own, logVars, emitted, history,
                 ordinal, dbVars>>

VisitStarts ==
  /\ VisitIdArrives
  /\ UNCHANGED <<pageVars, logVars, emitted, history, ordinal>>

Next ==
  \/ Page \/ Serialized \/ Flush \/ Rearm \/ HandleMessage \/ Unload \/ VisitStarts

Spec == Init /\ [][Next]_vars

\* Page code returns, timers fire, messages arrive.
FairSpec ==
  Spec /\ WF_vars(Serialized) /\ WF_vars(Flush) /\ WF_vars(Rearm) /\ WF_vars(HandleMessage)

-----------------------------------------------------------------------------
PropertyValues == [Properties -> Values \union {NoValue}]
Messages       == [symbol : Properties, ordinal : Nat]

TypeOK ==
  /\ kind \in [Properties -> Kinds] /\ preventSets \in BOOLEAN /\ frozen \in BOOLEAN
  /\ alive \in BOOLEAN /\ ops \in 0..MaxOps
  /\ original \in PropertyValues /\ own \in PropertyValues
  /\ inLog \in BOOLEAN /\ logCounter \in [Properties -> 0..MaxLogCount]
  /\ frames \in Seq(Properties) /\ Len(frames) <= MaxDepth
  /\ pageOrdinal \in Nat /\ ordinal \in Nat
  /\ messages \in Seq(Messages) /\ emitted \in Seq(Messages)
  /\ timer \in {"off", "armed", "again"}
  /\ reference \in PropertyValues /\ refOwn \in PropertyValues
  /\ excused \subseteq Properties \X Paths
  /\ setInLog \in BOOLEAN /\ thrown \in BOOLEAN

(***************************************************************************)
(* The records of a page come in the order in which the page used its      *)
(* properties, as page_scoped_event_ordinal tells it, with no gap, however *)
(* log calls were nested and however the queue was cut into batches.       *)
(***************************************************************************)
InOrder ==
  /\ \A s \in saved : s.data.page = s.data.ordinal
  /\ {s.data.page : s \in saved} = 0..(ordinal - 1)
  /\ \A i \in 1..Len(emitted) : emitted[i].ordinal = ordinal + i - 1
  /\ alive => pageOrdinal = ordinal + Len(emitted) + Len(messages)

(***************************************************************************)
(* inLog ("prevent logging of gets arising from logging", line 196) is set *)
(* while a log call is serialised and never after it, or nothing would be  *)
(* logged any more; known exceptions are an assignment to a data property  *)
(* inside of a log call, which resets it, and one that throws.             *)
(***************************************************************************)
InLogTellsLogging ==
  /\ inLog /\ frames = <<>> => thrown
  /\ frames # <<>> /\ ~inLog => setInLog

(***************************************************************************)
(* A page reads what it would read if nothing were instrumented, except    *)
(* that a function read through the accessors comes in a wrapper, a new    *)
(* one at every get: it is called as the function is, but is not equal to  *)
(* it, nor to the wrapper of another get, and lacks properties put on it.  *)
(* Further exceptions: an assignment to a property that is not writable    *)
(* takes effect; one that preventSets turned away does not; nor does a     *)
(* second one to an heir; and one through an heir to a property that did   *)
(* not exist is seen in the object and in all heirs.                       *)
(***************************************************************************)
Transparent ==
  \A p \in Properties, path \in Paths :
    <<p, path>> \notin excused =>
      Read(p, path) = IF Instrumented(p, path) THEN Returned(ReferenceRead(p, path))
                                               ELSE ReferenceRead(p, path)

(***************************************************************************)
(* What was logged is recorded, unless the page is unloaded before the     *)
(* timer has sent it.                                                      *)
(***************************************************************************)
Delivered == []<>(emitted = <<>> /\ (messages = <<>> \/ ~alive))
=============================================================================
