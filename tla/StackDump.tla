------------------------------ MODULE StackDump ------------------------------
(***************************************************************************)
(* The stack of a request on its way from the content process to the       *)
(* aggregator: OpenWPMStackDumpChild.jsm sends it with the id of its       *)
(* channel, OpenWPMStackDumpParent.jsm turns the id into a request id,     *)
(* api.js fires the event onStackAvailable and callstack-instrument.js     *)
(* saves the record.                                                       *)
(*                                                                         *)
(* The messages of the actors and those of the network layer reach the     *)
(* parent process by different ways and in any order.                      *)
(***************************************************************************)
EXTENDS LoggingDB

CONSTANTS
  Channels,  \* http channels
  Actors     \* child actors: one for each window of the page

VARIABLES
  stackListening, \* the callstack instrument listens to onStackAvailable
  channel,        \* what a channel's last notification in the parent was
  opened,         \* channels whose opening was observed in the child
  observing,      \* the parent's observer is registered
  gChannelMap,    \* channels that the parent can look up
  messages,       \* messages on their way to the parent, as <<channel, actor>>
  polling,        \* messages whose receiver waits for the channel
  firing,         \* events on their way to the extension
  unheard         \* events that were fired when nobody listened

stackVars == <<stackListening, channel, opened, observing, gChannelMap, messages, polling,
               firing, unheard>>

Stacks == Channels \X Actors

StackInit ==
  /\ stackListening = FALSE
  /\ channel = [c \in Channels |-> "new"]
  /\ opened = {} /\ observing = FALSE /\ gChannelMap = {}
  /\ messages = {} /\ polling = {} /\ firing = {} /\ unheard = {}

\* observe in the child: the actor of the request's window sends the stack,
\* and so do those of the windows above it (matchRequest).  A request that no
\* script makes has no stack and a request of the browser has no actor.
OpenInChild(c, actors) ==
  /\ c \notin opened /\ channel[c] # "answered"
  /\ opened' = opened \union {c}
  /\ messages' = messages \union ({c} \X actors)
  /\ UNCHANGED <<stackListening, channel, observing, gChannelMap, polling, firing, unheard,
                 ordinal, dbVars>>

\* observe in the parent: http-on-opening-request, document-on-opening-request.
OpenInParent(c) ==
  /\ channel[c] = "new"
  /\ channel' = [channel EXCEPT ![c] = "open"]
  /\ gChannelMap' = IF observing THEN gChannelMap \union {c} ELSE gChannelMap
  /\ UNCHANGED <<stackListening, opened, observing, messages, polling, firing, unheard,
                 ordinal, dbVars>>

\* observe in the parent: http-on-examine-response and its variants.
ExamineResponse(c) ==
  /\ channel[c] = "open"
  /\ channel' = [channel EXCEPT ![c] = "answered"]
  /\ gChannelMap' = gChannelMap \ {c}
  /\ UNCHANGED <<stackListening, opened, observing, messages, polling, firing, unheard,
                 ordinal, dbVars>>

\* notifyObservers: api.js fires the event for each listener of the extension.
Notify(m) ==
  IF stackListening THEN firing' = firing \union {m} /\ UNCHANGED unheard
                    ELSE unheard' = unheard \union {m} /\ UNCHANGED firing

\* receiveMessage; the first message makes the parent actor, whose constructor
\* registers the observer.
Receive(m) ==
  /\ m \in messages
  /\ messages' = messages \ {m}
  /\ observing' = TRUE
  /\ IF m[1] \in gChannelMap THEN Notify(m) /\ UNCHANGED polling
                             ELSE polling' = polling \union {m} /\ UNCHANGED <<firing, unheard>>
  /\ UNCHANGED <<stackListening, channel, opened, gChannelMap, ordinal, dbVars>>

\* Mutant: the receiver looks for the channel only once.
NoPoll(m) == FALSE /\ m \in polling

\* The timer of a waiting receiver finds the channel.
Poll(m) ==
  /\ m \in polling /\ m[1] \in gChannelMap
  /\ polling' = polling \ {m}
  /\ Notify(m)
  /\ UNCHANGED <<stackListening, channel, opened, observing, gChannelMap, messages, ordinal, dbVars>>

\* The event reaches the callstack instrument.
SaveStack(m) ==
  /\ m \in firing
  /\ firing' = firing \ {m}
  /\ SaveRecord([kind |-> "callstack", channel |-> m[1], actor |-> m[2]])
  /\ UNCHANGED <<stackListening, channel, opened, observing, gChannelMap, messages, polling,
                 unheard, ordinal>>

StackResume(m) == Receive(m) \/ Poll(m) \/ SaveStack(m)

StackNext ==
  \/ \E c \in Channels :
       \/ \E actors \in SUBSET Actors : OpenInChild(c, actors)
       \/ OpenInParent(c) \/ ExamineResponse(c)
  \/ \E m \in Stacks : StackResume(m)

StackTypeOK ==
  /\ stackListening \in BOOLEAN
  /\ channel \in [Channels -> {"new", "open", "answered"}]
  /\ opened \subseteq Channels
  /\ observing \in BOOLEAN
  /\ gChannelMap \subseteq {c \in Channels : channel[c] = "open"}
  /\ messages \subseteq Stacks /\ polling \subseteq Stacks
  /\ firing \subseteq Stacks /\ unheard \subseteq Stacks

\* The receiver of m polls for a channel that was answered, or opened before
\* the observer was registered: the map will never have it.
PollsForEver(m) == m \in polling /\ m[1] \notin gChannelMap /\ channel[m[1]] # "new"

\* The message m waits for something that happens without the page.
StackWaits(m) ==
  m \in messages \union firing \/ (m \in polling /\ m[1] \in gChannelMap)

\* A stack is saved once for each actor that sent it, and then nothing of it is
\* left on the way.
StacksSavedOnce ==
  \A s1, s2 \in {s \in saved : s.data.kind = "callstack"} :
    s1.data = s2.data =>
      /\ s1 = s2
      /\ <<s1.data.channel, s1.data.actor>> \notin messages \union polling \union firing
=============================================================================
