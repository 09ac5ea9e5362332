------------------------------ MODULE Extension ------------------------------
(***************************************************************************)
(* The extension's background page: main() in index.js starts the          *)
(* instruments one after the other while the port on which the visit ids   *)
(* arrive is opened; navigations, cookies and stacks are recorded with the *)
(* one visit id and the one counter of events that they share.             *)
(***************************************************************************)
EXTENDS NavigationInstrument, StackDump

CONSTANT MaxCookies  \* bound: changes of cookies

VARIABLES
  phase,     \* how far main() is
  portFile,  \* extension_port.txt has been written
  cookies    \* changes of cookies so far

vars == <<navVars, stackVars, ordinal, dbVars, phase, portFile, cookies>>

Init ==
  /\ DBInit /\ NavInit /\ StackInit
  /\ phase = "config" /\ portFile = FALSE /\ cookies = 0

\* browser_params.json has been read; loggingDB.open connects.
ReadConfig ==
  /\ phase = "config"
  /\ phase' = "opening"
  /\ UNCHANGED <<navVars, stackVars, ordinal, dbVars, portFile, cookies>>

\* Mutant: the first instruments are started with the others.
OpenedLate ==
  /\ phase = "opening"
  /\ phase' = "registering"
  /\ UNCHANGED <<navVars, stackVars, ordinal, dbVars, portFile, cookies>>

\* open() has returned: the navigation, cookie and JavaScript instruments
\* listen, and main() waits for the content script to be registered.
Opened ==
  /\ phase = "opening"
  /\ phase' = "registering"
  /\ navListening' = TRUE
  /\ UNCHANGED <<tab, begun, committed, pendingNavigations, before, navTasks, navSeen, navLost,
                 stackVars, ordinal, dbVars, portFile, cookies>>

\* The content script is registered: the HTTP and callstack instruments listen.
Registered ==
  /\ phase = "registering"
  /\ phase' = "running"
  /\ stackListening' = TRUE
  /\ UNCHANGED <<channel, opened, observing, gChannelMap, messages, polling, firing, unheard,
                 navVars, ordinal, dbVars, portFile, cookies>>

\* The continuation of startListening, which open() does not wait for.
WritePort ==
  /\ phase \in {"registering", "running"} /\ ~portFile
  /\ portFile' = TRUE
  /\ UNCHANGED <<navVars, stackVars, ordinal, dbVars, phase, cookies>>

\* The browser's process, which has waited for the port, starts a visit.
VisitStarts ==
  /\ portFile
  /\ VisitIdArrives
  /\ UNCHANGED <<navVars, stackVars, ordinal, phase, portFile, cookies>>

\* Mutant: the cookie instrument does not count its event.
CookieUncounted ==
  /\ cookies < MaxCookies
  /\ cookies' = cookies + 1
  /\ IF phase \in {"registering", "running"}
     THEN SaveRecord([kind |-> "cookie", ordinal |-> ordinal])
     ELSE NothingSaved
  /\ UNCHANGED <<navVars, stackVars, ordinal, phase, portFile>>

\* onChanged of the cookie instrument.
CookieChanged ==
  /\ cookies < MaxCookies
  /\ cookies' = cookies + 1
  /\ IF phase \in {"registering", "running"}
     THEN SaveRecord([kind |-> "cookie", ordinal |-> ordinal]) /\ ordinal' = ordinal + 1
     ELSE NothingSaved /\ UNCHANGED ordinal
  /\ UNCHANGED <<navVars, stackVars, phase, portFile>>

Start == ReadConfig \/ Opened \/ Registered \/ WritePort

Next ==
  \/ Start \/ VisitStarts \/ CookieChanged
  \/ NavNext /\ UNCHANGED <<stackVars, phase, portFile, cookies>>
  \/ StackNext /\ UNCHANGED <<navVars, phase, portFile, cookies>>

Spec == Init /\ [][Next]_vars

\* main() goes on, the browser answers tabs.get or rejects it, timers fire and
\* messages arrive.  Nothing has to happen in a page.
Fairness ==
  /\ WF_vars(Start)
  /\ WF_vars((\E t \in navTasks : NavResume(t)) /\ UNCHANGED <<stackVars, phase, portFile, cookies>>)
  /\ \A m \in Stacks :
       WF_vars(StackResume(m) /\ UNCHANGED <<navVars, phase, portFile, cookies>>)

FairSpec == Spec /\ Fairness

TypeOK ==
  /\ NavTypeOK /\ StackTypeOK
  /\ DBTypeOK /\ ordinal \in Nat
  /\ phase \in {"config", "opening", "registering", "running"}
  /\ portFile \in BOOLEAN /\ cookies \in 0..MaxCookies

\* Records of events that were counted.
Counting(s) == s.data.kind \in {"navigation", "cookie"}

(***************************************************************************)
(* Nothing is recorded twice: no two records carry the same ordinal,       *)
(* although the instruments count at different points of their handlers    *)
(* and share one counter, and a stack that has been saved is neither saved *)
(* again nor still on its way.                                             *)
(***************************************************************************)
RecordedOnce ==
  /\ \A s1, s2 \in saved :
       Counting(s1) /\ Counting(s2) /\ s1.data.ordinal = s2.data.ordinal => s1 = s2
  /\ StacksSavedOnce

(***************************************************************************)
(* No visit begins before the navigation and cookie instruments listen:    *)
(* the port that announces it is written after main() has started them.    *)
(* (It does not wait for the HTTP and callstack instruments.)              *)
(***************************************************************************)
ListeningBeforeVisits ==
  announced > 0 => navListening /\ phase \in {"registering", "running"}

(***************************************************************************)
(* Every handler ends and every stack gets to where it goes: nothing waits *)
(* for ever, except receivers whose channel never is in the map.           *)
(***************************************************************************)
EverythingSettles ==
  []<>(navTasks = {} /\ \A m \in Stacks : ~StackWaits(m))
=============================================================================
