------------------------- MODULE NavigationInstrument -------------------------
(***************************************************************************)
(* The navigation instrument (navigation-instrument.ts) and the pending    *)
(* navigations (pending-navigation.ts) with which it joins the two events  *)
(* of a navigation.                                                        *)
(*                                                                         *)
(* The handler of either event first waits for the tab and its window.     *)
(* The handler of onCommitted then looks for the pending navigation of its *)
(* frame and waits a second for what the other handler puts there.  A      *)
(* navigation id is a frame: the browser gives no process id.              *)
(***************************************************************************)
EXTENDS LoggingDB

CONSTANTS
  Frames,   \* the frames of the tab
  MaxNavs   \* bound: navigations of a frame

ASSUME NavigationAssumption == MaxNavs \in Nat

VARIABLES
  navListening,       \* run() has added both listeners
  tab,                \* the tab of the frames is open
  begun,              \* navigations that a frame has begun
  committed,          \* navigations that were committed, as <<frame, number>>
  pendingNavigations, \* per frame, the navigation whose pending object is kept
  before,             \* per frame and navigation, the ordinal its promise
                      \* onBeforeNavigateEventNavigation was resolved with
  navTasks,           \* handlers that wait
  navSeen,            \* history: the commits that had a handler
  navLost             \* commits whose handlers died of a rejected promise

navVars == <<navListening, tab, begun, committed, pendingNavigations, before, navTasks,
             navSeen, navLost>>

Navs       == 1..MaxNavs
NoNav      == 0
Unresolved == -1

\* A waiting handler: of which event and navigation, what it waits for (the
\* tab or a pending object), its ordinal and the pending object it has found.
NavTasks == [event : {"before", "committed"}, frame : Frames, nav : Navs,
             pc : {"tab", "pending"}, ordinal : Nat \union {Unresolved}, pending : Navs \union {NoNav}]

NavInit ==
  /\ navListening = FALSE /\ tab = TRUE
  /\ begun = [f \in Frames |-> 0] /\ committed = {}
  /\ pendingNavigations = [f \in Frames |-> NoNav]
  /\ before = [f \in Frames |-> [n \in Navs |-> Unresolved]]
  /\ navTasks = {} /\ navSeen = {} /\ navLost = {}

NavTask(event, f, n) ==
  [event |-> event, frame |-> f, nav |-> n, pc |-> "tab",
   ordinal |-> Unresolved, pending |-> NoNav]

\* Mutant: the pending object of the frame's first navigation is kept.
KeepPending(f, n) == IF pendingNavigations[f] = NoNav THEN n ELSE pendingNavigations[f]

\* instantiatePendingNavigation: whatever was pending is forgotten.
InstantiatePending(f, n) == n

\* onBeforeNavigate.
OnBeforeNavigate(f) ==
  LET n == begun[f] + 1
  IN /\ tab /\ begun[f] < MaxNavs
     /\ begun' = [begun EXCEPT ![f] = n]
     /\ IF navListening
        THEN /\ pendingNavigations' = [pendingNavigations EXCEPT ![f] = InstantiatePending(f, n)]
             /\ navTasks' = navTasks \union {NavTask("before", f, n)}
        ELSE UNCHANGED <<pendingNavigations, navTasks>>
     /\ UNCHANGED <<navListening, tab, committed, before, navSeen, navLost, ordinal, dbVars>>

\* onCommitted: only the navigation that the frame began last is committed.
OnCommitted(f) ==
  /\ tab /\ begun[f] > 0 /\ <<f, begun[f]>> \notin committed
  /\ committed' = committed \union {<<f, begun[f]>>}
  /\ IF navListening
     THEN /\ navTasks' = navTasks \union {NavTask("committed", f, begun[f])}
          /\ navSeen' = navSeen \union {<<f, begun[f]>>}
     ELSE UNCHANGED <<navTasks, navSeen>>
  /\ UNCHANGED <<navListening, tab, begun, pendingNavigations, before, navLost, ordinal, dbVars>>

\* The tab is closed.
CloseTab ==
  /\ tab
  /\ tab' = FALSE
  /\ UNCHANGED <<navListening, begun, committed, pendingNavigations, before, navTasks,
                 navSeen, navLost, ordinal, dbVars>>

\* The record of a committed navigation with the attributes of `from`, the
\* navigation whose onBeforeNavigate handler resolved the promise.
SaveNavigation(t, from) ==
  SaveRecord([kind |-> "navigation", frame |-> t.frame, nav |-> t.nav,
              ordinal |-> t.ordinal, from |-> from])

Ends(t) == navTasks' = navTasks \ {t}

\* tabs.get and windows.get have answered the onBeforeNavigate handler: count
\* the event, resolve the promise of the object that was made at the start.
BeforeDescribed(t) ==
  /\ t.event = "before" /\ tab
  /\ ordinal' = ordinal + 1
  /\ before' = [before EXCEPT ![t.frame][t.nav] = ordinal]
  /\ Ends(t)
  /\ UNCHANGED <<navListening, tab, begun, committed, pendingNavigations, navSeen, navLost,
                 dbVars>>

\* They have answered the onCommitted handler: count the event and look for
\* the pending object that the frame has by now.
CommittedDescribed(t) ==
  LET counted == [t EXCEPT !.ordinal = ordinal, !.pc = "pending",
                           !.pending = pendingNavigations[t.frame]]
  IN /\ t.event = "committed" /\ t.pc = "tab" /\ tab
     /\ ordinal' = ordinal + 1
     /\ IF counted.pending = NoNav
        THEN Ends(t) /\ SaveNavigation(counted, NoNav)
        ELSE navTasks' = (navTasks \ {t}) \union {counted} /\ NothingSaved
     /\ UNCHANGED <<navListening, tab, begun, committed, pendingNavigations, before, navSeen,
                    navLost>>

\* The tab is gone: the promise is rejected and nobody catches it.
TabUnknown(t) ==
  /\ t.pc = "tab" /\ ~tab
  /\ Ends(t)
  /\ navLost' = IF t.event = "committed" THEN navLost \union {<<t.frame, t.nav>>} ELSE navLost
  /\ UNCHANGED <<navListening, tab, begun, committed, pendingNavigations, before, navSeen,
                 ordinal, dbVars>>

\* resolvedWithinTimeout: the other handler has resolved its promise.
Joined(t) ==
  /\ t.pc = "pending" /\ before[t.frame][t.pending] # Unresolved
  /\ Ends(t) /\ SaveNavigation(t, t.pending)
  /\ UNCHANGED <<navListening, tab, begun, committed, pendingNavigations, before, navSeen,
                 navLost, ordinal>>

\* Mutant: a navigation that could not be joined is dropped.
TimesOutUnsaved(t) ==
  /\ t.pc = "pending" /\ before[t.frame][t.pending] = Unresolved
  /\ Ends(t) /\ NothingSaved
  /\ UNCHANGED <<navListening, tab, begun, committed, pendingNavigations, before, navSeen,
                 navLost, ordinal>>

\* A second has passed: save without its attributes.
TimesOut(t) ==
  /\ t.pc = "pending" /\ before[t.frame][t.pending] = Unresolved
  /\ Ends(t) /\ SaveNavigation(t, NoNav)
  /\ UNCHANGED <<navListening, tab, begun, committed, pendingNavigations, before, navSeen,
                 navLost, ordinal>>

NavResume(t) ==
  BeforeDescribed(t) \/ CommittedDescribed(t) \/ TabUnknown(t) \/ Joined(t) \/ TimesOut(t)

NavNext ==
  \/ CloseTab
  \/ \E f \in Frames : OnBeforeNavigate(f) \/ OnCommitted(f)
  \/ \E t \in navTasks : NavResume(t)

NavTypeOK ==
  /\ navListening \in BOOLEAN /\ tab \in BOOLEAN
  /\ begun \in [Frames -> 0..MaxNavs]
  /\ committed \subseteq Frames \X Navs /\ navSeen \subseteq committed
  /\ navLost \subseteq navSeen
  /\ pendingNavigations \in [Frames -> Navs \union {NoNav}]
  /\ before \in [Frames -> [Navs -> Nat \union {Unresolved}]]
  /\ navTasks \subseteq NavTasks

NavigationsSaved == {s \in saved : s.data.kind = "navigation"}

(***************************************************************************)
(* A navigation is never recorded with the attributes of an earlier one:   *)
(* the pending objects are not removed, and the handler of onCommitted     *)
(* looks for one only after it has waited for the tab; what it finds is    *)
(* its own or that of a navigation which the frame has begun since.        *)
(***************************************************************************)
NeverStale ==
  \A s \in NavigationsSaved : s.data.from # NoNav => s.data.from >= s.data.nav

\* Where the commit c is accounted for.
Waits(c)    == \E t \in navTasks : t.event = "committed" /\ <<t.frame, t.nav>> = c
Recorded(c) == \E s \in NavigationsSaved : <<s.data.frame, s.data.nav>> = c

(***************************************************************************)
(* A committed navigation that was seen is in one place: its handler       *)
(* waits, or it was recorded once, or its tab was closed under it.         *)
(***************************************************************************)
NavigationsAccounted ==
  /\ \A c \in navSeen :
       \/ Waits(c) /\ ~Recorded(c) /\ c \notin navLost
       \/ ~Waits(c) /\ Recorded(c) /\ c \notin navLost
       \/ ~Waits(c) /\ ~Recorded(c) /\ c \in navLost
  /\ \A s1, s2 \in NavigationsSaved :
       <<s1.data.frame, s1.data.nav>> = <<s2.data.frame, s2.data.nav>> => s1 = s2
=============================================================================
