--------------------------- MODULE Extension_proofs ---------------------------
(***************************************************************************)
(* Proofs about the extension's background page, for any set of frames,    *)
(* channels and actors and any number of navigations, cookies and visits.  *)
(***************************************************************************)
EXTENDS Extension, TLAPS

-----------------------------------------------------------------------------
(* The start *)

\* What carries it: each step of main() needs the one before.
InPhase ==
  /\ announced > 0 => portFile
  /\ portFile => phase \in {"registering", "running"}
  /\ phase \in {"registering", "running"} => navListening

\* No visit begins before the navigation and cookie instruments listen.
THEOREM ListeningAlways == Spec => []ListeningBeforeVisits
<1>1. Init => InPhase
  BY DEF Init, DBInit, InPhase
<1>2. InPhase /\ [Next]_vars => InPhase'
  <2> SUFFICES ASSUME InPhase, [Next]_vars
               PROVE  InPhase'
    OBVIOUS
  <2> USE DEF InPhase
  <2>1. CASE Start
    BY <2>1 DEF Start, ReadConfig, Opened, Registered, WritePort, navVars, dbVars
  <2>2. CASE VisitStarts
    BY <2>2 DEF VisitStarts, navVars
  <2>3. CASE CookieChanged
    BY <2>3 DEF CookieChanged, SaveRecord, NothingSaved, dbVars, navVars
  <2>4. ASSUME NavNext, UNCHANGED <<stackVars, phase, portFile, cookies>>
        PROVE  InPhase'
    <3>1. announced' = announced /\ navListening' = navListening
      BY <2>4 DEF NavNext, CloseTab, OnBeforeNavigate, OnCommitted, NavResume, BeforeDescribed,
         CommittedDescribed, TabUnknown, Joined, TimesOut, SaveNavigation, SaveRecord,
         NothingSaved, dbVars
    <3>2. QED
      BY <2>4, <3>1
  <2>5. ASSUME StackNext, UNCHANGED <<navVars, phase, portFile, cookies>>
        PROVE  InPhase'
    <3>1. announced' = announced
      BY <2>5 DEF StackNext, OpenInChild, OpenInParent, ExamineResponse, StackResume, Receive,
         Poll, SaveStack, Notify, SaveRecord, dbVars
    <3>2. QED
      BY <2>5, <3>1 DEF navVars
  <2>6. CASE UNCHANGED vars
    BY <2>6 DEF vars, navVars, dbVars
  <2>7. QED
    BY <2>1, <2>2, <2>3, <2>4, <2>5, <2>6 DEF Next
<1>3. InPhase => ListeningBeforeVisits
  BY DEF InPhase, ListeningBeforeVisits
<1>4. QED
  BY <1>1, <1>2, <1>3, PTL DEF Spec

-----------------------------------------------------------------------------
(* Navigations *)

\* A step of something else than a navigation.
Elsewhere ==
  /\ UNCHANGED <<tab, begun, committed, pendingNavigations, before, navTasks, navSeen, navLost>>
  /\ navListening' \in {navListening, TRUE}
  /\ ordinal' \in {ordinal, ordinal + 1}
  /\ NavigationsSaved' = NavigationsSaved

LEMMA OtherRecord ==
  ASSUME NEW r, r.kind # "navigation", SaveRecord(r)
  PROVE  NavigationsSaved' = NavigationsSaved
  BY DEF SaveRecord, NavigationsSaved

LEMMA Steps ==
  ASSUME [Next]_vars
  PROVE  Elsewhere \/ NavNext
<1> USE DEF Elsewhere
<1>1. CASE Start \/ VisitStarts \/ UNCHANGED vars
  BY <1>1 DEF Start, ReadConfig, Opened, Registered, WritePort, VisitStarts, VisitIdArrives, vars,
     navVars, dbVars, NavigationsSaved
<1>2. CASE CookieChanged
  <2>1. CASE SaveRecord([kind |-> "cookie", ordinal |-> ordinal]) /\ ordinal' = ordinal + 1
    BY <1>2, <2>1, OtherRecord DEF CookieChanged, navVars
  <2>2. CASE NothingSaved /\ UNCHANGED ordinal
    BY <1>2, <2>2 DEF CookieChanged, navVars, NothingSaved, dbVars, NavigationsSaved
  <2>3. QED
    BY <1>2, <2>1, <2>2 DEF CookieChanged
<1>3. ASSUME StackNext, UNCHANGED <<navVars, phase, portFile, cookies>>
      PROVE  Elsewhere
  <2>1. ASSUME NEW m, SaveStack(m)
        PROVE  Elsewhere
    BY <1>3, <2>1, OtherRecord DEF SaveStack, navVars
  <2>2. CASE UNCHANGED <<ordinal, dbVars>>
    BY <1>3, <2>2 DEF navVars, dbVars, NavigationsSaved
  <2>3. QED
    BY <1>3, <2>1, <2>2 DEF StackNext, OpenInChild, OpenInParent, ExamineResponse, StackResume,
       Receive, Poll
<1>4. QED
  BY <1>1, <1>2, <1>3 DEF Next

\* A frame's pending object is that of the navigation it began last, and a
\* handler that found one found its own or a later one.
Fresh ==
  /\ \A f \in Frames : pendingNavigations[f] \in {NoNav, begun[f]}
  /\ ~navListening => navTasks = {} /\ \A f \in Frames : pendingNavigations[f] = NoNav
  /\ \A t \in navTasks : t.nav <= begun[t.frame]
  /\ \A t \in navTasks : t.pc = "pending" => t.event = "committed" /\ t.pending >= t.nav

\* A commit has at most one handler, and whoever tells of a commit saw it.
Single ==
  /\ \A t \in navTasks : t.event = "committed" => <<t.frame, t.nav>> \in navSeen
  /\ \A s \in NavigationsSaved : <<s.data.frame, s.data.nav>> \in navSeen
  /\ \A t1, t2 \in navTasks :
       t1.event = "committed" /\ t2.event = "committed" /\ t1.frame = t2.frame /\ t1.nav = t2.nav
         => t1 = t2

NavInv ==
  /\ NavTypeOK /\ ordinal \in Nat
  /\ Fresh /\ NeverStale /\ Single /\ NavigationsAccounted

\* What saving a record of the handler t adds.
LEMMA NavigationRecord ==
  ASSUME NEW t, NEW from, SaveNavigation(t, from)
  PROVE  \E s : /\ NavigationsSaved' = NavigationsSaved \union {s}
                /\ s.data.frame = t.frame /\ s.data.nav = t.nav /\ s.data.from = from
<1> DEFINE s == [data |-> [kind |-> "navigation", frame |-> t.frame, nav |-> t.nav,
                           ordinal |-> t.ordinal, from |-> from],
                 visit |-> Attribution]
<1>1. saved' = saved \union {s} /\ s.data.kind = "navigation"
  BY DEF SaveNavigation, SaveRecord
<1>2. NavigationsSaved' = NavigationsSaved \union {s}
  BY <1>1 DEF NavigationsSaved
<1>3. s.data.frame = t.frame /\ s.data.nav = t.nav /\ s.data.from = from
  OBVIOUS
<1>4. QED
  BY <1>2, <1>3, Zenon

\* A handler t of a commit that ends with a record, which is not stale.
LEMMA EndsAsRecorded ==
  ASSUME NavInv, NEW t \in navTasks, NEW from, t.event = "committed",
         from # NoNav => from >= t.nav,
         navTasks' = navTasks \ {t},
         \E s : /\ NavigationsSaved' = NavigationsSaved \union {s}
                /\ s.data.frame = t.frame /\ s.data.nav = t.nav /\ s.data.from = from,
         UNCHANGED <<navListening, tab, begun, committed, pendingNavigations, before, navSeen, navLost>>,
         ordinal' \in {ordinal, ordinal + 1}
  PROVE  NavInv'
<1> USE DEF NavInv
<1>1. PICK s : /\ NavigationsSaved' = NavigationsSaved \union {s}
               /\ s.data.frame = t.frame /\ s.data.nav = t.nav /\ s.data.from = from
  OBVIOUS
<1>2. NavTypeOK' /\ ordinal' \in Nat
  BY DEF NavTypeOK
<1>3. Fresh'
  BY DEF Fresh
<1>4. NeverStale'
  BY <1>1 DEF NeverStale
<1>5. Single'
  BY <1>1 DEF Single
<1>6. NavigationsAccounted'
  <2> DEFINE own == <<t.frame, t.nav>>
  <2>1. own \in navSeen /\ Waits(own)
    BY Zenon DEF Single, Waits
  <2>2. ~Recorded(own) /\ own \notin navLost
    BY <2>1 DEF NavigationsAccounted
  <2>3. ASSUME NEW c \in navSeen
        PROVE  \/ Waits(c)' /\ ~Recorded(c)' /\ c \notin navLost'
               \/ ~Waits(c)' /\ Recorded(c)' /\ c \notin navLost'
               \/ ~Waits(c)' /\ ~Recorded(c)' /\ c \in navLost'
    <3>1. CASE c = own
      <4>1. ~Waits(c)'
        BY <3>1 DEF Waits, Single
      <4>2. Recorded(c)'
        BY <1>1, <3>1 DEF Recorded
      <4>3. QED
        BY <2>2, <3>1, <4>1, <4>2
    <3>2. CASE c # own
      <4>1. Waits(c)' <=> Waits(c)
        BY <3>2 DEF Waits
      <4>2. Recorded(c)' <=> Recorded(c)
        BY <1>1, <3>2 DEF Recorded
      <4>3. QED
        BY <4>1, <4>2 DEF NavigationsAccounted
    <3>3. QED
      BY <3>1, <3>2
  <2>4. \A r \in NavigationsSaved : <<r.data.frame, r.data.nav>> # own
    BY <2>2 DEF Recorded
  <2>5. QED
    BY <1>1, <2>3, <2>4 DEF NavigationsAccounted
<1>7. QED
  BY <1>2, <1>3, <1>4, <1>5, <1>6

\* A handler that goes on waiting, for the pending object it has found.
LEMMA GoesOn ==
  ASSUME NavInv, NEW t \in navTasks, NEW n \in navTasks', t.event = "committed",
         n \in NavTasks, n.event = "committed", n.frame = t.frame, n.nav = t.nav,
         n.pc = "pending" => n.pending >= n.nav,
         navTasks' = (navTasks \ {t}) \union {n}, UNCHANGED saved,
         UNCHANGED <<navListening, tab, begun, committed, pendingNavigations, before, navSeen, navLost>>,
         ordinal' \in {ordinal, ordinal + 1}
  PROVE  NavInv'
<1> USE DEF NavInv
<1>1. NavigationsSaved' = NavigationsSaved
  BY DEF NavigationsSaved
<1>2. NavTypeOK' /\ ordinal' \in Nat
  BY DEF NavTypeOK
<1>3. Fresh'
  BY DEF Fresh
<1>4. NeverStale'
  BY <1>1 DEF NeverStale
<1>5. Single'
  BY <1>1 DEF Single
<1>6. \A c : (Waits(c)' <=> Waits(c)) /\ (Recorded(c)' <=> Recorded(c))
  BY <1>1 DEF Waits, Recorded
<1>7. NavigationsAccounted'
  BY <1>1, <1>6 DEF NavigationsAccounted
<1>8. QED
  BY <1>2, <1>3, <1>4, <1>5, <1>7

\* A handler whose tab was closed.
LEMMA EndsUnknown ==
  ASSUME NavInv, NEW t \in navTasks, TabUnknown(t)
  PROVE  NavInv'
<1> USE DEF NavInv
<1>1. NavigationsSaved' = NavigationsSaved
  BY DEF NavigationsSaved, TabUnknown, dbVars
<1>2. /\ navTasks' = navTasks \ {t}
      /\ UNCHANGED <<navListening, tab, begun, committed, pendingNavigations, before, navSeen, ordinal>>
  BY DEF TabUnknown, Ends
<1>3. Fresh' /\ NeverStale' /\ Single'
  BY <1>1, <1>2 DEF Fresh, NeverStale, Single
<1>4. CASE t.event = "committed"
  <2> DEFINE own == <<t.frame, t.nav>>
  <2>1. navLost' = navLost \union {own}
    BY <1>4 DEF TabUnknown
  <2>2. own \in navSeen /\ Waits(own)
    BY <1>4, Zenon DEF Single, Waits
  <2>3. ~Recorded(own)
    BY <2>2 DEF NavigationsAccounted
  <2>4. ~Waits(own)'
    BY <1>2, <1>4 DEF Waits, Single
  <2>5. \A c : c # own => (Waits(c)' <=> Waits(c))
    BY <1>2 DEF Waits
  <2>6. \A c : Recorded(c)' <=> Recorded(c)
    BY <1>1 DEF Recorded
  <2> HIDE DEF own
  <2>7. NavigationsAccounted'
    BY <1>1, <1>2, <2>1, <2>3, <2>4, <2>5, <2>6 DEF NavigationsAccounted
  <2>8. QED
    BY <1>2, <1>3, <2>1, <2>2, <2>7 DEF NavTypeOK
<1>5. CASE t.event # "committed"
  <2>1. navLost' = navLost
    BY <1>5 DEF TabUnknown
  <2>2. \A c : (Waits(c)' <=> Waits(c)) /\ (Recorded(c)' <=> Recorded(c))
    BY <1>1, <1>2, <1>5 DEF Waits, Recorded
  <2>3. NavigationsAccounted'
    BY <1>1, <1>2, <2>1, <2>2 DEF NavigationsAccounted
  <2>4. QED
    BY <1>2, <1>3, <2>1, <2>3 DEF NavTypeOK
<1>6. QED
  BY <1>4, <1>5

LEMMA Resumes ==
  ASSUME NavInv, NEW t \in navTasks, NavResume(t)
  PROVE  NavInv'
<1> USE DEF NavInv
<1>1. t \in NavTasks /\ pendingNavigations[t.frame] \in Navs \union {NoNav}
  BY DEF NavTypeOK, NavTasks
<1>2. CASE BeforeDescribed(t)
  <2>1. /\ t.event = "before" /\ navTasks' = navTasks \ {t} /\ ordinal' = ordinal + 1
        /\ UNCHANGED <<navListening, tab, begun, committed, pendingNavigations, navSeen, navLost, saved>>
    BY <1>2 DEF BeforeDescribed, Ends, dbVars
  <2>2. NavigationsSaved' = NavigationsSaved
    BY <2>1 DEF NavigationsSaved
  <2>3. before' \in [Frames -> [Navs -> Nat \union {Unresolved}]]
    BY <1>1, <1>2 DEF BeforeDescribed, NavTypeOK, NavTasks
  <2>4. NavTypeOK' /\ ordinal' \in Nat
    BY <2>1, <2>3 DEF NavTypeOK
  <2>5. Fresh' /\ NeverStale' /\ Single'
    BY <2>1, <2>2 DEF Fresh, NeverStale, Single
  <2>6. \A c : (Waits(c)' <=> Waits(c)) /\ (Recorded(c)' <=> Recorded(c))
    BY <2>1, <2>2 DEF Waits, Recorded
  <2>7. NavigationsAccounted'
    BY <2>1, <2>2, <2>6 DEF NavigationsAccounted
  <2>8. QED
    BY <2>4, <2>5, <2>7
<1>3. CASE CommittedDescribed(t)
  <2> DEFINE found == pendingNavigations[t.frame]
             n == [t EXCEPT !.ordinal = ordinal, !.pc = "pending", !.pending = found]
  <2>1. /\ t.event = "committed" /\ ordinal' = ordinal + 1
        /\ UNCHANGED <<navListening, tab, begun, committed, pendingNavigations, before, navSeen, navLost>>
    BY <1>3 DEF CommittedDescribed
  <2>2. /\ n \in NavTasks /\ n.event = t.event /\ n.frame = t.frame /\ n.nav = t.nav
        /\ n.pending = found /\ n.ordinal = ordinal
    BY <1>1 DEF NavTasks, Navs
  <2>3. found # NoNav => found >= t.nav
    BY <1>1 DEF Fresh, NavTasks
  <2>4. CASE found = NoNav
    <3>1. navTasks' = navTasks \ {t} /\ SaveNavigation(n, NoNav)
      BY <1>3, <2>2, <2>4 DEF CommittedDescribed, Ends
    <3> HIDE DEF n
    <3>2. PICK s : /\ NavigationsSaved' = NavigationsSaved \union {s}
                   /\ s.data.frame = t.frame /\ s.data.nav = t.nav /\ s.data.from = NoNav
      BY <2>2, <3>1, NavigationRecord
    <3>3. QED
      BY <2>1, <3>1, <3>2, EndsAsRecorded
  <2>5. CASE found # NoNav
    <3>1. navTasks' = (navTasks \ {t}) \union {n} /\ UNCHANGED saved
      BY <1>3, <2>2, <2>5 DEF CommittedDescribed, NothingSaved, dbVars
    <3>2. n \in navTasks' /\ n.pending >= n.nav
      BY <2>2, <2>3, <2>5, <3>1
    <3> HIDE DEF n
    <3>3. QED
      BY <2>1, <2>2, <3>1, <3>2, GoesOn
  <2>6. QED
    BY <2>4, <2>5
<1>4. CASE TabUnknown(t)
  BY <1>4, EndsUnknown
<1>5. CASE Joined(t)
  <2>1. /\ navTasks' = navTasks \ {t} /\ SaveNavigation(t, t.pending) /\ ordinal' = ordinal
        /\ UNCHANGED <<navListening, tab, begun, committed, pendingNavigations, before, navSeen, navLost>>
    BY <1>5 DEF Joined, Ends
  <2>2. t.event = "committed" /\ t.pending >= t.nav
    BY <1>5 DEF Joined, Fresh
  <2>3. QED
    BY <2>1, <2>2, NavigationRecord, EndsAsRecorded
<1>6. CASE TimesOut(t)
  <2>1. /\ navTasks' = navTasks \ {t} /\ SaveNavigation(t, NoNav) /\ ordinal' = ordinal
        /\ UNCHANGED <<navListening, tab, begun, committed, pendingNavigations, before, navSeen, navLost>>
    BY <1>6 DEF TimesOut, Ends
  <2>2. t.event = "committed"
    BY <1>6 DEF TimesOut, Fresh
  <2>3. QED
    BY <2>1, <2>2, NavigationRecord, EndsAsRecorded
<1>7. QED
  BY <1>2, <1>3, <1>4, <1>5, <1>6 DEF NavResume

\* An event that makes a handler, or none when nobody listens.
LEMMA Begins ==
  ASSUME NavInv, NEW f \in Frames, OnBeforeNavigate(f)
  PROVE  NavInv'
<1> USE NavigationAssumption DEF NavInv
<1> DEFINE n == begun[f] + 1
           t == NavTask("before", f, n)
<1>1. /\ begun' = [begun EXCEPT ![f] = n] /\ n \in Navs /\ begun[f] \in Nat
      /\ UNCHANGED <<navListening, tab, committed, before, navSeen, navLost, ordinal, saved>>
  BY DEF OnBeforeNavigate, NavTypeOK, Navs, dbVars
<1>2. t \in NavTasks /\ t.event = "before" /\ t.nav = n /\ t.frame = f /\ t.pc = "tab"
  BY <1>1 DEF NavTask, NavTasks
<1>3. \/ navListening /\ navTasks' = navTasks \union {t} /\ pendingNavigations' = [pendingNavigations EXCEPT ![f] = n]
      \/ navTasks' = navTasks /\ pendingNavigations' = pendingNavigations /\ ~navListening
  BY DEF OnBeforeNavigate, InstantiatePending
<1> HIDE DEF n, t
<1>4. NavigationsSaved' = NavigationsSaved
  BY <1>1 DEF NavigationsSaved
<1>5. NavTypeOK'
  BY <1>1, <1>2, <1>3 DEF NavTypeOK, Navs
<1>6. \A u \in navTasks' : u = t \/ u \in navTasks
  BY <1>3
<1>7. Fresh'
  <2>1. \A u \in navTasks : u.frame \in Frames /\ u.nav \in Nat
    BY DEF NavTypeOK, NavTasks, Navs
  <2>2. \A u \in navTasks' : u.nav <= begun'[u.frame]
    BY <1>1, <1>2, <1>6, <2>1 DEF Fresh, NavTypeOK, n
  <2>3. \A g \in Frames : pendingNavigations'[g] \in {NoNav, begun'[g]}
    BY <1>1, <1>3 DEF Fresh, NavTypeOK
  <2>4. QED
    BY <1>1, <1>2, <1>3, <1>6, <2>2, <2>3 DEF Fresh
<1>8. Single' /\ NeverStale'
  BY <1>1, <1>2, <1>4, <1>6 DEF Single, NeverStale
<1>9. \A c : (Waits(c)' <=> Waits(c)) /\ (Recorded(c)' <=> Recorded(c))
  BY <1>2, <1>3, <1>4 DEF Waits, Recorded
<1>10. NavigationsAccounted'
  BY <1>1, <1>4, <1>9 DEF NavigationsAccounted
<1>11. QED
  BY <1>1, <1>5, <1>7, <1>8, <1>10

\* A commit, which makes its only handler.
LEMMA Commits ==
  ASSUME NavInv, NEW f \in Frames, OnCommitted(f)
  PROVE  NavInv'
<1> USE NavigationAssumption DEF NavInv
<1>0. PICK n : n = begun[f]
  OBVIOUS
<1> DEFINE t == NavTask("committed", f, n)
           own == <<f, n>>
<1>1. /\ n \in Navs /\ own \notin committed /\ committed' = committed \union {own}
      /\ UNCHANGED <<navListening, tab, begun, pendingNavigations, before, navLost, ordinal, saved>>
  BY <1>0 DEF OnCommitted, NavTypeOK, Navs, dbVars
<1>2. /\ t \in NavTasks /\ t.event = "committed" /\ t.nav = n /\ t.frame = f /\ t.pc = "tab"
      /\ <<t.frame, t.nav>> = own
  BY <1>1 DEF NavTask, NavTasks
<1>3. \/ navListening /\ navTasks' = navTasks \union {t} /\ navSeen' = navSeen \union {own}
      \/ navTasks' = navTasks /\ navSeen' = navSeen
  BY <1>0 DEF OnCommitted
<1>4. NavigationsSaved' = NavigationsSaved
  BY <1>1 DEF NavigationsSaved
<1>5. own \in Frames \X Navs /\ n = begun[f] /\ n \in Nat /\ own \notin navSeen
  BY <1>0, <1>1 DEF NavTypeOK, Navs
<1> HIDE DEF t, own
<1>6. NavTypeOK'
  BY <1>1, <1>2, <1>3, <1>5 DEF NavTypeOK
<1>7. Fresh'
  BY <1>1, <1>2, <1>3, <1>5 DEF Fresh
<1>8. NeverStale'
  BY <1>4 DEF NeverStale
<1>9. ~Waits(own) /\ ~Recorded(own) /\ own \notin navLost
  BY <1>5, Zenon DEF Single, Waits, Recorded, NavTypeOK
<1>10. Single'
  <2>1. \A u \in navTasks : u.event = "committed" => <<u.frame, u.nav>> # own
    BY <1>9, Zenon DEF Waits
  <2>2. \A u \in navTasks : u.event = "committed" /\ u.frame = t.frame => u.nav # t.nav
    BY <1>2, <2>1
  <2>3. QED
    BY <1>2, <1>3, <1>4, <2>2 DEF Single
<1>11. NavigationsAccounted'
  <2>1. \A c : Recorded(c)' <=> Recorded(c)
    BY <1>4 DEF Recorded
  <2>2. \A c : c # own => (Waits(c)' <=> Waits(c))
    BY <1>2, <1>3 DEF Waits
  <2>3. own \in navSeen' => Waits(own)'
    <3>1. own \in navSeen' => t \in navTasks'
      BY <1>3, <1>5
    <3>2. QED
      BY <1>2, <3>1, Zenon DEF Waits
  <2>4. own \in navSeen' => Waits(own)' /\ ~Recorded(own)' /\ own \notin navLost'
    BY <1>1, <1>9, <2>1, <2>3
  <2>5. \A c \in navSeen' : c # own => c \in navSeen
    BY <1>3
  <2>6. QED
    BY <1>1, <1>4, <2>1, <2>2, <2>4, <2>5 DEF NavigationsAccounted
<1>12. QED
  BY <1>1, <1>6, <1>7, <1>8, <1>10, <1>11

LEMMA NavSafety == Spec => []NavInv
<1>1. Init => NavInv
  <2> SUFFICES ASSUME Init
               PROVE  NavInv
    OBVIOUS
  <2>1. NavTypeOK /\ ordinal \in Nat
    <3>1. before \in [Frames -> [Navs -> Nat \union {Unresolved}]]
      BY DEF Init, NavInit
    <3>2. pendingNavigations \in [Frames -> Navs \union {NoNav}] /\ begun \in [Frames -> 0..MaxNavs]
      BY NavigationAssumption DEF Init, NavInit
    <3>3. QED
      BY <3>1, <3>2 DEF Init, NavInit, DBInit, NavTypeOK
  <2>2. navTasks = {} /\ navSeen = {} /\ NavigationsSaved = {} /\ pendingNavigations = [f \in Frames |-> NoNav]
    BY DEF Init, NavInit, DBInit, NavigationsSaved
  <2>3. QED
    BY <2>1, <2>2 DEF NavInv, Fresh, Single, NeverStale, NavigationsAccounted
<1>2. NavInv /\ [Next]_vars => NavInv'
  <2> SUFFICES ASSUME NavInv, [Next]_vars
               PROVE  NavInv'
    OBVIOUS
  <2>1. CASE Elsewhere
    <3> USE DEF NavInv, Elsewhere
    <3>1. /\ navListening' = navListening \/ navListening' = TRUE
          /\ UNCHANGED <<tab, begun, committed, pendingNavigations, before, navTasks, navSeen, navLost>>
          /\ NavigationsSaved' = NavigationsSaved
      BY <2>1, Zenon
    <3>2. navListening' \in BOOLEAN /\ ordinal' \in Nat
      <4>1. ordinal' \in Nat
        BY <2>1
      <4>2. navListening \in BOOLEAN
        BY DEF NavTypeOK
      <4>3. QED
        BY <3>1, <4>1, <4>2
    <3>3. NavTypeOK'
      BY <3>1, <3>2 DEF NavTypeOK
    <3>4. ~navListening' => ~navListening
      BY <3>1, Zenon
    <3>5. Fresh' /\ NeverStale' /\ Single'
      BY <3>1, <3>4 DEF Fresh, NeverStale, Single
    <3>6. \A c : (Waits(c)' <=> Waits(c)) /\ (Recorded(c)' <=> Recorded(c))
      BY <3>1 DEF Waits, Recorded
    <3>7. NavigationsAccounted'
      BY <3>1, <3>6 DEF NavigationsAccounted
    <3>8. QED
      BY <3>2, <3>3, <3>5, <3>7
  <2>2. CASE CloseTab
    <3>1. NavigationsSaved' = NavigationsSaved
      BY <2>2 DEF CloseTab, NavigationsSaved, dbVars
    <3>2. /\ tab' = FALSE
          /\ UNCHANGED <<navListening, begun, committed, pendingNavigations, before, navTasks,
                         navSeen, navLost, ordinal>>
      BY <2>2 DEF CloseTab
    <3>3. \A c : (Waits(c)' <=> Waits(c)) /\ (Recorded(c)' <=> Recorded(c))
      BY <3>1, <3>2 DEF Waits, Recorded
    <3>4. QED
      BY <3>1, <3>2, <3>3 DEF NavInv, NavTypeOK, Fresh, NeverStale, Single, NavigationsAccounted
  <2>3. QED
    BY <2>1, <2>2, Steps, Begins, Commits, Resumes DEF NavNext
<1>3. QED
  BY <1>1, <1>2, PTL DEF Spec

\* A navigation is never recorded with the attributes of an earlier one.
THEOREM NeverStaleAlways == Spec => []NeverStale
<1>1. NavInv => NeverStale
  BY DEF NavInv
<1>2. QED
  BY <1>1, NavSafety, PTL

\* Every commit that was seen has its handler waiting, or its one record, or
\* was lost with its tab.
THEOREM AccountedAlways == Spec => []NavigationsAccounted
<1>1. NavInv => NavigationsAccounted
  BY DEF NavInv
<1>2. QED
  BY <1>1, NavSafety, PTL

-----------------------------------------------------------------------------
(* Nothing is recorded twice *)

\* The handlers that have counted their event, and the records of such events.
Held    == {t \in navTasks : t.pc = "pending"}
Counted == {s \in saved : Counting(s)}

\* Ordinals are those of events that were counted, each in one place.
Numbered ==
  /\ ordinal \in Nat
  /\ \A t \in Held : t.ordinal \in 0..(ordinal - 1)
  /\ \A s \in Counted : s.data.ordinal \in 0..(ordinal - 1)
  /\ \A t1, t2 \in Held : t1.ordinal = t2.ordinal => t1 = t2
  /\ \A t \in Held, s \in Counted : t.ordinal # s.data.ordinal
  /\ \A s1, s2 \in Counted : s1.data.ordinal = s2.data.ordinal => s1 = s2

\* What a step does to them: a handler counts, an event is counted and
\* recorded at once, a handler is replaced by its record, or nothing.
HoldsOne  == \E n : /\ n.ordinal = ordinal /\ Held' \subseteq Held \union {n}
                    /\ Counted' = Counted /\ ordinal' = ordinal + 1
CountsOne == \E s : /\ s.data.ordinal = ordinal /\ Held' \subseteq Held
                    /\ Counted' = Counted \union {s} /\ ordinal' = ordinal + 1
TurnsOne  == \E t \in Held : \E s :
               /\ s.data.ordinal = t.ordinal /\ Held' \subseteq Held \ {t}
               /\ Counted' = Counted \union {s} /\ ordinal' = ordinal
CountsNone == Held' \subseteq Held /\ Counted' = Counted /\ ordinal' \in {ordinal, ordinal + 1}

LEMMA NumberedKept ==
  ASSUME Numbered, HoldsOne \/ CountsOne \/ TurnsOne \/ CountsNone
  PROVE  Numbered'
<1>1. CASE HoldsOne
  BY <1>1 DEF Numbered, HoldsOne
<1>2. CASE CountsOne
  BY <1>2 DEF Numbered, CountsOne
<1>3. CASE TurnsOne
  BY <1>3 DEF Numbered, TurnsOne
<1>4. CASE CountsNone
  BY <1>4 DEF Numbered, CountsNone
<1>5. QED
  BY <1>1, <1>2, <1>3, <1>4

\* What is saved by a call of saveRecord.
LEMMA CountedRecord ==
  ASSUME NEW r, SaveRecord(r)
  PROVE  \E s : /\ s.data = r /\ saved' = saved \union {s}
                /\ r.kind \in {"navigation", "cookie"} => Counted' = Counted \union {s}
                /\ r.kind \notin {"navigation", "cookie"} => Counted' = Counted
<1> DEFINE s == [data |-> r, visit |-> Attribution]
<1>1. saved' = saved \union {s} /\ s.data = r
  BY DEF SaveRecord
<1> HIDE DEF s
<1>2. /\ r.kind \in {"navigation", "cookie"} => Counted' = Counted \union {s}
      /\ r.kind \notin {"navigation", "cookie"} => Counted' = Counted
  BY <1>1 DEF Counted, Counting
<1>3. QED
  BY <1>1, <1>2

LEMMA NavigationCounts ==
  ASSUME NEW t, NEW from, SaveNavigation(t, from)
  PROVE  \E s : s.data.ordinal = t.ordinal /\ Counted' = Counted \union {s}
<1> DEFINE r == [kind |-> "navigation", frame |-> t.frame, nav |-> t.nav,
                 ordinal |-> t.ordinal, from |-> from]
<1>1. SaveRecord(r) /\ r.kind = "navigation" /\ r.ordinal = t.ordinal
  BY DEF SaveNavigation
<1> HIDE DEF r
<1>2. QED
  BY <1>1, CountedRecord

LEMMA NumberedSteps ==
  ASSUME NavInv, [Next]_vars
  PROVE  HoldsOne \/ CountsOne \/ TurnsOne \/ CountsNone
<1>1. CASE Start \/ VisitStarts \/ UNCHANGED vars
  BY <1>1 DEF Start, ReadConfig, Opened, Registered, WritePort, VisitStarts, VisitIdArrives, vars,
     navVars, dbVars, CountsNone, Held, Counted, Counting
<1>2. CASE CookieChanged
  <2>1. Held' = Held
    BY <1>2 DEF CookieChanged, navVars, Held
  <2>2. CASE SaveRecord([kind |-> "cookie", ordinal |-> ordinal]) /\ ordinal' = ordinal + 1
    <3> DEFINE r == [kind |-> "cookie", ordinal |-> ordinal]
    <3>1. SaveRecord(r) /\ r.kind = "cookie" /\ r.ordinal = ordinal
      BY <2>2
    <3> HIDE DEF r
    <3>2. QED
      BY <2>1, <2>2, <3>1, CountedRecord DEF CountsOne
  <2>3. CASE NothingSaved /\ UNCHANGED ordinal
    BY <2>1, <2>3 DEF NothingSaved, dbVars, CountsNone, Counted, Counting
  <2>4. QED
    BY <1>2, <2>2, <2>3 DEF CookieChanged
<1>3. ASSUME StackNext, UNCHANGED <<navVars, phase, portFile, cookies>>
      PROVE  CountsNone
  <2>1. Held' = Held
    BY <1>3 DEF navVars, Held
  <2>2. ASSUME NEW m, SaveStack(m)
        PROVE  CountsNone
    <3> DEFINE r == [kind |-> "callstack", channel |-> m[1], actor |-> m[2]]
    <3>1. SaveRecord(r) /\ r.kind = "callstack" /\ ordinal' = ordinal
      BY <2>2 DEF SaveStack
    <3> HIDE DEF r
    <3>2. QED
      BY <2>1, <3>1, CountedRecord DEF CountsNone
  <2>3. CASE UNCHANGED <<ordinal, dbVars>>
    BY <2>1, <2>3 DEF CountsNone, dbVars, Counted, Counting
  <2>4. QED
    BY <1>3, <2>2, <2>3 DEF StackNext, OpenInChild, OpenInParent, ExamineResponse, StackResume,
       Receive, Poll
<1>4. ASSUME NEW f \in Frames, OnBeforeNavigate(f) \/ OnCommitted(f)
      PROVE  CountsNone
  <2>1. saved' = saved /\ ordinal' = ordinal
    BY <1>4 DEF OnBeforeNavigate, OnCommitted, dbVars
  <2>2. Held' \subseteq Held
    BY <1>4 DEF OnBeforeNavigate, OnCommitted, NavTask, Held
  <2>3. QED
    BY <2>1, <2>2 DEF CountsNone, Counted, Counting
<1>5. CASE CloseTab
  BY <1>5 DEF CloseTab, CountsNone, dbVars, Held, Counted, Counting
<1>6. ASSUME NEW t \in navTasks, NavResume(t)
      PROVE  HoldsOne \/ CountsOne \/ TurnsOne \/ CountsNone
  <2>1. t \in NavTasks
    BY DEF NavInv, NavTypeOK
  <2>2. CASE BeforeDescribed(t) \/ TabUnknown(t)
    BY <2>2 DEF BeforeDescribed, TabUnknown, Ends, dbVars, CountsNone, Held, Counted, Counting
  <2>3. CASE Joined(t) \/ TimesOut(t)
    <3>1. t \in Held /\ Held' \subseteq Held \ {t} /\ ordinal' = ordinal
      BY <2>3 DEF Joined, TimesOut, Ends, Held
    <3>2. \E from : SaveNavigation(t, from)
      BY <2>3 DEF Joined, TimesOut
    <3>3. QED
      BY <3>1, <3>2, NavigationCounts DEF TurnsOne
  <2>4. CASE CommittedDescribed(t)
    <3> DEFINE n == [t EXCEPT !.ordinal = ordinal, !.pc = "pending",
                              !.pending = pendingNavigations[t.frame]]
    <3>1. n.ordinal = ordinal
      BY <2>1 DEF NavTasks
    <3>2. \/ navTasks' = navTasks \ {t} /\ SaveNavigation(n, NoNav)
          \/ navTasks' = (navTasks \ {t}) \union {n} /\ NothingSaved
      BY <2>4 DEF CommittedDescribed, Ends
    <3>3. ordinal' = ordinal + 1
      BY <2>4 DEF CommittedDescribed
    <3> HIDE DEF n
    <3>4. CASE navTasks' = navTasks \ {t} /\ SaveNavigation(n, NoNav)
      <4>1. Held' \subseteq Held
        BY <3>4 DEF Held
      <4>2. QED
        BY <3>1, <3>3, <3>4, <4>1, NavigationCounts DEF CountsOne
    <3>5. CASE navTasks' = (navTasks \ {t}) \union {n} /\ NothingSaved
      <4>1. Held' \subseteq Held \union {n} /\ Counted' = Counted
        BY <3>5 DEF Held, NothingSaved, dbVars, Counted, Counting
      <4>2. QED
        BY <3>1, <3>3, <4>1 DEF HoldsOne
    <3>6. QED
      BY <3>2, <3>4, <3>5
  <2>5. QED
    BY <1>6, <2>2, <2>3, <2>4 DEF NavResume
<1>7. QED
  BY <1>1, <1>2, <1>3, <1>4, <1>5, <1>6 DEF Next, NavNext

\* A stack is at one point of its way, and its channel was observed; one that
\* was saved is nowhere on the way.
CallStacks == {s \in saved : s.data.kind = "callstack"}

StackInv ==
  /\ messages \subseteq Stacks /\ polling \subseteq Stacks /\ firing \subseteq Stacks
  /\ \A m \in messages \union polling \union firing : m[1] \in opened
  /\ messages \intersect polling = {} /\ messages \intersect firing = {}
  /\ polling \intersect firing = {}
  /\ \A s \in CallStacks :
       /\ s.data.channel \in opened
       /\ <<s.data.channel, s.data.actor>> \notin messages \union polling \union firing
  /\ \A s1, s2 \in CallStacks : s1.data = s2.data => s1 = s2

LEMMA StacksElsewhere ==
  ASSUME [Next]_vars
  PROVE  \/ UNCHANGED <<opened, messages, polling, firing>> /\ CallStacks' = CallStacks
         \/ StackNext
<1>1. CASE Start \/ VisitStarts \/ UNCHANGED vars
  BY <1>1 DEF Start, ReadConfig, Opened, Registered, WritePort, VisitStarts, VisitIdArrives, vars,
     stackVars, dbVars, CallStacks
<1>2. ASSUME NEW r, SaveRecord(r), r.kind # "callstack"
      PROVE  CallStacks' = CallStacks
  BY <1>2 DEF SaveRecord, CallStacks
<1>3. CASE CookieChanged
  BY <1>2, <1>3 DEF CookieChanged, NothingSaved, dbVars, CallStacks, stackVars
<1>4. ASSUME NavNext, UNCHANGED stackVars
      PROVE  CallStacks' = CallStacks
  <2>1. ASSUME NEW t, NEW from, SaveNavigation(t, from)
        PROVE  CallStacks' = CallStacks
    BY <1>2, <2>1 DEF SaveNavigation
  <2>2. CASE saved' = saved
    BY <2>2 DEF CallStacks
  <2>3. QED
    BY <1>4, <2>1, <2>2 DEF NavNext, CloseTab, OnBeforeNavigate, OnCommitted, NavResume,
       BeforeDescribed, CommittedDescribed, TabUnknown, Joined, TimesOut, NothingSaved, dbVars
<1>5. QED
  BY <1>1, <1>3, <1>4 DEF Next, stackVars

LEMMA StacksKept == StackInv /\ [Next]_vars => StackInv'
<1> SUFFICES ASSUME StackInv, [Next]_vars
             PROVE  StackInv'
  OBVIOUS
<1>1. CASE UNCHANGED <<opened, messages, polling, firing>> /\ CallStacks' = CallStacks
  BY <1>1 DEF StackInv
<1>2. ASSUME NEW c \in Channels, NEW actors \in SUBSET Actors, OpenInChild(c, actors)
      PROVE  StackInv'
  <2>1. /\ c \notin opened /\ opened' = opened \union {c}
        /\ messages' = messages \union ({c} \X actors) /\ UNCHANGED <<polling, firing, saved>>
    BY <1>2 DEF OpenInChild, dbVars
  <2>2. CallStacks' = CallStacks
    BY <2>1 DEF CallStacks
  <2>3. {c} \X actors \subseteq Stacks /\ \A m \in {c} \X actors : m[1] = c
    BY DEF Stacks
  <2> HIDE DEF CallStacks
  <2>4. \A s \in CallStacks : <<s.data.channel, s.data.actor>> \notin {c} \X actors
    BY <2>1 DEF StackInv
  <2>5. \A m \in {c} \X actors : m \notin polling /\ m \notin firing
    BY <2>1, <2>3 DEF StackInv
  <2>6. QED
    BY <2>1, <2>2, <2>3, <2>4, <2>5 DEF StackInv
<1>3. ASSUME NEW c \in Channels, OpenInParent(c) \/ ExamineResponse(c)
      PROVE  StackInv'
  BY <1>1, <1>3 DEF OpenInParent, ExamineResponse, CallStacks, dbVars
<1>4. ASSUME NEW m \in Stacks, Receive(m) \/ Poll(m)
      PROVE  StackInv'
  <2>1. /\ UNCHANGED <<opened, saved>> /\ CallStacks' = CallStacks
        /\ \/ m \in messages /\ messages' = messages \ {m}
              /\ \/ polling' = polling \union {m} /\ firing' = firing
                 \/ polling' = polling /\ firing' \in {firing, firing \union {m}}
           \/ m \in polling /\ messages' = messages /\ polling' = polling \ {m}
              /\ firing' \in {firing, firing \union {m}}
    BY <1>4 DEF Receive, Poll, Notify, dbVars, CallStacks
  <2> HIDE DEF CallStacks
  <2>2. QED
    BY <2>1 DEF StackInv
<1>5. ASSUME NEW m \in Stacks, SaveStack(m)
      PROVE  StackInv'
  <2> DEFINE r == [kind |-> "callstack", channel |-> m[1], actor |-> m[2]]
  <2>1. /\ m \in firing /\ firing' = firing \ {m} /\ UNCHANGED <<opened, messages, polling>>
        /\ SaveRecord(r)
    BY <1>5 DEF SaveStack
  <2>2. <<r.channel, r.actor>> = m /\ r.channel = m[1] /\ r.kind = "callstack"
    BY DEF Stacks
  <2> HIDE DEF r
  <2>3. PICK s : s.data = r /\ saved' = saved \union {s}
    BY <2>1, CountedRecord
  <2>4. CallStacks' = CallStacks \union {s}
    BY <2>2, <2>3 DEF CallStacks
  <2>5. m[1] \in opened /\ m \notin messages' \union polling' \union firing'
    BY <2>1 DEF StackInv
  <2>6. \A q \in CallStacks : q.data # r
    BY <2>1, <2>2 DEF StackInv
  <2>7. QED
    BY <2>1, <2>2, <2>3, <2>4, <2>5, <2>6 DEF StackInv
<1>6. QED
  BY <1>1, <1>2, <1>3, <1>4, <1>5, StacksElsewhere DEF StackNext, StackResume

\* Nothing is recorded twice.
THEOREM OnceAlways == Spec => []RecordedOnce
<1>1. Init => Numbered /\ StackInv
  BY DEF Init, DBInit, NavInit, StackInit, Numbered, Held, Counted, StackInv, CallStacks
<1>2. NavInv /\ Numbered /\ [Next]_vars => Numbered'
  BY NumberedSteps, NumberedKept
<1>3. Numbered /\ StackInv => RecordedOnce
  <2> SUFFICES ASSUME Numbered, StackInv
               PROVE  RecordedOnce
    OBVIOUS
  <2>1. \A s1, s2 \in saved :
          Counting(s1) /\ Counting(s2) /\ s1.data.ordinal = s2.data.ordinal => s1 = s2
    BY DEF Numbered, Counted
  <2>2. StacksSavedOnce
    BY DEF StackInv, CallStacks, StacksSavedOnce
  <2>3. QED
    BY <2>1, <2>2 DEF RecordedOnce
<1>4. QED
  BY <1>1, <1>2, <1>3, StacksKept, NavSafety, PTL DEF Spec
=============================================================================
