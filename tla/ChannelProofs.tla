---------------------------- MODULE ChannelProofs ----------------------------
(***************************************************************************)
(* What a page shows, proved for every number of projects, events, faults  *)
(* and catch-ups: the plan of the project it is on, and, where a page is   *)
(* unlocked on that project, no hole behind its cursor.                    *)
(***************************************************************************)
EXTENDS Channel, WellFoundedInduction, TLAPS

(* What the plan is about, and the two fields the argument reads.          *)
PlanInv ==
  /\ "project" \in DOMAIN page
  /\ {"plan", "loads", "cursor", "rows", "whole"} \subseteq DOMAIN store
  /\ PlanIsOurs

(* A page in state v shows the project that one in state u shows.          *)
SamePage(u, v) == "project" \in DOMAIN v /\ v.project = u.project

(* A store in state t has the fields of one in state s, and the plan q.    *)
PlanOf(s, t, q) ==
  /\ {"plan", "loads", "cursor", "rows", "whole"} \subseteq DOMAIN t
  /\ t.plan = q

(***************************************************************************)
(* What the operators on pages and stores leave alone.                     *)
(***************************************************************************)
(* No step of the connection turns the page to another project.            *)
LEMMA PageKept ==
  ASSUME NEW u, "project" \in DOMAIN u
  PROVE  /\ SamePage(u, Connected(u)) /\ SamePage(u, Closed(u)) /\ SamePage(u, Opened(u))
         /\ SamePage(u, Disconnected(u)) /\ SamePage(u, TornDown(u))
<1>1. SamePage(u, Connected(u))
  BY DEF SamePage, Connected
<1>2. SamePage(u, Closed(u))
  BY DEF SamePage, Closed
<1>3. SamePage(u, Opened(u))
  BY DEF SamePage, Opened
<1>4. SamePage(u, Disconnected(u))
  BY DEF SamePage, Disconnected
<1>5. SamePage(u, TornDown(u))
  BY DEF SamePage, TornDown
<1> QED
  BY <1>1, <1>2, <1>3, <1>4, <1>5

(* Asking for a plan clears the one that is shown; rows do not touch it.   *)
LEMMA StoreKept ==
  ASSUME NEW s, {"plan", "loads", "cursor", "rows", "whole"} \subseteq DOMAIN s,
         NEW p, NEW rows
  PROVE  /\ PlanOf(s, Loading(s, p), NoProject)
         /\ PlanOf(s, Dispatched(s, rows), s.plan)
<1>1. PlanOf(s, Loading(s, p), NoProject)
  BY DEF PlanOf, Loading
<1>2. PlanOf(s, Dispatched(s, rows), s.plan)
  BY DEF PlanOf, Dispatched
<1> QED
  BY <1>1, <1>2

-----------------------------------------------------------------------------
(* A step that keeps the project of the page and the plan, or clears the   *)
(* plan, keeps the invariant.                                              *)
LEMMA Enough ==
  ASSUME PlanInv, "project" \in DOMAIN page',
         NEW q, PlanOf(store, store', q),
         q = NoProject \/ (q = store.plan /\ page'.project = page.project)
  PROVE  PlanInv'
BY DEF PlanInv, PlanIsOurs, PlanOf

LEMMA ServeStep == ASSUME PlanInv, Serve PROVE PlanInv'
<1>1. UNCHANGED store /\ SamePage(page, page')
  <2>1. CASE Pump
    BY <2>1 DEF Pump, PlanInv, SamePage
  <2>2. CASE Accept
    BY <2>2 DEF Accept, PlanInv, SamePage
  <2>3. CASE Restart
    BY <2>3, PageKept DEF Restart, PlanInv, SamePage
  <2>4. CASE ServeSwitch
    BY <2>4 DEF ServeSwitch, PlanInv, SamePage
  <2> QED
    BY <2>1, <2>2, <2>3, <2>4 DEF Serve
<1> QED
  BY <1>1 DEF PlanInv, PlanIsOurs, SamePage

LEMMA LinkStep == ASSUME PlanInv, Link PROVE PlanInv'
<1>1. UNCHANGED store /\ SamePage(page, page')
  <2>1. CASE Open
    BY <2>1, PageKept DEF Open, PlanInv, SamePage
  <2>2. CASE Refused
    BY <2>2, PageKept DEF Refused, PlanInv, SamePage
  <2>3. CASE Drop
    BY <2>3, PageKept DEF Drop, PlanInv, SamePage
  <2>4. CASE Reconnect
    <3>1. SamePage(page, [page EXCEPT !.timer = FALSE])
      BY DEF PlanInv, SamePage
    <3> QED
      BY <2>4, <3>1, PageKept DEF Reconnect, SamePage
  <2>5. CASE Offline
    BY <2>5, PageKept DEF Offline, PlanInv, SamePage
  <2>6. CASE Online
    <3>1. SamePage(page, [page EXCEPT !.retry = 0])
      BY DEF PlanInv, SamePage
    <3> QED
      BY <2>6, <3>1, PageKept DEF Online, PlanInv, SamePage
  <2> QED
    BY <2>1, <2>2, <2>3, <2>4, <2>5, <2>6 DEF Link
<1> QED
  BY <1>1 DEF PlanInv, PlanIsOurs, SamePage

(* What the page is sent: only the reply of a launch turns it, and asks    *)
(* for the plan at once.                                                   *)
LEMMA MessageStep ==
  ASSUME PlanInv, NEW m, Received(m)
  PROVE  PlanInv'
<1>1. CASE m.kind = "launched"
  <2> DEFINE s == [store EXCEPT !.rows = @ \cup {m.seq}, !.whole = FALSE]
  <2>1. {"plan", "loads", "cursor", "rows", "whole"} \subseteq DOMAIN s
    BY DEF PlanInv
  <2>2. page' = [page EXCEPT !.project = m.project, !.unlocked = TRUE]
        /\ store' = Loading(s, m.project)
    BY <1>1 DEF Received
  <2> HIDE DEF s
  <2>3. "project" \in DOMAIN page'
    BY <2>2 DEF PlanInv
  <2>4. PlanOf(store, store', NoProject)
    BY <2>1, <2>2, StoreKept DEF PlanOf
  <2> QED
    BY <2>3, <2>4, Enough
<1>2. CASE m.kind # "launched" /\ (m.project # page.project \/ m.kind = "launch")
  BY <1>2 DEF Received, PlanInv, PlanIsOurs
<1>3. CASE m.kind = "switched" /\ m.project = page.project
  <2> DEFINE s == [store EXCEPT !.cursor[page.project] = 0]
  <2>1. {"plan", "loads", "cursor", "rows", "whole"} \subseteq DOMAIN s
    BY DEF PlanInv
  <2>2. page' = page /\ store' = Loading(s, page.project)
    BY <1>3 DEF Received
  <2> HIDE DEF s
  <2>3. PlanOf(store, store', NoProject)
    BY <2>1, <2>2, StoreKept DEF PlanOf
  <2> QED
    BY <2>2, <2>3, Enough DEF PlanInv
<1>4. CASE m.kind = "task" /\ m.project = page.project
  <2>1. page' = page /\ store' = Dispatched(store, {m.seq})
    BY <1>4 DEF Received
  <2> QED
    BY <2>1, StoreKept, Enough DEF PlanInv
<1>5. CASE m.kind = "chat" /\ m.project = page.project
  <2>1. page' = page /\ store' = [store EXCEPT !.rows = @ \cup {m.seq}]
    BY <1>5 DEF Received
  <2> QED
    BY <2>1 DEF PlanInv, PlanIsOurs
<1> QED
  BY <1>1, <1>2, <1>3, <1>4, <1>5 DEF Received

LEMMA ReceiveStep == ASSUME PlanInv, Receive PROVE PlanInv'
<1>1. CASE Deliver
  BY <1>1, MessageStep DEF Deliver
<1>2. CASE Poll
  BY <1>2 DEF Poll, PlanInv, PlanIsOurs
<1>3. ASSUME NEW f \in fetches, FetchReply(f) PROVE PlanInv'
  <2>1. PICK upto : LET rows == EventsOf(f.project, f.since, upto)
                        s == [Dispatched(store, rows) EXCEPT !.whole = @ /\ (rows = {} \/ ~f.old)]
                    IN store' = IF rows = {} THEN s ELSE Loading(s, page.project)
    BY <1>3 DEF FetchReply, Events
  <2> DEFINE rows == EventsOf(f.project, f.since, upto)
             d == Dispatched(store, rows)
             s == [d EXCEPT !.whole = @ /\ (rows = {} \/ ~f.old)]
  <2>2. PlanOf(store, d, store.plan)
    BY StoreKept DEF PlanInv
  <2>3. PlanOf(store, s, store.plan)
    <3> HIDE DEF d
    <3> QED BY <2>2 DEF PlanOf
  <2>4. store' = IF rows = {} THEN s ELSE Loading(s, page.project)
    BY <2>1
  <2> HIDE DEF s, rows
  <2>5. PlanOf(store, store', store.plan) \/ PlanOf(store, store', NoProject)
    BY <2>3, <2>4, StoreKept DEF PlanOf
  <2> QED
    BY <1>3, <2>5, Enough DEF FetchReply, PlanInv
<1>4. ASSUME NEW f \in fetches, FetchFails(f) PROVE PlanInv'
  BY <1>4 DEF FetchFails, PlanInv, PlanIsOurs
<1>5. ASSUME NEW p \in Project, PlanReply(p) PROVE PlanInv'
  BY <1>5 DEF PlanReply, PlanInv, PlanIsOurs
<1> QED
  BY <1>1, <1>2, <1>3, <1>4, <1>5 DEF Receive

(* Of what the user does, only the answer of a switch and a reload turn    *)
(* the page.                                                               *)
LEMMA ActStep == ASSUME PlanInv, ~AnyProject, Act PROVE PlanInv'
<1>1. ASSUME NEW p \in Project, Unlock(p) PROVE PlanInv'
  <2> DEFINE u == [page EXCEPT !.project = p, !.unlocked = TRUE, !.token = TRUE]
  <2>1. "project" \in DOMAIN u /\ u.project = page.project
    BY <1>1 DEF Unlock, PlanInv
  <2>2. page' = Connected(u) /\ store' = store
    BY <1>1 DEF Unlock
  <2> HIDE DEF u
  <2>3. SamePage(u, page')
    BY <2>1, <2>2, PageKept
  <2> QED
    BY <2>1, <2>2, <2>3 DEF PlanInv, PlanIsOurs, SamePage
<1>2. ASSUME NEW p \in Project, AskSwitch(p) PROVE PlanInv'
  BY <1>2 DEF AskSwitch, PlanInv, PlanIsOurs
<1>3. ASSUME NEW p \in Project, SwitchEnds(p) PROVE PlanInv'
  <2> DEFINE u == [page EXCEPT !.starting = @ \ {p}]
  <2>1. "project" \in DOMAIN u /\ u.project = page.project
    BY DEF PlanInv
  <2>2. page' = Connected(u) /\ store' = store
    BY <1>3 DEF SwitchEnds
  <2> HIDE DEF u
  <2>3. SamePage(u, page')
    BY <2>1, <2>2, PageKept
  <2> QED
    BY <2>1, <2>2, <2>3 DEF PlanInv, PlanIsOurs, SamePage
<1>4. ASSUME NEW p \in Project, Launch(p) PROVE PlanInv'
  BY <1>4 DEF Launch, PlanInv, PlanIsOurs
<1>5. CASE Lock
  <2> DEFINE u == [page EXCEPT !.unlocked = FALSE, !.token = FALSE]
  <2>1. "project" \in DOMAIN u /\ u.project = page.project
    BY DEF PlanInv
  <2>2. page' = Disconnected(u) /\ store' = store
    BY <1>5 DEF Lock
  <2> HIDE DEF u
  <2>3. SamePage(u, page')
    BY <2>1, <2>2, PageKept
  <2> QED
    BY <2>1, <2>2, <2>3 DEF PlanInv, PlanIsOurs, SamePage
<1>6. CASE Expire
  <2> DEFINE u == [page EXCEPT !.unlocked = FALSE]
  <2>1. "project" \in DOMAIN u /\ u.project = page.project
    BY DEF PlanInv
  <2>2. page' = Disconnected(u) /\ store' = store
    BY <1>6 DEF Expire
  <2> HIDE DEF u
  <2>3. SamePage(u, page')
    BY <2>1, <2>2, PageKept
  <2> QED
    BY <2>1, <2>2, <2>3 DEF PlanInv, PlanIsOurs, SamePage
<1>7. CASE Switched
  <2> DEFINE p == page.switching
             w == [page EXCEPT !.project = p, !.unlocked = TRUE, !.step = "no",
                               !.switching = NoProject, !.starting = @ \cup {p}]
             u == Disconnected(w)
             s == [store EXCEPT !.cursor[p] = 0, !.rows = {}, !.whole = TRUE]
  <2>1. /\ page' = IF page.unlocked THEN u ELSE Connected(u)
        /\ store' = Loading(s, p)
    BY <1>7 DEF Switched
  <2>2. "project" \in DOMAIN w
    BY DEF PlanInv
  <2>3. "project" \in DOMAIN u
    <3> HIDE DEF w
    <3> QED BY <2>2, PageKept DEF SamePage
  <2>4. {"plan", "loads", "cursor", "rows", "whole"} \subseteq DOMAIN s
    BY DEF PlanInv
  <2> HIDE DEF u, s
  <2>5. "project" \in DOMAIN page'
    BY <2>1, <2>3, PageKept DEF SamePage
  <2>6. PlanOf(store, store', NoProject)
    BY <2>1, <2>4, StoreKept DEF PlanOf
  <2> QED
    BY <2>5, <2>6, Enough
<1>8. CASE SwitchFails
  BY <1>8 DEF SwitchFails, PlanInv, PlanIsOurs
<1>9. CASE Reload
  <2> DEFINE p == IF server.session = NoProject THEN page.project ELSE server.session
             ok == page.token /\ network /\ server.session # NoProject
             u == [project |-> p, unlocked |-> ok, token |-> ok, socket |-> "none",
                   label |-> "connecting", retry |-> 0, timer |-> FALSE,
                   polling |-> FALSE, switching |-> NoProject, step |-> "no",
                   starting |-> {}]
  <2>1. page' = Connected(u)
        /\ store' = [cursor |-> [q \in Project |-> 0], rows |-> {}, plan |-> NoProject,
                     loads |-> {}, whole |-> TRUE]
    BY <1>9 DEF Reload, Admitted
  <2>2. "project" \in DOMAIN u
    OBVIOUS
  <2> HIDE DEF u
  <2>3. "project" \in DOMAIN page'
    BY <2>1, <2>2, PageKept DEF SamePage
  <2>4. PlanOf(store, store', NoProject)
    BY <2>1 DEF PlanOf
  <2> QED
    BY <2>3, <2>4, Enough
<1> QED
  BY <1>1, <1>2, <1>3, <1>4, <1>5, <1>6, <1>7, <1>8, <1>9 DEF Act

-----------------------------------------------------------------------------
(* The page never shows the plan of another project than the one it shows: *)
(* answers that come late, after a switch, a launch or a reload, are       *)
(* dropped (plan.load, switchProject, ChatPage).                           *)
THEOREM ThePlanIsOurs == ASSUME ~AnyProject PROVE ChannelSafety => []PlanIsOurs
<1>1. ChannelInit => PlanInv
  BY DEF ChannelInit, PlanInv, PlanIsOurs
<1>2. PlanInv /\ [ChannelNext]_channelVars => PlanInv'
  <2> SUFFICES ASSUME PlanInv, [ChannelNext]_channelVars PROVE PlanInv'
    OBVIOUS
  <2>1. ASSUME NEW p \in Project, NEW k \in Kind, Happen(p, k) PROVE PlanInv'
    BY <2>1 DEF Happen, PlanInv, PlanIsOurs
  <2>2. CASE UNCHANGED channelVars
    BY <2>2 DEF channelVars, PlanInv, PlanIsOurs
  <2> QED
    BY <2>1, <2>2, ServeStep, LinkStep, ReceiveStep, ActStep DEF ChannelNext
<1>3. PlanInv => PlanIsOurs
  BY DEF PlanInv
<1> QED
  BY <1>1, <1>2, <1>3, PTL DEF ChannelSafety

-----------------------------------------------------------------------------
(* The types, sharpened to what the log holds by now.                      *)

Entry == [project : Project, kind : Kind \cup {"chat"}]
Upto(l) == 0..Len(l)

PageOK(u) ==
  /\ u \in Page
  /\ u.step # "no" => u.switching \in Project
  /\ u.socket # "none" => u.unlocked
StoreOK(s, l) ==
  s \in [cursor : [Project -> Upto(l)], rows : SUBSET (1..Len(l)), plan : Maybe,
         loads : SUBSET Project, whole : BOOLEAN]
FetchOK(f, l) == f \in [project : Project, since : Upto(l), sent : Upto(l), old : BOOLEAN]
Messages(l) == {m \in [kind : Kind \cup {"chat", "switched", "launched"},
                       project : Project, seq : Upto(l)] :
                  m.kind # "switched" => m.seq # 0}
ServerOK(v, l) == v \in [session : Maybe, bound : Maybe, pump : -1..Len(l)]

LogOK == log \in Seq(Entry) /\ Len(log) <= MaxLog

ChannelInv ==
  /\ LogOK /\ ServerOK(server, log) /\ PageOK(page) /\ StoreOK(store, log)
  /\ \A f \in fetches : FetchOK(f, log)
  /\ wire \in Seq(Messages(log)) /\ network \in BOOLEAN

(* What the operators on pages keep.                                       *)
LEMMA PageTyped ==
  ASSUME NEW u, PageOK(u)
  PROVE  PageOK(Connected(u)) /\ PageOK(Closed(u)) /\ PageOK(TornDown(u))
<1>1. PageOK(Connected(u))
  BY DEF PageOK, Connected, Page
<1>2. PageOK(Closed(u))
  <2> DEFINE r == IF u.retry + 1 >= PollAfter THEN PollAfter ELSE u.retry + 1
             l == IF u.retry + 1 >= PollAfter /\ ~u.polling THEN "polling" ELSE "reconnecting"
             b == u.polling \/ u.retry + 1 >= PollAfter
  <2>1. r \in 0..PollAfter
    BY ChannelAssumption DEF PageOK, Page
  <2>2. l \in {"polling", "reconnecting"} /\ b \in BOOLEAN
    OBVIOUS
  <2>3. Closed(u) = [u EXCEPT !.socket = "none", !.timer = TRUE, !.retry = r,
                              !.polling = b, !.label = l]
    BY DEF Closed, PageOK, Page
  <2> HIDE DEF r, l, b
  <2> QED
    BY <2>1, <2>2, <2>3 DEF PageOK, Page
<1>3. PageOK(TornDown(u))
  BY DEF PageOK, TornDown, Page
<1> QED
  BY <1>1, <1>2, <1>3

LEMMA DisconnectedTyped ==
  ASSUME NEW u \in Page, u.step # "no" => u.switching \in Project
  PROVE  PageOK(Disconnected(u))
<1>1. 0 \in 0..PollAfter
  BY ChannelAssumption
<1> QED
  BY <1>1 DEF PageOK, Disconnected, Page

LEMMA OpenedTyped ==
  ASSUME NEW u, PageOK(u), u.socket # "none"
  PROVE  PageOK(Opened(u))
<1>1. 0 \in 0..PollAfter
  BY ChannelAssumption
<1> QED
  BY <1>1 DEF PageOK, Opened, Page

(***************************************************************************)
(* The largest of some numbers: what Dispatched chooses exists.            *)
(***************************************************************************)
LEMMA NatLess ==
  \E R : IsWellFoundedOn(R, Nat) /\ \A x, y \in Nat : x < y => <<x, y>> \in R
<1>1. \A x, y \in Nat : x < y => <<x, y>> \in OpToRel(<, Nat)
  BY DEF OpToRel
<1> QED
  BY <1>1, NatLessThanWellFounded

LEMMA Minimal ==
  ASSUME NEW R, NEW T \in SUBSET Nat, T # {}, IsWellFoundedOn(R, Nat)
  PROVE  \E m \in T : \A n \in T : ~(<<n, m>> \in R)
BY WFMin

LEMMA Least ==
  ASSUME NEW T \in SUBSET Nat, T # {}
  PROVE  \E m \in T : \A n \in T : m <= n
<1>1. \E R : IsWellFoundedOn(R, Nat) /\ \A x, y \in Nat : x < y => <<x, y>> \in R
  BY NatLess
<1>2. ASSUME NEW R, IsWellFoundedOn(R, Nat), \A x, y \in Nat : x < y => <<x, y>> \in R
      PROVE  \E m \in T : \A n \in T : m <= n
  <2>1. \E m \in T : \A n \in T : ~(<<n, m>> \in R)
    BY <1>2, Minimal
  <2>2. PICK m \in T : \A n \in T : ~(<<n, m>> \in R)
    BY <2>1
  <2>3. ASSUME NEW n \in T PROVE ~(n < m)
    <3>1. n \in Nat /\ m \in Nat
      OBVIOUS
    <3> QED
      BY <1>2, <2>2, <3>1
  <2>4. ASSUME NEW n \in T PROVE m <= n
    <3>1. n \in Nat /\ m \in Nat /\ ~(n < m)
      BY <2>3
    <3> QED
      BY <3>1
  <2> QED
    BY <2>4
<1> QED
  BY <1>1, <1>2

LEMMA Largest ==
  ASSUME NEW N \in Nat, NEW T \in SUBSET (0..N), T # {}
  PROVE  \E m \in T : \A n \in T : n <= m
<1> DEFINE U == {u \in 0..N : N - u \in T}
<1>1. PICK u \in U : \A n \in U : u <= n
  <2>1. U # {}
    <3>1. PICK t \in T : TRUE
      OBVIOUS
    <3>2. N - t \in 0..N /\ N - (N - t) = t
      OBVIOUS
    <3> QED
      BY <3>1, <3>2
  <2>2. U \in SUBSET Nat
    OBVIOUS
  <2> QED
    BY <2>1, <2>2, Least
<1>2. N - u \in T
  BY <1>1
<1>3. ASSUME NEW n \in T PROVE n <= N - u
  <2>1. N - n \in U
    OBVIOUS
  <2>2. u <= N - n
    BY <1>1, <2>1
  <2>3. n \in 0..N /\ u \in 0..N
    BY <1>1
  <2> QED
    BY <2>2, <2>3
<1> QED
  BY <1>2, <1>3

(* The rows are added and each cursor stays or goes to a row of its own    *)
(* project.                                                                *)
LEMMA DispatchedRows ==
  ASSUME LogOK, NEW s, StoreOK(s, log), NEW rows \in SUBSET (1..Len(log))
  PROVE  LET d == Dispatched(s, rows)
         IN /\ StoreOK(d, log)
            /\ d.rows = s.rows \cup rows /\ d.whole = s.whole /\ d.plan = s.plan
            /\ \A p \in Project : \/ d.cursor[p] = s.cursor[p]
                                  \/ d.cursor[p] \in rows /\ log[d.cursor[p]].project = p
<1> DEFINE mine(p) == {i \in rows : log[i].project = p} \cup {s.cursor[p]}
           top(p) == CHOOSE i \in mine(p) : \A j \in mine(p) : j <= i
           d == Dispatched(s, rows)
<1>1. ASSUME NEW p \in Project PROVE top(p) \in mine(p)
  <2>1. Len(log) \in Nat
    BY DEF LogOK
  <2>2. s.cursor[p] \in 0..Len(log) /\ rows \subseteq 0..Len(log)
    BY <2>1 DEF StoreOK, Upto
  <2>3. mine(p) \in SUBSET (0..Len(log)) /\ mine(p) # {}
    BY <2>2
  <2> HIDE DEF mine
  <2>4. \E i \in mine(p) : \A j \in mine(p) : j <= i
    BY <2>1, <2>3, Largest
  <2> QED
    BY <2>4
<1>2. d = [s EXCEPT !.rows = s.rows \cup rows, !.cursor = [p \in Project |-> top(p)]]
  BY DEF Dispatched, StoreOK
<1> HIDE DEF d, top
<1>3. ASSUME NEW p \in Project
      PROVE  /\ top(p) \in Upto(log)
             /\ top(p) = s.cursor[p] \/ (top(p) \in rows /\ log[top(p)].project = p)
  <2>1. Len(log) \in Nat
    BY DEF LogOK
  <2>2. s.cursor[p] \in 0..Len(log) /\ rows \subseteq 0..Len(log)
    BY <2>1 DEF StoreOK, Upto
  <2>3. (top(p) \in rows /\ log[top(p)].project = p) \/ top(p) = s.cursor[p]
    BY <1>1
  <2> QED
    BY <2>2, <2>3 DEF Upto
<1>4. [p \in Project |-> top(p)] \in [Project -> Upto(log)]
  BY <1>3
<1>5. StoreOK(d, log)
  BY <1>2, <1>4 DEF StoreOK
<1>6. d.rows = s.rows \cup rows /\ d.whole = s.whole /\ d.plan = s.plan
      /\ d.cursor = [p \in Project |-> top(p)]
  BY <1>2 DEF StoreOK
<1> QED
  BY <1>3, <1>5, <1>6 DEF d

LEMMA LoadingTyped ==
  ASSUME NEW s, NEW l, StoreOK(s, l), NEW p \in Project
  PROVE  /\ StoreOK(Loading(s, p), l)
         /\ Loading(s, p).rows = s.rows /\ Loading(s, p).cursor = s.cursor
         /\ Loading(s, p).whole = s.whole
BY DEF StoreOK, Loading, Maybe

(* A catch-up for the page as it is.                                       *)
LEMMA AskedTyped ==
  ASSUME ChannelInv
  PROVE  FetchOK(AskedFor(page.project, store.cursor[page.project]), log)
<1>1. page.project \in Project /\ store.cursor[page.project] \in Upto(log)
  BY DEF ChannelInv, PageOK, Page, StoreOK
<1>2. Len(log) \in Upto(log)
  BY DEF ChannelInv, LogOK, Upto
<1> QED
  BY <1>1, <1>2 DEF FetchOK, AskedFor

(* One more event.                                                         *)
LEMMA Grown ==
  ASSUME ChannelInv, Len(log) < MaxLog, NEW e \in Entry, log' = Append(log, e)
  PROVE  /\ LogOK' /\ ServerOK(server, log') /\ StoreOK(store, log')
         /\ \A f \in fetches : FetchOK(f, log')
         /\ wire \in Seq(Messages(log')) /\ Len(log') = Len(log) + 1
         /\ \A j \in 1..Len(log) : log'[j] = log[j]
<1>1. /\ LogOK' /\ Len(log') = Len(log) + 1 /\ Len(log) \in Nat
      /\ \A j \in 1..Len(log) : log'[j] = log[j]
  BY ChannelAssumption DEF ChannelInv, LogOK
<1>2. Upto(log) \subseteq Upto(log') /\ 1..Len(log) \subseteq 1..Len(log')
      /\ -1..Len(log) \subseteq -1..Len(log')
  BY <1>1 DEF Upto
<1>3. ServerOK(server, log')
  BY <1>2 DEF ChannelInv, ServerOK
<1>4. StoreOK(store, log')
  <2>1. store.cursor \in [Project -> Upto(log')]
    BY <1>2 DEF ChannelInv, StoreOK
  <2> QED
    BY <1>2, <2>1 DEF ChannelInv, StoreOK
<1>5. \A f \in fetches : FetchOK(f, log')
  BY <1>2 DEF ChannelInv, FetchOK
<1>6. wire \in Seq(Messages(log'))
  <2>1. Messages(log) \subseteq Messages(log')
    BY <1>2 DEF Messages
  <2> QED
    BY <2>1 DEF ChannelInv
<1> QED
  BY <1>1, <1>3, <1>4, <1>5, <1>6

LEMMA HappenTyped ==
  ASSUME ChannelInv, NEW p \in Project, NEW k \in Kind, Happen(p, k)
  PROVE  ChannelInv'
<1>1. [project |-> p, kind |-> k] \in Entry
  BY DEF Entry
<1> QED
  BY <1>1, Grown DEF Happen, ChannelInv

(* What is sent is the event that happened.                                *)
LEMMA PumpTyped == ASSUME ChannelInv, Pump PROVE ChannelInv'
<1> DEFINE i == server.pump + 1
           m == [kind |-> log[i].kind, project |-> log[i].project, seq |-> i]
<1>1. i \in 1..Len(log) /\ i \in -1..Len(log) /\ i \in Upto(log) /\ i # 0
  BY DEF Pump, ChannelInv, ServerOK, LogOK, Upto
<1>2. log[i] \in Entry
  BY <1>1 DEF ChannelInv, LogOK
<1>3. m \in Messages(log)
  BY <1>1, <1>2 DEF Messages, Entry
<1>4. wire' = Broadcast(server.bound, m) /\ server' = [server EXCEPT !.pump = i]
  BY DEF Pump
<1> HIDE DEF i, m
<1>5. wire' \in Seq(Messages(log))
  BY <1>3, <1>4 DEF Broadcast, ChannelInv
<1>6. ServerOK(server', log)
  BY <1>1, <1>4 DEF ServerOK, ChannelInv
<1> QED
  BY <1>5, <1>6 DEF Pump, ChannelInv, LogOK

LEMMA ServeTyped == ASSUME ChannelInv, Serve PROVE ChannelInv'
<1> USE DEF LogOK
<1>0. <<>> \in Seq(Messages(log)) /\ Len(log) \in -1..Len(log) /\ -1 \in -1..Len(log)
  BY DEF ChannelInv
<1>1. CASE Accept
  <2>1. server' = [server EXCEPT !.bound = server.session,
                                 !.pump = IF server.pump >= 0 THEN server.pump ELSE Len(log)]
    BY <1>1 DEF Accept, ChannelInv, ServerOK
  <2>2. ServerOK(server', log)
    BY <1>0, <2>1 DEF ServerOK, ChannelInv
  <2>3. PageOK(page')
    BY <1>1 DEF Accept, ChannelInv, PageOK, Page
  <2> QED
    BY <1>0, <1>1, <2>2, <2>3 DEF Accept, ChannelInv
<1>2. CASE Restart
  <2>1. ServerOK(server', log)
    BY <1>0, <1>2 DEF Restart, ServerOK, Maybe
  <2> QED
    BY <1>0, <1>2, <2>1, PageTyped DEF Restart, ChannelInv
<1>3. CASE ServeSwitch
  <2> DEFINE b == IF server.bound = NoProject THEN NoProject ELSE page.switching
             m == [kind |-> "switched", project |-> page.switching, seq |-> 0]
  <2>1. page.switching \in Project /\ 0 \in Upto(log)
    BY <1>3 DEF ServeSwitch, ChannelInv, PageOK, Upto
  <2>2. m \in Messages(log)
    BY <2>1 DEF Messages
  <2>3. wire' = Broadcast(b, m) /\ server' = [server EXCEPT !.session = page.switching, !.bound = b]
    BY <1>3 DEF ServeSwitch
  <2>4. b \in Maybe
    BY <2>1 DEF Maybe
  <2>5. PageOK(page')
    BY <1>3, <2>1 DEF ServeSwitch, ChannelInv, PageOK, Page
  <2> HIDE DEF b, m
  <2>6. wire' \in Seq(Messages(log))
    BY <2>2, <2>3 DEF Broadcast, ChannelInv
  <2>7. ServerOK(server', log)
    BY <2>1, <2>3, <2>4 DEF ServerOK, ChannelInv, Maybe
  <2> QED
    BY <1>3, <2>5, <2>6, <2>7 DEF ServeSwitch, ChannelInv
<1> QED
  BY <1>1, <1>2, <1>3, PumpTyped DEF Serve

LEMMA LinkTyped == ASSUME ChannelInv, Link PROVE ChannelInv'
<1> USE DEF LogOK
<1>0. /\ <<>> \in Seq(Messages(log))
      /\ ServerOK([server EXCEPT !.bound = NoProject], log)
  BY DEF ChannelInv, ServerOK, Maybe
<1>1. CASE Open
  <2>1. PageOK(page')
    BY <1>1, OpenedTyped DEF Open, ChannelInv
  <2>2. \A f \in fetches' : FetchOK(f, log)
    BY <1>1, AskedTyped DEF Open, CatchUp, ChannelInv
  <2> QED
    BY <1>1, <2>1, <2>2 DEF Open, ChannelInv
<1>2. CASE Refused
  BY <1>2, PageTyped DEF Refused, ChannelInv
<1>3. CASE Drop
  BY <1>0, <1>3, PageTyped DEF Drop, ChannelInv
<1>4. CASE Reconnect
  <2>1. PageOK([page EXCEPT !.timer = FALSE])
    BY DEF ChannelInv, PageOK, Page
  <2> QED
    BY <1>4, <2>1, PageTyped DEF Reconnect, ChannelInv
<1>5. CASE Offline
  BY <1>0, <1>5, PageTyped DEF Offline, ChannelInv
<1>6. CASE Online
  <2>1. 0 \in 0..PollAfter
    BY ChannelAssumption
  <2>2. PageOK([page EXCEPT !.retry = 0])
    BY <2>1 DEF ChannelInv, PageOK, Page
  <2> QED
    BY <1>6, <2>2, PageTyped DEF Online, ChannelInv
<1> QED
  BY <1>1, <1>2, <1>3, <1>4, <1>5, <1>6 DEF Link

LEMMA ReceivedTyped ==
  ASSUME ChannelInv, NEW m \in Messages(log), Received(m)
  PROVE  PageOK(page') /\ StoreOK(store', log)
<1> USE DEF LogOK
<1>1. m.project \in Project /\ m.seq \in Upto(log)
  BY DEF Messages
<1>2. m.kind # "switched" => m.seq \in 1..Len(log)
  BY DEF Messages, Upto, ChannelInv
<1>3. PageOK(page) /\ StoreOK(store, log) /\ page.project \in Project
  BY DEF ChannelInv, PageOK, Page
<1>4. CASE m.kind = "launched"
  <2> DEFINE s == [store EXCEPT !.rows = store.rows \cup {m.seq}, !.whole = FALSE]
  <2>1. StoreOK(s, log)
    BY <1>2, <1>3, <1>4 DEF StoreOK
  <2>2. page' = [page EXCEPT !.project = m.project, !.unlocked = TRUE]
        /\ store' = Loading(s, m.project)
    BY <1>4 DEF Received
  <2> HIDE DEF s
  <2>3. StoreOK(store', log)
    BY <1>1, <2>1, <2>2, LoadingTyped
  <2>4. PageOK(page')
    BY <1>1, <1>3, <2>2 DEF PageOK, Page
  <2> QED
    BY <2>3, <2>4
<1>5. CASE m.kind # "launched" /\ (m.project # page.project \/ m.kind = "launch")
  BY <1>3, <1>5 DEF Received
<1>6. CASE m.kind = "switched" /\ m.project = page.project
  <2> DEFINE s == [store EXCEPT !.cursor[page.project] = 0]
  <2>1. 0 \in Upto(log)
    BY DEF ChannelInv, Upto
  <2>2. StoreOK(s, log)
    BY <1>3, <2>1 DEF StoreOK
  <2>3. page' = page /\ store' = Loading(s, page.project)
    BY <1>6 DEF Received
  <2> HIDE DEF s
  <2> QED
    BY <1>3, <2>2, <2>3, LoadingTyped
<1>7. CASE m.kind = "task" /\ m.project = page.project
  <2>1. page' = page /\ store' = Dispatched(store, {m.seq})
    BY <1>7 DEF Received
  <2>2. {m.seq} \in SUBSET (1..Len(log))
    BY <1>2, <1>7
  <2> QED
    BY <1>3, <2>1, <2>2, DispatchedRows DEF ChannelInv
<1>8. CASE m.kind = "chat" /\ m.project = page.project
  <2>1. page' = page /\ store' = [store EXCEPT !.rows = store.rows \cup {m.seq}]
    BY <1>3, <1>8 DEF Received, StoreOK
  <2> QED
    BY <1>2, <1>3, <1>8, <2>1 DEF StoreOK
<1> QED
  BY <1>4, <1>5, <1>6, <1>7, <1>8 DEF Received

(* What a catch-up brings.                                                 *)
ReplyRows(f, rows) ==
  /\ \E upto \in f.sent..Len(log) : rows = Events(f, upto)
  /\ store' = LET s == [Dispatched(store, rows) EXCEPT !.whole = @ /\ (rows = {} \/ ~f.old)]
              IN IF rows = {} THEN s ELSE Loading(s, page.project)
LEMMA ReplyFacts ==
  ASSUME ChannelInv, NEW f \in fetches, NEW rows, ReplyRows(f, rows)
  PROVE  /\ StoreOK(store', log) /\ rows \in SUBSET (1..Len(log))
         /\ store'.rows = store.rows \cup rows
         /\ store'.whole = (store.whole /\ (rows = {} \/ ~f.old))
         /\ \A p \in Project : \/ store'.cursor[p] = store.cursor[p]
                               \/ store'.cursor[p] \in rows /\ log[store'.cursor[p]].project = p
<1> DEFINE d == Dispatched(store, rows)
           w == store.whole /\ (rows = {} \/ ~f.old)
           s == [d EXCEPT !.whole = w]
<1>1. LogOK /\ Len(log) \in Nat /\ StoreOK(store, log) /\ page.project \in Project
  BY DEF ChannelInv, LogOK, PageOK, Page
<1>2. rows \in SUBSET (1..Len(log))
  <2>1. f.since \in Nat /\ f.sent \in Nat
    BY <1>1 DEF ChannelInv, FetchOK, Upto
  <2> QED
    BY <1>1, <2>1 DEF ReplyRows, Events, EventsOf
<1>3. /\ StoreOK(d, log) /\ d.rows = store.rows \cup rows /\ d.whole = store.whole
      /\ \A p \in Project : \/ d.cursor[p] = store.cursor[p]
                            \/ d.cursor[p] \in rows /\ log[d.cursor[p]].project = p
  <2> HIDE DEF w, s
  <2>1. /\ StoreOK(Dispatched(store, rows), log)
        /\ Dispatched(store, rows).rows = store.rows \cup rows
        /\ Dispatched(store, rows).whole = store.whole
        /\ \A p \in Project :
             \/ Dispatched(store, rows).cursor[p] = store.cursor[p]
             \/ /\ Dispatched(store, rows).cursor[p] \in rows
                /\ log[Dispatched(store, rows).cursor[p]].project = p
    BY <1>1, <1>2, DispatchedRows, ZenonT(40)
  <2> QED
    BY <2>1
<1>4. store' = IF rows = {} THEN s ELSE Loading(s, page.project)
  BY <1>3 DEF ReplyRows, StoreOK
<1>5. w \in BOOLEAN
  OBVIOUS
<1> HIDE DEF d, w
<1>6. StoreOK(s, log) /\ s.rows = d.rows /\ s.cursor = d.cursor /\ s.whole = w
  BY <1>3, <1>5 DEF StoreOK
<1> HIDE DEF s
<1>7. /\ StoreOK(store', log) /\ store'.rows = d.rows /\ store'.cursor = d.cursor
      /\ store'.whole = w
  BY <1>1, <1>4, <1>6, LoadingTyped
<1> QED
  BY <1>2, <1>3, <1>7 DEF w

LEMMA ReceiveTyped == ASSUME ChannelInv, Receive PROVE ChannelInv'
<1> USE DEF LogOK
<1>1. CASE Deliver
  <2>1. wire # <<>> /\ wire \in Seq(Messages(log))
    BY <1>1 DEF Deliver, ChannelInv
  <2>2. Head(wire) \in Messages(log) /\ Tail(wire) \in Seq(Messages(log))
    BY <2>1
  <2>3. PageOK(page') /\ StoreOK(store', log)
    BY <1>1, <2>2, ReceivedTyped DEF Deliver
  <2> QED
    BY <1>1, <2>2, <2>3 DEF Deliver, ChannelInv
<1>2. CASE Poll
  <2>1. \A f \in fetches' : FetchOK(f, log)
    BY <1>2, AskedTyped DEF Poll, CatchUp, ChannelInv
  <2> QED
    BY <1>2, <2>1 DEF Poll, ChannelInv
<1>3. ASSUME NEW f \in fetches, FetchReply(f) PROVE ChannelInv'
  <2>1. \E rows : ReplyRows(f, rows)
    BY <1>3 DEF FetchReply, ReplyRows
  <2>2. StoreOK(store', log)
    BY <2>1, ReplyFacts
  <2> QED
    BY <1>3, <2>2 DEF FetchReply, ChannelInv
<1>4. ASSUME NEW f \in fetches, FetchFails(f) PROVE ChannelInv'
  <2>1. StoreOK(store', log)
    <3>1. (store.whole /\ f.old) \in BOOLEAN /\ StoreOK(store, log)
      BY DEF ChannelInv
    <3>2. store' = [store EXCEPT !.whole = store.whole /\ f.old]
      BY <1>4, <3>1 DEF FetchFails, StoreOK
    <3> QED
      BY <3>1, <3>2 DEF StoreOK
  <2> QED
    BY <1>4, <2>1 DEF FetchFails, ChannelInv
<1>5. ASSUME NEW p \in Project, PlanReply(p) PROVE ChannelInv'
  <2>1. StoreOK(store', log)
    <3> DEFINE q == IF page.project # p THEN store.plan ELSE p
    <3>1. store' = [store EXCEPT !.loads = store.loads \ {p}, !.plan = q] /\ StoreOK(store, log)
      BY <1>5 DEF PlanReply, ChannelInv, StoreOK
    <3>2. q \in Maybe
      BY <3>1 DEF StoreOK, Maybe
    <3> HIDE DEF q
    <3> QED
      BY <3>1, <3>2 DEF StoreOK
  <2> QED
    BY <1>5, <2>1 DEF PlanReply, ChannelInv
<1> QED
  BY <1>1, <1>2, <1>3, <1>4, <1>5 DEF Receive

(* A page that is loaded anew, before it connects.                         *)
Fresh(p, ok) ==
  [project |-> p, unlocked |-> ok, token |-> ok, socket |-> "none", label |-> "connecting",
   retry |-> 0, timer |-> FALSE, polling |-> FALSE, switching |-> NoProject, step |-> "no",
   starting |-> {}]
LEMMA FreshTyped ==
  ASSUME NEW p \in Project, NEW ok \in BOOLEAN
  PROVE  PageOK(Fresh(p, ok))
<1>1. 0 \in 0..PollAfter
  BY ChannelAssumption
<1> QED
  BY <1>1 DEF Fresh, PageOK, Page, Maybe

Empty == [cursor |-> [p \in Project |-> 0], rows |-> {}, plan |-> NoProject,
          loads |-> {}, whole |-> TRUE]
LEMMA EmptyTyped ==
  ASSUME ChannelInv
  PROVE  StoreOK(Empty, log)
<1>1. 0 \in Upto(log)
  BY DEF ChannelInv, LogOK, Upto
<1> QED
  BY <1>1 DEF Empty, StoreOK, Maybe

(* The session ends, or the connection does.                               *)
LEMMA ServerTyped ==
  ASSUME ChannelInv
  PROVE  /\ ServerOK([server EXCEPT !.bound = NoProject], log)
         /\ ServerOK([server EXCEPT !.session = NoProject, !.bound = NoProject], log)
         /\ \A p \in Project :
              ServerOK([server EXCEPT !.session = p, !.bound = NoProject], log)
BY DEF ChannelInv, ServerOK, Maybe

LEMMA LaunchTyped ==
  ASSUME ChannelInv, NEW p \in Project, Launch(p)
  PROVE  ChannelInv'
<1> DEFINE e == [project |-> p, kind |-> "chat"]
           m == [kind |-> "launched", project |-> p, seq |-> Len(log) + 1]
<1>1. e \in Entry
  BY DEF Entry
<1>2. Len(log) < MaxLog /\ log' = Append(log, e) /\ wire' = Append(wire, m)
  BY DEF Launch
<1> HIDE DEF e
<1>3. /\ LogOK' /\ ServerOK(server, log') /\ StoreOK(store, log')
      /\ \A f \in fetches : FetchOK(f, log')
      /\ wire \in Seq(Messages(log')) /\ Len(log') = Len(log) + 1
  BY <1>1, <1>2, Grown
<1>4. m \in Messages(log')
  BY <1>3 DEF Messages, Upto, ChannelInv, LogOK
<1> HIDE DEF m
<1>5. wire' \in Seq(Messages(log'))
  BY <1>2, <1>3, <1>4
<1> QED
  BY <1>3, <1>5 DEF Launch, ChannelInv

LEMMA ActTyped == ASSUME ChannelInv, Act PROVE ChannelInv'
<1> USE DEF LogOK
<1>0. <<>> \in Seq(Messages(log)) /\ PageOK(page) /\ StoreOK(store, log) /\ page \in Page
  BY DEF ChannelInv, PageOK
<1>1. ASSUME NEW p \in Project, Unlock(p) PROVE ChannelInv'
  <2> DEFINE u == [page EXCEPT !.project = p, !.unlocked = TRUE, !.token = TRUE]
  <2>1. PageOK(u)
    BY <1>0 DEF PageOK, Page
  <2> QED
    BY <1>0, <1>1, <2>1, PageTyped, ServerTyped DEF Unlock, CreateSession, ChannelInv
<1>2. ASSUME NEW p \in Project, AskSwitch(p) PROVE ChannelInv'
  <2>1. PageOK(page')
    BY <1>0, <1>2 DEF AskSwitch, PageOK, Page, Maybe
  <2> QED
    BY <1>2, <2>1 DEF AskSwitch, ChannelInv
<1>3. ASSUME NEW p \in Project, SwitchEnds(p) PROVE ChannelInv'
  <2>1. PageOK([page EXCEPT !.starting = page.starting \ {p}])
    BY <1>0 DEF PageOK, Page
  <2>2. page' = Connected([page EXCEPT !.starting = page.starting \ {p}])
    BY <1>0, <1>3 DEF SwitchEnds, Page
  <2> QED
    BY <1>3, <2>1, <2>2, PageTyped DEF SwitchEnds, ChannelInv
<1>4. CASE Lock
  <2> DEFINE u == [page EXCEPT !.unlocked = FALSE, !.token = FALSE]
  <2>1. u \in Page /\ (u.step # "no" => u.switching \in Project)
    BY <1>0 DEF PageOK, Page
  <2> QED
    BY <1>0, <1>4, <2>1, DisconnectedTyped, ServerTyped DEF Lock, DestroySession, ChannelInv
<1>5. CASE Expire
  <2> DEFINE u == [page EXCEPT !.unlocked = FALSE]
  <2>1. u \in Page /\ (u.step # "no" => u.switching \in Project)
    BY <1>0 DEF PageOK, Page
  <2> QED
    BY <1>0, <1>5, <2>1, DisconnectedTyped, ServerTyped DEF Expire, DestroySession, ChannelInv
<1>6. CASE Switched
  <2> DEFINE p == page.switching
             v == [page EXCEPT !.project = p, !.unlocked = TRUE, !.step = "no",
                               !.switching = NoProject, !.starting = page.starting \cup {p}]
             s == [store EXCEPT !.cursor[p] = 0, !.rows = {}, !.whole = TRUE]
  <2>1. p \in Project
    BY <1>0, <1>6 DEF Switched, PageOK
  <2>2. v \in Page /\ v.step = "no"
    BY <1>0, <2>1 DEF Page, Maybe
  <2>3. PageOK(Disconnected(v))
    BY <2>2, DisconnectedTyped
  <2>4. page' = IF page.unlocked THEN Disconnected(v) ELSE Connected(Disconnected(v))
    BY <1>0, <1>6 DEF Switched, Page
  <2>5. PageOK(page')
    BY <2>3, <2>4, PageTyped
  <2>6. StoreOK(s, log)
    <3>1. 0 \in Upto(log)
      BY DEF ChannelInv, Upto
    <3> QED
      BY <1>0, <2>1, <3>1 DEF StoreOK
  <2>7. store' = Loading(s, p)
    BY <1>6 DEF Switched
  <2> HIDE DEF s
  <2>8. StoreOK(store', log)
    BY <2>1, <2>6, <2>7, LoadingTyped
  <2>9. \A f \in fetches' : FetchOK(f, log)
    BY <1>6 DEF Switched, ChannelInv, FetchOK
  <2> QED
    BY <1>0, <1>6, <2>5, <2>8, <2>9, ServerTyped DEF Switched, ChannelInv
<1>7. CASE SwitchFails
  <2>1. PageOK(page')
    BY <1>0, <1>7 DEF SwitchFails, PageOK, Page, Maybe
  <2> QED
    BY <1>7, <2>1 DEF SwitchFails, ChannelInv
<1>8. CASE Reload
  <2> DEFINE p == IF server.session = NoProject THEN page.project ELSE server.session
             ok == page.token /\ Admitted
  <2>1. p \in Project /\ ok \in BOOLEAN
    BY DEF ChannelInv, ServerOK, PageOK, Page, Maybe
  <2>2. page' = Connected(Fresh(p, ok)) /\ store' = Empty
    BY <1>8 DEF Reload, Fresh, Empty
  <2> HIDE DEF p, ok
  <2>3. PageOK(page') /\ StoreOK(store', log)
    BY <2>1, <2>2, FreshTyped, EmptyTyped, PageTyped
  <2> QED
    BY <1>0, <1>8, <2>3, ServerTyped DEF Reload, ChannelInv
<1> QED
  BY <1>1, <1>2, <1>3, <1>4, <1>5, <1>6, <1>7, <1>8, LaunchTyped DEF Act

LEMMA InitTyped == ASSUME ChannelInit PROVE ChannelInv
<1>1. PICK p \in Home : page = Fresh(p, FALSE)
  BY DEF ChannelInit, Fresh
<1>2. p \in Project
  BY ChannelAssumption
<1>3. LogOK /\ wire \in Seq(Messages(log)) /\ 0 \in Upto(log) /\ -1 \in -1..Len(log)
  BY ChannelAssumption DEF ChannelInit, LogOK, Upto
<1>4. PageOK(page)
  BY <1>1, <1>2, FreshTyped
<1>5. ServerOK(server, log)
  BY <1>3 DEF ChannelInit, ServerOK, Maybe
<1>6. StoreOK(store, log)
  BY <1>3 DEF ChannelInit, StoreOK, Maybe
<1> QED
  BY <1>3, <1>4, <1>5, <1>6 DEF ChannelInit, ChannelInv

LEMMA NextTyped == ChannelInv /\ [ChannelNext]_channelVars => ChannelInv'
<1> SUFFICES ASSUME ChannelInv, [ChannelNext]_channelVars PROVE ChannelInv'
  OBVIOUS
<1>1. CASE UNCHANGED channelVars
  BY <1>1 DEF channelVars, ChannelInv, LogOK
<1> QED
  BY <1>1, HappenTyped, ServeTyped, LinkTyped, ReceiveTyped, ActTyped DEF ChannelNext

(* Sessions, pages, stores and catch-ups keep their types through lost     *)
(* connections, restarts and reloads; no cursor passes the bound on the log.*)
THEOREM ChannelTypes == ChannelSafety => []ChannelTypeOK
<1>1. ChannelInv => ChannelTypeOK
  <2> SUFFICES ASSUME ChannelInv PROVE ChannelTypeOK
    OBVIOUS
  <2>1. Len(log) \in 0..MaxLog /\ log \in [1..Len(log) -> Entry]
    BY ChannelAssumption DEF ChannelInv, LogOK
  <2>2. log \in BoundedSeq([project : Project, kind : Kind \cup {"chat"}], MaxLog)
    BY <2>1 DEF BoundedSeq, SeqOf, Entry
  <2>3. /\ Upto(log) \subseteq 0..MaxLog /\ 1..Len(log) \subseteq Seq1
        /\ -1..Len(log) \subseteq -1..MaxLog
    BY <2>1, ChannelAssumption DEF Upto, Seq1
  <2>4. server \in Server
    BY <2>3 DEF ChannelInv, ServerOK, Server
  <2>5. store \in Store
    <3>1. store.cursor \in [Project -> 0..MaxLog]
      BY <2>3 DEF ChannelInv, StoreOK
    <3> QED
      BY <2>3, <3>1 DEF ChannelInv, StoreOK, Store
  <2>6. fetches \subseteq Fetch
    BY <2>3 DEF ChannelInv, FetchOK, Fetch
  <2> QED
    BY <2>2, <2>4, <2>5, <2>6 DEF ChannelTypeOK, ChannelInv, PageOK
<1> QED
  BY <1>1, InitTyped, NextTyped, PTL DEF ChannelSafety

-----------------------------------------------------------------------------
(* No hole behind the cursor.                                              *)

(* An event the page ought to show, and one that it does or is asking for. *)
Ours(j) == j \in DOMAIN log /\ log[j].project = page.project /\ Shown(j)
Spans(f, j) == ~f.old /\ f.project = page.project /\ f.since < j /\ j <= f.sent
Have(j) == j \in store.rows \/ \E f \in fetches : Spans(f, j)
Behind(n) == \A j \in 1..n : Ours(j) => Have(j)

(* An event on its way, among the first n messages.                        *)
Carries(m, j) == m.kind \in {"task", "chat"} /\ m.project = page.project /\ m.seq = j
Queued(j, n) == \E l \in 1..n : Carries(wire[l], j)

(* A catch-up may rely on what is behind its start, whatever becomes of    *)
(* the others.                                                             *)
StartsBehind == \A f \in fetches : ~f.old /\ f.project = page.project => Behind(f.since)

(* A switch asked for is one to another project.                           *)
AsksElsewhere == page.step = "asked" => page.switching # page.project

(* What moves the cursor comes after what was there before it, and the     *)
(* pump has sent what the page does not have.                              *)
InOrder ==
  \A k \in DOMAIN wire : wire[k].kind = "task" /\ wire[k].project = page.project =>
    \A j \in 1..wire[k].seq : j < wire[k].seq /\ Ours(j) => Have(j) \/ Queued(j, k - 1)
PumpKeepsUp ==
  server.bound = page.project =>
    \A j \in 1..server.pump : Ours(j) => Have(j) \/ Queued(j, Len(wire))

Rests == Behind(store.cursor[page.project]) /\ StartsBehind /\ AsksElsewhere
Flows == page.socket = "open" => InOrder /\ PumpKeepsUp
GapInv == store.whole => Rests /\ Flows

(* A step after which the page has what it had.                            *)
Keeps ==
  /\ page'.project = page.project
  /\ \A j \in 1..Len(log) : Ours(j)' => Ours(j)
  /\ \A j \in 1..Len(log) : Ours(j) /\ Have(j) => Have(j)'

LEMMA StillRests ==
  ASSUME ChannelInv, Rests, Keeps, AsksElsewhere',
         store'.cursor[page.project] \in Upto(log),
         Behind(store.cursor[page.project])',
         \A f \in fetches' : ~f.old /\ f.project = page.project =>
           f \in fetches \/ f.since = store.cursor[page.project]
  PROVE  Rests'
<1>1. Behind(store.cursor[page.project])'
  BY DEF Keeps
<1>2. ASSUME NEW n \in Upto(log), Behind(n) PROVE Behind(n)'
  <2>1. 1..n \subseteq 1..Len(log)
    BY DEF Upto, ChannelInv, LogOK
  <2> QED
    BY <1>2, <2>1 DEF Behind, Keeps
<1>3. ASSUME NEW f \in fetches', ~f.old /\ f.project = page.project
      PROVE  Behind(f.since)'
  <2>1. CASE f \in fetches
    <3>1. f.since \in Upto(log)
      BY <2>1 DEF ChannelInv, FetchOK
    <3>2. Behind(f.since)
      BY <1>3, <2>1 DEF Rests, StartsBehind
    <3> QED
      BY <1>2, <3>1, <3>2
  <2>2. CASE f.since = store.cursor[page.project]
    <3>1. f.since \in Upto(log)
      BY <2>2 DEF ChannelInv, StoreOK, PageOK, Page
    <3>2. Behind(f.since)
      BY <2>2 DEF Rests
    <3> QED
      BY <1>2, <3>1, <3>2
  <2> QED
    BY <1>3, <2>1, <2>2
<1>4. StartsBehind'
  BY <1>3 DEF StartsBehind, Keeps
<1> QED
  BY <1>1, <1>4 DEF Rests

(* Messages are added at the end, none of them one that moves the cursor.  *)
Follows ==
  /\ Len(wire) <= Len(wire')
  /\ \A k \in 1..Len(wire) : wire'[k] = wire[k]
  /\ \A k \in 1..Len(wire') : k > Len(wire) => wire'[k].kind # "task"

LEMMA StillFlows ==
  ASSUME ChannelInv, ChannelInv', Flows, Keeps,
         page'.socket = "open" =>
           /\ page.socket = "open" /\ Follows /\ server'.pump = server.pump
           /\ server'.bound = page.project => server.bound = page.project
  PROVE  Flows'
<1> SUFFICES ASSUME page'.socket = "open" PROVE InOrder' /\ PumpKeepsUp'
  BY DEF Flows
<1>1. InOrder /\ PumpKeepsUp /\ Follows /\ server'.pump = server.pump
      /\ (server'.bound = page.project => server.bound = page.project)
  BY DEF Flows
<1>2. Len(wire) \in Nat /\ Len(wire') \in Nat /\ Len(log) \in Nat
      /\ DOMAIN wire = 1..Len(wire) /\ DOMAIN wire' = 1..Len(wire')
  BY DEF ChannelInv, LogOK
<1>3. ASSUME NEW j, NEW n \in 0..Len(wire), Queued(j, n) PROVE Queued(j, n)'
  <2>1. \A l \in 1..n : wire'[l] = wire[l]
    BY <1>1, <1>2 DEF Follows
  <2> QED
    BY <1>3, <2>1 DEF Queued, Carries, Keeps
<1>4. ASSUME NEW j, Queued(j, Len(wire)) PROVE Queued(j, Len(wire))'
  <2>1. 1..Len(wire) \subseteq 1..Len(wire')
    BY <1>1, <1>2 DEF Follows
  <2>2. \E l \in 1..Len(wire) : Carries(wire[l], j)'
    BY <1>1, <1>4 DEF Queued, Carries, Keeps, Follows
  <2> QED
    BY <2>1, <2>2 DEF Queued
<1>5. InOrder'
  <2> SUFFICES ASSUME NEW k \in DOMAIN wire', wire'[k].kind = "task",
                      wire'[k].project = page'.project,
                      NEW j \in 1..wire'[k].seq, j < wire'[k].seq, Ours(j)'
               PROVE  Have(j)' \/ Queued(j, k - 1)'
    BY DEF InOrder
  <2>1. k \in 1..Len(wire) /\ wire'[k] = wire[k]
    BY <1>1, <1>2 DEF Follows
  <2>2. wire[k].seq \in Upto(log)
    BY <2>1, <1>2 DEF ChannelInv, Messages
  <2>3. j \in 1..Len(log)
    BY <1>2, <2>1, <2>2 DEF Upto
  <2>4. Have(j) \/ Queued(j, k - 1)
    BY <1>1, <1>2, <2>1, <2>3 DEF InOrder, Keeps
  <2>5. k - 1 \in 0..Len(wire)
    BY <2>1, <1>2
  <2> QED
    BY <1>3, <2>3, <2>4, <2>5 DEF Keeps
<1>6. PumpKeepsUp'
  <2> SUFFICES ASSUME server'.bound = page'.project, NEW j \in 1..server'.pump, Ours(j)'
               PROVE  Have(j)' \/ Queued(j, Len(wire))'
    BY DEF PumpKeepsUp
  <2>1. server.pump \in -1..Len(log) /\ server'.pump = server.pump
    BY <1>1 DEF ChannelInv, ServerOK
  <2>2. j \in 1..Len(log)
    BY <1>2, <2>1
  <2>3. Have(j) \/ Queued(j, Len(wire))
    BY <1>1, <2>1, <2>2 DEF PumpKeepsUp, Keeps
  <2> QED
    BY <1>4, <2>2, <2>3 DEF Keeps
<1> QED
  BY <1>5, <1>6

(***************************************************************************)
(* Steps that leave what the page has as it is.                            *)
(***************************************************************************)
(* What the operators on pages leave alone.                                *)
LEMMA PageStill ==
  ASSUME NEW u, PageOK(u)
  PROVE  /\ \A v \in {Connected(u), Closed(u), Opened(u), TornDown(u)} :
              v.project = u.project /\ v.step = u.step /\ v.switching = u.switching
         /\ Connected(u).socket = "open" => u.socket = "open"
         /\ Closed(u).socket = "none" /\ TornDown(u).socket = "none"
<1>1. u \in Page
  BY DEF PageOK
<1>2. Connected(u).project = u.project /\ Connected(u).step = u.step
      /\ Connected(u).switching = u.switching
      /\ (Connected(u).socket = "open" => u.socket = "open")
  BY <1>1 DEF Connected, Page
<1>3. Closed(u).project = u.project /\ Closed(u).step = u.step
      /\ Closed(u).switching = u.switching /\ Closed(u).socket = "none"
  BY <1>1 DEF Closed, Page
<1>4. Opened(u).project = u.project /\ Opened(u).step = u.step
      /\ Opened(u).switching = u.switching
  BY <1>1 DEF Opened, Page
<1>5. TornDown(u).project = u.project /\ TornDown(u).step = u.step
      /\ TornDown(u).switching = u.switching /\ TornDown(u).socket = "none"
  BY <1>1 DEF TornDown, Page
<1> QED
  BY <1>2, <1>3, <1>4, <1>5

LEMMA DisconnectedStill ==
  ASSUME NEW u \in Page
  PROVE  /\ Disconnected(u).project = u.project /\ Disconnected(u).step = u.step
         /\ Disconnected(u).switching = u.switching /\ Disconnected(u).socket = "none"
BY DEF Disconnected, Page

(* Log and catch-ups stay, the page keeps its project and its rows, and a  *)
(* connection that is open was so before.                                  *)
Quiet ==
  /\ UNCHANGED <<log, fetches>>
  /\ store'.rows = store.rows /\ store'.cursor = store.cursor /\ store'.whole = store.whole
  /\ page'.project = page.project /\ AsksElsewhere'
  /\ page'.socket = "open" =>
       /\ page.socket = "open" /\ Follows /\ server'.pump = server.pump
       /\ server'.bound = page.project => server.bound = page.project

LEMMA QuietKeeps ==
  ASSUME ChannelInv, ChannelInv', GapInv, Quiet
  PROVE  GapInv'
<1> SUFFICES ASSUME store.whole, Rests, Flows PROVE Rests' /\ Flows'
  BY DEF GapInv, Quiet
<1>1. \A j \in 1..Len(log) : (Ours(j)' <=> Ours(j)) /\ (Have(j)' <=> Have(j))
  BY DEF Quiet, Ours, Shown, Have, Spans
<1>2. Keeps
  BY <1>1 DEF Keeps, Quiet
<1>3. store.cursor[page.project] \in Upto(log) /\ store'.cursor[page.project] = store.cursor[page.project]
  BY DEF ChannelInv, StoreOK, PageOK, Page, Quiet
<1>4. Behind(store.cursor[page.project])'
  <2>1. 1..store.cursor[page.project] \subseteq 1..Len(log)
    BY <1>3 DEF Upto, ChannelInv, LogOK
  <2> QED
    BY <1>1, <1>3, <2>1 DEF Behind, Rests, Quiet
<1>5. Rests'
  BY <1>2, <1>3, <1>4, StillRests DEF Quiet
<1> QED
  BY <1>2, <1>5, StillFlows DEF Quiet

LEMMA SameFollows ==
  ASSUME ChannelInv, wire' = wire
  PROVE  Follows
BY DEF ChannelInv, Follows

(* A step in which the connection is closed, or stays as it is.            *)
Calm ==
  /\ UNCHANGED <<log, fetches, store>>
  /\ page'.project = page.project
  /\ page'.step = page.step /\ page'.switching = page.switching
  /\ page'.socket = "open" => page.socket = "open" /\ wire' = wire /\ server' = server
LEMMA CalmIsQuiet ==
  ASSUME ChannelInv, AsksElsewhere, Calm
  PROVE  Quiet
BY SameFollows DEF Calm, Quiet, AsksElsewhere

LEMMA ServeCalm ==
  ASSUME ChannelInv, Accept \/ Restart
  PROVE  Calm
<1>1. CASE Accept
  BY <1>1 DEF Accept, ChannelInv, PageOK, Page, Calm
<1>2. CASE Restart
  BY <1>2, PageStill DEF Restart, ChannelInv, Calm
<1> QED
  BY <1>1, <1>2

LEMMA LinkCalm ==
  ASSUME ChannelInv, Refused \/ Drop \/ Reconnect \/ Offline \/ Online
  PROVE  Calm
<1>0. PageOK(page)
  BY DEF ChannelInv
<1>1. CASE Refused
  BY <1>0, <1>1, PageStill DEF Refused, Calm
<1>2. CASE Drop
  BY <1>0, <1>2, PageStill DEF Drop, Calm
<1>3. CASE Reconnect
  <2> DEFINE u == [page EXCEPT !.timer = FALSE]
  <2>1. /\ PageOK(u) /\ u.project = page.project /\ u.step = page.step
        /\ u.switching = page.switching /\ u.socket = page.socket
    BY <1>0 DEF PageOK, Page
  <2> HIDE DEF u
  <2>2. page' = Connected(u) /\ UNCHANGED <<log, server, wire, store, fetches>>
    BY <1>3 DEF Reconnect, u
  <2> QED
    BY <2>1, <2>2, PageStill DEF Calm
<1>4. CASE Offline
  <2>1. CASE page.unlocked
    BY <1>0, <1>4, <2>1, PageStill DEF Offline, Calm
  <2>2. CASE ~page.unlocked
    BY <1>4, <2>2 DEF Offline, Calm
  <2> QED
    BY <2>1, <2>2
<1>5. CASE Online
  <2> DEFINE u == [page EXCEPT !.retry = 0]
  <2>0. 0 \in 0..PollAfter
    BY ChannelAssumption
  <2>1. /\ PageOK(u) /\ u.project = page.project /\ u.step = page.step
        /\ u.switching = page.switching /\ u.socket = page.socket
    BY <1>0, <2>0 DEF PageOK, Page
  <2> HIDE DEF u
  <2>2. /\ page' = IF page.unlocked THEN Connected(u) ELSE page
        /\ UNCHANGED <<log, server, wire, store, fetches>>
    BY <1>5 DEF Online, u
  <2> QED
    BY <2>1, <2>2, PageStill DEF Calm
<1> QED
  BY <1>1, <1>2, <1>3, <1>4, <1>5

LEMMA ActCalm ==
  ASSUME ChannelInv, ~AnyProject,
         \/ \E p \in Project : Unlock(p) \/ SwitchEnds(p)
         \/ Lock \/ Expire
  PROVE  Calm
<1>0. PageOK(page) /\ page \in Page
  BY DEF ChannelInv, PageOK
<1>1. ASSUME NEW p \in Project, Unlock(p) PROVE Calm
  <2> DEFINE u == [page EXCEPT !.project = p, !.unlocked = TRUE, !.token = TRUE]
  <2>1. /\ PageOK(u) /\ u.project = page.project /\ u.step = page.step
        /\ u.switching = page.switching /\ u.socket = "none"
    BY <1>0, <1>1 DEF PageOK, Page, Unlock
  <2> HIDE DEF u
  <2>2. page' = Connected(u) /\ UNCHANGED <<log, store, fetches>>
    BY <1>1 DEF Unlock, u
  <2> QED
    BY <2>1, <2>2, PageStill DEF Calm
<1>2. ASSUME NEW p \in Project, SwitchEnds(p) PROVE Calm
  <2> DEFINE u == [page EXCEPT !.starting = page.starting \ {p}]
  <2>1. /\ PageOK(u) /\ u.project = page.project /\ u.step = page.step
        /\ u.switching = page.switching /\ u.socket = page.socket
    BY <1>0 DEF PageOK, Page
  <2>2. page' = Connected(u) /\ UNCHANGED <<log, server, wire, store, fetches>>
    BY <1>0, <1>2 DEF SwitchEnds, Page
  <2> HIDE DEF u
  <2> QED
    BY <2>1, <2>2, PageStill DEF Calm
<1>3. CASE Lock
  <2> DEFINE u == [page EXCEPT !.unlocked = FALSE, !.token = FALSE]
  <2>1. /\ u \in Page /\ u.project = page.project /\ u.step = page.step
        /\ u.switching = page.switching
    BY <1>0 DEF Page
  <2> HIDE DEF u
  <2>2. page' = Disconnected(u) /\ UNCHANGED <<log, store, fetches>>
    BY <1>3 DEF Lock, u
  <2> QED
    BY <2>1, <2>2, DisconnectedStill DEF Calm
<1>4. CASE Expire
  <2> DEFINE u == [page EXCEPT !.unlocked = FALSE]
  <2>1. /\ u \in Page /\ u.project = page.project /\ u.step = page.step
        /\ u.switching = page.switching
    BY <1>0 DEF Page
  <2> HIDE DEF u
  <2>2. page' = Disconnected(u) /\ UNCHANGED <<log, store, fetches>>
    BY <1>4 DEF Expire, u
  <2> QED
    BY <2>1, <2>2, DisconnectedStill DEF Calm
<1> QED
  BY <1>1, <1>2, <1>3, <1>4

(* A switch: the connection of the page is bound to another project.       *)
LEMMA SwitchQuiet ==
  ASSUME ChannelInv, ChannelInv', AsksElsewhere,
         \/ ServeSwitch \/ SwitchFails \/ \E p \in Project : AskSwitch(p)
  PROVE  Quiet
<1>0. PageOK(page) /\ page \in Page
  BY DEF ChannelInv, PageOK
<1>1. CASE ServeSwitch
  <2> DEFINE b == IF server.bound = NoProject THEN NoProject ELSE page.switching
             m == [kind |-> "switched", project |-> page.switching, seq |-> 0]
  <2>1. page.switching # page.project /\ page.project # NoProject
    BY <1>0, <1>1, ChannelAssumption DEF AsksElsewhere, ServeSwitch, Page
  <2>2. /\ server'.bound # page.project /\ server'.pump = server.pump
        /\ wire' = Broadcast(b, m)
    BY <1>1, <2>1 DEF ServeSwitch, ChannelInv, ServerOK
  <2>3. m.kind # "task"
    OBVIOUS
  <2> HIDE DEF m, b
  <2>4. Follows
    BY <2>2, <2>3 DEF Follows, Broadcast, ChannelInv
  <2>5. page'.project = page.project /\ page'.step # "asked" /\ page'.socket = page.socket
    BY <1>0, <1>1 DEF ServeSwitch, Page
  <2> QED
    BY <1>1, <2>2, <2>4, <2>5 DEF Quiet, ServeSwitch, AsksElsewhere
<1>2. CASE SwitchFails
  <2>1. page'.project = page.project /\ page'.step # "asked" /\ page'.socket = page.socket
    BY <1>0, <1>2 DEF SwitchFails, Page
  <2> QED
    BY <1>2, <2>1, SameFollows DEF SwitchFails, Quiet, AsksElsewhere
<1>3. ASSUME NEW p \in Project, AskSwitch(p) PROVE Quiet
  <2>1. page'.project = page.project /\ page'.switching # page.project
        /\ page'.socket = page.socket
    BY <1>0, <1>3 DEF AskSwitch, Page
  <2> QED
    BY <1>3, <2>1, SameFollows DEF AskSwitch, Quiet, AsksElsewhere
<1> QED
  BY <1>1, <1>2, <1>3

LEMMA PlanQuiet ==
  ASSUME ChannelInv, AsksElsewhere, NEW p \in Project, PlanReply(p)
  PROVE  Quiet
<1>1. /\ store'.rows = store.rows /\ store'.cursor = store.cursor
      /\ store'.whole = store.whole
  BY DEF PlanReply, ChannelInv, StoreOK
<1> QED
  BY <1>1, SameFollows DEF PlanReply, Quiet, AsksElsewhere

(***************************************************************************)
(* Steps that add events, messages or catch-ups.                           *)
(***************************************************************************)
(* A new event is behind no cursor, no catch-up and no message.            *)
LEMMA GrowKeeps ==
  ASSUME ChannelInv, ChannelInv', store.whole, Rests, Flows,
         Len(log) < MaxLog, NEW e \in Entry, log' = Append(log, e),
         UNCHANGED <<server, page, store, fetches>>, Follows
  PROVE  Rests' /\ Flows'
<1>1. \A j \in 1..Len(log) : log'[j] = log[j]
  BY Grown
<1>2. DOMAIN log = 1..Len(log) /\ DOMAIN log' = 1..Len(log') /\ Len(log) \in Nat
  BY DEF ChannelInv, LogOK
<1>3. \A j \in 1..Len(log) : (Ours(j)' => Ours(j)) /\ (Have(j)' <=> Have(j))
  BY <1>1, <1>2 DEF Ours, Shown, Have, Spans
<1>4. Keeps
  BY <1>3 DEF Keeps
<1>5. store.cursor[page.project] \in Upto(log)
  BY DEF ChannelInv, StoreOK, PageOK, Page
<1>6. Behind(store.cursor[page.project])'
  <2>1. 1..store.cursor[page.project] \subseteq 1..Len(log)
    BY <1>2, <1>5 DEF Upto
  <2> QED
    BY <1>3, <2>1 DEF Behind, Rests
<1>7. Rests'
  BY <1>4, <1>5, <1>6, StillRests DEF Rests, AsksElsewhere
<1> QED
  BY <1>4, <1>7, StillFlows

LEMMA HappenKeeps ==
  ASSUME ChannelInv, ChannelInv', GapInv, NEW p \in Project, NEW k \in Kind, Happen(p, k)
  PROVE  GapInv'
<1>1. [project |-> p, kind |-> k] \in Entry
  BY DEF Entry
<1> QED
  BY <1>1, GrowKeeps, SameFollows DEF Happen, GapInv

LEMMA LaunchKeeps ==
  ASSUME ChannelInv, ChannelInv', GapInv, NEW p \in Project, Launch(p)
  PROVE  GapInv'
<1> DEFINE m == [kind |-> "launched", project |-> p, seq |-> Len(log) + 1]
<1>1. [project |-> p, kind |-> "chat"] \in Entry
  BY DEF Entry
<1>2. m.kind # "task" /\ wire' = Append(wire, m)
  BY DEF Launch
<1> HIDE DEF m
<1>3. Follows
  BY <1>2 DEF ChannelInv, Follows
<1> QED
  BY <1>1, <1>3, GrowKeeps DEF Launch, GapInv

(* A catch-up more, from the cursor.                                       *)
LEMMA CatchUpKeeps ==
  ASSUME ChannelInv, Rests, CatchUp(page, store), UNCHANGED <<log, store>>,
         page'.project = page.project, AsksElsewhere'
  PROVE  Rests' /\ Keeps
<1> DEFINE f == AskedFor(page.project, store.cursor[page.project])
<1>1. fetches' = fetches \cup {f} /\ f.since = store.cursor[page.project]
  BY DEF CatchUp, AskedFor
<1> HIDE DEF f
<1>2. \A j \in 1..Len(log) : (Ours(j)' <=> Ours(j)) /\ (Have(j) => Have(j)')
  BY <1>1 DEF Ours, Shown, Have, Spans
<1>3. Keeps
  BY <1>2 DEF Keeps
<1>4. store.cursor[page.project] \in Upto(log)
  BY DEF ChannelInv, StoreOK, PageOK, Page
<1>5. Behind(store.cursor[page.project])'
  <2>1. 1..store.cursor[page.project] \subseteq 1..Len(log)
    BY <1>4 DEF Upto, ChannelInv, LogOK
  <2> QED
    BY <1>2, <2>1 DEF Behind, Rests
<1> QED
  BY <1>1, <1>3, <1>4, <1>5, StillRests

LEMMA PollKeeps ==
  ASSUME ChannelInv, ChannelInv', GapInv, Poll
  PROVE  GapInv'
<1> SUFFICES ASSUME store.whole, Rests, Flows PROVE Rests' /\ Flows'
  BY DEF GapInv, Poll
<1>1. Rests' /\ Keeps
  BY CatchUpKeeps DEF Poll, Rests, AsksElsewhere
<1> QED
  BY <1>1, SameFollows, StillFlows DEF Poll

(* The catch-up of a connection that opens asks for all that the cursor    *)
(* has not passed.                                                         *)
LEMMA OpenKeeps ==
  ASSUME ChannelInv, ChannelInv', GapInv, Open
  PROVE  GapInv'
<1> SUFFICES ASSUME store.whole, Rests PROVE Rests' /\ Flows'
  BY DEF GapInv, Open
<1>0. PageOK(page) /\ page.unlocked /\ Len(log) \in Nat
  BY DEF Open, ChannelInv, PageOK, LogOK
<1>1. page'.project = page.project /\ page'.step = page.step /\ page'.switching = page.switching
  BY <1>0, PageStill DEF Open
<1>2. CatchUp(page, store)
  BY <1>0 DEF Open
<1>3. Rests'
  BY <1>1, <1>2, CatchUpKeeps DEF Open, Rests, AsksElsewhere
<1>4. \A j \in 1..Len(log) : Ours(j)' => Have(j)'
  <2> DEFINE f == AskedFor(page.project, store.cursor[page.project])
             c == store.cursor[page.project]
  <2>1. f \in fetches' /\ f.project = page.project /\ ~f.old /\ f.since = c /\ f.sent = Len(log)
    BY <1>2 DEF CatchUp, AskedFor
  <2> HIDE DEF f
  <2>2. c \in Upto(log) /\ store'.cursor[page'.project] = c
    BY <1>1 DEF ChannelInv, StoreOK, PageOK, Page, Open
  <2>3. \A j \in 1..c : Ours(j)' => Have(j)'
    BY <1>3, <2>2 DEF Rests, Behind
  <2>4. \A j \in 1..Len(log) : j > c => Have(j)'
    BY <1>1, <2>1 DEF Have, Spans
  <2> HIDE DEF c
  <2> QED
    BY <1>0, <2>2, <2>3, <2>4 DEF Upto
<1>5. UNCHANGED <<log, wire, server>>
  BY DEF Open
<1>6. InOrder'
  <2> SUFFICES ASSUME NEW k \in DOMAIN wire, NEW j \in 1..wire[k].seq, Ours(j)' PROVE Have(j)'
    BY <1>5 DEF InOrder
  <2>1. wire[k].seq \in Upto(log)
    BY DEF ChannelInv, Messages
  <2> QED
    BY <1>0, <1>4, <2>1 DEF Upto
<1>7. PumpKeepsUp'
  <2>1. server.pump \in -1..Len(log)
    BY DEF ChannelInv, ServerOK
  <2>2. \A j \in 1..server.pump : j \in 1..Len(log)
    BY <1>0, <2>1
  <2> QED
    BY <1>4, <1>5, <2>2 DEF PumpKeepsUp
<1> QED
  BY <1>3, <1>6, <1>7 DEF Flows

(* The pump goes over the log in its order.                                *)
LEMMA PumpKeeps ==
  ASSUME ChannelInv, ChannelInv', GapInv, Pump
  PROVE  GapInv'
<1> SUFFICES ASSUME store.whole, Rests, Flows PROVE Rests' /\ Flows'
  BY DEF GapInv, Pump
<1> DEFINE i == server.pump + 1
           m == [kind |-> log[i].kind, project |-> log[i].project, seq |-> i]
<1>1. /\ i \in 1..Len(log) /\ UNCHANGED <<log, page, store, fetches>>
      /\ server'.pump = i /\ server'.bound = server.bound /\ server.pump = i - 1
      /\ wire' = Broadcast(server.bound, m)
      /\ Len(wire) \in Nat /\ DOMAIN wire = 1..Len(wire) /\ DOMAIN wire' = 1..Len(wire')
  BY DEF Pump, ChannelInv, ServerOK, LogOK
<1>2. /\ m.seq = i /\ m.project = log[i].project /\ m.kind = log[i].kind
  OBVIOUS
<1>3. log[i].kind \in {"task", "chat", "launch"}
  <2>1. log[i] \in Entry
    BY <1>1 DEF ChannelInv, LogOK
  <2> QED
    BY <2>1, ChannelAssumption DEF Entry
<1> HIDE DEF i, m
<1>4. Rests'
  BY <1>1 DEF Rests, Behind, StartsBehind, AsksElsewhere, Ours, Shown, Have, Spans
<1>5. \A j : (Ours(j)' <=> Ours(j)) /\ (Have(j)' <=> Have(j))
  BY <1>1 DEF Ours, Shown, Have, Spans
<1>6. CASE log[i].project # server.bound
  <2>1. wire' = wire
    BY <1>1, <1>2, <1>6 DEF Broadcast
  <2>2. \A j \in 1..i : j # i => j \in 1..server.pump
    BY <1>1
  <2>3. \A j, n : Queued(j, n)' <=> Queued(j, n)
    BY <1>1, <2>1 DEF Queued, Carries
  <2>4. server.bound = page.project => ~Ours(i)
    BY <1>6 DEF Ours
  <2>5. Flows' <=> (page.socket = "open" => InOrder' /\ PumpKeepsUp')
    BY <1>1 DEF Flows
  <2>6. InOrder => InOrder'
    BY <1>1, <1>5, <2>1, <2>3 DEF InOrder
  <2>7. PumpKeepsUp => PumpKeepsUp'
    BY <1>1, <1>5, <2>1, <2>2, <2>3, <2>4 DEF PumpKeepsUp
  <2> QED
    BY <1>4, <2>5, <2>6, <2>7 DEF Flows
<1>7. CASE log[i].project = server.bound
  <2>1. wire' = Append(wire, m)
    BY <1>1, <1>2, <1>7 DEF Broadcast
  <2> DEFINE n == Len(wire)
  <2>2. /\ Len(wire') = n + 1 /\ wire'[n + 1] = m /\ \A k \in 1..n : wire'[k] = wire[k]
    BY <1>1, <2>1 DEF ChannelInv
  <2>3. ASSUME NEW j, NEW h \in 0..n, Queued(j, h) PROVE Queued(j, h)' /\ Queued(j, Len(wire))'
    <3>1. PICK l \in 1..h : Carries(wire[l], j)
      BY <2>3 DEF Queued
    <3>2. Carries(wire[l], j)' /\ l \in 1..h /\ l \in 1..Len(wire')
      BY <1>1, <2>2, <3>1 DEF Carries
    <3> QED
      BY <3>2 DEF Queued
  <2>4. ASSUME page.socket = "open", server.bound = page.project, NEW j \in 1..i, Ours(j)
        PROVE  Have(j)' \/ Queued(j, Len(wire))'
    <3>1. CASE j = i
      <4>1. m.kind \in {"task", "chat"}
        BY <1>2, <1>3, <2>4, <3>1 DEF Ours, Shown
      <4>2. Carries(wire'[n + 1], j) /\ n + 1 \in 1..Len(wire')
        BY <1>1, <1>2, <1>7, <2>2, <2>4, <3>1, <4>1 DEF Carries
      <4>3. \E l \in 1..Len(wire') : Carries(wire'[l], j)
        BY <4>2
      <4> QED
        BY <1>1, <4>3 DEF Queued, Carries
    <3>2. CASE j # i
      <4>1. j \in 1..server.pump
        BY <1>1, <3>2
      <4>2. Have(j) \/ Queued(j, n)
        BY <2>4, <4>1 DEF Flows, PumpKeepsUp
      <4> QED
        BY <1>1, <1>5, <2>3, <4>2
    <3> QED
      BY <3>1, <3>2
  <2>5. page.socket = "open" => PumpKeepsUp'
    BY <1>1, <1>5, <2>4 DEF PumpKeepsUp
  <2>6. page.socket = "open" => InOrder'
    <3> SUFFICES ASSUME page.socket = "open", NEW k \in 1..(n + 1), wire'[k].kind = "task",
                        wire'[k].project = page.project,
                        NEW j \in 1..wire'[k].seq, j < wire'[k].seq, Ours(j)
                 PROVE  Have(j)' \/ Queued(j, k - 1)'
      BY <1>1, <1>5, <2>2 DEF InOrder
    <3>1. CASE k \in 1..n
      <4>1. k - 1 \in 0..n /\ wire'[k] = wire[k]
        BY <1>1, <2>2, <3>1
      <4>2. Have(j) \/ Queued(j, k - 1)
        BY <1>1, <3>1, <4>1 DEF Flows, InOrder
      <4> QED
        BY <1>5, <2>3, <4>1, <4>2
    <3>2. CASE k = n + 1
      <4>1. server.bound = page.project /\ j \in 1..server.pump
        BY <1>1, <1>2, <1>7, <2>2, <3>2
      <4>2. Have(j) \/ Queued(j, n)
        BY <4>1 DEF Flows, PumpKeepsUp
      <4>3. k - 1 = n /\ k - 1 \in 0..n
        BY <1>1, <3>2
      <4>4. Have(j) \/ Queued(j, k - 1)
        BY <4>2, <4>3
      <4> QED
        BY <1>5, <2>3, <4>3, <4>4
    <3> QED
      BY <1>1, <3>1, <3>2
  <2> QED
    BY <1>1, <1>4, <2>5, <2>6 DEF Flows
<1> QED
  BY <1>6, <1>7

(* A message: what comes before it is there or came before it.             *)
LEMMA DeliverKeeps ==
  ASSUME ChannelInv, ChannelInv', GapInv, Deliver
  PROVE  GapInv'
<1> DEFINE m == Head(wire)
<1>1. /\ wire # <<>> /\ m \in Messages(log) /\ Received(m)
      /\ Len(wire) \in Nat /\ Len(wire) # 0 /\ DOMAIN wire = 1..Len(wire)
      /\ wire[1] = m /\ Len(wire') = Len(wire) - 1 /\ DOMAIN wire' = 1..(Len(wire) - 1)
      /\ \A k \in 1..(Len(wire) - 1) : wire'[k] = wire[k + 1]
  BY DEF Deliver, ChannelInv
<1>2. UNCHANGED <<log, server, fetches>> /\ page.socket = "open"
  BY DEF Deliver
<1>3. /\ PageOK(page) /\ page \in Page /\ StoreOK(store, log) /\ LogOK
      /\ page.project \in Project /\ Len(log) \in Nat
  BY DEF ChannelInv, PageOK, Page, LogOK
<1> HIDE DEF m
<1>4. CASE m.kind = "launched"
  <2> DEFINE s == [store EXCEPT !.rows = store.rows \cup {m.seq}, !.whole = FALSE]
  <2>1. m.project \in Project /\ m.seq \in 1..Len(log)
    BY <1>1, <1>3, <1>4 DEF Messages, Upto
  <2>2. StoreOK(s, log) /\ ~s.whole
    BY <1>3, <2>1 DEF StoreOK
  <2>3. store' = Loading(s, m.project)
    BY <1>1, <1>4 DEF Received
  <2> HIDE DEF s
  <2>4. ~store'.whole
    BY <2>1, <2>2, <2>3, LoadingTyped
  <2> QED
    BY <2>4 DEF GapInv
<1>5. CASE m.kind # "launched"
  <2>1. page' = page /\ store'.whole = store.whole /\ store.rows \subseteq store'.rows
        /\ (\/ store'.cursor[page.project] \in {store.cursor[page.project], 0}
            \/ m.kind = "task" /\ m.project = page.project /\ store'.cursor[page.project] = m.seq)
        /\ (m.kind \in {"task", "chat"} /\ m.project = page.project => m.seq \in store'.rows)
    <3>1. m.kind # "switched" => m.seq \in 1..Len(log)
      BY <1>1, <1>3 DEF Messages, Upto
    <3>2. CASE m.project # page.project \/ m.kind = "launch"
      BY <1>1, <1>5, <3>2 DEF Received
    <3>3. CASE m.kind = "switched" /\ m.project = page.project
      <4> DEFINE s == [store EXCEPT !.cursor[page.project] = 0]
      <4>1. /\ StoreOK(s, log) /\ s.whole = store.whole /\ s.rows = store.rows
            /\ s.cursor[page.project] = 0
        <5>1. 0 \in Upto(log)
          BY <1>3 DEF Upto
        <5> QED
          BY <1>3, <5>1 DEF StoreOK
      <4>2. page' = page /\ store' = Loading(s, page.project)
        BY <1>1, <3>3 DEF Received
      <4> HIDE DEF s
      <4> QED
        BY <1>3, <3>3, <4>1, <4>2, LoadingTyped
    <3>4. CASE m.kind = "task" /\ m.project = page.project
      <4>1. page' = page /\ store' = Dispatched(store, {m.seq})
        BY <1>1, <3>4 DEF Received
      <4>2. {m.seq} \in SUBSET (1..Len(log))
        BY <3>1, <3>4
      <4> QED
        BY <1>3, <3>4, <4>1, <4>2, DispatchedRows
    <3>5. CASE m.kind = "chat" /\ m.project = page.project
      <4>1. page' = page /\ store' = [store EXCEPT !.rows = store.rows \cup {m.seq}]
        BY <1>1, <1>3, <3>5 DEF Received, StoreOK
      <4> QED
        BY <1>3, <3>5, <4>1 DEF StoreOK
    <3> QED
      BY <1>1, <1>5, <3>2, <3>3, <3>4, <3>5 DEF Received
  <2> SUFFICES ASSUME store.whole, Rests, InOrder, PumpKeepsUp PROVE Rests' /\ Flows'
    BY <1>2, <2>1 DEF GapInv, Flows
  <2>2. \A j : (Ours(j)' <=> Ours(j)) /\ (Have(j) => Have(j)')
    BY <1>2, <2>1 DEF Ours, Shown, Have, Spans
  <2>3. ASSUME NEW j \in 1..m.seq, Ours(j), m.kind = "task", m.project = page.project
        PROVE  Have(j)'
    <3>1. m.seq \in Nat
      BY <1>1, <1>3 DEF Messages, Upto
    <3>2. CASE j < m.seq
      <4>1. Have(j) \/ Queued(j, 1 - 1)
        BY <1>1, <2>3, <3>2 DEF InOrder
      <4>2. ~Queued(j, 1 - 1)
        BY DEF Queued
      <4> QED
        BY <2>2, <4>1, <4>2
    <3>3. CASE j = m.seq
      BY <2>1, <2>3, <3>3 DEF Have
    <3> QED
      BY <3>1, <3>2, <3>3
  <2>4. Behind(store.cursor[page.project])'
    <3>1. CASE store'.cursor[page.project] = store.cursor[page.project]
      BY <2>1, <2>2, <3>1 DEF Behind, Rests
    <3>2. CASE store'.cursor[page.project] = 0
      BY <2>1, <3>2 DEF Behind
    <3>3. CASE m.kind = "task" /\ m.project = page.project /\ store'.cursor[page.project] = m.seq
      BY <2>1, <2>2, <2>3, <3>3 DEF Behind
    <3> QED
      BY <2>1, <3>1, <3>2, <3>3
  <2>5. Rests'
    BY <1>2, <2>1, <2>2, <2>4 DEF Rests, StartsBehind, AsksElsewhere, Behind
  <2>6. ASSUME NEW j, Ours(j), NEW n \in 1..Len(wire), Queued(j, n)
        PROVE  Have(j)' \/ Queued(j, n - 1)'
    <3>1. PICK l \in 1..n : Carries(wire[l], j)
      BY <2>6 DEF Queued
    <3>2. CASE l = 1
      BY <1>1, <2>1, <3>1, <3>2 DEF Carries, Have
    <3>3. CASE l # 1
      <4>1. l - 1 \in 1..(n - 1) /\ l - 1 \in 1..(Len(wire) - 1) /\ (l - 1) + 1 = l
        BY <1>1, <3>3
      <4>2. wire'[l - 1] = wire[l]
        BY <1>1, <4>1
      <4>3. Carries(wire[l - 1], j)'
        BY <2>1, <3>1, <4>2 DEF Carries
      <4> QED
        BY <4>1, <4>3 DEF Queued
    <3> QED
      BY <3>2, <3>3
  <2>7. InOrder'
    <3> SUFFICES ASSUME NEW k \in 1..(Len(wire) - 1), wire'[k].kind = "task",
                        wire'[k].project = page.project,
                        NEW j \in 1..wire'[k].seq, j < wire'[k].seq, Ours(j)
                 PROVE  Have(j)' \/ Queued(j, k - 1)'
      BY <1>1, <2>1, <2>2 DEF InOrder
    <3>1. k + 1 \in 1..Len(wire) /\ wire'[k] = wire[k + 1] /\ (k + 1) - 1 = k /\ k \in 1..Len(wire)
      BY <1>1
    <3>2. Have(j) \/ Queued(j, (k + 1) - 1)
      BY <1>1, <3>1 DEF InOrder
    <3>3. Have(j) \/ Queued(j, k)
      BY <3>1, <3>2
    <3> QED
      BY <2>2, <2>6, <3>1, <3>3
  <2>8. PumpKeepsUp'
    <3> SUFFICES ASSUME server.bound = page.project, NEW j \in 1..server.pump, Ours(j)
                 PROVE  Have(j)' \/ Queued(j, Len(wire))'
      BY <1>2, <2>1, <2>2 DEF PumpKeepsUp
    <3>1. Have(j) \/ Queued(j, Len(wire))
      BY DEF PumpKeepsUp
    <3>2. Len(wire) \in 1..Len(wire) /\ Len(wire') = Len(wire) - 1
      BY <1>1
    <3> DEFINE n == Len(wire)
    <3>3. Queued(j, n) => Have(j)' \/ \E l \in 1..(n - 1) : Carries(wire[l], j)'
      BY <2>6, <3>2 DEF Queued
    <3> QED
      BY <2>2, <3>1, <3>2, <3>3 DEF Queued
  <2> QED
    BY <2>5, <2>7, <2>8 DEF Flows
<1> QED
  BY <1>4, <1>5

(* A catch-up that is answered, as the page knows it: what it spans comes, *)
(* and what it brings beyond that comes whole.                             *)
LEMMA ReplyKeeps ==
  ASSUME ChannelInv, ChannelInv', GapInv, NEW f \in fetches, FetchReply(f)
  PROVE  GapInv'
<1>1. PICK rows : ReplyRows(f, rows)
  BY DEF FetchReply, ReplyRows
<1>2. /\ StoreOK(store', log) /\ rows \in SUBSET (1..Len(log))
      /\ store'.rows = store.rows \cup rows
      /\ store'.whole = (store.whole /\ (rows = {} \/ ~f.old))
      /\ \A p \in Project : \/ store'.cursor[p] = store.cursor[p]
                            \/ store'.cursor[p] \in rows /\ log[store'.cursor[p]].project = p
  BY <1>1, ReplyFacts
<1>3. /\ fetches' = fetches \ {f} /\ UNCHANGED <<log, server, wire, page>>
  BY DEF FetchReply
<1> SUFFICES ASSUME store.whole, rows = {} \/ ~f.old, Rests, Flows PROVE Rests' /\ Flows'
  BY <1>2 DEF GapInv
<1>4. PICK upto \in f.sent..Len(log) : rows = Events(f, upto)
  BY <1>1 DEF ReplyRows
<1>5. /\ Len(log) \in Nat /\ f.since \in Nat /\ f.sent \in Nat /\ f.sent <= Len(log)
      /\ page.project \in Project
      /\ store.cursor[page.project] \in Upto(log) /\ store'.cursor[page.project] \in Upto(log)
  BY <1>2 DEF ChannelInv, LogOK, FetchOK, Upto, PageOK, Page, StoreOK
<1>6. \A j \in 1..Len(log) : Ours(j)' <=> Ours(j)
  BY <1>3 DEF Ours, Shown
<1>7. ASSUME NEW j \in 1..Len(log), Ours(j), f.since < j, j <= upto, f.project = page.project
      PROVE  j \in rows
  <2>1. j \in (f.since + 1)..upto
    BY <1>4, <1>5, <1>7
  <2> QED
    BY <1>4, <1>7, <2>1 DEF Events, EventsOf, Ours
<1>8. ASSUME NEW j \in 1..Len(log), Ours(j), Have(j)
      PROVE  Have(j)'
  <2>1. CASE j \in store.rows
    BY <1>2, <2>1 DEF Have
  <2>2. ASSUME NEW g \in fetches, Spans(g, j) PROVE Have(j)'
    <3>1. CASE g # f
      BY <1>3, <2>2, <3>1 DEF Have, Spans
    <3>2. CASE g = f
      <4>1. f.since < j /\ j <= upto /\ f.project = page.project
        BY <1>4, <1>5, <2>2, <3>2 DEF Spans
      <4>2. j \in rows
        BY <1>7, <1>8, <4>1
      <4> QED
        BY <1>2, <4>2 DEF Have
    <3> QED
      BY <3>1, <3>2
  <2> QED
    BY <1>8, <2>1, <2>2 DEF Have
<1>9. Keeps
  BY <1>3, <1>6, <1>8 DEF Keeps
<1>10. Behind(store.cursor[page.project])'
  <2> SUFFICES ASSUME NEW j \in 1..store'.cursor[page.project], Ours(j) PROVE Have(j)'
    BY <1>3, <1>5, <1>6 DEF Behind, Upto
  <2>1. j \in 1..Len(log)
    BY <1>5 DEF Upto
  <2>2. CASE store'.cursor[page.project] = store.cursor[page.project]
    <3>1. Have(j)
      BY <2>2 DEF Rests, Behind
    <3> QED
      BY <1>8, <2>1, <3>1
  <2>3. CASE store'.cursor[page.project] \in rows /\ f.project = page.project
    <3>1. ~f.old /\ j <= upto
      <4>1. store'.cursor[page.project] \in (f.since + 1)..upto
        BY <1>4, <2>3 DEF Events, EventsOf
      <4>2. f.since \in Nat /\ upto \in Nat /\ rows # {}
        BY <1>4, <1>5, <2>3
      <4> QED
        BY <2>1, <4>1, <4>2
    <3>2. CASE j <= f.since
      <4>1. j \in 1..f.since
        BY <1>5, <2>1, <3>2
      <4>2. Have(j)
        BY <2>3, <3>1, <4>1 DEF Rests, StartsBehind, Behind
      <4> QED
        BY <1>8, <2>1, <4>2
    <3>3. CASE f.since < j
      <4>1. j \in rows
        BY <1>7, <2>1, <2>3, <3>1, <3>3
      <4> QED
        BY <1>2, <4>1 DEF Have
    <3> QED
      BY <1>5, <2>1, <3>2, <3>3
  <2>4. \A k \in rows : log[k].project = f.project
    BY <1>4 DEF Events, EventsOf
  <2> QED
    BY <1>2, <1>5, <2>2, <2>3, <2>4
<1>11. Rests'
  BY <1>3, <1>5, <1>9, <1>10, StillRests DEF Rests, AsksElsewhere
<1> QED
  BY <1>3, <1>9, <1>11, SameFollows, StillFlows

(* A catch-up from before a switch may be lost.                            *)
LEMMA FailKeeps ==
  ASSUME ChannelInv, ChannelInv', GapInv, NEW f \in fetches, FetchFails(f)
  PROVE  GapInv'
<1>1. /\ store'.rows = store.rows /\ store'.cursor = store.cursor
      /\ store'.whole = (store.whole /\ f.old)
  BY DEF FetchFails, ChannelInv, StoreOK
<1>2. /\ fetches' = fetches \ {f} /\ UNCHANGED <<log, server, wire, page>>
  BY DEF FetchFails
<1> SUFFICES ASSUME store.whole, f.old, Rests, Flows PROVE Rests' /\ Flows'
  BY <1>1 DEF GapInv
<1>3. \A j : (Ours(j)' <=> Ours(j)) /\ (Have(j)' <=> Have(j))
  BY <1>1, <1>2 DEF Ours, Shown, Have, Spans
<1>4. Keeps
  BY <1>2, <1>3 DEF Keeps
<1>5. Rests'
  BY <1>1, <1>2, <1>3 DEF Rests, Behind, StartsBehind, AsksElsewhere
<1> QED
  BY <1>2, <1>4, <1>5, SameFollows, StillFlows

(* The rows are cleared: nothing is behind the cursor, and what was asked  *)
(* for counts no longer.                                                   *)
LEMMA ClearedKeeps ==
  ASSUME store'.cursor[page'.project] = 0, \A f \in fetches' : f.old,
         page'.step = "no", page'.socket # "open"
  PROVE  GapInv'
BY DEF GapInv, Rests, Flows, Behind, StartsBehind, AsksElsewhere

LEMMA SwitchedKeeps ==
  ASSUME ChannelInv, Switched
  PROVE  GapInv'
<1> DEFINE p == page.switching
           v == [page EXCEPT !.project = p, !.unlocked = TRUE, !.step = "no",
                             !.switching = NoProject, !.starting = page.starting \cup {p}]
           s == [store EXCEPT !.cursor[p] = 0, !.rows = {}, !.whole = TRUE]
<1>1. p \in Project /\ PageOK(page) /\ page \in Page /\ StoreOK(store, log)
  BY DEF Switched, ChannelInv, PageOK
<1>2. v \in Page /\ v.step = "no" /\ v.project = p
  BY <1>1 DEF Page, Maybe
<1>3. page' = IF page.unlocked THEN Disconnected(v) ELSE Connected(Disconnected(v))
  BY <1>1 DEF Switched, Page
<1>4. StoreOK(s, log) /\ s.cursor[p] = 0
  <2>1. 0 \in Upto(log)
    BY DEF ChannelInv, LogOK, Upto
  <2> QED
    BY <1>1, <2>1 DEF StoreOK
<1>5. store' = Loading(s, p) /\ fetches' = {[f EXCEPT !.old = TRUE] : f \in fetches}
  BY DEF Switched
<1>6. \A f \in fetches' : f.old
  BY <1>5 DEF ChannelInv, FetchOK
<1> HIDE DEF v, s, p
<1>7. /\ Disconnected(v).project = p /\ Disconnected(v).step = "no"
      /\ Disconnected(v).socket = "none" /\ PageOK(Disconnected(v))
  BY <1>2, DisconnectedStill, DisconnectedTyped
<1>8. page'.project = p /\ page'.step = "no" /\ page'.socket # "open"
  BY <1>3, <1>7, PageStill
<1>9. store'.cursor[p] = 0
  BY <1>1, <1>4, <1>5, LoadingTyped DEF p
<1> QED
  BY <1>6, <1>8, <1>9, ClearedKeeps

LEMMA ReloadKeeps ==
  ASSUME ChannelInv, Reload
  PROVE  GapInv'
<1> DEFINE p == IF server.session = NoProject THEN page.project ELSE server.session
           ok == page.token /\ Admitted
<1>1. p \in Project /\ ok \in BOOLEAN
  BY DEF ChannelInv, ServerOK, PageOK, Page, Maybe
<1>2. page' = Connected(Fresh(p, ok)) /\ store' = Empty /\ fetches' = {}
  BY DEF Reload, Fresh, Empty
<1> HIDE DEF p, ok
<1>3. PageOK(Fresh(p, ok))
  BY <1>1, FreshTyped
<1>4. /\ Fresh(p, ok).project = p /\ Fresh(p, ok).step = "no" /\ Fresh(p, ok).socket = "none"
  BY DEF Fresh
<1>5. page'.project = p /\ page'.step = "no" /\ page'.socket # "open"
  BY <1>2, <1>3, <1>4, PageStill
<1>6. store'.cursor[p] = 0
  BY <1>1, <1>2 DEF Empty
<1> QED
  BY <1>2, <1>5, <1>6, ClearedKeeps

LEMMA GapStep ==
  ASSUME ~AnyProject, ChannelInv, ChannelInv', GapInv, [ChannelNext]_channelVars
  PROVE  GapInv'
<1>0. CASE Quiet
  BY <1>0, QuietKeeps
<1>1. CASE ~store.whole /\ store' = store
  BY <1>1 DEF GapInv
<1>2. CASE Calm
  BY <1>0, <1>1, <1>2, CalmIsQuiet DEF Calm, GapInv, Rests
<1>3. CASE UNCHANGED channelVars
  BY <1>2, <1>3 DEF channelVars, Calm
<1>4. CASE Serve
  <2>1. CASE ServeSwitch
    BY <1>0, <1>1, <2>1, SwitchQuiet DEF ServeSwitch, GapInv, Rests
  <2> QED
    BY <1>2, <1>4, <2>1, ServeCalm, PumpKeeps DEF Serve
<1>5. CASE Link
  BY <1>2, <1>5, LinkCalm, OpenKeeps DEF Link
<1>6. CASE Receive
  <2>1. ASSUME NEW p \in Project, PlanReply(p) PROVE GapInv'
    <3>1. store'.whole = store.whole
      BY <2>1 DEF PlanReply, ChannelInv, StoreOK
    <3>2. CASE ~store.whole
      BY <3>1, <3>2 DEF GapInv
    <3>3. CASE store.whole
      BY <1>0, <2>1, <3>3, PlanQuiet DEF GapInv, Rests
    <3> QED
      BY <3>2, <3>3
  <2> QED
    BY <1>6, <2>1, DeliverKeeps, PollKeeps, ReplyKeeps, FailKeeps DEF Receive
<1>7. CASE Act
  <2>1. CASE SwitchFails \/ \E p \in Project : AskSwitch(p)
    <3>1. store' = store
      BY <2>1 DEF SwitchFails, AskSwitch
    <3> QED
      BY <1>0, <1>1, <2>1, <3>1, SwitchQuiet DEF GapInv, Rests
  <2> QED
    BY <1>2, <1>7, <2>1, ActCalm, LaunchKeeps, SwitchedKeeps, ReloadKeeps DEF Act
<1> QED
  BY <1>3, <1>4, <1>5, <1>6, <1>7, HappenKeeps DEF ChannelNext

(* Behind the cursor of the page nothing is missing that it ought to show, *)
(* or a catch-up under way asks for it: lost connections, a page that      *)
(* polls, catch-ups answered in any order and behind new events, restarts  *)
(* and reloads leave no hole (onOpen, catchUp, dispatchEvent, _event_pump).*)
THEOREM NothingIsMissed == ASSUME ~AnyProject PROVE ChannelSafety => []NoGap
<1>1. ChannelInit => ChannelInv /\ GapInv
  <2>1. ASSUME ChannelInit PROVE GapInv
    <3>1. PICK p \in Home : page = Fresh(p, FALSE)
      BY <2>1 DEF ChannelInit, Fresh
    <3>2. page.step = "no" /\ page.socket = "none" /\ page.project \in Project
      BY <3>1, ChannelAssumption DEF Fresh
    <3>3. fetches = {} /\ store.cursor[page.project] = 0
      BY <2>1, <3>2 DEF ChannelInit
    <3> QED
      BY <3>2, <3>3 DEF GapInv, Rests, Flows, Behind, StartsBehind, AsksElsewhere
  <2> QED
    BY <2>1, InitTyped
<1>2. (ChannelInv /\ GapInv) /\ [ChannelNext]_channelVars => (ChannelInv /\ GapInv)'
  BY NextTyped, GapStep
<1>3. ChannelInv /\ GapInv => NoGap
  <2> SUFFICES ASSUME ChannelInv, GapInv, store.whole,
                      NEW i \in EventsOf(page.project, 0, store.cursor[page.project]), Shown(i)
               PROVE  \/ i \in store.rows
                      \/ \E f \in fetches : /\ f.project = page.project
                                            /\ f.since < i /\ i <= f.sent
    BY DEF NoGap, Covered
  <2>1. i \in 1..store.cursor[page.project] /\ log[i].project = page.project
    BY DEF EventsOf
  <2>2. i \in DOMAIN log
    <3>1. store.cursor[page.project] \in 0..Len(log) /\ Len(log) \in Nat
      BY DEF ChannelInv, StoreOK, PageOK, Page, Upto, LogOK
    <3> QED
      BY <2>1, <3>1 DEF ChannelInv, LogOK
  <2>3. Have(i)
    BY <2>1, <2>2 DEF GapInv, Rests, Behind, Ours
  <2> QED
    BY <2>3 DEF Have, Spans
<1> QED
  BY <1>1, <1>2, <1>3, PTL DEF ChannelSafety
=============================================================================
