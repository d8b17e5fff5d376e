------------------------------- MODULE Channel -------------------------------
(***************************************************************************)
(* The live channel between the console server and its web page: the event *)
(* log of the server, the pump that pushes new events over the web socket, *)
(* the page that keeps a cursor per project and fetches what it missed     *)
(* after a reconnection (useWebSocket and the stores), the session that    *)
(* binds a connection to a project, and the network between the two.       *)
(*                                                                         *)
(* One page with one token.  An event is the row of the log with its       *)
(* position as sequence number; what it says is left out but for its kind: *)
(* "task" (dispatched by the page, moves the cursor), "chat" (kept by the  *)
(* page, does not move the cursor), "launch" (sent as progress, whose row  *)
(* the page does not read).                                                *)
(***************************************************************************)
EXTENDS Integers, FiniteSets, Sequences, SequencesExt

CONSTANTS
  Project,     (* projects                                                  *)
  Home,        (* the projects a page may be on at first                    *)
  NoProject,   (* no session, no connection, no plan                        *)
  Kind,        (* kinds of events that occur                                *)
  PollAfter,   (* POLL_AFTER_RETRIES                                        *)
  AnyProject,  (* a page that was locked may be unlocked on any project     *)
  MaxLog,      (* bound: events                                             *)
  MaxFetches,  (* bound: catch-ups in flight                                *)
  MaxActs,     (* bound: what the user does once the page is unlocked       *)
  MaxFaults    (* bound: lost connections, failed requests, restarts        *)

ASSUME ChannelAssumption ==
  /\ NoProject \notin Project /\ Home \subseteq Project /\ Home # {}
  /\ Kind \subseteq {"task", "chat", "launch"}
  /\ PollAfter \in Nat \ {0} /\ AnyProject \in BOOLEAN
  /\ MaxLog \in Nat /\ MaxFetches \in Nat /\ MaxActs \in Nat /\ MaxFaults \in Nat

VARIABLES
  log,      \* events.jsonl: a sequence of [project, kind]
  server,   \* session and connection of the page's token, cursor of the pump
  wire,     \* messages on their way to the page, in order
  page,     \* the variables of useWebSocket and of the auth store
  store,    \* cursors, rows and plan the page holds
  fetches,  \* GET /api/events under way
  network,  \* the browser has a network
  used      \* faults and switches so far

channelVars == <<log, server, wire, page, store, fetches, network, used>>

Seq1 == 1..MaxLog
Maybe == Project \cup {NoProject}

Message == [kind : Kind \cup {"switched", "launched"}, project : Project, seq : 0..MaxLog]
Fetch == [project : Project, since : 0..MaxLog, sent : 0..MaxLog, old : BOOLEAN]

(* pump: the cursor of the pump, -1 before the first connection starts it. *)
Server == [session : Maybe, bound : Maybe, pump : -1..MaxLog]

(* socket: "accepted" once the server has taken the connection and before  *)
(* the page knows.  label: what the page says of the channel.  retry stops *)
(* at PollAfter.  switching: the request to switch, and where it is;         *)
(* starting: switches that wait for their plan before they connect.        *)
Page == [project : Project, unlocked : BOOLEAN, token : BOOLEAN,
         socket : {"none", "connecting", "accepted", "open"},
         label : {"offline", "connecting", "online", "reconnecting", "polling"},
         retry : 0..PollAfter, timer : BOOLEAN, polling : BOOLEAN,
         switching : Maybe, step : {"no", "asked", "served"}, starting : SUBSET Project]

(* rows: the events the stores show.  loads: plans requested.  whole is    *)
(* history: since the rows were last cleared no catch-up failed, none from *)
(* before that was answered, and no launch by chat turned the page.        *)
Store == [cursor : [Project -> 0..MaxLog], rows : SUBSET Seq1, plan : Maybe,
          loads : SUBSET Project, whole : BOOLEAN]

EventsOf(p, from, to) == {i \in (from + 1)..to : log[i].project = p}

(***************************************************************************)
(* The page's own state: each operator is a function of the page.          *)
(***************************************************************************)
(* connect(): a locked page is offline, an existing socket is kept.        *)
Connected(u) ==
  IF ~(u.unlocked /\ u.token) THEN [u EXCEPT !.label = "offline"]
  ELSE IF u.socket # "none" THEN u
  ELSE [u EXCEPT !.socket = "connecting", !.label = "connecting"]

(* onClose and scheduleReconnect: the next attempt has a timer, and after  *)
(* PollAfter failures the page polls.                                      *)
Closed_Unscheduled(u) ==
  [u EXCEPT !.socket = "none", !.label = "reconnecting",
            !.retry = IF @ = PollAfter THEN @ ELSE @ + 1]
Closed(u) ==
  LET polls == u.retry + 1 >= PollAfter
  IN [u EXCEPT !.socket = "none", !.timer = TRUE,
               !.retry = IF polls THEN PollAfter ELSE @ + 1,
               !.polling = @ \/ polls,
               !.label = IF polls /\ ~u.polling THEN "polling" ELSE "reconnecting"]

(* onOpen.  The timer of an attempt that came first is not cleared.        *)
Opened(u) == [u EXCEPT !.socket = "open", !.label = "online", !.retry = 0, !.polling = FALSE]

(* disconnect().                                                           *)
Disconnected(u) == [u EXCEPT !.socket = "none", !.label = "offline", !.retry = 0,
                             !.timer = FALSE, !.polling = FALSE]

(* The browser says offline: teardownSocket, no timer, no polling.         *)
TornDown(u) == [u EXCEPT !.socket = "none", !.label = "offline",
                         !.timer = FALSE, !.polling = FALSE]

(***************************************************************************)
(* What the page holds.                                                    *)
(***************************************************************************)
(* dispatchEvent for each row: the row is shown and moves the cursor of    *)
(* its own project, never back.                                            *)
Dispatched(s, rows) ==
  [s EXCEPT !.rows = @ \cup rows,
            !.cursor = [p \in Project |->
               LET mine == {i \in rows : log[i].project = p} \cup {@[p]}
               IN CHOOSE i \in mine : \A j \in mine : j <= i]]

(* plan.load: the plan shown is cleared, the answer comes later.           *)
Loading(s, p) == [s EXCEPT !.plan = NoProject, !.loads = @ \cup {p}]

(* catchUp: what is asked, and how long the log is when it is asked.       *)
AskedFor(p, since) == [project |-> p, since |-> since, sent |-> Len(log), old |-> FALSE]

(* A catch-up for the page u, from its cursor in s.                         *)
CatchUp(u, s) == fetches' = fetches \cup {AskedFor(u.project, s.cursor[u.project])}

Room == Cardinality(fetches) < MaxFetches

Fault == used.faults < MaxFaults /\ used' = [used EXCEPT !.faults = @ + 1]

UserActs == used.acts < MaxActs /\ used' = [used EXCEPT !.acts = @ + 1]

(***************************************************************************)
(* The server.                                                             *)
(***************************************************************************)
(* events.append by any thread.                                            *)
Happen(p, k) ==
  /\ Len(log) < MaxLog
  /\ log' = Append(log, [project |-> p, kind |-> k])
  /\ UNCHANGED <<server, wire, page, store, fetches, network, used>>

(* broadcast: a message goes to the connections bound to its project.      *)
Broadcast(bound, m) == IF m.project = bound THEN Append(wire, m) ELSE wire

(* One row of a beat of _event_pump: an event goes out in the order of the *)
(* log.  A beat whose progress cannot be told ends after the row.          *)
Pump ==
  LET i == server.pump + 1 IN
  /\ server.pump >= 0 /\ i <= Len(log)
  /\ wire' = Broadcast(server.bound,
                       [kind |-> log[i].kind, project |-> log[i].project, seq |-> i])
  /\ server' = [server EXCEPT !.pump = i]
  /\ UNCHANGED <<log, page, store, fetches, network, used>>

(* session_gate: a request that reaches the server is refused without a    *)
(* session of its token.                                                   *)
Admitted == network /\ server.session # NoProject

(* POST and DELETE /api/session: the connection of an old token is gone.   *)
CreateSession(p) == server' = [server EXCEPT !.session = p, !.bound = NoProject]
DestroySession == server' = [server EXCEPT !.session = NoProject, !.bound = NoProject]

(* ws_endpoint takes the connection if the token has a session, binds it   *)
(* to the project of the session, and starts the pump, which begins at the *)
(* end of the log.                                                         *)
Accept ==
  /\ network /\ page.socket = "connecting" /\ server.session # NoProject
  /\ server' = [server EXCEPT !.bound = server.session,
                              !.pump = IF @ >= 0 THEN @ ELSE Len(log)]
  /\ wire' = <<>>
  /\ page' = [page EXCEPT !.socket = "accepted"]
  /\ UNCHANGED <<log, store, fetches, network, used>>

(* The server is started anew: sessions, connections and the cursor of the *)
(* pump were in memory.                                                    *)
Restart ==
  /\ Fault
  /\ server' = [session |-> NoProject, bound |-> NoProject, pump |-> -1]
  /\ wire' = <<>>
  /\ page' = IF page.socket = "none" THEN page ELSE Closed(page)
  /\ UNCHANGED <<log, store, fetches, network>>

(* api_session_switch: session and connection are bound anew, and the      *)
(* page is notified over the connection.                                   *)
ServeSwitch ==
  /\ page.step = "asked" /\ Admitted
  /\ LET b == IF server.bound = NoProject THEN NoProject ELSE page.switching
     IN /\ server' = [server EXCEPT !.session = page.switching, !.bound = b]
        /\ wire' = Broadcast(b, [kind |-> "switched", project |-> page.switching, seq |-> 0])
  /\ page' = [page EXCEPT !.step = "served"]
  /\ UNCHANGED <<log, store, fetches, network, used>>

(* _handle_ws_chat with a message that launches a new project: the reply   *)
(* is logged for the new project and sent back on this connection, which   *)
(* stays bound to the old one; the session is changed in a copy only.      *)
Launch(p) ==
  /\ page.socket = "open" /\ network /\ Len(log) < MaxLog
  /\ server.session # NoProject /\ UserActs
  /\ p # page.project /\ p # server.session
  /\ \A i \in DOMAIN log : log[i].project # p
  /\ log' = Append(log, [project |-> p, kind |-> "chat"])
  /\ wire' = Append(wire, [kind |-> "launched", project |-> p, seq |-> Len(log) + 1])
  /\ UNCHANGED <<server, page, store, fetches, network>>

(***************************************************************************)
(* The connection as the page sees it.                                     *)
(***************************************************************************)
(* onopen: onOpen, with a catch-up from the cursor.                        *)
Open_AsIfNew ==
  /\ page.socket = "accepted" /\ Room
  /\ page' = Opened(page)
  /\ UNCHANGED <<log, server, wire, store, fetches, network, used>>
Open ==
  /\ page.socket = "accepted" /\ Room
  /\ page' = Opened(page)
  /\ IF page.unlocked THEN CatchUp(page, store) ELSE UNCHANGED fetches
  /\ UNCHANGED <<log, server, wire, store, network, used>>

(* onclose of an attempt that is refused or finds no network.              *)
Refused ==
  /\ page.socket = "connecting"
  /\ ~network \/ server.session = NoProject
  /\ page' = Closed(page)
  /\ UNCHANGED <<log, server, wire, store, fetches, network, used>>

(* onclose of a connection; what was on its way is lost with it.           *)
Drop ==
  /\ page.socket \in {"accepted", "open"} /\ Fault
  /\ page' = Closed(page)
  /\ server' = [server EXCEPT !.bound = NoProject]
  /\ wire' = <<>>
  /\ UNCHANGED <<log, store, fetches, network>>

(* The timer of scheduleReconnect.                                         *)
Reconnect ==
  /\ page.timer
  /\ page' = Connected([page EXCEPT !.timer = FALSE])
  /\ UNCHANGED <<log, server, wire, store, fetches, network, used>>

(* The browser loses its network: a socket that is open would not notice.  *)
Offline ==
  /\ network /\ Fault
  /\ network' = FALSE
  /\ IF page.unlocked
     THEN /\ page' = TornDown(page)
          /\ server' = [server EXCEPT !.bound = NoProject]
          /\ wire' = <<>>
     ELSE UNCHANGED <<page, server, wire>>
  /\ UNCHANGED <<log, store, fetches>>

Online ==
  /\ ~network
  /\ network' = TRUE
  /\ page' = IF page.unlocked THEN Connected([page EXCEPT !.retry = 0]) ELSE page
  /\ UNCHANGED <<log, server, wire, store, fetches, used>>

(***************************************************************************)
(* What the page receives.                                                 *)
(***************************************************************************)
(* handleMessage.  A message of another project is dropped, but the reply  *)
(* of a launch carries no project: ChatPage turns to the new project and   *)
(* loads its plan.                                                         *)
Received(m) ==
  \/ /\ m.kind = "launched"
     /\ page' = [page EXCEPT !.project = m.project, !.unlocked = TRUE]
     /\ store' = Loading([store EXCEPT !.rows = @ \cup {m.seq}, !.whole = FALSE], m.project)
  \/ /\ m.kind # "launched"
     /\ m.project # page.project \/ m.kind = "launch"
     /\ UNCHANGED <<page, store>>
  \/ /\ m.kind = "switched" /\ m.project = page.project
     /\ store' = Loading([store EXCEPT !.cursor[page.project] = 0], page.project)
     /\ UNCHANGED page
  \/ /\ m.kind = "task" /\ m.project = page.project
     /\ store' = Dispatched(store, {m.seq})
     /\ UNCHANGED page
  \/ /\ m.kind = "chat" /\ m.project = page.project
     /\ store' = [store EXCEPT !.rows = @ \cup {m.seq}]
     /\ UNCHANGED page

Deliver ==
  /\ page.socket = "open" /\ wire # <<>>
  /\ Received(Head(wire))
  /\ wire' = Tail(wire)
  /\ UNCHANGED <<log, server, fetches, network, used>>

(* One beat of the poll timer.                                             *)
Poll ==
  /\ page.polling /\ page.unlocked /\ Room
  /\ CatchUp(page, store)
  /\ fetches' # fetches
  /\ UNCHANGED <<log, server, wire, page, store, network, used>>

(* GET /api/events.                                                        *)
Events(f, upto) == EventsOf(f.project, f.since, upto)

(* The answer holds what the log had at some moment since it was asked;    *)
(* nothing asks whether the page still shows that project.  What came      *)
(* makes the plan of the project shown be loaded.                          *)
FetchReply(f) ==
  /\ Admitted
  /\ \E upto \in f.sent..Len(log) :
       LET rows == Events(f, upto)
           s == [Dispatched(store, rows) EXCEPT !.whole = @ /\ (rows = {} \/ ~f.old)]
       IN store' = IF rows = {} THEN s ELSE Loading(s, page.project)
  /\ fetches' = fetches \ {f}
  /\ UNCHANGED <<log, server, wire, page, network, used>>

(* The error is logged to the browser's console, nobody asks again.        *)
FetchFails(f) ==
  /\ IF Admitted THEN Fault ELSE UNCHANGED used
  /\ store' = [store EXCEPT !.whole = @ /\ f.old]
  /\ fetches' = fetches \ {f}
  /\ UNCHANGED <<log, server, wire, page, network>>

(* plan.load: the answer is dropped when the page has turned to another    *)
(* project meanwhile.                                                      *)
PlanReply_Whatever(p) ==
  /\ p \in store.loads
  /\ store' = [store EXCEPT !.loads = @ \ {p}, !.plan = p]
  /\ UNCHANGED <<log, server, wire, page, fetches, network, used>>
PlanReply(p) ==
  /\ p \in store.loads
  /\ store' = [store EXCEPT !.loads = @ \ {p},
                            !.plan = IF page.project # p THEN @ ELSE p]
  /\ UNCHANGED <<log, server, wire, page, fetches, network, used>>

(***************************************************************************)
(* The user.                                                               *)
(***************************************************************************)
(* unlock: a new token; then afterUnlock starts and connects.              *)
Unlock(p) ==
  /\ ~page.unlocked /\ network /\ page.socket = "none"
  /\ AnyProject \/ p = page.project
  /\ CreateSession(p)
  /\ page' = Connected([page EXCEPT !.project = p, !.unlocked = TRUE, !.token = TRUE])
  /\ wire' = <<>>
  /\ UNCHANGED <<log, store, fetches, network, used>>

(* The user locks the page; the session is deleted if the server hears it. *)
Lock ==
  /\ page.unlocked /\ UserActs
  /\ page' = Disconnected([page EXCEPT !.unlocked = FALSE, !.token = FALSE])
  /\ IF network THEN DestroySession ELSE server' = [server EXCEPT !.bound = NoProject]
  /\ wire' = <<>>
  /\ UNCHANGED <<log, store, fetches, network>>

(* The session ends on the server and the countdown on the page (tick).    *)
Expire ==
  /\ page.unlocked /\ Fault
  /\ page' = Disconnected([page EXCEPT !.unlocked = FALSE])
  /\ DestroySession
  /\ wire' = <<>>
  /\ UNCHANGED <<log, store, fetches, network>>

(* switchProject asks the server first.                                    *)
AskSwitch(p) ==
  /\ page.unlocked /\ page.step = "no" /\ p # page.project
  /\ UserActs
  /\ page' = [page EXCEPT !.switching = p, !.step = "asked"]
  /\ UNCHANGED <<log, server, wire, store, fetches, network>>

(* The answer: the page takes the project, forgets the cursor of it and    *)
(* the rows it holds, closes its connection, and loads the plan.  A page   *)
(* that was locked meanwhile is unlocked by it, with a token or without.   *)
Switched ==
  /\ page.step = "served" /\ network
  /\ LET p == page.switching
         u == Disconnected([page EXCEPT !.project = p, !.unlocked = TRUE, !.step = "no",
                                !.switching = NoProject, !.starting = @ \cup {p}])
     IN /\ page' = IF page.unlocked THEN u ELSE Connected(u)
        /\ store' = Loading([store EXCEPT !.cursor[p] = 0, !.rows = {}, !.whole = TRUE], p)
  /\ fetches' = {[f EXCEPT !.old = TRUE] : f \in fetches}
  /\ server' = [server EXCEPT !.bound = NoProject]
  /\ wire' = <<>>
  /\ UNCHANGED <<log, network, used>>

(* No answer, or a refusal: the page stays with its project, whatever the  *)
(* server did.                                                             *)
SwitchFails ==
  /\ page.step \in {"asked", "served"}
  /\ IF Admitted THEN Fault ELSE UNCHANGED used
  /\ page' = [page EXCEPT !.switching = NoProject, !.step = "no"]
  /\ UNCHANGED <<log, server, wire, store, fetches, network>>

(* The plan of a switch has come: start and connect.                       *)
SwitchEnds(p) ==
  /\ p \in page.starting \ store.loads
  /\ page' = Connected([page EXCEPT !.starting = @ \ {p}])
  /\ UNCHANGED <<log, server, wire, store, fetches, network, used>>

(* The page is loaded anew and restores the session of its token.          *)
Reload_Trusting ==
  /\ Fault
  /\ page' = Connected([project |-> server.session, unlocked |-> page.token,
                        token |-> page.token, socket |-> "none", label |-> "connecting",
                        retry |-> 0, timer |-> FALSE, polling |-> FALSE,
                        switching |-> NoProject, step |-> "no",
               starting |-> {}])
  /\ store' = [cursor |-> [p \in Project |-> 0], rows |-> {}, plan |-> NoProject,
               loads |-> {}, whole |-> TRUE]
  /\ server' = [server EXCEPT !.bound = NoProject]
  /\ fetches' = {} /\ wire' = <<>>
  /\ UNCHANGED <<log, network>>
Reload ==
  /\ Fault
  /\ LET p == IF server.session = NoProject THEN page.project ELSE server.session
         ok == page.token /\ Admitted
     IN page' = Connected([project |-> p, unlocked |-> ok, token |-> ok, socket |-> "none",
                           label |-> "connecting", retry |-> 0, timer |-> FALSE,
                           polling |-> FALSE, switching |-> NoProject, step |-> "no",
               starting |-> {}])
  /\ store' = [cursor |-> [p \in Project |-> 0], rows |-> {}, plan |-> NoProject,
               loads |-> {}, whole |-> TRUE]
  /\ server' = [server EXCEPT !.bound = NoProject]
  /\ fetches' = {} /\ wire' = <<>>
  /\ UNCHANGED <<log, network>>

ChannelInit ==
  /\ log = <<>> /\ wire = <<>> /\ fetches = {} /\ network = TRUE
  /\ server = [session |-> NoProject, bound |-> NoProject, pump |-> -1]
  /\ \E p \in Home :
       page = [project |-> p, unlocked |-> FALSE, token |-> FALSE, socket |-> "none",
               label |-> "connecting", retry |-> 0, timer |-> FALSE, polling |-> FALSE,
               switching |-> NoProject, step |-> "no",
               starting |-> {}]
  /\ store = [cursor |-> [p \in Project |-> 0], rows |-> {}, plan |-> NoProject,
              loads |-> {}, whole |-> TRUE]
  /\ used = [faults |-> 0, acts |-> 0]

Serve == Pump \/ Accept \/ Restart \/ ServeSwitch
Link == Open \/ Refused \/ Drop \/ Reconnect \/ Offline \/ Online
Receive == \/ Deliver \/ Poll
           \/ \E f \in fetches : FetchReply(f) \/ FetchFails(f)
           \/ \E p \in Project : PlanReply(p)
Act == \/ \E p \in Project : Unlock(p) \/ AskSwitch(p) \/ SwitchEnds(p) \/ Launch(p)
       \/ Lock \/ Expire \/ Switched \/ SwitchFails \/ Reload

ChannelNext ==
  \/ \E p \in Project, k \in Kind : Happen(p, k)
  \/ Serve \/ Link \/ Receive \/ Act

(* The loops of the server, the timers of the browser, and answers that    *)
(* come or fail; nothing is assumed of the user and of the network.        *)
ChannelFairness ==
  /\ WF_channelVars(Pump) /\ WF_channelVars(Accept) /\ WF_channelVars(Open)
  /\ WF_channelVars(Refused) /\ WF_channelVars(Reconnect) /\ WF_channelVars(Deliver)
  /\ \A p \in Project : WF_channelVars(PlanReply(p))
  /\ WF_channelVars(\E f \in fetches : FetchReply(f) \/ FetchFails(f))
  /\ (\A p \in Project : WF_channelVars(SwitchEnds(p)))

ChannelSafety == ChannelInit /\ [][ChannelNext]_channelVars
ChannelSpec == ChannelSafety /\ ChannelFairness
-----------------------------------------------------------------------------
ChannelTypeOK ==
  /\ log \in BoundedSeq([project : Project, kind : Kind \cup {"chat"}], MaxLog)
  /\ server \in Server /\ page \in Page /\ store \in Store
  /\ fetches \subseteq Fetch /\ network \in BOOLEAN

Shown(i) == log[i].kind # "launch"

(* What the cursor of the project has passed is shown, or in the range of  *)
(* a catch-up under way.                                                   *)
Covered ==
  \A i \in EventsOf(page.project, 0, store.cursor[page.project]) :
    Shown(i) => \/ i \in store.rows
                \/ \E f \in fetches : f.project = page.project /\ f.since < i /\ i <= f.sent

(* No hole behind the cursor, in spite of lost connections, restarts,      *)
(* polling and reloads, until a catch-up fails, one from before the last   *)
(* switch is answered, or a launch turns the page.                         *)
NoGap == store.whole => Covered

(* The head of useWebSocket says of the catch-up that no event is lost.    *)
NothingLost == Covered

(* The plan shown is that of the project shown.                            *)
PlanIsOurs == store.plan \in {NoProject, page.project}

(* Session and page agree, no switch is under way, and no catch-up failed.  *)
Settled ==
  /\ page.unlocked /\ page.token /\ network
  /\ server.session = page.project /\ page.step = "no" /\ page.starting = {} /\ store.whole

(* What happens in the project is shown in the end.                        *)
EventsArrive ==
  \A i \in Seq1 :
    <>[](Settled /\ i <= Len(log) /\ log[i].project = page.project /\ Shown(i))
      => <>(i \in store.rows)
=============================================================================
