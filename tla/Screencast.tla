----------------------------- MODULE Screencast -----------------------------
(***************************************************************************)
(* The screencast view of the web client: its tabs, the connection of the  *)
(* tab that is shown, the connections kept in the background, and the      *)
(* timers that connect again (ScreenCastView.ts with                       *)
(* useScreencastSession, connectionScheduler, useCastSessionPersistence,   *)
(* persistedConnectionTracks and useCastTabs).                             *)
(*                                                                         *)
(* Attempts to connect are numbered from 1; 0 is "none".  Attempt n makes  *)
(* socket n and peer connection n, and the agent may give it session n or  *)
(* the session it asked for again.  A handler remembers the value that     *)
(* activeConnectionId had when it was wired; what counts is whether it is  *)
(* still that value, so "epoch" is the number of the wiring that holds it, *)
(* 0 after the code has moved on without wiring anything.                  *)
(*                                                                         *)
(* Handlers are compositions of the same few functions (stop, persist,     *)
(* scheduleReconnect), so the memory of the page is one record and each of *)
(* those functions maps a page to a page.                                  *)
(***************************************************************************)
EXTENDS Naturals, Sequences

CONSTANTS
  Tab,          \* the tabs that can be opened, each a device of its own
  None,         \* no tab
  MaxAttempts,  \* bound: attempts to connect
  Patient,      \* the user waits for what was begun before doing something else
  MaxMoves      \* bound: restores, network changes and things the user does

ASSUME ScreencastAssumption ==
  /\ None \notin Tab
  /\ MaxAttempts \in Nat /\ MaxMoves \in Nat

VARIABLES
  page,    \* what the JavaScript of the page holds
  jobs,    \* the asynchronous functions that wait: see Job
  tries,   \* the attempts to connect, in order of their numbers
  moves    \* how many bounded moves were made

vars == <<page, jobs, tries, moves>>

Attempt == 1..MaxAttempts

\* After its awaits "switch" restores a tab or connects, "return" restores the
\* active tab or goes on as "start", which connects; "ice" has an offer for
\* an ICE restart of a peer connection.
Job == ({"switch"} \X Tab) \cup ({"return", "start"} \X {None}) \cup ({"ice"} \X Attempt)

Nothing == [pc |-> 0, ws |-> 0, session |-> 0, device |-> None]

\* A peer connection or a socket whose events nobody handles.  "stable": no offer of
\* it is unanswered.
Dead(state) == [state |-> state, by |-> "nobody", epoch |-> 0, tab |-> None, stable |-> TRUE]

Page0 ==
  [tabs |-> {}, active |-> None, shown |-> FALSE, saved |-> [k \in Tab |-> 0],
   epoch |-> 0, stamp |-> 0, pc |-> 0, ws |-> 0, session |-> 0,
   connected |-> FALSE, connecting |-> FALSE,
   inflight |-> FALSE, target |-> None, suppress |-> FALSE, reconnect |-> FALSE,
   restarting |-> FALSE, fallback |-> FALSE, recovery |-> 0,
   snap |-> [k \in Tab |-> Nothing], beats |-> {}, doom |-> {},
   peer |-> [n \in Attempt |-> Dead("none")],
   sock |-> [n \in Attempt |-> Dead("none")]]

Init == page = Page0 /\ jobs = {} /\ tries = <<>> /\ moves = 0

------------------------------------------------------------------------------
(* What the functions of the page do to it.                                *)

HasLiveConnection(p) == p.pc # 0 /\ p.peer[p.pc].state # "closed"

\* getSessionReleaseTarget: the device and the session of tab k.
ReleaseTarget(p, k) ==
  LET kept == IF k = None THEN Nothing ELSE p.snap[k]
  IN  <<IF p.active # None THEN p.active ELSE kept.device,
        IF p.session # 0 THEN p.session ELSE kept.session>>

\* Without a device or a session every heartbeat is stopped.
StopHeartbeat(p, target) ==
  [p EXCEPT !.beats = IF target[1] # None /\ target[2] # 0 THEN @ \ {target} ELSE {}]

StartHeartbeat(p) ==
  [p EXCEPT !.beats = @ \cup
     (IF p.active # None /\ p.session # 0 THEN {<<p.active, p.session>>} ELSE {})]

Dispose(p, K) ==
  LET kept == {k \in K : p.snap[k].pc # 0}
  IN  [p EXCEPT
        !.peer = [n \in Attempt |-> IF n \in {p.snap[k].pc : k \in kept} THEN Dead("closed") ELSE @[n]],
        !.sock = [n \in Attempt |-> IF n \in {p.snap[k].ws : k \in kept} THEN Dead("closed") ELSE @[n]],
        !.snap = [k \in Tab |-> IF k \in kept THEN Nothing ELSE @[k]]]

ClearPersisted(p, k) == IF k = None THEN p ELSE [p EXCEPT !.snap[k] = Nothing]

\* The connection of the view is remembered under tab k; with "background" its
\* events are from now on handled without the view.
Persist(p, k, others, background) ==
  IF p.pc = 0 \/ k = None THEN p
  ELSE LET kept == [p EXCEPT
             !.snap[k] = [pc |-> p.pc, ws |-> p.ws, session |-> p.session, device |-> p.active],
             !.peer[p.pc] = IF background
               THEN [@ EXCEPT !.by = "background", !.tab = k, !.epoch = p.stamp] ELSE @]
       IN  IF others THEN Dispose(kept, Tab \ {k}) ELSE kept

\* Mutated: a reconnect that is due stays due.
Quieted_Due(p) ==
  [p EXCEPT !.inflight = FALSE, !.target = None,
            !.restarting = FALSE, !.fallback = FALSE, !.recovery = 0]

\* The timers and flags that every stop, detach and suppression resets.
Quieted(p) ==
  [p EXCEPT !.inflight = FALSE, !.target = None, !.reconnect = FALSE,
            !.restarting = FALSE, !.fallback = FALSE, !.recovery = 0]

DetachFromView(p) ==
  [Quieted(p) EXCEPT !.epoch = 0, !.session = 0, !.pc = 0, !.ws = 0,
                     !.connected = FALSE, !.connecting = FALSE]

\* Stopping closes what the view holds, unless it is live and to be preserved.
Stop(p, preserve, k, others) ==
  IF preserve /\ HasLiveConnection(p) THEN DetachFromView(Persist(p, k, others, TRUE))
  ELSE LET silent == StopHeartbeat(p, ReleaseTarget(p, k))
           closed == [silent EXCEPT
             !.peer = [n \in Attempt |-> IF n = p.pc THEN [@[n] EXCEPT !.state = "closed"] ELSE @[n]],
             !.sock = [n \in Attempt |-> IF n = p.ws THEN Dead("closed") ELSE @[n]]]
       IN  ClearPersisted(DetachFromView(closed), p.active)

StopNow(p) == Stop(p, FALSE, p.active, TRUE)

ScheduleReconnect(p) ==
  IF p.suppress \/ p.active = None \/ p.reconnect THEN p
  ELSE [p EXCEPT !.reconnect = TRUE, !.connecting = TRUE]

StopAndReconnect(p) == ScheduleReconnect(StopNow(p))

GiveUp(p) == [p EXCEPT !.connecting = FALSE, !.inflight = FALSE, !.target = None]

DisableAutoReconnect(p) == [Quieted(p) EXCEPT !.suppress = TRUE]

EnableAutoReconnect(p) == [p EXCEPT !.suppress = FALSE]

\* The flow of start up to its first await.
Prepare(p) ==
  LET previous == ReleaseTarget(p, p.active)
      cleared  == StopNow(Dispose(StopHeartbeat(p, previous), Tab))
  IN  [EnableAutoReconnect(cleared) EXCEPT
        !.inflight = TRUE, !.target = p.active, !.connecting = TRUE,
        !.stamp = @ + 1, !.epoch = p.stamp + 1]

\* A stale snapshot is not restored but disposed.
IsStale(p, k, late) ==
  \/ p.snap[k].ws # 0 /\ p.sock[p.snap[k].ws].state = "closed"
  \/ p.peer[p.snap[k].pc].state \in {"closed", "failed"}
  \/ p.peer[p.snap[k].pc].state = "disconnected" /\ late

\* Wiring the control channels of the connection remembers it.
Wired(p) == Persist(p, p.active, TRUE, FALSE)

Restored(p, k) ==
  LET kept  == p.snap[k]
      fresh == p.stamp + 1
      back  == [p EXCEPT
        !.stamp = fresh, !.epoch = fresh, !.inflight = FALSE, !.target = k,
        !.session = kept.session, !.pc = kept.pc, !.ws = kept.ws,
        !.peer[kept.pc] = [@ EXCEPT !.by = "view", !.epoch = fresh, !.tab = k],
        !.sock = [n \in Attempt |-> IF n = kept.ws
                    THEN [@[n] EXCEPT !.by = "view", !.epoch = fresh, !.tab = p.active] ELSE @[n]],
        !.connected = p.peer[kept.pc].state = "connected",
        !.connecting = p.peer[kept.pc].state = "connecting",
        !.beats = @ \cup (IF kept.session = 0 \/ kept.device = None THEN {}
                          ELSE {<<kept.device, kept.session>>})]
  IN  Persist(Wired(back), k, FALSE, FALSE)

------------------------------------------------------------------------------
(* Connecting.                                                             *)

Moved == moves < MaxMoves /\ moves' = moves + 1
Unmoved == UNCHANGED moves

\* The request for a ticket: for the active tab and its device, and the session it
\* had.
Ask(p) ==
  [tab |-> p.active, device |-> p.active, ask |-> p.saved[p.active],
   epoch |-> p.stamp + 1, phase |-> "ticket", offered |-> 0]

\* An attempt for the active tab of page p; it asks for the session that the tab
\* had and waits for the answer.
Start(p) ==
  /\ Len(tries) < MaxAttempts
  /\ page' = Prepare(p)
  /\ tries' = Append(tries, Ask(p))

Resting(p) == page' = p /\ UNCHANGED tries

\* Connects unless a connection to the active tab is there or being made.
ScheduleStartConnection(p) ==
  IF \/ p.active = None
     \/ p.target = p.active /\ (p.inflight \/ HasLiveConnection(p) \/ p.connecting)
  THEN Resting(p) ELSE Start(EnableAutoReconnect(p))

ReconnectDue ==
  /\ page.reconnect
  /\ LET p == [page EXCEPT !.reconnect = FALSE]
     IN  IF \/ p.suppress \/ p.active = None
            \/ p.target = p.active /\ (p.inflight \/ HasLiveConnection(p))
         THEN Resting(p) ELSE Start(p)
  /\ UNCHANGED <<jobs, moves>>

Attempting(n, phase) == n \in DOMAIN tries /\ tries[n].phase = phase

\* The ticket has come: the page takes its session and makes a socket, whatever
\* has happened to the page since it asked.
TicketGranted(n) ==
  LET session == IF tries[n].ask # 0 THEN tries[n].ask ELSE n
      p == [page EXCEPT
             !.session = session,
             !.saved = [k \in Tab |-> IF k = tries[n].tab /\ k \in page.tabs THEN session ELSE @[k]],
             !.ws = n,
             !.sock[n] = [Dead("connecting") EXCEPT !.by = "view", !.epoch = tries[n].epoch,
                                                    !.tab = page.active]]
  IN  /\ Attempting(n, "ticket")
      /\ page' = Persist(p, p.active, TRUE, FALSE)
      /\ tries' = [tries EXCEPT ![n].phase = "socket"]
      /\ UNCHANGED <<jobs, moves>>

\* The agent no longer has the session asked for, so the attempt asks for a new one,
\* of the device that is active now.
SessionGone(n) ==
  LET p == [page EXCEPT !.saved = [k \in Tab |-> IF k = tries[n].tab THEN 0 ELSE @[k]]]
  IN  /\ Attempting(n, "ticket") /\ tries[n].ask # 0
      /\ IF page.active = None
         THEN page' = StopAndReconnect(GiveUp(p)) /\ tries' = [tries EXCEPT ![n].phase = "over"]
         ELSE page' = p /\ tries' = [tries EXCEPT ![n].ask = 0, ![n].device = page.active]
      /\ UNCHANGED <<jobs, moves>>

TicketRefused(n) ==
  /\ Attempting(n, "ticket")
  /\ page' = ScheduleReconnect(GiveUp(page))
  /\ tries' = [tries EXCEPT ![n].phase = "over"]
  /\ UNCHANGED <<jobs, moves>>

TicketLost(n) ==
  /\ Attempting(n, "ticket")
  /\ page' = StopAndReconnect(GiveUp(page))
  /\ tries' = [tries EXCEPT ![n].phase = "over"]
  /\ UNCHANGED <<jobs, moves>>

SocketOpens(n) ==
  LET p == [page EXCEPT !.sock[n].state = "open"]
      current == tries[n].epoch = p.epoch /\ p.ws = n
  IN  /\ Attempting(n, "socket") /\ page.sock[n].state = "connecting"
      /\ page' = IF current THEN StartHeartbeat([p EXCEPT !.inflight = FALSE, !.target = None]) ELSE p
      /\ tries' = [tries EXCEPT ![n].phase = IF current THEN "config" ELSE "over"]
      /\ UNCHANGED <<jobs, moves>>

\* A peer connection with its offer, wired to the view.
NewPeer(n) ==
  [Dead("new") EXCEPT !.by = "view", !.epoch = tries[n].epoch, !.tab = tries[n].tab,
                      !.stable = FALSE]

\* The configuration is loaded and the offer made: it goes out over whatever
\* socket the page holds by now.
Offered(n) ==
  LET p == Wired([page EXCEPT !.pc = n, !.peer[n] = NewPeer(n)])
      w == p.ws
  IN  /\ Attempting(n, "config")
      /\ IF w # 0 /\ p.sock[w].state = "connecting"
         THEN /\ page' = StopAndReconnect(GiveUp(p))
              /\ tries' = [tries EXCEPT ![n].phase = "over"]
         ELSE /\ page' = p
              /\ tries' = [m \in DOMAIN tries |->
                   [tries[m] EXCEPT !.phase = IF m = n THEN "over" ELSE @,
                                    !.offered = IF m = w /\ p.sock[w].state = "open" THEN n ELSE @]]
      /\ UNCHANGED <<jobs, moves>>

OfferFailed(n) ==
  /\ Attempting(n, "config")
  /\ page' = StopAndReconnect(GiveUp(page))
  /\ tries' = [tries EXCEPT ![n].phase = "over"]
  /\ UNCHANGED <<jobs, moves>>

------------------------------------------------------------------------------
(* What the agent and the network do.                                      *)

SocketCurrent(w) ==
  page.sock[w].by = "view" /\ page.sock[w].epoch = page.epoch /\ page.ws = w

PeerCurrent(n) ==
  page.peer[n].by = "view" /\ page.peer[n].epoch = page.epoch /\ page.pc = n

ScheduleVideoRecovery(p, epoch) ==
  [p EXCEPT !.recovery = IF p.suppress THEN 0 ELSE epoch]

\* The agent's answer to the offer it got over socket w.
Answered(w) ==
  LET m == tries[w].offered
      p == [page EXCEPT !.peer[m].state = "connecting", !.peer[m].stable = TRUE,
                        !.fallback = FALSE, !.restarting = FALSE]
  IN  /\ w \in DOMAIN tries /\ m # 0 /\ page.sock[w].state = "open"
      /\ page' = IF SocketCurrent(w) /\ page.pc = m /\ page.peer[m].state # "closed"
                 THEN Persist(ScheduleVideoRecovery(p, page.epoch), page.active, TRUE, FALSE) ELSE page
      /\ tries' = [tries EXCEPT ![w].offered = 0]
      /\ UNCHANGED <<jobs, moves>>

\* The socket fails, or the agent reports an error over it.
SignalError(w) ==
  /\ page.sock[w].state \in {"connecting", "open"}
  /\ page.connecting /\ SocketCurrent(w)
  /\ page' = [page EXCEPT !.connecting = FALSE]
  /\ UNCHANGED <<jobs, tries, moves>>

SocketCloses(w) ==
  LET shut == [page EXCEPT !.sock[w] = Dead("closed")]
      p == [shut EXCEPT !.ws = 0]
  IN  /\ page.sock[w].state \in {"connecting", "open"}
      /\ page' = IF ~SocketCurrent(w) THEN shut
                 ELSE IF p.pc # 0 /\ p.peer[p.pc].state \in {"connected", "connecting"}
                      THEN Persist(p, page.sock[w].tab, TRUE, FALSE)
                      ELSE StopAndReconnect(ClearPersisted(p, page.sock[w].tab))
      /\ UNCHANGED <<jobs, tries, moves>>

\* tryIceRestart up to its first await: TRUE when the restart is under way.
CanRestart(p) ==
  ~p.suppress /\ p.ws # 0 /\ p.sock[p.ws].state = "open" /\ p.peer[p.pc].stable

Recoverable(p, n) ==
  IF ~CanRestart(p) THEN page' = StopAndReconnect(p) /\ UNCHANGED jobs
  ELSE IF p.restarting THEN page' = p /\ UNCHANGED jobs
  ELSE /\ page' = [p EXCEPT !.restarting = TRUE, !.connecting = TRUE, !.connected = FALSE]
       /\ jobs' = jobs \cup {<<"ice", n>>}

\* The peer connection of the view changes its state; without video a connected
\* one is looked at again later.
ViewPeer(n, state) ==
  LET p == [page EXCEPT !.peer[n].state = state, !.connected = state = "connected"]
      up == StartHeartbeat([p EXCEPT !.connecting = FALSE, !.reconnect = FALSE,
                                     !.fallback = FALSE, !.restarting = FALSE])
  IN  IF state = "connected"
      THEN /\ \E video \in BOOLEAN :
                page' = Persist(IF video THEN up ELSE ScheduleVideoRecovery(up, page.epoch),
                                page.active, TRUE, FALSE)
           /\ UNCHANGED jobs
      ELSE Recoverable([p EXCEPT !.connecting = FALSE], n)

\* A background connection that is disconnected too long, or fails, is disposed.
BackgroundPeer(n, state) ==
  LET p == [page EXCEPT !.peer[n].state = state]
      grace == <<n, page.peer[n].tab, page.peer[n].epoch>>
  IN  /\ page' = CASE state = "connected"    -> [p EXCEPT !.doom = @ \ {grace}]
                   [] state = "disconnected" -> [p EXCEPT !.doom = @ \cup {grace}]
                   [] OTHER -> Dispose([p EXCEPT !.doom = @ \ {grace}], {page.peer[n].tab})
      /\ UNCHANGED jobs

Becomes ==
  {<<"connecting", "connected">>, <<"connecting", "failed">>, <<"connected", "disconnected">>,
   <<"disconnected", "connected">>, <<"disconnected", "failed">>}

PeerChanges(n, state) ==
  /\ <<page.peer[n].state, state>> \in Becomes
  /\ IF page.peer[n].state = "connected" THEN Moved ELSE Unmoved
  /\ CASE PeerCurrent(n) -> ViewPeer(n, state)
       [] page.peer[n].by = "background" -> BackgroundPeer(n, state)
       [] OTHER -> page' = [page EXCEPT !.peer[n].state = state] /\ UNCHANGED jobs
  /\ UNCHANGED tries

\* The offer for an ICE restart of n is made; by now the page may hold another peer
\* connection, or another socket.
IceOffered(n) ==
  LET w == page.ws
      p == [page EXCEPT !.restarting = FALSE, !.fallback = FALSE]
  IN  /\ <<"ice", n>> \in jobs
      /\ IF page.pc = n /\ page.peer[n].state # "closed" /\ w # 0 /\ page.sock[w].state = "open"
         THEN /\ page' = [page EXCEPT !.fallback = TRUE, !.peer[n].stable = FALSE]
              /\ tries' = [tries EXCEPT ![w].offered = n]
         ELSE page' = StopAndReconnect(p) /\ UNCHANGED tries
      /\ jobs' = jobs \ {<<"ice", n>>}
      /\ Unmoved

\* The video track of the connection ends.
VideoTrackEnded(n) ==
  LET p == Persist(page, page.active, TRUE, FALSE)
  IN  /\ page.pc = n /\ page.peer[n].state \in {"connected", "disconnected"}
      /\ page' = IF p.suppress THEN p ELSE StopAndReconnect(p)
      /\ UNCHANGED <<jobs, tries, moves>>

\* The control channel is closed, fails or is stalled.
ControlLost(n) ==
  /\ page.pc = n /\ page.peer[n].state \in {"connected", "disconnected"}
  /\ ~page.suppress
  /\ page' = StopAndReconnect(Wired(page))
  /\ UNCHANGED <<jobs, tries, moves>>

------------------------------------------------------------------------------
(* Timers.                                                                 *)

FallbackDue ==
  LET p == [page EXCEPT !.fallback = FALSE]
  IN  /\ page.fallback
      /\ page' = IF p.suppress \/ p.active = None THEN p
                 ELSE IF p.connected THEN [p EXCEPT !.restarting = FALSE]
                 ELSE StopAndReconnect(p)
      /\ UNCHANGED <<jobs, tries, moves>>

RecoveryDue(video) ==
  LET p == [page EXCEPT !.recovery = 0]
  IN  /\ page.recovery # 0
      /\ page' = IF \/ p.suppress \/ page.recovery # p.epoch
                    \/ video /\ p.pc # 0 /\ p.peer[p.pc].state = "connected"
                 THEN p ELSE StopAndReconnect(p)
      /\ UNCHANGED <<jobs, tries, moves>>

\* The grace of a connection that was disconnected in the background has passed.
GraceOver(d) ==
  /\ d \in page.doom
  /\ page' = LET p == [page EXCEPT !.doom = @ \ {d}]
             IN  IF page.peer[d[1]].state = "disconnected" THEN Dispose(p, {d[2]}) ELSE p
  /\ UNCHANGED <<jobs, tries, moves>>

------------------------------------------------------------------------------
(* What the user does.  Each of these functions awaits the route, the      *)
(* mapping profile and the device's settings before it goes on.            *)

Settled == Patient =>
  /\ jobs = {}
  /\ \A n \in DOMAIN tries : tries[n].phase \notin {"ticket", "config"}

\* Mutated: the old tab's connection is kept under the tab that is selected.
ActivateTab_Late(k) ==
  LET p == IF page.active \in {None, k} THEN page
           ELSE Stop(DisableAutoReconnect([page EXCEPT !.active = k]), TRUE, k, FALSE)
  IN  /\ Settled /\ page.shown /\ k \in page.tabs /\ ~(k = page.active /\ page.pc # 0)
      /\ Moved
      /\ page' = EnableAutoReconnect([p EXCEPT !.active = k])
      /\ jobs' = jobs \cup {<<"switch", k>>}
      /\ UNCHANGED tries

\* Mutated: the connection of the other tab is not stopped first.
ActivateTab_Unstopped(k) ==
  /\ Settled /\ page.shown /\ k \in page.tabs /\ ~(k = page.active /\ page.pc # 0)
  /\ Moved
  /\ page' = EnableAutoReconnect([page EXCEPT !.active = k])
  /\ jobs' = jobs \cup {<<"switch", k>>}
  /\ UNCHANGED tries

ActivateTab(k) ==
  LET p == IF page.active \in {None, k} THEN page
           ELSE Stop(DisableAutoReconnect(page), TRUE, page.active, FALSE)
  IN  /\ Settled /\ page.shown /\ k \in page.tabs /\ ~(k = page.active /\ page.pc # 0)
      /\ Moved
      /\ page' = EnableAutoReconnect([p EXCEPT !.active = k])
      /\ jobs' = jobs \cup {<<"switch", k>>}
      /\ UNCHANGED tries

CloseTab(k, next) ==
  LET rest == page.tabs \ {k}
      gone == [page EXCEPT !.tabs = rest, !.saved[k] = 0]
  IN  /\ Settled /\ page.shown /\ k \in page.tabs
      /\ next \in (IF rest = {} THEN {None} ELSE rest)
      /\ Moved
      /\ IF k = page.active
         THEN /\ page' = EnableAutoReconnect(
                   [ClearPersisted(StopNow(DisableAutoReconnect(gone)), k) EXCEPT !.active = next])
              /\ jobs' = IF next = None THEN jobs ELSE jobs \cup {<<"start", None>>}
         ELSE page' = Dispose(gone, {k}) /\ UNCHANGED jobs
      /\ UNCHANGED tries

Leave ==
  /\ Settled /\ page.shown
  /\ Moved
  /\ page' = [Stop(DisableAutoReconnect(page), TRUE, page.active, TRUE) EXCEPT !.shown = FALSE]
  /\ UNCHANGED <<jobs, tries>>

Return ==
  /\ Settled /\ ~page.shown
  /\ Moved
  /\ page' = EnableAutoReconnect([page EXCEPT !.shown = TRUE])
  /\ jobs' = jobs \cup {<<"return", None>>}
  /\ UNCHANGED tries

\* The page is loaded anew: only the tabs and the sessions they had are left of it.
Reload ==
  /\ page.shown
  /\ Moved
  /\ page' = [Page0 EXCEPT !.tabs = page.tabs, !.active = page.active, !.saved = page.saved,
                           !.shown = TRUE, !.stamp = page.stamp]
  /\ jobs' = {<<"return", None>>}
  /\ tries' = [n \in DOMAIN tries |-> [tries[n] EXCEPT !.phase = "over", !.offered = 0]]

\* The view takes up the connection it kept for tab k; one that went stale is disposed of.
Restorable(k, late) ==
  k # None /\ page.snap[k].pc # 0 /\ ~IsStale(page, k, late)

Switched(k) ==
  /\ <<"switch", k>> \in jobs
  /\ \E late \in BOOLEAN :
       IF Restorable(k, late) THEN Resting(Restored(page, k))
       ELSE ScheduleStartConnection(IF k = None \/ page.snap[k].pc = 0 THEN page
                                    ELSE Dispose(page, {k}))
  /\ jobs' = jobs \ {<<"switch", k>>}
  /\ Unmoved

\* The view was asked to open tab k by another one, or shows what it had.
Opened(k) ==
  /\ <<"return", None>> \in jobs
  /\ page' = [page EXCEPT !.tabs = @ \cup {k}, !.active = k]
  /\ jobs' = (jobs \ {<<"return", None>>}) \cup {<<"start", None>>}
  /\ UNCHANGED <<tries, moves>>

Returned ==
  /\ <<"return", None>> \in jobs
  /\ \E late \in BOOLEAN :
       IF \/ page.active = None
          \/ Restorable(page.active, late)
       THEN /\ Resting(IF page.active = None THEN page ELSE Restored(page, page.active))
            /\ jobs' = jobs \ {<<"return", None>>}
       ELSE /\ Resting(Dispose(page, {page.active}))
            /\ jobs' = (jobs \ {<<"return", None>>}) \cup {<<"start", None>>}
  /\ Unmoved

Started ==
  /\ <<"start", None>> \in jobs
  /\ ScheduleStartConnection(page)
  /\ jobs' = jobs \ {<<"start", None>>}
  /\ Unmoved

Next ==
  \/ ReconnectDue \/ FallbackDue
  \/ \E video \in BOOLEAN : RecoveryDue(video)
  \/ \E d \in page.doom : GraceOver(d)
  \/ \E n \in Attempt :
       \/ TicketGranted(n) \/ SessionGone(n) \/ TicketRefused(n) \/ TicketLost(n)
       \/ SocketOpens(n) \/ Offered(n) \/ OfferFailed(n) \/ IceOffered(n)
       \/ VideoTrackEnded(n) \/ ControlLost(n)
       \/ Answered(n) \/ SignalError(n) \/ SocketCloses(n)
       \/ \E state \in {"connected", "disconnected", "failed"} : PeerChanges(n, state)
  \/ \E k \in Tab :
       ActivateTab(k) \/ Switched(k) \/ Opened(k) \/ \E next \in Tab \cup {None} : CloseTab(k, next)
  \/ Leave \/ Reload \/ Return \/ Returned \/ Started

Spec == Init /\ [][Next]_vars

------------------------------------------------------------------------------
(* Properties.                                                             *)

\* What the view shows as connected was made for the tab that is active, and so
\* were the socket it signals over and the session whose lease it holds.  This and
\* the two properties below are about a user who is Patient.
ShownIsActive ==
  page.connected =>
    /\ page.pc # 0 /\ tries[page.pc].tab = page.active
    /\ page.ws # 0 => tries[page.ws].tab = page.active
    /\ page.session # 0 => tries[page.session].device = page.active

\* A connection kept for a tab is the one that was made for it, and at most one
\* connection that is not closed is kept: switching from tab to tab never leaves
\* two devices streaming to the page.
SnapshotOfTab ==
  LET kept == {k \in Tab : page.snap[k].pc # 0}
  IN  /\ \A k \in kept : tries[page.snap[k].pc].tab = k
      /\ \A k, l \in {k \in kept : page.peer[page.snap[k].pc].state # "closed"} : k = l

\* A view that was left holds no connection of its own, will not connect again and
\* is not connecting.
LeftQuiet ==
  ~page.shown => page.pc = 0 /\ page.ws = 0 /\ ~page.reconnect /\ ~page.connecting
=============================================================================
