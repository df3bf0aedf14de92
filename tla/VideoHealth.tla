----------------------------- MODULE VideoHealth -----------------------------
(***************************************************************************)
(* The web client watches the video of its connection                      *)
(* (useVideoStreamHealth.ts with videoStreamStateMachine.ts): it closes    *)
(* the signaling socket once the stream has been stable long enough, and   *)
(* it confirms a stall and lets the agent's view of the stream decide how  *)
(* to recover (videoRecoveryDecision.ts, ScreenCastView.ts).               *)
(*                                                                         *)
(* Time passes in ticks.  An age counts ticks up to the limit that matters *)
(* and a timer counts down; Off is "never" or "not armed".  What the page  *)
(* awaits (statistics, an answer of the agent, an offer) comes within the  *)
(* tick, but not at once: anything else may happen before it.  A view that  *)
(* is left is stopped as a whole (module Screencast) and is not here.       *)
(***************************************************************************)
EXTENDS Integers

CONSTANTS
  Detach,       \* stableDetachMs
  Stall,        \* stallThresholdMs
  Interval,     \* watchdogIntervalMs
  Confirm,      \* stallConfirmationCount
  Cooldown,     \* VIDEO_STREAM_STALL_RECOVERY_COOLDOWN_MS
  Observe,      \* VIDEO_STREAM_STALL_RECOVERY_OBSERVATION_MS
  MaxConn       \* bound: connections one after the other

ASSUME VideoHealthAssumption ==
  /\ \A c \in {Detach, Stall, Interval, Confirm, Cooldown, Observe, MaxConn} : c \in Nat \ {0}
  /\ Observe <= Cooldown

VARIABLES
  conn,    \* activeConnectionId
  seen,    \* the view is visible
  peer,    \* the peer connection is "connected" or not
  track,   \* the video track is live and bound to the video element
  sock,    \* the signaling socket: "none", "connecting", "open", "closing"
  media,   \* what the browser does with the stream, see Media
  h,       \* the memory of useVideoStreamHealth
  check,   \* the watchdog's check that waits for statistics, see Check
  rec,     \* recovery: cooldown and observation timer
  jobs,    \* the recovery functions that wait, see Job
  calm     \* ticks since the connection began or its last sign of trouble

vars == <<conn, seen, peer, track, sock, media, h, check, rec, jobs, calm>>

Off == -1

\* Packets have arrived and frames were decoded since the last statistics; the
\* element waits for data; ticks since a frame was shown.
Media == [flow |-> FALSE, decoded |-> FALSE, starved |-> FALSE, dark |-> 0]

NoCheck == [by |-> 0, current |-> FALSE]

Status == {"client_playback_starved_confirmed", "client_decode_stalled_confirmed",
           "client_render_stalled_confirmed"}

Job ==
  [kind : {"health"}, status : Status, attached : BOOLEAN]
    \cup [kind : {"ticket", "offer"}, status : {""}, attached : {FALSE}]

Waits(kind) == [kind |-> kind, status |-> "", attached |-> FALSE]

\* resetWatchdogState, and what resetSignalingDetachState clears.
Fresh ==
  [state |-> "idle", of |-> 0, since |-> Off, packet |-> Off, rendered |-> Off, base |-> FALSE,
   stalls |-> 0, decodes |-> 0, loop |-> 0, watch |-> Off, watched |-> 0,
   detach |-> Off, detacher |-> 0, detached |-> 0, expected |-> 0]

Init ==
  /\ conn = 1 /\ seen = TRUE /\ peer = FALSE /\ track = FALSE /\ sock = "connecting"
  /\ media = Media /\ h = Fresh /\ check = NoCheck
  /\ rec = [cool |-> Off, observe |-> Off, by |-> 0] /\ jobs = {} /\ calm = 0

------------------------------------------------------------------------------
(* The stream's state machine.                                             *)

MarkConnecting(g, c) == [g EXCEPT !.state = "connecting", !.of = c, !.since = Off]

MarkAdvanced(g, c) ==
  IF g.of # c \/ g.state \in {"idle", "connecting", "stalled"}
  THEN [g EXCEPT !.of = c, !.state = "observing", !.since = 0] ELSE g

\* Mutated: the stream goes on counting from its first advance.
MarkUnstable_TimerOnly(g, c) == [g EXCEPT !.detach = Off]

MarkUnstable(g, c) ==
  [g EXCEPT !.state = "stalled", !.of = c, !.since = Off, !.detach = Off,
            !.detached = IF @ # c THEN 0 ELSE @]

\* How long until the stream counts as stable, Off when it does not advance.  An
\* age of 0 is a short while: the clock has moved on since the stream advanced.
DetachDelay(g, c) == IF g.of # c \/ g.since = Off THEN Off ELSE Detach - g.since

------------------------------------------------------------------------------
(* The functions of the hook.                                              *)

ShouldMonitor(c) == seen /\ c = conn /\ peer /\ track

ResetWatchdogState(g) ==
  [Fresh EXCEPT !.watch = g.watch, !.watched = g.watched, !.loop = g.loop, !.detach = g.detach,
                !.detacher = g.detacher, !.detached = g.detached, !.expected = g.expected]

ScheduleDetach(g, c) ==
  IF \/ g.detach # Off \/ g.detached = c
     \/ sock # "open" \/ ~peer \/ ~track
     \/ DetachDelay(g, c) = Off
  THEN g ELSE [g EXCEPT !.detach = DetachDelay(g, c), !.detacher = c]

ScheduleWatchdog(g, c, delay) ==
  IF c # conn THEN [g EXCEPT !.watch = Off] ELSE [g EXCEPT !.watch = delay, !.watched = c]

\* getNextWatchdogDelay; 0 would be a check at once, and a check takes its time.
NextDelay(g) ==
  LET left == Stall - g.packet
  IN  IF g.packet = Off \/ left <= 0 \/ left > Interval THEN Interval ELSE left

Advanced(g, c) ==
  ScheduleDetach([MarkAdvanced(g, c) EXCEPT !.packet = 0, !.stalls = 0, !.decodes = 0], c)

\* start: a new watch of connection c.  Statistics asked for before it are stale.
StartMonitor(g, c) ==
  ScheduleWatchdog([MarkConnecting(ResetWatchdogState(g), c) EXCEPT !.loop = c], c, Interval)

Stale == check' = [check EXCEPT !.current = FALSE]

Starved == ~track \/ media.starved

\* isVideoDecodeRenderStalled
Frozen == ~media.starved /\ h.rendered >= Stall

------------------------------------------------------------------------------
(* What the browser, the network and the user do.                          *)

NoRecovery == UNCHANGED <<rec, jobs>>
NoConnection == UNCHANGED <<conn, seen, peer, track, sock>>

Older(age, limit) == IF age = Off \/ age = limit THEN age ELSE age + 1
Left(timer) == IF timer > 0 THEN timer - 1 ELSE timer

\* Time passes when no timer is due and nothing is awaited.
Tick ==
  /\ check = NoCheck /\ jobs = {}
  /\ 0 \notin {h.watch, h.detach, rec.observe}
  /\ media' = [media EXCEPT !.dark = Older(@, Stall)]
  /\ h' = [h EXCEPT !.since = Older(@, Detach), !.packet = Older(@, Stall),
                    !.rendered = Older(@, Stall), !.watch = Left(@), !.detach = Left(@)]
  /\ rec' = [rec EXCEPT !.cool = IF @ \in {Off, 0} THEN Off ELSE @ - 1, !.observe = Left(@)]
  /\ calm' = Older(calm, Detach)
  /\ UNCHANGED <<check, jobs>> /\ NoConnection

\* Mutated: a shown frame is not taken for an advance of the stream.
FrameShown_NotCounted(g) == ScheduleDetach(MarkAdvanced(g, g.loop), g.loop)

\* markRenderedFrameAdvanced
FrameShown(g) == IF ShouldMonitor(g.loop) THEN Advanced(g, g.loop) ELSE g

\* The element shows a frame and calls back, unless the callback is of another connection.
Frame ==
  /\ track /\ seen /\ ~media.starved
  /\ media' = [media EXCEPT !.dark = 0]
  /\ h' = IF h.loop = 0 THEN h
          ELSE LET g == FrameShown([h EXCEPT !.rendered = 0])
               IN  [ScheduleWatchdog(g, g.loop, Stall) EXCEPT
                      !.loop = IF @ = conn THEN @ ELSE 0]
  /\ UNCHANGED <<check, calm>> /\ NoConnection /\ NoRecovery

Packets(decoded) ==
  /\ peer /\ track
  /\ media' = [media EXCEPT !.flow = TRUE, !.decoded = @ \/ decoded]
  /\ UNCHANGED <<h, check, calm>> /\ NoConnection /\ NoRecovery

Starve ==
  /\ track
  /\ media' = [media EXCEPT !.starved = ~@]
  /\ UNCHANGED <<h, check, calm>> /\ NoConnection /\ NoRecovery

Visibility ==
  /\ seen' = ~seen
  /\ UNCHANGED <<conn, peer, track, sock, media, h, check, calm>> /\ NoRecovery

SocketOpens ==
  /\ sock = "connecting"
  /\ sock' = "open"
  /\ UNCHANGED <<conn, seen, peer, track, media, h, check, calm>> /\ NoRecovery

\* onVideoTrackBound: the video track of the connection arrives.
TrackBound ==
  /\ ~track
  /\ track' = TRUE
  /\ h' = StartMonitor(h, conn) /\ Stale
  /\ media' = [media EXCEPT !.dark = 0]
  /\ rec' = [rec EXCEPT !.observe = Off]
  /\ UNCHANGED <<conn, seen, peer, sock, jobs, calm>>

\* onPeerConnected
PeerConnects ==
  /\ ~peer
  /\ peer' = TRUE
  /\ h' = StartMonitor(h, conn) /\ Stale
  /\ media' = [media EXCEPT !.dark = 0]
  /\ rec' = [rec EXCEPT !.observe = Off]
  /\ UNCHANGED <<conn, seen, track, sock, jobs, calm>>

\* onPeerRecoverableFailure, onIceUnstable: the peer connection may go on after an
\* ICE restart.
PeerUnstable ==
  /\ peer
  /\ peer' \in BOOLEAN
  /\ h' = MarkUnstable(h, conn)
  /\ calm' = 0
  /\ UNCHANGED <<conn, seen, track, sock, media, check>> /\ NoRecovery

\* onSocketClosed: a connection that lives goes on without its socket.
SocketCloses ==
  /\ sock \in {"open", "closing"} /\ peer
  /\ sock' = "none"
  /\ h' = [h EXCEPT !.expected = 0, !.detached = conn]
  /\ UNCHANGED <<conn, seen, peer, track, media, check, calm>> /\ NoRecovery

\* The connection is stopped and another one made: cleanupMediaStream, and
\* resetSignalingDetachState.
Reconnect ==
  /\ conn < MaxConn
  /\ conn' = conn + 1 /\ peer' = FALSE /\ track' = FALSE /\ sock' = "connecting"
  /\ h' = Fresh /\ Stale
  /\ media' = Media /\ calm' = 0
  /\ rec' = [rec EXCEPT !.observe = Off]
  /\ UNCHANGED <<seen, jobs>>

------------------------------------------------------------------------------
(* The signaling socket is closed once the stream is stable.               *)

DetachDue ==
  LET c == h.detacher
      g == [h EXCEPT !.detach = Off]
  IN  /\ h.detach = 0
      /\ IF \/ c # conn \/ sock # "open" \/ ~peer \/ ~track \/ DetachDelay(g, c) = Off
         THEN h' = g /\ UNCHANGED sock
         ELSE IF DetachDelay(g, c) > 0
              THEN h' = ScheduleDetach(g, c) /\ UNCHANGED sock
              ELSE /\ h' = [g EXCEPT !.state = IF g.of = c THEN "detached" ELSE @,
                                     !.detached = c, !.expected = c]
                   /\ sock' = "closing"
      /\ UNCHANGED <<conn, seen, peer, track, media, check, calm>> /\ NoRecovery

------------------------------------------------------------------------------
(* The watchdog.                                                           *)

\* The timer fires: a stream that is not monitored is not watched any longer.
WatchdogDue ==
  /\ h.watch = 0
  /\ IF ShouldMonitor(h.watched)
     THEN /\ check' = [by |-> h.watched, current |-> TRUE]
          /\ h' = [h EXCEPT !.watch = Off]
     ELSE /\ h' = [h EXCEPT !.watch = Off, !.stalls = 0, !.decodes = 0]
          /\ Stale
  /\ UNCHANGED <<media, calm>> /\ NoConnection /\ NoRecovery

\* Mutated: a check that was overtaken leaves the watchdog to others.
Rewatched_Current(g, c) ==
  IF ShouldMonitor(c) /\ check.current /\ g.state # "stalled"
  THEN ScheduleWatchdog(g, c, NextDelay(g)) ELSE g

\* runScheduledWatchdog after its check.
Rewatched(g, c) == IF ShouldMonitor(c) THEN ScheduleWatchdog(g, c, NextDelay(g)) ELSE g

\* requestVideoKeyFrameReplay, the fetch of the agent's health and the observation
\* timer, at most once in a cooldown.
Recover(status) ==
  IF ~peer \/ ~track \/ rec.observe # Off \/ rec.cool # Off
  THEN NoRecovery
  ELSE /\ rec' = [cool |-> Cooldown, observe |-> Observe, by |-> conn]
       /\ jobs' = jobs \cup {[kind |-> "health", status |-> status, attached |-> sock = "open"]}

Confirmed(g, c, status) ==
  /\ h' = Rewatched(MarkUnstable(g, c), c)
  /\ calm' = 0
  /\ Recover(status)

NotConfirmed(g, c) == h' = Rewatched(g, c) /\ UNCHANGED calm /\ NoRecovery

\* The check ends: statistics could not be read, or they are not of interest any more.
CheckDropped ==
  /\ check # NoCheck
  /\ h' = Rewatched(h, check.by)
  /\ check' = NoCheck
  /\ UNCHANGED <<media, calm>> /\ NoConnection /\ NoRecovery

\* observeInboundVideoStream and the decision of handleWatchdog; without a baseline
\* the stream counts as advancing.
Judge(c) ==
  LET advanced == ~h.base \/ media.flow
      frozen   == h.base /\ media.flow /\ Frozen
      g        == [h EXCEPT !.base = TRUE]
      decodes  == [g EXCEPT !.decodes = h.decodes + 1, !.stalls = h.decodes + 1]
      stalls   == [g EXCEPT !.stalls = h.stalls + 1, !.decodes = 0]
  IN  IF advanced /\ ~frozen THEN NotConfirmed(Advanced(g, c), c)
      ELSE IF frozen
           THEN IF h.decodes + 1 < Confirm THEN NotConfirmed(decodes, c)
                ELSE Confirmed([decodes EXCEPT !.stalls = Confirm, !.decodes = Confirm], c,
                               IF media.decoded THEN "client_render_stalled_confirmed"
                               ELSE "client_decode_stalled_confirmed")
      ELSE IF h.packet = Off THEN NotConfirmed([g EXCEPT !.packet = 0], c)
      ELSE IF h.packet < Stall \/ ~Starved
           THEN NotConfirmed([g EXCEPT !.stalls = 0, !.decodes = 0], c)
      ELSE IF h.stalls + 1 < Confirm THEN NotConfirmed(stalls, c)
           ELSE Confirmed([stalls EXCEPT !.stalls = Confirm], c, "client_playback_starved_confirmed")

Judged ==
  /\ check.current /\ check.by = conn
  /\ Judge(conn)
  /\ media' = [media EXCEPT !.flow = FALSE, !.decoded = FALSE]
  /\ check' = NoCheck
  /\ NoConnection

------------------------------------------------------------------------------
(* Recovery.                                                               *)

\* The agent's health of the video: where it sees the trouble, the state of the
\* source, and whether its sender and transport are well.
Agent ==
  [origin : {"source", "sender", "transport", "unknown"}, source : {"static_but_alive", "packet_idle", ""},
   stalled : BOOLEAN, healthy : BOOLEAN]

NoAnswer == [origin |-> "unknown", source |-> "", stalled |-> FALSE, healthy |-> FALSE]

\* decideVideoRecovery; the peer connection was connected when the stall was confirmed.
Decision(client, agent) ==
  LET picture == client.status # "client_playback_starved_confirmed"
      static  == agent.source = "static_but_alive" /\ agent.healthy /\ client.attached
      source  == agent.origin = "source" \/ agent.stalled
  IN  IF picture /\ static THEN "observe"
      ELSE IF (picture /\ agent.source = "packet_idle") \/ source THEN "source_refresh"
      ELSE IF ~client.attached THEN "signaling_reattach"
      ELSE IF agent.origin = "transport" THEN "ice_restart"
      ELSE IF picture THEN "renegotiate"
      ELSE "keyframe_replay"

\* tryReattachSignaling up to its ticket
CanReattach == peer /\ sock \notin {"open", "connecting"}

\* tryVideoRenegotiation up to its offer
CanRenegotiate == peer /\ sock = "open"

\* The agent answered: replays, refreshes and ICE restarts leave this module's state
\* as it is, and a failed ICE restart reconnects (Reconnect).
HealthAnswered(job, agent) ==
  LET action == Decision(job, agent)
      next == CASE action = "signaling_reattach" /\ CanReattach -> {Waits("ticket")}
                [] action = "renegotiate" /\ CanRenegotiate     -> {Waits("offer")}
                [] OTHER -> {}
  IN  /\ job \in jobs /\ job.kind = "health"
      /\ jobs' = (jobs \ {job}) \cup next
      /\ UNCHANGED <<media, h, check, rec, calm>> /\ NoConnection

\* The ticket is there or not; the socket is made and wired to the connection that
\* is active by now.
TicketAnswered(granted) ==
  /\ Waits("ticket") \in jobs
  /\ jobs' = jobs \ {Waits("ticket")}
  /\ sock' = IF granted THEN "connecting" ELSE sock
  /\ UNCHANGED <<conn, seen, peer, track, media, h, check, rec, calm>>

OfferMade ==
  /\ Waits("offer") \in jobs
  /\ jobs' = jobs \ {Waits("offer")}
  /\ UNCHANGED <<media, h, check, rec, calm>> /\ NoConnection

\* The observation window has passed.
ObservationDue ==
  /\ rec.observe = 0
  /\ rec' = [rec EXCEPT !.observe = Off]
  /\ jobs' = IF rec.by = conn /\ track /\ CanRenegotiate
             THEN jobs \cup {Waits("offer")} ELSE jobs
  /\ UNCHANGED <<media, h, check, calm>> /\ NoConnection

Wait == Judged \/ CheckDropped \/ OfferMade
        \/ (\E granted \in BOOLEAN : TicketAnswered(granted))
        \/ (\E job \in jobs, agent \in Agent \cup {NoAnswer} : HealthAnswered(job, agent))

Timer == DetachDue \/ WatchdogDue \/ ObservationDue

Next ==
  \/ Tick \/ Frame \/ Starve \/ Visibility \/ SocketOpens \/ TrackBound \/ PeerConnects
  \/ PeerUnstable \/ SocketCloses \/ Reconnect
  \/ \E decoded \in BOOLEAN : Packets(decoded)
  \/ Timer \/ Wait

\* Time passes, timers fire, and what is awaited comes; statistics can be read.
Fairness ==
  /\ WF_vars(Tick) /\ WF_vars(Timer) /\ WF_vars(Wait) /\ SF_vars(Judged)

Spec == Init /\ [][Next]_vars /\ Fairness

------------------------------------------------------------------------------
(* Properties.                                                             *)

\* The page closes its signaling socket only when the stream of this connection has
\* gone on without a sign of trouble for the whole period, whatever was started,
\* stalled and rescheduled in between (the test "detaches signaling only after inbound RTP
\* has stayed stable for the configured period").
DetachedWhenStable == [][sock' = "closing" /\ sock # "closing" => calm = Detach]_vars

\* A recovery begins only when no frame was shown for the whole threshold: a
\* picture that moves, by frames or by packets, is never taken for a stall.
NoFalseAlarm == [][(\E job \in jobs' \ jobs : job.kind = "health") => media.dark = Stall]_vars

Starving == seen /\ peer /\ track /\ media.starved /\ ~media.flow

\* While it is watched, a stream that starves leads to a recovery, and again after each
\* cooldown.  (A view that was hidden at a check is watched again only after a frame.)
StallActedOn ==
  (Starving /\ (h.watch # Off \/ check.current)) ~> (jobs # {} \/ ~Starving)
=============================================================================
