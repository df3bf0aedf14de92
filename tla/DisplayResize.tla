--------------------------- MODULE DisplayResize ---------------------------
(***************************************************************************)
(* The size of a virtual display that follows the size of the page         *)
(* (ScreenCastView.ts): the events that ask for a new size, the delay they *)
(* share, the heartbeat that asks every 300 ms, and the connection that is *)
(* stopped, put aside with its tab and taken up again in the meantime.     *)
(*                                                                         *)
(* The message is sent at the moment of a timer or an event, on a channel  *)
(* that may be full; the device and the browser's events are external.     *)
(***************************************************************************)
EXTENDS Integers

CONSTANTS
  Stage,       \* the sizes of the stage, <<width, height>>
  MinSide,     \* MIN_NEW_DISPLAY_DIMENSION
  MaxLong,     \* MAX_NEW_DISPLAY_LONG_EDGE
  None,
  MaxMoves     \* a bound on the moves of the user and of the network

VARIABLES
  stage,      \* the size of the stage
  flex,       \* canUseFlexDisplay
  view,       \* the view is the active one: observer and listeners are attached
  link,       \* the connection in the view: isConnected, its control channel and
              \* whether the device was told the size of the stage; or None
  last,       \* lastDisplayResizeRequest
  timer,      \* pendingDisplayResizeTimer is set
  heartbeat,  \* flexDisplayHeartbeatTimer is set
  resized,    \* a callback of the ResizeObserver is due
  media,      \* a loadedmetadata event is due
  kept,       \* the connection that was put aside, or None
  dropped,    \* a request was not sent as the channel was full, and none was since
  moves

resizing == <<last, timer, heartbeat>>
events == <<stage, resized, media>>
vars == <<flex, view, link, resizing, events, kept, dropped, moves>>

-----------------------------------------------------------------------------
(* The size                                                                *)

Larger(m, n) == IF m > n THEN m ELSE n

\* The nearest whole number to m / n.
Rounded(m, n) == (2 * m + n) \div (2 * n)

\* At least the least dimension, and even.
RoundDisplayDimension(m, n) ==
  LET side == Larger(MinSide, Rounded(m, n)) IN side + (side % 2)

\* Of the shape of the stage, the long edge not above the most there may be; at a device
\* pixel ratio of one.
BuildAdaptiveDisplaySize(s) ==
  LET long   == Larger(s[1], s[2])
      target == IF long > MaxLong THEN MaxLong ELSE long
  IN <<RoundDisplayDimension(s[1] * target, long), RoundDisplayDimension(s[2] * target, long)>>

-----------------------------------------------------------------------------
(* What is done by several of the handlers                                 *)

\* The state the handlers work on.
Now == [link |-> link, last |-> last, timer |-> timer, beat |-> heartbeat,
        flex |-> flex, dropped |-> dropped]

Becomes(s) ==
  /\ link' = s.link /\ last' = s.last /\ timer' = s.timer /\ heartbeat' = s.beat
  /\ dropped' = s.dropped

ClearPendingDisplayResize(s) == [s EXCEPT !.timer = FALSE]

StopFlexDisplayHeartbeat(s) == [s EXCEPT !.beat = FALSE]

StartFlexDisplayHeartbeat(s) == [s EXCEPT !.beat = s.flex]

\* A request is worth sending and can be.
MustSend(s) ==
  /\ s.flex
  /\ s.link # None /\ s.link.connected /\ s.link.control = "open"
  /\ s.last # BuildAdaptiveDisplaySize(stage)

\* Sent or dropped, it counts as the last request.
Sent(s, full) ==
  [s EXCEPT !.last = BuildAdaptiveDisplaySize(stage),
            !.link.told = IF full THEN @ ELSE BuildAdaptiveDisplaySize(stage),
            !.dropped = full]

\* The possible outcomes of sendDisplayResizeIfNeeded.
SendDisplayResizeIfNeeded(s) ==
  IF MustSend(s) THEN {Sent(s, full) : full \in BOOLEAN} ELSE {s}

\* scheduleDisplayResize with a delay, and without.
ScheduleDisplayResize(s) == [s EXCEPT !.timer = s.flex]

ScheduleNow(s) ==
  LET cleared == ClearPendingDisplayResize(s)
  IN IF s.flex THEN SendDisplayResizeIfNeeded(cleared) ELSE {cleared}

-----------------------------------------------------------------------------
\* The display is created with the size of the stage, or is that of an earlier session,
\* of whatever size.
NewLink == [connected : {FALSE}, control : {"connecting"},
            told : {BuildAdaptiveDisplaySize(stage), None}]

Init ==
  /\ stage \in Stage
  /\ flex = FALSE
  /\ view = TRUE
  /\ link = None /\ kept = None
  /\ last = None /\ timer = FALSE /\ heartbeat = FALSE
  /\ resized = TRUE /\ media = FALSE
  /\ dropped = FALSE
  /\ moves = 0

Move == moves < MaxMoves /\ moves' = moves + 1

\* The page, and with it the stage, gets another size.
StageResizes(s) ==
  /\ Move /\ s # stage
  /\ stage' = s
  /\ resized' = view
  /\ UNCHANGED <<flex, view, link, resizing, media, kept, dropped>>

\* The ResizeObserver, and the resize event of the window.
HandleWindowResize ==
  /\ view /\ resized
  /\ resized' = FALSE
  /\ Becomes(ScheduleDisplayResize(Now))
  /\ UNCHANGED <<flex, view, stage, media, kept, moves>>

HandleVideoMetadataLoaded ==
  /\ view /\ media
  /\ media' = FALSE
  /\ Becomes(ScheduleDisplayResize(Now))
  /\ UNCHANGED <<flex, view, stage, resized, kept, moves>>

\* The picture comes in another size.
HandleVideoResize ==
  /\ Move /\ view /\ link # None
  /\ Becomes(ScheduleDisplayResize(Now))
  /\ UNCHANGED <<flex, view, events, kept>>

\* The settings of the device arrive, or the active tab is another one; Vue runs the
\* watcher before anything else happens.
FlexChanges ==
  /\ Move
  /\ flex' = ~flex
  /\ LET s == [Now EXCEPT !.flex = ~flex, !.last = None]
     IN IF s.flex THEN \E t \in ScheduleNow(s) : Becomes(StartFlexDisplayHeartbeat(t))
        ELSE Becomes(StopFlexDisplayHeartbeat(ClearPendingDisplayResize(s)))
  /\ UNCHANGED <<view, events, kept>>

TimerFires ==
  /\ timer
  /\ \E s \in SendDisplayResizeIfNeeded([Now EXCEPT !.timer = FALSE]) : Becomes(s)
  /\ UNCHANGED <<flex, view, events, kept, moves>>

HeartbeatTicks ==
  /\ heartbeat
  /\ \E s \in SendDisplayResizeIfNeeded(Now) : Becomes(s)
  /\ UNCHANGED <<flex, view, events, kept, moves>>

-----------------------------------------------------------------------------
(* The connection                                                          *)

\* What a control channel that opens does, be it the one in the view or an earlier one.
OnControlChannelOpen(s) == ScheduleNow([s EXCEPT !.last = None])

ControlOpens ==
  /\ link # None /\ link.control = "connecting"
  /\ \E s \in OnControlChannelOpen([Now EXCEPT !.link.control = "open"]) : Becomes(s)
  /\ UNCHANGED <<flex, view, events, kept, moves>>

\* The channel of the connection put aside opens.
KeptControlOpens ==
  /\ kept # None /\ kept.control = "connecting"
  /\ kept' = [kept EXCEPT !.control = "open"]
  /\ \E s \in OnControlChannelOpen(Now) : Becomes(s)
  /\ UNCHANGED <<flex, view, events, moves>>

\* onPeerStateChanged and then onPeerConnected; there may be a video track that is new.
PeerConnected ==
  /\ link # None /\ ~link.connected
  /\ Becomes(ScheduleDisplayResize([Now EXCEPT !.link.connected = TRUE]))
  /\ media' \in {media, TRUE}
  /\ UNCHANGED <<flex, view, stage, resized, kept, moves>>

PeerDisconnected ==
  /\ Move /\ link # None /\ link.connected
  /\ link' = [link EXCEPT !.connected = FALSE]
  /\ UNCHANGED <<flex, view, resizing, events, kept, dropped>>

\* The connection is closed.
Stopped(s) ==
  [ClearPendingDisplayResize(StopFlexDisplayHeartbeat(s)) EXCEPT
     !.link = None, !.last = None, !.dropped = FALSE]

Stop ==
  /\ Move /\ link # None
  /\ Becomes(Stopped(Now))
  /\ UNCHANGED <<flex, view, events, kept>>

\* A new connection; one put aside is disposed of.
Start ==
  /\ Move /\ view /\ link = None
  /\ \E new \in NewLink : Becomes([Stopped(Now) EXCEPT !.link = new])
  /\ kept' = None
  /\ UNCHANGED <<flex, view, events>>

\* Mutated: the last request is kept with the view.
DetachActiveConnectionFromView_Last(s) ==
  [ClearPendingDisplayResize(StopFlexDisplayHeartbeat(s)) EXCEPT
     !.link = None, !.dropped = FALSE]

\* A live connection leaves the view but is kept.
DetachActiveConnectionFromView(s) ==
  [ClearPendingDisplayResize(StopFlexDisplayHeartbeat(s)) EXCEPT
     !.link = None, !.last = None, !.dropped = FALSE]

\* What another tab, or another page, does to the connection of this one.
PutAside ==
  IF link = None THEN Becomes(Stopped(Now)) /\ UNCHANGED kept
  ELSE Becomes(DetachActiveConnectionFromView(Now)) /\ kept' = link

\* Another tab is activated.
SwitchTab ==
  /\ Move /\ view /\ PutAside
  /\ UNCHANGED <<flex, view, events>>

\* The tab of the connection put aside is activated; its video gets the element again.
Restore ==
  /\ Move /\ view /\ kept # None /\ link = None
  /\ \E connected \in BOOLEAN : link' = [kept EXCEPT !.connected = connected]
  /\ kept' = None
  /\ media' = TRUE
  /\ UNCHANGED <<flex, view, resizing, stage, resized, dropped>>

Deactivate ==
  /\ Move /\ view
  /\ view' = FALSE
  /\ PutAside
  /\ resized' = FALSE /\ media' = FALSE
  /\ UNCHANGED <<flex, stage>>

\* A new observer calls back at once.
Activate ==
  /\ ~view
  /\ view' = TRUE
  /\ resized' = TRUE
  /\ UNCHANGED <<flex, link, resizing, stage, media, kept, dropped, moves>>

Next ==
  \/ \E s \in Stage : StageResizes(s)
  \/ HandleWindowResize \/ HandleVideoMetadataLoaded \/ HandleVideoResize
  \/ FlexChanges \/ TimerFires \/ HeartbeatTicks
  \/ ControlOpens \/ KeptControlOpens \/ PeerConnected \/ PeerDisconnected
  \/ Start \/ Stop \/ SwitchTab \/ Restore \/ Deactivate \/ Activate

Spec == Init /\ [][Next]_vars

-----------------------------------------------------------------------------
\* A virtual display that follows the page ends up with the page's size: while the
\* device was last told another one, something is left that will tell it -- the delay,
\* the heartbeat or an event on its way.  The heartbeat is no help after a reconnect,
\* which stops it, so the events and resets around a connection have to be enough.
\* Unless the request was dropped by a full channel: it counts as sent.
SizeReaches ==
  (/\ flex /\ view
   /\ link # None /\ link.connected /\ link.control = "open"
   /\ link.told # BuildAdaptiveDisplaySize(stage)
   /\ ~dropped) => timer \/ heartbeat \/ resized \/ media

=============================================================================
