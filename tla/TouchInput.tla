----------------------------- MODULE TouchInput -----------------------------
(***************************************************************************)
(* From a pointer of the page to a touch on the device: the queue of the   *)
(* control channel (useScrcpyControlChannels.ts), the pointers and their   *)
(* releases (useTouchPointerInput.ts, usePointerControlQueues.ts), and     *)
(* what stopping the connection does to them.  Functions on the record of  *)
(* ScreenInput; the fields named here:                                     *)
(*   act, cmds       activePointers, commandPointerIds                     *)
(*   pend, rel       pendingPointerReleases, queuedPointerReleases         *)
(*   has             the pointers with a scrcpy pointer id                 *)
(*   moves           pendingPointerMoves                                   *)
(*   frame, relFrame, moveFrame   which animation frames are requested     *)
(*   queue           the payloads that wait: a down of pointer p, or an up *)
(*                   whose release is still the one that counts ("now")    *)
(*                   or not ("old": the generation was bumped)             *)
(*   room            how many payloads the channel takes before its buffer *)
(*                   is over the limit                                     *)
(*   since           controlBlockedSince: "no", "yes", or longer ago than  *)
(*                   the stall timeout ("late")                            *)
(*   sick            isControlChannelUnhealthy                             *)
(*   mch             the channel for moves: none, open, full or broken     *)
(*   seen            the picture has a size, so points can be mapped       *)
(*   pressed         the touches the device holds down                     *)
(*   left            those the page was told to forget (it disconnected)   *)
(*   kept            the view has let the connection go; the hook of the   *)
(*                   control channel still has its channel                 *)
(*   spoiled         a pressed pointer may have been lost track of: see    *)
(*                   Swallow, or the picture had no size for a while       *)
(*   ok              what the last of these functions returned             *)
(* A scrcpy pointer id is that of its pointer until the id is given back,  *)
(* so the model names both by the pointer.                                 *)
(***************************************************************************)
EXTENDS HidInput, SequencesExt

CONSTANTS
  Touch,    \* the fingers on the page's picture
  Mouse,    \* the mouse, pointer 1
  Command,  \* the pointers the key mapping makes
  Slot,     \* the pointer keys of the key mapping
  None,     \* no pointer
  Many      \* room without a limit

Known(s) == s.act \cup s.pend \cup s.rel

Answer(s, v) == [s EXCEPT !.ok = v]

-----------------------------------------------------------------------------
\* What stop() does when nothing can be sent any more, which is how it runs when the
\* channel became unhealthy: the mapping is released and everything forgotten.
Forget(s) ==
  [s EXCEPT !.hold = {}, !.stick = {}, !.rapid = {}, !.look = FALSE,
            !.timers = [k \in Slot |-> <<>>], !.repeat = [k \in Slot |-> "none"],
            !.bid = [k \in Slot |-> None],
            !.act = {}, !.cmds = {}, !.pend = {}, !.rel = {}, !.has = {}, !.moves = {},
            !.queue = <<>>, !.since = "no",
            !.frame = FALSE, !.relFrame = FALSE, !.moveFrame = FALSE,
            !.left = @ \cup s.pressed]

Disconnected(s) ==
  [ReleaseDevices(s) EXCEPT !.st = "none", !.mch = "none", !.connected = FALSE,
                            !.kept = FALSE]

\* markControlChannelUnhealthy: once, and while there is a connection it is stopped.
Sick(s) ==
  IF s.sick THEN s
  ELSE LET ill == [s EXCEPT !.sick = TRUE, !.frame = FALSE]
       IN IF s.st = "none" \/ s.kept THEN ill ELSE Disconnected(Forget(ill))

\* Mutated: a flush that found the buffer full is not tried again.
Blocked_Once(s) ==
  IF s.since = "late" THEN Sick(s) ELSE [s EXCEPT !.since = "yes"]

\* The buffer is over its limit: wait a frame, or give up after the stall timeout.
Blocked(s) ==
  IF s.since = "late" THEN Sick(s) ELSE [s EXCEPT !.since = "yes", !.frame = TRUE]

ClearLocalPointerState(s, p) ==
  [s EXCEPT !.act = @ \ {p}, !.cmds = @ \ {p}, !.pend = @ \ {p}, !.rel = @ \ {p},
            !.moves = @ \ {p}, !.has = @ \ {p}]

\* Mutated: the mapping gives up a pointer whose release was overtaken by a new press.
Finalize_Always(s, e) ==
  LET t == [s EXCEPT !.pend = @ \ {e.p}, !.rel = @ \ {e.p}, !.moves = @ \ {e.p},
                     !.bid = [k \in Slot |-> IF e.tell /\ @[k] = e.p THEN None ELSE @[k]]]
  IN IF e.fin = "old" \/ e.p \in s.act THEN t ELSE ClearLocalPointerState(t, e.p)

\* Mutated: a release forgets the pointer even if it was pressed again meanwhile.
Finalize_Any(s, e) ==
  [ClearLocalPointerState(s, e.p) EXCEPT
    !.bid = [k \in Slot |-> IF e.tell /\ @[k] = e.p THEN None ELSE @[k]]]

\* The up of a pointer was sent.  Unless the pointer is active or was pressed again,
\* the page forgets it, and so does the mapping.
Finalize(s, e) ==
  LET t == [s EXCEPT !.pend = @ \ {e.p}, !.rel = @ \ {e.p}, !.moves = @ \ {e.p}]
  IN IF e.fin = "old" \/ e.p \in s.act THEN t
     ELSE [ClearLocalPointerState(t, e.p) EXCEPT
            !.bid = [k \in Slot |-> IF e.tell /\ @[k] = e.p THEN None ELSE @[k]]]

SendPayload(s, e) ==
  IF e.fin = "down"
  THEN [s EXCEPT !.pressed = @ \cup {e.p}, !.left = @ \ {e.p}]
  ELSE Finalize([s EXCEPT !.pressed = @ \ {e.p}, !.left = @ \ {e.p}], e)

Fitting(s) == IF s.room = Many \/ s.room >= Len(s.queue) THEN Len(s.queue) ELSE s.room

\* What did not fit waits for the next frame.
AfterFlush(t) == IF t.queue = <<>> THEN [t EXCEPT !.frame = FALSE] ELSE Blocked(t)

\* flushPendingPointerControlPayloads
Flush(s) ==
  IF s.sick \/ s.st # "open" THEN s
  ELSE IF s.queue = <<>> THEN [s EXCEPT !.frame = FALSE]
  ELSE IF s.room = 0 THEN Blocked(s)
  ELSE IF s.fails THEN Sick([s EXCEPT !.since = "no"])
  ELSE LET n == Fitting(s)
       IN AfterFlush(
            [FoldLeft(SendPayload, [s EXCEPT !.since = "no"], SubSeq(s.queue, 1, n)) EXCEPT
               !.queue = SubSeq(@, n + 1, Len(@)), !.room = IF @ = Many THEN Many ELSE @ - n])

Enqueued(t) ==
  IF t.sick THEN Answer(t, FALSE) ELSE Answer([t EXCEPT !.frame = @ \/ t.queue # <<>>], TRUE)

Enqueue(s, e) ==
  IF s.sick THEN Answer(s, FALSE) ELSE Enqueued(Flush([s EXCEPT !.queue = Append(@, e)]))

-----------------------------------------------------------------------------
BumpPointerGeneration(s, p) ==
  [s EXCEPT !.queue = [i \in DOMAIN @ |->
                        IF @[i].p = p /\ @[i].fin = "now" THEN [@[i] EXCEPT !.fin = "old"]
                        ELSE @[i]]]

ScheduleReleaseFlush(s) == [s EXCEPT !.relFrame = @ \/ s.pend # {}]

UpQueued(t, p) == IF t.ok THEN [t EXCEPT !.act = @ \ {p}] ELSE [t EXCEPT !.rel = @ \ {p}]

\* An up of p goes into the queue; p stops being active once it is there.
QueueUp(s, p, tell) ==
  UpQueued(Enqueue([s EXCEPT !.pend = @ \cup {p}, !.rel = @ \cup {p}],
                   [p |-> p, fin |-> "now", tell |-> tell]), p)

\* A release while an earlier one is queued is taken for done; if the pointer was pressed
\* again in between, nothing lifts it.
Swallow(s, p) == Answer([s EXCEPT !.spoiled = @ \/ p \in s.act], TRUE)

\* A release that failed is left pending for the next frame.
Released(t, p) ==
  IF t.ok THEN t
  ELSE Answer(ScheduleReleaseFlush([t EXCEPT !.rel = @ \ {p}, !.pend = @ \cup {p}]), FALSE)

\* releasePointer: try with the event, then with a synthetic one at the last place seen.
ReleasePointer(s, p) ==
  IF p \notin s.act \cup s.pend THEN Answer(s, FALSE)
  ELSE IF p \in s.rel THEN Swallow(s, p)
  ELSE Released(IF s.seen /\ p \in s.has THEN QueueUp(s, p, FALSE) ELSE Answer(s, FALSE), p)

ReleaseEach(s, ps) == FoldSet(LAMBDA p, t: ReleasePointer(t, p), s, ps)

RetryReleases(f) == ReleaseEach(f, f.pend \ f.rel)

RequestReleaseFrame(t) == [t EXCEPT !.relFrame = t.pend # {}]

FlushPendingReleases(s) == RequestReleaseFrame(RetryReleases(Flush(s)))

\* releaseAllPointers: the moves that wait are dropped, then each active pointer is
\* released.
ReleaseAllPointers(s) ==
  ReleaseEach([s EXCEPT !.moves = {}, !.moveFrame = FALSE], s.act)

\* A new finger releases the fingers that should be gone, but not the mapping's.
ReleaseLingering(s, p) == ReleaseEach(s, Known(s) \ (s.cmds \cup {p}))

DownQueued(t, p) == IF t.ok THEN [t EXCEPT !.act = @ \cup {p}, !.pend = @ \ {p}] ELSE t

\* The down of p: what follows depends on the queue taking it.
Press(s, p) ==
  DownQueued(Enqueue([s EXCEPT !.has = @ \cup {p}], [p |-> p, fin |-> "down", tell |-> FALSE]), p)

\* sendPointerMessage("down"): needs the view's channel and the picture.
SendDown(s, p) == IF s.st = "open" /\ ~s.kept /\ s.seen THEN Press(s, p) ELSE Answer(s, FALSE)

ReleaseKnown(s, p) == IF p \in Known(s) THEN ReleasePointer(s, p) ELSE s

HandlePointerDown(s, p) ==
  LET r == FlushPendingReleases(ReleaseLingering(ReleaseKnown(s, p), p))
  IN SendDown(BumpPointerGeneration(r, p), p)

\* pointerup at the picture, and the same event again at the window.
HandlePointerUp(s, p) == ReleasePointer(ReleasePointer(s, p), p)

-----------------------------------------------------------------------------
\* The channel moves are sent over: that for moves while it is open, else the control
\* channel.
MoveChannel(s) == IF s.mch # "none" THEN s.mch
                  ELSE IF s.st # "open" THEN "none"
                  ELSE IF s.room = 0 THEN "full"
                  ELSE IF s.fails THEN "broken" ELSE "open"

ScheduleMoveFlush(s) == [s EXCEPT !.moveFrame = @ \/ s.moves # {}]

\* A channel for moves that throws is given up.
SendMoves(f) ==
  LET ch == MoveChannel(f)
      sendable == f.moves \cap f.has
  IN CASE ch = "none" -> f
       [] ch = "full" -> ScheduleMoveFlush(f)
       [] ch = "broken" /\ sendable # {} ->
            ScheduleMoveFlush([f EXCEPT !.mch = "none", !.moves = {CHOOSE p \in sendable : TRUE}])
       [] OTHER -> [f EXCEPT !.moves = {}]

\* flushPendingPointerMoves
FlushMoves(s) == SendMoves(Flush(s))

\* A move waits for its sample interval, or goes at once ("soon") when none is awaited
\* and the last one is long enough ago.
SendMove(s, p, soon) ==
  LET t == [s EXCEPT !.moves = @ \cup {p}]
      f == IF MoveChannel(t) # "none" /\ soon /\ ~t.moveFrame THEN FlushMoves(t) ELSE t
  IN Answer(ScheduleMoveFlush(f), TRUE)

HandlePointerMove(s, p, soon) ==
  IF p \in s.act /\ s.seen THEN SendMove(s, p, soon) ELSE s

-----------------------------------------------------------------------------
CommandDown(t, p) == IF t.ok THEN [t EXCEPT !.cmds = @ \cup {p}] ELSE t

CommandUp(t) == IF t.ok THEN t ELSE Answer(ScheduleReleaseFlush(t), FALSE)

\* A command of the mapping: sendPointerRatiosCommand behind the touch bridge, which
\* needs the picture.  A down does not ask whether the channel is open; a move is left
\* to its frame, which may be the next thing to happen.
SendCommand(s, p, phase) ==
  IF ~s.seen THEN Answer(s, FALSE)
  ELSE CASE phase = "move" ->
              IF p \in s.act THEN SendMove(s, p, FALSE) ELSE Answer(s, FALSE)
         [] phase = "down" ->
              CommandDown(
                Press(BumpPointerGeneration(FlushPendingReleases(ReleaseKnown(s, p)), p), p), p)
         [] phase = "up" ->
              IF p \notin s.act \cup s.pend THEN Answer(s, FALSE)
              ELSE IF p \in s.rel THEN Swallow(s, p)
              ELSE IF p \notin s.has THEN Answer(s, FALSE)
              ELSE CommandUp(QueueUp(s, p, TRUE))

=============================================================================
