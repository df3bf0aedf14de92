----------------------------- MODULE ScreenInput -----------------------------
(***************************************************************************)
(* What the user does on the screencast view and what reaches the device:  *)
(* fingers, mouse, keyboard and key mapping (ScreenCastView.ts) over the   *)
(* channels of one connection that may block, break and be made again, and *)
(* that is kept in the background while another view is shown.             *)
(*                                                                         *)
(* The handlers call one another without awaiting anything, and stopping   *)
(* the connection may happen in the middle of one, so all the state is one *)
(* record that TouchInput, HidInput and InputMapping map to the next.      *)
(***************************************************************************)
EXTENDS InputMapping

CONSTANTS
  Profiles,  \* the profiles to explore, one a behaviour
  HidFirst,  \* whether the devices may be switched on at first
  MaxQueue,  \* bound: payloads that wait for the control channel
  MaxMoves   \* bound: things the user and the network do

VARIABLES
  s,     \* the input state of the page, and what the device has seen of it
  moves  \* how many bounded moves were made

vars == <<s, moves>>

Init ==
  /\ \E profile \in Profiles, hid \in HidFirst :
       s = [profile |-> profile, mode |-> "on", full |-> FALSE,
            hold |-> {}, stick |-> {}, rapid |-> {}, look |-> FALSE,
            bid |-> [x \in Slot |-> None], timers |-> [x \in Slot |-> <<>>],
            repeat |-> [x \in Slot |-> "none"],
            act |-> {}, cmds |-> {}, pend |-> {}, rel |-> {}, has |-> {}, moves |-> {},
            queue |-> <<>>, frame |-> FALSE, relFrame |-> FALSE, moveFrame |-> FALSE,
            st |-> "connecting", room |-> Many, fails |-> FALSE, since |-> "no",
            sick |-> FALSE, mch |-> "none", kept |-> FALSE, connected |-> FALSE,
            seen |-> TRUE, spoiled |-> FALSE, heldOver |-> FALSE, away |-> FALSE,
            pressed |-> {}, left |-> {},
            hidK |-> hid, hidM |-> hid, kMade |-> FALSE, mMade |-> FALSE, keys |-> {},
            btn |-> FALSE, dev |-> NoDevice,
            held |-> {}, mouse |-> FALSE, locked |-> FALSE, touched |-> FALSE, ok |-> TRUE]
  /\ moves = 0

\* The end of a handler; nothing happens past the bounds on pointers, payloads and timers.
Step(t) ==
  /\ ~t.full /\ Len(t.queue) <= MaxQueue /\ \A k \in Slot : Len(t.timers[k]) <= MaxTimers
  /\ s' = Answer(t, TRUE)

Free(t) == Step(t) /\ UNCHANGED moves

Move(t) == moves < MaxMoves /\ moves' = moves + 1 /\ Step(t)

-----------------------------------------------------------------------------
(* The channels.                                                           *)

\* stop(): the mapping lets go, everything else is forgotten; the connection is closed,
\* or left alive for later with the devices it created.  Keys that were down then stay
\* down ("heldOver"): the view has no channel to lift them.
Stop(t) == Disconnected(Forget(Release(t)))

Keep(f) ==
  IF f.st = "none" THEN Disconnected(f)
  ELSE [f EXCEPT !.connected = FALSE, !.kept = TRUE, !.heldOver = @ \/ f.keys # {} \/ f.btn]

Detach(t) == Keep(Forget(Release(t)))

\* start(): a kept connection is disposed, what is left stopped, new channels are set up.
Connect ==
  /\ s.st \in {"none", "gone"} \/ s.kept
  /\ LET old == [s EXCEPT !.st = IF s.kept THEN "none" ELSE @, !.away = FALSE]
     IN Move([Stop(old) EXCEPT !.st = "connecting", !.sick = FALSE, !.since = "no",
                               !.room = Many, !.fails = FALSE, !.dev = NoDevice,
                               !.pressed = {}, !.left = {}, !.heldOver = FALSE])

PeerConnects ==
  /\ s.st \in {"connecting", "open"} /\ ~s.connected /\ ~s.kept
  /\ Free([s EXCEPT !.connected = TRUE])

\* The control channel opens: what waited is sent, and the devices are plugged in.
ControlOpens ==
  /\ s.st = "connecting"
  /\ Free(InitializeDevices(FlushPendingReleases(
            Flush([s EXCEPT !.st = "open", !.sick = FALSE, !.since = "no"]))))

\* The channel for moves opens, or has room again.
MovesGo ==
  /\ s.st # "none" /\ s.mch \in {"none", "full"}
  /\ Move(FlushPendingReleases(FlushMoves([s EXCEPT !.mch = "open"])))

MovesStop(how) ==
  s.mch = "open" /\ Move([s EXCEPT !.mch = how])

\* Back at a view or tab whose connection was kept: its channel is taken up again.
Restore ==
  /\ s.kept
  /\ Move([s EXCEPT !.kept = FALSE, !.away = FALSE, !.sick = FALSE, !.since = "no",
                    !.connected = s.st # "connecting"])

\* Another view is shown: the page stops listening, lets go and frees the mouse.
Leave ==
  /\ s.st # "none" /\ ~s.kept
  /\ Move([Detach(ReleaseAllPointers(Release([s EXCEPT !.relFrame = FALSE, !.frame = FALSE,
                                                        !.moveFrame = FALSE])))
             EXCEPT !.away = TRUE, !.mouse = FALSE, !.held = {}, !.locked = FALSE])

\* Another tab is shown, by a click that needs the mouse.
SwitchTab == s.st # "none" /\ ~s.kept /\ ~s.locked /\ Move(Detach(s))

\* The buffer fills up; bufferedamountlow; too long a time passes; sends begin to throw.
BufferFills(n) == s.st = "open" /\ s.room = Many /\ Move([s EXCEPT !.room = n])

BufferLow ==
  /\ s.st = "open" /\ s.room # Many
  /\ Free(FlushPendingReleases(Flush([s EXCEPT !.room = Many, !.since = "no"])))

StallTimeout == s.since = "yes" /\ Free([s EXCEPT !.since = "late"])

SendBreaks == s.st = "open" /\ ~s.fails /\ Move([s EXCEPT !.fails = TRUE])

ControlCloses == s.st \in {"connecting", "open"} /\ Move(Sick([s EXCEPT !.st = "gone"]))

\* Animation frames.
FlushFrame == s.frame /\ Free(Flush([s EXCEPT !.frame = FALSE]))

ReleaseFrame == s.relFrame /\ Free(FlushPendingReleases([s EXCEPT !.relFrame = FALSE]))

MoveFrame == s.moveFrame /\ Free(FlushMoves([s EXCEPT !.moveFrame = FALSE]))

-----------------------------------------------------------------------------
(* The user.                                                               *)

\* Something the user does while the view is shown.
Act(t) == ~s.away /\ Move(t)

TouchDown(p) == Act([HandlePointerDown(s, p) EXCEPT !.touched = TRUE])

TouchUp(p) == p \in Known(s) /\ Act([HandlePointerUp(s, p) EXCEPT !.touched = TRUE])

TouchMoves(p, soon) ==
  p \in s.act /\ Act([HandlePointerMove(s, p, soon) EXCEPT !.touched = TRUE])

HasMouseLook == s.mode # "off" /\ s.profile[Look]

MouseMode == s.connected /\ HasMouseLook /\ s.locked

HidMouse == s.hidM /\ s.locked

\* The mouse as a finger; a new press takes a lost one back first.
MouseIsDown(b) == [b EXCEPT !.mouse = b.ok]

MousePress(t) ==
  MouseIsDown(SendDown(BumpPointerGeneration(ReleaseKnown(t, Mouse), Mouse), Mouse))

\* A press within half a second of a touch ("compat") is the browser repeating it.
MouseDown ==
  /\ Fire \notin s.held
  /\ LET h == [s EXCEPT !.held = @ \cup {Fire}]
     IN \E compat \in {c \in BOOLEAN : c => s.touched} :
        \E t \in {IF MouseMode THEN HandleButton(h, TRUE) ELSE Answer(h, FALSE)} :
          Act(IF t.ok THEN t
              ELSE IF HidMouse THEN SendMouseButton(t, TRUE)
              ELSE IF compat THEN t
              ELSE MousePress(t))

\* pointerup, which names the pointer the page pressed in some browsers ("same"), and
\* then mouseup.
MouseUp ==
  /\ Fire \in s.held
  /\ LET h == [s EXCEPT !.held = @ \ {Fire}]
     IN \E same \in BOOLEAN, compat \in {c \in BOOLEAN : c => s.touched} :
        \E r \in {IF same THEN ReleasePointer(h, Mouse) ELSE h} :
        \E t \in {IF r.connected /\ HasMouseLook /\ s.locked
                  THEN HandleButton(r, FALSE) ELSE Answer(r, FALSE)} :
          Act(IF t.ok THEN t
              ELSE IF HidMouse THEN SendMouseButton(t, FALSE)
              ELSE IF compat \/ ~t.mouse THEN t
              ELSE ReleasePointer([t EXCEPT !.mouse = FALSE], Mouse))

MouseMoves ==
  /\ MouseMode \/ (~HidMouse /\ s.mouse /\ Mouse \in s.act)
  /\ \E far \in BOOLEAN : \E t \in {IF MouseMode THEN HandleMouseMove(s, far) ELSE Answer(s, FALSE)} :
       Act(IF t.ok \/ HidMouse \/ ~t.mouse THEN t ELSE HandlePointerMove(t, Mouse, far))

\* The key itself goes to the device: on its own keyboard, or as an Android key event.
SendKeyboardEvent(t, down, k) == SendKeyboardCode(t, down, k)

\* Keys: the mapping is asked first.
KeyDown ==
  /\ s.connected
  /\ \E k \in Key :
     \E t \in {HandleKeyboard([s EXCEPT !.held = @ \cup {k}], k, TRUE, k \in s.held)} :
       Act(IF t.ok THEN t ELSE SendKeyboardEvent(t, TRUE, k))

KeyUp ==
  \E k \in Key \cap s.held :
     LET h == [s EXCEPT !.held = @ \ {k}]
     IN \E t \in {IF s.connected THEN HandleKeyboard(h, k, FALSE, FALSE) ELSE h} :
          Act(IF ~s.connected \/ t.ok THEN t ELSE SendKeyboardEvent(t, FALSE, k))

CanUseMouseLock == s.hidM \/ HasMouseLook

\* The mouse is locked or freed; the mapping hears of it as a movement of nothing.
LockChanges ==
  /\ s.locked \/ (s.connected /\ CanUseMouseLock)
  /\ Act(HandleMouseMove([s EXCEPT !.locked = ~@], FALSE))

PauseKey == s.connected /\ Act(TogglePaused(s))

LoadProfile == Act(SetProfile(s))

DisableProfile == s.mode # "off" /\ Act(ClearProfile(s))

\* The window loses the focus; keys that go up later are not seen.
Blur ==
  Act([ResetInputs(ReleaseAllPointers(Release(s))) EXCEPT !.mouse = FALSE, !.held = {}])

\* The device's settings arrive; the picture has no size for a while.
SettingsLoaded(k, m) ==
  (k # s.hidK \/ m # s.hidM) /\ Act([s EXCEPT !.hidK = k, !.hidM = m])

PictureGoes == s.seen /\ Act([s EXCEPT !.seen = FALSE, !.spoiled = TRUE])

PictureComes == ~s.seen /\ Free([s EXCEPT !.seen = TRUE])

\* The bridge's timers.
TouchDue == \E k \in {x \in Slot : s.timers[x] # <<>>} : Free(TimerDue(s, k))

TapAgain == \E k \in {x \in Slot : s.repeat[x] = "up"} : Free(RepeatTick(s, k))

TapLifts == \E k \in {x \in Slot : s.repeat[x] = "down"} : Free(RepeatLifts(s, k))

-----------------------------------------------------------------------------
Network ==
  \/ Connect \/ PeerConnects \/ ControlOpens \/ MovesGo \/ Restore \/ Leave \/ SwitchTab
  \/ \E how \in {"none", "full", "broken"} : MovesStop(how)
  \/ \E n \in {0, 1} : BufferFills(n)
  \/ BufferLow \/ StallTimeout \/ SendBreaks \/ ControlCloses

Browser ==
  \/ FlushFrame \/ ReleaseFrame \/ MoveFrame \/ PictureComes
  \/ TouchDue \/ TapAgain \/ TapLifts

User ==
  \/ \E p \in Touch :
       TouchDown(p) \/ TouchUp(p) \/ \E soon \in BOOLEAN : TouchMoves(p, soon)
  \/ MouseDown \/ MouseUp \/ MouseMoves \/ KeyDown \/ KeyUp
  \/ \E k, m \in BOOLEAN : SettingsLoaded(k, m)
  \/ LockChanges \/ PauseKey \/ LoadProfile \/ DisableProfile \/ Blur \/ PictureGoes

Next == Network \/ Browser \/ User

Spec == Init /\ [][Next]_vars

-----------------------------------------------------------------------------
QueuedUps == {s.queue[i].p : i \in {j \in DOMAIN s.queue : s.queue[j].fin # "down"}}

\* A touch that the device holds down is one the page still knows of: active, waiting to
\* be released, or with its up on the way.  Only what a disconnect cut off is lost.  (The
\* releases of useTouchPointerInput.ts against new presses of the same pointer, blocked
\* channels and the mapping's cancels.)
PressedKnown == s.pressed \ s.left \subseteq s.act \cup s.pend \cup QueuedUps

\* What waits will be tried again: a release that is not in the queue has its frame, and
\* so has the queue while the channel is open.  (usePointerControlQueues.ts,
\* useScrcpyControlChannels.ts: no early return may lose the last wake-up.)
ReleasesScheduled ==
  /\ s.pend \ s.rel # {} => s.relFrame
  /\ s.queue # <<>> /\ s.st = "open" /\ ~s.sick => s.frame

\* While the mapping is off or paused it holds nothing and has nothing in store: no
\* delayed touch, no repeated tap, no held touch.  (release() of
\* useInputMappingRuntimeController.ts over two layers of state.)
QuietWhenIdle ==
  s.mode # "on" =>
    /\ s.hold = {} /\ s.stick = {} /\ s.rapid = {} /\ ~s.look
    /\ \A k \in Slot : s.timers[k] = <<>> /\ s.repeat[k] = "none"

\* A touch the mapping holds belongs to a pointer key, so that the next command for that
\* key moves or lifts this touch and no other.  (onFinalized of the bridge against a
\* release that was overtaken by a new press.)
CommandsReachable ==
  s.spoiled \/ s.act \cap s.cmds \subseteq {s.bid[k] : k \in Slot}

\* Keyboard and mouse on the device are what the page believes: created when it thinks
\* so, with the keys and the button it holds.  (hidSession.ts across blur, settings,
\* kept and new connections; while no send throws and nothing was held when the view
\* let the connection go.)
HidInSync ==
  s.st = "open" /\ ~s.kept /\ ~s.fails /\ ~s.heldOver =>
    /\ s.kMade => s.dev.kMade /\ s.dev.keys = s.keys
    /\ s.mMade => s.dev.mMade /\ s.dev.btn = s.btn

=============================================================================
