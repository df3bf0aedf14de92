---------------------------- MODULE InputMapping ----------------------------
(***************************************************************************)
(* The key mapping of the screencast view: a profile binds keys, the mouse *)
(* button and the locked mouse to touches and keys on the device.  The     *)
(* runtime (inputMappingRuntime.ts) turns an event into commands, the      *)
(* bridge (inputMappingCommandBridge.ts) carries them out now or later,    *)
(* and useInputMappingRuntimeController.ts starts, pauses and stops it.    *)
(* Functions on the record of ScreenInput; the fields named here:          *)
(*   mode                 "off", "on" or "paused"                          *)
(*   hold, rapid, stick   activeTouches, activeRapidTapBindings, and the   *)
(*                        keys that push the one joystick group            *)
(*   look                 mouseLookState.isDown                            *)
(*   bid                  the bridge's pointer of each pointer key         *)
(*   timers               the delayed touches of a pointer key, in the     *)
(*                        order of their times                             *)
(*   repeat               "none", or whether a repeated tap is down        *)
(*   full                 bound: a new pointer was wanted and none is left *)
(* Touches have no place here: a move only says that one was sent.         *)
(***************************************************************************)
EXTENDS TouchInput

CONSTANTS
  Key,       \* the keys of the keyboard that the profiles bind
  Fire,      \* the left mouse button, as a trigger
  Stick,     \* the pointer key of the joystick group
  Look,      \* the pointer key of the mouse look
  MaxTimers  \* bound: delayed touches of one pointer key

Trigger == Key \cup {Fire}

ASSUME SlotAssumption == Slot = Trigger \cup {Stick, Look}

\* What a trigger can be bound to: a tap or a swipe, a burst of taps, taps while the key
\* is held, a held touch, a direction of the joystick, a key of the device.
Kind == {"tap", "swipe", "burst", "rapid", "hold", "stick", "hidKey", "none"}

\* A command: a touch of a pointer key now or after a delay, the start or the end of a
\* repeated tap, or a key of the device.
Now(k, phase) == [slot |-> k, do |-> phase, wait |-> FALSE]
Later(k, phase) == [slot |-> k, do |-> phase, wait |-> TRUE]

-----------------------------------------------------------------------------
(* The runtime: each function gives the new state and the commands.        *)

Result(s, commands) == [s |-> s, commands |-> commands]

JoystickDown(s, k) ==
  Result([s EXCEPT !.stick = @ \cup {k}],
         IF s.stick = {} THEN <<Now(Stick, "down"), Now(Stick, "move")>>
         ELSE <<Now(Stick, "move")>>)

JoystickUp(s, k) ==
  LET rest == s.stick \ {k}
  IN Result([s EXCEPT !.stick = rest],
            IF rest # {} THEN <<Now(Stick, "move")>>
            ELSE IF s.stick = {} THEN <<>>
            ELSE <<Now(Stick, "move"), Now(Stick, "up")>>)

\* What pressing a bound trigger does.
BindingDown(s, k) ==
  LET kind == s.profile[k]
  IN CASE kind = "tap" -> Result(s, <<Now(k, "down"), Later(k, "up")>>)
       [] kind = "swipe" -> Result(s, <<Now(k, "down"), Later(k, "move"), Later(k, "up")>>)
       [] kind = "burst" -> Result(s, <<Now(k, "down"), Later(k, "up"),
                                        Later(k, "down"), Later(k, "up")>>)
       [] kind = "rapid" /\ k \notin s.rapid ->
            Result([s EXCEPT !.rapid = @ \cup {k}], <<Now(k, "repeat")>>)
       [] kind = "hold" /\ k \notin s.hold ->
            Result([s EXCEPT !.hold = @ \cup {k}], <<Now(k, "down")>>)
       [] kind = "stick" -> JoystickDown(s, k)
       [] kind = "hidKey" -> Result(s, <<Now(k, "keydown")>>)
       [] OTHER -> Result(s, <<>>)

BindingUp(s, k) ==
  LET kind == s.profile[k]
  IN CASE kind = "rapid" -> Result([s EXCEPT !.rapid = @ \ {k}], <<Now(k, "stop")>>)
       [] kind = "hold" /\ k \in s.hold ->
            Result([s EXCEPT !.hold = @ \ {k}], <<Now(k, "up")>>)
       [] kind = "stick" -> JoystickUp(s, k)
       [] kind = "hidKey" -> Result(s, <<Now(k, "keyup")>>)
       [] OTHER -> Result(s, <<>>)

\* An auto-repeated key only repeats taps and swipes.
HandleBindings(s, k, down, again) ==
  IF ~down THEN BindingUp(s, k)
  ELSE IF again /\ s.profile[k] \notin {"tap", "swipe"} THEN Result(s, <<>>)
  ELSE BindingDown(s, k)

ReleaseMouseLook(s) ==
  Result([s EXCEPT !.look = FALSE], IF s.look THEN <<Now(Look, "up")>> ELSE <<>>)

\* The mouse moved: while it is locked the look follows it, and a look that leaves its
\* range ("far") is lifted and put down at its start again.
HandleMouseLook(s, far) ==
  IF ~s.profile[Look] THEN Result(s, <<>>)
  ELSE IF ~s.locked THEN ReleaseMouseLook(s)
  ELSE Result([s EXCEPT !.look = TRUE],
              (IF s.look THEN <<>> ELSE <<Now(Look, "down")>>)
              \o IF far THEN <<Now(Look, "move"), Now(Look, "up"), Now(Look, "down")>>
                 ELSE <<Now(Look, "move")>>)

\* The button lifts the look before it does what it is bound to.
HandleMouseButton(s, down) ==
  LET b == HandleBindings(s, Fire, down, FALSE)
  IN IF ~down THEN b
     ELSE LET l == ReleaseMouseLook(b.s) IN Result(l.s, l.commands \o b.commands)

ReleaseAll(s) ==
  Result([s EXCEPT !.hold = {}, !.stick = {}, !.rapid = {}, !.look = FALSE],
         SetToSeq({Now(k, "up") : k \in s.hold})
         \o (IF s.stick # {} THEN <<Now(Stick, "up")>> ELSE <<>>)
         \o SetToSeq({Now(k, "stop") : k \in s.rapid})
         \o ReleaseMouseLook(s).commands)

-----------------------------------------------------------------------------
(* The bridge.                                                             *)

Unused(s) == Command \ ({s.bid[k] : k \in Slot} \cup Known(s) \cup s.pressed
                        \cup {s.queue[i].p : i \in DOMAIN s.queue})

\* getOrCreatePointerId: the bridge counts its pointers up; the model takes one that
\* nothing refers to any more.
WithPointer(s, k) ==
  IF s.bid[k] # None THEN s
  ELSE IF Unused(s) = {} THEN [s EXCEPT !.full = TRUE]
  ELSE LET p == CHOOSE c \in Unused(s) : TRUE
       IN [s EXCEPT !.bid[k] = p, !.has = @ \ {p}, !.cmds = @ \ {p}, !.moves = @ \ {p}]

DropPointer(s, k) == [s EXCEPT !.bid[k] = None]

TouchNow(s, k, phase) ==
  LET t == WithPointer(s, k)
  IN IF t.bid[k] = None THEN Answer(t, FALSE) ELSE SendCommand(t, t.bid[k], phase)

\* A tap that is down is cancelled, and its pointer is kept until the up was sent.
StopTouchRepeat(s, k) ==
  LET t == [s EXCEPT !.repeat[k] = "none"]
  IN Answer(IF s.repeat[k] = "down" THEN TouchNow(t, k, "up") ELSE DropPointer(t, k), TRUE)

\* A mapped key: on the device's own keyboard, or as an Android key event.
SendInputMappingHidKey(s, phase) ==
  Answer(SendKeyboardCode(s, phase = "keydown", "mapped"), TRUE)

\* A repeated tap goes down at once, after one that was on was ended; its timers come
\* later.  What stop() did meanwhile does not end this repetition.
Repeats(t, c) ==
  IF c.do = "repeat" THEN Answer([t EXCEPT !.repeat[c.slot] = "down"], TRUE) ELSE t

ExecuteNow(s, c) ==
  CASE c.do = "stop" -> StopTouchRepeat(s, c.slot)
    [] c.do \in {"keydown", "keyup"} -> SendInputMappingHidKey(s, c.do)
    [] OTHER -> Repeats(TouchNow(IF c.do = "repeat" THEN StopTouchRepeat(s, c.slot) ELSE s,
                                 c.slot, IF c.do = "repeat" THEN "down" ELSE c.do), c)

ExecuteOne(s, c) ==
  IF c.wait THEN Answer([s EXCEPT !.timers[c.slot] = Append(@, c.do)], TRUE)
  ELSE ExecuteNow(s, c)

Tried(u, before) == Answer(u, before \/ u.ok)

\* Every command is tried; the answer says whether any was carried out.
Execute(r) ==
  FoldLeft(LAMBDA t, c: Tried(ExecuteOne(t, c), t.ok), Answer(r.s, FALSE), r.commands)

\* Mutated: only the delayed touches are dropped, a repeated tap goes on.
ClearPendingCommands_Delayed(s) == [s EXCEPT !.timers = [k \in Slot |-> <<>>]]

\* Delayed touches are dropped and repeated taps ended.
ClearPendingCommands(s) ==
  FoldSet(LAMBDA k, t: StopTouchRepeat(t, k), [s EXCEPT !.timers = [k \in Slot |-> <<>>]],
          {k \in Slot : s.repeat[k] # "none"})

\* A delayed touch is due; the one before it on its pointer key was due before.
TimerDue(s, k) ==
  TouchNow([s EXCEPT !.timers[k] = Tail(@)], k, Head(s.timers[k]))

\* The interval of a repeated tap, and the time it stays down.
RepeatTick(s, k) == [TouchNow(s, k, "down") EXCEPT !.repeat[k] = "down"]

RepeatLifts(s, k) == TouchNow([s EXCEPT !.repeat[k] = "up"], k, "up")

-----------------------------------------------------------------------------
(* The controller.                                                         *)

Release(s) == Execute(ReleaseAll(ClearPendingCommands(s)))

HandleKeyboard(s, k, down, again) ==
  IF s.mode = "on" THEN Execute(HandleBindings(s, k, down, again)) ELSE Answer(s, FALSE)

HandleButton(s, down) ==
  IF s.mode = "on" THEN Execute(HandleMouseButton(s, down)) ELSE Answer(s, FALSE)

HandleMouseMove(s, far) ==
  IF s.mode = "on" THEN Execute(HandleMouseLook(s, far)) ELSE Answer(s, FALSE)

TogglePaused(s) ==
  CASE s.mode = "on" -> Release([s EXCEPT !.mode = "paused"])
    [] s.mode = "paused" -> [s EXCEPT !.mode = "on"]
    [] OTHER -> s

\* A profile is loaded or saved: what the old one held is released, its delayed touches
\* still come.
SetProfile(s) == [Execute(ReleaseAll(s)) EXCEPT !.mode = "on"]

ClearProfile(s) == [Release(s) EXCEPT !.mode = "off"]

=============================================================================
