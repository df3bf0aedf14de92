------------------------------ MODULE HidInput ------------------------------
(***************************************************************************)
(* The keyboard and the mouse that the screencast view plugs into the      *)
(* device over UHID (hidSession.ts), as functions on the record of the     *)
(* page's input state that ScreenInput describes.  The fields named here:  *)
(*   hidK, hidM    the device's settings ask for a keyboard, a mouse       *)
(*   kMade, mMade  the page has created the keyboard, the mouse            *)
(*   keys, btn     the keys, and whether the button, the page holds down   *)
(*   dev           what the device has: the same four things               *)
(*   st, fails     the control channel, and whether it throws when sending *)
(*   kept          the view has let the connection go, but it lives on     *)
(***************************************************************************)
EXTENDS Naturals, Sequences, FiniteSets

NoDevice == [kMade |-> FALSE, mMade |-> FALSE, keys |-> {}, btn |-> FALSE]

\* A message that is not queued reaches the device or is dropped with a log line; a
\* key or button report is never dropped because the buffer is full.
Goes(s) == s.st = "open" /\ ~s.fails /\ ~s.kept

\* The same over the channel for meta messages, or the control channel in its stead,
\* which the view does not let go.
MetaGoes(s) == s.st = "open" /\ ~s.fails

\* The reports that carry the page's keys or button: a device that was not created
\* drops them.
ReportKeys(s) ==
  IF Goes(s) /\ s.dev.kMade THEN [s EXCEPT !.dev.keys = s.keys] ELSE s

ReportButton(s) ==
  IF Goes(s) /\ s.dev.mMade THEN [s EXCEPT !.dev.btn = s.btn] ELSE s

CreateMouse(s) ==
  IF ~s.hidM \/ s.mMade THEN s
  ELSE LET made == [s EXCEPT !.btn = FALSE, !.mMade = TRUE]
       IN IF MetaGoes(s) THEN [made EXCEPT !.dev.mMade = TRUE, !.dev.btn = FALSE] ELSE made

CreateKeyboard(s) ==
  IF ~s.hidK \/ s.kMade THEN s
  ELSE LET made == [s EXCEPT !.keys = {}, !.kMade = TRUE]
       IN IF MetaGoes(s) THEN [made EXCEPT !.dev.kMade = TRUE, !.dev.keys = {}] ELSE made

InitializeDevices(s) == CreateKeyboard(CreateMouse(s))

ResetInputs(s) ==
  LET m == IF s.mMade THEN ReportButton([s EXCEPT !.btn = FALSE]) ELSE s
  IN IF s.kMade THEN ReportKeys([m EXCEPT !.keys = {}]) ELSE m

\* Mutated: the devices are destroyed but still count as created.
ReleaseDevices_Flags(s) ==
  LET r == ResetInputs(s)
      gone == IF MetaGoes(s)
              THEN [kMade |-> r.dev.kMade /\ ~r.kMade, mMade |-> r.dev.mMade /\ ~r.mMade,
                    keys |-> IF r.kMade THEN {} ELSE r.dev.keys,
                    btn |-> ~r.mMade /\ r.dev.btn]
              ELSE r.dev
  IN [r EXCEPT !.dev = gone, !.keys = {}, !.btn = FALSE]

\* Keys and button are let go, what was created is destroyed.
ReleaseDevices(s) ==
  LET r == ResetInputs(s)
      gone == IF MetaGoes(s)
              THEN [kMade |-> r.dev.kMade /\ ~r.kMade, mMade |-> r.dev.mMade /\ ~r.mMade,
                    keys |-> IF r.kMade THEN {} ELSE r.dev.keys,
                    btn |-> ~r.mMade /\ r.dev.btn]
              ELSE r.dev
  IN [r EXCEPT !.dev = gone, !.kMade = FALSE, !.mMade = FALSE, !.keys = {}, !.btn = FALSE]

HasKeyboard(s) == s.hidK /\ s.kMade

\* A key goes down or up; the caller falls back on an Android key event when there is
\* no keyboard, and that changes nothing here.
SendKeyboardCode(s, down, code) ==
  IF HasKeyboard(s)
  THEN ReportKeys([s EXCEPT !.keys = IF down THEN @ \cup {code} ELSE @ \ {code}])
  ELSE s

HasMouse(s) == s.hidM /\ s.mMade

SendMouseButton(s, down) ==
  IF HasMouse(s) THEN ReportButton([s EXCEPT !.btn = down]) ELSE s

=============================================================================
