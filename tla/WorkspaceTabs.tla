---------------------------- MODULE WorkspaceTabs ----------------------------
(***************************************************************************)
(* The tabs that the file, app and terminal views of the web client keep:  *)
(* one for each device, in an order, one of them active.  Every change is  *)
(* written to the session storage at once, so that what a reload restores  *)
(* is what the view held.                                                  *)
(***************************************************************************)
EXTENDS Naturals, SequencesExt

\* No tab is active; it is no device.
NoDevice == 0

TabDevices(T) == ToSet(T.order)

ActiveIsListed(T) == IF T.order = << >> THEN T.active = NoDevice ELSE T.active \in TabDevices(T)

\* restoreSessionTabs: the tabs of devices of D, and the active one of them.
RestoredTabs(D) ==
  {T \in [order : {s \in SeqOf(D, 2) : IsInjective(s)}, active : D \cup {NoDevice}] : ActiveIsListed(T)}

\* openTab: the device's tab is made if there is none, and becomes the active one.
TabOpened(T, d) ==
  [order |-> IF d \in TabDevices(T) THEN T.order ELSE Append(T.order, d), active |-> d]

TabActivated(T, d) == [T EXCEPT !.active = d]

\* closeTab: the tab after the active one that is closed becomes active, or the one before.
TabClosed(T, d) ==
  LET i    == CHOOSE k \in DOMAIN T.order : T.order[k] = d
      rest == RemoveAt(T.order, i)
      next == IF i \in DOMAIN rest THEN rest[i]
              ELSE IF rest = << >> THEN NoDevice ELSE rest[i - 1]
  IN  [order |-> rest, active |-> IF T.active = d THEN next ELSE T.active]
==============================================================================
