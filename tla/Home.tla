-------------------------------- MODULE Home --------------------------------
(***************************************************************************)
(* The device page of the web client (useHomeDevices.ts): the list, the    *)
(* pictures of the preview mode, and the dialogs that add, rename, delete  *)
(* and configure devices, with the calls to the agent they wait for.       *)
(*                                                                         *)
(* Four kinds of call are kept by a "latest request" controller: beginning *)
(* one aborts the one before.  An abort reaches a call only until its      *)
(* headers have arrived: the HTTP client then takes its listener off the   *)
(* signal, so the body of an older answer can still come, after a newer    *)
(* one.  A call that waits for a token hears of its abort late, so that an *)
(* aborted call goes on for a while.  Calls and loads that are alike in    *)
(* everything that is written below are one.                               *)
(***************************************************************************)
EXTENDS Naturals, FiniteSets

CONSTANTS
  Dev,       \* devices, numbers in the order of the list
  Grouped,   \* the devices of the one group
  Slots,     \* PREVIEW_MAX_CONCURRENT
  MaxMoves,  \* bound: what the user and the agent do on their own
  MaxCalls,  \* bound: calls outstanding when they do
  MaxLoads   \* bound: loads outstanding when they do

ASSUME HomeAssumption ==
  /\ Dev \subseteq Nat \ {0} /\ Grouped \subseteq Dev
  /\ Slots \in Nat /\ MaxMoves \in Nat /\ MaxCalls \in Nat /\ MaxLoads \in Nat

VARIABLES
  agent,   \* the devices the agent knows, those online, whether the group exists
  home,    \* what the page holds
  loads,   \* the outstanding requests for pictures
  calls,   \* the other outstanding requests
  moves    \* how many bounded moves were made

vars == <<agent, home, loads, calls, moves>>

NoEncoder == <<0, 0>>
EncodersOf(d) == {d} \X {1, 2}

\* When a picture is due again (the refresh interval, the delay before a retry) is left
\* open: at a tick any of those that do not load may be.
Fresh == [loading |-> FALSE, pic |-> FALSE]

\* "entry": its controller is the device's entry of previewActiveRequests.
\* "attached": the state it will write to is still the device's state.
Load(d) == [dev |-> d, phase |-> "asked", entry |-> TRUE, attached |-> TRUE]

\* "latest": no call of its kind began after it.  "then": what its caller does next.
Call(kind, of, then) ==
  [kind |-> kind, of |-> of, then |-> then, phase |-> "asked", latest |-> TRUE, got |-> {}]

Home0(mode) ==
  [list |-> {}, up |-> {}, mode |-> mode, group |-> FALSE, offered |-> FALSE,
   selection |-> {}, loading |-> TRUE, ticking |-> mode = "preview", gone |-> FALSE,
   prev |-> [d \in Dev |-> Fresh],
   add |-> "closed", adding |-> FALSE, usb |-> {}, plug |-> 0, usbLoading |-> FALSE,
   rename |-> 0, renaming |-> FALSE,
   encOf |-> 0, encOpen |-> FALSE, encTarget |-> FALSE, encList |-> {},
   encFetching |-> FALSE, encChoice |-> NoEncoder, applying |-> FALSE]

Init ==
  /\ agent \in [ids : {Dev}, up : {Dev}, group : {TRUE}]
  /\ \E mode \in {"list", "preview"} : home = Home0(mode)
  /\ loads = {}
  /\ calls = {Call("devices", 0, "none"), Call("groups", 0, "none")}
  /\ moves = 0

------------------------------------------------------------------------------
(* The pictures.                                                           *)

\* visibleDevices
Visible(h) == IF h.group THEN h.list \cap Grouped ELSE h.list

Entry(L, d) == \E l \in L : l.dev = d /\ l.entry

ShouldRefreshPreview(h, L, d) ==
  h.mode = "preview" /\ d \in h.up /\ ~Entry(L, d) /\ ~h.prev[d].loading

\* The devices of D for which queuePreviewRefresh starts a load: the first in the list,
\* as many as there are free slots.
Queue(h, L, D) ==
  LET wanted == {d \in D \cap Visible(h) : ShouldRefreshPreview(h, L, d)}
      busy   == Cardinality({l \in L : l.entry})
  IN  {d \in wanted : busy + Cardinality({e \in wanted : e < d}) < Slots}

\* The page h with the loads of D started, and its loads.
Begun(h, D) ==
  [h EXCEPT !.prev = [d \in Dev |-> IF d \in D
                        THEN [@[d] EXCEPT !.loading = TRUE] ELSE @[d]]]

Aborted(l) == [l EXCEPT !.phase = IF @ = "asked" THEN "aborted" ELSE @]

\* queuePreviewRefresh, forced (all count as due), which most handlers end with.
QueuePreviewRefresh(h, L) ==
  /\ home'  = Begun(h, Queue(h, L, Dev))
  /\ loads' = L \cup {Load(d) : d \in Queue(h, L, Dev)}

CancelPreviewRequests(L) ==
  {IF l.entry THEN [Aborted(l) EXCEPT !.entry = FALSE] ELSE l : l \in L}

NoneLoading(h) == [h EXCEPT !.prev = [d \in Dev |-> [@[d] EXCEPT !.loading = FALSE]]]

\* cleanupPreviewStates: the devices that are no longer listed lose their state;
\* their loads are aborted and from then on write to a state nobody looks at.
CleanupPreviewStates(h) ==
  [h EXCEPT !.prev = [d \in Dev |-> IF d \in h.list THEN @[d] ELSE Fresh]]

RemovePreviewState(L, listed) ==
  {IF l.dev \in listed THEN l
   ELSE [(IF l.entry THEN Aborted(l) ELSE l) EXCEPT !.entry = FALSE, !.attached = FALSE] :
     l \in L}

\* Mutated: a load that fails leaves "loading" as it is.
LoadOver_OnlyPicture(l, prev, outcome) ==
  IF l.attached /\ outcome = "picture"
  THEN [loading |-> FALSE, pic |-> TRUE] ELSE prev

\* What the end of load l makes of the state it was started for.
LoadOver(l, prev, outcome) ==
  IF l.attached THEN [loading |-> FALSE, pic |-> prev.pic \/ outcome = "picture"]
  ELSE prev

\* Mutated: whatever load ends writes to the state that the device has now.
LoadEnds_Looked(l, outcome) ==
  /\ home' = [home EXCEPT !.prev[l.dev] = LoadOver([l EXCEPT !.attached = TRUE], @, outcome)]
  /\ loads' = {[k EXCEPT !.entry = @ /\ k.dev # l.dev] : k \in loads \ {l}}

\* loadPreviewForDevice ends: it takes the device's entry out, whosever it is.
LoadEnds(l, outcome) ==
  /\ home' = [home EXCEPT !.prev[l.dev] = LoadOver(l, @, outcome)]
  /\ loads' = {[k EXCEPT !.entry = @ /\ k.dev # l.dev] : k \in loads \ {l}}

PreviewHeaders ==
  \E l \in loads : l.phase = "asked" /\ loads' = (loads \ {l}) \cup {[l EXCEPT !.phase = "body"]}
                   /\ UNCHANGED <<agent, home, calls, moves>>

PreviewPicture == \E l \in loads : l.phase = "body" /\ LoadEnds(l, "picture")
                                   /\ UNCHANGED <<agent, calls, moves>>

PreviewFails == \E l \in loads : l.phase # "aborted" /\ LoadEnds(l, "failed")
                                 /\ UNCHANGED <<agent, calls, moves>>

PreviewAborts == \E l \in loads : l.phase = "aborted" /\ LoadEnds(l, "aborted")
                                  /\ UNCHANGED <<agent, calls, moves>>

PreviewEnds == PreviewPicture \/ PreviewFails \/ PreviewAborts

\* The interval of the scheduler, once a second.
Tick ==
  /\ home.ticking
  /\ \E due \in SUBSET Dev :
       /\ Queue(home, loads, due) # {}
       /\ home'  = Begun(home, Queue(home, loads, due))
       /\ loads' = loads \cup {Load(d) : d \in Queue(home, loads, due)}
  /\ UNCHANGED <<agent, calls, moves>>

------------------------------------------------------------------------------
(* Calls to the agent.                                                     *)

\* begin: the call of this kind that waits is aborted and no longer the latest.
Superseded(C, kind) ==
  {IF c.kind # kind THEN c
   ELSE [c EXCEPT !.latest = FALSE, !.phase = IF @ = "asked" THEN "aborted" ELSE @] : c \in C}

Asked(C, kind, of, then) == Superseded(C, kind) \cup {Call(kind, of, then)}

\* cancel: aborted, though still the latest.
Cancelled(C, kind) ==
  {IF c.kind = kind /\ c.latest /\ c.phase = "asked"
   THEN [c EXCEPT !.phase = "aborted"] ELSE c : c \in C}

\* fetchDevices begins: the spinner shows, and "then" follows when it has ended.
FetchDevices(h, C, then) == [h |-> [h EXCEPT !.loading = TRUE], C |-> Asked(C, "devices", 0, then)]

\* What waited for fetchDevices goes on, however it ended.
AfterDevices(h, L, then) ==
  LET k == CASE then = "toggle"  -> [h EXCEPT !.ticking = TRUE]
             [] then = "added"   -> [h EXCEPT !.adding = FALSE]
             [] then = "renamed" -> [h EXCEPT !.renaming = FALSE]
             [] OTHER            -> h
  IN  IF then \in {"toggle", "refresh"} THEN QueuePreviewRefresh(k, L)
      ELSE home' = k /\ loads' = L

\* The headers of the answer to c: those of an answer that is not wanted change nothing.
Headers(kind, got) ==
  \E c \in calls :
    /\ c.kind = kind /\ c.phase = "asked"
    /\ calls' = (calls \ {c}) \cup {[c EXCEPT !.phase = "body", !.got = got]}
    /\ UNCHANGED <<agent, home, loads, moves>>

DevicesHeaders == Headers("devices", {<<d, d \in agent.up>> : d \in agent.ids})

\* Mutated: the selection is left as it was.
Listed_Selection(h, got) ==
  [h EXCEPT !.list = {p[1] : p \in got}, !.up = {p[1] : p \in {q \in got : q[2]}}]

\* The list is the one that the answer names, with the state the agent gave each device.
Listed(h, got) ==
  LET ids == {p[1] : p \in got}
  IN  [h EXCEPT !.list = ids, !.up = {p[1] : p \in {q \in got : q[2]}}, !.selection = @ \cap ids]

\* The finally of fetchDevices: only the latest call ends the spinner.
SpinnerEnds(h, c) == [h EXCEPT !.loading = @ /\ ~c.latest]

\* The list arrives: the watch on the visible devices asks for pictures at once.
DevicesArrive ==
  \E c \in calls :
    LET h == SpinnerEnds(CleanupPreviewStates(Listed(home, c.got)), c)
        L == RemovePreviewState(loads, h.list)
    IN  /\ c.kind = "devices" /\ c.phase = "body"
        /\ calls' = calls \ {c}
        /\ AfterDevices(Begun(h, Queue(h, L, Dev)), L \cup {Load(d) : d \in Queue(h, L, Dev)}, c.then)
        /\ UNCHANGED <<agent, moves>>

\* An error, a broken body, or the abort is noticed.
DevicesFail ==
  \E c \in calls :
    /\ c.kind = "devices"
    /\ calls' = calls \ {c}
    /\ AfterDevices(SpinnerEnds(home, c), loads, c.then)
    /\ UNCHANGED <<agent, moves>>

GroupsHeaders == Headers("groups", IF agent.group THEN Grouped ELSE {})

\* fetchAvailableGroups: a group that is gone is no longer the one that is shown.
GroupsArrive ==
  \E c \in calls :
    LET h == [home EXCEPT !.offered = c.got # {}, !.group = @ /\ c.got # {}]
    IN  /\ c.kind = "groups" /\ c.phase = "body"
        /\ calls' = calls \ {c}
        /\ IF h.group # home.group THEN QueuePreviewRefresh(h, loads)
           ELSE home' = h /\ UNCHANGED loads
        /\ UNCHANGED <<agent, moves>>

GroupsFail ==
  \E c \in calls : /\ c.kind = "groups" /\ calls' = calls \ {c}
                   /\ UNCHANGED <<agent, home, loads, moves>>

DevicesEnd == DevicesArrive \/ DevicesFail
GroupsEnd == GroupsArrive \/ GroupsFail

------------------------------------------------------------------------------
(* The list and the pictures, as the user works with them.                 *)

Moves ==
  /\ Cardinality(calls) < MaxCalls /\ Cardinality(loads) <= MaxLoads
  /\ moves < MaxMoves /\ moves' = moves + 1

Acts == ~home.gone /\ Moves

\* No dialog covers the page.
Free == home.add = "closed" /\ home.rename = 0 /\ ~home.encOpen

ToggleToPreview ==
  LET begun == FetchDevices([home EXCEPT !.mode = "preview", !.selection = {}, !.ticking = TRUE],
                            calls, "toggle")
  IN  /\ Acts /\ Free /\ home.mode = "list"
      /\ QueuePreviewRefresh(begun.h, loads) /\ calls' = begun.C
      /\ UNCHANGED agent

ToggleToList ==
  /\ Acts /\ Free /\ home.mode = "preview"
  /\ home' = NoneLoading([home EXCEPT !.mode = "list", !.ticking = FALSE])
  /\ loads' = CancelPreviewRequests(loads)
  /\ UNCHANGED <<agent, calls>>

SelectGroup ==
  LET h == [home EXCEPT !.group = ~@, !.selection = {}]
  IN  /\ Acts /\ Free /\ (home.offered \/ home.group)
      /\ QueuePreviewRefresh(h, loads)
      /\ UNCHANGED <<agent, calls>>

\* Opening the group menu asks for both lists again.
PrepareGroupDropdown ==
  LET begun == FetchDevices(home, calls, "none")
  IN  /\ Acts /\ Free
      /\ home' = begun.h /\ calls' = Asked(begun.C, "groups", 0, "none")
      /\ UNCHANGED <<agent, loads>>

ToggleDeviceSelection ==
  /\ Acts /\ Free /\ home.mode = "list"
  /\ \E d \in Visible(home) :
       home' = [home EXCEPT !.selection = IF d \in @ THEN @ \ {d} ELSE @ \cup {d}]
  /\ UNCHANGED <<agent, loads, calls>>

\* The pictures that are shown count as stale, too.
HandleRefreshDevices ==
  LET begun == FetchDevices(home, calls, "refresh")
  IN  /\ Acts /\ Free
      /\ home' = begun.h /\ calls' = begun.C
      /\ UNCHANGED <<agent, loads>>

\* The user confirms that the device of a menu goes, or those that are selected.
DeleteDevice ==
  /\ Acts /\ Free
  /\ \E d \in Visible(home) : calls' = calls \cup {Call("delete", d, "none")}
  /\ UNCHANGED <<agent, home, loads>>

DeleteSelectedDevices ==
  /\ Acts /\ Free /\ home.selection # {}
  /\ calls' = calls \cup {[Call("deletes", 0, "none") EXCEPT !.got = home.selection]}
  /\ UNCHANGED <<agent, home, loads>>

DeviceDeleted ==
  \E c \in calls : \E done \in BOOLEAN :
    LET begun == FetchDevices(home, calls \ {c}, "none")
    IN  /\ c.kind = "delete"
        /\ agent' = [agent EXCEPT !.ids = IF done THEN @ \ {c.of} ELSE @]
        /\ home' = (IF done THEN begun.h ELSE home)
        /\ calls' = (IF done THEN begun.C ELSE calls \ {c})
        /\ UNCHANGED <<loads, moves>>

\* All were asked to go and some did; the list is asked for even when none did.
SelectedDeleted ==
  \E c \in calls : \E done \in SUBSET c.got :
    LET begun == FetchDevices([home EXCEPT !.selection = {}], calls \ {c}, "none")
    IN  /\ c.kind = "deletes"
        /\ agent' = [agent EXCEPT !.ids = @ \ done]
        /\ home' = begun.h /\ calls' = begun.C
        /\ UNCHANGED <<loads, moves>>

------------------------------------------------------------------------------
(* Adding and renaming.                                                    *)

OpenAddDeviceDialog ==
  /\ Acts /\ Free
  /\ home' = [home EXCEPT !.add = "wifi"]
  /\ UNCHANGED <<agent, loads, calls>>

\* The form is empty again; what waits for the USB devices is aborted.
CloseAdd(h) == [h EXCEPT !.add = "closed", !.usb = {}, !.plug = 0, !.usbLoading = FALSE]

CloseAddDeviceDialog ==
  /\ Acts /\ home.add # "closed"
  /\ home' = CloseAdd(home) /\ calls' = Cancelled(calls, "usb")
  /\ UNCHANGED <<agent, loads>>

\* Choosing USB asks for the devices plugged in; so does its refresh button.
FetchUsbDevices ==
  /\ Acts /\ home.add # "closed"
  /\ home' = [home EXCEPT !.add = "usb", !.usbLoading = TRUE]
  /\ calls' = Asked(calls, "usb", 0, "none")
  /\ UNCHANGED <<agent, loads>>

UsbHeaders == \E plugged \in {{}, Dev} : Headers("usb", plugged)

\* One that is already in the list cannot be selected.
UsbArrive ==
  \E c \in calls :
    /\ c.kind = "usb" /\ c.phase = "body" /\ calls' = calls \ {c}
    /\ LET free == c.got \ home.list
       IN  home' = [home EXCEPT
             !.usb = c.got, !.usbLoading = @ /\ ~c.latest,
             !.plug = IF @ \in free THEN @
                      ELSE IF free = {} THEN 0 ELSE CHOOSE d \in free : \A e \in free : d <= e]
    /\ UNCHANGED <<agent, loads, moves>>

\* An abort leaves what is shown; a failure of the latest call empties it.
UsbFails ==
  \E c \in calls :
    /\ c.kind = "usb" /\ calls' = calls \ {c}
    /\ home' = [home EXCEPT
         !.usb  = IF c.latest /\ c.phase # "aborted" THEN {} ELSE @,
         !.plug = IF c.latest /\ c.phase # "aborted" THEN 0 ELSE @,
         !.usbLoading = @ /\ ~c.latest]
    /\ UNCHANGED <<agent, loads, moves>>

SelectUsbDevice ==
  /\ Acts /\ home.add = "usb"
  /\ \E d \in home.usb \ home.list : home' = [home EXCEPT !.plug = d]
  /\ UNCHANGED <<agent, loads, calls>>

\* The button is off while a device is being added; Enter in the form is not.
AddDevice ==
  /\ Acts /\ home.add # "closed"
  /\ home.add = "usb" => ~home.adding /\ home.plug \in home.usb \ home.list
  /\ \E d \in (IF home.add = "usb" THEN {home.plug} ELSE Dev) :
       calls' = calls \cup {Call("add", d, "none")}
  /\ home' = [home EXCEPT !.adding = TRUE]
  /\ UNCHANGED <<agent, loads>>

\* The answer closes whatever dialog is open now and waits for the list.
DeviceAdded ==
  \E c \in calls :
    LET begun == FetchDevices(CloseAdd(home), Cancelled(calls \ {c}, "usb"), "added")
    IN  /\ c.kind = "add"
        /\ agent' = [agent EXCEPT !.ids = @ \cup {c.of}]
        /\ home' = begun.h /\ calls' = begun.C
        /\ UNCHANGED <<loads, moves>>

AddFails ==
  \E c \in calls :
    /\ c.kind = "add" /\ calls' = calls \ {c}
    /\ home' = [home EXCEPT !.adding = FALSE]
    /\ UNCHANGED <<agent, loads, moves>>

OpenRenameDialog ==
  /\ Acts /\ Free
  /\ \E d \in Visible(home) : home' = [home EXCEPT !.rename = d]
  /\ UNCHANGED <<agent, loads, calls>>

CloseRename(h) == [h EXCEPT !.rename = 0, !.renaming = FALSE]

CloseRenameDialog ==
  /\ Acts /\ home.rename # 0
  /\ home' = CloseRename(home)
  /\ UNCHANGED <<agent, loads, calls>>

SubmitRenameDevice ==
  /\ Acts /\ home.rename # 0
  /\ calls' = calls \cup {Call("rename", home.rename, "none")}
  /\ home' = [home EXCEPT !.renaming = TRUE]
  /\ UNCHANGED <<agent, loads>>

\* As with adding, the dialog of another device may be the one that closes.
DeviceRenamed ==
  \E c \in calls : \E done \in BOOLEAN :
    LET begun == FetchDevices(CloseRename(home), calls \ {c}, "renamed")
    IN  /\ c.kind = "rename"
        /\ home' = (IF done THEN begun.h ELSE [home EXCEPT !.renaming = FALSE])
        /\ calls' = (IF done THEN begun.C ELSE calls \ {c})
        /\ UNCHANGED <<agent, loads, moves>>

------------------------------------------------------------------------------
(* Opening a device, and its encoders.                                     *)

\* A device that is shown as offline is asked for before its view is opened.  Opening
\* is a request in session storage for the other view, which nothing here reads.
OpenDevice ==
  /\ Acts /\ Free
  /\ \E d \in Visible(home) \ home.up : calls' = calls \cup {Call("status", d, "none")}
  /\ UNCHANGED <<agent, home, loads>>

\* fetchDeviceStatus: the entry of the list is replaced if there is one.
StatusArrives ==
  \E c \in calls :
    LET up == c.of \in agent.up
        h  == [home EXCEPT !.up = IF c.of \notin home.list THEN @
                                  ELSE IF up THEN @ \cup {c.of} ELSE @ \ {c.of}]
    IN  /\ c.kind = "status" /\ c.of \in agent.ids /\ calls' = calls \ {c}
        /\ IF c.of \in home.list THEN QueuePreviewRefresh(h, loads)
           ELSE home' = h /\ UNCHANGED loads
        /\ UNCHANGED <<agent, moves>>

\* Without an answer what the list says now decides whether the view is opened.
StatusMissing ==
  \E c \in calls :
    /\ c.kind = "status" /\ calls' = calls \ {c}
    /\ UNCHANGED <<agent, home, loads, moves>>

ShowEncoderList ==
  /\ Acts /\ Free
  /\ \E d \in Visible(home) :
       /\ home' = [home EXCEPT !.encOf = d, !.encOpen = TRUE, !.encList = {},
                               !.encFetching = TRUE, !.encChoice = NoEncoder]
       /\ calls' = Asked(calls, "encoders", d, "none")
  /\ UNCHANGED <<agent, loads>>

EncodersHeaders == Headers("encoders", {})

EncodersArrive ==
  \E c \in calls :
    /\ c.kind = "encoders" /\ c.phase = "body" /\ calls' = calls \ {c}
    /\ home' = [home EXCEPT !.encList = EncodersOf(c.of), !.encFetching = @ /\ ~c.latest]
    /\ UNCHANGED <<agent, loads, moves>>

EncodersFail ==
  \E c \in calls :
    /\ c.kind = "encoders" /\ calls' = calls \ {c}
    /\ home' = [home EXCEPT !.encFetching = @ /\ ~c.latest]
    /\ UNCHANGED <<agent, loads, moves>>

CloseEncodersDialog ==
  /\ Acts /\ home.encOpen
  /\ home' = [home EXCEPT !.encOpen = FALSE, !.encTarget = FALSE, !.encChoice = NoEncoder]
  /\ UNCHANGED <<agent, loads, calls>>

SelectEncoder ==
  /\ Acts /\ home.encOpen /\ ~home.applying
  /\ \E e \in home.encList : home' = [home EXCEPT !.encChoice = e, !.encTarget = TRUE]
  /\ UNCHANGED <<agent, loads, calls>>

\* The cancel button is off while an encoder is applied, a click beside the dialog is not.
CloseEncoderTargetDialog ==
  /\ Acts /\ home.encTarget
  /\ home' = [home EXCEPT !.encTarget = FALSE, !.encChoice = NoEncoder]
  /\ UNCHANGED <<agent, loads, calls>>

\* applySelectedEncoder reads the settings of the device and writes them all back.
ApplySelectedEncoder ==
  /\ Acts /\ home.encTarget /\ home.encChoice # NoEncoder /\ ~home.applying
  /\ home' = [home EXCEPT !.applying = TRUE]
  /\ calls' = calls \cup {[Call("settings", home.encOf, "none") EXCEPT !.got = {home.encChoice}]}
  /\ UNCHANGED <<agent, loads>>

SettingsRead ==
  \E c \in calls :
    /\ c.kind = "settings"
    /\ calls' = (calls \ {c}) \cup {[c EXCEPT !.kind = "save"]}
    /\ UNCHANGED <<agent, home, loads, moves>>

EncoderApplied ==
  \E c \in calls :
    /\ c.kind = "save" /\ calls' = calls \ {c}
    /\ home' = [home EXCEPT !.applying = FALSE, !.encChoice = NoEncoder, !.encTarget = FALSE]
    /\ UNCHANGED <<agent, loads, moves>>

ApplyFails ==
  \E c \in calls :
    /\ c.kind \in {"settings", "save"} /\ calls' = calls \ {c}
    /\ home' = [home EXCEPT !.applying = FALSE]
    /\ UNCHANGED <<agent, loads, moves>>

------------------------------------------------------------------------------

\* The view goes: what waits is aborted but still the latest, the pictures are given up.
Unmount ==
  LET C1 == Cancelled(Cancelled(calls, "devices"), "groups")
  IN  /\ Acts
      /\ home' = [NoneLoading(home) EXCEPT !.gone = TRUE, !.ticking = FALSE, !.prev = [d \in Dev |-> Fresh]]
      /\ loads' = RemovePreviewState(CancelPreviewRequests(loads), {})
      /\ calls' = Cancelled(Cancelled(C1, "encoders"), "usb")
      /\ UNCHANGED agent

\* A device goes offline or comes back; the group is deleted.
AgentChanges ==
  /\ Moves
  /\ \/ \E d \in agent.ids :
          agent' = [agent EXCEPT !.up = IF d \in @ THEN @ \ {d} ELSE @ \cup {d}]
     \/ agent.group /\ agent' = [agent EXCEPT !.group = FALSE]
  /\ UNCHANGED <<home, loads, calls>>

CallEnds ==
  \/ DevicesEnd \/ GroupsEnd
  \/ UsbArrive \/ UsbFails \/ EncodersArrive \/ EncodersFail
  \/ DeviceDeleted \/ SelectedDeleted \/ DeviceAdded \/ AddFails \/ DeviceRenamed
  \/ StatusArrives \/ StatusMissing \/ SettingsRead \/ EncoderApplied \/ ApplyFails

Next ==
  \/ PreviewHeaders \/ PreviewEnds \/ Tick
  \/ DevicesHeaders \/ GroupsHeaders \/ UsbHeaders \/ EncodersHeaders \/ CallEnds
  \/ ToggleToPreview \/ ToggleToList \/ SelectGroup \/ PrepareGroupDropdown
  \/ ToggleDeviceSelection \/ HandleRefreshDevices
  \/ DeleteDevice \/ DeleteSelectedDevices
  \/ OpenAddDeviceDialog \/ CloseAddDeviceDialog \/ FetchUsbDevices \/ SelectUsbDevice \/ AddDevice
  \/ OpenRenameDialog \/ CloseRenameDialog \/ SubmitRenameDevice
  \/ OpenDevice \/ ShowEncoderList \/ CloseEncodersDialog \/ SelectEncoder
  \/ CloseEncoderTargetDialog \/ ApplySelectedEncoder
  \/ Unmount \/ AgentChanges

Spec == Init /\ [][Next]_vars

------------------------------------------------------------------------------
(* Properties.                                                             *)

\* What is selected, and may be deleted with one click, is in the list that is shown,
\* whatever list has arrived since it was selected (fetchDevices, toggleDeviceSelection).
SelectionListed == home.selection \subseteq home.list

\* A picture that arrives late does not bring back the state of a device that the
\* list no longer has (cleanupPreviewStates, loadPreviewForDevice).
GoneIsGone == \A d \in Dev \ home.list : home.prev[d] = Fresh

\* Nothing stays marked as waiting: a spinner is on, and a picture is marked as loading,
\* only while a call or a load is outstanding that will take the mark away, however
\* they supersede, abort and outlive each other (the finally blocks of fetchDevices,
\* addDevice, submitRenameDevice, fetchUsbDevices, showEncoderList, loadPreviewForDevice).
Latest(kind) == \E c \in calls : c.kind = kind /\ c.latest

NothingStuck ==
  /\ home.loading => Latest("devices")
  /\ home.adding => \E c \in calls : c.kind = "add" \/ c.then = "added"
  /\ home.renaming => \E c \in calls : c.kind = "rename" \/ c.then = "renamed"
  /\ home.usbLoading => Latest("usb")
  /\ home.encFetching => Latest("encoders")
  /\ home.applying => \E c \in calls : c.kind \in {"settings", "save"}
  /\ \A d \in Dev : home.prev[d].loading => \E l \in loads : l.dev = d /\ l.attached
==============================================================================
