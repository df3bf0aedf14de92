-------------------------- MODULE RemoteClipboard --------------------------
(***************************************************************************)
(* The clipboard window of the screencast view (useRemoteClipboard.ts):    *)
(* its requests, of which each supersedes the one before (latestRequest.ts *)
(* aborts it, which comes too late when its headers are there), and where  *)
(* the window is while it is opened, dragged and rendered and the stage    *)
(* changes under it.  One axis stands for both; the text itself is left    *)
(* out.                                                                    *)
(***************************************************************************)
EXTENDS Naturals

CONSTANTS
  Device,        \* the devices of the tabs
  Width,         \* the widths of the stage
  DefaultSize,   \* the size taken for the window until it is rendered
  Size,          \* the sizes it may turn out to have
  Margin,        \* the least distance to the border, not zero
  None,
  MaxMoves       \* a bound on what the user does

\* Pixels are counted.
ASSUME ClipboardAssumption ==
  /\ Width \subseteq Nat
  /\ DefaultSize \in Nat
  /\ Size \subseteq Nat
  /\ Margin \in Nat \ {0}

VARIABLES
  device,    \* the device of the active tab, or None
  status,    \* what clipboardStatusText says, and the request that said it
  loading,   \* isClipboardLoading
  saving,    \* isClipboardSaving
  latest,    \* currentRequestId
  calls,     \* the requests under way
  done,      \* history: the requests the agent has carried out
  win,       \* the window: shown or not, rendered with what size, where, dragged or not
  width,     \* the width of the stage
  due,       \* the window has not followed the last change yet
  moves

asking == <<status, loading, saving, latest, calls, done>>
placing == <<win, width, due>>
vars == <<device, asking, placing, moves>>

Kind == {"read", "sync", "paste"}

Says(word, id) == [word |-> word, of |-> id]

Init ==
  /\ device \in Device
  /\ status = Says("nothing", 0)
  /\ loading = FALSE /\ saving = FALSE
  /\ latest = 0 /\ calls = {} /\ done = {}
  /\ win = [shown |-> FALSE, size |-> None, x |-> 0, grip |-> None]
  /\ width \in Width
  /\ due = FALSE
  /\ moves = 0

Move == moves < MaxMoves /\ moves' = moves + 1

-----------------------------------------------------------------------------
(* The requests                                                            *)

\* begin: the request before is aborted; without a device that is all.
Ask(kind) ==
  /\ Move /\ win.shown
  /\ latest' = latest + 1
  /\ LET aborted == {[c EXCEPT !.aborted = TRUE] : c \in calls}
     IN IF device = None
        THEN /\ calls' = aborted
             /\ status' = Says("no device", latest + 1)
             /\ UNCHANGED <<loading, saving>>
        ELSE /\ calls' = aborted \cup
                  {[id |-> latest + 1, kind |-> kind, at |-> "asked", ok |-> TRUE,
                    aborted |-> FALSE]}
             /\ status' = Says("working", latest + 1)
             /\ loading' = (loading \/ kind = "read")
             /\ saving' = (saving \/ kind # "read")
  /\ UNCHANGED <<device, done, placing>>

ReadClipboard == Ask("read")

SyncClipboard == Ask("sync")

PasteClipboard == Ask("paste")

\* The agent answers, and may have carried it out.
Served(c, ok) ==
  /\ c.at = "asked"
  /\ calls' = (calls \ {c}) \cup {[c EXCEPT !.at = "answered", !.ok = ok]}
  /\ done' = IF ok THEN done \cup {c.id} ELSE done
  /\ UNCHANGED <<device, status, loading, saving, latest, placing, moves>>

\* "finally": only the latest request ends what is shown as under way.
Over(c) ==
  /\ calls' = calls \ {c}
  /\ loading' = (loading /\ ~(c.id = latest /\ c.kind = "read"))
  /\ saving' = (saving /\ ~(c.id = latest /\ c.kind # "read"))

\* Mutated: whether another request was made is not asked.
Wanted_Always(c) == TRUE

Wanted(c) == c.id = latest

\* The headers arrive: a write that succeeded is told, the rest needs the body.
Headers(c) ==
  /\ c.at = "answered"
  /\ IF ~Wanted(c) THEN Over(c) /\ UNCHANGED status
     ELSE IF c.kind # "read" /\ c.ok THEN Over(c) /\ status' = Says("written", c.id)
     ELSE /\ calls' = (calls \ {c}) \cup {[c EXCEPT !.at = "body"]}
          /\ UNCHANGED <<status, loading, saving>>
  /\ UNCHANGED <<device, latest, done, placing, moves>>

\* The body arrives, whether or not another request was made meanwhile.
Body(c) ==
  /\ c.at = "body"
  /\ Over(c)
  /\ status' \in {Says("failed", c.id)} \cup (IF c.ok THEN {Says("read", c.id)} ELSE {})
  /\ UNCHANGED <<device, latest, done, placing, moves>>

\* The call fails before there are headers: on the way, or by the abort or the timeout,
\* of which nothing is told.
Fails(c) ==
  /\ c.at # "body"
  /\ Over(c)
  /\ status' \in (IF c.aborted THEN {} ELSE {Says("failed", c.id)}) \cup {status}
  /\ UNCHANGED <<device, latest, done, placing, moves>>

\* The view is left: the request is aborted, the latest it remains.
Dispose ==
  /\ Move /\ \E c \in calls : ~c.aborted
  /\ calls' = {[c EXCEPT !.aborted = TRUE] : c \in calls}
  /\ UNCHANGED <<device, status, loading, saving, latest, done, placing>>

-----------------------------------------------------------------------------
(* The window                                                              *)

Larger(m, n) == IF m > n THEN m ELSE n

SizeOf(w) == IF w.size = None THEN DefaultSize ELSE w.size

\* The last place for it, or the first when there is no room.
LastPlace(w) ==
  IF width > SizeOf(w) + 2 * Margin THEN width - SizeOf(w) - Margin ELSE Margin

Clamped(w, x) ==
  IF x > LastPlace(w) THEN LastPlace(w) ELSE Larger(x, Margin)

ClampClipboardWindowToStage(w) == [w EXCEPT !.x = Clamped(w, w.x)]

\* At nought it was never placed, and goes to the corner.
InitializeClipboardWindowPosition(w) == [w EXCEPT !.x = LastPlace(w)]

Opened(w) ==
  [(IF w.x = 0 THEN InitializeClipboardWindowPosition(w)
    ELSE ClampClipboardWindowToStage(w)) EXCEPT !.shown = TRUE]

OpenClipboardWindow ==
  /\ Move /\ ~win.shown
  /\ win' = Opened(win)
  /\ due' = TRUE
  /\ UNCHANGED <<device, asking, width>>

\* Mutated: the place is not looked at again when the size is known.
Rendered_Trusting(w, size) == [w EXCEPT !.size = size]

\* Vue has rendered it, and nextTick measures it.
Rendered(w, size) == ClampClipboardWindowToStage([w EXCEPT !.size = size])

NextTick ==
  /\ win.shown /\ due
  /\ \E size \in IF win.size = None THEN Size ELSE {win.size} : win' = Rendered(win, size)
  /\ due' = FALSE
  /\ UNCHANGED <<device, asking, width, moves>>

CloseClipboardWindow ==
  /\ Move /\ win.shown
  /\ win' = [win EXCEPT !.shown = FALSE, !.size = None]
  /\ due' = FALSE
  /\ UNCHANGED <<device, asking, width>>

\* The distance of the pointer from the edge of the window.
StartClipboardDrag(grip) ==
  /\ Move /\ win.size # None /\ win.grip = None
  /\ win' = [win EXCEPT !.grip = grip]
  /\ UNCHANGED <<device, asking, width, due>>

HandleWindowPointerMove(at) ==
  /\ Move /\ win.grip # None
  /\ win' = [win EXCEPT !.x = Clamped(win, IF at > win.grip THEN at - win.grip ELSE 0)]
  /\ UNCHANGED <<device, asking, width, due>>

FinishClipboardDrag ==
  /\ win.grip # None
  /\ win' = ClampClipboardWindowToStage([win EXCEPT !.grip = None])
  /\ UNCHANGED <<device, asking, width, due, moves>>

CancelClipboardDrag ==
  /\ Move /\ win.grip # None
  /\ win' = [win EXCEPT !.grip = None]
  /\ UNCHANGED <<device, asking, width, due>>

\* The stage changes; its observer tells the window, once it was placed.
StageResizes(w) ==
  /\ Move /\ w # width
  /\ width' = w
  /\ due' = (win.shown \/ win.x # 0)
  /\ UNCHANGED <<device, asking, win>>

SyncFloatingElementsToStage ==
  /\ due /\ (win.shown => win.size # None)
  /\ win' = ClampClipboardWindowToStage(win)
  /\ due' = FALSE
  /\ UNCHANGED <<device, asking, width, moves>>

\* The tab of another device, or the last tab is closed: requests are left alone.
HandleDeviceChanged(d) ==
  /\ Move /\ d # device
  /\ device' = d
  /\ status' = Says("nothing", latest)
  /\ IF win.shown THEN win' = Opened(win) /\ due' = TRUE ELSE UNCHANGED <<win, due>>
  /\ UNCHANGED <<loading, saving, latest, calls, done, width>>

-----------------------------------------------------------------------------
Next ==
  \/ ReadClipboard \/ SyncClipboard \/ PasteClipboard \/ Dispose
  \/ \E c \in calls : Headers(c) \/ Body(c) \/ Fails(c) \/ \E ok \in BOOLEAN : Served(c, ok)
  \/ OpenClipboardWindow \/ NextTick \/ CloseClipboardWindow
  \/ \E grip \in {0, 1} : StartClipboardDrag(grip)
  \/ \E at \in {0, LastPlace(win) + 2} : HandleWindowPointerMove(at)
  \/ FinishClipboardDrag \/ CancelClipboardDrag
  \/ \E w \in Width : StageResizes(w)
  \/ SyncFloatingElementsToStage
  \/ \E d \in Device \cup {None} : HandleDeviceChanged(d)

Spec == Init /\ [][Next]_vars

-----------------------------------------------------------------------------
\* "Synchronised" and "paste sent" are told of the last request and of no other, and the
\* agent has carried that one out: an earlier write whose answer was already on its way
\* when it was superseded tells nothing.
WrittenIsLatest ==
  status.word = "written" => status.of = latest /\ latest \in done

\* The window can be reached: once it has followed the last rendering or resize it is
\* inside the stage, wherever it was left, dragged to or opened before.
WindowReachable ==
  win.shown /\ win.size # None /\ ~due => win.x = Clamped(win, win.x)

\* Both at once, for a run in which they share one place.
ClipboardHonest == WrittenIsLatest /\ WindowReachable

=============================================================================
