--------------------------- MODULE MappingProfiles ---------------------------
(***************************************************************************)
(* The profiles of key mappings: the store (localStorage), which of them a *)
(* cast tab uses (sessionStorage), the one the screencast view shows, edits*)
(* and runs, and the view that lists them.  Both views are kept alive; the *)
(* screencast view loads anew whenever the query of the route changes, its *)
(* own or not.  What a runtime does with a profile is InputMapping.        *)
(*                                                                         *)
(* The content of a profile is two stamps: "keys" is what the runtime      *)
(* compiles (bindings and triggers), "rest" what it reads through the      *)
(* shared bindings or not at all.  A handler that awaits only the storage  *)
(* or a route of the same page is one step.                                *)
(***************************************************************************)
EXTENDS Naturals

CONSTANTS Profile, Tab, None, MaxMoves

VARIABLES
  stored,   \* the profiles of the store
  tabs,     \* the tab states; None is the key of a view that was given no tab
  castTab,  \* activeTabKey
  cast,     \* the profile shown, the one the runtime has compiled, enabled, edit mode
  pad,      \* what the editor's pointer and keyboard are at
  due,      \* pendingInputMappingAimAreaSaveTimer
  view, query,
  desk,     \* the view of the profiles, with the question asked by either
  moves

vars == <<stored, tabs, castTab, cast, pad, due, view, query, desk, moves>>

Empty == [edit |-> FALSE, new |-> FALSE, of |-> None, tab |-> None, manage |-> FALSE]

Off == [active |-> None, enabled |-> FALSE]

On(p) == [active |-> p, enabled |-> TRUE]

Idle == [capture |-> None, resize |-> None, swipe |-> None, drag |-> None,
         drawing |-> None, form |-> FALSE]

Content(p) == [keys |-> p.keys, rest |-> p.rest]

Whole(p, S) == [id |-> p, keys |-> S[p].keys, rest |-> S[p].rest, named |-> TRUE]

Compiled(p) == [id |-> p.id, keys |-> p.keys]

\* An identifier nothing refers to any more, for a profile made or imported.
Unused ==
  {p \in Profile : /\ stored[p] = None /\ \A k \in Tab \cup {None} : tabs[k].active # p
                   /\ cast.shown = None \/ cast.shown.id # p
                   /\ cast.runs = None \/ cast.runs.id # p
                   /\ p \notin {query.of, pad.capture, pad.resize, pad.swipe, pad.drag,
                                pad.drawing}}

Draft == [id |-> CHOOSE p \in Unused : TRUE, keys |-> 0, rest |-> 0, named |-> FALSE]

-----------------------------------------------------------------------------
(* Loading                                                                 *)

\* The profile of the query, or that of the tab when it has mapping on.
Asked(q, t, T) == IF q.of # None THEN q.of ELSE IF T[t].enabled THEN T[t].active ELSE None

LoadActiveProfile(q, t, S, T) ==
  LET p == Asked(q, t, T)
      found == p # None /\ S[p] # None
  IN [cast |-> [shown |-> IF found THEN Whole(p, S) ELSE None,
                runs |-> IF found THEN Compiled(Whole(p, S)) ELSE None,
                enabled |-> found, editing |-> q.edit, behind |-> FALSE],
      tabs |-> IF ~found /\ (T[t].enabled \/ q.of # None) THEN [T EXCEPT ![t] = Off] ELSE T]

\* A new one is shown and not run, whatever ran before.
LoadActiveInputMappingProfile(q, t, S, T) ==
  IF q.new
  THEN [cast |-> [cast EXCEPT !.shown = Draft, !.editing = q.edit, !.behind = FALSE],
        tabs |-> T]
  ELSE LoadActiveProfile(q, t, S, T)

\* The list of profiles and the tab it chooses for.
RefreshProfiles(key, S, T, D) ==
  LET gone == T[key].active # None /\ S[T[key].active] = None
      state == [T[key] EXCEPT !.active = IF gone THEN None ELSE @]
  IN [desk |-> [D EXCEPT !.ids = {p \in Profile : S[p] # None}, !.active = state.active,
                         !.enabled = state.enabled],
      tabs |-> [T EXCEPT ![key] = state]]

\* The route changes with the store S, tab states T and desk D: the screencast view loads,
\* shown or not, and the view of the profiles when it is entered.
Go(v, q, t, S, T, D) ==
  LET loaded == LoadActiveInputMappingProfile(q, t, S, T)
      listed == RefreshProfiles(q.tab, S, loaded.tabs, D)
      there == v = "profiles"
  IN /\ q.new => Unused # {}
     /\ view' = v /\ query' = q /\ castTab' = t /\ stored' = S
     /\ cast' = loaded.cast
     /\ tabs' = IF there THEN listed.tabs ELSE loaded.tabs
     /\ desk' = IF there THEN listed.desk ELSE D
     /\ due' = (due /\ v = "screencast")

Replace(q, D) == Go("screencast", q, castTab, stored, tabs, D)

\* The first time the view is shown it may find tabs kept from before the page was
\* reloaded, and load for the active one before it takes the one it was opened for.
Init ==
  /\ stored \in [Profile -> {None, [keys |-> 1, rest |-> 1]}]
  /\ tabs \in [Tab \cup {None} -> {Off} \cup {On(p) : p \in Profile}]
  /\ tabs[None] = Off
  /\ castTab \in Tab
  /\ \E t \in Tab :
       LET loaded == LoadActiveProfile(Empty, t, stored, tabs).cast
       IN cast = [loaded EXCEPT !.behind = (t # castTab)]
  /\ \A t \in Tab : tabs[t].enabled => stored[tabs[t].active] # None
  /\ pad = Idle /\ due = FALSE
  /\ view = "screencast" /\ query = Empty
  /\ desk = [ids |-> {}, active |-> None, enabled |-> FALSE, info |-> None,
             import |-> None, ask |-> None]
  /\ moves = 0

Move == moves < MaxMoves /\ moves' = moves + 1

\* What the user can click in the screencast view: no dialog covers it.
Click == Move /\ view = "screencast" /\ desk.ask = None /\ ~pad.form

Edit == Click /\ cast.editing

HasSticker == cast.shown # None /\ cast.shown.keys # 0

IsNewDraft == query.new /\ cast.editing /\ cast.shown # None

-----------------------------------------------------------------------------
(* Editing                                                                 *)

Changed(part) == [cast.shown EXCEPT ![part] = moves + 2]

\* Mutated: the profile is stored and not compiled anew.
SaveActiveProfile_NotRun(p) ==
  /\ stored' = [stored EXCEPT ![p.id] = Content(p)]
  /\ cast' = [cast EXCEPT !.shown = p]

\* Stored and run; the store refuses a profile with no name.
SaveActiveProfile(p) ==
  IF p.named
  THEN /\ stored' = [stored EXCEPT ![p.id] = Content(p)]
       /\ cast' = [cast EXCEPT !.shown = p, !.runs = Compiled(p)]
  ELSE cast' = [cast EXCEPT !.shown = p] /\ UNCHANGED stored

\* A new one is stored by its dialog only.
SaveActiveInputMappingProfile(p) ==
  IF IsNewDraft THEN cast' = [cast EXCEPT !.shown = p] /\ UNCHANGED stored
  ELSE SaveActiveProfile(p)

AddInputMappingStickerFromPalette ==
  /\ Edit /\ cast.shown # None
  /\ SaveActiveInputMappingProfile(Changed("keys"))
  /\ UNCHANGED <<tabs, castTab, pad, due, view, query, desk>>

\* Labels, positions, modes, ranges and sizes of the selected binding.
UpdateSelectedInputMappingBinding ==
  /\ Edit /\ HasSticker
  /\ SaveActiveInputMappingProfile(Changed("rest"))
  /\ UNCHANGED <<tabs, castTab, pad, due, view, query, desk>>

DeleteSelectedInputMappingBinding ==
  /\ Edit /\ HasSticker
  /\ SaveActiveInputMappingProfile(Changed("keys"))
  /\ pad' = [pad EXCEPT !.capture = None]
  /\ UNCHANGED <<tabs, castTab, due, view, query, desk>>

StartInputMappingTriggerCapture ==
  /\ Edit /\ HasSticker
  /\ pad' = [pad EXCEPT !.capture = cast.shown.id]
  /\ UNCHANGED <<stored, tabs, castTab, cast, due, view, query, desk>>

\* The next key or button, in edit mode or not; lost when the binding is not there.
ApplyInputMappingCaptured ==
  /\ Move /\ view = "screencast"
  /\ HasSticker /\ pad.capture = cast.shown.id
  /\ SaveActiveInputMappingProfile(Changed("keys"))
  /\ pad' = [pad EXCEPT !.capture = None]
  /\ UNCHANGED <<tabs, castTab, due, view, query, desk>>

\* A path under way that is long enough is kept.
SaveInputMappingSwipeRecordingPath ==
  IF pad.swipe = cast.shown.id
  THEN SaveActiveInputMappingProfile(cast.shown) \/ SaveActiveInputMappingProfile(Changed("rest"))
  ELSE UNCHANGED <<stored, cast>>

ToggleSelectedInputMappingSwipeDrawing ==
  /\ Edit /\ HasSticker
  /\ IF pad.drawing = cast.shown.id
     THEN SaveInputMappingSwipeRecordingPath
     ELSE UNCHANGED <<stored, cast>>
  /\ pad' = [pad EXCEPT !.swipe = None,
                        !.drawing = IF @ = cast.shown.id THEN None ELSE cast.shown.id]
  /\ UNCHANGED <<tabs, castTab, due, view, query, desk>>

StartInputMappingStickerDrag ==
  /\ Edit /\ HasSticker
  /\ pad' = IF pad.drawing = cast.shown.id THEN [pad EXCEPT !.swipe = cast.shown.id]
            ELSE [pad EXCEPT !.drag = cast.shown.id]
  /\ UNCHANGED <<stored, tabs, castTab, cast, due, view, query, desk>>

\* The range is changed at once and stored by a timer.
UpdateInputMappingAimAreaRange ==
  /\ cast' = [cast EXCEPT !.shown = Changed("rest")]
  /\ due' = TRUE
  /\ UNCHANGED stored

StartInputMappingAimAreaResize ==
  /\ Edit /\ HasSticker
  /\ pad' = [pad EXCEPT !.resize = cast.shown.id]
  /\ UpdateInputMappingAimAreaRange
  /\ UNCHANGED <<tabs, castTab, view, query, desk>>

\* Over a sticker; edit mode is not asked for.
MoveInputMappingStickerDrag ==
  /\ Move /\ view = "screencast" /\ HasSticker
  /\ \/ pad.resize = cast.shown.id /\ UpdateInputMappingAimAreaRange
     \/ /\ pad.resize = None /\ pad.swipe = None /\ pad.drag = cast.shown.id
        /\ SaveActiveInputMappingProfile(Changed("rest")) /\ UNCHANGED due
  /\ UNCHANGED <<tabs, castTab, pad, view, query, desk>>

FinishInputMappingStickerDrag ==
  /\ Move /\ view = "screencast" /\ HasSticker
  /\ \/ /\ pad.resize # None
        /\ pad' = [pad EXCEPT !.resize = None] /\ due' = FALSE
        /\ SaveActiveInputMappingProfile(cast.shown)
     \/ /\ pad.resize = None /\ pad.swipe # None
        /\ pad' = [pad EXCEPT !.swipe = None] /\ UNCHANGED due
        /\ SaveInputMappingSwipeRecordingPath
     \/ /\ pad.resize = None /\ pad.swipe = None /\ pad.drag # None
        /\ pad' = [pad EXCEPT !.drag = None] /\ UNCHANGED <<due, stored, cast>>
  /\ UNCHANGED <<tabs, castTab, view, query, desk>>

AimAreaSaveFires ==
  /\ due /\ due' = FALSE
  /\ IF cast.shown = None THEN UNCHANGED <<stored, cast>>
     ELSE SaveActiveInputMappingProfile(cast.shown)
  /\ UNCHANGED <<tabs, castTab, pad, view, query, desk, moves>>

-----------------------------------------------------------------------------
(* The edit mode and the dialog of the profile                             *)

EnterInputMappingEditMode ==
  /\ Click /\ ~cast.editing /\ cast.shown # None
  /\ Replace([query EXCEPT !.of = cast.shown.id, !.edit = TRUE], desk)
  /\ UNCHANGED pad

Left == [query EXCEPT !.edit = FALSE, !.new = FALSE, !.of = None]

SaveInputMappingProfileFromEditMenu ==
  /\ Edit /\ cast.shown # None /\ ~IsNewDraft
  /\ LET S == [stored EXCEPT ![cast.shown.id] = Content(cast.shown)]
     IN Go("screencast", Left, castTab, S, tabs, desk)
  /\ pad' = [pad EXCEPT !.capture = None]

OpenInputMappingProfileDialog ==
  /\ Edit /\ cast.shown # None
  /\ pad' = [pad EXCEPT !.form = TRUE]
  /\ UNCHANGED <<stored, tabs, castTab, cast, due, view, query, desk>>

CloseInputMappingProfileDialog ==
  /\ Move /\ view = "screencast" /\ pad.form
  /\ pad' = [pad EXCEPT !.form = FALSE]
  /\ UNCHANGED <<stored, tabs, castTab, cast, due, view, query, desk>>

\* Named, stored, chosen for the tab and run; edit mode ends.
SubmitInputMappingProfileDialog ==
  /\ Move /\ view = "screencast" /\ pad.form /\ cast.shown # None
  /\ LET p == [Changed("rest") EXCEPT !.named = TRUE]
         S == [stored EXCEPT ![p.id] = Content(p)]
         T == [tabs EXCEPT ![castTab] = On(p.id)]
     IN IF cast.editing
        THEN /\ Go("screencast", Left, castTab, S, T, desk)
             /\ pad' = [pad EXCEPT !.form = FALSE, !.capture = None]
        ELSE /\ stored' = S /\ tabs' = T
             /\ cast' = [cast EXCEPT !.shown = p, !.runs = Compiled(p), !.enabled = TRUE]
             /\ pad' = [pad EXCEPT !.form = FALSE]
             /\ UNCHANGED <<castTab, due, view, query, desk>>

\* Edit mode is left; what is new is given up, and another takes its place.
Exit(D) ==
  /\ Replace([query EXCEPT !.edit = FALSE], D)
  /\ pad' = [pad EXCEPT !.capture = None]

ToProfiles(D) ==
  /\ Go("profiles", [Empty EXCEPT !.tab = castTab], castTab, stored, tabs, D)
  /\ UNCHANGED pad

Ask(what) ==
  /\ desk' = [desk EXCEPT !.ask = what]
  /\ UNCHANGED <<stored, tabs, castTab, cast, pad, due, view, query>>

ExitInputMappingEditMode ==
  Edit /\ IF IsNewDraft THEN Ask("exit") ELSE Exit(desk)

BackToInputMappingProfiles ==
  Click /\ IF IsNewDraft THEN Ask("back") ELSE ToProfiles(desk)

Answered == [desk EXCEPT !.ask = None]

ConfirmDiscardNewInputMappingProfile ==
  /\ Move
  /\ \/ desk.ask = "exit" /\ view = "screencast" /\ Exit(Answered)
     \/ desk.ask = "back" /\ ToProfiles(Answered)
     \/ desk.ask # None /\ Ask(None)

CloseInputMapping ==
  /\ Click /\ ~cast.editing /\ cast.enabled /\ cast.shown # None
  /\ Go("screencast", Left, castTab, stored, [tabs EXCEPT ![castTab] = Off], desk)
  /\ UNCHANGED pad

-----------------------------------------------------------------------------
(* Between the views                                                       *)

\* Another tab is activated, or the active one closed: the query stays.
ActivateTab(t) ==
  /\ Click /\ t # castTab
  /\ Go("screencast", query, t, stored, tabs, desk)
  /\ UNCHANGED pad

\* By the navigation bar, the history or the end of the session, whatever is open.
Leave ==
  /\ Move /\ view # "elsewhere"
  /\ Go("elsewhere", Empty, castTab, stored, tabs, desk)
  /\ UNCHANGED pad

\* Back, or for a tab another view opens.
Return(t) ==
  /\ Move /\ view = "elsewhere"
  /\ Go("screencast", Empty, t, stored, tabs, desk)
  /\ UNCHANGED pad

OpenInputMappingProfiles ==
  /\ Move /\ view = "elsewhere"
  /\ Go("profiles", [Empty EXCEPT !.manage = TRUE], castTab, stored, tabs, desk)
  /\ UNCHANGED pad

-----------------------------------------------------------------------------
(* The view of the profiles                                                *)

List == Move /\ view = "profiles" /\ desk.ask = None /\ desk.info = None

GoBack ==
  /\ List
  /\ IF query.manage THEN Go("elsewhere", Empty, castTab, stored, tabs, desk)
     ELSE Replace([Empty EXCEPT !.tab = query.tab], desk)
  /\ UNCHANGED pad

CreateSampleProfile ==
  /\ List
  /\ Replace([Empty EXCEPT !.tab = query.tab, !.new = TRUE, !.edit = TRUE], desk)
  /\ UNCHANGED pad

SetActiveProfile(p) ==
  /\ List /\ ~query.manage /\ p \in desk.ids
  /\ tabs' = [tabs EXCEPT ![query.tab] = On(p)]
  /\ desk' = [desk EXCEPT !.active = p, !.enabled = TRUE]
  /\ UNCHANGED <<stored, castTab, cast, pad, due, view, query>>

\* The dialog works on a copy.
OpenProfileInfoDialog(p) ==
  /\ List /\ p \in desk.ids /\ stored[p] # None
  /\ desk' = [desk EXCEPT !.info = Whole(p, stored)]
  /\ UNCHANGED <<stored, tabs, castTab, cast, pad, due, view, query>>

CloseProfileInfoDialog ==
  /\ Move /\ view = "profiles" /\ desk.info # None
  /\ desk' = [desk EXCEPT !.info = None]
  /\ UNCHANGED <<stored, tabs, castTab, cast, pad, due, view, query>>

\* The store changes and the list follows; the screencast view, if it is shown, does not.
Store(S, T, D) ==
  LET listed == RefreshProfiles(query.tab, S, T, D)
  IN /\ stored' = S /\ tabs' = listed.tabs /\ desk' = listed.desk
     /\ cast' = [cast EXCEPT !.behind = @ \/ view = "screencast"]
     /\ UNCHANGED <<castTab, pad, due, view, query>>

SaveProfileInfo ==
  /\ Move /\ view = "profiles" /\ desk.info # None
  /\ Store([stored EXCEPT ![desk.info.id] = [Content(desk.info) EXCEPT !.rest = moves + 2]],
           tabs, [desk EXCEPT !.info = None])

DeleteProfile(p) == List /\ p \in desk.ids /\ Ask(p)

\* Confirmed, in this view or wherever the user is by then.
ProfileDeleted ==
  /\ desk.ask \in Profile /\ Move
  /\ LET here == desk.active = desk.ask
     IN Store([stored EXCEPT ![desk.ask] = None],
              IF here THEN [tabs EXCEPT ![query.tab] = Off] ELSE tabs, Answered)

TriggerImport(p) ==
  /\ List /\ p \in Unused \cup desk.ids
  /\ desk' = [desk EXCEPT !.import = p]
  /\ UNCHANGED <<stored, tabs, castTab, cast, pad, due, view, query>>

\* The file was read, or could not be.
HandleImportFile ==
  /\ Move /\ desk.import # None
  /\ LET p == desk.import
         D == [desk EXCEPT !.import = None]
         S == [stored EXCEPT ![p] = [keys |-> moves + 2, rest |-> moves + 2]]
     IN \/ Store(S, tabs, D)
        \/ /\ ~query.manage
           /\ Store(S, [tabs EXCEPT ![query.tab] = On(p)], D)
        \/ desk' = D /\ UNCHANGED <<stored, tabs, castTab, cast, pad, due, view, query>>

-----------------------------------------------------------------------------
Next ==
  \/ AddInputMappingStickerFromPalette \/ UpdateSelectedInputMappingBinding
  \/ DeleteSelectedInputMappingBinding \/ StartInputMappingTriggerCapture
  \/ ApplyInputMappingCaptured \/ ToggleSelectedInputMappingSwipeDrawing
  \/ StartInputMappingStickerDrag \/ StartInputMappingAimAreaResize
  \/ MoveInputMappingStickerDrag \/ FinishInputMappingStickerDrag \/ AimAreaSaveFires
  \/ EnterInputMappingEditMode \/ SaveInputMappingProfileFromEditMenu
  \/ OpenInputMappingProfileDialog \/ CloseInputMappingProfileDialog
  \/ SubmitInputMappingProfileDialog \/ ExitInputMappingEditMode
  \/ BackToInputMappingProfiles \/ ConfirmDiscardNewInputMappingProfile
  \/ CloseInputMapping \/ Leave \/ OpenInputMappingProfiles
  \/ \E t \in Tab : ActivateTab(t) \/ Return(t)
  \/ GoBack \/ CreateSampleProfile \/ CloseProfileInfoDialog \/ SaveProfileInfo
  \/ ProfileDeleted \/ HandleImportFile
  \/ \E p \in Profile :
       SetActiveProfile(p) \/ OpenProfileInfoDialog(p) \/ DeleteProfile(p) \/ TriggerImport(p)

Spec == Init /\ [][Next]_vars

-----------------------------------------------------------------------------
\* What the screencast view shows is what the tab or the route names, what the runtime has
\* compiled and what the store has, but for a change of an aim area whose timer runs;
\* shown nothing, it runs nothing.  Left out is a new profile, shown in place of the one
\* that runs, and a view under which the store or the tab changed before it loaded again.
MappingAsShown ==
  view = "screencast" /\ ~query.new /\ ~cast.behind =>
    /\ cast.enabled = (cast.shown # None)
    /\ IF cast.shown = None THEN cast.runs = None
       ELSE /\ cast.shown.id = Asked(query, castTab, tabs)
            /\ cast.runs = Compiled(cast.shown)
            /\ stored[cast.shown.id] # None
            /\ stored[cast.shown.id].keys = cast.shown.keys
            /\ due \/ stored[cast.shown.id].rest = cast.shown.rest
=============================================================================
