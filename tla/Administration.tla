-------------------------- MODULE Administration --------------------------
(***************************************************************************)
(* Device groups and accounts as the web client administers them: the      *)
(* dialog for device groups of the settings view (SettingsView.ts) and the *)
(* account management view (AccountManagementView.ts).  Both views are     *)
(* kept alive and work on copies of the same lists, which they loaded with *)
(* several requests; the server takes whole lists back.                    *)
(*                                                                         *)
(* A subject is a device, a role or a user; a user is active or not and a  *)
(* role has a permission or not ("on"), which stands for everything a      *)
(* save sends besides the groups.  The server is external.                 *)
(***************************************************************************)
EXTENDS Naturals, FiniteSets

CONSTANTS
  Device, Role, User,  \* the subjects
  Group,               \* the identifiers of groups, never given twice (db.go)
  Internal,            \* the group of all devices
  None,
  MaxMoves             \* a bound on the clicks

VARIABLES
  srv,    \* the server's tables
  sets,   \* the settings view: its lists and the dialog
  save,   \* saveGroupDialog, under way
  loads,  \* the settings view's loads, under way
  deletes,\* the groups it is deleting
  acc,    \* the account view: its lists, flags and the request under way
  moves,  \* clicks so far
  calm,   \* nothing has happened that the views do not allow for
  told    \* the last success message of the dialog was true

vars == <<srv, sets, save, loads, deletes, acc, moves, calm, told>>

Account == Role \cup User

Subject == Device \cup Account

\* What a request for lists is asked for; a load of the settings view asks for the
\* groups, the devices, and the accounts.
Part == {"groups", "devices", "accounts"}

Tables(groups, has, on) ==
  [groups |-> groups, exists |-> Device \cup {h \in Account : has[h] # None},
   of |-> [h \in Subject |-> IF has[h] = None THEN {} ELSE has[h]],
   on |-> on, born |-> groups]

\* What the requests for lists answer.
Lists(tables) ==
  [groups |-> tables.groups, exists |-> tables.exists, of |-> tables.of, on |-> tables.on]

\* The next identifier the server gives a group, of the ones not given yet.
NextGroup(born) == CHOOSE g \in Group \ {Internal} : g \notin born

\* One group besides the internal one; some of the accounts exist and are in it.
Init ==
  /\ LET g == NextGroup({})
     IN srv \in {Tables({Internal, g}, has, [h \in Subject |-> TRUE]) :
                    has \in {f \in [Subject -> {None, {}, {g}}] :
                              \A h \in Subject : f[h] # IF h \in Device THEN None ELSE {}}}
  /\ sets = [list |-> Lists(srv), form |-> {}, mode |-> "create", editing |-> None,
             shown |-> FALSE, saving |-> FALSE, loading |-> FALSE, error |-> FALSE]
  /\ save = None
  /\ loads = {}
  /\ deletes = {}
  /\ acc = [list |-> Lists(srv), loading |-> FALSE, saving |-> FALSE, op |-> None,
            seen |-> <<>>, current |-> TRUE]
  /\ moves = 0
  /\ calm = TRUE
  /\ told = TRUE

-----------------------------------------------------------------------------
(* The server                                                              *)

\* The answer to a request: carried out, refused, or carried out and lost on the way.
Outcome == {"ok", "refused", "lost"}

\* A device keeps to the groups there are; for an account a group that is gone is an error.
Accepts(h, groups) ==
  h \in srv.exists /\ (h \in Account => groups \subseteq srv.groups)

Placed(h, groups, on) ==
  [srv EXCEPT !.of[h] = groups \cap srv.groups,
              !.on = IF h \in Account THEN [srv.on EXCEPT ![h] = on] ELSE @]

WithoutGroup(g) ==
  [srv EXCEPT !.groups = @ \ {g}, !.of = [h \in Subject |-> @[h] \ {g}]]

-----------------------------------------------------------------------------
(* The settings view: loads                                                *)

\* A load, and what follows it: the dialog is opened for a group, or a save ends.
StartLoad(parts, then) ==
  /\ loads' = loads \cup {[parts |-> parts, then |-> then, seen |-> <<>>]}
  /\ sets' = [sets EXCEPT !.loading = TRUE, !.error = FALSE]

\* One of the three requests is answered by the server.
Served(l, p) ==
  /\ p \in l.parts \ DOMAIN l.seen
  /\ loads' = (loads \ {l}) \cup
       {[l EXCEPT !.seen = [q \in DOMAIN l.seen \cup {p} |->
                              IF q = p THEN srv ELSE l.seen[q]]]}
  /\ UNCHANGED <<srv, sets, save, deletes, acc, moves, calm, told>>

\* What a view takes over from the answers to the parts.
Took(list, seen, parts) ==
  [groups |-> IF "groups" \in parts THEN seen["groups"].groups ELSE list.groups,
   exists |-> (IF "devices" \in parts THEN seen["devices"].exists \cap Device
               ELSE list.exists \cap Device)
              \cup (IF "accounts" \in parts THEN seen["accounts"].exists \cap Account
                    ELSE list.exists \cap Account),
   of |-> [h \in Subject |->
             IF h \in Device
             THEN IF "devices" \in parts THEN seen["devices"].of[h] ELSE list.of[h]
             ELSE IF "accounts" \in parts THEN seen["accounts"].of[h] ELSE list.of[h]],
   on |-> IF "accounts" \in parts THEN seen["accounts"].on ELSE list.on]

\* What may have been taken over when a load fails: the answers are looked at one after
\* the other, and only the first bad one stops that.
Partial == {{}, {"groups"}, {"groups", "devices"}}

PopulateGroupForm(s, g) ==
  [s EXCEPT !.editing = g,
            !.form = IF g = Internal
                     THEN Device \cup {h \in s.list.exists \cap Account : g \in s.list.of[h]}
                     ELSE {h \in s.list.exists : g \in s.list.of[h]}]

\* The rest of openEditGroupDialog; a load that failed is not looked at.
AfterLoad(s, then) ==
  CASE then = "save" -> [s EXCEPT !.saving = FALSE]
    [] then \in Group -> [PopulateGroupForm(s, then) EXCEPT !.shown = TRUE]
    [] OTHER -> s

LoadEnds(l) ==
  /\ l.parts = DOMAIN l.seen
  /\ loads' = loads \ {l}
  /\ sets' = AfterLoad([sets EXCEPT !.list = Took(sets.list, l.seen, l.parts),
                                    !.loading = FALSE], l.then)
  /\ calm' = (calm /\ ~(sets.shown /\ l.then \in Group))
  /\ UNCHANGED <<srv, save, deletes, acc, moves, told>>

LoadFails(l) ==
  /\ \E parts \in Partial :
       /\ parts # {} => l.parts = DOMAIN l.seen /\ l.parts # {"groups"}
       /\ sets' = AfterLoad([sets EXCEPT !.list = Took(sets.list, l.seen, parts),
                                         !.loading = FALSE, !.error = TRUE], l.then)
  /\ loads' = loads \ {l}
  /\ calm' = FALSE
  /\ UNCHANGED <<srv, save, deletes, acc, moves, told>>

-----------------------------------------------------------------------------
(* The settings view: the dialog                                           *)

Click == moves < MaxMoves /\ moves' = moves + 1

ResetGroupForm(s) ==
  [s EXCEPT !.editing = None, !.mode = "create", !.form = {}, !.error = FALSE]

\* The list, with its buttons; an error or "loading" is shown in its place.
ListShown == ~sets.shown /\ ~sets.loading /\ ~sets.error

OpenCreateGroupDialog ==
  /\ Click /\ ~sets.shown
  /\ sets' = [ResetGroupForm(sets) EXCEPT !.shown = TRUE]
  /\ calm' = (calm /\ loads = {})
  /\ UNCHANGED <<srv, save, loads, deletes, acc, told>>

OpenEditGroupDialog(g) ==
  /\ Click /\ ListShown /\ g \in sets.list.groups
  /\ loads' = loads \cup {[parts |-> Part, then |-> g, seen |-> <<>>]}
  /\ sets' = [ResetGroupForm(sets) EXCEPT !.mode = "edit", !.loading = TRUE]
  /\ calm' = (loads = {} /\ save = None /\ deletes = {} /\ acc.op = None)
  /\ UNCHANGED <<srv, save, deletes, acc, told>>

\* Closing is possible while the dialog is saved: only the button is disabled then.
CloseGroupDialog ==
  /\ Click /\ sets.shown
  /\ sets' = [ResetGroupForm(sets) EXCEPT !.shown = FALSE]
  /\ calm' = (calm /\ save = None)
  /\ UNCHANGED <<srv, save, loads, deletes, acc, told>>

ToggleGroupFormSelection(h) ==
  /\ Click /\ sets.shown /\ h \in sets.list.exists
  /\ sets' = [sets EXCEPT !.form = IF h \in @ THEN @ \ {h} ELSE @ \cup {h}]
  /\ calm' = (calm /\ save = None)
  /\ UNCHANGED <<srv, save, loads, deletes, acc, told>>

RefreshGroupManagementList ==
  /\ Click /\ ~sets.shown /\ ~sets.loading
  /\ StartLoad({"groups"}, None)
  /\ calm' = (calm /\ loads = {})
  /\ UNCHANGED <<srv, save, deletes, acc, told>>

\* The groups the form says the subject belongs to.
Wanted(list, h, g) ==
  IF h \in sets.form THEN list.of[h] \cup {g} ELSE list.of[h] \ {g}

\* Mutated: only what the form adds is looked for.
ToChange_OnlyAdds(class, list, g) ==
  {h \in class \cap list.exists : h \in sets.form /\ g \notin list.of[h]}

\* The subjects of a class whose groups are not what the form says.
ToChange(class, list, g) ==
  {h \in class \cap list.exists : Wanted(list, h, g) # list.of[h]}

\* saveDeviceGroupAssignments, saveRoleGroupAssignments and saveUserGroupAssignments: the
\* possible next requests of the class, in whatever order the list has.
Puts(sv) ==
  {[sv EXCEPT !.left = @ \ {h},
              !.put = [subject |-> h, groups |-> Wanted(sv.list, h, sv.group),
                       on |-> sv.list.on[h]]] :
     h \in ToChange(sv.left, sv.list, sv.group)}

\* Each class is looked up in the lists of its own moment; the internal group, when it
\* is the one in the dialog, has no devices to save.
ClassFrom(sv, class) ==
  [sv EXCEPT !.class = class, !.left = class, !.list = sets.list, !.put = None]

\* The next request of the save, or none when the whole form is saved.
SaveAssignments(sv) ==
  LET roles == ClassFrom(sv, Role)
      users == ClassFrom(sv, User)
      rest  == IF sv.class = Device /\ Puts(roles) # {} THEN Puts(roles)
               ELSE IF sv.class # User /\ Puts(users) # {} THEN Puts(users)
               ELSE {[users EXCEPT !.left = {}]}
  IN IF Puts(sv) # {} THEN Puts(sv) ELSE rest

\* The group is there: now the members.
SaveMembers(sv, g) ==
  SaveAssignments(
    ClassFrom([sv EXCEPT !.group = g, !.was = srv.of, !.form = sets.form],
              IF sets.editing = Internal THEN Role ELSE Device))

\* What follows an answer: the next request, or the success message, a closed dialog
\* and a load.
Continue(puts, s) ==
  \E sv \in puts :
    IF sv.put # None
    THEN save' = sv /\ sets' = s /\ UNCHANGED <<loads, told>>
    ELSE /\ save' = None
         /\ told' = (calm => \A h \in srv'.exists :
                                srv'.of[h] = IF h \in Device /\ sv.group = Internal THEN sv.was[h]
                                             ELSE IF h \in sv.form THEN sv.was[h] \cup {sv.group}
                                             ELSE sv.was[h] \ {sv.group})
         /\ loads' = loads \cup {[parts |-> Part, then |-> "save", seen |-> <<>>]}
         /\ sets' = [ResetGroupForm(s) EXCEPT !.shown = FALSE, !.loading = TRUE]

\* Something failed: the dialog stays as it is.
SaveFails ==
  /\ save' = None
  /\ sets' = [sets EXCEPT !.saving = FALSE, !.error = TRUE]
  /\ UNCHANGED <<loads, told>>

\* saveGroupDialog; the name is not blank.
SaveGroupDialog ==
  /\ Click /\ sets.shown /\ ~sets.saving
  /\ LET sv == [group |-> IF sets.mode = "create" THEN None ELSE sets.editing,
                class |-> None, left |-> {}, list |-> sets.list, put |-> None,
                was |-> srv.of, form |-> sets.form]
         s  == [sets EXCEPT !.saving = TRUE, !.error = FALSE]
     IN IF sv.group = Internal THEN UNCHANGED srv /\ Continue(SaveMembers(sv, Internal), s)
        ELSE save' = sv /\ sets' = s /\ UNCHANGED <<srv, loads, told>>
  /\ calm' = (calm /\ loads = {} /\ deletes = {} /\ acc.op = None)
  /\ UNCHANGED <<deletes, acc>>

\* The account view does not hear of it.
Overtaken == acc' = [acc EXCEPT !.current = @ /\ srv' = srv]

\* The answer to the request that creates the group or changes its name.
GroupSaved(outcome) ==
  /\ save # None /\ save.class = None
  /\ IF save.group # None
     THEN /\ outcome = "ok" => save.group \in srv.groups
          /\ UNCHANGED srv
          /\ IF outcome = "ok" THEN Continue(SaveMembers(save, save.group), sets)
             ELSE SaveFails
     ELSE IF outcome = "refused" THEN UNCHANGED srv /\ SaveFails
     ELSE LET g == NextGroup(srv.born)
          IN /\ Group # srv.born
             /\ srv' = [srv EXCEPT !.groups = @ \cup {g}, !.born = @ \cup {g}]
             /\ IF outcome = "ok" THEN Continue(SaveMembers(save, g), sets) ELSE SaveFails
  /\ calm' = (calm /\ outcome = "ok")
  /\ Overtaken
  /\ UNCHANGED <<deletes, moves>>

\* The answer to the request for one subject.
MemberSaved(outcome) ==
  /\ save # None /\ save.put # None
  /\ LET put == save.put
         h   == put.subject
     IN /\ outcome # "refused" => Accepts(h, put.groups)
        /\ srv' = IF outcome = "refused" THEN srv ELSE Placed(h, put.groups, put.on)
        /\ IF outcome = "ok" THEN Continue(SaveAssignments(save), sets) ELSE SaveFails
  /\ calm' = (calm /\ outcome = "ok")
  /\ Overtaken
  /\ UNCHANGED <<deletes, moves>>

DeleteDeviceGroup(g) ==
  /\ Click /\ ListShown /\ g \in sets.list.groups \ {Internal}
  /\ deletes' = deletes \cup {g}
  /\ UNCHANGED <<srv, sets, save, loads, acc, calm, told>>

DeviceGroupDeleted(g, outcome) ==
  /\ g \in deletes
  /\ outcome = "ok" => g \in srv.groups
  /\ deletes' = deletes \ {g}
  /\ srv' = IF outcome = "refused" THEN srv ELSE WithoutGroup(g)
  /\ IF outcome = "ok" THEN StartLoad(Part, None)
     ELSE sets' = [sets EXCEPT !.error = TRUE] /\ UNCHANGED loads
  /\ calm' = (calm /\ outcome = "ok" /\ loads = {})
  /\ Overtaken
  /\ UNCHANGED <<save, moves, told>>

-----------------------------------------------------------------------------
(* The account view: one request at a time, and a load after it            *)

Quiet == ~acc.saving /\ ~acc.loading

\* A checkbox of the lists, while nothing is loaded; nothing is saved by it.
ToggleDeviceGroup(h, g) ==
  /\ Click /\ ~sets.shown /\ ~acc.loading
  /\ h \in acc.list.exists \cap Account /\ g \in acc.list.groups
  /\ acc' = [acc EXCEPT !.list.of[h] = IF g \in @ THEN @ \ {g} ELSE @ \cup {g},
                        !.current = FALSE]
  /\ UNCHANGED <<srv, sets, save, loads, deletes, calm, told>>

ToggleRolePermission(r) ==
  /\ Click /\ ~sets.shown /\ ~acc.loading /\ r \in acc.list.exists \cap Role
  /\ acc' = [acc EXCEPT !.list.on[r] = ~@, !.current = FALSE]
  /\ UNCHANGED <<srv, sets, save, loads, deletes, calm, told>>

\* What the server is asked to do, with the body as it is now.
Ask(do, h, groups, on) ==
  /\ Click /\ ~sets.shown /\ Quiet
  /\ acc' = [acc EXCEPT !.saving = TRUE,
                        !.op = [do |-> do, subject |-> h, groups |-> groups, on |-> on]]
  /\ calm' = FALSE
  /\ UNCHANGED <<srv, sets, save, loads, deletes, told>>

CreateUser(u, groups) ==
  u \in User \ acc.list.exists /\ groups \subseteq acc.list.groups
    /\ Ask("create", u, groups, TRUE)

CreateRole(r, groups) ==
  r \in Role \ acc.list.exists /\ groups \subseteq acc.list.groups
    /\ Ask("create", r, groups, TRUE)

SaveUser(u) ==
  u \in acc.list.exists \cap User /\ Ask("put", u, acc.list.of[u], acc.list.on[u])

SaveRole(r) ==
  r \in acc.list.exists \cap Role /\ Ask("put", r, acc.list.of[r], acc.list.on[r])

SetActive(u) ==
  u \in acc.list.exists \cap User /\ Ask("active", u, {}, ~acc.list.on[u])

ResetPassword(u) == u \in acc.list.exists \cap User /\ Ask("password", u, {}, FALSE)

\* Of another than the signed-in user, who is not among the users.
DeleteUser(u) == u \in acc.list.exists \cap User /\ Ask("delete", u, {}, FALSE)

\* What the server makes of it.
Done(op) ==
  LET h == op.subject
  IN CASE op.do = "create" -> [Placed(h, op.groups, TRUE) EXCEPT !.exists = @ \cup {h}]
       [] op.do = "put" -> Placed(h, op.groups, op.on)
       [] op.do = "active" -> [srv EXCEPT !.on[h] = op.on]
       [] op.do = "delete" -> [srv EXCEPT !.exists = @ \ {h}, !.of[h] = {}]
       [] OTHER -> srv

Possible(op) ==
  /\ op.groups \subseteq srv.groups
  /\ op.do = "create" \/ op.subject \in srv.exists

\* Mutated: a change of an account's state is not followed by a load.
Asked_Kept(op, outcome) ==
  IF outcome = "ok" /\ op.do \notin {"password", "active"}
  THEN [acc EXCEPT !.op = None, !.loading = TRUE, !.seen = <<>>, !.current = TRUE]
  ELSE [acc EXCEPT !.op = None, !.saving = FALSE,
                   !.current = @ /\ (outcome = "ok" \/ op.do = "password")]

\* Success is followed by a load, except of a password; failure is only told.
Asked(op, outcome) ==
  IF outcome = "ok" /\ op.do # "password"
  THEN [acc EXCEPT !.op = None, !.loading = TRUE, !.seen = <<>>, !.current = TRUE]
  ELSE [acc EXCEPT !.op = None, !.saving = FALSE,
                   !.current = @ /\ (outcome = "ok" \/ op.do = "password")]

Answered(outcome) ==
  /\ acc.op # None
  /\ outcome # "refused" => Possible(acc.op)
  /\ srv' = IF outcome = "refused" THEN srv ELSE Done(acc.op)
  /\ acc' = Asked(acc.op, outcome)
  /\ UNCHANGED <<sets, save, loads, deletes, moves, calm, told>>

\* The load: three requests, of which the lists of roles and users count here.
AccountsServed(p) ==
  /\ acc.loading /\ p \in {"groups", "accounts"} \ DOMAIN acc.seen
  /\ acc' = [acc EXCEPT !.seen = [q \in DOMAIN @ \cup {p} |-> IF q = p THEN srv ELSE @[q]]]
  /\ UNCHANGED <<srv, sets, save, loads, deletes, moves, calm, told>>

\* All of it is taken over, or nothing.
AccountsLoaded(ok) ==
  /\ acc.loading
  /\ ok => DOMAIN acc.seen = {"groups", "accounts"}
  /\ acc' = [acc EXCEPT !.loading = FALSE, !.saving = FALSE, !.seen = <<>>,
                        !.list = IF ok THEN Took(@, acc.seen, {"groups", "accounts"}) ELSE @,
                        !.current = @ /\ ok]
  /\ UNCHANGED <<srv, sets, save, loads, deletes, moves, calm, told>>

-----------------------------------------------------------------------------
Clicks ==
  \/ OpenCreateGroupDialog \/ CloseGroupDialog \/ RefreshGroupManagementList
  \/ SaveGroupDialog
  \/ \E g \in Group : OpenEditGroupDialog(g) \/ DeleteDeviceGroup(g)
  \/ \E h \in Subject : ToggleGroupFormSelection(h)
  \/ \E h \in Account, g \in Group : ToggleDeviceGroup(h, g)
  \/ \E r \in Role : ToggleRolePermission(r)
  \/ \E r \in Role : SaveRole(r) \/ \E g \in Group : CreateRole(r, {g})
  \/ \E u \in User : SaveUser(u) \/ SetActive(u) \/ ResetPassword(u) \/ DeleteUser(u)
  \/ \E u \in User, g \in Group : CreateUser(u, {g})

Server ==
  \/ \E l \in loads : LoadEnds(l) \/ LoadFails(l) \/ \E p \in Part : Served(l, p)
  \/ \E outcome \in Outcome :
       \/ GroupSaved(outcome) \/ MemberSaved(outcome) \/ Answered(outcome)
       \/ \E g \in deletes : DeviceGroupDeleted(g, outcome)
  \/ \E p \in Part : AccountsServed(p)
  \/ \E ok \in BOOLEAN : AccountsLoaded(ok)

Next == Clicks \/ Server

Spec == Init /\ [][Next]_vars

-----------------------------------------------------------------------------
\* "The device group was created" and "was updated" (SettingsView.ts 1068) are true: on
\* the server exactly the subjects that were chosen have the group, and nobody else's
\* groups have changed, though every request sends a whole list made from an earlier
\* answer.  While nothing failed, no two loads overlapped, the dialog was left alone
\* during the save and the account view was not used since the dialog was opened.
SavedAsShown == told

\* After a change that it reported, the account view shows what the server has: the
\* lists it sends back whole with the next save.  Unless the settings view has changed
\* something since, or the user has and not yet saved.
AccountsCurrent ==
  Quiet /\ acc.current =>
    /\ acc.list.groups = srv.groups
    /\ \A h \in Account : /\ h \in acc.list.exists <=> h \in srv.exists
                          /\ h \in srv.exists => /\ acc.list.of[h] = srv.of[h]
                                                 /\ acc.list.on[h] = srv.on[h]

=============================================================================
