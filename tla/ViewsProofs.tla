----------------------------- MODULE ViewsProofs -----------------------------
(***************************************************************************)
(* Proofs about Views, for any devices, accounts, groups, stages, widths,  *)
(* profiles and tabs and any number of clicks.  Each part has an invariant *)
(* of its own that its actions keep, and a tour leaves the other parts as  *)
(* they are:                                                               *)
(*   - TruthTold and AccountsKnown, of Administration;                     *)
(*   - Sizing, of DisplayResize;                                           *)
(*   - Mapped, of MappingProfiles;                                         *)
(*   - Asking and Placed, of RemoteClipboard.                              *)
(***************************************************************************)
EXTENDS Views, TLAPS

---------------------------------------------------------------------------
(* The administration: what the variables are                              *)

TableSet ==
  [groups : SUBSET Group, exists : SUBSET A!Subject, of : [A!Subject -> SUBSET Group],
   on : [A!Subject -> BOOLEAN], born : SUBSET Group]

\* No subject is in a group that is gone, and the internal group never is.
TablesSound(t) ==
  /\ t \in TableSet
  /\ Internal \in t.groups /\ t.groups \subseteq t.born
  /\ \A h \in A!Subject : t.of[h] \subseteq t.groups

IsSeen(seen, parts) == DOMAIN seen \subseteq parts /\ \A p \in DOMAIN seen : seen[p] \in TableSet

IsLoad(l) ==
  /\ DOMAIN l = {"parts", "then", "seen"}
  /\ l.parts \in {A!Part, {"groups"}} /\ IsSeen(l.seen, l.parts)

Class == {Device, Role, User}

\* The classes that are saved after one, and the subjects a save has still to look at.
Later(class) == IF class = Device THEN A!Account ELSE IF class = Role THEN User ELSE {}

Ahead(sv) == sv.left \cup Later(sv.class)

\* A save in one of its classes.
InClass(sv) ==
  /\ sv \in SaveSet /\ sv.group \in Group
  /\ sv.class \in Class /\ sv.left \subseteq sv.class

\* A save that is about the group itself, or in a class with a request.
SaveSound(sv) ==
  /\ sv \in SaveSet
  /\ IF sv.class = None THEN sv.put = None ELSE InClass(sv) /\ sv.put # None

DialogSet ==
  [list : ListSet, form : SUBSET A!Subject, mode : {"create", "edit"},
   editing : Group \cup {None}, shown : BOOLEAN, saving : BOOLEAN, loading : BOOLEAN,
   error : BOOLEAN]

OpSet ==
  [do : {"create", "put", "active", "password", "delete"}, subject : A!Account,
   groups : SUBSET Group, on : BOOLEAN]

IsAcc(a) ==
  /\ DOMAIN a = {"list", "loading", "saving", "op", "seen", "current"}
  /\ a.list \in ListSet
  /\ a.loading \in BOOLEAN /\ a.saving \in BOOLEAN /\ a.current \in BOOLEAN
  /\ a.op # None => a.op \in OpSet
  /\ IsSeen(a.seen, {"groups", "accounts"})

Typed ==
  /\ TablesSound(srv)
  /\ sets \in DialogSet
  /\ save # None => SaveSound(save)
  /\ \A l \in loads : IsLoad(l)
  /\ deletes \subseteq Group \ {Internal}
  /\ IsAcc(acc)
  /\ calm \in BOOLEAN

LEMMA SubjectsKnown == A!Account \subseteq A!Subject /\ Device \subseteq A!Subject
                       /\ Role \subseteq A!Subject /\ User \subseteq A!Subject
  BY DEF A!Account, A!Subject

LEMMA NothingSeen == \A parts : IsSeen(<<>>, parts)
  BY DEF IsSeen

LEMMA NextGroupKnown ==
  ASSUME SubjectsApart, NEW born, Group # born, born \subseteq Group, Internal \in born \/ born = {}
  PROVE  /\ A!NextGroup(born) \in Group \ {Internal} /\ A!NextGroup(born) \notin born
<1>1. \E g \in Group \ {Internal} : g \notin born
  BY DEF SubjectsApart
<1>2. QED
  BY <1>1 DEF A!NextGroup

LEMMA TypedInit == ASSUME A!Init, SubjectsApart PROVE Typed
<1> DEFINE g == A!NextGroup({})
<1>1. g \in Group \ {Internal}
  BY NextGroupKnown DEF SubjectsApart
<1> HIDE DEF g
<1>2. PICK has \in [A!Subject -> {None, {}, {g}}] :
        /\ \A h \in A!Subject : has[h] # IF h \in Device THEN None ELSE {}
        /\ srv = A!Tables({Internal, g}, has, [h \in A!Subject |-> TRUE])
  BY DEF A!Init, g
<1>3. TablesSound(srv)
  <2> DEFINE of == [h \in A!Subject |-> IF has[h] = None THEN {} ELSE has[h]]
             ex == Device \cup {h \in A!Account : has[h] # None}
  <2>1. of \in [A!Subject -> SUBSET Group] /\ \A h \in A!Subject : of[h] \subseteq {Internal, g}
    BY <1>1, <1>2
  <2>2. ex \subseteq A!Subject
    BY SubjectsKnown
  <2>3. srv = [groups |-> {Internal, g}, exists |-> ex, of |-> of,
               on |-> [h \in A!Subject |-> TRUE], born |-> {Internal, g}]
    BY <1>2 DEF A!Tables
  <2> HIDE DEF of, ex
  <2>4. QED
    BY <1>1, <2>1, <2>2, <2>3 DEF TablesSound, TableSet, SubjectsApart
<1>4. A!Lists(srv) \in ListSet
  BY <1>3 DEF A!Lists, ListSet, TablesSound, TableSet
<1>5. sets \in DialogSet
  BY <1>4 DEF A!Init, DialogSet
<1>6. IsAcc(acc)
  BY <1>4, NothingSeen DEF A!Init, IsAcc
<1>7. QED
  BY <1>3, <1>5, <1>6 DEF A!Init, Typed

---------------------------------------------------------------------------
(* What the operators keep                                                 *)

LEMMA TookTyped ==
  ASSUME NEW list \in ListSet, NEW seen, NEW parts, parts \subseteq DOMAIN seen,
         \A p \in DOMAIN seen : seen[p] \in TableSet
  PROVE  A!Took(list, seen, parts) \in ListSet
  BY SubjectsKnown DEF A!Took, ListSet, TableSet, A!Subject

LEMMA PlacedSound ==
  ASSUME TablesSound(srv), NEW h \in A!Subject, NEW groups \in SUBSET Group, NEW on \in BOOLEAN
  PROVE  /\ TablesSound(A!Placed(h, groups, on))
         /\ A!Placed(h, groups, on).groups = srv.groups
         /\ A!Placed(h, groups, on).exists = srv.exists
         /\ A!Placed(h, groups, on).of = [srv.of EXCEPT ![h] = groups \cap srv.groups]
<1>0. srv \in TableSet
  BY DEF TablesSound
<1>1. groups \cap srv.groups \in SUBSET Group
  OBVIOUS
<1>2. [srv.of EXCEPT ![h] = groups \cap srv.groups] \in [A!Subject -> SUBSET Group]
  BY <1>1 DEF TablesSound, TableSet
<1>3. (IF h \in A!Account THEN [srv.on EXCEPT ![h] = on] ELSE srv.on) \in [A!Subject -> BOOLEAN]
  BY DEF TablesSound, TableSet
<1> DEFINE new == A!Placed(h, groups, on)
<1>4. /\ new.groups = srv.groups /\ new.exists = srv.exists /\ new.born = srv.born
      /\ new.of = [srv.of EXCEPT ![h] = groups \cap srv.groups]
      /\ new \in TableSet
  BY <1>0, <1>2, <1>3 DEF A!Placed, TableSet
<1> HIDE DEF new
<1>5. TablesSound(new)
  BY <1>0, <1>4 DEF TablesSound, TableSet
<1>6. QED
  BY <1>4, <1>5 DEF new

LEMMA WithoutSound ==
  ASSUME TablesSound(srv), NEW g \in Group \ {Internal}
  PROVE  TablesSound(A!WithoutGroup(g))
<1> DEFINE of == [h \in A!Subject |-> srv.of[h] \ {g}]
           new == [srv EXCEPT !.groups = @ \ {g}, !.of = of]
<1>0. srv \in TableSet
  BY DEF TablesSound
<1>1. of \in [A!Subject -> SUBSET Group] /\ \A h \in A!Subject : of[h] = srv.of[h] \ {g}
  BY <1>0 DEF TableSet
<1> HIDE DEF of
<1>2. /\ new \in TableSet /\ new.groups = srv.groups \ {g} /\ new.of = of
      /\ new.born = srv.born /\ new.exists = srv.exists
  BY <1>0, <1>1 DEF TableSet
<1>3. A!WithoutGroup(g) = new
  BY DEF A!WithoutGroup, of
<1> HIDE DEF new
<1>4. TablesSound(new)
  BY <1>1, <1>2 DEF TablesSound
<1>5. QED
  BY <1>3, <1>4

LEMMA DoneSound ==
  ASSUME TablesSound(srv), NEW op \in OpSet
  PROVE  TablesSound(A!Done(op))
<1> DEFINE h == op.subject
<1>1. h \in A!Subject /\ op.groups \in SUBSET Group /\ op.on \in BOOLEAN
  BY SubjectsKnown DEF OpSet
<1>2. CASE op.do = "create"
  <2>1. A!Done(op) = [A!Placed(h, op.groups, TRUE) EXCEPT !.exists = @ \cup {h}]
    BY <1>2 DEF A!Done
  <2>2. TablesSound(A!Placed(h, op.groups, TRUE))
    BY <1>1, PlacedSound
  <2> DEFINE t == A!Placed(h, op.groups, TRUE)
  <2> HIDE DEF t
  <2>3. t \in TableSet /\ h \in A!Subject
    BY <1>1, <2>2 DEF TablesSound, t
  <2>4. /\ [t EXCEPT !.exists = @ \cup {h}] \in TableSet
        /\ [t EXCEPT !.exists = @ \cup {h}].groups = t.groups
        /\ [t EXCEPT !.exists = @ \cup {h}].born = t.born
        /\ [t EXCEPT !.exists = @ \cup {h}].of = t.of
    BY <2>3 DEF TableSet
  <2>5. QED
    BY <2>1, <2>2, <2>4 DEF TablesSound, t
<1>3. CASE op.do = "put"
  BY <1>1, <1>3, PlacedSound DEF A!Done
<1>4. CASE op.do = "active"
  BY <1>1, <1>4 DEF A!Done, TablesSound, TableSet
<1>5. CASE op.do = "delete"
  <2>1. A!Done(op) = [srv EXCEPT !.exists = @ \ {h}, !.of[h] = {}]
    BY <1>5 DEF A!Done
  <2> DEFINE t == [srv EXCEPT !.exists = @ \ {h}, !.of[h] = {}]
  <2>2. /\ t \in TableSet /\ t.groups = srv.groups /\ t.born = srv.born
        /\ t.of = [srv.of EXCEPT ![h] = {}]
    BY <1>1 DEF TablesSound, TableSet
  <2> HIDE DEF t
  <2>3. \A k \in A!Subject : t.of[k] \subseteq srv.of[k]
    BY <2>2 DEF TablesSound, TableSet
  <2>4. TablesSound(t)
    BY <2>2, <2>3 DEF TablesSound
  <2>5. QED
    BY <2>1, <2>4 DEF t
<1>6. CASE op.do = "password"
  BY <1>6 DEF A!Done
<1>7. QED
  BY <1>2, <1>3, <1>4, <1>5, <1>6 DEF OpSet

LEMMA WantedTyped ==
  ASSUME NEW list \in ListSet, NEW h \in A!Subject, NEW g \in Group
  PROVE  A!Wanted(list, h, g) \in SUBSET Group
  BY DEF A!Wanted, ListSet

LEMMA PutsTyped ==
  ASSUME NEW sv \in SaveSet, sv.group \in Group, NEW next \in A!Puts(sv)
  PROVE  /\ next \in SaveSet /\ next.put \in PutSet
         /\ next.group = sv.group /\ next.was = sv.was /\ next.form = sv.form
         /\ next.class = sv.class /\ next.list = sv.list
         /\ LET h == next.put.subject
            IN /\ h \in sv.left \cap sv.list.exists /\ next.left = sv.left \ {h}
               /\ next.put.groups = A!Wanted(sv.list, h, sv.group)
<1>1. PICK h \in A!ToChange(sv.left, sv.list, sv.group) :
        next = [sv EXCEPT !.left = @ \ {h},
                          !.put = [subject |-> h, groups |-> A!Wanted(sv.list, h, sv.group),
                                   on |-> sv.list.on[h]]]
  BY DEF A!Puts
<1> DEFINE put == [subject |-> h, groups |-> A!Wanted(sv.list, h, sv.group),
                   on |-> sv.list.on[h]]
<1>2. h \in sv.left \cap sv.list.exists /\ h \in A!Subject /\ sv.list \in ListSet
  BY <1>1 DEF A!ToChange, SaveSet
<1>3. A!Wanted(sv.list, h, sv.group) \in SUBSET Group /\ sv.list.on[h] \in BOOLEAN
  BY <1>2, WantedTyped DEF ListSet
<1>4. put \in PutSet /\ put.subject = h /\ put.groups = A!Wanted(sv.list, h, sv.group)
  BY <1>2, <1>3 DEF PutSet
<1>5. next = [sv EXCEPT !.left = @ \ {h}, !.put = put]
  BY <1>1
<1> HIDE DEF put
<1>6. /\ next \in SaveSet /\ next.put = put /\ next.left = sv.left \ {h}
      /\ next.group = sv.group /\ next.was = sv.was /\ next.form = sv.form
      /\ next.class = sv.class /\ next.list = sv.list
  BY <1>2, <1>4, <1>5 DEF SaveSet
<1>7. QED
  BY <1>2, <1>4, <1>6

LEMMA ClassFromTyped ==
  ASSUME NEW sv \in SaveSet, sets \in DialogSet, NEW class \in {Device, Role, User}
  PROVE  LET c == A!ClassFrom(sv, class)
         IN /\ c \in SaveSet /\ c.group = sv.group /\ c.was = sv.was /\ c.form = sv.form
            /\ c.class = class /\ c.left = class /\ c.list = sets.list /\ c.put = None
<1>1. class \in SUBSET A!Subject /\ sets.list \in ListSet
  BY SubjectsKnown DEF DialogSet
<1>2. QED
  BY <1>1 DEF A!ClassFrom, SaveSet

LEMMA AssignTyped ==
  ASSUME sets \in DialogSet, NEW sv, InClass(sv), NEW next \in A!SaveAssignments(sv)
  PROVE  /\ InClass(next)
         /\ next.group = sv.group /\ next.was = sv.was /\ next.form = sv.form
<1> DEFINE roles == A!ClassFrom(sv, Role)
           users == A!ClassFrom(sv, User)
           final == [users EXCEPT !.left = {}]
<1>0. sv \in SaveSet /\ sv.group \in Group /\ sv.class \in Class /\ sv.left \subseteq sv.class
  BY DEF InClass
<1>1. /\ roles \in SaveSet /\ roles.group = sv.group /\ roles.was = sv.was
      /\ roles.form = sv.form /\ roles.class = Role /\ roles.left = Role
      /\ users \in SaveSet /\ users.group = sv.group /\ users.was = sv.was
      /\ users.form = sv.form /\ users.class = User /\ users.left = User
  BY <1>0, ClassFromTyped
<1>2. /\ final \in SaveSet /\ final.group = sv.group /\ final.was = sv.was
      /\ final.form = sv.form /\ final.class = User /\ final.left = {}
  BY <1>1 DEF SaveSet
<1>3. next \in A!Puts(sv) \/ next \in A!Puts(roles) \/ next \in A!Puts(users) \/ next = final
  BY DEF A!SaveAssignments
<1> HIDE DEF roles, users, final
<1>4. CASE next \in A!Puts(sv)
  BY <1>0, <1>4, PutsTyped DEF InClass
<1>5. CASE next \in A!Puts(roles)
  BY <1>0, <1>1, <1>5, PutsTyped DEF InClass, Class
<1>6. CASE next \in A!Puts(users)
  BY <1>0, <1>1, <1>6, PutsTyped DEF InClass, Class
<1>7. CASE next = final
  BY <1>0, <1>2, <1>7 DEF InClass, Class
<1>8. QED
  BY <1>3, <1>4, <1>5, <1>6, <1>7

\* The subjects whose groups are not what the form says, by the lists of the dialog.
Changes(h, g) == h \in sets.list.exists /\ A!Wanted(sets.list, h, g) # sets.list.of[h]

LEMMA PutsNone ==
  ASSUME NEW sv \in SaveSet, sv.list = sets.list, A!Puts(sv) = {}
  PROVE  \A h \in sv.left : ~Changes(h, sv.group)
<1>1. ASSUME NEW h \in A!ToChange(sv.left, sv.list, sv.group) PROVE FALSE
  <2>1. [sv EXCEPT !.left = @ \ {h},
                   !.put = [subject |-> h, groups |-> A!Wanted(sv.list, h, sv.group),
                            on |-> sv.list.on[h]]] \in A!Puts(sv)
    BY <1>1 DEF A!Puts
  <2>2. QED
    BY <2>1
<1>2. QED
  BY <1>1 DEF A!ToChange, Changes

\* The next request is for a subject ahead; the ones that are passed over need none.
LEMMA AssignFacts ==
  ASSUME SubjectsApart, sets \in DialogSet, NEW sv, InClass(sv), sv.list = sets.list,
         NEW next \in A!SaveAssignments(sv)
  PROVE  /\ InClass(next) /\ next.list = sets.list
         /\ next.group = sv.group /\ next.was = sv.was /\ next.form = sv.form
         /\ next.put # None =>
              LET h == next.put.subject
              IN /\ next.put \in PutSet
                 /\ h \in Ahead(sv) /\ h \in sets.list.exists /\ h \notin Ahead(next)
                 /\ next.put.groups = A!Wanted(sets.list, h, sv.group)
                 /\ Ahead(next) \subseteq Ahead(sv)
                 /\ \A k \in Ahead(sv) \ Ahead(next) : k = h \/ ~Changes(k, sv.group)
         /\ next.put = None => \A k \in Ahead(sv) : ~Changes(k, sv.group)
<1> DEFINE roles == A!ClassFrom(sv, Role)
           users == A!ClassFrom(sv, User)
           final == [users EXCEPT !.left = {}]
<1>0. sv \in SaveSet /\ sv.group \in Group /\ sv.class \in Class /\ sv.left \subseteq sv.class
  BY DEF InClass
<1>1. /\ roles \in SaveSet /\ roles.group = sv.group /\ roles.was = sv.was
      /\ roles.form = sv.form /\ roles.class = Role /\ roles.left = Role
      /\ roles.list = sets.list
  BY <1>0, ClassFromTyped
<1>2. /\ users \in SaveSet /\ users.group = sv.group /\ users.was = sv.was
      /\ users.form = sv.form /\ users.class = User /\ users.left = User
      /\ users.list = sets.list /\ users.put = None
  BY <1>0, ClassFromTyped
<1>3. /\ final \in SaveSet /\ final.group = sv.group /\ final.was = sv.was
      /\ final.form = sv.form /\ final.class = User /\ final.left = {}
      /\ final.list = sets.list /\ final.put = None
  BY <1>2 DEF SaveSet
<1>4. \/ next \in A!Puts(sv)
      \/ A!Puts(sv) = {} /\ sv.class = Device /\ next \in A!Puts(roles)
      \/ /\ A!Puts(sv) = {} /\ (sv.class = Device => A!Puts(roles) = {})
         /\ sv.class # User /\ next \in A!Puts(users)
      \/ /\ A!Puts(sv) = {} /\ (sv.class = Device => A!Puts(roles) = {})
         /\ (sv.class # User => A!Puts(users) = {}) /\ next = final
  BY DEF A!SaveAssignments
<1> HIDE DEF roles, users, final
<1>d. /\ Device \cap Role = {} /\ Device \cap User = {} /\ Role \cap User = {}
      /\ None \notin PutSet /\ A!Account = Role \cup User
  BY DEF SubjectsApart, A!Account
<1>5. CASE next \in A!Puts(sv)
  <2>1. /\ next \in SaveSet /\ next.put \in PutSet
        /\ next.group = sv.group /\ next.was = sv.was /\ next.form = sv.form
        /\ next.class = sv.class /\ next.list = sv.list
        /\ next.put.subject \in sv.left \cap sv.list.exists
        /\ next.left = sv.left \ {next.put.subject}
        /\ next.put.groups = A!Wanted(sv.list, next.put.subject, sv.group)
    BY <1>0, <1>5, PutsTyped
  <2>2. next.put.subject \notin Later(sv.class)
    BY <1>0, <1>d, <2>1 DEF Later, Class
  <2>3. InClass(next)
    BY <1>0, <2>1 DEF InClass
  <2>4. QED
    BY <1>d, <2>1, <2>2, <2>3 DEF Ahead
<1>6. CASE A!Puts(sv) = {} /\ sv.class = Device /\ next \in A!Puts(roles)
  <2>1. /\ next \in SaveSet /\ next.put \in PutSet
        /\ next.group = sv.group /\ next.was = sv.was /\ next.form = sv.form
        /\ next.class = Role /\ next.list = sets.list
        /\ next.put.subject \in Role \cap sets.list.exists
        /\ next.left = Role \ {next.put.subject}
        /\ next.put.groups = A!Wanted(sets.list, next.put.subject, sv.group)
    BY <1>0, <1>1, <1>6, PutsTyped
  <2>2. Later(Role) = User /\ Later(sv.class) = Role \cup User
    BY <1>6, <1>d, <2>1 DEF Later
  <2>3. InClass(next)
    BY <1>0, <2>1 DEF InClass, Class
  <2>4. \A h \in sv.left : ~Changes(h, sv.group)
    BY <1>0, <1>6, PutsNone
  <2>5. QED
    BY <1>d, <2>1, <2>2, <2>3, <2>4 DEF Ahead
<1>7. CASE /\ A!Puts(sv) = {} /\ (sv.class = Device => A!Puts(roles) = {})
           /\ sv.class # User /\ next \in A!Puts(users)
  <2>1. /\ next \in SaveSet /\ next.put \in PutSet
        /\ next.group = sv.group /\ next.was = sv.was /\ next.form = sv.form
        /\ next.class = User /\ next.list = sets.list
        /\ next.put.subject \in User \cap sets.list.exists
        /\ next.left = User \ {next.put.subject}
        /\ next.put.groups = A!Wanted(sets.list, next.put.subject, sv.group)
    BY <1>0, <1>2, <1>7, PutsTyped
  <2>2. Later(User) = {}
    BY <1>d, <2>1 DEF Later
  <2>3. InClass(next)
    BY <1>0, <2>1 DEF InClass, Class
  <2>4. \A h \in sv.left : ~Changes(h, sv.group)
    BY <1>0, <1>7, PutsNone
  <2>5. sv.class = Device => \A h \in Role : ~Changes(h, sv.group)
    BY <1>1, <1>7, PutsNone
  <2>6. User \subseteq Later(sv.class) /\ \A h \in Later(sv.class) \ User : ~Changes(h, sv.group)
    BY <1>0, <1>7, <1>d, <2>5 DEF Later, Class
  <2>7. QED
    BY <1>d, <2>1, <2>2, <2>3, <2>4, <2>6 DEF Ahead
<1>8. CASE /\ A!Puts(sv) = {} /\ (sv.class = Device => A!Puts(roles) = {})
           /\ (sv.class # User => A!Puts(users) = {}) /\ next = final
  <2>1. \A h \in sv.left : ~Changes(h, sv.group)
    BY <1>0, <1>8, PutsNone
  <2>2. sv.class = Device => \A h \in Role : ~Changes(h, sv.group)
    BY <1>1, <1>8, PutsNone
  <2>3. sv.class # User => \A h \in User : ~Changes(h, sv.group)
    BY <1>2, <1>8, PutsNone
  <2>4. \A h \in Later(sv.class) : ~Changes(h, sv.group)
    BY <1>0, <1>d, <2>2, <2>3 DEF Later, Class
  <2>5. InClass(next)
    BY <1>0, <1>3, <1>8 DEF InClass, Class
  <2>6. QED
    BY <1>3, <1>8, <2>1, <2>4, <2>5 DEF Ahead
<1>9. QED
  BY <1>4, <1>5, <1>6, <1>7, <1>8

LEMMA MembersStart ==
  ASSUME sets \in DialogSet, TablesSound(srv), NEW sv \in SaveSet, NEW g \in Group
  PROVE  LET first == A!ClassFrom([sv EXCEPT !.group = g, !.was = srv.of, !.form = sets.form],
                                IF sets.editing = Internal THEN Role ELSE Device)
         IN /\ A!SaveMembers(sv, g) = A!SaveAssignments(first)
            /\ InClass(first) /\ first.group = g /\ first.was = srv.of
            /\ first.form = sets.form /\ first.list = sets.list
            /\ first.class = IF sets.editing = Internal THEN Role ELSE Device
            /\ first.left = first.class
<1> DEFINE start == [sv EXCEPT !.group = g, !.was = srv.of, !.form = sets.form]
           class == IF sets.editing = Internal THEN Role ELSE Device
<1>1. /\ start \in SaveSet /\ start.group = g /\ start.was = srv.of
      /\ start.form = sets.form
  BY DEF SaveSet, TablesSound, TableSet, DialogSet
<1>2. class \in {Device, Role, User}
  OBVIOUS
<1>3. A!SaveMembers(sv, g) = A!SaveAssignments(A!ClassFrom(start, class))
  BY DEF A!SaveMembers
<1> HIDE DEF start, class
<1> DEFINE first == A!ClassFrom(start, class)
<1>4. /\ first \in SaveSet /\ first.group = g /\ first.was = srv.of /\ first.form = sets.form
      /\ first.class = class /\ first.left = class /\ first.list = sets.list
  BY <1>1, <1>2, ClassFromTyped
<1> HIDE DEF first
<1>5. InClass(first)
  BY <1>2, <1>4 DEF InClass, Class
<1>6. QED
  BY <1>3, <1>4, <1>5 DEF first, start, class

LEMMA MembersTyped ==
  ASSUME sets \in DialogSet, TablesSound(srv), NEW sv \in SaveSet, NEW g \in Group
  PROVE  \A next \in A!SaveMembers(sv, g) :
           InClass(next) /\ next.group = g /\ next.was = srv.of /\ next.form = sets.form
<1> DEFINE first == A!ClassFrom([sv EXCEPT !.group = g, !.was = srv.of, !.form = sets.form],
                              IF sets.editing = Internal THEN Role ELSE Device)
<1>1. /\ A!SaveMembers(sv, g) = A!SaveAssignments(first)
      /\ InClass(first) /\ first.group = g /\ first.was = srv.of /\ first.form = sets.form
  BY MembersStart
<1> HIDE DEF first
<1>2. QED
  BY <1>1, AssignTyped

LEMMA ContinueTyped ==
  ASSUME SubjectsApart, NEW puts, \A sv \in puts : InClass(sv), NEW s \in DialogSet,
         A!Continue(puts, s), \A l \in loads : IsLoad(l)
  PROVE  /\ sets' \in DialogSet
         /\ save' # None => SaveSound(save')
         /\ \A l \in loads' : IsLoad(l)
<1>1. PICK sv \in puts :
        IF sv.put # None
        THEN save' = sv /\ sets' = s /\ UNCHANGED <<loads, told>>
        ELSE /\ save' = None
             /\ loads' = loads \cup {[parts |-> A!Part, then |-> "save", seen |-> <<>>]}
             /\ sets' = [A!ResetGroupForm(s) EXCEPT !.shown = FALSE, !.loading = TRUE]
  BY DEF A!Continue
<1>2. InClass(sv)
  BY <1>1
<1>3. CASE sv.put # None
  <2>1. SaveSound(sv)
    BY <1>2, <1>3 DEF SaveSound, InClass, SubjectsApart, Class
  <2>2. QED
    BY <1>1, <1>3, <2>1
<1>4. CASE sv.put = None
  <2>1. [A!ResetGroupForm(s) EXCEPT !.shown = FALSE, !.loading = TRUE] \in DialogSet
    BY DEF A!ResetGroupForm, DialogSet
  <2>2. IsLoad([parts |-> A!Part, then |-> "save", seen |-> <<>>])
    BY NothingSeen DEF IsLoad
  <2>3. QED
    BY <1>1, <1>4, <2>1, <2>2
<1>5. QED
  BY <1>3, <1>4

LEMMA FailsTyped == ASSUME sets \in DialogSet, A!SaveFails
                    PROVE  sets' \in DialogSet /\ save' = None /\ loads' = loads
  BY DEF A!SaveFails, DialogSet

LEMMA AccCurrent ==
  ASSUME IsAcc(acc), NEW b \in BOOLEAN
  PROVE  LET a == [acc EXCEPT !.current = @ /\ b]
         IN /\ IsAcc(a) /\ a.list = acc.list /\ a.loading = acc.loading
            /\ a.saving = acc.saving /\ a.op = acc.op /\ a.seen = acc.seen
            /\ a.current = (acc.current /\ b)
  BY DEF IsAcc

LEMMA OvertakenTyped == ASSUME IsAcc(acc), A!Overtaken PROVE IsAcc(acc')
  BY AccCurrent DEF A!Overtaken

\* The clicks in the settings view.
LEMMA SettingsClicksTyped ==
  ASSUME Typed, SubjectsApart,
         \/ A!OpenCreateGroupDialog \/ A!CloseGroupDialog \/ A!RefreshGroupManagementList
         \/ A!SaveGroupDialog
         \/ (\E g \in Group : A!OpenEditGroupDialog(g) \/ A!DeleteDeviceGroup(g))
         \/ \E h \in A!Subject : A!ToggleGroupFormSelection(h)
  PROVE  Typed'
<1>t. /\ TablesSound(srv) /\ sets \in DialogSet /\ (save # None => SaveSound(save))
      /\ \A l \in loads : IsLoad(l)
  BY DEF Typed
<1>r. A!ResetGroupForm(sets) \in DialogSet
  BY <1>t DEF A!ResetGroupForm, DialogSet
<1>l. \A parts \in {A!Part, {"groups"}} : \A then :
        IsLoad([parts |-> parts, then |-> then, seen |-> <<>>])
  BY NothingSeen DEF IsLoad
<1>1. CASE A!OpenCreateGroupDialog
  <2>1. [A!ResetGroupForm(sets) EXCEPT !.shown = TRUE] \in DialogSet
    BY <1>r DEF DialogSet
  <2>2. QED
    BY <1>1, <2>1 DEF A!OpenCreateGroupDialog, Typed
<1>2. CASE A!CloseGroupDialog
  <2>1. [A!ResetGroupForm(sets) EXCEPT !.shown = FALSE] \in DialogSet
    BY <1>r DEF DialogSet
  <2>2. QED
    BY <1>2, <2>1 DEF A!CloseGroupDialog, Typed
<1>3. CASE A!RefreshGroupManagementList
  <2>1. [sets EXCEPT !.loading = TRUE, !.error = FALSE] \in DialogSet
    BY <1>t DEF DialogSet
  <2>2. QED
    BY <1>3, <1>l, <1>t, <2>1 DEF A!RefreshGroupManagementList, A!StartLoad, Typed
<1>4. CASE A!SaveGroupDialog
  <2> DEFINE sv == [group |-> IF sets.mode = "create" THEN None ELSE sets.editing,
                    class |-> None, left |-> {}, list |-> sets.list, put |-> None,
                    was |-> srv.of, form |-> sets.form]
             s  == [sets EXCEPT !.saving = TRUE, !.error = FALSE]
  <2>1. s \in DialogSet
    BY <1>t DEF DialogSet
  <2>2. sv \in SaveSet /\ sv.class = None /\ sv.put = None
    BY <1>t DEF SaveSet, DialogSet, TablesSound, TableSet
  <2>3. SaveSound(sv)
    BY <2>2 DEF SaveSound
  <2>4. /\ IF sv.group = Internal THEN A!Continue(A!SaveMembers(sv, Internal), s)
           ELSE save' = sv /\ sets' = s /\ UNCHANGED loads
        /\ UNCHANGED <<srv, deletes, acc>>
        /\ calm' = (calm /\ loads = {} /\ deletes = {} /\ acc.op = None)
    BY <1>4 DEF A!SaveGroupDialog
  <2> HIDE DEF sv, s
  <2>5. CASE sv.group = Internal
    <3>1. \A next \in A!SaveMembers(sv, Internal) : InClass(next)
      BY <1>t, <2>2, MembersTyped DEF SubjectsApart
    <3>2. /\ sets' \in DialogSet /\ (save' # None => SaveSound(save'))
          /\ \A l \in loads' : IsLoad(l)
      BY <1>t, <2>1, <2>4, <2>5, <3>1, ContinueTyped
    <3>3. QED
      BY <2>4, <3>2 DEF Typed
  <2>6. CASE sv.group # Internal
    BY <2>1, <2>3, <2>4, <2>6 DEF Typed
  <2>7. QED
    BY <2>5, <2>6
<1>5. ASSUME NEW g \in Group, A!OpenEditGroupDialog(g) PROVE Typed'
  <2>1. [A!ResetGroupForm(sets) EXCEPT !.mode = "edit", !.loading = TRUE] \in DialogSet
    BY <1>r DEF DialogSet
  <2>2. QED
    BY <1>5, <1>l, <1>t, <2>1 DEF A!OpenEditGroupDialog, Typed
<1>6. ASSUME NEW g \in Group, A!DeleteDeviceGroup(g) PROVE Typed'
  BY <1>6 DEF A!DeleteDeviceGroup, Typed
<1>7. ASSUME NEW h \in A!Subject, A!ToggleGroupFormSelection(h) PROVE Typed'
  <2>1. sets' \in DialogSet
    BY <1>7, <1>t DEF A!ToggleGroupFormSelection, DialogSet
  <2>2. QED
    BY <1>7, <2>1 DEF A!ToggleGroupFormSelection, Typed
<1>8. QED
  BY <1>1, <1>2, <1>3, <1>4, <1>5, <1>6, <1>7

\* The clicks in the account view, and what it is answered.
LEMMA AccountsTyped ==
  ASSUME Typed, SubjectsApart,
         \/ \E h \in A!Account, g \in Group : A!ToggleDeviceGroup(h, g)
         \/ \E r \in Role : A!ToggleRolePermission(r)
         \/ \E r \in Role : A!SaveRole(r) \/ \E g \in Group : A!CreateRole(r, {g})
         \/ \E u \in User : \/ A!SaveUser(u) \/ A!SetActive(u)
                            \/ A!ResetPassword(u) \/ A!DeleteUser(u)
         \/ \E u \in User, g \in Group : A!CreateUser(u, {g})
         \/ \E outcome \in A!Outcome : A!Answered(outcome)
         \/ \E p \in A!Part : A!AccountsServed(p)
         \/ \E ok \in BOOLEAN : A!AccountsLoaded(ok)
  PROVE  Typed'
<1>t. /\ TablesSound(srv) /\ srv \in TableSet /\ IsAcc(acc) /\ acc.list \in ListSet
  BY DEF Typed, IsAcc, TablesSound
<1>1. ASSUME NEW h \in A!Account, NEW g \in Group, A!ToggleDeviceGroup(h, g) PROVE Typed'
  <2>1. h \in A!Subject
    BY SubjectsKnown
  <2> DEFINE groups == IF g \in acc.list.of[h] THEN acc.list.of[h] \ {g}
                       ELSE acc.list.of[h] \cup {g}
  <2>2. acc' = [acc EXCEPT !.list.of[h] = groups, !.current = FALSE]
    BY <1>1 DEF A!ToggleDeviceGroup
  <2>3. groups \in SUBSET Group
    BY <1>t, <2>1 DEF ListSet
  <2> HIDE DEF groups
  <2>4. [acc.list EXCEPT !.of[h] = groups] \in ListSet
    BY <1>t, <2>1, <2>3 DEF ListSet
  <2>5. IsAcc(acc')
    BY <1>t, <2>2, <2>4 DEF IsAcc
  <2>6. QED
    BY <1>1, <2>5 DEF A!ToggleDeviceGroup, Typed
<1>2. ASSUME NEW r \in Role, A!ToggleRolePermission(r) PROVE Typed'
  <2>1. r \in A!Subject
    BY SubjectsKnown
  <2>2. acc' = [acc EXCEPT !.list.on[r] = ~acc.list.on[r], !.current = FALSE]
    BY <1>2 DEF A!ToggleRolePermission
  <2>3. [acc.list EXCEPT !.on[r] = ~acc.list.on[r]] \in ListSet
    BY <1>t, <2>1 DEF ListSet
  <2>4. IsAcc(acc')
    BY <1>t, <2>2, <2>3 DEF IsAcc
  <2>5. QED
    BY <1>2, <2>4 DEF A!ToggleRolePermission, Typed
<1>3. ASSUME NEW do \in {"create", "put", "active", "password", "delete"}, NEW h \in A!Account,
             NEW groups \in SUBSET Group, NEW on \in BOOLEAN, A!Ask(do, h, groups, on)
      PROVE  Typed'
  <2>1. [do |-> do, subject |-> h, groups |-> groups, on |-> on] \in OpSet
    BY DEF OpSet
  <2>2. IsAcc(acc')
    BY <1>t, <1>3, <2>1 DEF A!Ask, IsAcc
  <2>3. QED
    BY <1>3, <2>2 DEF A!Ask, Typed
<1>4. /\ Role \subseteq A!Account /\ User \subseteq A!Account /\ A!Account \subseteq A!Subject
      /\ \A h \in A!Subject : acc.list.of[h] \in SUBSET Group /\ acc.list.on[h] \in BOOLEAN
  BY <1>t, SubjectsKnown DEF A!Account, ListSet
<1>5. ASSUME NEW r \in Role, A!SaveRole(r) \/ \E g \in Group : A!CreateRole(r, {g}) PROVE Typed'
  BY <1>3, <1>4, <1>5 DEF A!SaveRole, A!CreateRole
<1>6. ASSUME NEW u \in User,
             A!SaveUser(u) \/ A!SetActive(u) \/ A!ResetPassword(u) \/ A!DeleteUser(u)
      PROVE  Typed'
  BY <1>3, <1>4, <1>6 DEF A!SaveUser, A!SetActive, A!ResetPassword, A!DeleteUser
<1>7. ASSUME NEW u \in User, NEW g \in Group, A!CreateUser(u, {g}) PROVE Typed'
  BY <1>3, <1>4, <1>7 DEF A!CreateUser
<1>8. ASSUME NEW outcome \in A!Outcome, A!Answered(outcome) PROVE Typed'
  <2>1. acc.op \in OpSet
    BY <1>8, <1>t DEF A!Answered, IsAcc
  <2>2. TablesSound(srv')
    BY <1>8, <1>t, <2>1, DoneSound DEF A!Answered
  <2>3. IsAcc(acc')
    BY <1>8, <1>t, NothingSeen DEF A!Answered, A!Asked, IsAcc
  <2>4. QED
    BY <1>8, <2>2, <2>3 DEF A!Answered, Typed
<1>9. ASSUME NEW p \in A!Part, A!AccountsServed(p) PROVE Typed'
  <2> DEFINE seen == [q \in DOMAIN acc.seen \cup {p} |-> IF q = p THEN srv ELSE acc.seen[q]]
  <2>1. acc' = [acc EXCEPT !.seen = seen] /\ p \in {"groups", "accounts"}
    BY <1>9 DEF A!AccountsServed
  <2>2. IsSeen(seen, {"groups", "accounts"})
    BY <1>t, <2>1 DEF IsSeen, IsAcc
  <2> HIDE DEF seen
  <2>3. IsAcc(acc')
    BY <1>t, <2>1, <2>2 DEF IsAcc
  <2>4. QED
    BY <1>9, <2>3 DEF A!AccountsServed, Typed
<1>10. ASSUME NEW ok \in BOOLEAN, A!AccountsLoaded(ok) PROVE Typed'
  <2> DEFINE list == IF ok THEN A!Took(acc.list, acc.seen, {"groups", "accounts"}) ELSE acc.list
  <2>1. acc' = [acc EXCEPT !.loading = FALSE, !.saving = FALSE, !.seen = <<>>, !.list = list,
                           !.current = @ /\ ok]
    BY <1>10 DEF A!AccountsLoaded
  <2>2. list \in ListSet
    BY <1>10, <1>t, TookTyped DEF A!AccountsLoaded, IsAcc, IsSeen
  <2> HIDE DEF list
  <2>3. IsAcc(acc')
    BY <1>t, <2>1, <2>2, NothingSeen DEF IsAcc
  <2>4. QED
    BY <1>10, <2>3 DEF A!AccountsLoaded, Typed
<1>11. QED
  BY <1>1, <1>2, <1>5, <1>6, <1>7, <1>8, <1>9, <1>10

LEMMA AfterLoadTyped ==
  ASSUME SubjectsApart, NEW s \in DialogSet, NEW then
  PROVE  A!AfterLoad(s, then) \in DialogSet
<1>1. CASE then = "save"
  BY <1>1 DEF A!AfterLoad, DialogSet, SubjectsApart
<1>2. CASE then \in Group
  <2> DEFINE form == IF then = Internal
                     THEN Device \cup {h \in s.list.exists \cap A!Account : then \in s.list.of[h]}
                     ELSE {h \in s.list.exists : then \in s.list.of[h]}
  <2>1. A!AfterLoad(s, then) = [[s EXCEPT !.editing = then, !.form = form] EXCEPT !.shown = TRUE]
    BY <1>2 DEF A!AfterLoad, A!PopulateGroupForm, SubjectsApart
  <2>2. form \in SUBSET A!Subject
    BY SubjectsKnown DEF DialogSet, ListSet
  <2> HIDE DEF form
  <2>3. QED
    BY <1>2, <2>1, <2>2 DEF DialogSet
<1>3. CASE then # "save" /\ then \notin Group
  BY <1>3 DEF A!AfterLoad
<1>4. QED
  BY <1>1, <1>2, <1>3

LEMMA ServedLoad ==
  ASSUME TablesSound(srv), NEW l, IsLoad(l), NEW p \in l.parts \ DOMAIN l.seen
  PROVE  LET m == [l EXCEPT !.seen = [q \in DOMAIN l.seen \cup {p} |->
                                        IF q = p THEN srv ELSE l.seen[q]]]
         IN /\ IsLoad(m) /\ m.parts = l.parts /\ m.then = l.then
            /\ DOMAIN m.seen = DOMAIN l.seen \cup {p} /\ m.seen[p] = srv
            /\ \A q \in DOMAIN l.seen : q # p => m.seen[q] = l.seen[q]
<1> DEFINE seen == [q \in DOMAIN l.seen \cup {p} |-> IF q = p THEN srv ELSE l.seen[q]]
           m == [l EXCEPT !.seen = seen]
<1>1. /\ IsSeen(seen, l.parts) /\ DOMAIN seen = DOMAIN l.seen \cup {p} /\ seen[p] = srv
      /\ \A q \in DOMAIN l.seen : q # p => seen[q] = l.seen[q]
  BY DEF IsSeen, IsLoad, TablesSound
<1> HIDE DEF seen
<1>2. /\ DOMAIN m = {"parts", "then", "seen"} /\ m.parts = l.parts /\ m.then = l.then
      /\ m.seen = seen
  BY DEF IsLoad
<1> HIDE DEF m
<1>3. IsLoad(m)
  BY <1>1, <1>2 DEF IsLoad
<1>4. QED
  BY <1>1, <1>2, <1>3 DEF m, seen

\* What the server and the loads answer to the settings view.
LEMMA SettingsAnswersTyped ==
  ASSUME Typed, SubjectsApart,
         \/ \E l \in loads : A!LoadEnds(l) \/ A!LoadFails(l) \/ \E p \in A!Part : A!Served(l, p)
         \/ \E outcome \in A!Outcome :
              \/ A!GroupSaved(outcome) \/ A!MemberSaved(outcome)
              \/ \E g \in deletes : A!DeviceGroupDeleted(g, outcome)
  PROVE  Typed'
<1>t. /\ TablesSound(srv) /\ srv \in TableSet /\ IsAcc(acc) /\ sets \in DialogSet
      /\ sets.list \in ListSet /\ (save # None => SaveSound(save))
      /\ \A l \in loads : IsLoad(l)
  BY DEF Typed, TablesSound, DialogSet
<1>1. ASSUME NEW l \in loads, A!LoadEnds(l) PROVE Typed'
  <2> DEFINE list == A!Took(sets.list, l.seen, l.parts)
             s == [sets EXCEPT !.list = list, !.loading = FALSE]
  <2>1. list \in ListSet
    BY <1>1, <1>t, TookTyped DEF A!LoadEnds, IsLoad, IsSeen
  <2>2. sets' = A!AfterLoad(s, l.then)
    BY <1>1 DEF A!LoadEnds
  <2> HIDE DEF list
  <2>3. s \in DialogSet
    BY <1>t, <2>1 DEF DialogSet
  <2> HIDE DEF s
  <2>4. QED
    BY <1>1, <2>2, <2>3, AfterLoadTyped DEF A!LoadEnds, Typed
<1>2. ASSUME NEW l \in loads, A!LoadFails(l) PROVE Typed'
  <2>1. PICK parts \in A!Partial :
          /\ parts # {} => l.parts = DOMAIN l.seen /\ l.parts # {"groups"}
          /\ sets' = A!AfterLoad([sets EXCEPT !.list = A!Took(sets.list, l.seen, parts),
                                              !.loading = FALSE, !.error = TRUE], l.then)
    BY <1>2 DEF A!LoadFails
  <2> DEFINE list == A!Took(sets.list, l.seen, parts)
             s == [sets EXCEPT !.list = list, !.loading = FALSE, !.error = TRUE]
  <2>2. parts \subseteq DOMAIN l.seen
    BY <1>t, <2>1 DEF IsLoad, A!Partial, A!Part
  <2>3. list \in ListSet
    BY <1>t, <2>2, TookTyped DEF IsLoad, IsSeen
  <2>4. sets' = A!AfterLoad(s, l.then)
    BY <2>1
  <2> HIDE DEF list
  <2>5. s \in DialogSet
    BY <1>t, <2>3 DEF DialogSet
  <2> HIDE DEF s
  <2>6. QED
    BY <1>2, <2>4, <2>5, AfterLoadTyped DEF A!LoadFails, Typed
<1>3. ASSUME NEW l \in loads, NEW p \in A!Part, A!Served(l, p) PROVE Typed'
  <2> DEFINE m == [l EXCEPT !.seen = [q \in DOMAIN l.seen \cup {p} |->
                                        IF q = p THEN srv ELSE l.seen[q]]]
  <2>1. loads' = (loads \ {l}) \cup {m} /\ p \in l.parts \ DOMAIN l.seen
    BY <1>3 DEF A!Served
  <2>2. IsLoad(m)
    BY <1>t, <2>1, ServedLoad
  <2> HIDE DEF m
  <2>3. \A k \in loads' : IsLoad(k)
    BY <1>t, <2>1, <2>2
  <2>4. QED
    BY <1>3, <2>3 DEF A!Served, Typed
<1>4. ASSUME NEW outcome \in A!Outcome, A!GroupSaved(outcome) PROVE Typed'
  <2>1. save # None /\ save.class = None /\ save \in SaveSet
    BY <1>4, <1>t DEF A!GroupSaved, SaveSound
  <2>2. IsAcc(acc')
    BY <1>4, <1>t, OvertakenTyped DEF A!GroupSaved
  <2>3. calm' \in BOOLEAN /\ UNCHANGED deletes
    BY <1>4 DEF A!GroupSaved, Typed
  <2>4. CASE A!SaveFails
    <3>1. TablesSound(srv')
      <4>1. CASE srv' = srv
        BY <1>t, <4>1
      <4>2. CASE srv' # srv
        <5> DEFINE g == A!NextGroup(srv.born)
        <5>1. /\ Group # srv.born
              /\ srv' = [srv EXCEPT !.groups = @ \cup {g}, !.born = @ \cup {g}]
          BY <1>4, <4>2 DEF A!GroupSaved
        <5>2. g \in Group
          BY <1>t, <5>1, NextGroupKnown DEF TablesSound, TableSet
        <5> HIDE DEF g
        <5>3. QED
          BY <1>t, <5>1, <5>2 DEF TablesSound, TableSet
      <4>3. QED
        BY <4>1, <4>2
    <3>2. QED
      BY <1>t, <2>2, <2>3, <2>4, <3>1, FailsTyped DEF Typed
  <2>5. CASE save.group # None /\ srv' = srv /\ A!Continue(A!SaveMembers(save, save.group), sets)
    <3>1. save.group \in Group
      BY <2>1, <2>5 DEF SaveSet
    <3>2. \A next \in A!SaveMembers(save, save.group) : InClass(next)
      BY <1>t, <2>1, <3>1, MembersTyped
    <3>3. /\ sets' \in DialogSet /\ (save' # None => SaveSound(save'))
          /\ \A l \in loads' : IsLoad(l)
      BY <1>t, <2>5, <3>2, ContinueTyped
    <3>4. QED
      BY <1>t, <2>2, <2>3, <2>5, <3>3 DEF Typed
  <2>6. CASE LET g == A!NextGroup(srv.born)
             IN /\ Group # srv.born
                /\ srv' = [srv EXCEPT !.groups = @ \cup {g}, !.born = @ \cup {g}]
                /\ A!Continue(A!SaveMembers(save, g), sets)
    <3> DEFINE g == A!NextGroup(srv.born)
    <3>1. g \in Group
      BY <1>t, <2>6, NextGroupKnown DEF TablesSound, TableSet
    <3>2. /\ srv' = [srv EXCEPT !.groups = @ \cup {g}, !.born = @ \cup {g}]
          /\ A!Continue(A!SaveMembers(save, g), sets)
      BY <2>6
    <3> HIDE DEF g
    <3>3. TablesSound(srv')
      BY <1>t, <3>1, <3>2 DEF TablesSound, TableSet
    <3>4. \A next \in A!SaveMembers(save, g) : InClass(next)
      BY <1>t, <2>1, <3>1, MembersTyped
    <3>5. /\ sets' \in DialogSet /\ (save' # None => SaveSound(save'))
          /\ \A l \in loads' : IsLoad(l)
      BY <1>t, <3>2, <3>4, ContinueTyped
    <3>6. QED
      BY <2>2, <2>3, <3>3, <3>5 DEF Typed
  <2>7. QED
    BY <1>4, <2>4, <2>5, <2>6 DEF A!GroupSaved
<1>5. ASSUME NEW outcome \in A!Outcome, A!MemberSaved(outcome) PROVE Typed'
  <2>1. save # None /\ save.put # None /\ InClass(save) /\ save.put \in PutSet
    BY <1>5, <1>t DEF A!MemberSaved, SaveSound, SaveSet
  <2>2. IsAcc(acc')
    BY <1>5, <1>t, OvertakenTyped DEF A!MemberSaved
  <2>3. calm' \in BOOLEAN /\ UNCHANGED deletes
    BY <1>5 DEF A!MemberSaved, Typed
  <2>4. TablesSound(srv')
    <3>1. /\ save.put.subject \in A!Subject /\ save.put.groups \in SUBSET Group
          /\ save.put.on \in BOOLEAN
      BY <2>1 DEF PutSet
    <3>2. srv' = srv \/ srv' = A!Placed(save.put.subject, save.put.groups, save.put.on)
      BY <1>5 DEF A!MemberSaved
    <3>3. TablesSound(A!Placed(save.put.subject, save.put.groups, save.put.on))
      BY <1>t, <3>1, PlacedSound
    <3>4. QED
      BY <1>t, <3>2, <3>3
  <2>5. CASE A!SaveFails
    BY <1>t, <2>2, <2>3, <2>4, <2>5, FailsTyped DEF Typed
  <2>6. CASE A!Continue(A!SaveAssignments(save), sets)
    <3>1. \A next \in A!SaveAssignments(save) : InClass(next)
      BY <1>t, <2>1, AssignTyped
    <3>2. /\ sets' \in DialogSet /\ (save' # None => SaveSound(save'))
          /\ \A l \in loads' : IsLoad(l)
      BY <1>t, <2>6, <3>1, ContinueTyped
    <3>3. QED
      BY <2>2, <2>3, <2>4, <3>2 DEF Typed
  <2>7. QED
    BY <1>5, <2>5, <2>6 DEF A!MemberSaved
<1>6. ASSUME NEW outcome \in A!Outcome, NEW g \in deletes, A!DeviceGroupDeleted(g, outcome)
      PROVE  Typed'
  <2>1. g \in Group \ {Internal}
    BY DEF Typed
  <2>2. TablesSound(srv')
    BY <1>6, <1>t, <2>1, WithoutSound DEF A!DeviceGroupDeleted
  <2>3. IsAcc(acc')
    BY <1>6, <1>t, OvertakenTyped DEF A!DeviceGroupDeleted
  <2>4. sets' \in DialogSet
    <3>1. sets' \in {[sets EXCEPT !.loading = TRUE, !.error = FALSE],
                     [sets EXCEPT !.error = TRUE]}
      BY <1>6 DEF A!DeviceGroupDeleted, A!StartLoad
    <3>2. QED
      BY <1>t, <3>1 DEF DialogSet
  <2>5. \A l \in loads' : IsLoad(l)
    <3>1. IsLoad([parts |-> A!Part, then |-> None, seen |-> <<>>])
      BY NothingSeen DEF IsLoad
    <3>2. loads' \subseteq loads \cup {[parts |-> A!Part, then |-> None, seen |-> <<>>]}
      BY <1>6 DEF A!DeviceGroupDeleted, A!StartLoad
    <3>3. QED
      BY <1>t, <3>1, <3>2
  <2>6. UNCHANGED save /\ deletes' \subseteq deletes /\ calm' \in BOOLEAN
    BY <1>6 DEF A!DeviceGroupDeleted, Typed
  <2>7. QED
    BY <1>t, <2>2, <2>3, <2>4, <2>5, <2>6 DEF Typed
<1>7. QED
  BY <1>1, <1>2, <1>3, <1>4, <1>5, <1>6

LEMMA TypedStep == ASSUME Typed, SubjectsApart, A!Next PROVE Typed'
<1>1. CASE A!Clicks
  BY <1>1, SettingsClicksTyped, AccountsTyped DEF A!Clicks
<1>2. CASE A!Server
  BY <1>2, SettingsAnswersTyped, AccountsTyped DEF A!Server
<1>3. QED
  BY <1>1, <1>2 DEF A!Next

---------------------------------------------------------------------------
(* The account view                                                        *)

\* The lists of the account view are the server's.
SameAccounts ==
  /\ acc.list.groups = srv.groups
  /\ \A h \in A!Account : /\ h \in acc.list.exists <=> h \in srv.exists
                          /\ h \in srv.exists => /\ acc.list.of[h] = srv.of[h]
                                                 /\ acc.list.on[h] = srv.on[h]

\* While a request is under way nothing is loaded; what was loaded so far is as the server
\* has it.
AccountsKnown ==
  /\ acc.op # None => acc.saving /\ ~acc.loading
  /\ acc.current /\ ~acc.loading => SameAccounts
  /\ acc.current /\ acc.loading => \A p \in DOMAIN acc.seen : acc.seen[p] = srv

LEMMA AccountsInit == ASSUME A!Init, Typed PROVE AccountsKnown
<1>1. /\ acc.list.groups = srv.groups /\ acc.list.exists = srv.exists /\ acc.list.of = srv.of
      /\ acc.list.on = srv.on /\ acc.op = None /\ acc.loading = FALSE
  BY DEF A!Init, A!Lists
<1>2. QED
  BY <1>1 DEF AccountsKnown, SameAccounts

\* The steps of the settings view leave the account view alone, or tell it that it is not
\* current any more.
LEMMA AccountsAside ==
  ASSUME Typed, AccountsKnown, UNCHANGED <<srv, acc>> \/ A!Overtaken
  PROVE  AccountsKnown'
<1>1. CASE UNCHANGED <<srv, acc>>
  BY <1>1 DEF AccountsKnown, SameAccounts
<1>2. CASE A!Overtaken
  <2> DEFINE b == srv' = srv
  <2>1. acc' = [acc EXCEPT !.current = @ /\ b] /\ b \in BOOLEAN
    BY <1>2 DEF A!Overtaken
  <2> HIDE DEF b
  <2>2. /\ acc'.list = acc.list /\ acc'.loading = acc.loading
        /\ acc'.saving = acc.saving /\ acc'.op = acc.op /\ acc'.seen = acc.seen
        /\ acc'.current = (acc.current /\ b)
    BY <2>1, AccCurrent DEF Typed
  <2>3. acc'.current => acc.current /\ srv' = srv
    BY <2>2 DEF b
  <2>4. QED
    BY <2>2, <2>3 DEF AccountsKnown, SameAccounts
<1>3. QED
  BY <1>1, <1>2

LEMMA AccountsStep == ASSUME Typed, SubjectsApart, AccountsKnown, A!Next PROVE AccountsKnown'
<1>t. /\ TablesSound(srv) /\ srv \in TableSet /\ IsAcc(acc) /\ acc.list \in ListSet
  BY DEF Typed, IsAcc, TablesSound
<1>a. ASSUME NEW do, NEW h, NEW groups, NEW on, A!Ask(do, h, groups, on) PROVE AccountsKnown'
  <2>1. /\ ~acc.saving /\ ~acc.loading /\ UNCHANGED srv
        /\ acc'.saving = TRUE /\ acc'.loading = acc.loading /\ acc'.list = acc.list
        /\ acc'.current = acc.current
    BY <1>a, <1>t DEF A!Ask, A!Quiet, IsAcc
  <2>2. QED
    BY <2>1 DEF AccountsKnown, SameAccounts
<1>1. CASE \/ A!OpenCreateGroupDialog \/ A!CloseGroupDialog \/ A!RefreshGroupManagementList
           \/ A!SaveGroupDialog
           \/ (\E g \in Group : A!OpenEditGroupDialog(g) \/ A!DeleteDeviceGroup(g))
           \/ \E h \in A!Subject : A!ToggleGroupFormSelection(h)
  <2>1. UNCHANGED <<srv, acc>>
    BY <1>1
       DEF A!OpenCreateGroupDialog, A!CloseGroupDialog, A!RefreshGroupManagementList,
           A!SaveGroupDialog, A!OpenEditGroupDialog, A!DeleteDeviceGroup,
           A!ToggleGroupFormSelection
  <2>2. QED
    BY <2>1, AccountsAside
<1>2. CASE \E l \in loads : A!LoadEnds(l) \/ A!LoadFails(l) \/ \E p \in A!Part : A!Served(l, p)
  BY <1>2, AccountsAside DEF A!LoadEnds, A!LoadFails, A!Served
<1>3. CASE \E outcome \in A!Outcome :
             \/ A!GroupSaved(outcome) \/ A!MemberSaved(outcome)
             \/ \E g \in deletes : A!DeviceGroupDeleted(g, outcome)
  BY <1>3, AccountsAside DEF A!GroupSaved, A!MemberSaved, A!DeviceGroupDeleted
<1>4. CASE \/ \E h \in A!Account, g \in Group : A!ToggleDeviceGroup(h, g)
           \/ \E r \in Role : A!ToggleRolePermission(r)
  <2>1. ~acc.loading /\ acc'.current = FALSE /\ acc'.op = acc.op /\ acc'.saving = acc.saving
        /\ acc'.loading = acc.loading
    BY <1>4, <1>t DEF A!ToggleDeviceGroup, A!ToggleRolePermission, IsAcc
  <2>2. QED
    BY <2>1 DEF AccountsKnown
<1>5. CASE \/ \E r \in Role : A!SaveRole(r) \/ \E g \in Group : A!CreateRole(r, {g})
           \/ \E u \in User : \/ A!SaveUser(u) \/ A!SetActive(u)
                              \/ A!ResetPassword(u) \/ A!DeleteUser(u)
           \/ \E u \in User, g \in Group : A!CreateUser(u, {g})
  BY <1>5, <1>a
     DEF A!SaveRole, A!CreateRole, A!SaveUser, A!SetActive, A!ResetPassword, A!DeleteUser,
         A!CreateUser
<1>6. ASSUME NEW outcome \in A!Outcome, A!Answered(outcome) PROVE AccountsKnown'
  <2>1. /\ acc.op # None /\ acc' = A!Asked(acc.op, outcome) /\ ~acc.loading
        /\ srv' = IF outcome = "refused" THEN srv ELSE A!Done(acc.op)
    BY <1>6 DEF A!Answered, AccountsKnown
  <2>2. CASE outcome = "ok" /\ acc.op.do # "password"
    <3>1. acc'.op = None /\ acc'.loading = TRUE /\ acc'.seen = <<>>
      BY <1>t, <2>1, <2>2 DEF A!Asked, IsAcc
    <3>2. QED
      BY <3>1 DEF AccountsKnown
  <2>3. CASE ~(outcome = "ok" /\ acc.op.do # "password")
    <3>1. /\ acc'.op = None /\ acc'.loading = acc.loading /\ acc'.list = acc.list
          /\ acc'.current => acc.current /\ acc.op.do = "password"
      BY <1>t, <2>1, <2>3 DEF A!Asked, IsAcc
    <3>2. acc.op.do = "password" => srv' = srv
      BY <2>1 DEF A!Done
    <3>3. QED
      BY <2>1, <3>1, <3>2 DEF AccountsKnown, SameAccounts
  <2>4. QED
    BY <2>2, <2>3
<1>7. ASSUME NEW p \in A!Part, A!AccountsServed(p) PROVE AccountsKnown'
  <2> DEFINE seen == [q \in DOMAIN acc.seen \cup {p} |-> IF q = p THEN srv ELSE acc.seen[q]]
  <2>1. acc.loading /\ acc' = [acc EXCEPT !.seen = seen] /\ UNCHANGED srv
    BY <1>7 DEF A!AccountsServed
  <2>2. acc.current => \A q \in DOMAIN seen : seen[q] = srv
    BY <2>1 DEF AccountsKnown
  <2> HIDE DEF seen
  <2>3. /\ acc'.seen = seen /\ acc'.op = acc.op /\ acc'.saving = acc.saving
        /\ acc'.loading = acc.loading /\ acc'.current = acc.current /\ acc'.list = acc.list
    BY <1>t, <2>1 DEF IsAcc
  <2>4. QED
    BY <2>1, <2>2, <2>3 DEF AccountsKnown
<1>8. ASSUME NEW ok \in BOOLEAN, A!AccountsLoaded(ok) PROVE AccountsKnown'
  <2> DEFINE list == IF ok THEN A!Took(acc.list, acc.seen, {"groups", "accounts"}) ELSE acc.list
  <2>1. /\ acc' = [acc EXCEPT !.loading = FALSE, !.saving = FALSE, !.seen = <<>>, !.list = list,
                              !.current = @ /\ ok]
        /\ acc.loading /\ acc.op = None /\ UNCHANGED srv
        /\ ok => DOMAIN acc.seen = {"groups", "accounts"}
    BY <1>8 DEF A!AccountsLoaded, AccountsKnown
  <2>2. ASSUME acc.current, ok
        PROVE  /\ list.groups = srv.groups /\ list.on = srv.on
               /\ \A h \in A!Account : (h \in list.exists <=> h \in srv.exists)
                                    /\ list.of[h] = srv.of[h]
    <3>1. acc.seen["groups"] = srv /\ acc.seen["accounts"] = srv
      BY <2>1, <2>2 DEF AccountsKnown
    <3>2. Device \cap A!Account = {} /\ A!Account \subseteq A!Subject
      BY SubjectsKnown DEF SubjectsApart, A!Account
    <3>3. QED
      BY <1>t, <2>2, <3>1, <3>2 DEF A!Took
  <2> HIDE DEF list
  <2>3. /\ acc'.op = None /\ acc'.loading = FALSE /\ acc'.list = list
        /\ acc'.current = (acc.current /\ ok)
    BY <1>t, <2>1 DEF IsAcc
  <2>4. QED
    BY <2>1, <2>2, <2>3 DEF AccountsKnown, SameAccounts
<1>9. QED
  BY <1>1, <1>2, <1>3, <1>4, <1>5, <1>6, <1>7, <1>8 DEF A!Next, A!Clicks, A!Server

LEMMA AccountsMeans == ASSUME AccountsKnown PROVE A!AccountsCurrent
  BY DEF AccountsKnown, A!AccountsCurrent, SameAccounts, A!Quiet

---------------------------------------------------------------------------
(* What is told was saved                                                  *)

\* The groups the dialog says a subject has; the internal group is not for devices.
Chosen(sv, h) ==
  IF h \in sv.form THEN sv.was[h] \cup {sv.group} ELSE sv.was[h] \ {sv.group}

Goal(sv, h) == IF h \in Device /\ sv.group = Internal THEN sv.was[h] ELSE Chosen(sv, h)

\* A save with the subjects H before it, on the tables t and the dialog d: these subjects
\* have the groups they had, the others have the ones the dialog says.
Within(sv, H, t, d) ==
  /\ InClass(sv) /\ sv.group \in t.groups
  /\ sv.list = d.list /\ sv.form = d.form
  /\ d.list.exists = t.exists /\ \A h \in A!Subject : d.list.of[h] = sv.was[h]
  /\ \A h \in t.exists : t.of[h] = IF h \in H THEN sv.was[h] ELSE Goal(sv, h)
  /\ sv.group = Internal => H \cap Device = {}

\* The next request is for one of them.
Progress(sv, t, d) ==
  LET h == sv.put.subject
  IN /\ sv.put # None /\ Within(sv, Ahead(sv) \cup {h}, t, d)
     /\ h \in t.exists \ Ahead(sv) /\ sv.put.groups = Chosen(sv, h)

LEMMA ProgressMade ==
  ASSUME SubjectsApart, sets \in DialogSet, NEW t \in TableSet, NEW sv,
         Within(sv, Ahead(sv), t, sets), NEW next \in A!SaveAssignments(sv)
  PROVE  /\ InClass(next)
         /\ next.put # None => Progress(next, t, sets)
         /\ next.put = None => \A h \in t.exists : t.of[h] = Goal(next, h)
<1>1. /\ InClass(sv) /\ sv.group \in t.groups /\ sv.list = sets.list /\ sv.form = sets.form
      /\ sets.list.exists = t.exists /\ \A h \in A!Subject : sets.list.of[h] = sv.was[h]
      /\ \A h \in t.exists : t.of[h] = IF h \in Ahead(sv) THEN sv.was[h] ELSE Goal(sv, h)
      /\ sv.group = Internal => Ahead(sv) \cap Device = {}
  BY DEF Within
<1>2. /\ InClass(next) /\ next.list = sets.list
      /\ next.group = sv.group /\ next.was = sv.was /\ next.form = sv.form
      /\ next.put # None =>
           LET h == next.put.subject
           IN /\ next.put \in PutSet
              /\ h \in Ahead(sv) /\ h \in sets.list.exists /\ h \notin Ahead(next)
              /\ next.put.groups = A!Wanted(sets.list, h, sv.group)
              /\ Ahead(next) \subseteq Ahead(sv)
              /\ \A k \in Ahead(sv) \ Ahead(next) : k = h \/ ~Changes(k, sv.group)
      /\ next.put = None => \A k \in Ahead(sv) : ~Changes(k, sv.group)
  BY <1>1, AssignFacts
<1>3. t.exists \subseteq A!Subject
  BY DEF TableSet
<1>w. next.group = sv.group /\ next.was = sv.was /\ next.form = sv.form
  BY <1>2
<1>4. ASSUME NEW h \in t.exists
      PROVE  /\ A!Wanted(sets.list, h, sv.group) = Chosen(next, h)
             /\ Goal(next, h) = Goal(sv, h)
             /\ ~Changes(h, sv.group) => Goal(next, h) = next.was[h]
             /\ h \in Ahead(sv) => t.of[h] = next.was[h]
             /\ h \notin Ahead(sv) => t.of[h] = Goal(next, h)
  <2>1. h \in A!Subject /\ h \in sets.list.exists /\ sets.list.of[h] = sv.was[h]
    BY <1>1, <1>3
  <2>2. A!Wanted(sets.list, h, sv.group) = Chosen(next, h)
    BY <1>1, <1>w, <2>1 DEF A!Wanted, Chosen
  <2>3. Goal(next, h) = Goal(sv, h)
    BY <1>w DEF Goal, Chosen
  <2>4. ~Changes(h, sv.group) => Goal(next, h) = next.was[h]
    BY <1>w, <2>1, <2>2 DEF Goal, Changes
  <2>5. t.of[h] = IF h \in Ahead(sv) THEN sv.was[h] ELSE Goal(sv, h)
    BY <1>1
  <2>6. QED
    BY <1>w, <2>2, <2>3, <2>4, <2>5
<1>6. CASE next.put # None
  <2> DEFINE h == next.put.subject
             H == Ahead(next) \cup {h}
  <2>1. /\ h \in Ahead(sv) /\ h \in t.exists /\ h \notin Ahead(next)
        /\ next.put.groups = A!Wanted(sets.list, h, sv.group) /\ H \subseteq Ahead(sv)
        /\ \A k \in Ahead(sv) \ H : ~Changes(k, sv.group)
    BY <1>1, <1>2, <1>6
  <2>2. next.put.groups = Chosen(next, h)
    BY <1>4, <2>1
  <2> HIDE DEF h, H
  <2>3. ASSUME NEW k \in t.exists
        PROVE  t.of[k] = IF k \in H THEN next.was[k] ELSE Goal(next, k)
    <3>1. CASE k \in H
      BY <1>4, <2>1, <3>1
    <3>2. CASE k \in Ahead(sv) \ H
      BY <1>4, <2>1, <3>2
    <3>3. CASE k \notin Ahead(sv)
      BY <1>4, <2>1, <3>3
    <3>4. QED
      BY <3>1, <3>2, <3>3
  <2>4. Within(next, H, t, sets)
    <3>1. /\ InClass(next) /\ next.group \in t.groups /\ next.list = sets.list
          /\ next.form = sets.form
      BY <1>1, <1>2
    <3>2. \A k \in A!Subject : sets.list.of[k] = next.was[k]
      BY <1>1, <1>w
    <3>3. next.group = Internal => H \cap Device = {}
      BY <1>1, <1>w, <2>1
    <3>4. sets.list.exists = t.exists
      BY <1>1
    <3>5. QED
      BY <2>3, <3>1, <3>2, <3>3, <3>4 DEF Within
  <2>5. QED
    BY <1>2, <1>6, <2>1, <2>2, <2>4 DEF Progress, h, H
<1>7. CASE next.put = None
  <2>1. \A h \in t.exists : h \in Ahead(sv) => ~Changes(h, sv.group)
    BY <1>2, <1>7
  <2>2. \A h \in t.exists : t.of[h] = Goal(next, h)
    BY <1>4, <2>1
  <2>3. QED
    BY <1>2, <1>7, <2>2
<1>8. QED
  BY <1>6, <1>7

\* The next request follows, or the last is told, truly, and the lists are loaded.
LEMMA ContinueMade ==
  ASSUME NEW puts, NEW s,
         \A next \in puts :
           /\ next.put # None => Progress(next, srv', s)
           /\ next.put = None /\ calm => \A h \in srv'.exists : srv'.of[h] = Goal(next, h),
         A!Continue(puts, s)
  PROVE  \/ /\ save'.put # None /\ Progress(save', srv', s)
            /\ sets' = s /\ UNCHANGED <<loads, told>>
         \/ /\ save' = None /\ told' = TRUE
            /\ loads' = loads \cup {[parts |-> A!Part, then |-> "save", seen |-> <<>>]}
            /\ sets' = [A!ResetGroupForm(s) EXCEPT !.shown = FALSE, !.loading = TRUE]
<1>1. PICK sv \in puts :
        IF sv.put # None
        THEN save' = sv /\ sets' = s /\ UNCHANGED <<loads, told>>
        ELSE /\ save' = None
             /\ told' = (calm => \A h \in srv'.exists :
                               srv'.of[h] = IF h \in Device /\ sv.group = Internal THEN sv.was[h]
                                            ELSE IF h \in sv.form THEN sv.was[h] \cup {sv.group}
                                            ELSE sv.was[h] \ {sv.group})
             /\ loads' = loads \cup {[parts |-> A!Part, then |-> "save", seen |-> <<>>]}
             /\ sets' = [A!ResetGroupForm(s) EXCEPT !.shown = FALSE, !.loading = TRUE]
  BY DEF A!Continue
<1>2. CASE sv.put # None
  BY <1>1, <1>2
<1>3. CASE sv.put = None
  <2>1. told' = TRUE
    BY <1>1, <1>3 DEF Goal, Chosen
  <2>2. QED
    BY <1>1, <1>3, <2>1
<1>4. QED
  BY <1>2, <1>3

ListsMatch ==
  sets.list.exists = srv.exists /\ \A h \in A!Subject : sets.list.of[h] = srv.of[h]

\* A load that will have the groups of the subjects as the server has them.
LoadFresh(l) ==
  /\ l.parts = A!Part \/ ListsMatch
  /\ \A p \in DOMAIN l.seen : l.seen[p] = srv

\* The lists are the server's, or are about to be.
Fresh ==
  \/ loads = {} /\ ListsMatch
  \/ \E l \in loads : loads = {l} /\ LoadFresh(l)

\* During a save nothing else happens.
Saving ==
  /\ sets.shown /\ sets.saving /\ loads = {} /\ deletes = {}
  /\ IF save.class = None THEN ListsMatch /\ sets.editing # Internal /\ save.group # Internal
     ELSE Progress(save, srv, sets)

\* The dialog of a group that is edited is shown after its load.
Editing ==
  /\ sets.mode = "edit" =>
       /\ deletes = {}
       /\ IF sets.shown THEN loads = {} ELSE sets.loading /\ \A l \in loads : l.then \in Group
  /\ \A l \in loads : l.then \in Group => sets.mode = "edit" /\ ~sets.shown
  /\ sets.shown /\ sets.mode = "create" => sets.editing = None

Calm == acc.op = None /\ Editing /\ IF save = None THEN Fresh ELSE Saving

TruthTold == told = TRUE /\ (calm => Calm)

LEMMA TruthInit == ASSUME A!Init, Typed PROVE TruthTold
<1>1. ListsMatch
  BY DEF A!Init, A!Lists, ListsMatch
<1>2. QED
  BY <1>1 DEF A!Init, TruthTold, Calm, Editing, Fresh

\* Nothing of it changes.
LEMMA TruthAside ==
  ASSUME TruthTold, UNCHANGED <<srv, sets, save, loads, told>>, calm' => calm, deletes' = deletes,
         calm' => acc'.op = acc.op
  PROVE  TruthTold'
  BY DEF TruthTold, Calm, Editing, Fresh, Saving, ListsMatch, LoadFresh

LEMMA TruthAccounts ==
  ASSUME Typed, TruthTold,
         \/ \E h \in A!Account, g \in Group : A!ToggleDeviceGroup(h, g)
         \/ \E r \in Role : A!ToggleRolePermission(r)
         \/ \E r \in Role : A!SaveRole(r) \/ \E g \in Group : A!CreateRole(r, {g})
         \/ \E u \in User : \/ A!SaveUser(u) \/ A!SetActive(u)
                            \/ A!ResetPassword(u) \/ A!DeleteUser(u)
         \/ \E u \in User, g \in Group : A!CreateUser(u, {g})
         \/ \E outcome \in A!Outcome : A!Answered(outcome)
         \/ \E p \in A!Part : A!AccountsServed(p)
         \/ \E ok \in BOOLEAN : A!AccountsLoaded(ok)
  PROVE  TruthTold'
<1>t. IsAcc(acc)
  BY DEF Typed
<1>1. CASE \/ \E h \in A!Account, g \in Group : A!ToggleDeviceGroup(h, g)
           \/ \E r \in Role : A!ToggleRolePermission(r)
           \/ \E p \in A!Part : A!AccountsServed(p)
           \/ \E ok \in BOOLEAN : A!AccountsLoaded(ok)
  <2>1. UNCHANGED <<srv, sets, save, loads, deletes, calm, told>> /\ acc'.op = acc.op
    BY <1>1, <1>t
       DEF A!ToggleDeviceGroup, A!ToggleRolePermission, A!AccountsServed, A!AccountsLoaded,
           IsAcc
  <2>2. QED
    BY <2>1, TruthAside
<1>2. ASSUME NEW do, NEW h, NEW groups, NEW on, A!Ask(do, h, groups, on) PROVE TruthTold'
  BY <1>2 DEF A!Ask, TruthTold
<1>3. CASE \/ \E r \in Role : A!SaveRole(r) \/ \E g \in Group : A!CreateRole(r, {g})
           \/ \E u \in User : \/ A!SaveUser(u) \/ A!SetActive(u)
                              \/ A!ResetPassword(u) \/ A!DeleteUser(u)
           \/ \E u \in User, g \in Group : A!CreateUser(u, {g})
  BY <1>2, <1>3
     DEF A!SaveRole, A!CreateRole, A!SaveUser, A!SetActive, A!ResetPassword, A!DeleteUser,
         A!CreateUser
<1>4. CASE \E outcome \in A!Outcome : A!Answered(outcome)
  BY <1>4 DEF A!Answered, TruthTold, Calm
<1>5. QED
  BY <1>1, <1>3, <1>4

\* The server's tables and the lists of the dialog stay as they are.
LEMMA ListsStay ==
  ASSUME UNCHANGED srv, sets'.list = sets.list
  PROVE  /\ ListsMatch' <=> ListsMatch
         /\ UNCHANGED loads => (Fresh' <=> Fresh)
  BY DEF ListsMatch, Fresh, LoadFresh

LEMMA TruthSettings ==
  ASSUME Typed, SubjectsApart, TruthTold,
         \/ A!OpenCreateGroupDialog \/ A!CloseGroupDialog \/ A!RefreshGroupManagementList
         \/ \E g \in Group : A!OpenEditGroupDialog(g) \/ A!DeleteDeviceGroup(g)
         \/ \E h \in A!Subject : A!ToggleGroupFormSelection(h)
  PROVE  TruthTold'
<1>t. sets \in DialogSet /\ ("save" \notin Group) /\ (None \notin Group)
  BY DEF Typed, SubjectsApart
<1>r. /\ A!ResetGroupForm(sets) \in DialogSet /\ A!ResetGroupForm(sets).list = sets.list
      /\ A!ResetGroupForm(sets).mode = "create" /\ A!ResetGroupForm(sets).editing = None
      /\ A!ResetGroupForm(sets).shown = sets.shown
      /\ A!ResetGroupForm(sets).loading = sets.loading
  BY <1>t DEF A!ResetGroupForm, DialogSet
<1>u. ASSUME calm, ~sets.shown PROVE save = None
  BY <1>u DEF TruthTold, Calm, Saving
<1> DEFINE Load(parts, then) == [parts |-> parts, then |-> then, seen |-> <<>>]
<1>l. ASSUME NEW parts, NEW then, loads' = {Load(parts, then)}, parts = A!Part \/ ListsMatch'
      PROVE  Fresh'
  <2>1. LoadFresh(Load(parts, then))'
    BY <1>l DEF LoadFresh
  <2>2. QED
    BY <1>l, <2>1 DEF Fresh
<1>1. CASE A!OpenCreateGroupDialog
  <2>1. /\ sets'.list = sets.list /\ sets'.mode = "create" /\ sets'.editing = None
        /\ UNCHANGED <<srv, save, loads, deletes, acc, told>>
        /\ calm' => calm /\ loads = {} /\ ~sets.shown
    BY <1>1, <1>r DEF A!OpenCreateGroupDialog, DialogSet
  <2>2. QED
    BY <1>u, <2>1, ListsStay DEF TruthTold, Calm, Editing
<1>2. CASE A!CloseGroupDialog
  <2>1. /\ sets'.list = sets.list /\ sets'.mode = "create" /\ sets'.shown = FALSE
        /\ UNCHANGED <<srv, save, loads, deletes, acc, told>> /\ sets.shown
        /\ calm' => calm /\ save = None
    BY <1>2, <1>r DEF A!CloseGroupDialog, DialogSet
  <2>2. QED
    BY <2>1, ListsStay DEF TruthTold, Calm, Editing
<1>3. CASE A!RefreshGroupManagementList
  <2>1. /\ sets'.list = sets.list /\ sets'.mode = sets.mode /\ sets'.shown = sets.shown
        /\ UNCHANGED <<srv, save, deletes, acc, told>> /\ ~sets.shown /\ ~sets.loading
        /\ calm' => calm /\ loads = {} /\ loads' = {Load({"groups"}, None)}
    BY <1>3, <1>t DEF A!RefreshGroupManagementList, A!StartLoad, DialogSet
  <2>2. calm' => ListsMatch'
    BY <1>u, <2>1, ListsStay DEF TruthTold, Calm, Fresh
  <2>3. calm' => Fresh'
    BY <1>l, <2>1, <2>2
  <2>4. calm' => Editing'
    <3>1. \A l \in loads' : calm' => l.then = None
      BY <2>1
    <3>2. calm' => sets.mode # "edit"
      BY <2>1 DEF TruthTold, Calm, Editing
    <3>3. QED
      BY <1>t, <2>1, <3>1, <3>2 DEF TruthTold, Calm, Editing
  <2>5. calm' => Calm'
    BY <1>u, <2>1, <2>3, <2>4 DEF TruthTold, Calm
  <2>6. QED
    BY <2>1, <2>5 DEF TruthTold
<1>4. ASSUME NEW g \in Group, A!OpenEditGroupDialog(g) PROVE TruthTold'
  <2>1. /\ sets'.mode = "edit" /\ sets'.shown = FALSE /\ sets'.loading = TRUE
        /\ UNCHANGED <<srv, save, deletes, acc, told>>
        /\ calm' => /\ save = None /\ deletes = {} /\ acc.op = None
                    /\ loads' = {Load(A!Part, g)}
    BY <1>4, <1>r DEF A!OpenEditGroupDialog, A!ListShown, DialogSet
  <2>2. calm' => Fresh'
    <3>1. ASSUME calm' PROVE loads' = {Load(A!Part, g)}
      BY <2>1, <3>1
    <3>2. QED
      BY <1>l, <3>1
  <2>3. calm' => Editing'
    <3>1. Load(A!Part, g).then = g
      OBVIOUS
    <3>2. calm' => \A l \in loads' : l.then = g
      BY <2>1, <3>1
    <3>3. QED
      BY <2>1, <3>2 DEF Editing
  <2>4. QED
    BY <2>1, <2>2, <2>3 DEF TruthTold, Calm
<1>5. ASSUME NEW g \in Group, A!DeleteDeviceGroup(g) PROVE TruthTold'
  <2>1. /\ ~sets.shown /\ ~sets.loading /\ UNCHANGED <<srv, sets, save, loads, acc, calm, told>>
    BY <1>5 DEF A!DeleteDeviceGroup, A!ListShown
  <2>2. QED
    BY <1>u, <2>1 DEF TruthTold, Calm, Editing, Fresh, ListsMatch, LoadFresh
<1>6. ASSUME NEW h \in A!Subject, A!ToggleGroupFormSelection(h) PROVE TruthTold'
  <2>1. /\ sets'.list = sets.list /\ sets'.mode = sets.mode /\ sets'.shown = sets.shown
        /\ sets'.editing = sets.editing /\ sets'.loading = sets.loading
        /\ UNCHANGED <<srv, save, loads, deletes, acc, told>>
        /\ calm' => calm /\ save = None
    BY <1>6, <1>t DEF A!ToggleGroupFormSelection, DialogSet
  <2>2. QED
    BY <2>1, ListsStay DEF TruthTold, Calm, Editing
<1>7. QED
  BY <1>1, <1>2, <1>3, <1>4, <1>5, <1>6

\* The load that ends brought the lists as the server has them.
LEMMA TookMatches ==
  ASSUME Typed, SubjectsApart, NEW l \in loads, LoadFresh(l), l.parts = DOMAIN l.seen
  PROVE  LET list == A!Took(sets.list, l.seen, l.parts)
         IN list.exists = srv.exists /\ \A h \in A!Subject : list.of[h] = srv.of[h]
<1> DEFINE list == A!Took(sets.list, l.seen, l.parts)
<1>t. /\ srv \in TableSet /\ sets.list \in ListSet /\ l.parts \in {A!Part, {"groups"}}
  BY DEF Typed, TablesSound, DialogSet, IsLoad
<1>d. Device \cap A!Account = {} /\ A!Subject = Device \cup A!Account
  BY DEF SubjectsApart, A!Account, A!Subject
<1>1. CASE l.parts = A!Part
  <2>1. /\ "devices" \in l.parts /\ "accounts" \in l.parts
        /\ l.seen["devices"] = srv /\ l.seen["accounts"] = srv
    BY <1>1 DEF LoadFresh, A!Part
  <2>2. list.exists = (srv.exists \cap Device) \cup (srv.exists \cap A!Account)
    BY <2>1 DEF A!Took
  <2>3. \A h \in A!Subject : list.of[h] = srv.of[h]
    BY <1>d, <2>1 DEF A!Took
  <2>4. srv.exists \subseteq A!Subject
    BY <1>t DEF TableSet
  <2>5. QED
    BY <1>d, <2>2, <2>3, <2>4
<1>2. CASE l.parts = {"groups"}
  <2>1. ListsMatch /\ "devices" \notin l.parts /\ "accounts" \notin l.parts
    BY <1>2 DEF LoadFresh, A!Part
  <2>2. list.exists = (sets.list.exists \cap Device) \cup (sets.list.exists \cap A!Account)
    BY <2>1 DEF A!Took
  <2>3. \A h \in A!Subject : list.of[h] = sets.list.of[h]
    BY <1>d, <2>1 DEF A!Took
  <2>4. sets.list.exists \subseteq A!Subject
    BY <1>t DEF ListSet
  <2>5. QED
    BY <1>d, <2>1, <2>2, <2>3, <2>4 DEF ListsMatch
<1>3. QED
  BY <1>t, <1>1, <1>2

LEMMA TruthLoads ==
  ASSUME Typed, SubjectsApart, TruthTold, NEW l \in loads,
         A!LoadEnds(l) \/ A!LoadFails(l) \/ \E p \in A!Part : A!Served(l, p)
  PROVE  TruthTold'
<1>t. sets \in DialogSet /\ IsLoad(l)
  BY DEF Typed
<1>s. calm => save = None /\ loads = {l} /\ LoadFresh(l)
  <2>1. calm => save = None
    BY DEF TruthTold, Calm, Saving
  <2>2. QED
    BY <2>1 DEF TruthTold, Calm, Fresh
<1>1. CASE A!LoadEnds(l)
  <2> DEFINE list == A!Took(sets.list, l.seen, l.parts)
             s == [sets EXCEPT !.list = list, !.loading = FALSE]
  <2>1. /\ l.parts = DOMAIN l.seen /\ loads' = loads \ {l} /\ sets' = A!AfterLoad(s, l.then)
        /\ calm' = (calm /\ ~(sets.shown /\ l.then \in Group))
        /\ UNCHANGED <<srv, save, deletes, acc, told>>
    BY <1>1 DEF A!LoadEnds
  <2> HIDE DEF list
  <2>2. /\ s \in [list : {list}, form : SUBSET A!Subject, mode : {"create", "edit"},
                  editing : Group \cup {None}, shown : BOOLEAN, saving : BOOLEAN,
                  loading : BOOLEAN, error : BOOLEAN]
        /\ s.list = list /\ s.mode = sets.mode /\ s.shown = sets.shown
        /\ s.editing = sets.editing
    BY <1>t DEF DialogSet
  <2> HIDE DEF s
  <2>3. CASE ~calm'
    BY <2>1, <2>3 DEF TruthTold
  <2>4. CASE calm'
    <3>1. calm /\ loads' = {} /\ ~(sets.shown /\ l.then \in Group) /\ save' = None
      BY <1>s, <2>1, <2>4
    <3>2. /\ sets'.list = list /\ sets'.mode = sets.mode
          /\ l.then \in Group => sets'.shown = TRUE
          /\ l.then \notin Group => sets'.shown = sets.shown /\ sets'.editing = sets.editing
      <4>1. CASE l.then = "save"
        BY <2>1, <2>2, <4>1 DEF A!AfterLoad, SubjectsApart
      <4>2. CASE l.then \in Group
        <5>1. l.then # "save"
          BY <4>2 DEF SubjectsApart
        <5>2. sets' = [A!PopulateGroupForm(s, l.then) EXCEPT !.shown = TRUE]
          BY <2>1, <4>2, <5>1 DEF A!AfterLoad
        <5>3. QED
          BY <2>2, <4>2, <5>2 DEF A!PopulateGroupForm
      <4>3. CASE l.then # "save" /\ l.then \notin Group
        BY <2>1, <2>2, <4>3 DEF A!AfterLoad
      <4>4. QED
        BY <4>1, <4>2, <4>3
    <3>3. ListsMatch'
      BY <1>s, <2>1, <3>1, <3>2, TookMatches DEF ListsMatch, list
    <3>4. Fresh'
      BY <3>1, <3>3 DEF Fresh
    <3>5. Editing'
      <4>1. l.then \in Group => sets.mode = "edit"
        BY <3>1 DEF TruthTold, Calm, Editing
      <4>2. sets.mode = "edit" => deletes = {} /\ (l.then \in Group \/ sets.shown)
        BY <3>1 DEF TruthTold, Calm, Editing
      <4>3. sets.shown /\ sets.mode = "create" => sets.editing = None
        BY <3>1 DEF TruthTold, Calm, Editing
      <4>4. QED
        BY <2>1, <3>1, <3>2, <4>1, <4>2, <4>3 DEF Editing
    <3>6. QED
      BY <2>1, <3>1, <3>4, <3>5 DEF TruthTold, Calm
  <2>5. QED
    BY <2>3, <2>4
<1>2. CASE A!LoadFails(l)
  BY <1>2 DEF A!LoadFails, TruthTold
<1>3. ASSUME NEW p \in A!Part, A!Served(l, p) PROVE TruthTold'
  <2> DEFINE m == [l EXCEPT !.seen = [q \in DOMAIN l.seen \cup {p} |->
                                        IF q = p THEN srv ELSE l.seen[q]]]
  <2>1. /\ p \in l.parts \ DOMAIN l.seen /\ loads' = (loads \ {l}) \cup {m}
        /\ UNCHANGED <<srv, sets, save, deletes, acc, calm, told>>
    BY <1>3 DEF A!Served
  <2>2. /\ IsLoad(m) /\ m.parts = l.parts /\ m.then = l.then
        /\ DOMAIN m.seen = DOMAIN l.seen \cup {p} /\ m.seen[p] = srv
        /\ \A q \in DOMAIN l.seen : q # p => m.seen[q] = l.seen[q]
    BY <1>t, <2>1, ServedLoad DEF Typed
  <2> HIDE DEF m
  <2>a. PICK n : n = m
    OBVIOUS
  <2>3. CASE calm
    <3>1. save = None /\ loads' = {n} /\ loads = {l} /\ LoadFresh(l)
      BY <1>s, <2>1, <2>3, <2>a
    <3>2. LoadFresh(n)'
      BY <2>1, <2>2, <2>a, <3>1 DEF LoadFresh, ListsMatch
    <3>3. Fresh'
      BY <3>1, <3>2 DEF Fresh
    <3>4. Editing'
      BY <2>1, <2>2, <2>3, <2>a, <3>1 DEF TruthTold, Calm, Editing
    <3>5. QED
      BY <2>1, <2>3, <3>1, <3>3, <3>4 DEF TruthTold, Calm
  <2>4. QED
    BY <2>1, <2>3 DEF TruthTold
<1>4. QED
  BY <1>1, <1>2, <1>3

\* A save that goes on or ends, in a dialog nobody has touched.
LEMMA ContinueKeeps ==
  ASSUME SubjectsApart, TruthTold, NEW s \in DialogSet, s.shown, s.saving,
         s.mode = "create" => s.editing = None,
         calm' => calm /\ loads = {} /\ deletes' = {} /\ acc'.op = None,
         \/ /\ save'.put # None /\ Progress(save', srv', s)
            /\ sets' = s /\ UNCHANGED <<loads, told>>
         \/ /\ save' = None /\ told' = TRUE
            /\ loads' = loads \cup {[parts |-> A!Part, then |-> "save", seen |-> <<>>]}
            /\ sets' = [A!ResetGroupForm(s) EXCEPT !.shown = FALSE, !.loading = TRUE]
  PROVE  TruthTold'
<1>1. CASE ~calm'
  BY <1>1 DEF TruthTold
<1>2. CASE /\ calm'
           /\ save'.put # None /\ Progress(save', srv', s)
           /\ sets' = s /\ UNCHANGED <<loads, told>>
  <2>1. save' # None /\ save'.class # None
    BY <1>2 DEF Progress, Within, InClass, SubjectsApart, Class
  <2>2. Progress(save, srv, sets)'
    BY <1>2 DEF Progress, Within, Ahead, Goal, Chosen
  <2>3. Saving'
    BY <1>2, <2>1, <2>2 DEF Saving
  <2>4. Editing'
    BY <1>2 DEF Editing
  <2>5. QED
    BY <1>2, <2>1, <2>3, <2>4 DEF TruthTold, Calm
<1>3. CASE /\ calm' /\ save' = None /\ told' = TRUE
           /\ loads' = loads \cup {[parts |-> A!Part, then |-> "save", seen |-> <<>>]}
           /\ sets' = [A!ResetGroupForm(s) EXCEPT !.shown = FALSE, !.loading = TRUE]
  <2> DEFINE l == [parts |-> A!Part, then |-> "save", seen |-> <<>>]
  <2>1. loads' = {l} /\ l.then \notin Group /\ LoadFresh(l)'
    BY <1>3 DEF LoadFresh, SubjectsApart
  <2>2. sets'.mode = "create" /\ sets'.shown = FALSE
    BY <1>3 DEF A!ResetGroupForm, DialogSet
  <2>3. Editing' /\ Fresh'
    BY <2>1, <2>2 DEF Editing, Fresh
  <2>4. QED
    BY <1>3, <2>3 DEF TruthTold, Calm
<1>4. QED
  BY <1>1, <1>2, <1>3

\* The members of a group, saved from lists that match the tables.
LEMMA MembersMade ==
  ASSUME SubjectsApart, sets \in DialogSet, TablesSound(srv), NEW t \in TableSet,
         NEW sv \in SaveSet, NEW g \in Group, g \in t.groups,
         (g = Internal) <=> (sets.editing = Internal),
         t.exists = srv.exists, t.of = srv.of, ListsMatch
  PROVE  \A next \in A!SaveMembers(sv, g) :
           /\ next.put # None => Progress(next, t, sets)
           /\ next.put = None => \A h \in t.exists : t.of[h] = Goal(next, h)
<1> DEFINE first == A!ClassFrom([sv EXCEPT !.group = g, !.was = srv.of, !.form = sets.form],
                              IF sets.editing = Internal THEN Role ELSE Device)
<1>1. /\ A!SaveMembers(sv, g) = A!SaveAssignments(first)
      /\ InClass(first) /\ first.group = g /\ first.was = srv.of
      /\ first.form = sets.form /\ first.list = sets.list
      /\ first.class = IF sets.editing = Internal THEN Role ELSE Device
      /\ first.left = first.class
  BY MembersStart
<1> HIDE DEF first
<1>d. /\ Device \cap Role = {} /\ Device \cap User = {} /\ Role \cap User = {}
      /\ A!Account = Role \cup User /\ A!Subject = Device \cup A!Account
  BY DEF SubjectsApart, A!Account, A!Subject
<1>2. Ahead(first) = IF g = Internal THEN A!Account ELSE A!Subject
  BY <1>1, <1>d DEF Ahead, Later
<1>3. ASSUME NEW h \in t.exists
      PROVE  t.of[h] = IF h \in Ahead(first) THEN first.was[h] ELSE Goal(first, h)
  <2>1. h \in A!Subject /\ t.of[h] = first.was[h]
    BY <1>1 DEF TableSet
  <2>2. h \notin Ahead(first) => h \in Device /\ first.group = Internal
    BY <1>1, <1>2, <1>d, <2>1
  <2>3. QED
    BY <2>1, <2>2 DEF Goal
<1>4. Within(first, Ahead(first), t, sets)
  <2>1. sets.list.exists = t.exists /\ \A h \in A!Subject : sets.list.of[h] = first.was[h]
    BY <1>1 DEF ListsMatch
  <2>2. first.group = Internal => Ahead(first) \cap Device = {}
    BY <1>1, <1>2, <1>d
  <2>3. QED
    BY <1>1, <1>3, <2>1, <2>2 DEF Within
<1>5. QED
  BY <1>1, <1>4, ProgressMade

LEMMA TruthSave == ASSUME Typed, SubjectsApart, TruthTold, A!SaveGroupDialog PROVE TruthTold'
<1> DEFINE sv == [group |-> IF sets.mode = "create" THEN None ELSE sets.editing,
                  class |-> None, left |-> {}, list |-> sets.list, put |-> None,
                  was |-> srv.of, form |-> sets.form]
           s  == [sets EXCEPT !.saving = TRUE, !.error = FALSE]
<1>t. sets \in DialogSet /\ TablesSound(srv) /\ srv \in TableSet
  BY DEF Typed, TablesSound
<1>1. /\ IF sv.group = Internal THEN A!Continue(A!SaveMembers(sv, Internal), s)
         ELSE save' = sv /\ sets' = s /\ UNCHANGED <<loads, told>>
      /\ sets.shown /\ ~sets.saving /\ UNCHANGED <<srv, deletes, acc>>
      /\ calm' = (calm /\ loads = {} /\ deletes = {} /\ acc.op = None)
  BY DEF A!SaveGroupDialog
<1>2. sv \in SaveSet /\ sv.class = None
  BY <1>t DEF SaveSet, DialogSet, TableSet
<1>3. sv.group = IF sets.mode = "create" THEN None ELSE sets.editing
  OBVIOUS
<1> HIDE DEF sv
<1>4. /\ s \in DialogSet /\ s.shown /\ s.saving /\ s.mode = sets.mode
      /\ s.editing = sets.editing /\ s.list = sets.list /\ s.form = sets.form
  BY <1>t, <1>1 DEF DialogSet
<1> HIDE DEF s
<1>5. calm => /\ save = None /\ Fresh /\ (sets.mode = "create" => sets.editing = None)
              /\ (sets.mode = "edit" => loads = {})
  BY <1>1 DEF TruthTold, Calm, Saving, Editing
<1>6. CASE ~calm
  <2>1. ~calm'
    BY <1>1, <1>6
  <2>2. CASE sv.group = Internal
    <3>1. told' = TRUE
      BY <1>1, <1>6, <2>2 DEF A!Continue, TruthTold
    <3>2. QED
      BY <2>1, <3>1 DEF TruthTold
  <2>3. CASE sv.group # Internal
    BY <1>1, <2>1, <2>3 DEF TruthTold
  <2>4. QED
    BY <2>2, <2>3
<1>7. CASE calm /\ sv.group = Internal
  <2>1. sets.mode = "edit" /\ sets.editing = Internal
    BY <1>3, <1>7, <1>t DEF SubjectsApart, DialogSet
  <2>2. loads = {} /\ ListsMatch
    BY <1>5, <1>7, <2>1 DEF Fresh
  <2>3. \A next \in A!SaveMembers(sv, Internal) :
          /\ next.put # None => Progress(next, srv, sets)
          /\ next.put = None => \A h \in srv.exists : srv.of[h] = Goal(next, h)
    BY <1>2, <1>t, <2>1, <2>2, MembersMade DEF SubjectsApart, TablesSound
  <2> DEFINE puts == A!SaveMembers(sv, Internal)
  <2>4. ASSUME NEW next \in puts
        PROVE  /\ next.put # None => Progress(next, srv', s)
               /\ next.put = None /\ calm => \A h \in srv'.exists : srv'.of[h] = Goal(next, h)
    <3>1. Progress(next, srv, sets) => Progress(next, srv', s)
      BY <1>1, <1>4 DEF Progress, Within
    <3>2. QED
      BY <1>1, <2>3, <3>1
  <2>c. A!Continue(puts, s)
    BY <1>1, <1>7
  <2> HIDE DEF puts
  <2>5. \/ /\ save'.put # None /\ Progress(save', srv', s)
           /\ sets' = s /\ UNCHANGED <<loads, told>>
        \/ /\ save' = None /\ told' = TRUE
           /\ loads' = loads \cup {[parts |-> A!Part, then |-> "save", seen |-> <<>>]}
           /\ sets' = [A!ResetGroupForm(s) EXCEPT !.shown = FALSE, !.loading = TRUE]
    BY <2>4, <2>c, ContinueMade
  <2>6. s.mode = "create" => s.editing = None
    BY <1>4, <2>1
  <2>7. QED
    BY <1>1, <1>4, <2>5, <2>6, ContinueKeeps
<1>8. CASE calm /\ sv.group # Internal
  <2>1. save' = sv /\ sets' = s /\ UNCHANGED <<loads, told>>
    BY <1>1, <1>8
  <2>2. sets.editing # Internal
    BY <1>3, <1>5, <1>8, <1>t DEF DialogSet, SubjectsApart
  <2>3. CASE calm'
    <3>1. save' # None /\ save'.class = None /\ save'.group # Internal
      BY <1>2, <1>8, <2>1 DEF SubjectsApart
    <3>2. ListsMatch'
      BY <1>1, <1>4, <1>5, <1>8, <2>1, <2>3, ListsStay DEF Fresh
    <3>3. Saving'
      BY <1>1, <1>4, <2>1, <2>2, <2>3, <3>1, <3>2 DEF Saving
    <3>4. Editing'
      BY <1>1, <1>4, <1>5, <1>8, <2>1, <2>3 DEF Editing
    <3>5. QED
      BY <1>1, <2>1, <2>3, <3>1, <3>3, <3>4 DEF TruthTold, Calm
  <2>4. QED
    BY <2>1, <2>3 DEF TruthTold
<1>9. QED
  BY <1>6, <1>7, <1>8

LEMMA OvertakenOp == ASSUME IsAcc(acc), A!Overtaken PROVE acc'.op = acc.op
  BY AccCurrent DEF A!Overtaken

\* Once something has happened that the views do not allow for, everything is true.
LEMMA Troubled ==
  ASSUME TruthTold, NEW puts, NEW s, ~calm, ~calm', A!Continue(puts, s) \/ A!SaveFails
  PROVE  TruthTold'
  BY DEF TruthTold, A!Continue, A!SaveFails

LEMMA TruthGroup ==
  ASSUME Typed, SubjectsApart, TruthTold, NEW outcome \in A!Outcome, A!GroupSaved(outcome)
  PROVE  TruthTold'
<1>t. sets \in DialogSet /\ TablesSound(srv) /\ srv \in TableSet /\ IsAcc(acc)
      /\ (save # None => SaveSound(save))
  BY DEF Typed, TablesSound
<1>1. /\ save # None /\ save.class = None /\ calm' = (calm /\ outcome = "ok") /\ A!Overtaken
      /\ UNCHANGED deletes /\ save \in SaveSet
  BY <1>t DEF A!GroupSaved, SaveSound
<1>2. CASE ~calm
  <2>1. A!SaveFails \/ \E puts : A!Continue(puts, sets)
    BY DEF A!GroupSaved
  <2>2. QED
    BY <1>1, <1>2, <2>1, Troubled
<1>3. CASE outcome # "ok"
  <2>1. A!SaveFails
    BY <1>3 DEF A!GroupSaved
  <2>2. QED
    BY <1>1, <1>3, <2>1 DEF TruthTold, A!SaveFails
<1>4. CASE calm /\ outcome = "ok"
  <2>1. /\ sets.shown /\ sets.saving /\ loads = {} /\ deletes = {} /\ ListsMatch
        /\ sets.editing # Internal /\ save.group # Internal /\ acc.op = None
        /\ sets.mode = "create" => sets.editing = None
    BY <1>1, <1>4 DEF TruthTold, Calm, Saving, Editing
  <2>2. acc'.op = None
    BY <1>1, <1>t, <2>1, OvertakenOp
  <2>3. PICK g \in Group :
          /\ g # Internal /\ A!Continue(A!SaveMembers(save, g), sets)
          /\ srv' \in TableSet /\ g \in srv'.groups
          /\ srv'.exists = srv.exists /\ srv'.of = srv.of
    <3>1. CASE save.group # None
      <4>1. save.group \in Group /\ save.group \in srv.groups /\ srv' = srv
            /\ A!Continue(A!SaveMembers(save, save.group), sets)
        BY <1>1, <1>4, <3>1 DEF A!GroupSaved, SaveSet
      <4>2. QED
        BY <1>t, <2>1, <4>1
    <3>2. CASE save.group = None
      <4> DEFINE g == A!NextGroup(srv.born)
      <4>1. /\ Group # srv.born
            /\ srv' = [srv EXCEPT !.groups = @ \cup {g}, !.born = @ \cup {g}]
            /\ A!Continue(A!SaveMembers(save, g), sets)
        BY <1>4, <3>2 DEF A!GroupSaved
      <4>2. g \in Group /\ g # Internal
        BY <1>t, <4>1, NextGroupKnown DEF TablesSound, TableSet
      <4> HIDE DEF g
      <4>3. /\ srv' \in TableSet /\ g \in srv'.groups
            /\ srv'.exists = srv.exists /\ srv'.of = srv.of
        BY <1>t, <4>1, <4>2 DEF TableSet
      <4>4. QED
        BY <4>1, <4>2, <4>3
    <3>3. QED
      BY <3>1, <3>2
  <2> DEFINE puts == A!SaveMembers(save, g)
  <2>4. PICK t \in TableSet : t = srv'
    BY <2>3
  <2>5. \A next \in puts :
          /\ next.put # None => Progress(next, t, sets)
          /\ next.put = None => \A h \in t.exists : t.of[h] = Goal(next, h)
    BY <1>t, <1>1, <2>1, <2>3, <2>4, MembersMade
  <2>6. \A next \in puts :
          /\ next.put # None => Progress(next, srv', sets)
          /\ next.put = None /\ calm => \A h \in srv'.exists : srv'.of[h] = Goal(next, h)
    BY <2>4, <2>5
  <2>7. A!Continue(puts, sets)
    BY <2>3
  <2> HIDE DEF puts
  <2>8. \/ /\ save'.put # None /\ Progress(save', srv', sets)
           /\ sets' = sets /\ UNCHANGED <<loads, told>>
        \/ /\ save' = None /\ told' = TRUE
           /\ loads' = loads \cup {[parts |-> A!Part, then |-> "save", seen |-> <<>>]}
           /\ sets' = [A!ResetGroupForm(sets) EXCEPT !.shown = FALSE, !.loading = TRUE]
    BY <2>6, <2>7, ContinueMade
  <2>9. QED
    BY <1>1, <1>t, <2>1, <2>2, <2>8, ContinueKeeps
<1>5. QED
  BY <1>2, <1>3, <1>4

LEMMA TruthMember ==
  ASSUME Typed, SubjectsApart, TruthTold, NEW outcome \in A!Outcome, A!MemberSaved(outcome)
  PROVE  TruthTold'
<1>t. sets \in DialogSet /\ TablesSound(srv) /\ srv \in TableSet /\ IsAcc(acc)
      /\ (save # None => SaveSound(save))
  BY DEF Typed, TablesSound
<1>1. /\ save # None /\ save.put # None /\ InClass(save) /\ save.put \in PutSet
      /\ calm' = (calm /\ outcome = "ok") /\ A!Overtaken /\ UNCHANGED deletes
  BY <1>t DEF A!MemberSaved, SaveSound, SaveSet
<1>2. CASE ~calm
  <2>1. A!SaveFails \/ \E puts : A!Continue(puts, sets)
    BY DEF A!MemberSaved
  <2>2. QED
    BY <1>1, <1>2, <2>1, Troubled
<1>3. CASE outcome # "ok"
  <2>1. A!SaveFails
    BY <1>3 DEF A!MemberSaved
  <2>2. QED
    BY <1>1, <1>3, <2>1 DEF TruthTold, A!SaveFails
<1>4. CASE calm /\ outcome = "ok"
  <2> DEFINE h == save.put.subject
             groups == save.put.groups
  <2>1. /\ sets.shown /\ sets.saving /\ loads = {} /\ deletes = {} /\ acc.op = None
        /\ Progress(save, srv, sets)
        /\ sets.mode = "create" => sets.editing = None
    BY <1>1, <1>4 DEF TruthTold, Calm, Saving, Editing, InClass, SubjectsApart, Class
  <2>2. acc'.op = None
    BY <1>1, <1>t, <2>1, OvertakenOp
  <2>3. /\ InClass(save) /\ save.group \in srv.groups
        /\ save.list = sets.list /\ save.form = sets.form
        /\ sets.list.exists = srv.exists /\ \A k \in A!Subject : sets.list.of[k] = save.was[k]
        /\ \A k \in srv.exists : srv.of[k] = IF k \in Ahead(save) \cup {h} THEN save.was[k]
                                          ELSE Goal(save, k)
        /\ save.group = Internal => (Ahead(save) \cup {h}) \cap Device = {}
        /\ h \in srv.exists \ Ahead(save) /\ groups = Chosen(save, h)
    BY <2>1 DEF Progress, Within
  <2>4. /\ srv' = A!Placed(h, groups, save.put.on) /\ A!Continue(A!SaveAssignments(save), sets)
    BY <1>4 DEF A!MemberSaved
  <2>5. h \in A!Subject /\ groups \in SUBSET Group /\ save.put.on \in BOOLEAN
    BY <1>1 DEF PutSet
  <2>6. PICK t : t = srv'
    OBVIOUS
  <2>7. /\ t \in TableSet /\ t.groups = srv.groups /\ t.exists = srv.exists
        /\ t.of = [srv.of EXCEPT ![h] = groups \cap srv.groups]
    <3> DEFINE new == A!Placed(h, groups, save.put.on)
    <3>1. /\ TablesSound(new) /\ new.groups = srv.groups /\ new.exists = srv.exists
          /\ new.of = [srv.of EXCEPT ![h] = groups \cap srv.groups]
      BY <1>t, <2>5, PlacedSound
    <3>2. t = new
      BY <2>4, <2>6
    <3> HIDE DEF new
    <3>3. QED
      BY <3>1, <3>2 DEF TablesSound
  <2> HIDE DEF h, groups
  <2>8. t.of[h] = Goal(save, h)
    <3>1. save.was[h] \subseteq srv.groups
      BY <1>t, <2>3, <2>5 DEF TablesSound
    <3>2. groups \cap srv.groups = Chosen(save, h)
      BY <2>3, <3>1 DEF Chosen
    <3>3. Chosen(save, h) = Goal(save, h)
      BY <2>3, <2>5 DEF Goal
    <3>4. t.of[h] = groups \cap srv.groups
      BY <1>t, <2>5, <2>7 DEF TableSet
    <3>5. QED
      BY <3>2, <3>3, <3>4
  <2>9. ASSUME NEW k \in t.exists
        PROVE  t.of[k] = IF k \in Ahead(save) THEN save.was[k] ELSE Goal(save, k)
    <3>1. CASE k = h
      BY <2>3, <2>8, <3>1
    <3>2. CASE k # h
      <4>1. t.of[k] = srv.of[k]
        BY <1>t, <2>7, <3>2 DEF TableSet
      <4>2. QED
        BY <2>3, <2>7, <3>2, <4>1
    <3>3. QED
      BY <3>1, <3>2
  <2>10. Within(save, Ahead(save), t, sets)
    BY <2>3, <2>7, <2>9 DEF Within
  <2> DEFINE puts == A!SaveAssignments(save)
  <2>s. sets \in DialogSet /\ t \in TableSet
    BY <1>t, <2>7
  <2>11. ASSUME NEW next \in puts
         PROVE  /\ next.put # None => Progress(next, t, sets)
                /\ next.put = None => \A k \in t.exists : t.of[k] = Goal(next, k)
    BY <2>s, <2>10, ProgressMade
  <2>12. \A next \in puts :
           /\ next.put # None => Progress(next, srv', sets)
           /\ next.put = None /\ calm => \A k \in srv'.exists : srv'.of[k] = Goal(next, k)
    BY <2>6, <2>11
  <2>13. A!Continue(puts, sets)
    BY <2>4
  <2> HIDE DEF puts
  <2>14. \/ /\ save'.put # None /\ Progress(save', srv', sets)
            /\ sets' = sets /\ UNCHANGED <<loads, told>>
         \/ /\ save' = None /\ told' = TRUE
            /\ loads' = loads \cup {[parts |-> A!Part, then |-> "save", seen |-> <<>>]}
            /\ sets' = [A!ResetGroupForm(sets) EXCEPT !.shown = FALSE, !.loading = TRUE]
    BY <2>12, <2>13, ContinueMade
  <2>15. QED
    BY <1>1, <1>t, <2>1, <2>2, <2>14, ContinueKeeps
<1>5. QED
  BY <1>2, <1>3, <1>4

LEMMA TruthDeleted ==
  ASSUME Typed, SubjectsApart, TruthTold, NEW outcome \in A!Outcome, NEW g \in deletes,
         A!DeviceGroupDeleted(g, outcome)
  PROVE  TruthTold'
<1>t. sets \in DialogSet /\ IsAcc(acc)
  BY DEF Typed
<1>1. /\ deletes' = deletes \ {g} /\ A!Overtaken /\ UNCHANGED <<save, told>>
      /\ calm' = (calm /\ outcome = "ok" /\ loads = {})
      /\ outcome = "ok" => A!StartLoad(A!Part, None)
  BY DEF A!DeviceGroupDeleted
<1>2. acc'.op = acc.op
  BY <1>1, <1>t, OvertakenOp
<1>3. CASE ~calm'
  BY <1>1, <1>3 DEF TruthTold
<1>4. CASE calm'
  <2> DEFINE l == [parts |-> A!Part, then |-> None, seen |-> <<>>]
  <2>1. /\ save = None /\ sets.mode # "edit" /\ acc.op = None
        /\ sets.shown /\ sets.mode = "create" => sets.editing = None
    BY <1>1, <1>4 DEF TruthTold, Calm, Saving, Editing
  <2>2. /\ loads' = {l} /\ sets'.mode = sets.mode /\ sets'.shown = sets.shown
        /\ sets'.editing = sets.editing
    BY <1>1, <1>4, <1>t DEF A!StartLoad, DialogSet
  <2>3. l.then \notin Group /\ LoadFresh(l)'
    BY DEF LoadFresh, SubjectsApart
  <2>4. Fresh' /\ Editing'
    BY <2>1, <2>2, <2>3 DEF Fresh, Editing
  <2>5. QED
    BY <1>1, <1>2, <1>4, <2>1, <2>4 DEF TruthTold, Calm
<1>5. QED
  BY <1>3, <1>4

LEMMA TruthStep == ASSUME Typed, SubjectsApart, TruthTold, A!Next PROVE TruthTold'
<1>1. CASE A!Clicks
  BY <1>1, TruthSettings, TruthSave, TruthAccounts DEF A!Clicks
<1>2. CASE A!Server
  BY <1>2, TruthLoads, TruthGroup, TruthMember, TruthDeleted, TruthAccounts DEF A!Server
<1>3. QED
  BY <1>1, <1>2 DEF A!Next

---------------------------------------------------------------------------
(* The display                                                             *)

\* The last request of a connection is what its device was told, unless it was dropped;
\* without a connection there is none.
LastIsTold ==
  /\ link = None => last = None
  /\ last # None /\ ~dropped => link.told = last

\* What the delay, the heartbeat and the events are for.
Sizing ==
  /\ stage \in Stage
  /\ flex \in BOOLEAN /\ view \in BOOLEAN /\ resized \in BOOLEAN
  /\ timer \in BOOLEAN /\ heartbeat \in BOOLEAN /\ media \in BOOLEAN
  /\ link # None => link \in Link
  /\ kept # None => kept \in Link
  /\ LastIsTold
  /\ D!SizeReaches

LEMMA SizingInit == D!Init => Sizing
  BY DEF D!Init, Sizing, LastIsTold, D!SizeReaches

\* What the handlers do to the connection's size: it is asked for when it must be.
Told(s) ==
  /\ s.link # None => s.link \in Link
  /\ s.link = None => s.last = None
  /\ s.last # None /\ ~s.dropped => s.link.told = s.last
  /\ s.timer \in BOOLEAN /\ s.beat \in BOOLEAN /\ s.flex \in BOOLEAN
  /\ DOMAIN s = {"link", "last", "timer", "beat", "flex", "dropped"}

LEMMA NowTold == ASSUME Sizing PROVE Told(D!Now)
  BY DEF Sizing, Told, D!Now, LastIsTold

\* After it nothing is left to be sent, but for what was dropped.
LEMMA SendFacts ==
  ASSUME NEW s, Told(s), stage \in Stage, NoneIsNone, NEW t \in D!SendDisplayResizeIfNeeded(s)
  PROVE  /\ Told(t)
         /\ t.flex = s.flex /\ t.timer = s.timer /\ t.beat = s.beat
         /\ s.link = None <=> t.link = None
         /\ s.link # None => t.link.connected = s.link.connected /\ t.link.control = s.link.control
         /\ t.flex /\ t.link # None /\ t.link.connected /\ t.link.control = "open" /\ ~t.dropped
              => t.link.told = D!BuildAdaptiveDisplaySize(stage)
<1> DEFINE size == D!BuildAdaptiveDisplaySize(stage)
<1>1. size \in Sizes /\ size # None /\ None \notin Link
  BY DEF NoneIsNone, Sizes
<1>2. CASE D!MustSend(s)
  <2>1. PICK full \in BOOLEAN : t = D!Sent(s, full)
    BY <1>2 DEF D!SendDisplayResizeIfNeeded
  <2>2. s.link \in Link /\ s.link # None /\ s.flex
    BY <1>2 DEF Told, D!MustSend
  <2> DEFINE l == [s.link EXCEPT !.told = IF full THEN @ ELSE size]
  <2>3. /\ l \in Link /\ l.connected = s.link.connected /\ l.control = s.link.control
        /\ ~full => l.told = size
    BY <1>1, <2>2 DEF Link
  <2>4. /\ t.link = l /\ t.last = size /\ t.dropped = full
        /\ t.timer = s.timer /\ t.beat = s.beat /\ t.flex = s.flex
        /\ DOMAIN t = {"link", "last", "timer", "beat", "flex", "dropped"}
    BY <2>1 DEF D!Sent, Told
  <2> HIDE DEF l, size
  <2>q. QED
    BY <1>1, <2>2, <2>3, <2>4 DEF Told, size
<1>3. CASE ~D!MustSend(s)
  BY <1>1, <1>3 DEF D!SendDisplayResizeIfNeeded, Told, D!MustSend
<1>4. QED
  BY <1>2, <1>3

\* The handlers that end with a request, scheduled or sent at once.
LEMMA ScheduleFacts ==
  ASSUME NEW s, Told(s)
  PROVE  /\ Told(D!ScheduleDisplayResize(s))
         /\ D!ScheduleDisplayResize(s).flex = s.flex
         /\ s.flex => D!ScheduleDisplayResize(s).timer
  BY DEF Told, D!ScheduleDisplayResize

LEMMA NowFacts ==
  ASSUME NEW s, Told(s), stage \in Stage, NoneIsNone, NEW t \in D!ScheduleNow(s)
  PROVE  /\ Told(t) /\ t.flex = s.flex
         /\ t.flex /\ t.link # None /\ t.link.connected /\ t.link.control = "open" /\ ~t.dropped
              => t.link.told = D!BuildAdaptiveDisplaySize(stage)
<1> DEFINE c == D!ClearPendingDisplayResize(s)
<1>1. Told(c) /\ c.flex = s.flex
  BY DEF Told, D!ClearPendingDisplayResize
<1> HIDE DEF c
<1>2. CASE s.flex
  <2>1. t \in D!SendDisplayResizeIfNeeded(c)
    BY <1>2 DEF D!ScheduleNow, c
  <2>2. QED
    BY <1>1, <2>1, SendFacts
<1>3. CASE ~s.flex
  <2>1. t = c
    BY <1>3 DEF D!ScheduleNow, c
  <2>2. QED
    BY <1>1, <1>3, <2>1
<1>4. QED
  BY <1>2, <1>3

\* A step that becomes a state in which there is nothing left to tell, or something that
\* will.
LEMMA BecomesKeeps ==
  ASSUME NEW s, Told(s), D!Becomes(s), s.flex = flex',
         stage' \in Stage, view' \in BOOLEAN, resized' \in BOOLEAN, media' \in BOOLEAN,
         kept' # None => kept' \in Link,
         (/\ flex' /\ view'
          /\ s.link # None /\ s.link.connected /\ s.link.control = "open"
          /\ s.link.told # D!BuildAdaptiveDisplaySize(stage')
          /\ ~s.dropped) => s.timer \/ s.beat \/ resized' \/ media'
  PROVE  Sizing'
<1>1. Sizing' =
        (/\ stage' \in Stage
         /\ flex' \in BOOLEAN /\ view' \in BOOLEAN /\ resized' \in BOOLEAN
         /\ timer' \in BOOLEAN /\ heartbeat' \in BOOLEAN /\ media' \in BOOLEAN
         /\ link' # None => link' \in Link
         /\ kept' # None => kept' \in Link
         /\ LastIsTold' /\ D!SizeReaches')
  BY DEF Sizing
<1>2. LastIsTold'
  BY DEF LastIsTold, Told, D!Becomes
<1>3. D!SizeReaches'
  BY DEF D!SizeReaches, D!Becomes
<1>4. QED
  BY <1>1, <1>2, <1>3 DEF Told, D!Becomes

LEMMA SizingStep == ASSUME Sizing, NoneIsNone, D!Next PROVE Sizing'
<1> USE DEF Sizing
<1>n. Told(D!Now) /\ D!Now.flex = flex /\ D!Now.link = link
  BY NowTold DEF D!Now
<1>1. ASSUME NEW s \in Stage, D!StageResizes(s) PROVE Sizing'
  BY <1>1 DEF D!StageResizes, D!resizing, LastIsTold, D!SizeReaches
<1>2. CASE D!HandleWindowResize
  BY <1>2, <1>n, ScheduleFacts, BecomesKeeps DEF D!HandleWindowResize
<1>3. CASE D!HandleVideoMetadataLoaded
  BY <1>3, <1>n, ScheduleFacts, BecomesKeeps DEF D!HandleVideoMetadataLoaded
<1>4. CASE D!HandleVideoResize
  BY <1>4, <1>n, ScheduleFacts, BecomesKeeps DEF D!HandleVideoResize, D!events
<1>5. CASE D!FlexChanges
  <2> DEFINE s == [D!Now EXCEPT !.flex = ~flex, !.last = None]
  <2>1. Told(s) /\ s.flex = ~flex
    BY <1>n DEF Told, D!Now
  <2>2. flex' = ~flex /\ UNCHANGED <<view, stage, resized, media, kept>>
    BY <1>5 DEF D!FlexChanges, D!events
  <2> HIDE DEF s
  <2>3. CASE s.flex
    <3>1. PICK t \in D!ScheduleNow(s) : D!Becomes(D!StartFlexDisplayHeartbeat(t))
      BY <1>5, <2>3 DEF D!FlexChanges, s
    <3>2. Told(t) /\ t.flex = s.flex
      BY <2>1, <3>1, NowFacts
    <3> DEFINE u == D!StartFlexDisplayHeartbeat(t)
    <3>3. Told(u) /\ u.flex = s.flex /\ u.beat
      BY <2>3, <3>2 DEF Told, D!StartFlexDisplayHeartbeat
    <3> HIDE DEF u
    <3>4. D!Becomes(u)
      BY <3>1 DEF u
    <3>5. QED
      BY <2>1, <2>2, <3>3, <3>4, BecomesKeeps
  <2>4. CASE ~s.flex
    <3> DEFINE u == D!StopFlexDisplayHeartbeat(D!ClearPendingDisplayResize(s))
    <3>1. Told(u) /\ u.flex = s.flex
      BY <2>1 DEF Told, D!StopFlexDisplayHeartbeat, D!ClearPendingDisplayResize
    <3>2. D!Becomes(u)
      BY <1>5, <2>4 DEF D!FlexChanges, s
    <3> HIDE DEF u
    <3>3. QED
      BY <2>1, <2>2, <2>4, <3>1, <3>2, BecomesKeeps
  <2>5. QED
    BY <2>3, <2>4
<1>6. CASE D!TimerFires
  <2> DEFINE s == [D!Now EXCEPT !.timer = FALSE]
  <2>1. Told(s) /\ s.flex = flex
    BY <1>n DEF Told, D!Now
  <2>2. PICK t \in D!SendDisplayResizeIfNeeded(s) : D!Becomes(t)
    BY <1>6 DEF D!TimerFires
  <2> HIDE DEF s
  <2>3. QED
    BY <1>6, <2>1, <2>2, SendFacts, BecomesKeeps DEF D!TimerFires, D!events
<1>7. CASE D!HeartbeatTicks
  <2>1. PICK t \in D!SendDisplayResizeIfNeeded(D!Now) : D!Becomes(t)
    BY <1>7 DEF D!HeartbeatTicks
  <2>2. QED
    BY <1>7, <1>n, <2>1, SendFacts, BecomesKeeps DEF D!HeartbeatTicks, D!events
<1>8. CASE D!ControlOpens
  <2> DEFINE s == [[D!Now EXCEPT !.link.control = "open"] EXCEPT !.last = None]
  <2>1. Told(s) /\ s.flex = flex
    BY <1>8, <1>n DEF Told, D!Now, Link, D!ControlOpens, NoneIsNone
  <2>2. PICK t \in D!ScheduleNow(s) : D!Becomes(t)
    BY <1>8 DEF D!ControlOpens, D!OnControlChannelOpen
  <2> HIDE DEF s
  <2>3. QED
    BY <1>8, <2>1, <2>2, NowFacts, BecomesKeeps DEF D!ControlOpens, D!events
<1>9. CASE D!KeptControlOpens
  <2> DEFINE s == [D!Now EXCEPT !.last = None]
  <2>1. Told(s) /\ s.flex = flex
    BY <1>n DEF Told, D!Now
  <2>2. PICK t \in D!ScheduleNow(s) : D!Becomes(t)
    BY <1>9 DEF D!KeptControlOpens, D!OnControlChannelOpen
  <2>3. kept' \in Link
    BY <1>9 DEF D!KeptControlOpens, Link
  <2> HIDE DEF s
  <2>4. QED
    BY <1>9, <2>1, <2>2, <2>3, NowFacts, BecomesKeeps DEF D!KeptControlOpens, D!events
<1>10. CASE D!PeerConnected
  <2> DEFINE s == [D!Now EXCEPT !.link.connected = TRUE]
  <2>1. Told(s) /\ s.flex = flex
    BY <1>10, <1>n DEF Told, D!Now, Link, D!PeerConnected, NoneIsNone
  <2> HIDE DEF s
  <2>2. D!Becomes(D!ScheduleDisplayResize(s))
    BY <1>10 DEF D!PeerConnected, s
  <2>3. QED
    BY <1>10, <2>1, <2>2, ScheduleFacts, BecomesKeeps DEF D!PeerConnected
<1>11. CASE D!PeerDisconnected
  <2>1. link # None /\ link' = [link EXCEPT !.connected = FALSE]
    BY <1>11 DEF D!PeerDisconnected
  <2>2. link' \in Link /\ link' # None /\ ~link'.connected /\ link'.told = link.told
    BY <2>1 DEF Link, NoneIsNone
  <2>3. QED
    BY <1>11, <2>2 DEF D!PeerDisconnected, D!resizing, D!events, LastIsTold, D!SizeReaches
<1>12. CASE D!Stop
  <2>1. Told(D!Stopped(D!Now)) /\ D!Stopped(D!Now).flex = flex /\ D!Stopped(D!Now).link = None
    BY <1>n DEF Told, D!Stopped, D!ClearPendingDisplayResize, D!StopFlexDisplayHeartbeat
  <2>2. QED
    BY <1>12, <2>1, BecomesKeeps DEF D!Stop, D!events
<1>13. CASE D!Start
  <2>1. PICK new \in D!NewLink : D!Becomes([D!Stopped(D!Now) EXCEPT !.link = new])
    BY <1>13 DEF D!Start
  <2>2. new \in Link /\ ~new.connected
    BY <2>1 DEF D!NewLink, Link, Sizes
  <2> DEFINE s == [D!Stopped(D!Now) EXCEPT !.link = new]
  <2>3. Told(s) /\ s.flex = flex /\ s.link = new
    BY <1>n, <2>2
       DEF Told, D!Stopped, D!ClearPendingDisplayResize, D!StopFlexDisplayHeartbeat, NoneIsNone
  <2> HIDE DEF s
  <2>4. D!Becomes(s)
    BY <2>1 DEF s
  <2>5. QED
    BY <1>13, <2>2, <2>3, <2>4, BecomesKeeps DEF D!Start, D!events
<1>14. ASSUME D!PutAside, UNCHANGED <<flex, stage>>, view' \in BOOLEAN, resized' \in BOOLEAN,
              media' \in BOOLEAN
       PROVE  Sizing'
  <2>1. /\ Told(D!Stopped(D!Now)) /\ D!Stopped(D!Now).flex = flex /\ D!Stopped(D!Now).link = None
        /\ Told(D!DetachActiveConnectionFromView(D!Now))
        /\ D!DetachActiveConnectionFromView(D!Now).flex = flex
        /\ D!DetachActiveConnectionFromView(D!Now).link = None
    BY <1>n
       DEF Told, D!Stopped, D!DetachActiveConnectionFromView, D!ClearPendingDisplayResize,
           D!StopFlexDisplayHeartbeat
  <2>2. CASE link = None
    BY <1>14, <2>1, <2>2, BecomesKeeps DEF D!PutAside
  <2>3. CASE link # None
    BY <1>14, <2>1, <2>3, BecomesKeeps DEF D!PutAside
  <2>4. QED
    BY <2>2, <2>3
<1>15. CASE D!SwitchTab
  BY <1>14, <1>15 DEF D!SwitchTab, D!events
<1>16. CASE D!Restore
  BY <1>16 DEF D!Restore, D!resizing, LastIsTold, D!SizeReaches, Link, NoneIsNone
<1>17. CASE D!Deactivate
  BY <1>14, <1>17 DEF D!Deactivate
<1>18. CASE D!Activate
  BY <1>18 DEF D!Activate, D!resizing, LastIsTold, D!SizeReaches
<1>19. QED
  BY <1>1, <1>2, <1>3, <1>4, <1>5, <1>6, <1>7, <1>8, <1>9, <1>10, <1>11, <1>12, <1>13,
     <1>15, <1>16, <1>17, <1>18 DEF D!Next

---------------------------------------------------------------------------
(* The mapping                                                             *)

Cast ==
  [shown : Shown \cup {None}, runs : [id : Profile, keys : Nat] \cup {None},
   enabled : BOOLEAN, editing : BOOLEAN, behind : BOOLEAN]

Query ==
  [edit : BOOLEAN, new : BOOLEAN, of : Profile \cup {None}, tab : Tab \cup {None},
   manage : BOOLEAN]

TabState == [active : Profile \cup {None}, enabled : BOOLEAN]

Desk ==
  [ids : SUBSET Profile, active : Profile \cup {None}, enabled : BOOLEAN,
   info : Shown \cup {None}, import : Profile \cup {None},
   ask : Profile \cup {None, "exit", "back"}]

Stores == [Profile -> Stamps \cup {None}]

TabStates == [Tab \cup {None} -> TabState]

\* What is shown has a name, unless it is new: only then a change of it is not stored.
ShownNamed ==
  page = "screencast" /\ ~query.new /\ ~cast.behind /\ cast.shown # None => cast.shown.named

Mapped ==
  /\ stored \in Stores /\ tabs \in TabStates /\ castTab \in Tab
  /\ cast \in Cast /\ query \in Query /\ desk \in Desk
  /\ unsaved \in BOOLEAN /\ moves \in Nat
  /\ ShownNamed
  /\ M!MappingAsShown

LEMMA TabStatesKnown ==
  /\ M!Off \in TabState /\ M!Off.active = None /\ ~M!Off.enabled
  /\ \A p \in Profile : M!On(p) \in TabState /\ M!On(p).active = p /\ M!On(p).enabled
  BY DEF M!Off, M!On, TabState

LEMMA WholeShown ==
  ASSUME NEW S \in Stores, NEW p \in Profile, S[p] # None
  PROVE  /\ M!Whole(p, S) \in Shown /\ M!Whole(p, S).id = p /\ M!Whole(p, S).named
         /\ M!Whole(p, S).keys = S[p].keys /\ M!Whole(p, S).rest = S[p].rest
         /\ M!Compiled(M!Whole(p, S)) \in [id : Profile, keys : Nat]
  BY DEF Stores, Stamps, M!Whole, Shown, M!Compiled

LEMMA AskedKnown ==
  ASSUME NEW q \in Query, NEW t \in Tab, NEW T \in TabStates
  PROVE  M!Asked(q, t, T) \in Profile \cup {None}
  BY DEF M!Asked, Query, TabStates, TabState

\* What a load shows is what the tab or the route names, what runs and what is stored.
LEMMA LoadFacts ==
  ASSUME NEW q \in Query, NEW t \in Tab, NEW S \in Stores, NEW T \in TabStates, NoProfileIsNone
  PROVE  LET loaded == M!LoadActiveProfile(q, t, S, T)
             c == loaded.cast
         IN /\ c \in Cast /\ ~c.behind /\ loaded.tabs \in TabStates
            /\ c.enabled = (c.shown # None)
            /\ c.shown = None => c.runs = None
            /\ c.shown # None =>
                 /\ c.shown.id = M!Asked(q, t, T) /\ loaded.tabs = T
                 /\ c.runs = M!Compiled(c.shown) /\ c.shown.named
                 /\ S[c.shown.id] # None
                 /\ S[c.shown.id].keys = c.shown.keys /\ S[c.shown.id].rest = c.shown.rest
<1> DEFINE p == M!Asked(q, t, T)
           found == p # None /\ S[p] # None
           loaded == M!LoadActiveProfile(q, t, S, T)
           c == loaded.cast
<1>1. p \in Profile \cup {None}
  BY AskedKnown
<1>2. /\ c = [shown |-> IF found THEN M!Whole(p, S) ELSE None,
              runs |-> IF found THEN M!Compiled(M!Whole(p, S)) ELSE None,
              enabled |-> found, editing |-> q.edit, behind |-> FALSE]
      /\ loaded.tabs = IF ~found /\ (T[t].enabled \/ q.of # None) THEN [T EXCEPT ![t] = M!Off]
                       ELSE T
  BY DEF M!LoadActiveProfile
<1>3. loaded.tabs \in TabStates /\ (found => loaded.tabs = T) /\ q.edit \in BOOLEAN
  BY <1>2, TabStatesKnown DEF TabStates, Query
<1> HIDE DEF loaded, c, p
<1>4. CASE found
  <2>1. p \in Profile
    BY <1>1, <1>4
  <2>2. /\ M!Whole(p, S) \in Shown /\ M!Whole(p, S).id = p /\ M!Whole(p, S).named
        /\ M!Whole(p, S).keys = S[p].keys /\ M!Whole(p, S).rest = S[p].rest
        /\ M!Compiled(M!Whole(p, S)) \in [id : Profile, keys : Nat]
    BY <1>4, <2>1, WholeShown
  <2>3. /\ c.shown = M!Whole(p, S) /\ c.runs = M!Compiled(M!Whole(p, S)) /\ c.enabled /\ ~c.behind
        /\ c \in Cast
    BY <1>2, <1>3, <1>4, <2>2 DEF Cast
  <2>4. QED
    BY <1>3, <1>4, <2>2, <2>3 DEF c, loaded, p, NoProfileIsNone
<1>5. CASE ~found
  <2>1. c.shown = None /\ c.runs = None /\ c.enabled = FALSE /\ ~c.behind /\ c \in Cast
    BY <1>2, <1>3, <1>5 DEF Cast
  <2>2. QED
    BY <1>3, <2>1 DEF c, loaded
<1>6. QED
  BY <1>4, <1>5

LEMMA RefreshFacts ==
  ASSUME NEW k \in Tab \cup {None}, NEW S \in Stores, NEW T \in TabStates, NEW dk \in Desk
  PROVE  LET listed == M!RefreshProfiles(k, S, T, dk)
         IN listed.tabs \in TabStates /\ listed.desk \in Desk
<1> DEFINE gone == T[k].active # None /\ S[T[k].active] = None
           state == [T[k] EXCEPT !.active = IF gone THEN None ELSE @]
<1>1. state \in TabState
  BY DEF TabStates, TabState
<1> HIDE DEF state
<1>2. M!RefreshProfiles(k, S, T, dk) =
        [desk |-> [dk EXCEPT !.ids = {p \in Profile : S[p] # None}, !.active = state.active,
                             !.enabled = state.enabled],
         tabs |-> [T EXCEPT ![k] = state]]
  BY DEF M!RefreshProfiles, state
<1>3. [T EXCEPT ![k] = state] \in TabStates
  BY <1>1 DEF TabStates
<1>4. [dk EXCEPT !.ids = {p \in Profile : S[p] # None}, !.active = state.active,
                 !.enabled = state.enabled] \in Desk
  BY <1>1 DEF Desk, TabState
<1>5. QED
  BY <1>2, <1>3, <1>4

LEMMA MappedInit == ASSUME M!Init, NoProfileIsNone PROVE Mapped
<1>1. M!Empty \in Query /\ M!Empty.of = None /\ ~M!Empty.new
  BY DEF M!Empty, Query
<1>2. stored \in Stores
  BY DEF M!Init, Stores, Stamps
<1>3. tabs \in TabStates
  BY TabStatesKnown DEF M!Init, TabStates
<1>4. desk \in Desk
  BY DEF M!Init, Desk
<1>5. PICK t \in Tab : cast = [M!LoadActiveProfile(M!Empty, t, stored, tabs).cast EXCEPT
                                 !.behind = (t # castTab)]
  BY DEF M!Init
<1> DEFINE c == M!LoadActiveProfile(M!Empty, t, stored, tabs).cast
<1>6. /\ c \in Cast /\ ~c.behind
      /\ c.enabled = (c.shown # None)
      /\ c.shown = None => c.runs = None
      /\ c.shown # None =>
           /\ c.shown.id = M!Asked(M!Empty, t, tabs)
           /\ c.runs = M!Compiled(c.shown) /\ c.shown.named
           /\ stored[c.shown.id] # None
           /\ stored[c.shown.id].keys = c.shown.keys /\ stored[c.shown.id].rest = c.shown.rest
  BY <1>1, <1>2, <1>3, LoadFacts
<1>7. /\ cast \in Cast /\ cast.shown = c.shown /\ cast.runs = c.runs /\ cast.enabled = c.enabled
      /\ cast.behind = (t # castTab)
  BY <1>5, <1>6 DEF Cast
<1> HIDE DEF c
<1>8. M!MappingAsShown /\ ShownNamed
  BY <1>6, <1>7 DEF M!Init, M!MappingAsShown, ShownNamed
<1>9. QED
  BY <1>1, <1>2, <1>3, <1>4, <1>7, <1>8 DEF M!Init, Mapped

\* A route that changes: the view loads, or does not show what the property is about.
LEMMA GoKeeps ==
  ASSUME Mapped, NoProfileIsNone, NEW v, NEW q \in Query, NEW t \in Tab, NEW S \in Stores,
         NEW T \in TabStates, NEW dk \in Desk, M!Go(v, q, t, S, T, dk), moves' \in Nat
  PROVE  Mapped'
<1> DEFINE loaded == M!LoadActiveInputMappingProfile(q, t, S, T)
           listed == M!RefreshProfiles(q.tab, S, loaded.tabs, dk)
<1>1. /\ q.new => M!Unused # {}
      /\ page' = v /\ query' = q /\ castTab' = t /\ stored' = S
      /\ cast' = loaded.cast
      /\ tabs' = IF v = "profiles" THEN listed.tabs ELSE loaded.tabs
      /\ desk' = IF v = "profiles" THEN listed.desk ELSE dk
      /\ unsaved' = (unsaved /\ v = "screencast")
  BY DEF M!Go
<1>2. unsaved' \in BOOLEAN
  BY <1>1 DEF Mapped
<1>3. q.tab \in Tab \cup {None} /\ q.edit \in BOOLEAN
  BY DEF Query
<1>4. ASSUME loaded.tabs \in TabStates
      PROVE  tabs' \in TabStates /\ desk' \in Desk
  <2> HIDE DEF loaded
  <2>1. listed.tabs \in TabStates /\ listed.desk \in Desk
    BY <1>3, <1>4, RefreshFacts
  <2>2. QED
    BY <1>1, <1>4, <2>1
<1>5. CASE q.new
  <2>1. loaded.cast = [cast EXCEPT !.shown = M!Draft, !.editing = q.edit, !.behind = FALSE]
        /\ loaded.tabs = T
    BY <1>5 DEF M!LoadActiveInputMappingProfile
  <2>2. M!Draft \in Shown
    <3>1. M!Unused \subseteq Profile /\ M!Unused # {}
      BY <1>1, <1>5 DEF M!Unused
    <3>2. (CHOOSE p \in M!Unused : TRUE) \in Profile
      BY <3>1
    <3>3. QED
      BY <3>2 DEF M!Draft, Shown
  <2>3. cast' \in Cast
    BY <1>1, <1>3, <2>1, <2>2 DEF Mapped, Cast
  <2>4. ShownNamed' /\ M!MappingAsShown'
    BY <1>1, <1>5 DEF ShownNamed, M!MappingAsShown
  <2>5. QED
    BY <1>1, <1>2, <1>4, <2>1, <2>3, <2>4 DEF Mapped
<1>6. CASE ~q.new
  <2> DEFINE c == loaded.cast
  <2>1. /\ c \in Cast /\ ~c.behind /\ loaded.tabs \in TabStates
        /\ c.enabled = (c.shown # None)
        /\ c.shown = None => c.runs = None
        /\ c.shown # None =>
             /\ c.shown.id = M!Asked(q, t, T) /\ loaded.tabs = T
             /\ c.runs = M!Compiled(c.shown) /\ c.shown.named
             /\ S[c.shown.id] # None
             /\ S[c.shown.id].keys = c.shown.keys /\ S[c.shown.id].rest = c.shown.rest
    <3>1. loaded = M!LoadActiveProfile(q, t, S, T)
      BY <1>6 DEF M!LoadActiveInputMappingProfile
    <3>2. QED
      BY <3>1, LoadFacts
  <2> HIDE DEF loaded
  <2>2. M!MappingAsShown'
    <3>1. v = "screencast" => tabs' = loaded.tabs
      BY <1>1
    <3> HIDE DEF c
    <3>2. QED
      BY <1>1, <2>1, <3>1 DEF M!MappingAsShown, c
  <2>3. ShownNamed'
    BY <1>1, <2>1 DEF ShownNamed
  <2>4. QED
    BY <1>1, <1>2, <1>4, <2>1, <2>2, <2>3 DEF Mapped
<1>7. QED
  BY <1>5, <1>6

\* A change of the profile that is shown keeps its identifier and its name.
Edited(p) == p \in Shown /\ p.id = cast.shown.id /\ p.named = cast.shown.named

LEMMA ChangedEdited ==
  ASSUME Mapped, cast.shown # None
  PROVE  /\ Edited(cast.shown) /\ Edited(M!Changed("keys")) /\ Edited(M!Changed("rest"))
         /\ M!Changed("rest").keys = cast.shown.keys
<1>1. cast.shown \in Shown /\ moves + 2 \in Nat
  BY DEF Mapped, Cast
<1>2. QED
  BY <1>1 DEF Edited, M!Changed, Shown

\* What is saved is stored, run and shown, unless it has no name.
LEMMA SaveKeeps ==
  ASSUME Mapped, NoProfileIsNone, cast.shown # None, NEW p, Edited(p),
         M!SaveActiveInputMappingProfile(p), UNCHANGED <<tabs, castTab, page, query, desk>>,
         unsaved' \in BOOLEAN, moves' \in Nat
  PROVE  Mapped'
<1>1. /\ p.id \in Profile /\ p.keys \in Nat /\ p.rest \in Nat
      /\ cast.shown.id = p.id /\ cast.shown.named = p.named
  BY DEF Edited, Shown
<1>2. /\ M!Content(p) \in Stamps /\ M!Content(p).keys = p.keys /\ M!Content(p).rest = p.rest
      /\ M!Compiled(p) \in [id : Profile, keys : Nat]
  BY <1>1 DEF M!Content, M!Compiled, Stamps
<1>3. CASE M!SaveActiveProfile(p) /\ p.named
  <2>1. /\ stored' = [stored EXCEPT ![p.id] = M!Content(p)]
        /\ cast' = [cast EXCEPT !.shown = p, !.runs = M!Compiled(p)]
    BY <1>3 DEF M!SaveActiveProfile
  <2>2. /\ cast' \in Cast /\ cast'.shown = p /\ cast'.runs = M!Compiled(p)
        /\ cast'.enabled = cast.enabled /\ cast'.behind = cast.behind
    BY <1>2, <2>1 DEF Mapped, Cast, Edited
  <2>3. stored' \in Stores /\ stored'[p.id] = M!Content(p) /\ M!Content(p) # None /\ p # None
    BY <1>1, <1>2, <2>1 DEF Mapped, Stores, NoProfileIsNone, Edited
  <2>4. M!MappingAsShown' /\ ShownNamed'
    BY <1>1, <1>2, <1>3, <2>2, <2>3 DEF Mapped, M!MappingAsShown, ShownNamed, M!Asked
  <2>5. QED
    BY <2>2, <2>3, <2>4 DEF Mapped
<1>4. CASE ~(M!SaveActiveProfile(p) /\ p.named)
  <2>1. cast' = [cast EXCEPT !.shown = p] /\ UNCHANGED stored /\ (M!IsNewDraft \/ ~p.named)
    BY <1>4 DEF M!SaveActiveInputMappingProfile, M!SaveActiveProfile
  <2>2. /\ cast' \in Cast /\ cast'.behind = cast.behind
    BY <2>1 DEF Mapped, Cast, Edited
  <2>3. M!MappingAsShown' /\ ShownNamed'
    BY <1>1, <2>1, <2>2 DEF Mapped, M!MappingAsShown, ShownNamed, M!IsNewDraft
  <2>4. QED
    BY <2>1, <2>2, <2>3 DEF Mapped
<1>5. QED
  BY <1>3, <1>4

\* Neither what is shown nor what it is shown for changes.
LEMMA IdleKeeps ==
  ASSUME Mapped, UNCHANGED <<stored, tabs, castTab, cast, unsaved, page, query>>, desk' \in Desk,
         moves' \in Nat
  PROVE  Mapped'
  BY DEF Mapped, M!MappingAsShown, ShownNamed, M!Asked

\* The store changes under a view that is to load again.
LEMMA StoreKeeps ==
  ASSUME Mapped, NEW S \in Stores, NEW T \in TabStates, NEW dk \in Desk, M!Store(S, T, dk),
         moves' \in Nat
  PROVE  Mapped'
<1>1. query.tab \in Tab \cup {None}
  BY DEF Mapped, Query
<1>2. stored' \in Stores /\ tabs' \in TabStates /\ desk' \in Desk
  BY <1>1, RefreshFacts DEF M!Store
<1>3. /\ cast' = [cast EXCEPT !.behind = @ \/ page = "screencast"]
      /\ UNCHANGED <<castTab, unsaved, page, query>>
  BY DEF M!Store
<1>4. cast' \in Cast /\ (page = "screencast" => cast'.behind)
  BY <1>3 DEF Mapped, Cast
<1>5. M!MappingAsShown' /\ ShownNamed'
  BY <1>3, <1>4 DEF M!MappingAsShown, ShownNamed
<1>6. QED
  BY <1>2, <1>3, <1>4, <1>5 DEF Mapped

\* The clicks that change what is shown, directly or when the pointer is let go.
LEMMA EditKeeps ==
  ASSUME Mapped, NoProfileIsNone,
         \/ M!AddInputMappingStickerFromPalette \/ M!UpdateSelectedInputMappingBinding
         \/ M!DeleteSelectedInputMappingBinding \/ M!ApplyInputMappingCaptured
         \/ M!ToggleSelectedInputMappingSwipeDrawing \/ M!StartInputMappingAimAreaResize
         \/ M!MoveInputMappingStickerDrag \/ M!FinishInputMappingStickerDrag \/ M!AimAreaSaveFires
  PROVE  Mapped'
<1>m. M!Move => moves' \in Nat
  BY DEF M!Move, Mapped
<1>t. moves \in Nat /\ unsaved \in BOOLEAN /\ desk \in Desk
  BY DEF Mapped
<1>1. CASE M!AddInputMappingStickerFromPalette
  BY <1>1, <1>m, <1>t, ChangedEdited, SaveKeeps
     DEF M!AddInputMappingStickerFromPalette, M!Edit, M!Click
<1>2. CASE M!UpdateSelectedInputMappingBinding
  BY <1>2, <1>m, <1>t, ChangedEdited, SaveKeeps
     DEF M!UpdateSelectedInputMappingBinding, M!Edit, M!Click, M!HasSticker
<1>3. CASE M!DeleteSelectedInputMappingBinding
  BY <1>3, <1>m, <1>t, ChangedEdited, SaveKeeps
     DEF M!DeleteSelectedInputMappingBinding, M!Edit, M!Click, M!HasSticker
<1>4. CASE M!ApplyInputMappingCaptured
  BY <1>4, <1>m, <1>t, ChangedEdited, SaveKeeps DEF M!ApplyInputMappingCaptured, M!HasSticker
<1>s. ASSUME M!SaveInputMappingSwipeRecordingPath, cast.shown # None, moves' \in Nat,
             UNCHANGED <<tabs, castTab, unsaved, page, query, desk>>
      PROVE  Mapped'
  BY <1>s, <1>t, ChangedEdited, SaveKeeps, IdleKeeps DEF M!SaveInputMappingSwipeRecordingPath
<1>5. CASE M!ToggleSelectedInputMappingSwipeDrawing
  BY <1>5, <1>m, <1>t, <1>s, IdleKeeps
     DEF M!ToggleSelectedInputMappingSwipeDrawing, M!Edit, M!Click, M!HasSticker
<1>6. ASSUME M!UpdateInputMappingAimAreaRange, cast.shown # None, moves' \in Nat,
             UNCHANGED <<tabs, castTab, page, query, desk>>
      PROVE  Mapped'
  <2>1. /\ cast' = [cast EXCEPT !.shown = M!Changed("rest")] /\ unsaved' = TRUE /\ UNCHANGED stored
        /\ Edited(M!Changed("rest")) /\ M!Changed("rest").keys = cast.shown.keys
    BY <1>6, ChangedEdited DEF M!UpdateInputMappingAimAreaRange
  <2> DEFINE p == M!Changed("rest")
  <2>2. p \in Shown /\ p.id = cast.shown.id /\ p.named = cast.shown.named /\ p # None
    BY <2>1 DEF Edited, NoProfileIsNone
  <2>3. p.keys = cast.shown.keys /\ M!Compiled(p) = M!Compiled(cast.shown)
    BY <2>1, <2>2 DEF M!Compiled
  <2> HIDE DEF p
  <2>4. /\ cast' \in Cast /\ cast'.shown = p /\ cast'.runs = cast.runs
        /\ cast'.enabled = cast.enabled /\ cast'.behind = cast.behind
    BY <2>1, <2>2 DEF Mapped, Cast, p
  <2>5. M!MappingAsShown' /\ ShownNamed'
    BY <1>6, <2>1, <2>2, <2>3, <2>4 DEF Mapped, M!MappingAsShown, ShownNamed, M!Asked
  <2>6. QED
    BY <1>6, <2>1, <2>4, <2>5 DEF Mapped
<1>7. CASE M!StartInputMappingAimAreaResize
  BY <1>6, <1>7, <1>m DEF M!StartInputMappingAimAreaResize, M!Edit, M!Click, M!HasSticker
<1>8. CASE M!MoveInputMappingStickerDrag
  BY <1>6, <1>8, <1>m, <1>t, ChangedEdited, SaveKeeps
     DEF M!MoveInputMappingStickerDrag, M!HasSticker
<1>9. CASE M!FinishInputMappingStickerDrag
  <2>1. M!Move /\ cast.shown # None /\ UNCHANGED <<tabs, castTab, page, query, desk>>
    BY <1>9 DEF M!FinishInputMappingStickerDrag, M!HasSticker
  <2>2. CASE unsaved' = FALSE /\ M!SaveActiveInputMappingProfile(cast.shown)
    BY <1>m, <2>1, <2>2, ChangedEdited, SaveKeeps
  <2>3. CASE UNCHANGED unsaved /\ M!SaveInputMappingSwipeRecordingPath
    BY <1>m, <1>s, <2>1, <2>3
  <2>4. CASE UNCHANGED <<unsaved, stored, cast>>
    BY <1>m, <1>t, <2>1, <2>4, IdleKeeps
  <2>5. QED
    BY <1>9, <2>2, <2>3, <2>4 DEF M!FinishInputMappingStickerDrag
<1>10. CASE M!AimAreaSaveFires
  <2>1. unsaved' = FALSE /\ UNCHANGED <<tabs, castTab, page, query, desk, moves>>
    BY <1>10 DEF M!AimAreaSaveFires
  <2>2. CASE cast.shown = None
    <3>1. UNCHANGED <<stored, cast>>
      BY <1>10, <2>2 DEF M!AimAreaSaveFires
    <3>2. QED
      BY <2>1, <2>2, <3>1 DEF Mapped, M!MappingAsShown, ShownNamed
  <2>3. CASE cast.shown # None
    <3>1. M!SaveActiveInputMappingProfile(cast.shown)
      BY <1>10, <2>3 DEF M!AimAreaSaveFires
    <3>2. QED
      BY <1>t, <2>1, <2>3, <3>1, ChangedEdited, SaveKeeps
  <2>4. QED
    BY <2>2, <2>3
<1>11. QED
  BY <1>1, <1>2, <1>3, <1>4, <1>5, <1>7, <1>8, <1>9, <1>10

\* What the dialog of the profile does when its view does not load again.
LEMMA NamedKeeps ==
  ASSUME Mapped, NoProfileIsNone, cast.shown # None, moves' \in Nat,
         NEW p, p \in Shown, p.id = cast.shown.id, p.named,
         stored' = [stored EXCEPT ![p.id] = M!Content(p)],
         tabs' = [tabs EXCEPT ![castTab] = M!On(p.id)],
         cast' = [cast EXCEPT !.shown = p, !.runs = M!Compiled(p), !.enabled = TRUE],
         UNCHANGED <<castTab, unsaved, page, query, desk>>
  PROVE  Mapped'
<1>1. /\ p.id \in Profile /\ p.keys \in Nat /\ p.rest \in Nat /\ p # None
  BY DEF Shown, NoProfileIsNone
<1>2. /\ M!Content(p) \in Stamps /\ M!Content(p).keys = p.keys /\ M!Content(p).rest = p.rest
      /\ M!Compiled(p) \in [id : Profile, keys : Nat]
  BY <1>1 DEF M!Content, M!Compiled, Stamps
<1>3. /\ cast' \in Cast /\ cast'.shown = p /\ cast'.runs = M!Compiled(p)
      /\ cast'.enabled = TRUE /\ cast'.behind = cast.behind
  BY <1>2 DEF Mapped, Cast
<1>4. stored' \in Stores /\ stored'[p.id] = M!Content(p) /\ M!Content(p) # None
  BY <1>1, <1>2 DEF Mapped, Stores, NoProfileIsNone
<1>5. /\ tabs' \in TabStates /\ tabs'[castTab].enabled /\ tabs'[castTab].active = p.id
  <2>1. M!On(p.id) \in TabState /\ M!On(p.id).active = p.id /\ M!On(p.id).enabled
    BY <1>1, TabStatesKnown
  <2>2. QED
    BY <2>1 DEF Mapped, TabStates
<1>6. M!MappingAsShown' /\ ShownNamed'
  BY <1>1, <1>2, <1>3, <1>4, <1>5 DEF Mapped, M!MappingAsShown, ShownNamed, M!Asked
<1>7. QED
  BY <1>3, <1>4, <1>5, <1>6 DEF Mapped

LEMMA QueriesKnown ==
  ASSUME Mapped
  PROVE  /\ query \in Query /\ M!Left \in Query /\ [query EXCEPT !.edit = FALSE] \in Query
         /\ M!Empty \in Query /\ [M!Empty EXCEPT !.manage = TRUE] \in Query
         /\ [M!Empty EXCEPT !.tab = castTab] \in Query
         /\ [M!Empty EXCEPT !.tab = query.tab] \in Query
         /\ [M!Empty EXCEPT !.tab = query.tab, !.new = TRUE, !.edit = TRUE] \in Query
         /\ \A p \in Profile : [query EXCEPT !.of = p, !.edit = TRUE] \in Query
  BY DEF Mapped, Query, M!Left, M!Empty

LEMMA DesksKnown ==
  ASSUME Mapped
  PROVE  /\ desk \in Desk /\ M!Answered \in Desk
         /\ \A what \in Profile \cup {None, "exit", "back"} : [desk EXCEPT !.ask = what] \in Desk
         /\ \A s \in Shown \cup {None} : [desk EXCEPT !.info = s] \in Desk
         /\ \A p \in Profile \cup {None} : [desk EXCEPT !.import = p] \in Desk
         /\ \A p \in Profile : [desk EXCEPT !.active = p, !.enabled = TRUE] \in Desk
  BY DEF Mapped, Desk, M!Answered

LEMMA StoresKnown ==
  ASSUME Mapped, NEW p \in Profile
  PROVE  /\ [stored EXCEPT ![p] = None] \in Stores
         /\ \A s \in Stamps : [stored EXCEPT ![p] = s] \in Stores
         /\ \A k \in Tab \cup {None} : /\ [tabs EXCEPT ![k] = M!On(p)] \in TabStates
                                     /\ [tabs EXCEPT ![k] = M!Off] \in TabStates
  BY TabStatesKnown DEF Mapped, Stores, TabStates

\* The clicks after which the view loads again.
LEMMA RouteKeeps ==
  ASSUME Mapped, NoProfileIsNone,
         \/ M!EnterInputMappingEditMode \/ M!SaveInputMappingProfileFromEditMenu
         \/ M!ExitInputMappingEditMode \/ M!BackToInputMappingProfiles
         \/ M!ConfirmDiscardNewInputMappingProfile \/ M!CloseInputMapping
         \/ (\E t \in Tab : M!ActivateTab(t) \/ M!Return(t))
         \/ M!Leave \/ M!OpenInputMappingProfiles \/ M!GoBack \/ M!CreateSampleProfile
  PROVE  Mapped'
<1>m. M!Move => moves' \in Nat
  BY DEF M!Move, Mapped
<1>t. stored \in Stores /\ tabs \in TabStates /\ castTab \in Tab /\ desk \in Desk
  BY DEF Mapped
<1>s. cast.shown # None => /\ cast.shown \in Shown /\ cast.shown.id \in Profile
                           /\ M!Content(cast.shown) \in Stamps
  BY DEF Mapped, Cast, Shown, M!Content, Stamps
<1>1. CASE M!EnterInputMappingEditMode
  <2>1. [query EXCEPT !.of = cast.shown.id, !.edit = TRUE] \in Query
    BY <1>1, <1>s, QueriesKnown DEF M!EnterInputMappingEditMode
  <2>2. QED
    BY <1>1, <1>m, <1>t, <2>1, GoKeeps DEF M!EnterInputMappingEditMode, M!Click, M!Replace
<1>2. CASE M!SaveInputMappingProfileFromEditMenu
  <2>1. [stored EXCEPT ![cast.shown.id] = M!Content(cast.shown)] \in Stores
    BY <1>2, <1>s, StoresKnown DEF M!SaveInputMappingProfileFromEditMenu
  <2>2. QED
    BY <1>2, <1>m, <1>t, <2>1, QueriesKnown, GoKeeps
       DEF M!SaveInputMappingProfileFromEditMenu, M!Edit, M!Click
<1>a. ASSUME NEW dk \in Desk, M!Exit(dk), moves' \in Nat PROVE Mapped'
  BY <1>a, <1>t, QueriesKnown, GoKeeps DEF M!Exit, M!Replace
<1>b. ASSUME NEW dk \in Desk, M!ToProfiles(dk), moves' \in Nat PROVE Mapped'
  BY <1>b, <1>t, QueriesKnown, GoKeeps DEF M!ToProfiles
<1>c. ASSUME NEW what \in Profile \cup {None, "exit", "back"}, M!Ask(what), moves' \in Nat
      PROVE  Mapped'
  BY <1>c, DesksKnown, IdleKeeps DEF M!Ask
<1>3. CASE M!ExitInputMappingEditMode
  BY <1>3, <1>a, <1>c, <1>m, <1>t DEF M!ExitInputMappingEditMode, M!Edit, M!Click
<1>4. CASE M!BackToInputMappingProfiles
  BY <1>4, <1>b, <1>c, <1>m, <1>t DEF M!BackToInputMappingProfiles, M!Click
<1>5. CASE M!ConfirmDiscardNewInputMappingProfile
  BY <1>5, <1>a, <1>b, <1>c, <1>m, DesksKnown DEF M!ConfirmDiscardNewInputMappingProfile
<1>6. CASE M!CloseInputMapping
  <2>1. [tabs EXCEPT ![castTab] = M!Off] \in TabStates
    BY <1>t, TabStatesKnown DEF TabStates
  <2>2. QED
    BY <1>6, <1>m, <1>t, <2>1, QueriesKnown, GoKeeps DEF M!CloseInputMapping, M!Click
<1>7. ASSUME NEW t \in Tab, M!ActivateTab(t) \/ M!Return(t) PROVE Mapped'
  BY <1>7, <1>m, <1>t, QueriesKnown, GoKeeps DEF M!ActivateTab, M!Return, M!Click
<1>8. CASE M!Leave \/ M!OpenInputMappingProfiles
  BY <1>8, <1>m, <1>t, QueriesKnown, GoKeeps DEF M!Leave, M!OpenInputMappingProfiles
<1>9. CASE M!GoBack
  BY <1>9, <1>m, <1>t, QueriesKnown, GoKeeps DEF M!GoBack, M!List, M!Replace
<1>10. CASE M!CreateSampleProfile
  BY <1>10, <1>m, <1>t, QueriesKnown, GoKeeps DEF M!CreateSampleProfile, M!List, M!Replace
<1>11. QED
  BY <1>1, <1>2, <1>3, <1>4, <1>5, <1>6, <1>7, <1>8, <1>9, <1>10

\* The dialogs, and the view that lists the profiles.
LEMMA ListKeeps ==
  ASSUME Mapped, NoProfileIsNone,
         \/ M!StartInputMappingTriggerCapture \/ M!StartInputMappingStickerDrag
         \/ M!OpenInputMappingProfileDialog \/ M!CloseInputMappingProfileDialog
         \/ M!SubmitInputMappingProfileDialog
         \/ M!CloseProfileInfoDialog \/ M!SaveProfileInfo \/ M!ProfileDeleted \/ M!HandleImportFile
         \/ \E p \in Profile : M!SetActiveProfile(p) \/ M!OpenProfileInfoDialog(p)
                                \/ M!DeleteProfile(p) \/ M!TriggerImport(p)
  PROVE  Mapped'
<1>m. M!Move => moves' \in Nat /\ moves + 2 \in Nat
  BY DEF M!Move, Mapped
<1>t. stored \in Stores /\ tabs \in TabStates /\ castTab \in Tab /\ desk \in Desk
      /\ query.tab \in Tab \cup {None}
  BY DEF Mapped, Query
<1>1. CASE \/ M!StartInputMappingTriggerCapture \/ M!StartInputMappingStickerDrag
           \/ M!OpenInputMappingProfileDialog \/ M!CloseInputMappingProfileDialog
  BY <1>1, <1>m, <1>t, IdleKeeps
     DEF M!StartInputMappingTriggerCapture, M!StartInputMappingStickerDrag,
         M!OpenInputMappingProfileDialog, M!CloseInputMappingProfileDialog, M!Edit, M!Click
<1>2. CASE M!SubmitInputMappingProfileDialog
  <2> DEFINE p == [M!Changed("rest") EXCEPT !.named = TRUE]
  <2>1. cast.shown # None /\ moves' \in Nat
    BY <1>2, <1>m DEF M!SubmitInputMappingProfileDialog
  <2>2. p \in Shown /\ p.id = cast.shown.id /\ p.named /\ p.id \in Profile
        /\ M!Content(p) \in Stamps
    BY <2>1, ChangedEdited DEF Edited, Shown, M!Content, Stamps
  <2>3. CASE cast.editing
    <3>1. M!Go("screencast", M!Left, castTab, [stored EXCEPT ![p.id] = M!Content(p)],
             [tabs EXCEPT ![castTab] = M!On(p.id)], desk)
      BY <1>2, <2>3 DEF M!SubmitInputMappingProfileDialog
    <3>2. /\ [stored EXCEPT ![p.id] = M!Content(p)] \in Stores
          /\ [tabs EXCEPT ![castTab] = M!On(p.id)] \in TabStates
      BY <1>t, <2>2, StoresKnown
    <3> HIDE DEF p
    <3>3. QED
      BY <1>t, <2>1, <3>1, <3>2, QueriesKnown, GoKeeps
  <2>4. CASE ~cast.editing
    <3>1. /\ stored' = [stored EXCEPT ![p.id] = M!Content(p)]
          /\ tabs' = [tabs EXCEPT ![castTab] = M!On(p.id)]
          /\ cast' = [cast EXCEPT !.shown = p, !.runs = M!Compiled(p), !.enabled = TRUE]
          /\ UNCHANGED <<castTab, unsaved, page, query, desk>>
      BY <1>2, <2>4 DEF M!SubmitInputMappingProfileDialog
    <3> HIDE DEF p
    <3>2. QED
      BY <2>1, <2>2, <3>1, NamedKeeps
  <2>5. QED
    BY <2>3, <2>4
<1>3. CASE M!CloseProfileInfoDialog
  BY <1>3, <1>m, DesksKnown, IdleKeeps DEF M!CloseProfileInfoDialog
<1>4. CASE M!SaveProfileInfo
  <2>1. desk.info \in Shown
    BY <1>4, <1>t DEF M!SaveProfileInfo, Desk
  <2>2. /\ [M!Content(desk.info) EXCEPT !.rest = moves + 2] \in Stamps
        /\ desk.info.id \in Profile
    BY <1>4, <1>m, <2>1 DEF M!SaveProfileInfo, Shown, M!Content, Stamps
  <2>3. [stored EXCEPT ![desk.info.id] = [M!Content(desk.info) EXCEPT !.rest = moves + 2]]
          \in Stores
    BY <2>2, StoresKnown
  <2>4. QED
    BY <1>4, <1>m, <1>t, <2>3, DesksKnown, StoreKeeps DEF M!SaveProfileInfo
<1>5. CASE M!ProfileDeleted
  <2> DEFINE T == IF desk.active = desk.ask THEN [tabs EXCEPT ![query.tab] = M!Off] ELSE tabs
  <2>1. desk.ask \in Profile /\ moves' \in Nat
        /\ M!Store([stored EXCEPT ![desk.ask] = None], T, M!Answered)
    BY <1>5, <1>m DEF M!ProfileDeleted
  <2>2. [stored EXCEPT ![desk.ask] = None] \in Stores /\ T \in TabStates
    BY <1>t, <2>1, StoresKnown
  <2> HIDE DEF T
  <2>3. QED
    BY <2>1, <2>2, DesksKnown, StoreKeeps
<1>6. CASE M!HandleImportFile
  <2> DEFINE p == desk.import
             dk == [desk EXCEPT !.import = None]
             S == [stored EXCEPT ![p] = [keys |-> moves + 2, rest |-> moves + 2]]
  <2>1. moves' \in Nat /\ moves + 2 \in Nat /\ p \in Profile
    BY <1>6, <1>m, <1>t DEF M!HandleImportFile, Desk
  <2>2. [keys |-> moves + 2, rest |-> moves + 2] \in Stamps
    BY <2>1 DEF Stamps
  <2>3. S \in Stores /\ dk \in Desk /\ [tabs EXCEPT ![query.tab] = M!On(p)] \in TabStates
    BY <1>t, <2>1, <2>2, StoresKnown, DesksKnown
  <2>4. \/ M!Store(S, tabs, dk)
        \/ M!Store(S, [tabs EXCEPT ![query.tab] = M!On(p)], dk)
        \/ desk' = dk /\ UNCHANGED <<stored, tabs, castTab, cast, pad, unsaved, page, query>>
    BY <1>6 DEF M!HandleImportFile
  <2> HIDE DEF S, dk, p
  <2>5. QED
    BY <1>t, <2>1, <2>3, <2>4, StoreKeeps, IdleKeeps
<1>7. ASSUME NEW p \in Profile, M!SetActiveProfile(p) PROVE Mapped'
  <2>1. page = "profiles" /\ moves' \in Nat /\ query.tab \in Tab \cup {None}
        /\ tabs' = [tabs EXCEPT ![query.tab] = M!On(p)]
        /\ desk' = [desk EXCEPT !.active = p, !.enabled = TRUE]
        /\ UNCHANGED <<stored, castTab, cast, unsaved, page, query>>
    BY <1>7, <1>m, <1>t DEF M!SetActiveProfile, M!List
  <2>2. tabs' \in TabStates /\ desk' \in Desk
    BY <2>1, StoresKnown, DesksKnown
  <2>3. M!MappingAsShown' /\ ShownNamed'
    BY <2>1 DEF M!MappingAsShown, ShownNamed
  <2>4. QED
    BY <2>1, <2>2, <2>3 DEF Mapped
<1>8. ASSUME NEW p \in Profile, M!OpenProfileInfoDialog(p) PROVE Mapped'
  <2>1. M!Whole(p, stored) \in Shown
    BY <1>8, <1>t, WholeShown DEF M!OpenProfileInfoDialog
  <2>2. QED
    BY <1>8, <1>m, <2>1, DesksKnown, IdleKeeps DEF M!OpenProfileInfoDialog, M!List
<1>9. ASSUME NEW p \in Profile, M!DeleteProfile(p) PROVE Mapped'
  BY <1>9, <1>m, DesksKnown, IdleKeeps DEF M!DeleteProfile, M!List, M!Ask
<1>10. ASSUME NEW p \in Profile, M!TriggerImport(p) PROVE Mapped'
  BY <1>10, <1>m, DesksKnown, IdleKeeps DEF M!TriggerImport, M!List
<1>11. QED
  BY <1>1, <1>2, <1>3, <1>4, <1>5, <1>6, <1>7, <1>8, <1>9, <1>10

LEMMA MappedStep == ASSUME Mapped, NoProfileIsNone, M!Next PROVE Mapped'
  BY EditKeeps, RouteKeeps, ListKeeps DEF M!Next

---------------------------------------------------------------------------
(* The requests                                                            *)

Request ==
  [id : Nat, kind : Kind, at : {"asked", "answered", "body"}, ok : BOOLEAN, aborted : BOOLEAN]

Requests == calls \subseteq Request

\* An answer that says that it was done is the answer of one that was done.
AnswersTrue == \A c \in calls : c.at = "answered" /\ c.ok => c.id \in done

Asking == Requests /\ AnswersTrue /\ latest \in Nat /\ WrittenIsLatest

LEMMA AskingInit == Init => Asking
  BY DEF Init, Asking, Requests, AnswersTrue, WrittenIsLatest, Says

\* An abort changes nothing that an answer says.
LEMMA AbortFacts ==
  ASSUME Requests, AnswersTrue
  PROVE  LET aborted == {[c EXCEPT !.aborted = TRUE] : c \in calls}
         IN /\ aborted \subseteq Request
            /\ \A c \in aborted : c.at = "answered" /\ c.ok => c.id \in done
<1>1. ASSUME NEW c \in calls
      PROVE  /\ [c EXCEPT !.aborted = TRUE] \in Request
             /\ [c EXCEPT !.aborted = TRUE].at = c.at
             /\ [c EXCEPT !.aborted = TRUE].ok = c.ok
             /\ [c EXCEPT !.aborted = TRUE].id = c.id
  BY DEF Requests, Request
<1>2. ASSUME NEW a \in {[c EXCEPT !.aborted = TRUE] : c \in calls}
      PROVE  a \in Request /\ (a.at = "answered" /\ a.ok => a.id \in done)
  <2>1. PICK c \in calls : a = [c EXCEPT !.aborted = TRUE]
    OBVIOUS
  <2>2. a \in Request /\ a.at = c.at /\ a.ok = c.ok /\ a.id = c.id
    BY <1>1, <2>1
  <2>3. QED
    BY <2>2 DEF AnswersTrue
<1>3. QED
  BY <1>2

LEMMA AskKeeps ==
  ASSUME Asking, NEW kind \in Kind, Ask(kind)
  PROVE  Asking'
<1> DEFINE aborted == {[c EXCEPT !.aborted = TRUE] : c \in calls}
           new == [id |-> latest + 1, kind |-> kind, at |-> "asked", ok |-> TRUE,
                   aborted |-> FALSE]
<1>1. /\ aborted \subseteq Request
      /\ \A c \in aborted : c.at = "answered" /\ c.ok => c.id \in done
  BY AbortFacts DEF Asking
<1>2. new \in Request /\ new.at = "asked"
  BY DEF Asking, Request
<1>3. calls' \in {aborted, aborted \cup {new}} /\ done' = done
  BY DEF Ask
<1> HIDE DEF aborted, new
<1>4. Requests' /\ AnswersTrue'
  BY <1>1, <1>2, <1>3 DEF Requests, AnswersTrue
<1>5. status'.word # "written"
  <2>1. CASE device = None
    <3>1. status' = Says("no device", latest + 1)
      BY <2>1 DEF Ask
    <3>2. QED
      BY <3>1 DEF Says
  <2>2. CASE device # None
    <3>1. status' = Says("working", latest + 1)
      BY <2>2 DEF Ask
    <3>2. QED
      BY <3>1 DEF Says
  <2>3. QED
    BY <2>1, <2>2
<1>6. latest' \in Nat
  <2>1. latest \in Nat
    BY DEF Asking
  <2>2. latest' = latest + 1
    BY DEF Ask
  <2>3. QED
    BY <2>1, <2>2
<1>7. QED
  BY <1>4, <1>5, <1>6 DEF Asking, WrittenIsLatest

LEMMA ServedKeeps ==
  ASSUME Asking, NEW c \in calls, NEW ok \in BOOLEAN, Served(c, ok)
  PROVE  Asking'
<1> DEFINE new == [c EXCEPT !.at = "answered", !.ok = ok]
<1>1. c \in Request
  BY DEF Asking, Requests
<1>2. new \in Request /\ new.id = c.id /\ new.ok = ok
  BY <1>1 DEF Request
<1>3. /\ calls' = (calls \ {c}) \cup {new} /\ done' = IF ok THEN done \cup {c.id} ELSE done
      /\ UNCHANGED <<status, latest>>
  BY DEF Served
<1>4. Requests' /\ AnswersTrue'
  <2> HIDE DEF new
  <2>1. QED
    BY <1>2, <1>3 DEF Asking, Requests, AnswersTrue
<1>5. latest' \in Nat /\ WrittenIsLatest'
  BY <1>3 DEF Asking, WrittenIsLatest
<1>6. QED
  BY <1>4, <1>5 DEF Asking

\* Only here a write is told, and it is the latest and was done.
LEMMA HeadersKeep ==
  ASSUME Asking, NEW c \in calls, Headers(c)
  PROVE  Asking'
<1> DEFINE new == [c EXCEPT !.at = "body"]
<1>1. c \in Request
  BY DEF Asking, Requests
<1>2. new \in Request /\ new.at = "body"
  BY <1>1 DEF Request
<1>3. /\ c.at = "answered" /\ UNCHANGED <<latest, done>>
      /\ \/ calls' = calls \ {c} /\ status' = status
         \/ /\ c.id = latest /\ c.ok
            /\ calls' = calls \ {c} /\ status' = Says("written", c.id)
         \/ calls' = (calls \ {c}) \cup {new} /\ status' = status
  BY DEF Headers, Over, Wanted
<1>4. Requests' /\ AnswersTrue'
  <2> HIDE DEF new
  <2>1. QED
    BY <1>2, <1>3 DEF Asking, Requests, AnswersTrue
<1>5. latest' \in Nat /\ WrittenIsLatest'
  BY <1>3 DEF Asking, WrittenIsLatest, AnswersTrue, Says
<1>6. QED
  BY <1>4, <1>5 DEF Asking

LEMMA RequestEndKeeps ==
  ASSUME Asking, NEW c \in calls, Body(c) \/ Fails(c)
  PROVE  Asking'
<1>1. /\ calls' = calls \ {c} /\ UNCHANGED <<latest, done>>
      /\ status' \in {status, Says("failed", c.id), Says("read", c.id)}
  BY DEF Body, Fails, Over
<1>2. QED
  BY <1>1 DEF Asking, Requests, AnswersTrue, WrittenIsLatest, Says

LEMMA DisposeKeeps == ASSUME Asking, Dispose PROVE Asking'
<1>1. /\ calls' = {[c EXCEPT !.aborted = TRUE] : c \in calls}
      /\ UNCHANGED <<latest, done, status>>
  BY DEF Dispose
<1>2. QED
  BY <1>1, AbortFacts DEF Asking, Requests, AnswersTrue, WrittenIsLatest

LEMMA AskingStep == Asking /\ [Next]_vars => Asking'
<1> SUFFICES ASSUME Asking, [Next]_vars PROVE Asking'
  OBVIOUS
<1>1. CASE \/ UNCHANGED asking
           \/ \E d \in Device \cup {None} : HandleDeviceChanged(d)
  BY <1>1
     DEF HandleDeviceChanged, asking, Asking, Requests, AnswersTrue, WrittenIsLatest, Says
<1>2. CASE ReadClipboard \/ SyncClipboard \/ PasteClipboard
  BY <1>2, AskKeeps DEF ReadClipboard, SyncClipboard, PasteClipboard, Kind
<1>3. CASE \E c \in calls : Headers(c) \/ Body(c) \/ Fails(c) \/ \E ok \in BOOLEAN : Served(c, ok)
  BY <1>3, ServedKeeps, HeadersKeep, RequestEndKeeps
<1>4. QED
  BY <1>1, <1>2, <1>3, DisposeKeeps
     DEF Next, vars, OpenClipboardWindow, NextTick, CloseClipboardWindow, StartClipboardDrag,
         HandleWindowPointerMove, FinishClipboardDrag, CancelClipboardDrag, StageResizes,
         SyncFloatingElementsToStage

---------------------------------------------------------------------------
(* The window                                                              *)

Window == [shown : BOOLEAN, size : Nat \cup {None}, x : Nat, grip : {0, 1, None}]

Placed == win \in Window /\ width \in Nat /\ WindowReachable

\* A place depends on the size alone, is a place, and clamping it again leaves it there.
LEMMA ClampFacts ==
  ASSUME NEW w \in Window, width \in Nat
  PROVE  /\ LastPlace(w) \in Nat
         /\ \A x \in Nat : Clamped(w, x) \in Nat /\ Clamped(w, Clamped(w, x)) = Clamped(w, x)
         /\ \A v \in Window : v.size = w.size =>
              LastPlace(v) = LastPlace(w) /\ \A x \in Nat : Clamped(v, x) = Clamped(w, x)
<1>1. SizeOf(w) \in Nat /\ Margin \in Nat
  BY ClipboardAssumption DEF SizeOf, Window
<1>2. LastPlace(w) \in Nat /\ Margin <= LastPlace(w)
  BY <1>1 DEF LastPlace
<1>3. ASSUME NEW x \in Nat
      PROVE  Clamped(w, x) \in Nat /\ Clamped(w, Clamped(w, x)) = Clamped(w, x)
  BY <1>1, <1>2 DEF Clamped, Larger
<1>4. ASSUME NEW v \in Window, v.size = w.size
      PROVE  LastPlace(v) = LastPlace(w) /\ \A x \in Nat : Clamped(v, x) = Clamped(w, x)
  BY <1>4 DEF LastPlace, SizeOf, Clamped
<1>5. QED
  BY <1>2, <1>3, <1>4

\* The window is put where it belongs at its size.
LEMMA PutFacts ==
  ASSUME NEW w \in Window, NEW x \in Nat, width \in Nat
  PROVE  /\ [w EXCEPT !.x = Clamped(w, x)] \in Window
         /\ [w EXCEPT !.x = Clamped(w, x)].x
              = Clamped([w EXCEPT !.x = Clamped(w, x)], [w EXCEPT !.x = Clamped(w, x)].x)
<1> DEFINE v == [w EXCEPT !.x = Clamped(w, x)]
<1>1. Clamped(w, x) \in Nat
  BY ClampFacts
<1>2. v \in Window /\ v.size = w.size /\ v.x = Clamped(w, x)
  BY <1>1 DEF Window
<1>3. \A u \in Window : u.size = w.size => \A y \in Nat : Clamped(u, y) = Clamped(w, y)
  BY ClampFacts
<1>4. Clamped(w, Clamped(w, x)) = Clamped(w, x)
  BY ClampFacts
<1>5. Clamped(v, v.x) = v.x
  <2> HIDE DEF v
  <2>1. QED
    BY <1>1, <1>2, <1>3, <1>4
<1>6. QED
  BY <1>2, <1>5

LEMMA OpenedFacts ==
  ASSUME NEW w \in Window, width \in Nat
  PROVE  Opened(w) \in Window
<1>1. LastPlace(w) \in Nat /\ w.x \in Nat
  BY ClampFacts DEF Window
<1>2. Clamped(w, w.x) \in Nat
  BY <1>1, ClampFacts
<1>3. QED
  BY <1>1, <1>2
     DEF Opened, InitializeClipboardWindowPosition, ClampClipboardWindowToStage, Window

LEMMA PlacedInit == ASSUME Init PROVE Placed
  BY ClipboardAssumption DEF Init, Placed, Window, WindowReachable

LEMMA NextTickPlaces == ASSUME Placed, NextTick PROVE Placed'
<1>1. PICK size \in Nat : win' = Rendered(win, size)
  <2>1. \A size \in IF win.size = None THEN Size ELSE {win.size} : size \in Nat
    BY ClipboardAssumption DEF Placed, Window
  <2>2. QED
    BY <2>1 DEF NextTick
<1>2. [win EXCEPT !.size = size] \in Window /\ [win EXCEPT !.size = size].x \in Nat
  BY DEF Placed, Window
<1>3. win' \in Window /\ win'.x = Clamped(win', win'.x)
  BY <1>1, <1>2, PutFacts DEF Placed, Rendered, ClampClipboardWindowToStage
<1>4. width' = width
  BY DEF NextTick
<1>5. QED
  BY <1>3, <1>4 DEF Placed, WindowReachable, Clamped, LastPlace

LEMMA DragPlaces ==
  ASSUME Placed,
         \/ \E grip \in {0, 1} : StartClipboardDrag(grip)
         \/ \E at \in {0, LastPlace(win) + 2} : HandleWindowPointerMove(at)
         \/ FinishClipboardDrag \/ CancelClipboardDrag
  PROVE  Placed'
<1>1. UNCHANGED <<width, due>>
  BY DEF StartClipboardDrag, HandleWindowPointerMove, FinishClipboardDrag, CancelClipboardDrag
<1>2. ASSUME NEW grip \in {0, 1, None}
      PROVE  LET v == [win EXCEPT !.grip = grip]
             IN /\ v \in Window /\ v.x \in Nat /\ v.x = win.x /\ v.size = win.size
                /\ v.shown = win.shown
                /\ Clamped(v, v.x) = Clamped(win, win.x)
  <2>1. LET v == [win EXCEPT !.grip = grip]
        IN /\ v \in Window /\ v.x \in Nat /\ v.x = win.x /\ v.size = win.size
           /\ v.shown = win.shown
    BY DEF Placed, Window
  <2>2. \A u \in Window : u.size = win.size =>
          \A y \in Nat : Clamped(u, y) = Clamped(win, y)
    BY ClampFacts DEF Placed
  <2>3. QED
    BY <2>1, <2>2
<1>3. CASE \/ \E grip \in {0, 1} : StartClipboardDrag(grip)
           \/ CancelClipboardDrag
  <2>1. PICK grip \in {0, 1, None} : win' = [win EXCEPT !.grip = grip]
    BY <1>3 DEF StartClipboardDrag, CancelClipboardDrag
  <2>2. QED
    BY <1>1, <1>2, <2>1 DEF Placed, WindowReachable, Clamped, LastPlace
<1>4. CASE FinishClipboardDrag
  <2>1. win' \in Window /\ win'.x = Clamped(win', win'.x)
    <3>1. PICK v : v = [win EXCEPT !.grip = None]
      OBVIOUS
    <3>2. v \in Window /\ v.x \in Nat /\ width \in Nat
      BY <1>2, <3>1 DEF Placed
    <3>3. win' = [v EXCEPT !.x = Clamped(v, v.x)]
      BY <1>4, <3>1 DEF FinishClipboardDrag, ClampClipboardWindowToStage
    <3>4. QED
      BY <3>2, <3>3, PutFacts
  <2>2. QED
    BY <1>1, <2>1 DEF Placed, WindowReachable, Clamped, LastPlace
<1>5. ASSUME NEW at \in {0, LastPlace(win) + 2}, HandleWindowPointerMove(at) PROVE Placed'
  <2>1. at \in Nat /\ win.grip \in Nat
    BY <1>5, ClampFacts DEF HandleWindowPointerMove, Placed, Window
  <2>2. PICK x \in Nat : win' = [win EXCEPT !.x = Clamped(win, x)]
    <3>1. (IF at > win.grip THEN at - win.grip ELSE 0) \in Nat
      BY <2>1
    <3>2. QED
      BY <1>5, <3>1 DEF HandleWindowPointerMove
  <2>3. win' \in Window /\ win'.x = Clamped(win', win'.x)
    BY <2>2, PutFacts DEF Placed
  <2>4. QED
    BY <1>1, <2>3 DEF Placed, WindowReachable, Clamped, LastPlace
<1>6. QED
  BY <1>3, <1>4, <1>5

LEMMA FollowPlaces ==
  ASSUME Placed,
         \/ OpenClipboardWindow \/ CloseClipboardWindow
         \/ \E w \in Width : StageResizes(w)
         \/ SyncFloatingElementsToStage
         \/ \E d \in Device \cup {None} : HandleDeviceChanged(d)
  PROVE  Placed'
<1>1. win \in Window /\ win.x \in Nat
  BY DEF Placed, Window
<1>2. Opened(win) \in Window
  BY <1>1, OpenedFacts DEF Placed
<1>3. CASE OpenClipboardWindow
  BY <1>2, <1>3 DEF OpenClipboardWindow, Placed, WindowReachable
<1>4. CASE CloseClipboardWindow
  <2>1. /\ win' = [win EXCEPT !.shown = FALSE, !.size = None] /\ width' = width
    BY <1>4 DEF CloseClipboardWindow
  <2>2. win' \in Window /\ ~win'.shown
    BY <1>1, <2>1 DEF Window
  <2>3. QED
    BY <2>1, <2>2 DEF Placed, WindowReachable
<1>5. CASE \E w \in Width : StageResizes(w)
  BY <1>5, ClipboardAssumption DEF StageResizes, Placed, WindowReachable
<1>6. CASE SyncFloatingElementsToStage
  <2>1. win' \in Window /\ win'.x = Clamped(win', win'.x)
    BY <1>1, <1>6, PutFacts
       DEF SyncFloatingElementsToStage, ClampClipboardWindowToStage, Placed
  <2>2. width' = width
    BY <1>6 DEF SyncFloatingElementsToStage
  <2>3. QED
    BY <2>1, <2>2 DEF Placed, WindowReachable, Clamped, LastPlace
<1>7. CASE \E d \in Device \cup {None} : HandleDeviceChanged(d)
  <2>1. /\ width' = width
        /\ \/ win' = Opened(win) /\ due' = TRUE
           \/ ~win.shown /\ UNCHANGED <<win, due>>
    BY <1>7 DEF HandleDeviceChanged
  <2>2. QED
    BY <1>2, <2>1 DEF Placed, WindowReachable
<1>8. QED
  BY <1>3, <1>4, <1>5, <1>6, <1>7

LEMMA PlacedStep == ASSUME Placed, [Next]_vars PROVE Placed'
<1>1. CASE UNCHANGED placing
  BY <1>1 DEF placing, Placed, WindowReachable, Clamped, LastPlace
<1>2. QED
  BY <1>1, NextTickPlaces, DragPlaces, FollowPlaces
     DEF Next, vars, ReadClipboard, SyncClipboard, PasteClipboard, Ask, Dispose, Headers, Body,
         Fails, Served

---------------------------------------------------------------------------
\* "Synchronised" and "paste sent" are told of the latest request only, which the agent has
\* carried out, and the window can be reached once it has followed its size and the stage:
\* for any number of requests and moves.
THEOREM ClipboardAlwaysHonest ==
  Spec => []ClipboardHonest
<1>1. Init => Asking /\ Placed
  BY AskingInit, PlacedInit
<1>2. Asking /\ Placed /\ [Next]_vars => (Asking /\ Placed)'
  BY AskingStep, PlacedStep
<1>3. Asking /\ Placed => ClipboardHonest
  BY DEF Asking, Placed, ClipboardHonest
<1>4. QED
  BY <1>1, <1>2, <1>3, PTL DEF Spec

---------------------------------------------------------------------------
(* The tours                                                               *)

\* What a tour keeps: the invariant of its part while it lasts, and of the rest what is asked.
Touring ==
  /\ tour = "administration" => Typed /\ AccountsKnown /\ TruthTold
  /\ tour = "display" => Sizing
  /\ tour = "clipboard" => Asking /\ Placed
  /\ tour = "mapping" => Mapped
  /\ SavedAsShown /\ AccountsCurrent /\ SizeReaches /\ ClipboardHonest /\ MappingAsShown

LEMMA ClipboardMeans == ASSUME Asking, Placed PROVE ClipboardHonest
  BY DEF Asking, Placed, ClipboardHonest

LEMMA AdministrationMeans ==
  ASSUME Typed, AccountsKnown, TruthTold PROVE SavedAsShown /\ AccountsCurrent
<1>1. A!AccountsCurrent
  BY AccountsMeans
<1>2. QED
  BY <1>1 DEF SavedAsShown, AccountsCurrent, A!SavedAsShown, TruthTold

LEMMA TouringInit == ViewsInit => Touring
<1> SUFFICES ASSUME ViewsInit PROVE Touring
  OBVIOUS
<1>0. /\ A!Init /\ D!Init /\ Init /\ M!Init
      /\ SubjectsApart /\ NoneIsNone /\ NoProfileIsNone
  BY ViewsAssumption DEF ViewsInit
<1>1. Typed /\ AccountsKnown /\ TruthTold
  BY <1>0, TypedInit, AccountsInit, TruthInit
<1>2. Sizing
  BY <1>0, SizingInit
<1>3. Asking /\ Placed
  BY <1>0, AskingInit, PlacedInit
<1>4. Mapped
  BY <1>0, MappedInit
<1>5. SizeReaches /\ MappingAsShown
  BY <1>2, <1>4 DEF SizeReaches, MappingAsShown, Sizing, Mapped
<1>6. SavedAsShown /\ AccountsCurrent /\ ClipboardHonest
  BY <1>1, <1>3, AdministrationMeans, ClipboardMeans
<1>7. QED
  BY <1>1, <1>2, <1>3, <1>4, <1>5, <1>6 DEF Touring

\* What is asked of a part is so for as long as the part is left alone.
LEMMA AdministrationStays ==
  ASSUME SavedAsShown, AccountsCurrent, UNCHANGED administration
  PROVE  SavedAsShown' /\ AccountsCurrent'
<1>1. UNCHANGED <<srv, sets, save, loads, deletes, acc, calm, told>>
  BY DEF administration
<1>2. QED
  BY <1>1 DEF SavedAsShown, A!SavedAsShown, AccountsCurrent, A!AccountsCurrent, A!Quiet

LEMMA DisplayStays ==
  ASSUME SizeReaches, UNCHANGED display PROVE SizeReaches'
<1>1. UNCHANGED <<stage, flex, view, link, last, timer, heartbeat, resized, media, kept, dropped>>
  BY DEF display
<1>2. QED
  BY <1>1 DEF SizeReaches, D!SizeReaches

LEMMA ClipboardStays ==
  ASSUME ClipboardHonest, UNCHANGED clipboard PROVE ClipboardHonest'
<1>1. UNCHANGED <<device, asking, placing>>
  BY DEF clipboard
<1>2. UNCHANGED <<status, latest, calls, done, win, width, due>>
  BY <1>1 DEF asking, placing
<1>3. QED
  BY <1>2 DEF ClipboardHonest, WrittenIsLatest, WindowReachable, Clamped, LastPlace

LEMMA MappingStays ==
  ASSUME MappingAsShown, UNCHANGED mapping PROVE MappingAsShown'
<1>1. UNCHANGED <<stored, tabs, castTab, cast, pad, unsaved, page, query, desk>>
  BY DEF mapping
<1>2. QED
  BY <1>1 DEF MappingAsShown, M!MappingAsShown

LEMMA TouringStep == ASSUME Touring, ViewsNext PROVE Touring'
<1>0. /\ SubjectsApart /\ NoneIsNone /\ NoProfileIsNone /\ tour' = tour
      /\ SavedAsShown /\ AccountsCurrent /\ SizeReaches /\ ClipboardHonest /\ MappingAsShown
  BY ViewsAssumption DEF Touring, ViewsNext
<1>1. CASE tour = "administration" /\ A!Next /\ UNCHANGED <<display, clipboard, mapping>>
  <2>1. Typed /\ AccountsKnown /\ TruthTold
    BY <1>1 DEF Touring
  <2>2. Typed' /\ AccountsKnown' /\ TruthTold'
    BY <1>0, <1>1, <2>1, TypedStep, AccountsStep, TruthStep
  <2>3. SavedAsShown' /\ AccountsCurrent'
    <3>1. (Typed /\ AccountsKnown /\ TruthTold => SavedAsShown /\ AccountsCurrent)'
      BY AdministrationMeans, PTL
    <3>2. QED
      BY <2>2, <3>1
  <2>4. QED
    BY <1>0, <1>1, <2>2, <2>3, DisplayStays, ClipboardStays, MappingStays DEF Touring
<1>2. CASE tour = "display" /\ D!Next /\ UNCHANGED <<administration, clipboard, mapping>>
  <2>1. Sizing'
    BY <1>0, <1>2, SizingStep DEF Touring
  <2>2. SizeReaches'
    BY <2>1 DEF Sizing, SizeReaches
  <2>3. QED
    BY <1>0, <1>2, <2>1, <2>2, AdministrationStays, ClipboardStays, MappingStays DEF Touring
<1>3. CASE tour = "clipboard" /\ Next /\ UNCHANGED <<administration, display, mapping>>
  <2>1. Asking' /\ Placed'
    BY <1>3, AskingStep, PlacedStep DEF Touring
  <2>2. ClipboardHonest'
    BY <2>1 DEF Asking, Placed, ClipboardHonest
  <2>3. QED
    BY <1>0, <1>3, <2>1, <2>2, AdministrationStays, DisplayStays, MappingStays DEF Touring
<1>4. CASE tour = "mapping" /\ M!Next /\ UNCHANGED <<administration, display, clipboard>>
  <2>1. Mapped'
    BY <1>0, <1>4, MappedStep DEF Touring
  <2>2. MappingAsShown'
    BY <2>1 DEF Mapped, MappingAsShown
  <2>3. QED
    BY <1>0, <1>4, <2>1, <2>2, AdministrationStays, DisplayStays, ClipboardStays DEF Touring
<1>5. QED
  BY <1>1, <1>2, <1>3, <1>4 DEF ViewsNext

\* A step that changes nothing.
LEMMA TouringStutter == ASSUME Touring, UNCHANGED views PROVE Touring'
<1>1. UNCHANGED <<tour, administration, display, clipboard, mapping, moves>>
  BY DEF views
<1>2. /\ SavedAsShown' /\ AccountsCurrent' /\ SizeReaches' /\ ClipboardHonest'
      /\ MappingAsShown'
  BY <1>1, AdministrationStays, DisplayStays, ClipboardStays, MappingStays DEF Touring
<1>3. ASSUME tour = "administration" PROVE (Typed /\ AccountsKnown /\ TruthTold)'
  <2>1. Typed /\ AccountsKnown /\ TruthTold
    BY <1>3 DEF Touring
  <2>2. UNCHANGED <<srv, sets, save, loads, deletes, acc, calm, told>>
    BY <1>1 DEF administration
  <2>3. Typed'
    BY <2>1, <2>2 DEF Typed
  <2>4. AccountsKnown'
    BY <2>1, <2>2, AccountsAside
  <2>5. TruthTold'
    BY <2>1, <2>2, TruthAside
  <2>6. QED
    BY <2>3, <2>4, <2>5
<1>4. ASSUME tour = "display" PROVE Sizing'
  <2>1. Sizing /\ SizeReaches
    BY <1>4 DEF Touring
  <2>2. UNCHANGED <<stage, flex, view, link, last, timer, heartbeat, resized, media, kept,
                    dropped>>
    BY <1>1 DEF display
  <2>3. QED
    BY <2>1, <2>2 DEF Sizing, LastIsTold, D!SizeReaches
<1>5. ASSUME tour = "clipboard" PROVE (Asking /\ Placed)'
  <2>1. UNCHANGED vars
    BY <1>1 DEF clipboard, vars
  <2>2. QED
    BY <1>5, <2>1, AskingStep, PlacedStep DEF Touring
<1>6. ASSUME tour = "mapping" PROVE Mapped'
  <2>1. Mapped
    BY <1>6 DEF Touring
  <2>2. UNCHANGED <<stored, tabs, castTab, cast, pad, unsaved, page, query, desk, moves>>
    BY <1>1 DEF mapping
  <2>3. QED
    BY <2>1, <2>2 DEF Mapped, ShownNamed, M!MappingAsShown
<1>7. QED
  BY <1>1, <1>2, <1>3, <1>4, <1>5, <1>6 DEF Touring

LEMMA TouringAlways == ViewsSpec => []Touring
<1>1. Touring /\ [ViewsNext]_views => Touring'
  BY TouringStep, TouringStutter
<1>2. QED
  BY <1>1, TouringInit, PTL DEF ViewsSpec

\* What the administrator was told was saved is on the server, by whatever order the requests
\* of a save, the loads and the deletions were answered in, for as long as nothing happened
\* that the views do not allow for.
THEOREM AlwaysSavedAsShown == ViewsSpec => []SavedAsShown
<1>1. Touring => SavedAsShown
  BY DEF Touring
<1>2. QED
  BY <1>1, TouringAlways, PTL

\* The account view shows what the server has, after each change it made itself.
THEOREM AccountsAlwaysCurrent == ViewsSpec => []AccountsCurrent
<1>1. Touring => AccountsCurrent
  BY DEF Touring
<1>2. QED
  BY <1>1, TouringAlways, PTL

\* While the device has another size than the stage asks for, a delay, a heartbeat or an
\* event is left that tells it.
THEOREM SizeAlwaysReaches == ViewsSpec => []SizeReaches
<1>1. Touring => SizeReaches
  BY DEF Touring
<1>2. QED
  BY <1>1, TouringAlways, PTL

\* The mapping that the view shows is the one its runtime has and the one that is stored.
THEOREM MappingAlwaysAsShown == ViewsSpec => []MappingAsShown
<1>1. Touring => MappingAsShown
  BY DEF Touring
<1>2. QED
  BY <1>1, TouringAlways, PTL
=============================================================================
