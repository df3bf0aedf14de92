------------------------------- MODULE Views -------------------------------
(***************************************************************************)
(* Four parts of the views that do not meet, each in a tour of its own:    *)
(* RemoteClipboard (which this module extends), Administration,            *)
(* DisplayResize and MappingProfiles.  A tour leaves the other parts in    *)
(* one of their initial states.                                            *)
(***************************************************************************)
EXTENDS RemoteClipboard

CONSTANTS
  Role, User, Group, Internal,  \* of Administration, whose devices are the ones above
  Stage, MinSide, MaxLong,      \* of DisplayResize
  Profile, Tab,                 \* of MappingProfiles
  AdministrationMoves, DisplayMoves, MappingMoves  \* MaxMoves is for the clipboard

VARIABLES
  tour,
  srv, sets, save, loads, deletes, acc, calm, told,
  stage, flex, view, link, last, timer, heartbeat, resized, media, kept, dropped,
  stored, tabs, castTab, cast, pad, unsaved, page, query, desk

administration == <<srv, sets, save, loads, deletes, acc, calm, told>>
display == <<stage, flex, view, link, last, timer, heartbeat, resized, media, kept, dropped>>
clipboard == <<device, asking, placing>>
mapping == <<stored, tabs, castTab, cast, pad, unsaved, page, query, desk>>
views == <<tour, administration, display, clipboard, mapping, moves>>

A == INSTANCE Administration WITH MaxMoves <- AdministrationMoves

D == INSTANCE DisplayResize WITH MaxMoves <- DisplayMoves

M == INSTANCE MappingProfiles WITH due <- unsaved, view <- page, MaxMoves <- MappingMoves

-----------------------------------------------------------------------------
(* What None stands beside                                                 *)

PutSet == [subject : A!Subject, groups : SUBSET Group, on : BOOLEAN]

ListSet ==
  [groups : SUBSET Group, exists : SUBSET A!Subject, of : [A!Subject -> SUBSET Group],
   on : [A!Subject -> BOOLEAN]]

SaveSet ==
  [group : Group \cup {None}, class : {None, Device, Role, User}, left : SUBSET A!Subject,
   list : ListSet, put : PutSet \cup {None}, was : [A!Subject -> SUBSET Group],
   form : SUBSET A!Subject]

Sizes == {D!BuildAdaptiveDisplaySize(s) : s \in Stage}

Link == [connected : BOOLEAN, control : {"connecting", "open"}, told : Sizes \cup {None}]

Stamps == [keys : Nat, rest : Nat]

Shown == [id : Profile, keys : Nat, rest : Nat, named : BOOLEAN]

\* The classes of subjects have nothing in common, what stands for none is none of the
\* rest, and there is a group besides the internal one.
SubjectsApart ==
  /\ Device \cap Role = {} /\ Device \cap User = {} /\ Role \cap User = {}
  /\ None \notin Group /\ None \notin PutSet /\ None \notin SaveSet
  /\ None \notin {Device, Role, User}
  /\ "save" \notin Group
  /\ Internal \in Group /\ Group # {Internal}

\* A size or a connection is not what stands for none.
NoneIsNone == None \notin Sizes /\ None \notin Link

\* Neither is what is stored of a profile or shown of it.
NoProfileIsNone == None \notin Stamps /\ None \notin Shown

ASSUME ViewsAssumption == SubjectsApart /\ NoneIsNone /\ NoProfileIsNone

-----------------------------------------------------------------------------

ViewsInit ==
  /\ tour \in {"administration", "display", "clipboard", "mapping"}
  /\ A!Init /\ D!Init /\ Init /\ M!Init

ViewsNext ==
  /\ UNCHANGED tour
  /\ \/ tour = "administration" /\ A!Next /\ UNCHANGED <<display, clipboard, mapping>>
     \/ tour = "display" /\ D!Next /\ UNCHANGED <<administration, clipboard, mapping>>
     \/ tour = "clipboard" /\ Next /\ UNCHANGED <<administration, display, mapping>>
     \/ tour = "mapping" /\ M!Next /\ UNCHANGED <<administration, display, clipboard>>

ViewsSpec == ViewsInit /\ [][ViewsNext]_views

\* The properties of the parts, each stated in its module (ClipboardHonest in the one that
\* is extended): what the administrator is told was saved is on the server.
SavedAsShown == A!SavedAsShown

\* The account view has what the server has, after what it changed itself.
AccountsCurrent == A!AccountsCurrent

\* Something is left that tells the device its size.
SizeReaches == D!SizeReaches

\* The mapping shown is the one that runs and the one stored.
MappingAsShown == M!MappingAsShown
=============================================================================
