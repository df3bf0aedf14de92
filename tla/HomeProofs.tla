----------------------------- MODULE HomeProofs -----------------------------
(***************************************************************************)
(* Proofs about Home, for any devices and groups, any number of slots for  *)
(* pictures and any number of calls: what is selected is listed, a device  *)
(* that is gone keeps no state, and no spinner is left on.                 *)
(*                                                                         *)
(* Each mark of the page has, among the outstanding calls, one that will   *)
(* take it away (Served).  The rest is about how the calls change: those   *)
(* that are superseded, aborted or answered serve the same marks, unless a *)
(* new one does (Carries), and one that ends takes its marks with it.  For *)
(* the pictures it is the loads that still write to their device's state.  *)
(***************************************************************************)
EXTENDS Home, TLAPS

---------------------------------------------------------------------------
(* The invariant                                                           *)

Fields ==
  {"list", "up", "mode", "group", "offered", "selection", "loading", "ticking", "gone", "prev",
   "add", "adding", "usb", "plug", "usbLoading", "rename", "renaming", "encOf", "encOpen",
   "encTarget", "encList", "encFetching", "encChoice", "applying"}

State == [loading : BOOLEAN, pic : BOOLEAN]

IsPage(h) == DOMAIN h = Fields /\ h.prev \in [Dev -> State]

IsLoad(l) == DOMAIN l = {"dev", "phase", "entry", "attached"} /\ l.dev \in Dev

\* Only a call for the list is waited for by another command.
IsCall(c) ==
  /\ DOMAIN c = {"kind", "of", "then", "phase", "latest", "got"}
  /\ c.kind # "devices" => c.then = "none"

\* A load that still writes to the state of its device is one of a listed device; a state
\* that is marked as loading has such a load, and one that is not listed is as new.
Pictures(h, L) ==
  /\ \A l \in L : IsLoad(l) /\ (l.attached => l.dev \in h.list)
  /\ \A d \in Dev : h.prev[d].loading => \E l \in L : l.dev = d /\ l.attached
  /\ \A d \in Dev \ h.list : h.prev[d] = Fresh

\* The marks of the page, and the calls that take them away.
Marks == {"loading", "adding", "renaming", "usbLoading", "encFetching", "applying"}

Serves(c, m) ==
  \/ m = "loading" /\ c.kind = "devices" /\ c.latest
  \/ m = "adding" /\ (c.kind = "add" \/ c.then = "added")
  \/ m = "renaming" /\ (c.kind = "rename" \/ c.then = "renamed")
  \/ m = "usbLoading" /\ c.kind = "usb" /\ c.latest
  \/ m = "encFetching" /\ c.kind = "encoders" /\ c.latest
  \/ m = "applying" /\ c.kind \in {"settings", "save"}

On(h, m) ==
  \/ m = "loading" /\ h.loading
  \/ m = "adding" /\ h.adding
  \/ m = "renaming" /\ h.renaming
  \/ m = "usbLoading" /\ h.usbLoading
  \/ m = "encFetching" /\ h.encFetching
  \/ m = "applying" /\ h.applying

Served(h, C) ==
  /\ \A c \in C : IsCall(c)
  /\ \A m \in Marks : On(h, m) => \E c \in C : Serves(c, m)

PageKept(h, L, C) ==
  IsPage(h) /\ h.selection \subseteq h.list /\ Pictures(h, L) /\ Served(h, C)

IInv == PageKept(home, loads, calls)

LEMMA PageInv ==
  ASSUME IInv
  PROVE  SelectionListed /\ GoneIsGone /\ NothingStuck
<1>1. SelectionListed /\ GoneIsGone
  BY DEF IInv, PageKept, Pictures, SelectionListed, GoneIsGone
<1>2. \A m \in Marks : On(home, m) => \E c \in calls : Serves(c, m)
  BY DEF IInv, PageKept, Served
<1>3. home.loading => Latest("devices")
  BY <1>2 DEF Marks, On, Serves, Latest
<1>4. home.adding => \E c \in calls : c.kind = "add" \/ c.then = "added"
  BY <1>2 DEF Marks, On, Serves
<1>5. home.renaming => \E c \in calls : c.kind = "rename" \/ c.then = "renamed"
  BY <1>2 DEF Marks, On, Serves
<1>6. home.usbLoading => Latest("usb")
  BY <1>2 DEF Marks, On, Serves, Latest
<1>7. home.encFetching => Latest("encoders")
  BY <1>2 DEF Marks, On, Serves, Latest
<1>8. home.applying => \E c \in calls : c.kind \in {"settings", "save"}
  BY <1>2 DEF Marks, On, Serves
<1>9. \A d \in Dev : home.prev[d].loading => \E l \in loads : l.dev = d /\ l.attached
  BY DEF IInv, PageKept, Pictures
<1> QED
  BY <1>1, <1>3, <1>4, <1>5, <1>6, <1>7, <1>8, <1>9 DEF NothingStuck

---------------------------------------------------------------------------
(* Calls                                                                   *)

\* Of D, each mark has a call that takes it away if it has one of C.
Carries(C, D) ==
  /\ \A d \in D : IsCall(d)
  /\ \A c \in C : \A m \in Marks : Serves(c, m) => \E d \in D : Serves(d, m)

LEMMA NewCall ==
  ASSUME NEW kind, NEW of, NEW then, kind # "devices" => then = "none",
         NEW c, c = Call(kind, of, then)
  PROVE  /\ IsCall(c) /\ c.kind = kind /\ c.then = then /\ c.latest
         /\ \A g : /\ IsCall([c EXCEPT !.got = g])
                   /\ [c EXCEPT !.got = g].kind = kind
BY DEF Call, IsCall

\* A call is one that takes the same marks away when its phase or its answer changes.
Alike(c, d) == IsCall(d) /\ d.kind = c.kind /\ d.then = c.then /\ d.latest = c.latest

LEMMA AlikeServes ==
  ASSUME NEW c, NEW d, Alike(c, d), NEW m, Serves(c, m)
  PROVE  Serves(d, m)
BY DEF Alike, Serves

LEMMA AskedCarries ==
  ASSUME NEW C, \A c \in C : IsCall(c), NEW kind, NEW of, NEW then,
         kind # "devices" => then = "none"
  PROVE  /\ Carries(C, Asked(C, kind, of, then))
         /\ Call(kind, of, then) \in Asked(C, kind, of, then)
<1> DEFINE D == Asked(C, kind, of, then)
           new == Call(kind, of, then)
           old(c) == IF c.kind # kind THEN c
                     ELSE [c EXCEPT !.latest = FALSE,
                                    !.phase = IF @ = "asked" THEN "aborted" ELSE @]
<1>1. D = {old(c) : c \in C} \cup {new}
  BY DEF Asked, Superseded
<1>2. IsCall(new) /\ new.kind = kind /\ new.then = then /\ new.latest
  BY NewCall
<1>3. ASSUME NEW c \in C
      PROVE  /\ IsCall(old(c)) /\ old(c).kind = c.kind /\ old(c).then = c.then
             /\ c.kind # kind => old(c) = c
  BY DEF IsCall
<1>4. ASSUME NEW c \in C, NEW m \in Marks, Serves(c, m)
      PROVE  Serves(old(c), m) \/ Serves(new, m)
  <2>1. CASE c.kind # kind
    BY <1>3, <1>4, <2>1
  <2>2. CASE c.kind = kind
    <3> HIDE DEF old, new
    <3>1. /\ new.kind = c.kind /\ new.latest
          /\ old(c).kind = c.kind /\ old(c).then = c.then
      BY <1>2, <1>3, <2>2
    <3> QED
      BY <1>4, <3>1 DEF Serves
  <2> QED
    BY <2>1, <2>2
<1> HIDE DEF old, new
<1>5. \A d \in D : IsCall(d)
  BY <1>1, <1>2, <1>3
<1>6. ASSUME NEW c \in C, NEW m \in Marks, Serves(c, m)
      PROVE  \E d \in D : Serves(d, m)
  BY <1>1, <1>4, <1>6
<1> HIDE DEF D
<1> QED
  BY <1>1, <1>5, <1>6 DEF Carries, D, new

LEMMA CancelledCarries ==
  ASSUME NEW C, \A c \in C : IsCall(c), NEW kind
  PROVE  Carries(C, Cancelled(C, kind))
<1> DEFINE old(c) == IF c.kind = kind /\ c.latest /\ c.phase = "asked"
                     THEN [c EXCEPT !.phase = "aborted"] ELSE c
<1>1. Cancelled(C, kind) = {old(c) : c \in C}
  BY DEF Cancelled
<1>2. ASSUME NEW c \in C PROVE Alike(c, old(c))
  BY DEF IsCall, Alike
<1> HIDE DEF old
<1>3. \A d \in Cancelled(C, kind) : IsCall(d)
  BY <1>1, <1>2 DEF Alike
<1> QED
  BY <1>1, <1>2, <1>3, AlikeServes DEF Carries

LEMMA CarriesOn ==
  ASSUME NEW C, NEW D, NEW E, Carries(C, D), Carries(D, E)
  PROVE  Carries(C, E)
BY Zenon DEF Carries

LEMMA AddCarries ==
  ASSUME NEW C, \A c \in C : IsCall(c), NEW d, IsCall(d)
  PROVE  Carries(C, C \cup {d})
BY DEF Carries

LEMMA InsteadCarries ==
  ASSUME NEW C, \A c \in C : IsCall(c), NEW c \in C, NEW d, IsCall(d),
         \A m \in Marks : Serves(c, m) => Serves(d, m)
  PROVE  Carries(C, (C \ {c}) \cup {d})
BY DEF Carries

\* A mark that is new has a new call.
LEMMA CarriedServes ==
  ASSUME NEW h, NEW k, NEW C, NEW D, Served(h, C), Carries(C, D),
         \A m \in Marks : On(k, m) => On(h, m) \/ \E d \in D : Serves(d, m)
  PROVE  Served(k, D)
BY Zenon DEF Served, Carries

\* A call that ends leaves no mark that it should take away.
LEMMA EndedServes ==
  ASSUME NEW h, NEW k, NEW C, NEW c, Served(h, C),
         \A m \in Marks : On(k, m) => On(h, m) /\ ~Serves(c, m)
  PROVE  Served(k, C \ {c})
<1>1. ASSUME NEW m \in Marks, On(k, m) PROVE \E d \in C \ {c} : Serves(d, m)
  <2>1. PICK d \in C : Serves(d, m)
    BY <1>1 DEF Served
  <2>2. d # c
    BY <1>1, <2>1
  <2> QED
    BY <2>1, <2>2
<1> QED
  BY <1>1 DEF Served

---------------------------------------------------------------------------
(* Pictures                                                                *)

\* The list of k and its pictures are those of h, and nothing that is not listed was
\* selected.
Beside(h, k) ==
  /\ IsPage(k) /\ k.list = h.list /\ k.prev = h.prev
  /\ k.selection \subseteq h.selection \cup h.list

LEMMA BesideKeeps ==
  ASSUME NEW h, NEW k, NEW L, NEW C, NEW D, PageKept(h, L, C), Beside(h, k), Served(k, D)
  PROVE  PageKept(k, L, D)
BY DEF PageKept, Beside, Pictures

LEMMA BegunPage ==
  ASSUME NEW h, IsPage(h), NEW D, NEW k, k = Begun(h, D)
  PROVE  /\ IsPage(k) /\ k.list = h.list /\ k.selection = h.selection
         /\ \A m \in Marks : On(k, m) <=> On(h, m)
         /\ \A d \in Dev : /\ d \in D => k.prev[d].loading
                           /\ d \notin D => k.prev[d] = h.prev[d]
<1>1. PICK prev : /\ prev = [d \in Dev |-> IF d \in D
                               THEN [h.prev[d] EXCEPT !.loading = TRUE] ELSE h.prev[d]]
                  /\ k = [h EXCEPT !.prev = prev]
  BY DEF Begun
<1>2. ASSUME NEW d \in Dev
      PROVE  prev[d] = IF d \in D THEN [h.prev[d] EXCEPT !.loading = TRUE] ELSE h.prev[d]
  BY <1>1
<1>3. ASSUME NEW s \in State
      PROVE  [s EXCEPT !.loading = TRUE] \in State /\ [s EXCEPT !.loading = TRUE].loading
  BY DEF State
<1>4. ASSUME NEW d \in Dev PROVE h.prev[d] \in State
  BY DEF IsPage
<1>5. prev \in [Dev -> State]
  BY <1>1, <1>3, <1>4
<1>6. /\ DOMAIN k = Fields /\ k.prev = prev
      /\ k.list = h.list /\ k.selection = h.selection
      /\ k.loading = h.loading /\ k.adding = h.adding /\ k.renaming = h.renaming
      /\ k.usbLoading = h.usbLoading /\ k.encFetching = h.encFetching
      /\ k.applying = h.applying
  BY <1>1 DEF IsPage, Fields
<1>7. \A m \in Marks : On(k, m) <=> On(h, m)
  BY <1>6 DEF On
<1>8. \A d \in Dev : /\ d \in D => k.prev[d].loading
                     /\ d \notin D => k.prev[d] = h.prev[d]
  BY <1>2, <1>3, <1>4, <1>6
<1> QED
  BY <1>5, <1>6, <1>7, <1>8 DEF IsPage

LEMMA NewLoad ==
  ASSUME NEW d \in Dev, NEW l, l = Load(d)
  PROVE  IsLoad(l) /\ l.dev = d /\ l.attached
BY DEF Load, IsLoad

\* The loads that are begun are of listed devices.
LEMMA BegunKeeps ==
  ASSUME NEW h, NEW L, NEW C, NEW D \in SUBSET Dev, PageKept(h, L, C), D \subseteq h.list
  PROVE  PageKept(Begun(h, D), L \cup {Load(d) : d \in D}, C)
<1>1. PICK k : k = Begun(h, D)
  OBVIOUS
<1>2. PICK M : M = L \cup {Load(d) : d \in D}
  OBVIOUS
<1>3. /\ IsPage(k) /\ k.list = h.list /\ k.selection = h.selection
      /\ \A m \in Marks : On(k, m) <=> On(h, m)
      /\ \A d \in Dev : d \notin D => k.prev[d] = h.prev[d]
  BY <1>1, BegunPage DEF PageKept
<1>4. ASSUME NEW l \in M PROVE IsLoad(l) /\ (l.attached => l.dev \in k.list)
  BY <1>2, <1>3, NewLoad DEF PageKept, Pictures
<1>5. ASSUME NEW d \in Dev, k.prev[d].loading PROVE \E l \in M : l.dev = d /\ l.attached
  <2>1. CASE d \in D
    <3>1. Load(d) \in M
      BY <1>2, <2>1
    <3> QED
      BY <3>1, NewLoad
  <2>2. CASE d \notin D
    BY <1>2, <1>3, <1>5, <2>2 DEF PageKept, Pictures
  <2> QED
    BY <2>1, <2>2
<1>6. \A d \in Dev \ k.list : k.prev[d] = Fresh
  BY <1>3 DEF PageKept, Pictures
<1>7. Served(k, C)
  BY <1>3 DEF PageKept, Served
<1>8. PageKept(k, M, C)
  BY <1>3, <1>4, <1>5, <1>6, <1>7 DEF PageKept, Pictures
<1> QED
  BY <1>1, <1>2, <1>8

LEMMA QueueListed ==
  ASSUME NEW h, NEW L, NEW D
  PROVE  Queue(h, L, D) \subseteq D \cap h.list
BY DEF Queue, Visible

LEMMA QueueKeeps ==
  ASSUME NEW h, NEW L, NEW C, PageKept(h, L, C), QueuePreviewRefresh(h, L)
  PROVE  PageKept(home', loads', C)
BY QueueListed, BegunKeeps DEF QueuePreviewRefresh

\* Loads that are the same but for their phase and entry.
Retold(L, M) ==
  /\ \A l \in M : IsLoad(l) /\ \E k \in L : k.dev = l.dev /\ k.attached = l.attached
  /\ \A k \in L : \E l \in M : k.dev = l.dev /\ k.attached = l.attached

LEMMA RetoldKeeps ==
  ASSUME NEW h, NEW L, NEW M, NEW C, PageKept(h, L, C), Retold(L, M)
  PROVE  PageKept(h, M, C)
<1>1. ASSUME NEW d \in Dev, h.prev[d].loading PROVE \E l \in M : l.dev = d /\ l.attached
  <2>1. PICK k \in L : k.dev = d /\ k.attached
    BY <1>1 DEF PageKept, Pictures
  <2> QED
    BY <2>1 DEF Retold
<1> QED
  BY <1>1 DEF PageKept, Pictures, Retold

LEMMA LoadOverState ==
  ASSUME NEW l, NEW prev \in State, NEW outcome, NEW over, over = LoadOver(l, prev, outcome)
  PROVE  /\ over \in State
         /\ l.attached => ~over.loading
         /\ ~l.attached => over = prev
BY DEF LoadOver, State

LEMMA LoadEndsKeeps ==
  ASSUME IInv, NEW l \in loads, NEW outcome, LoadEnds(l, outcome), UNCHANGED calls
  PROVE  IInv'
<1>1. IsPage(home) /\ Pictures(home, loads) /\ IsLoad(l) /\ l.dev \in Dev
  BY DEF IInv, PageKept, Pictures, IsLoad
<1>2. PICK over : over = LoadOver(l, home.prev[l.dev], outcome)
  OBVIOUS
<1>3. /\ over \in State
      /\ l.attached => ~over.loading
      /\ ~l.attached => over = home.prev[l.dev]
  BY <1>1, <1>2, LoadOverState DEF IsPage
<1>4. PICK prev : prev = [home.prev EXCEPT ![l.dev] = over]
  OBVIOUS
<1>5. home' = [home EXCEPT !.prev = prev]
  BY <1>1, <1>2, <1>4 DEF LoadEnds, IsPage, Fields
<1>6. /\ prev \in [Dev -> State] /\ prev[l.dev] = over
      /\ \A d \in Dev : d # l.dev => prev[d] = home.prev[d]
  BY <1>1, <1>3, <1>4 DEF IsPage
<1>7. /\ DOMAIN home' = Fields /\ home'.prev = prev
      /\ home'.list = home.list /\ home'.selection = home.selection
      /\ \A m \in Marks : On(home', m) <=> On(home, m)
  BY <1>1, <1>5 DEF IsPage, Fields, On
<1>8. ASSUME NEW k \in loads', k.attached
      PROVE  k.dev \in home'.list
  <2>1. PICK j \in loads : k = [j EXCEPT !.entry = @ /\ j.dev # l.dev]
    BY DEF LoadEnds
  <2>2. IsLoad(j) /\ (j.attached => j.dev \in home.list)
    BY DEF IInv, PageKept, Pictures
  <2> QED
    BY <1>7, <1>8, <2>1, <2>2 DEF IsLoad
<1>9. ASSUME NEW k \in loads' PROVE IsLoad(k)
  <2>1. PICK j \in loads : k = [j EXCEPT !.entry = @ /\ j.dev # l.dev]
    BY DEF LoadEnds
  <2>2. IsLoad(j)
    BY DEF IInv, PageKept, Pictures
  <2> QED
    BY <2>1, <2>2 DEF IsLoad
<1>10. ASSUME NEW d \in Dev, home'.prev[d].loading
       PROVE  \E k \in loads' : k.dev = d /\ k.attached
  <2>1. home.prev[d].loading /\ (d = l.dev => ~l.attached)
    BY <1>3, <1>6, <1>7, <1>10
  <2>2. PICK j \in loads : j.dev = d /\ j.attached
    BY <2>1 DEF IInv, PageKept, Pictures
  <2>3. PICK k : k = [j EXCEPT !.entry = @ /\ j.dev # l.dev]
    OBVIOUS
  <2>4. j # l
    BY <2>1, <2>2
  <2>5. k \in loads'
    BY <2>3, <2>4 DEF LoadEnds
  <2>6. k.dev = d /\ k.attached
    BY <2>2, <2>3 DEF IInv, PageKept, Pictures, IsLoad
  <2> QED
    BY <2>5, <2>6
<1>11. ASSUME NEW d \in Dev, d \notin home'.list PROVE home'.prev[d] = Fresh
  <2>1. home.prev[d] = Fresh /\ (d = l.dev => ~l.attached)
    BY <1>7, <1>11 DEF IInv, PageKept, Pictures
  <2> QED
    BY <1>3, <1>6, <1>7, <2>1
<1>12. Served(home', calls')
  BY <1>7 DEF IInv, PageKept, Served
<1>13. IsPage(home') /\ home'.selection \subseteq home'.list
  BY <1>6, <1>7 DEF IInv, PageKept, IsPage
<1>14. Pictures(home', loads')
  BY <1>8, <1>9, <1>10, <1>11 DEF Pictures
<1> QED
  BY <1>12, <1>13, <1>14 DEF IInv, PageKept

LEMMA PreviewKeeps ==
  ASSUME IInv, PreviewHeaders \/ PreviewEnds \/ Tick
  PROVE  IInv'
<1>1. CASE PreviewHeaders
  <2>1. PICK l \in loads : loads' = (loads \ {l}) \cup {[l EXCEPT !.phase = "body"]}
    BY <1>1 DEF PreviewHeaders
  <2>2. \A k \in loads : IsLoad(k)
    BY DEF IInv, PageKept, Pictures
  <2>3. PICK k : k = [l EXCEPT !.phase = "body"]
    OBVIOUS
  <2>4. IsLoad(k) /\ k.dev = l.dev /\ k.attached = l.attached
    BY <2>2, <2>3 DEF IsLoad
  <2>5. loads' = (loads \ {l}) \cup {k}
    BY <2>1, <2>3
  <2>6. Retold(loads, loads')
    BY <2>2, <2>4, <2>5 DEF Retold
  <2>7. UNCHANGED <<home, calls>>
    BY <1>1 DEF PreviewHeaders
  <2> QED
    BY <2>6, <2>7, RetoldKeeps DEF IInv
<1>2. CASE PreviewEnds
  BY <1>2, LoadEndsKeeps DEF PreviewEnds, PreviewPicture, PreviewFails, PreviewAborts
<1>3. CASE Tick
  <2>1. PICK due \in SUBSET Dev :
          /\ home'  = Begun(home, Queue(home, loads, due))
          /\ loads' = loads \cup {Load(d) : d \in Queue(home, loads, due)}
    BY <1>3 DEF Tick
  <2>2. PICK D : D = Queue(home, loads, due)
    OBVIOUS
  <2>3. D \in SUBSET Dev /\ D \subseteq home.list
    BY <2>2, QueueListed
  <2>4. PageKept(Begun(home, D), loads \cup {Load(d) : d \in D}, calls)
    BY <2>3, BegunKeeps DEF IInv
  <2> QED
    BY <1>3, <2>1, <2>2, <2>4 DEF IInv, Tick
<1> QED
  BY <1>1, <1>2, <1>3

---------------------------------------------------------------------------
(* The answers to the calls for the lists                                  *)

LEMMA HeadersKeeps ==
  ASSUME IInv, NEW kind, NEW got, Headers(kind, got)
  PROVE  IInv'
<1>1. PICK c \in calls :
        /\ calls' = (calls \ {c}) \cup {[c EXCEPT !.phase = "body", !.got = got]}
        /\ UNCHANGED <<home, loads>>
  BY DEF Headers
<1>2. PICK d : d = [c EXCEPT !.phase = "body", !.got = got]
  OBVIOUS
<1>3. \A k \in calls : IsCall(k)
  BY DEF IInv, PageKept, Served
<1>4. Alike(c, d)
  BY <1>2, <1>3 DEF IsCall, Alike
<1>5. Carries(calls, calls')
  <2>1. calls' = (calls \ {c}) \cup {d} /\ IsCall(d)
    BY <1>1, <1>2, <1>4 DEF Alike
  <2>2. \A m \in Marks : Serves(c, m) => Serves(d, m)
    BY <1>4, AlikeServes
  <2> QED
    BY <1>3, <2>1, <2>2, InsteadCarries
<1>6. Served(home', calls')
  <2>1. Served(home, calls)
    BY DEF IInv, PageKept
  <2> QED
    BY <1>1, <1>5, <2>1, CarriedServes
<1> QED
  BY <1>1, <1>6 DEF IInv, PageKept

LEMMA SpinnerFacts ==
  ASSUME NEW h, IsPage(h), NEW c, NEW k, k = SpinnerEnds(h, c)
  PROVE  /\ Beside(h, k)
         /\ \A m \in Marks : On(k, m) => On(h, m)
         /\ c.latest => ~k.loading
BY DEF SpinnerEnds, IsPage, Fields, Beside, On, Marks

\* What waited for a call for the list goes on, and the call is over.
LEMMA AfterDevicesKeeps ==
  ASSUME NEW h, NEW L, NEW C, NEW c \in C, PageKept(h, L, C), c.kind = "devices",
         c.latest => ~h.loading, AfterDevices(h, L, c.then)
  PROVE  PageKept(home', loads', C \ {c})
<1>1. PICK k : k = CASE c.then = "toggle"  -> [h EXCEPT !.ticking = TRUE]
                     [] c.then = "added"   -> [h EXCEPT !.adding = FALSE]
                     [] c.then = "renamed" -> [h EXCEPT !.renaming = FALSE]
                     [] OTHER              -> h
  OBVIOUS
<1>2. IF c.then \in {"toggle", "refresh"} THEN QueuePreviewRefresh(k, L)
      ELSE home' = k /\ loads' = L
  BY <1>1 DEF AfterDevices
<1>3. IsPage(h)
  BY DEF PageKept
<1>4. /\ Beside(h, k)
      /\ \A m \in Marks : On(k, m) => On(h, m) /\ ~Serves(c, m)
  <2>1. CASE c.then = "toggle"
    BY <1>1, <1>3, <2>1 DEF IsPage, Fields, Beside, On, Marks, Serves
  <2>2. CASE c.then = "added"
    BY <1>1, <1>3, <2>2 DEF IsPage, Fields, Beside, On, Marks, Serves
  <2>3. CASE c.then = "renamed"
    BY <1>1, <1>3, <2>3 DEF IsPage, Fields, Beside, On, Marks, Serves
  <2>4. CASE c.then \notin {"toggle", "added", "renamed"}
    BY <1>1, <1>3, <2>4 DEF IsPage, Fields, Beside, On, Marks, Serves
  <2> QED
    BY <2>1, <2>2, <2>3, <2>4
<1>5. Served(k, C \ {c})
  <2>1. Served(h, C)
    BY DEF PageKept
  <2> QED
    BY <1>4, <2>1, EndedServes
<1>6. PageKept(k, L, C \ {c})
  BY <1>4, <1>5, BesideKeeps
<1> QED
  BY <1>2, <1>6, QueueKeeps

LEMMA DevicesFailKeeps ==
  ASSUME IInv, DevicesFail
  PROVE  IInv'
<1>1. PICK c \in calls : /\ c.kind = "devices" /\ calls' = calls \ {c}
                         /\ AfterDevices(SpinnerEnds(home, c), loads, c.then)
  BY DEF DevicesFail
<1>2. PICK h : h = SpinnerEnds(home, c)
  OBVIOUS
<1>3. /\ Beside(home, h)
      /\ c.latest => ~h.loading
      /\ \A m \in Marks : On(h, m) => On(home, m)
  BY <1>2, SpinnerFacts DEF IInv, PageKept
<1>4. Served(h, calls)
  BY <1>3 DEF IInv, PageKept, Served
<1>5. PageKept(h, loads, calls)
  BY <1>3, <1>4, BesideKeeps DEF IInv
<1>6. PageKept(home', loads', calls \ {c})
  BY <1>1, <1>2, <1>3, <1>5, AfterDevicesKeeps
<1> QED
  BY <1>1, <1>6 DEF IInv

\* The list that arrives takes the state of the devices it lacks with it.
LEMMA ListedKeeps ==
  ASSUME NEW h, NEW L, NEW C, PageKept(h, L, C), NEW got,
         NEW k, k = CleanupPreviewStates(Listed(h, got))
  PROVE  PageKept(k, RemovePreviewState(L, k.list), C)
<1>1. PICK ids : ids = {p[1] : p \in got}
  OBVIOUS
<1>2. PICK j : j = Listed(h, got)
  OBVIOUS
<1>3. DOMAIN h = Fields /\ h.prev \in [Dev -> State]
  BY DEF PageKept, IsPage
<1>4. /\ DOMAIN j = Fields /\ j.list = ids /\ j.selection = h.selection \cap ids
      /\ j.prev = h.prev
      /\ \A m \in Marks : On(j, m) <=> On(h, m)
  BY <1>1, <1>2, <1>3 DEF Listed, Fields, On
<1>5. PICK prev : prev = [d \in Dev |-> IF d \in ids THEN h.prev[d] ELSE Fresh]
  OBVIOUS
<1>6. k = [j EXCEPT !.prev = prev]
  <2>1. k = [j EXCEPT !.prev = [d \in Dev |-> IF d \in j.list THEN j.prev[d] ELSE Fresh]]
    BY <1>2, <1>4 DEF CleanupPreviewStates, Fields
  <2> QED
    BY <1>4, <1>5, <2>1
<1>7. /\ DOMAIN k = Fields /\ k.list = ids /\ k.selection = h.selection \cap ids
      /\ k.prev = prev
      /\ \A m \in Marks : On(k, m) <=> On(h, m)
  BY <1>4, <1>6 DEF Fields, On
<1>8. Fresh \in State /\ ~Fresh.loading
  BY DEF Fresh, State
<1>9. prev \in [Dev -> State]
  BY <1>3, <1>5, <1>8
<1>10. PICK M : M = RemovePreviewState(L, ids)
  OBVIOUS
<1>11. ASSUME NEW l \in L
       PROVE  /\ l.dev \in ids => l \in M
              /\ IsLoad(l)
  BY <1>10 DEF RemovePreviewState, PageKept, Pictures
<1>12. ASSUME NEW n \in M PROVE IsLoad(n) /\ (n.attached => n.dev \in ids)
  <2>1. PICK l \in L :
          n = IF l.dev \in ids THEN l
              ELSE [(IF l.entry THEN Aborted(l) ELSE l) EXCEPT !.entry = FALSE,
                                                               !.attached = FALSE]
    BY <1>10 DEF RemovePreviewState
  <2>2. IsLoad(l)
    BY <1>11
  <2>3. CASE l.dev \in ids
    BY <2>1, <2>2, <2>3
  <2>4. CASE l.dev \notin ids
    <3>1. PICK o : o = IF l.entry THEN Aborted(l) ELSE l
      OBVIOUS
    <3>2. DOMAIN o = DOMAIN l /\ o.dev = l.dev
      BY <2>2, <3>1 DEF IsLoad, Aborted
    <3>3. n = [o EXCEPT !.entry = FALSE, !.attached = FALSE]
      BY <2>1, <2>4, <3>1
    <3>4. DOMAIN n = DOMAIN l /\ n.dev = l.dev /\ n.attached = FALSE
      BY <2>2, <3>2, <3>3 DEF IsLoad
    <3> QED
      BY <2>2, <3>4 DEF IsLoad
  <2> QED
    BY <2>3, <2>4
<1>13. ASSUME NEW d \in Dev, prev[d].loading PROVE \E l \in M : l.dev = d /\ l.attached
  <2>1. d \in ids /\ h.prev[d].loading
    BY <1>5, <1>8, <1>13
  <2>2. PICK l \in L : l.dev = d /\ l.attached
    BY <2>1 DEF PageKept, Pictures
  <2> QED
    BY <1>11, <2>1, <2>2
<1>14. Pictures(k, M)
  BY <1>5, <1>7, <1>12, <1>13 DEF Pictures
<1>15. Served(k, C)
  BY <1>7 DEF PageKept, Served
<1>16. IsPage(k) /\ k.selection \subseteq k.list
  BY <1>7, <1>9 DEF IsPage
<1> QED
  BY <1>7, <1>10, <1>14, <1>15, <1>16 DEF PageKept

LEMMA DevicesArriveKeeps ==
  ASSUME IInv, DevicesArrive
  PROVE  IInv'
<1>1. PICK c \in calls :
        LET h == SpinnerEnds(CleanupPreviewStates(Listed(home, c.got)), c)
            L == RemovePreviewState(loads, h.list)
        IN  /\ c.kind = "devices"
            /\ calls' = calls \ {c}
            /\ AfterDevices(Begun(h, Queue(h, L, Dev)),
                            L \cup {Load(d) : d \in Queue(h, L, Dev)}, c.then)
  BY DEF DevicesArrive
<1>2. PICK j : j = CleanupPreviewStates(Listed(home, c.got))
  OBVIOUS
<1>3. PICK h : h = SpinnerEnds(j, c)
  OBVIOUS
<1>4. PICK L : L = RemovePreviewState(loads, h.list)
  OBVIOUS
<1>5. PICK D : D = Queue(h, L, Dev)
  OBVIOUS
<1>6. PICK k : k = Begun(h, D)
  OBVIOUS
<1>7. PICK M : M = L \cup {Load(d) : d \in D}
  OBVIOUS
<1>8. c.kind = "devices" /\ calls' = calls \ {c} /\ AfterDevices(k, M, c.then)
  BY <1>1, <1>2, <1>3, <1>4, <1>5, <1>6, <1>7
<1>9. PageKept(j, RemovePreviewState(loads, j.list), calls)
  BY <1>2, ListedKeeps DEF IInv
<1>10. /\ Beside(j, h)
       /\ c.latest => ~h.loading
       /\ \A m \in Marks : On(h, m) => On(j, m)
  BY <1>3, <1>9, SpinnerFacts DEF PageKept
<1>11. Served(h, calls)
  BY <1>9, <1>10 DEF PageKept, Served
<1>12. PageKept(h, L, calls)
  <2>1. h.list = j.list
    BY <1>10 DEF Beside
  <2> QED
    BY <1>4, <1>9, <1>10, <1>11, <2>1, BesideKeeps
<1>13. D \in SUBSET Dev /\ D \subseteq h.list
  BY <1>5, QueueListed
<1>14. PageKept(k, M, calls)
  BY <1>6, <1>7, <1>12, <1>13, BegunKeeps
<1>15. c.latest => ~k.loading
  <2>1. On(k, "loading") <=> On(h, "loading")
    BY <1>6, <1>12, BegunPage DEF PageKept, Marks
  <2> QED
    BY <1>10, <2>1 DEF On
<1>16. PageKept(home', loads', calls \ {c})
  BY <1>8, <1>14, <1>15, AfterDevicesKeeps
<1> QED
  BY <1>8, <1>16 DEF IInv

LEMMA GroupsKeeps ==
  ASSUME IInv, GroupsArrive \/ GroupsFail
  PROVE  IInv'
<1>1. PICK c \in calls : c.kind = "groups" /\ calls' = calls \ {c}
  BY DEF GroupsArrive, GroupsFail
<1>2. ASSUME NEW h, Beside(home, h), \A m \in Marks : On(h, m) => On(home, m)
      PROVE  PageKept(h, loads, calls \ {c})
  <2>1. IsCall(c) /\ Served(home, calls)
    BY DEF IInv, PageKept, Served
  <2>2. \A m \in Marks : ~Serves(c, m)
    BY <1>1, <2>1 DEF IsCall, Serves
  <2>3. Served(h, calls \ {c})
    BY <1>2, <2>1, <2>2, EndedServes
  <2> QED
    BY <1>2, <2>3, BesideKeeps DEF IInv
<1>3. CASE GroupsArrive
  <2>1. PICK k \in calls :
          LET h == [home EXCEPT !.offered = k.got # {}, !.group = @ /\ k.got # {}]
          IN  IF h.group # home.group THEN QueuePreviewRefresh(h, loads)
              ELSE home' = h /\ UNCHANGED loads
    BY <1>3 DEF GroupsArrive
  <2>2. PICK h : h = [home EXCEPT !.offered = k.got # {}, !.group = @ /\ k.got # {}]
    OBVIOUS
  <2>3. Beside(home, h) /\ \A m \in Marks : On(h, m) => On(home, m)
    BY <2>2 DEF IInv, PageKept, IsPage, Fields, Beside, On
  <2>4. PageKept(h, loads, calls \ {c})
    BY <1>2, <2>3
  <2>5. IF h.group # home.group THEN QueuePreviewRefresh(h, loads)
        ELSE home' = h /\ UNCHANGED loads
    BY <2>1, <2>2
  <2>6. PageKept(home', loads', calls \ {c})
    BY <2>4, <2>5, QueueKeeps
  <2> QED
    BY <1>1, <2>6 DEF IInv
<1>4. CASE GroupsFail
  <2>1. Beside(home, home) /\ UNCHANGED <<home, loads>>
    BY <1>4 DEF GroupsFail, IInv, PageKept, Beside
  <2> QED
    BY <1>1, <1>2, <2>1 DEF IInv
<1> QED
  BY <1>3, <1>4

---------------------------------------------------------------------------
(* The list and the pictures, as the user works with them                  *)

\* A handler that leaves the loads alone.
LEMMA HandlerKeeps ==
  ASSUME IInv, Beside(home, home'), UNCHANGED loads, Served(home', calls')
  PROVE  IInv'
<1>1. PageKept(home', loads, calls')
  BY BesideKeeps DEF IInv
<1> QED
  BY <1>1 DEF IInv

\* One that leaves also the calls alone and sets no mark.
LEMMA QuietKeeps ==
  ASSUME IInv, Beside(home, home'), \A m \in Marks : On(home', m) => On(home, m),
         UNCHANGED <<loads, calls>>
  PROVE  IInv'
<1>1. Served(home', calls')
  BY DEF IInv, PageKept, Served
<1> QED
  BY <1>1, HandlerKeeps

LEMMA PageFacts ==
  ASSUME IInv
  PROVE  /\ IsPage(home) /\ Served(home, calls) /\ \A c \in calls : IsCall(c)
         /\ Beside(home, home)
BY DEF IInv, PageKept, Served, Beside

\* fetchDevices: the call that began takes the spinner away.
LEMMA FetchKeeps ==
  ASSUME NEW h, NEW L, NEW C, PageKept(h, L, C), NEW then,
         NEW k, k = FetchDevices(h, C, then).h, NEW D, D = FetchDevices(h, C, then).C
  PROVE  /\ PageKept(k, L, D)
         /\ \A m \in Marks : On(k, m) => On(h, m) \/ m = "loading"
<1>1. k = [h EXCEPT !.loading = TRUE] /\ D = Asked(C, "devices", 0, then)
  BY DEF FetchDevices
<1>2. IsPage(h) /\ Served(h, C) /\ \A c \in C : IsCall(c)
  BY DEF PageKept, Served
<1>3. /\ Beside(h, k)
      /\ \A m \in Marks : On(k, m) => On(h, m) \/ m = "loading"
  BY <1>1, <1>2 DEF IsPage, Fields, Beside, On, Marks
<1>4. Carries(C, D) /\ \E d \in D : Serves(d, "loading")
  <2>1. Carries(C, D) /\ Call("devices", 0, then) \in D
    BY <1>1, <1>2, AskedCarries
  <2>2. Serves(Call("devices", 0, then), "loading")
    BY NewCall DEF Serves
  <2> QED
    BY <2>1, <2>2
<1>5. Served(k, D)
  BY <1>2, <1>3, <1>4, CarriedServes
<1> QED
  BY <1>3, <1>5, BesideKeeps

LEMMA ToggleKeeps ==
  ASSUME IInv, ToggleToPreview \/ SelectGroup \/ ToggleDeviceSelection
  PROVE  IInv'
<1>1. IsPage(home) /\ Served(home, calls)
  BY PageFacts
<1>2. CASE ToggleToPreview
  <2>1. PICK h : h = [home EXCEPT !.mode = "preview", !.selection = {}, !.ticking = TRUE]
    OBVIOUS
  <2>2. /\ Beside(home, h)
        /\ \A m \in Marks : On(h, m) => On(home, m)
    BY <1>1, <2>1 DEF IsPage, Fields, Beside, On
  <2>3. PageKept(h, loads, calls)
    <3>1. Served(h, calls)
      BY <1>1, <2>2 DEF Served
    <3> QED
      BY <2>2, <3>1, BesideKeeps DEF IInv
  <2>4. PICK begun : begun = FetchDevices(h, calls, "toggle")
    OBVIOUS
  <2>5. QueuePreviewRefresh(begun.h, loads) /\ calls' = begun.C
    BY <1>2, <2>1, <2>4 DEF ToggleToPreview
  <2>6. PageKept(begun.h, loads, calls')
    BY <2>3, <2>4, <2>5, FetchKeeps
  <2>7. PageKept(home', loads', calls')
    BY <2>5, <2>6, QueueKeeps
  <2> QED
    BY <2>7 DEF IInv
<1>3. CASE SelectGroup
  <2>1. PICK h : h = [home EXCEPT !.group = ~@, !.selection = {}]
    OBVIOUS
  <2>2. /\ Beside(home, h)
        /\ \A m \in Marks : On(h, m) => On(home, m)
    BY <1>1, <2>1 DEF IsPage, Fields, Beside, On
  <2>3. PageKept(h, loads, calls)
    <3>1. Served(h, calls)
      BY <1>1, <2>2 DEF Served
    <3> QED
      BY <2>2, <3>1, BesideKeeps DEF IInv
  <2>4. QueuePreviewRefresh(h, loads) /\ UNCHANGED calls
    BY <1>3, <2>1 DEF SelectGroup
  <2>5. PageKept(home', loads', calls)
    BY <2>3, <2>4, QueueKeeps
  <2> QED
    BY <2>4, <2>5 DEF IInv
<1>4. CASE ToggleDeviceSelection
  <2>1. PICK d \in home.list : home' = [home EXCEPT !.selection = IF d \in @ THEN @ \ {d}
                                                                  ELSE @ \cup {d}]
    BY <1>4 DEF ToggleDeviceSelection, Visible
  <2>2. PICK chosen : /\ chosen = IF d \in home.selection THEN home.selection \ {d}
                                  ELSE home.selection \cup {d}
                      /\ home' = [home EXCEPT !.selection = chosen]
    BY <1>1, <2>1 DEF IsPage, Fields
  <2>3. chosen \subseteq home.selection \cup home.list
    BY <2>1, <2>2
  <2>4. /\ Beside(home, home')
        /\ \A m \in Marks : On(home', m) => On(home, m)
    BY <1>1, <2>2, <2>3 DEF IsPage, Fields, Beside, On
  <2> QED
    BY <1>4, <2>4, QuietKeeps DEF ToggleDeviceSelection
<1> QED
  BY <1>2, <1>3, <1>4

LEMMA NoneLoadingPage ==
  ASSUME NEW h, IsPage(h), NEW k, k = NoneLoading(h)
  PROVE  /\ DOMAIN k = Fields /\ k.list = h.list /\ k.selection = h.selection
         /\ k.prev \in [Dev -> State]
         /\ \A m \in Marks : On(k, m) <=> On(h, m)
         /\ \A d \in Dev : /\ ~k.prev[d].loading
                           /\ h.prev[d] = Fresh => k.prev[d] = Fresh
<1>1. PICK prev : /\ prev = [d \in Dev |-> [h.prev[d] EXCEPT !.loading = FALSE]]
                  /\ k = [h EXCEPT !.prev = prev]
  BY DEF NoneLoading
<1>2. ASSUME NEW s \in State
      PROVE  /\ [s EXCEPT !.loading = FALSE] \in State
             /\ ~[s EXCEPT !.loading = FALSE].loading
             /\ s = Fresh => [s EXCEPT !.loading = FALSE] = Fresh
  <2>1. /\ [s EXCEPT !.loading = FALSE] \in State
        /\ ~[s EXCEPT !.loading = FALSE].loading
    BY DEF State
  <2>2. ASSUME ~s.loading, NEW r, r = [s EXCEPT !.loading = FALSE]
        PROVE  r = s
    <3>1. r \in State /\ r.loading = s.loading /\ r.pic = s.pic
      BY <2>2 DEF State
    <3> QED
      BY <3>1 DEF State
  <2>3. s = Fresh => ~s.loading
    BY DEF Fresh
  <2> QED
    BY <2>1, <2>2, <2>3
<1>3. ASSUME NEW d \in Dev PROVE h.prev[d] \in State
  BY DEF IsPage
<1>4. /\ prev \in [Dev -> State]
      /\ \A d \in Dev : /\ ~prev[d].loading
                        /\ h.prev[d] = Fresh => prev[d] = Fresh
  BY <1>1, <1>2, <1>3
<1>5. /\ DOMAIN k = Fields /\ k.prev = prev
      /\ k.list = h.list /\ k.selection = h.selection
      /\ \A m \in Marks : On(k, m) <=> On(h, m)
  BY <1>1 DEF IsPage, Fields, On
<1> QED
  BY <1>4, <1>5

LEMMA CancelRetold ==
  ASSUME NEW L, \A l \in L : IsLoad(l)
  PROVE  Retold(L, CancelPreviewRequests(L))
<1> DEFINE new(l) == IF l.entry THEN [Aborted(l) EXCEPT !.entry = FALSE] ELSE l
<1>1. CancelPreviewRequests(L) = {new(l) : l \in L}
  BY DEF CancelPreviewRequests
<1>2. ASSUME NEW l \in L
      PROVE  IsLoad(new(l)) /\ new(l).dev = l.dev /\ new(l).attached = l.attached
  <2>1. PICK k : k = Aborted(l)
    OBVIOUS
  <2>2. DOMAIN k = DOMAIN l /\ k.dev = l.dev /\ k.attached = l.attached
    BY <2>1 DEF Aborted, IsLoad
  <2>3. new(l) = IF l.entry THEN [k EXCEPT !.entry = FALSE] ELSE l
    BY <2>1
  <2> QED
    BY <2>2, <2>3 DEF IsLoad
<1> HIDE DEF new
<1> QED
  BY <1>1, <1>2 DEF Retold

LEMMA ToggleToListKeeps ==
  ASSUME IInv, ToggleToList
  PROVE  IInv'
<1>1. PICK h : h = [home EXCEPT !.mode = "list", !.ticking = FALSE]
  OBVIOUS
<1>2. /\ home' = NoneLoading(h) /\ loads' = CancelPreviewRequests(loads)
      /\ UNCHANGED calls
  BY <1>1 DEF ToggleToList
<1>3. /\ Beside(home, h)
      /\ \A m \in Marks : On(h, m) => On(home, m)
  BY <1>1, PageFacts DEF IsPage, Fields, Beside, On
<1>4. PageKept(h, loads, calls)
  <2>1. Served(h, calls)
    BY <1>3, PageFacts DEF Served
  <2> QED
    BY <1>3, <2>1, BesideKeeps DEF IInv
<1>5. \A l \in loads : IsLoad(l)
  BY DEF IInv, PageKept, Pictures
<1>6. PageKept(h, loads', calls)
  BY <1>2, <1>4, <1>5, CancelRetold, RetoldKeeps
<1>7. /\ IsPage(home') /\ home'.list = h.list /\ home'.selection = h.selection
      /\ \A m \in Marks : On(home', m) <=> On(h, m)
      /\ \A d \in Dev : /\ ~home'.prev[d].loading
                        /\ h.prev[d] = Fresh => home'.prev[d] = Fresh
  BY <1>2, <1>6, NoneLoadingPage DEF PageKept, IsPage
<1>8. Pictures(home', loads')
  BY <1>6, <1>7 DEF PageKept, Pictures
<1>9. Served(home', calls)
  BY <1>6, <1>7 DEF PageKept, Served
<1> QED
  BY <1>2, <1>6, <1>7, <1>8, <1>9 DEF IInv, PageKept

LEMMA RefreshKeeps ==
  ASSUME IInv, PrepareGroupDropdown \/ HandleRefreshDevices
  PROVE  IInv'
<1>1. ASSUME NEW then, home' = FetchDevices(home, calls, then).h, UNCHANGED loads,
             \/ calls' = FetchDevices(home, calls, then).C
             \/ calls' = Asked(FetchDevices(home, calls, then).C, "groups", 0, "none")
      PROVE  IInv'
  <2>1. PICK D : D = FetchDevices(home, calls, then).C
    OBVIOUS
  <2>2. PageKept(home', loads, D)
    BY <1>1, <2>1, FetchKeeps DEF IInv
  <2>3. CASE calls' = D
    BY <1>1, <2>2, <2>3 DEF IInv
  <2>4. CASE calls' = Asked(D, "groups", 0, "none")
    <3>1. Served(home', D) /\ \A d \in D : IsCall(d)
      BY <2>2 DEF PageKept, Served
    <3>2. Carries(D, calls')
      BY <2>4, <3>1, AskedCarries
    <3>3. Served(home', calls')
      BY <3>1, <3>2, CarriedServes
    <3> QED
      BY <1>1, <2>2, <3>3 DEF IInv, PageKept
  <2> QED
    BY <1>1, <2>1, <2>3, <2>4
<1> QED
  BY <1>1 DEF PrepareGroupDropdown, HandleRefreshDevices

---------------------------------------------------------------------------
(* Adding, deleting and renaming                                           *)

\* A call is begun that is no request of which only the latest counts.
LEMMA BeginKeeps ==
  ASSUME IInv, NEW c, IsCall(c), calls' = calls \cup {c}, UNCHANGED loads,
         Beside(home, home'),
         \A m \in Marks : On(home', m) => On(home, m) \/ Serves(c, m)
  PROVE  IInv'
<1>1. Carries(calls, calls') /\ c \in calls'
  BY PageFacts, AddCarries
<1>2. Served(home', calls')
  BY <1>1, PageFacts, CarriedServes
<1> QED
  BY <1>2, HandlerKeeps

\* A call ends that leaves no mark it should take away.
LEMMA EndKeeps ==
  ASSUME IInv, NEW c \in calls, calls' = calls \ {c}, UNCHANGED loads,
         Beside(home, home'),
         \A m \in Marks : On(home', m) => On(home, m) /\ ~Serves(c, m)
  PROVE  IInv'
<1>1. Served(home', calls')
  BY PageFacts, EndedServes
<1> QED
  BY <1>1, HandlerKeeps

LEMMA BeginDeleteKeeps ==
  ASSUME IInv, DeleteDevice \/ DeleteSelectedDevices \/ OpenDevice
  PROVE  IInv'
<1>1. PICK c : IsCall(c) /\ calls' = calls \cup {c}
  <2>1. CASE DeleteDevice
    <3>1. PICK d : calls' = calls \cup {Call("delete", d, "none")}
      BY <2>1 DEF DeleteDevice
    <3> QED
      BY <3>1, NewCall
  <2>2. CASE DeleteSelectedDevices
    <3>1. calls' = calls \cup {[Call("deletes", 0, "none") EXCEPT !.got = home.selection]}
      BY <2>2 DEF DeleteSelectedDevices
    <3> QED
      BY <3>1, NewCall
  <2>3. CASE OpenDevice
    <3>1. PICK d : calls' = calls \cup {Call("status", d, "none")}
      BY <2>3 DEF OpenDevice
    <3> QED
      BY <3>1, NewCall
  <2> QED
    BY <2>1, <2>2, <2>3
<1>2. UNCHANGED <<home, loads>>
  BY DEF DeleteDevice, DeleteSelectedDevices, OpenDevice
<1> QED
  BY <1>1, <1>2, BeginKeeps, PageFacts

LEMMA DeletedKeeps ==
  ASSUME IInv, DeviceDeleted \/ SelectedDeleted
  PROVE  IInv'
<1>1. ASSUME NEW c \in calls, c.kind \in {"delete", "deletes"},
             NEW h, Beside(home, h), \A m \in Marks : On(h, m) => On(home, m)
      PROVE  PageKept(h, loads, calls \ {c})
  <2>1. IsCall(c) /\ Served(home, calls)
    BY PageFacts
  <2>2. \A m \in Marks : ~Serves(c, m)
    BY <1>1, <2>1 DEF IsCall, Serves
  <2>3. Served(h, calls \ {c})
    BY <1>1, <2>1, <2>2, EndedServes
  <2> QED
    BY <1>1, <2>3, BesideKeeps DEF IInv
<1>2. CASE DeviceDeleted
  <2>1. PICK c \in calls, done \in BOOLEAN :
          /\ c.kind = "delete"
          /\ home' = IF done THEN FetchDevices(home, calls \ {c}, "none").h ELSE home
          /\ calls' = IF done THEN FetchDevices(home, calls \ {c}, "none").C ELSE calls \ {c}
          /\ UNCHANGED loads
    BY <1>2 DEF DeviceDeleted
  <2>2. PageKept(home, loads, calls \ {c})
    BY <1>1, <2>1, PageFacts
  <2>3. PageKept(home', loads, calls')
    BY <2>1, <2>2, FetchKeeps
  <2> QED
    BY <2>1, <2>3 DEF IInv
<1>3. CASE SelectedDeleted
  <2>1. PICK c \in calls :
          /\ c.kind = "deletes"
          /\ home' = FetchDevices([home EXCEPT !.selection = {}], calls \ {c}, "none").h
          /\ calls' = FetchDevices([home EXCEPT !.selection = {}], calls \ {c}, "none").C
          /\ UNCHANGED loads
    BY <1>3 DEF SelectedDeleted
  <2>2. PICK h : h = [home EXCEPT !.selection = {}]
    OBVIOUS
  <2>3. /\ Beside(home, h)
        /\ \A m \in Marks : On(h, m) => On(home, m)
    BY <2>2, PageFacts DEF IsPage, Fields, Beside, On
  <2>4. PageKept(h, loads, calls \ {c})
    BY <1>1, <2>1, <2>3
  <2>5. PageKept(home', loads, calls')
    BY <2>1, <2>2, <2>4, FetchKeeps
  <2> QED
    BY <2>1, <2>5 DEF IInv
<1> QED
  BY <1>2, <1>3

LEMMA OpenKeeps ==
  ASSUME IInv,
         \/ OpenAddDeviceDialog \/ SelectUsbDevice \/ OpenRenameDialog \/ CloseRenameDialog
         \/ CloseEncodersDialog \/ SelectEncoder \/ CloseEncoderTargetDialog
  PROVE  IInv'
<1>1. /\ Beside(home, home')
      /\ \A m \in Marks : On(home', m) => On(home, m)
  <2>1. IsPage(home)
    BY PageFacts
  <2>2. CASE OpenAddDeviceDialog
    BY <2>1, <2>2 DEF OpenAddDeviceDialog, IsPage, Fields, Beside, On
  <2>3. CASE SelectUsbDevice
    BY <2>1, <2>3 DEF SelectUsbDevice, IsPage, Fields, Beside, On
  <2>4. CASE OpenRenameDialog
    BY <2>1, <2>4 DEF OpenRenameDialog, IsPage, Fields, Beside, On
  <2>5. CASE CloseRenameDialog
    BY <2>1, <2>5 DEF CloseRenameDialog, CloseRename, IsPage, Fields, Beside, On
  <2>6. CASE CloseEncodersDialog
    BY <2>1, <2>6 DEF CloseEncodersDialog, IsPage, Fields, Beside, On
  <2>7. CASE SelectEncoder
    BY <2>1, <2>7 DEF SelectEncoder, IsPage, Fields, Beside, On
  <2>8. CASE CloseEncoderTargetDialog
    BY <2>1, <2>8 DEF CloseEncoderTargetDialog, IsPage, Fields, Beside, On
  <2> QED
    BY <2>2, <2>3, <2>4, <2>5, <2>6, <2>7, <2>8
<1>2. UNCHANGED <<loads, calls>>
  BY DEF OpenAddDeviceDialog, SelectUsbDevice, OpenRenameDialog, CloseRenameDialog,
         CloseEncodersDialog, SelectEncoder, CloseEncoderTargetDialog
<1> QED
  BY <1>1, <1>2, QuietKeeps

LEMMA UsbKeeps ==
  ASSUME IInv, CloseAddDeviceDialog \/ FetchUsbDevices
  PROVE  IInv'
<1>1. IsPage(home) /\ Served(home, calls) /\ \A c \in calls : IsCall(c)
  BY PageFacts
<1>2. CASE CloseAddDeviceDialog
  <2>1. /\ home' = CloseAdd(home) /\ calls' = Cancelled(calls, "usb")
        /\ UNCHANGED loads
    BY <1>2 DEF CloseAddDeviceDialog
  <2>2. /\ Beside(home, home')
        /\ \A m \in Marks : On(home', m) => On(home, m)
    BY <1>1, <2>1 DEF CloseAdd, IsPage, Fields, Beside, On
  <2>3. Served(home', calls')
    BY <1>1, <2>1, <2>2, CancelledCarries, CarriedServes
  <2> QED
    BY <2>1, <2>2, <2>3, HandlerKeeps
<1>3. CASE FetchUsbDevices
  <2>1. /\ home' = [home EXCEPT !.add = "usb", !.usbLoading = TRUE]
        /\ calls' = Asked(calls, "usb", 0, "none") /\ UNCHANGED loads
    BY <1>3 DEF FetchUsbDevices
  <2>2. /\ Beside(home, home')
        /\ \A m \in Marks : On(home', m) => On(home, m) \/ m = "usbLoading"
    BY <1>1, <2>1 DEF IsPage, Fields, Beside, On, Marks
  <2>3. Carries(calls, calls') /\ Call("usb", 0, "none") \in calls'
    BY <1>1, <2>1, AskedCarries
  <2>4. Serves(Call("usb", 0, "none"), "usbLoading")
    BY NewCall DEF Serves
  <2>5. Served(home', calls')
    BY <1>1, <2>2, <2>3, <2>4, CarriedServes
  <2> QED
    BY <2>1, <2>2, <2>5, HandlerKeeps
<1> QED
  BY <1>2, <1>3

LEMMA UsbEndsKeeps ==
  ASSUME IInv, UsbArrive \/ UsbFails
  PROVE  IInv'
<1>1. PICK c \in calls : /\ c.kind = "usb" /\ calls' = calls \ {c} /\ UNCHANGED loads
                         /\ Beside(home, home')
                         /\ \A m \in Marks : On(home', m) => On(home, m)
                         /\ home'.usbLoading => ~c.latest
  <2>1. IsPage(home)
    BY PageFacts
  <2>2. CASE UsbArrive
    <3>1. PICK c \in calls :
            /\ c.kind = "usb" /\ calls' = calls \ {c} /\ UNCHANGED loads
            /\ LET free == c.got \ home.list
               IN  home' = [home EXCEPT
                     !.usb = c.got, !.usbLoading = @ /\ ~c.latest,
                     !.plug = IF @ \in free THEN @
                              ELSE IF free = {} THEN 0
                              ELSE CHOOSE d \in free : \A e \in free : d <= e]
      BY Zenon, <2>2 DEF UsbArrive
    <3>2. /\ Beside(home, home')
          /\ \A m \in Marks : On(home', m) => On(home, m)
          /\ home'.usbLoading => ~c.latest
      BY <2>1, <3>1 DEF IsPage, Fields, Beside, On
    <3> QED
      BY <3>1, <3>2
  <2>3. CASE UsbFails
    <3>1. PICK c \in calls :
            /\ c.kind = "usb" /\ calls' = calls \ {c} /\ UNCHANGED loads
            /\ home' = [home EXCEPT
                 !.usb  = IF c.latest /\ c.phase # "aborted" THEN {} ELSE @,
                 !.plug = IF c.latest /\ c.phase # "aborted" THEN 0 ELSE @,
                 !.usbLoading = @ /\ ~c.latest]
      BY Zenon, <2>3 DEF UsbFails
    <3>2. /\ Beside(home, home')
          /\ \A m \in Marks : On(home', m) => On(home, m)
          /\ home'.usbLoading => ~c.latest
      BY <2>1, <3>1 DEF IsPage, Fields, Beside, On
    <3> QED
      BY <3>1, <3>2
  <2> QED
    BY <2>2, <2>3
<1>2. \A m \in Marks : On(home', m) => ~Serves(c, m)
  BY <1>1, PageFacts DEF On, Serves, IsCall
<1> QED
  BY <1>1, <1>2, EndKeeps

LEMMA AddKeeps ==
  ASSUME IInv, AddDevice \/ SubmitRenameDevice
  PROVE  IInv'
<1>1. IsPage(home)
  BY PageFacts
<1>2. CASE AddDevice
  <2>1. PICK d : calls' = calls \cup {Call("add", d, "none")}
    BY <1>2 DEF AddDevice
  <2>2. home' = [home EXCEPT !.adding = TRUE] /\ UNCHANGED loads
    BY <1>2 DEF AddDevice
  <2>3. /\ Beside(home, home')
        /\ \A m \in Marks : On(home', m) => On(home, m) \/ m = "adding"
    BY <1>1, <2>2 DEF IsPage, Fields, Beside, On, Marks
  <2>4. IsCall(Call("add", d, "none")) /\ Serves(Call("add", d, "none"), "adding")
    BY NewCall DEF Serves
  <2> QED
    BY <2>1, <2>2, <2>3, <2>4, BeginKeeps
<1>3. CASE SubmitRenameDevice
  <2>1. PICK c : c = Call("rename", home.rename, "none")
    OBVIOUS
  <2>2. /\ calls' = calls \cup {c} /\ UNCHANGED loads
        /\ home' = [home EXCEPT !.renaming = TRUE]
    BY <1>3, <2>1 DEF SubmitRenameDevice
  <2>3. /\ Beside(home, home')
        /\ \A m \in Marks : On(home', m) => On(home, m) \/ m = "renaming"
    BY <1>1, <2>2 DEF IsPage, Fields, Beside, On, Marks
  <2>4. IsCall(c) /\ Serves(c, "renaming")
    BY <2>1, NewCall DEF Serves
  <2> QED
    BY <2>2, <2>3, <2>4, BeginKeeps
<1> QED
  BY <1>2, <1>3

LEMMA DeviceAddedKeeps ==
  ASSUME IInv, DeviceAdded
  PROVE  IInv'
<1>1. PICK c \in calls :
        LET begun == FetchDevices(CloseAdd(home), Cancelled(calls \ {c}, "usb"), "added")
        IN  /\ c.kind = "add" /\ home' = begun.h /\ calls' = begun.C /\ UNCHANGED loads
  BY DEF DeviceAdded
<1>2. PICK C : C = Cancelled(calls \ {c}, "usb")
  OBVIOUS
<1>3. /\ c.kind = "add" /\ UNCHANGED loads
      /\ home' = [CloseAdd(home) EXCEPT !.loading = TRUE]
      /\ calls' = Asked(C, "devices", 0, "added")
  BY <1>1, <1>2 DEF FetchDevices
<1>4. IsPage(home) /\ Served(home, calls) /\ \A k \in calls : IsCall(k)
  BY PageFacts
<1>5. PICK h : h = CloseAdd(home)
  OBVIOUS
<1>6. /\ Beside(home, h)
      /\ \A m \in Marks : On(h, m) => On(home, m)
  BY <1>4, <1>5 DEF CloseAdd, IsPage, Fields, Beside, On
<1>7. /\ Beside(home, home')
      /\ \A m \in Marks : On(home', m) => On(home, m) \/ m = "loading"
  BY <1>3, <1>5, <1>6 DEF IsPage, Fields, Beside, On, Marks
<1>8. Carries(calls \ {c}, C) /\ \A k \in C : IsCall(k)
  BY <1>2, <1>4, CancelledCarries DEF Carries
<1>9. Carries(C, calls') /\ Call("devices", 0, "added") \in calls'
  BY <1>3, <1>8, AskedCarries
<1>10. \A m \in {"loading", "adding"} : Serves(Call("devices", 0, "added"), m)
  BY NewCall DEF Serves
<1>11. ASSUME NEW m \in Marks, On(home', m) PROVE \E k \in calls' : Serves(k, m)
  <2>1. CASE m \in {"loading", "adding"}
    BY <1>9, <1>10, <2>1
  <2>2. CASE m \notin {"loading", "adding"}
    <3>1. PICK k \in calls : Serves(k, m)
      BY <1>4, <1>7, <1>11, <2>2 DEF Served
    <3>2. ~Serves(c, m)
      BY <1>3, <1>4, <2>2 DEF IsCall, Serves
    <3>3. k \in calls \ {c}
      BY <3>1, <3>2
    <3> QED
      BY <1>8, <1>9, <3>1, <3>3 DEF Carries
  <2> QED
    BY <2>1, <2>2
<1>12. Served(home', calls')
  BY <1>9, <1>11 DEF Served, Carries
<1> QED
  BY <1>3, <1>7, <1>12, HandlerKeeps

LEMMA DeviceRenamedKeeps ==
  ASSUME IInv, DeviceRenamed
  PROVE  IInv'
<1>1. PICK c \in calls, done \in BOOLEAN :
        LET begun == FetchDevices(CloseRename(home), calls \ {c}, "renamed")
        IN  /\ c.kind = "rename" /\ UNCHANGED loads
            /\ home' = (IF done THEN begun.h ELSE [home EXCEPT !.renaming = FALSE])
            /\ calls' = (IF done THEN begun.C ELSE calls \ {c})
  BY DEF DeviceRenamed
<1>2. IsPage(home) /\ Served(home, calls) /\ \A k \in calls : IsCall(k)
  BY PageFacts
<1>3. \A m \in Marks : Serves(c, m) => m = "renaming"
  BY <1>1, <1>2 DEF IsCall, Serves
<1>4. CASE done
  <2>1. PICK h : h = CloseRename(home)
    OBVIOUS
  <2>2. /\ Beside(home, h)
        /\ \A m \in Marks : On(h, m) => On(home, m) /\ m # "renaming"
    BY <1>2, <2>1 DEF CloseRename, IsPage, Fields, Beside, On
  <2>3. PageKept(h, loads, calls \ {c})
    <3>1. Served(h, calls \ {c})
      BY <1>2, <1>3, <2>2, EndedServes
    <3> QED
      BY <2>2, <3>1, BesideKeeps DEF IInv
  <2>4. PageKept(home', loads, calls')
    BY <1>1, <1>4, <2>1, <2>3, FetchKeeps
  <2> QED
    BY <1>1, <2>4 DEF IInv
<1>5. CASE ~done
  <2>1. home' = [home EXCEPT !.renaming = FALSE] /\ calls' = calls \ {c} /\ UNCHANGED loads
    BY <1>1, <1>5
  <2>2. /\ Beside(home, home')
        /\ \A m \in Marks : On(home', m) => On(home, m) /\ m # "renaming"
    BY <1>2, <2>1 DEF IsPage, Fields, Beside, On
  <2> QED
    BY <1>3, <2>1, <2>2, EndKeeps
<1> QED
  BY <1>4, <1>5

LEMMA AddFailsKeeps ==
  ASSUME IInv, AddFails
  PROVE  IInv'
<1>1. PICK c \in calls : c.kind = "add" /\ calls' = calls \ {c}
  BY DEF AddFails
<1>2. home' = [home EXCEPT !.adding = FALSE] /\ UNCHANGED loads
  BY DEF AddFails
<1>3. /\ Beside(home, home')
      /\ \A m \in Marks : On(home', m) => On(home, m) /\ m # "adding"
  BY <1>2, PageFacts DEF IsPage, Fields, Beside, On
<1>4. \A m \in Marks : Serves(c, m) => m = "adding"
  BY <1>1, PageFacts DEF IsCall, Serves
<1> QED
  BY <1>1, <1>2, <1>3, <1>4, EndKeeps

---------------------------------------------------------------------------
(* Opening a device, and its encoders                                      *)

LEMMA StatusKeeps ==
  ASSUME IInv, StatusArrives \/ StatusMissing
  PROVE  IInv'
<1>1. PICK c \in calls : c.kind = "status" /\ calls' = calls \ {c}
  BY DEF StatusArrives, StatusMissing
<1>2. \A m \in Marks : ~Serves(c, m)
  BY <1>1, PageFacts DEF IsCall, Serves
<1>3. CASE StatusArrives
  <2>1. PICK up : LET h == [home EXCEPT !.up = up]
                  IN  QueuePreviewRefresh(h, loads) \/ (home' = h /\ UNCHANGED loads)
    BY <1>3 DEF StatusArrives
  <2>2. PICK h : h = [home EXCEPT !.up = up]
    OBVIOUS
  <2>3. /\ Beside(home, h)
        /\ \A m \in Marks : On(h, m) => On(home, m)
    BY <2>2, PageFacts DEF IsPage, Fields, Beside, On
  <2>4. Served(h, calls \ {c})
    BY <1>2, <2>3, PageFacts, EndedServes
  <2>5. PageKept(h, loads, calls \ {c})
    BY <2>3, <2>4, BesideKeeps DEF IInv
  <2>6. PageKept(home', loads', calls \ {c})
    BY <2>1, <2>2, <2>5, QueueKeeps
  <2> QED
    BY <1>1, <2>6 DEF IInv
<1>4. CASE StatusMissing
  <2>1. UNCHANGED <<home, loads>>
    BY <1>4 DEF StatusMissing
  <2> QED
    BY <1>1, <1>2, <2>1, EndKeeps, PageFacts
<1> QED
  BY <1>3, <1>4

LEMMA EncodersKeeps ==
  ASSUME IInv, ShowEncoderList \/ ApplySelectedEncoder
  PROVE  IInv'
<1>1. IsPage(home) /\ Served(home, calls) /\ \A c \in calls : IsCall(c)
  BY PageFacts
<1>2. CASE ShowEncoderList
  <2>1. PICK d :
          /\ home' = [home EXCEPT !.encOf = d, !.encOpen = TRUE, !.encList = {},
                                  !.encFetching = TRUE, !.encChoice = NoEncoder]
          /\ calls' = Asked(calls, "encoders", d, "none")
    BY <1>2 DEF ShowEncoderList
  <2>2. /\ Beside(home, home')
        /\ \A m \in Marks : On(home', m) => On(home, m) \/ m = "encFetching"
    BY <1>1, <2>1 DEF IsPage, Fields, Beside, On, Marks
  <2>3. Carries(calls, calls') /\ Call("encoders", d, "none") \in calls'
    BY <1>1, <2>1, AskedCarries
  <2>4. Serves(Call("encoders", d, "none"), "encFetching")
    BY NewCall DEF Serves
  <2>5. Served(home', calls')
    BY <1>1, <2>2, <2>3, <2>4, CarriedServes
  <2> QED
    BY <1>2, <2>2, <2>5, HandlerKeeps DEF ShowEncoderList
<1>3. CASE ApplySelectedEncoder
  <2>1. PICK c : c = [Call("settings", home.encOf, "none") EXCEPT !.got = {home.encChoice}]
    OBVIOUS
  <2>2. /\ calls' = calls \cup {c} /\ UNCHANGED loads
        /\ home' = [home EXCEPT !.applying = TRUE]
    BY <1>3, <2>1 DEF ApplySelectedEncoder
  <2>3. /\ Beside(home, home')
        /\ \A m \in Marks : On(home', m) => On(home, m) \/ m = "applying"
    BY <1>1, <2>2 DEF IsPage, Fields, Beside, On, Marks
  <2>4. IsCall(c) /\ c.kind = "settings"
    BY <2>1, NewCall
  <2>5. Serves(c, "applying")
    BY <2>4 DEF Serves
  <2> QED
    BY <2>2, <2>3, <2>4, <2>5, BeginKeeps
<1> QED
  BY <1>2, <1>3

LEMMA EncodersEndKeeps ==
  ASSUME IInv, EncodersArrive \/ EncodersFail
  PROVE  IInv'
<1>1. PICK c \in calls :
        /\ c.kind = "encoders" /\ calls' = calls \ {c} /\ UNCHANGED loads
        /\ \/ home' = [home EXCEPT !.encList = EncodersOf(c.of), !.encFetching = @ /\ ~c.latest]
           \/ home' = [home EXCEPT !.encFetching = @ /\ ~c.latest]
  BY DEF EncodersArrive, EncodersFail
<1>2. /\ Beside(home, home')
      /\ \A m \in Marks : On(home', m) => On(home, m)
      /\ home'.encFetching => ~c.latest
  BY <1>1, PageFacts DEF IsPage, Fields, Beside, On
<1>3. \A m \in Marks : On(home', m) => ~Serves(c, m)
  BY <1>1, <1>2, PageFacts DEF On, Serves, IsCall
<1> QED
  BY <1>1, <1>2, <1>3, EndKeeps

LEMMA ApplyingKeeps ==
  ASSUME IInv, SettingsRead \/ EncoderApplied \/ ApplyFails
  PROVE  IInv'
<1>1. IsPage(home) /\ Served(home, calls) /\ \A c \in calls : IsCall(c)
  BY PageFacts
<1>2. CASE SettingsRead
  <2>1. PICK c \in calls : /\ c.kind = "settings"
                           /\ calls' = (calls \ {c}) \cup {[c EXCEPT !.kind = "save"]}
    BY <1>2 DEF SettingsRead
  <2>2. PICK d : d = [c EXCEPT !.kind = "save"]
    OBVIOUS
  <2>3. IsCall(d) /\ d.kind = "save" /\ d.then = c.then
    BY <1>1, <2>1, <2>2 DEF IsCall
  <2>4. \A m \in Marks : Serves(c, m) => Serves(d, m)
    BY <2>1, <2>3 DEF Serves
  <2>5. Carries(calls, calls')
    BY <1>1, <2>1, <2>2, <2>3, <2>4, InsteadCarries
  <2>6. UNCHANGED <<home, loads>>
    BY <1>2 DEF SettingsRead
  <2>7. Served(home', calls')
    BY <1>1, <2>5, <2>6, CarriedServes
  <2> QED
    BY <2>6, <2>7, HandlerKeeps, PageFacts
<1>3. CASE EncoderApplied \/ ApplyFails
  <2>1. PICK c \in calls : c.kind \in {"settings", "save"} /\ calls' = calls \ {c}
    BY <1>3 DEF EncoderApplied, ApplyFails
  <2>2. \/ home' = [home EXCEPT !.applying = FALSE, !.encChoice = NoEncoder,
                                !.encTarget = FALSE]
        \/ home' = [home EXCEPT !.applying = FALSE]
    BY <1>3 DEF EncoderApplied, ApplyFails
  <2>3. /\ Beside(home, home')
        /\ \A m \in Marks : On(home', m) => On(home, m) /\ m # "applying"
    BY <1>1, <2>2 DEF IsPage, Fields, Beside, On
  <2>4. \A m \in Marks : Serves(c, m) => m = "applying"
    BY <1>1, <2>1 DEF IsCall, Serves
  <2>5. UNCHANGED loads
    BY <1>3 DEF EncoderApplied, ApplyFails
  <2> QED
    BY <2>1, <2>3, <2>4, <2>5, EndKeeps
<1> QED
  BY <1>2, <1>3

---------------------------------------------------------------------------
(* The view goes, and the invariant                                        *)

LEMMA UnmountKeeps ==
  ASSUME IInv, Unmount
  PROVE  IInv'
<1>1. PICK h, C1, C2, C3, L :
        /\ h = NoneLoading(home)
        /\ C1 = Cancelled(calls, "devices") /\ C2 = Cancelled(C1, "groups")
        /\ C3 = Cancelled(C2, "encoders") /\ calls' = Cancelled(C3, "usb")
        /\ L = CancelPreviewRequests(loads) /\ loads' = RemovePreviewState(L, {})
        /\ home' = [h EXCEPT !.gone = TRUE, !.ticking = FALSE, !.prev = [d \in Dev |-> Fresh]]
  BY DEF Unmount
<1>2. IsPage(home) /\ Served(home, calls) /\ \A c \in calls : IsCall(c)
  BY PageFacts
<1>3. Carries(calls, calls')
  <2>1. Carries(calls, C1) /\ \A c \in C1 : IsCall(c)
    BY <1>1, <1>2, CancelledCarries DEF Carries
  <2>2. Carries(C1, C2) /\ \A c \in C2 : IsCall(c)
    BY <1>1, <2>1, CancelledCarries DEF Carries
  <2>3. Carries(C2, C3) /\ \A c \in C3 : IsCall(c)
    BY <1>1, <2>2, CancelledCarries DEF Carries
  <2>4. Carries(C3, calls')
    BY <1>1, <2>3, CancelledCarries
  <2>5. Carries(calls, C2)
    BY <2>1, <2>2, CarriesOn
  <2>6. Carries(calls, C3)
    BY <2>3, <2>5, CarriesOn
  <2> QED
    BY <2>4, <2>6, CarriesOn
<1>4. /\ DOMAIN h = Fields /\ h.list = home.list /\ h.selection = home.selection
      /\ \A m \in Marks : On(h, m) <=> On(home, m)
  BY <1>1, <1>2, NoneLoadingPage
<1>5. PICK prev : prev = [d \in Dev |-> Fresh]
  OBVIOUS
<1>6. /\ prev \in [Dev -> State]
      /\ \A d \in Dev : prev[d] = Fresh /\ ~prev[d].loading
  BY <1>5 DEF Fresh, State
<1>7. /\ DOMAIN home' = Fields /\ home'.list = home.list /\ home'.selection = home.selection
      /\ home'.prev = prev
      /\ \A m \in Marks : On(home', m) <=> On(home, m)
  <2>1. home' = [h EXCEPT !.gone = TRUE, !.ticking = FALSE, !.prev = prev]
    BY <1>1, <1>5
  <2> QED
    BY <1>4, <2>1 DEF Fields, On
<1>8. Served(home', calls')
  BY <1>2, <1>3, <1>7, CarriedServes
<1>9. ASSUME NEW l \in loads' PROVE IsLoad(l) /\ ~l.attached
  <2>1. PICK k \in L :
          l = [(IF k.entry THEN Aborted(k) ELSE k) EXCEPT !.entry = FALSE, !.attached = FALSE]
    BY <1>1 DEF RemovePreviewState
  <2>2. IsLoad(k)
    <3>1. \A n \in loads : IsLoad(n)
      BY DEF IInv, PageKept, Pictures
    <3> QED
      BY <1>1, <3>1, CancelRetold DEF Retold
  <2>3. PICK n : n = IF k.entry THEN Aborted(k) ELSE k
    OBVIOUS
  <2>4. DOMAIN n = DOMAIN k /\ n.dev = k.dev
    BY <2>2, <2>3 DEF IsLoad, Aborted
  <2>5. l = [n EXCEPT !.entry = FALSE, !.attached = FALSE]
    BY <2>1, <2>3
  <2>6. DOMAIN l = DOMAIN n /\ l.dev = n.dev /\ l.attached = FALSE
    BY <2>2, <2>4, <2>5 DEF IsLoad
  <2> QED
    BY <2>2, <2>4, <2>6 DEF IsLoad
<1>10. Pictures(home', loads')
  BY <1>6, <1>7, <1>9 DEF Pictures
<1>11. IsPage(home') /\ home'.selection \subseteq home'.list
  BY <1>6, <1>7 DEF IsPage, IInv, PageKept
<1> QED
  BY <1>8, <1>10, <1>11 DEF IInv, PageKept

LEMMA InitPage == Init => IInv
<1> SUFFICES ASSUME Init PROVE IInv
  OBVIOUS
<1>1. PICK mode : home = Home0(mode)
  BY DEF Init
<1>2. Fresh \in State /\ Fresh.loading = FALSE
  BY DEF Fresh, State
<1>3. home.prev = [d \in Dev |-> Fresh]
  BY <1>1 DEF Home0
<1>4. DOMAIN home = Fields
  BY <1>1 DEF Home0, Fields
<1>5. /\ home.selection = {} /\ home.adding = FALSE /\ home.renaming = FALSE
      /\ home.usbLoading = FALSE /\ home.encFetching = FALSE /\ home.applying = FALSE
  BY <1>1 DEF Home0
<1>6. IsPage(home)
  BY <1>2, <1>3, <1>4 DEF IsPage
<1>7. Pictures(home, loads)
  BY <1>2, <1>3 DEF Pictures, Init
<1>8. calls = {Call("devices", 0, "none"), Call("groups", 0, "none")}
  BY DEF Init
<1>9. \A c \in calls : IsCall(c)
  BY <1>8, NewCall
<1>10. Serves(Call("devices", 0, "none"), "loading")
  BY NewCall DEF Serves
<1>11. \A m \in Marks : On(home, m) => m = "loading"
  BY <1>5 DEF On
<1>12. Served(home, calls)
  BY <1>8, <1>9, <1>10, <1>11 DEF Served
<1> QED
  BY <1>5, <1>6, <1>7, <1>12 DEF IInv, PageKept

LEMMA StepPage == IInv /\ [Next]_vars => IInv'
<1> SUFFICES ASSUME IInv, [Next]_vars PROVE IInv'
  OBVIOUS
<1>1. CASE UNCHANGED vars
  BY <1>1 DEF IInv, vars
<1>2. CASE PreviewHeaders \/ PreviewEnds \/ Tick
  BY <1>2, PreviewKeeps
<1>3. CASE DevicesHeaders \/ GroupsHeaders \/ UsbHeaders \/ EncodersHeaders
  BY <1>3, HeadersKeeps DEF DevicesHeaders, GroupsHeaders, UsbHeaders, EncodersHeaders
<1>4. CASE CallEnds
  BY <1>4, DevicesArriveKeeps, DevicesFailKeeps, GroupsKeeps, UsbEndsKeeps, EncodersEndKeeps,
     DeletedKeeps, DeviceAddedKeeps, AddFailsKeeps, DeviceRenamedKeeps, StatusKeeps,
     ApplyingKeeps
  DEF CallEnds, DevicesEnd, GroupsEnd
<1>5. CASE \/ ToggleToPreview \/ ToggleToList \/ SelectGroup \/ PrepareGroupDropdown
           \/ ToggleDeviceSelection \/ HandleRefreshDevices
  BY <1>5, ToggleKeeps, ToggleToListKeeps, RefreshKeeps
<1>6. CASE DeleteDevice \/ DeleteSelectedDevices \/ OpenDevice
  BY <1>6, BeginDeleteKeeps
<1>7. CASE \/ OpenAddDeviceDialog \/ SelectUsbDevice \/ OpenRenameDialog \/ CloseRenameDialog
           \/ CloseEncodersDialog \/ SelectEncoder \/ CloseEncoderTargetDialog
  BY <1>7, OpenKeeps
<1>8. CASE CloseAddDeviceDialog \/ FetchUsbDevices
  BY <1>8, UsbKeeps
<1>9. CASE AddDevice \/ SubmitRenameDevice
  BY <1>9, AddKeeps
<1>10. CASE ShowEncoderList \/ ApplySelectedEncoder
  BY <1>10, EncodersKeeps
<1>11. CASE Unmount
  BY <1>11, UnmountKeeps
<1>12. CASE AgentChanges
  BY <1>12 DEF AgentChanges, IInv
<1> QED
  BY <1>1, <1>2, <1>3, <1>4, <1>5, <1>6, <1>7, <1>8, <1>9, <1>10, <1>11, <1>12 DEF Next

\* The invariant holds of every behaviour of the device page.
THEOREM PageAlways == Spec => []IInv
BY InitPage, StepPage, PTL DEF Spec

---------------------------------------------------------------------------
(* The theorems                                                            *)

\* What is selected is always listed, for any devices and any order of answers: a device
\* that a newer list lacks cannot be deleted by the selection it was in.
THEOREM SelectionAlwaysListed == Spec => []SelectionListed
BY PageInv, PageAlways, PTL

\* The load of a picture that outlives its device writes to a state nobody looks at: the
\* device has no state while it is not listed, and a new one when it is listed again.
THEOREM GoneAlwaysGone == Spec => []GoneIsGone
BY PageInv, PageAlways, PTL

\* Whatever calls supersede, abort and outlive one another, each spinner that is on has a
\* call that will end it, and each picture marked as loading a load that will.
THEOREM NothingEverStuck == Spec => []NothingStuck
BY PageInv, PageAlways, PTL

=============================================================================
