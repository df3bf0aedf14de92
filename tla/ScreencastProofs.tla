------------------------- MODULE ScreencastProofs -------------------------
(***************************************************************************)
(* Proofs about Screencast, for any tabs, attempts and moves of a user who *)
(* is Patient.                                                             *)
(*                                                                         *)
(* What the view holds, and what is kept for a tab, was made for that tab; *)
(* nothing asks for another tab than the active one; and while the view is *)
(* away, or comes back and does not know yet which tab it will show,       *)
(* nothing is under way.  The functions of the page are shown to keep this,*)
(* one by one, and then the handlers, which are composed of them.          *)
(***************************************************************************)
EXTENDS Screencast, SequenceTheorems, TLAPS

---------------------------------------------------------------------------
(* Types                                                                   *)

Number == 0..MaxAttempts
MaybeTab == Tab \cup {None}

Peer ==
  [state : {"none", "new", "connecting", "connected", "disconnected", "failed", "closed"},
   by : {"nobody", "view", "background"}, epoch : Nat, tab : MaybeTab, stable : BOOLEAN]

Sock ==
  [state : {"none", "connecting", "open", "closed"},
   by : {"nobody", "view", "background"}, epoch : Nat, tab : MaybeTab, stable : BOOLEAN]

Kept == [pc : Number, ws : Number, session : Number, device : MaybeTab]

Page ==
  [tabs : SUBSET Tab, active : MaybeTab, shown : BOOLEAN, saved : [Tab -> Number],
   epoch : Nat, stamp : Nat, pc : Number, ws : Number, session : Number,
   connected : BOOLEAN, connecting : BOOLEAN,
   inflight : BOOLEAN, target : MaybeTab, suppress : BOOLEAN, reconnect : BOOLEAN,
   restarting : BOOLEAN, fallback : BOOLEAN, recovery : Nat,
   snap : [Tab -> Kept], beats : SUBSET (Tab \X Attempt), doom : SUBSET (Attempt \X Tab \X Nat),
   peer : [Attempt -> Peer], sock : [Attempt -> Sock]]

Try ==
  [tab : Tab, device : Tab, ask : Number, epoch : Nat,
   phase : {"ticket", "socket", "config", "over"}, offered : Number]

---------------------------------------------------------------------------
(* The invariant                                                           *)

\* Attempt n, if there is one, was made for tab k.
Of(n, k, t) == n # 0 => n \in DOMAIN t /\ t[n].tab = k

\* Everything the page knows of a tab was made for it.
Owned(p, t) ==
  /\ Of(p.pc, p.active, t) /\ Of(p.ws, p.active, t) /\ Of(p.session, p.active, t)
  /\ \A k \in Tab : /\ Of(p.saved[k], k, t)
                    /\ Of(p.snap[k].pc, k, t) /\ Of(p.snap[k].ws, k, t)
                    /\ Of(p.snap[k].session, k, t)

\* A connection that is not closed is kept for tab k.
Streams(p, k) == p.snap[k].pc # 0 /\ p.peer[p.snap[k].pc].state # "closed"

OneStreams(p) ==
  \A k \in Tab : Streams(p, k) =>
    /\ p.pc # 0 => k = p.active
    /\ \A l \in Tab : Streams(p, l) => k = l

\* Handlers know the tab they are for.
HandlersKnow(p) ==
  /\ p.ws # 0 /\ p.sock[p.ws].by = "view" => p.sock[p.ws].tab = p.active
  /\ \A n \in Attempt : p.peer[n].by = "background" => p.peer[n].tab \in Tab

Held(p, t) ==
  /\ p \in Page
  /\ Owned(p, t) /\ HandlersKnow(p)
  /\ p.connected => p.pc # 0

Sound(p, t) == Held(p, t) /\ OneStreams(p)

\* The view holds nothing, and nothing is due.
Quiet(p) ==
  /\ p.pc = 0 /\ p.ws = 0 /\ p.session = 0
  /\ ~p.reconnect /\ ~p.connecting /\ ~p.fallback /\ p.recovery = 0

Waits(t, n) == t[n].phase \in {"ticket", "config"}

\* An attempt asks for what it is made for, and as long as it waits this is the active tab.
Asking(t, active) ==
  /\ t \in Seq(Try) /\ Len(t) <= MaxAttempts
  /\ \A n \in DOMAIN t :
       /\ t[n].device = t[n].tab
       /\ Of(t[n].ask, t[n].tab, t)
       /\ Waits(t, n) => t[n].tab = active

NobodyWaits(t) == \A n \in DOMAIN t : ~Waits(t, n)

Coming == <<"return", None>>

\* A view that is away has nothing under way, nor has one that comes back.
Away ==
  /\ ~page.shown => jobs = {}
  /\ Coming \in jobs => jobs = {Coming}
  /\ ~page.shown \/ Coming \in jobs => Quiet(page) /\ NobodyWaits(tries)

\* The tab that is switched to is the active one.
Switching == \A k \in Tab : <<"switch", k>> \in jobs => k = page.active

IInv ==
  /\ Sound(page, tries)
  /\ Asking(tries, page.active)
  /\ Away /\ Switching
  /\ jobs \subseteq Job

---------------------------------------------------------------------------
(* The functions of the page                                               *)

\* What q keeps for the tabs of K, and which of them stream, compared with p.
Emptied(q, K) == \A k \in K : q.snap[k].pc = 0
NoMoreStreams(p, q, K) == \A k \in K : Streams(q, k) => Streams(p, k)

\* At most what is kept, its connections and the heartbeats differ.
Alike(p, q) ==
  /\ q.tabs = p.tabs /\ q.active = p.active /\ q.shown = p.shown /\ q.saved = p.saved
  /\ q.epoch = p.epoch /\ q.stamp = p.stamp
  /\ q.pc = p.pc /\ q.ws = p.ws /\ q.session = p.session
  /\ q.connected = p.connected /\ q.connecting = p.connecting
  /\ q.inflight = p.inflight /\ q.target = p.target /\ q.suppress = p.suppress
  /\ q.reconnect = p.reconnect /\ q.restarting = p.restarting
  /\ q.fallback = p.fallback /\ q.recovery = p.recovery

LEMMA Values ==
  /\ None \in MaybeTab /\ 0 \in Number /\ 0 \in Nat
  /\ FALSE \in BOOLEAN /\ TRUE \in BOOLEAN
BY ScreencastAssumption DEF MaybeTab, Number

\* A field of the page may be given any value of its type.
LEMMA PageFields ==
  ASSUME NEW p \in Page
  PROVE  /\ \A v \in BOOLEAN : /\ [p EXCEPT !.shown = v] \in Page
                               /\ [p EXCEPT !.connected = v] \in Page
                               /\ [p EXCEPT !.connecting = v] \in Page
                               /\ [p EXCEPT !.inflight = v] \in Page
                               /\ [p EXCEPT !.suppress = v] \in Page
                               /\ [p EXCEPT !.reconnect = v] \in Page
                               /\ [p EXCEPT !.restarting = v] \in Page
                               /\ [p EXCEPT !.fallback = v] \in Page
         /\ \A v \in MaybeTab : /\ [p EXCEPT !.active = v] \in Page
                                /\ [p EXCEPT !.target = v] \in Page
         /\ \A v \in Number : /\ [p EXCEPT !.pc = v] \in Page
                              /\ [p EXCEPT !.ws = v] \in Page
                              /\ [p EXCEPT !.session = v] \in Page
         /\ \A v \in Nat : /\ [p EXCEPT !.epoch = v] \in Page
                           /\ [p EXCEPT !.stamp = v] \in Page
                           /\ [p EXCEPT !.recovery = v] \in Page
         /\ \A v \in SUBSET Tab : [p EXCEPT !.tabs = v] \in Page
         /\ \A v \in [Tab -> Number] : [p EXCEPT !.saved = v] \in Page
         /\ \A v \in [Tab -> Kept] : [p EXCEPT !.snap = v] \in Page
         /\ \A v \in SUBSET (Tab \X Attempt) : [p EXCEPT !.beats = v] \in Page
         /\ \A v \in SUBSET (Attempt \X Tab \X Nat) : [p EXCEPT !.doom = v] \in Page
         /\ \A v \in [Attempt -> Peer] : [p EXCEPT !.peer = v] \in Page
         /\ \A v \in [Attempt -> Sock] : [p EXCEPT !.sock = v] \in Page
<1>1. ASSUME NEW v \in BOOLEAN
      PROVE  /\ [p EXCEPT !.shown = v] \in Page
             /\ [p EXCEPT !.connected = v] \in Page
             /\ [p EXCEPT !.connecting = v] \in Page
             /\ [p EXCEPT !.inflight = v] \in Page
             /\ [p EXCEPT !.suppress = v] \in Page
             /\ [p EXCEPT !.reconnect = v] \in Page
             /\ [p EXCEPT !.restarting = v] \in Page
             /\ [p EXCEPT !.fallback = v] \in Page
  <2>1. [p EXCEPT !.shown = v] \in Page
    BY DEF Page
  <2>2. [p EXCEPT !.connected = v] \in Page
    BY DEF Page
  <2>3. [p EXCEPT !.connecting = v] \in Page
    BY DEF Page
  <2>4. [p EXCEPT !.inflight = v] \in Page
    BY DEF Page
  <2>5. [p EXCEPT !.suppress = v] \in Page
    BY DEF Page
  <2>6. [p EXCEPT !.reconnect = v] \in Page
    BY DEF Page
  <2>7. [p EXCEPT !.restarting = v] \in Page
    BY DEF Page
  <2>8. [p EXCEPT !.fallback = v] \in Page
    BY DEF Page
  <2>9. QED
    BY <2>1, <2>2, <2>3, <2>4, <2>5, <2>6, <2>7, <2>8
<1>2. ASSUME NEW v \in MaybeTab
      PROVE  /\ [p EXCEPT !.active = v] \in Page
             /\ [p EXCEPT !.target = v] \in Page
  <2>1. [p EXCEPT !.active = v] \in Page
    BY DEF Page
  <2>2. [p EXCEPT !.target = v] \in Page
    BY DEF Page
  <2>3. QED
    BY <2>1, <2>2
<1>3. ASSUME NEW v \in Number
      PROVE  /\ [p EXCEPT !.pc = v] \in Page
             /\ [p EXCEPT !.ws = v] \in Page
             /\ [p EXCEPT !.session = v] \in Page
  <2>1. [p EXCEPT !.pc = v] \in Page
    BY DEF Page
  <2>2. [p EXCEPT !.ws = v] \in Page
    BY DEF Page
  <2>3. [p EXCEPT !.session = v] \in Page
    BY DEF Page
  <2>4. QED
    BY <2>1, <2>2, <2>3
<1>4. ASSUME NEW v \in Nat
      PROVE  /\ [p EXCEPT !.epoch = v] \in Page
             /\ [p EXCEPT !.stamp = v] \in Page
             /\ [p EXCEPT !.recovery = v] \in Page
  <2>1. [p EXCEPT !.epoch = v] \in Page
    BY DEF Page
  <2>2. [p EXCEPT !.stamp = v] \in Page
    BY DEF Page
  <2>3. [p EXCEPT !.recovery = v] \in Page
    BY DEF Page
  <2>4. QED
    BY <2>1, <2>2, <2>3
<1>5. ASSUME NEW v \in SUBSET Tab PROVE [p EXCEPT !.tabs = v] \in Page
  BY DEF Page
<1>6. ASSUME NEW v \in [Tab -> Number] PROVE [p EXCEPT !.saved = v] \in Page
  BY DEF Page
<1>7. ASSUME NEW v \in [Tab -> Kept] PROVE [p EXCEPT !.snap = v] \in Page
  BY DEF Page
<1>8. ASSUME NEW v \in SUBSET (Tab \X Attempt) PROVE [p EXCEPT !.beats = v] \in Page
  BY DEF Page
<1>9. ASSUME NEW v \in SUBSET (Attempt \X Tab \X Nat) PROVE [p EXCEPT !.doom = v] \in Page
  BY DEF Page
<1>10. ASSUME NEW v \in [Attempt -> Peer] PROVE [p EXCEPT !.peer = v] \in Page
  BY DEF Page
<1>11. ASSUME NEW v \in [Attempt -> Sock] PROVE [p EXCEPT !.sock = v] \in Page
  BY DEF Page
<1>12. QED
  BY <1>1, <1>2, <1>3, <1>4, <1>5, <1>6, <1>7, <1>8, <1>9, <1>10, <1>11

LEMMA DisposeHeld ==
  ASSUME NEW p, NEW t, Held(p, t), NEW K \in SUBSET Tab, NEW q, q = Dispose(p, K)
  PROVE  /\ Held(q, t)
         /\ NoMoreStreams(p, q, Tab)
         /\ Alike(p, q) /\ Emptied(q, K)
<1>1. p \in Page
  BY DEF Held
<1>2. /\ Dead("closed") \in Peer /\ Dead("closed") \in Sock
      /\ Dead("closed").by = "nobody" /\ Dead("closed").state = "closed"
      /\ Nothing \in Kept /\ Nothing.pc = 0 /\ Nothing.ws = 0 /\ Nothing.session = 0
  BY ScreencastAssumption DEF Dead, Peer, Sock, Kept, Nothing, Number, MaybeTab
<1>3. /\ q.peer = [n \in Attempt |-> IF n \in {p.snap[k].pc : k \in {k \in K : p.snap[k].pc # 0}}
                                     THEN Dead("closed") ELSE p.peer[n]]
      /\ q.sock = [n \in Attempt |-> IF n \in {p.snap[k].ws : k \in {k \in K : p.snap[k].pc # 0}}
                                     THEN Dead("closed") ELSE p.sock[n]]
      /\ q.snap = [k \in Tab |-> IF k \in K /\ p.snap[k].pc # 0 THEN Nothing ELSE p.snap[k]]
  BY <1>1 DEF Dispose, Page
<1>4. q.peer \in [Attempt -> Peer] /\ q.sock \in [Attempt -> Sock] /\ q.snap \in [Tab -> Kept]
  BY <1>1, <1>2, <1>3 DEF Page
<1>5. /\ \A n \in Attempt : /\ q.peer[n] = Dead("closed") \/ q.peer[n] = p.peer[n]
                            /\ q.sock[n] = Dead("closed") \/ q.sock[n] = p.sock[n]
      /\ \A k \in Tab : q.snap[k] = Nothing \/ q.snap[k] = p.snap[k]
      /\ \A k \in K : q.snap[k] = Nothing \/ p.snap[k].pc = 0
  BY <1>3
<1>6. q \in Page /\ Alike(p, q)
  <2>1. PICK peer \in [Attempt -> Peer], sock \in [Attempt -> Sock], snap \in [Tab -> Kept] :
          peer = q.peer /\ sock = q.sock /\ snap = q.snap
    BY <1>4
  <2>2. q = [p EXCEPT !.peer = peer, !.sock = sock, !.snap = snap]
    BY <1>1, <2>1 DEF Dispose, Page
  <2>3. q \in Page
    <3>1. [p EXCEPT !.peer = peer, !.sock = sock, !.snap = snap] \in Page
      BY <1>1, PageFields
    <3>2. QED
      BY <2>2, <3>1
  <2>4. Alike(p, q)
    BY <1>1, <2>2 DEF Page, Alike
  <2>5. QED
    BY <2>3, <2>4
<1>7. \A k \in Tab : Of(q.snap[k].pc, k, t) /\ Of(q.snap[k].ws, k, t) /\ Of(q.snap[k].session, k, t)
  <2>1. ASSUME NEW k \in Tab
        PROVE  Of(q.snap[k].pc, k, t) /\ Of(q.snap[k].ws, k, t) /\ Of(q.snap[k].session, k, t)
    <3>1. Of(p.snap[k].pc, k, t) /\ Of(p.snap[k].ws, k, t) /\ Of(p.snap[k].session, k, t)
      BY DEF Held, Owned
    <3>2. q.snap[k] = Nothing \/ q.snap[k] = p.snap[k]
      BY <1>5
    <3>3. QED
      BY <1>2, <3>1, <3>2 DEF Of
  <2>2. QED
    BY <2>1
<1>8. NoMoreStreams(p, q, Tab)
  <2>1. ASSUME NEW k \in Tab, Streams(q, k) PROVE Streams(p, k)
    <3>1. q.snap[k] = p.snap[k] /\ p.snap[k].pc # 0
      BY <1>2, <1>5, <2>1 DEF Streams
    <3>2. p.snap[k].pc \in Attempt
      BY <1>1, <3>1 DEF Page, Kept, Number, Attempt
    <3>3. q.peer[p.snap[k].pc] = p.peer[p.snap[k].pc]
      <4>1. q.peer[p.snap[k].pc].state # "closed"
        BY <2>1, <3>1 DEF Streams
      <4>2. QED
        BY <1>2, <1>5, <3>2, <4>1
    <3>4. QED
      BY <2>1, <3>1, <3>3 DEF Streams
  <2>2. QED
    BY <2>1 DEF NoMoreStreams
<1>9. HandlersKnow(q)
  <2>1. q.ws = p.ws /\ q.active = p.active
    BY <1>6 DEF Alike
  <2>2. p.ws # 0 => p.ws \in Attempt
    BY <1>1 DEF Page, Number, Attempt
  <2>3. HandlersKnow(p)
    BY DEF Held
  <2>4. q.ws # 0 /\ q.sock[q.ws].by = "view" => q.sock[q.ws].tab = q.active
    BY <1>2, <1>5, <2>1, <2>2, <2>3 DEF HandlersKnow
  <2>5. \A n \in Attempt : q.peer[n].by = "background" => q.peer[n].tab \in Tab
    BY <1>2, <1>5, <2>3 DEF HandlersKnow
  <2>6. QED
    BY <2>4, <2>5 DEF HandlersKnow
<1>10. Held(q, t)
  BY <1>6, <1>7, <1>9 DEF Held, Owned, Alike
<1>11. Emptied(q, K)
  <2>1. ASSUME NEW k \in K PROVE q.snap[k].pc = 0
    <3>1. k \in Tab
      OBVIOUS
    <3>2. QED
      BY <1>2, <1>5, <3>1
  <2>2. QED
    BY <2>1 DEF Emptied
<1>12. QED
  BY <1>6, <1>8, <1>10, <1>11

LEMMA DisposeSound ==
  ASSUME NEW p, NEW t, Sound(p, t), NEW K \in SUBSET Tab, NEW q, q = Dispose(p, K)
  PROVE  /\ Sound(q, t)
         /\ Alike(p, q) /\ Emptied(q, K)
<1>1. /\ Held(q, t)
      /\ NoMoreStreams(p, q, Tab)
      /\ Alike(p, q) /\ Emptied(q, K)
  BY DisposeHeld DEF Sound
<1>2. QED
  BY <1>1 DEF Sound, OneStreams, NoMoreStreams, Alike

\* Only what is named differs, and it keeps its type.
LEMMA ClearPersistedSound ==
  ASSUME NEW p, NEW t, Sound(p, t), NEW k \in MaybeTab, NEW q, q = ClearPersisted(p, k)
  PROVE  Sound(q, t) /\ Alike(p, q)
<1>1. p \in Page
  BY DEF Sound, Held
<1>2. CASE k = None
  BY <1>2 DEF ClearPersisted, Alike
<1>3. CASE k # None
  <2>1. k \in Tab /\ q = [p EXCEPT !.snap[k] = Nothing]
    BY <1>3 DEF ClearPersisted, MaybeTab
  <2>2. Nothing \in Kept /\ Nothing.pc = 0 /\ Nothing.ws = 0 /\ Nothing.session = 0
    BY ScreencastAssumption DEF Kept, Nothing, Number, MaybeTab
  <2>3. /\ q.snap = [p.snap EXCEPT ![k] = Nothing] /\ q = [p EXCEPT !.snap = q.snap]
    BY <1>1, <2>1 DEF Page
  <2>4. q \in Page
    <3>1. q.snap \in [Tab -> Kept]
      BY <1>1, <2>1, <2>2, <2>3 DEF Page
    <3>2. QED
      BY <1>1, <2>3, <3>1 DEF Page
  <2>5. /\ q.pc = p.pc /\ q.ws = p.ws /\ q.session = p.session /\ q.active = p.active
        /\ q.saved = p.saved /\ q.connected = p.connected /\ q.peer = p.peer /\ q.sock = p.sock
    BY <1>1, <2>3 DEF Page
  <2>6. \A l \in Tab : q.snap[l] = Nothing \/ q.snap[l] = p.snap[l]
    BY <1>1, <2>3 DEF Page
  <2>7. Owned(q, t)
    <3>1. ASSUME NEW l \in Tab
          PROVE  Of(q.snap[l].pc, l, t) /\ Of(q.snap[l].ws, l, t) /\ Of(q.snap[l].session, l, t)
      BY <2>2, <2>6 DEF Sound, Held, Owned, Of
    <3>2. QED
      BY <2>5, <3>1 DEF Sound, Held, Owned
  <2>8. \A l \in Tab : Streams(q, l) => Streams(p, l)
    BY <2>2, <2>5, <2>6 DEF Streams
  <2>9. HandlersKnow(q)
    BY <2>5 DEF Sound, Held, HandlersKnow
  <2>10. QED
    <3>1. Alike(p, q)
      BY <1>1, <2>3 DEF Alike, Page
    <3>2. QED
      BY <2>4, <2>5, <2>7, <2>8, <2>9, <3>1 DEF Sound, Held, OneStreams
<1>4. QED
  BY <1>2, <1>3

\* At most the flags and timers that have no part in Sound differ.
Flags(p, q) ==
  /\ q.pc = p.pc /\ q.ws = p.ws /\ q.session = p.session /\ q.active = p.active
  /\ q.saved = p.saved /\ q.connected = p.connected /\ q.peer = p.peer /\ q.sock = p.sock
  /\ q.snap = p.snap

LEMMA FlagsSound ==
  ASSUME NEW p, NEW t, Sound(p, t), NEW q \in Page, Flags(p, q)
  PROVE  Sound(q, t)
<1>1. \A k \in Tab : Streams(q, k) <=> Streams(p, k)
  BY DEF Flags, Streams
<1>2. QED
  BY <1>1 DEF Flags, Sound, Held, Owned, OneStreams, HandlersKnow

LEMMA ReleaseTargetType ==
  ASSUME NEW p \in Page, NEW k \in MaybeTab
  PROVE  ReleaseTarget(p, k)[1] \in MaybeTab /\ ReleaseTarget(p, k)[2] \in Number
<1>1. (IF k = None THEN Nothing ELSE p.snap[k]) \in Kept
  BY ScreencastAssumption DEF Kept, Nothing, Number, MaybeTab, Page
<1>2. QED
  BY <1>1 DEF ReleaseTarget, Page, Kept

LEMMA StopHeartbeatSound ==
  ASSUME NEW p, NEW t, Sound(p, t), NEW k \in MaybeTab,
         NEW q, q = StopHeartbeat(p, ReleaseTarget(p, k))
  PROVE  Sound(q, t) /\ Alike(p, q) /\ Flags(p, q)
<1>1. q = [p EXCEPT !.beats = q.beats] /\ q.beats \in SUBSET (Tab \X Attempt) /\ p \in Page
  BY DEF StopHeartbeat, Sound, Held, Page
<1>2. q \in Page /\ Flags(p, q) /\ Alike(p, q)
  BY <1>1 DEF Page, Flags, Alike
<1>3. QED
  BY <1>2, FlagsSound

LEMMA StartHeartbeatSound ==
  ASSUME NEW p, NEW t, Sound(p, t), NEW q, q = StartHeartbeat(p)
  PROVE  Sound(q, t) /\ Alike(p, q) /\ Flags(p, q)
<1>1. p \in Page
  BY DEF Sound, Held
<1>2. p.active # None /\ p.session # 0 => <<p.active, p.session>> \in Tab \X Attempt
  BY <1>1, ScreencastAssumption DEF Page, MaybeTab, Number, Attempt
<1>3. q = [p EXCEPT !.beats = q.beats] /\ q.beats \in SUBSET (Tab \X Attempt)
  BY <1>1, <1>2 DEF StartHeartbeat, Page
<1>4. q \in Page /\ Flags(p, q) /\ Alike(p, q)
  BY <1>1, <1>3 DEF Page, Flags, Alike
<1>5. QED
  BY <1>4, FlagsSound

\* Nobody keeps what the view holds but for the active tab.
LEMMA RememberedHeld ==
  ASSUME NEW p, NEW t, Held(p, t), p.pc # 0, p.active # None,
         NEW q, NEW peer \in Peer,
         peer.by = "background" => peer.tab \in Tab,
         q = [p EXCEPT
               !.snap[p.active] = [pc |-> p.pc, ws |-> p.ws, session |-> p.session,
                                   device |-> p.active],
               !.peer[p.pc] = peer]
  PROVE  /\ Held(q, t)
         /\ Alike(p, q)
         /\ NoMoreStreams(p, q, Tab \ {p.active})
<1> DEFINE kept == [pc |-> p.pc, ws |-> p.ws, session |-> p.session, device |-> p.active]
<1>1. p \in Page /\ p.pc \in Attempt /\ p.active \in Tab
  <2>1. p \in Page /\ p.pc \in Number /\ p.active \in MaybeTab
    BY DEF Held, Page
  <2>2. QED
    BY <2>1 DEF Number, Attempt, MaybeTab
<1>2. kept \in Kept /\ kept.pc = p.pc /\ kept.ws = p.ws /\ kept.session = p.session
  <2>1. p.pc \in Number /\ p.ws \in Number /\ p.session \in Number /\ p.active \in MaybeTab
    BY <1>1 DEF Page
  <2>2. QED
    BY <2>1 DEF Kept
<1>3. /\ q.snap = [p.snap EXCEPT ![p.active] = kept]
      /\ q.peer = [p.peer EXCEPT ![p.pc] = peer]
  BY <1>1 DEF Page
<1> HIDE DEF kept
<1>4. q.snap \in [Tab -> Kept] /\ q.peer \in [Attempt -> Peer]
  BY <1>1, <1>2, <1>3 DEF Page
<1>5. q \in Page
  <2>1. PICK peers \in [Attempt -> Peer], snap \in [Tab -> Kept] : peers = q.peer /\ snap = q.snap
    BY <1>4
  <2>2. q = [p EXCEPT !.peer = peers, !.snap = snap]
    BY <1>1, <1>3, <2>1 DEF Page, kept
  <2>3. [p EXCEPT !.peer = peers, !.snap = snap] \in Page
    BY <1>1, PageFields
  <2>4. QED
    BY <2>2, <2>3
<1>6. /\ q.pc = p.pc /\ q.ws = p.ws /\ q.session = p.session /\ q.active = p.active
      /\ q.saved = p.saved /\ q.connected = p.connected /\ q.sock = p.sock
  BY <1>1, <1>3 DEF Page
<1>7. Owned(q, t)
  <2>1. ASSUME NEW k \in Tab
        PROVE  Of(q.snap[k].pc, k, t) /\ Of(q.snap[k].ws, k, t) /\ Of(q.snap[k].session, k, t)
    <3>1. CASE k = p.active
      <4>1. q.snap[k] = kept
        BY <1>1, <1>3, <3>1 DEF Page
      <4>2. QED
        BY <1>2, <3>1, <4>1 DEF Held, Owned
    <3>2. CASE k # p.active
      <4>1. q.snap[k] = p.snap[k]
        BY <1>1, <1>3, <3>2 DEF Page
      <4>2. QED
        BY <4>1 DEF Held, Owned
    <3>3. QED
      BY <3>1, <3>2
  <2>2. QED
    BY <1>6, <2>1 DEF Held, Owned
<1>8. \A n \in Attempt : q.peer[n] = peer \/ q.peer[n] = p.peer[n]
  BY <1>1, <1>3 DEF Page
<1>9. HandlersKnow(q)
  BY <1>6, <1>8 DEF Held, HandlersKnow
<1>10. Held(q, t)
  BY <1>5, <1>6, <1>7, <1>9 DEF Held
<1>11. Alike(p, q)
  BY <1>1, <1>3 DEF Page, Alike
<1>12. ASSUME NEW k \in Tab \ {p.active}, Streams(q, k) PROVE Streams(p, k)
  <2>1. q.snap[k] = p.snap[k]
    BY <1>1, <1>3 DEF Page
  <2>2. p.snap[k].pc # p.pc
    BY <1>12, <2>1, <1>1 DEF Held, Owned, Of, Streams
  <2>3. p.snap[k].pc \in Attempt
    <3>1. p.snap[k].pc # 0 /\ p.snap[k].pc \in Number
      BY <1>1, <1>12, <2>1 DEF Streams, Page, Kept
    <3>2. QED
      BY <3>1 DEF Number, Attempt
  <2>4. q.peer[p.snap[k].pc] = p.peer[p.snap[k].pc]
    BY <1>1, <1>3, <2>2, <2>3 DEF Page
  <2>5. QED
    BY <1>12, <2>1, <2>4 DEF Streams
<1>13. QED
  BY <1>10, <1>11, <1>12 DEF NoMoreStreams

\* What is kept for another tab can be disposed of.
LEMMA OthersSound ==
  ASSUME NEW p, NEW t, Held(p, t), p.pc # 0, p.active # None,
         NEW q, q = Dispose(p, Tab \ {p.active})
  PROVE  Sound(q, t) /\ Alike(p, q)
<1>1. PICK J \in SUBSET Tab : J = Tab \ {p.active}
  OBVIOUS
<1>2. Held(q, t) /\ Alike(p, q) /\ Emptied(q, J)
  <2>1. q = Dispose(p, J)
    BY <1>1
  <2>2. QED
    BY <2>1, DisposeHeld
<1>3. ASSUME NEW k \in Tab, Streams(q, k) PROVE k = p.active
  BY <1>1, <1>2, <1>3 DEF Streams, Emptied
<1>4. q.active = p.active
  BY <1>2 DEF Alike
<1>5. OneStreams(q)
  BY <1>3, <1>4 DEF OneStreams
<1>6. QED
  BY <1>2, <1>5 DEF Sound

\* persist of what the view holds, for the active tab: the peer connection becomes
\* "peer", and with "others" whatever was kept for another tab goes.
LEMMA RememberedSound ==
  ASSUME NEW p, NEW t, Held(p, t), p.pc # 0, p.active # None,
         NEW others \in BOOLEAN, OneStreams(p) \/ others,
         NEW peer \in Peer, peer.by = "background" => peer.tab \in Tab,
         NEW kept,
         kept = [p EXCEPT
                  !.snap[p.active] = [pc |-> p.pc, ws |-> p.ws, session |-> p.session,
                                      device |-> p.active],
                  !.peer[p.pc] = peer],
         NEW q, q = IF others THEN Dispose(kept, Tab \ {p.active}) ELSE kept
  PROVE  Sound(q, t) /\ Alike(p, q)
<1>1. /\ Held(kept, t) /\ Alike(p, kept)
      /\ NoMoreStreams(p, kept, Tab \ {p.active})
  BY RememberedHeld
<1>2. kept.pc = p.pc /\ kept.active = p.active
  BY <1>1 DEF Alike
<1>3. CASE ~others
  <2>1. OneStreams(kept)
    BY <1>1, <1>2, <1>3 DEF OneStreams, NoMoreStreams
  <2>2. QED
    BY <1>1, <1>3, <2>1 DEF Sound
<1>4. CASE others
  <2>1. Sound(q, t) /\ Alike(kept, q)
    <3>1. q = Dispose(kept, Tab \ {kept.active}) /\ kept.pc # 0 /\ kept.active # None
      BY <1>2, <1>4
    <3>2. QED
      BY <1>1, <3>1, OthersSound
  <2>2. Alike(p, q)
    BY <1>1, <2>1 DEF Alike
  <2>3. QED
    BY <2>1, <2>2
<1>5. QED
  BY <1>3, <1>4

LEMMA PersistSound ==
  ASSUME NEW p, NEW t, Held(p, t), NEW k \in {None, p.active},
         NEW others \in BOOLEAN, NEW background \in BOOLEAN,
         OneStreams(p) \/ (others /\ p.pc # 0 /\ k # None),
         NEW q, q = Persist(p, k, others, background)
  PROVE  Sound(q, t) /\ Alike(p, q)
<1>1. p \in Page
  BY DEF Held
<1>2. CASE p.pc = 0 \/ k = None
  <2>1. q = p /\ OneStreams(p)
    BY <1>2 DEF Persist
  <2>2. QED
    BY <2>1 DEF Sound, Alike
<1>3. CASE p.pc # 0 /\ k # None
  <2> DEFINE peer == IF background
                     THEN [p.peer[p.pc] EXCEPT !.by = "background", !.tab = k, !.epoch = p.stamp]
                     ELSE p.peer[p.pc]
             kept == [p EXCEPT
               !.snap[p.active] = [pc |-> p.pc, ws |-> p.ws, session |-> p.session,
                                   device |-> p.active],
               !.peer[p.pc] = peer]
  <2>1. k = p.active /\ k \in Tab /\ p.pc \in Attempt
    BY <1>1, <1>3 DEF Page, Number, Attempt, MaybeTab
  <2>2. peer \in Peer /\ (peer.by = "background" => peer.tab \in Tab)
    <3>1. p.peer[p.pc] \in Peer /\ p.stamp \in Nat
      BY <1>1, <2>1 DEF Page
    <3>2. p.peer[p.pc].by = "background" => p.peer[p.pc].tab \in Tab
      BY <2>1 DEF Held, HandlersKnow
    <3>3. QED
      BY <2>1, <3>1, <3>2 DEF Peer, MaybeTab
  <2>3. q = IF others THEN Dispose(kept, Tab \ {p.active}) ELSE kept
    BY <1>1, <1>3, <2>1 DEF Persist, Page
  <2> HIDE DEF peer
  <2>4. kept = [p EXCEPT
                 !.snap[p.active] = [pc |-> p.pc, ws |-> p.ws, session |-> p.session,
                                     device |-> p.active],
                 !.peer[p.pc] = peer]
    OBVIOUS
  <2> HIDE DEF kept
  <2>5. OneStreams(p) \/ others
    BY <1>3
  <2>6. QED
    BY <1>3, <2>1, <2>2, <2>3, <2>4, <2>5, RememberedSound
<1>4. QED
  BY <1>2, <1>3

LEMMA QuietedSound ==
  ASSUME NEW p, NEW t, Sound(p, t), NEW q, q = Quieted(p)
  PROVE  /\ Sound(q, t) /\ Flags(p, q)
         /\ q.shown = p.shown /\ q.tabs = p.tabs
<1>1. p \in Page
  BY DEF Sound, Held
<1>2. q = [p EXCEPT !.inflight = FALSE, !.target = None, !.reconnect = FALSE,
                    !.restarting = FALSE, !.fallback = FALSE, !.recovery = 0]
  BY DEF Quieted
<1>3. q \in Page
  <2>1. [p EXCEPT !.inflight = FALSE, !.target = None, !.reconnect = FALSE,
                  !.restarting = FALSE, !.fallback = FALSE, !.recovery = 0] \in Page
    BY <1>1, Values, PageFields
  <2>2. QED
    BY <1>2, <2>1
<1>4. Flags(p, q) /\ q.shown = p.shown /\ q.tabs = p.tabs
  BY <1>1, <1>2 DEF Flags, Page
<1>5. QED
  BY <1>3, <1>4, FlagsSound

\* Once detached the view holds nothing and nothing is due.
LEMMA DetachSound ==
  ASSUME NEW p, NEW t, Sound(p, t), NEW q, q = DetachFromView(p)
  PROVE  /\ Sound(q, t) /\ Quiet(q) /\ ~q.connected
         /\ q.active = p.active /\ q.shown = p.shown /\ q.tabs = p.tabs
         /\ q.saved = p.saved /\ q.snap = p.snap /\ q.stamp = p.stamp
         /\ q.suppress = p.suppress
<1>1. p \in Page
  BY DEF Sound, Held
<1>2. q = [p EXCEPT !.inflight = FALSE, !.target = None, !.reconnect = FALSE,
                    !.restarting = FALSE, !.fallback = FALSE, !.recovery = 0,
                    !.epoch = 0, !.session = 0, !.pc = 0, !.ws = 0,
                    !.connected = FALSE, !.connecting = FALSE]
  BY <1>1 DEF DetachFromView, Quieted, Page
<1>3. q \in Page
  <2>1. PICK quieted \in Page :
          quieted = [p EXCEPT !.inflight = FALSE, !.target = None, !.reconnect = FALSE,
                              !.restarting = FALSE, !.fallback = FALSE, !.recovery = 0]
    BY <1>1, QuietedSound DEF Sound, Held, Quieted
  <2>2. [quieted EXCEPT !.epoch = 0, !.session = 0, !.pc = 0] \in Page
    BY <2>1, Values, PageFields
  <2>3. PICK off \in Page : off = [quieted EXCEPT !.epoch = 0, !.session = 0, !.pc = 0]
    BY <2>2
  <2>4. [off EXCEPT !.ws = 0, !.connected = FALSE, !.connecting = FALSE] \in Page
    BY <2>3, Values, PageFields
  <2>5. q = [off EXCEPT !.ws = 0, !.connected = FALSE, !.connecting = FALSE]
    BY <1>2, <2>1, <2>3
  <2>6. QED
    BY <2>4, <2>5
<1>4. /\ Quiet(q) /\ ~q.connected
      /\ q.active = p.active /\ q.shown = p.shown /\ q.tabs = p.tabs
      /\ q.saved = p.saved /\ q.snap = p.snap /\ q.stamp = p.stamp /\ q.suppress = p.suppress
      /\ q.peer = p.peer /\ q.sock = p.sock
  BY <1>1, <1>2 DEF Page, Quiet
<1>5. \A k \in Tab : Streams(q, k) <=> Streams(p, k)
  BY <1>4 DEF Streams
<1>6. Sound(q, t)
  BY <1>3, <1>4, <1>5 DEF Sound, Held, Owned, Of, OneStreams, HandlersKnow, Quiet
<1>7. QED
  BY <1>4, <1>6

\* stop leaves the view quiet, whatever is preserved.
LEMMA StopSound ==
  ASSUME NEW p, NEW t, Sound(p, t), NEW preserve \in BOOLEAN, NEW others \in BOOLEAN,
         NEW q, q = Stop(p, preserve, p.active, others)
  PROVE  /\ Sound(q, t) /\ Quiet(q) /\ ~q.connected
         /\ q.active = p.active /\ q.shown = p.shown /\ q.tabs = p.tabs
         /\ q.saved = p.saved /\ q.stamp = p.stamp /\ q.suppress = p.suppress
<1>1. p \in Page /\ p.active \in MaybeTab
  BY DEF Sound, Held, Page
<1>2. CASE preserve /\ HasLiveConnection(p)
  <2> DEFINE kept == Persist(p, p.active, others, TRUE)
  <2>1. Sound(kept, t) /\ Alike(p, kept)
    BY PersistSound, <1>1 DEF Sound
  <2>2. q = DetachFromView(kept)
    BY <1>2 DEF Stop
  <2> HIDE DEF kept
  <2>3. /\ kept.active = p.active /\ kept.shown = p.shown /\ kept.tabs = p.tabs
        /\ kept.saved = p.saved /\ kept.stamp = p.stamp /\ kept.suppress = p.suppress
    BY <2>1 DEF Alike
  <2>4. QED
    BY <2>1, <2>2, <2>3, DetachSound
<1>3. CASE ~(preserve /\ HasLiveConnection(p))
  <2> DEFINE silent == StopHeartbeat(p, ReleaseTarget(p, p.active))
             closed == [silent EXCEPT
               !.peer = [n \in Attempt |-> IF n = p.pc THEN [@[n] EXCEPT !.state = "closed"] ELSE @[n]],
               !.sock = [n \in Attempt |-> IF n = p.ws THEN Dead("closed") ELSE @[n]]]
             detached == DetachFromView(closed)
  <2>1. Sound(silent, t) /\ Alike(p, silent)
    BY <1>1, StopHeartbeatSound
  <2>2. q = ClearPersisted(detached, p.active)
    BY <1>3 DEF Stop
  <2> HIDE DEF silent
  <2>3. /\ silent.active = p.active /\ silent.shown = p.shown /\ silent.tabs = p.tabs
        /\ silent.saved = p.saved /\ silent.stamp = p.stamp /\ silent.suppress = p.suppress
        /\ silent.pc = p.pc /\ silent.ws = p.ws /\ silent \in Page
    BY <2>1 DEF Alike, Sound, Held
  <2>4. Dead("closed") \in Sock /\ Dead("closed").by = "nobody"
    BY DEF Dead, Sock, MaybeTab
  <2> DEFINE peer == closed.peer
             sock == closed.sock
  <2>5. /\ closed = [silent EXCEPT !.peer = peer, !.sock = sock]
        /\ closed.peer = [n \in Attempt |-> IF n = p.pc THEN [silent.peer[n] EXCEPT !.state = "closed"]
                                            ELSE silent.peer[n]]
        /\ closed.sock = [n \in Attempt |-> IF n = p.ws THEN Dead("closed") ELSE silent.sock[n]]
    BY <2>3 DEF Page
  <2> HIDE DEF peer, sock, closed
  <2>6. \A n \in Attempt : /\ closed.peer[n] \in Peer
                           /\ closed.peer[n].by = silent.peer[n].by
                           /\ closed.peer[n].tab = silent.peer[n].tab
                           /\ closed.peer[n].state # "closed" => closed.peer[n] = silent.peer[n]
    <3>1. ASSUME NEW n \in Attempt
          PROVE  /\ closed.peer[n] \in Peer
                 /\ closed.peer[n].by = silent.peer[n].by
                 /\ closed.peer[n].tab = silent.peer[n].tab
                 /\ closed.peer[n].state # "closed" => closed.peer[n] = silent.peer[n]
      <4>1. silent.peer[n] \in Peer
        BY <2>3 DEF Page
      <4>2. closed.peer[n] = silent.peer[n] \/ closed.peer[n] = [silent.peer[n] EXCEPT !.state = "closed"]
        BY <2>5
      <4>3. QED
        BY <4>1, <4>2 DEF Peer
    <3>2. QED
      BY <3>1
  <2>7. closed.peer \in [Attempt -> Peer] /\ closed.sock \in [Attempt -> Sock]
    <3>1. \A n \in Attempt : closed.sock[n] \in Sock
      BY <2>3, <2>4, <2>5 DEF Page
    <3>2. QED
      BY <2>5, <2>6, <3>1
  <2>8. closed \in Page
    <3>1. peer \in [Attempt -> Peer] /\ sock \in [Attempt -> Sock]
      BY <2>7 DEF peer, sock
    <3>2. [silent EXCEPT !.peer = peer, !.sock = sock] \in Page
      BY <2>3, <3>1, PageFields
    <3>3. QED
      BY <2>5, <3>2
  <2>9. /\ closed.active = p.active /\ closed.shown = p.shown /\ closed.tabs = p.tabs
        /\ closed.saved = p.saved /\ closed.stamp = p.stamp /\ closed.suppress = p.suppress
        /\ closed.pc = p.pc /\ closed.ws = p.ws /\ closed.session = silent.session
        /\ closed.connected = silent.connected /\ closed.snap = silent.snap
    BY <2>3, <2>5 DEF Page
  <2>10. \A k \in Tab : Streams(closed, k) => Streams(silent, k)
    <3>1. \A k \in Tab : silent.snap[k].pc # 0 => silent.snap[k].pc \in Attempt
      BY <2>3 DEF Page, Kept, Number, Attempt
    <3>2. QED
      BY <2>6, <2>9, <3>1 DEF Streams
  <2>11. HandlersKnow(closed)
    <3>1. p.ws # 0 => p.ws \in Attempt
      BY <1>1 DEF Page, Number, Attempt
    <3>2. p.ws # 0 => closed.sock[p.ws].by = "nobody"
      BY <2>4, <2>5, <3>1
    <3>3. QED
      BY <2>1, <2>6, <2>9, <3>2 DEF HandlersKnow, Sound, Held
  <2>12. Sound(closed, t)
    BY <2>1, <2>3, <2>8, <2>9, <2>10, <2>11 DEF Sound, Held, Owned, OneStreams
  <2>13. /\ Sound(detached, t) /\ Quiet(detached) /\ ~detached.connected
         /\ detached.active = p.active /\ detached.shown = p.shown /\ detached.tabs = p.tabs
         /\ detached.saved = p.saved /\ detached.stamp = p.stamp /\ detached.suppress = p.suppress
    BY <2>9, <2>12, DetachSound
  <2> HIDE DEF detached
  <2>14. Sound(q, t) /\ Alike(detached, q)
    BY <1>1, <2>2, <2>13, ClearPersistedSound
  <2>15. QED
    BY <2>13, <2>14 DEF Alike, Quiet
<1>4. QED
  BY <1>2, <1>3

LEMMA ScheduleReconnectSound ==
  ASSUME NEW p, NEW t, Sound(p, t), NEW q, q = ScheduleReconnect(p)
  PROVE  Sound(q, t) /\ Flags(p, q) /\ q.shown = p.shown
<1>1. p \in Page
  BY DEF Sound, Held
<1>2. CASE q = p
  BY <1>1, <1>2 DEF Flags
<1>3. CASE q = [p EXCEPT !.reconnect = TRUE, !.connecting = TRUE]
  <2>1. q \in Page
    <3>1. [p EXCEPT !.reconnect = TRUE, !.connecting = TRUE] \in Page
      BY <1>1, Values, PageFields
    <3>2. QED
      BY <1>3, <3>1
  <2>2. Flags(p, q) /\ q.shown = p.shown
    BY <1>1, <1>3 DEF Flags, Page
  <2>3. QED
    BY <2>1, <2>2, FlagsSound
<1>4. QED
  BY <1>2, <1>3 DEF ScheduleReconnect

LEMMA StopNowSound ==
  ASSUME NEW p, NEW t, Sound(p, t), NEW q, q = StopNow(p)
  PROVE  /\ Sound(q, t) /\ Quiet(q) /\ ~q.connected
         /\ q.active = p.active /\ q.shown = p.shown /\ q.tabs = p.tabs
         /\ q.saved = p.saved /\ q.stamp = p.stamp /\ q.suppress = p.suppress
<1>1. PICK preserve \in BOOLEAN, others \in BOOLEAN : preserve = FALSE /\ others = TRUE
  OBVIOUS
<1>2. q = Stop(p, preserve, p.active, others)
  BY <1>1 DEF StopNow
<1>3. QED
  BY <1>2, StopSound

\* stop, and a reconnect is due unless it is suppressed.
LEMMA StopAndReconnectSound ==
  ASSUME NEW p, NEW t, Sound(p, t), NEW q, q = StopAndReconnect(p)
  PROVE  Sound(q, t) /\ q.active = p.active /\ q.shown = p.shown
<1>1. PICK stopped : stopped = StopNow(p)
  OBVIOUS
<1>2. Sound(stopped, t) /\ stopped.active = p.active /\ stopped.shown = p.shown
  BY <1>1, StopNowSound
<1>3. q = ScheduleReconnect(stopped)
  BY <1>1 DEF StopAndReconnect
<1>4. QED
  BY <1>2, <1>3, ScheduleReconnectSound DEF Flags

\* What only touches flags and timers.
LEMMA FlagFunctions ==
  ASSUME NEW p, NEW t, Sound(p, t), NEW e \in Nat,
         NEW q, \/ q = GiveUp(p) \/ q = DisableAutoReconnect(p) \/ q = EnableAutoReconnect(p)
                \/ q = ScheduleVideoRecovery(p, e)
  PROVE  Sound(q, t) /\ Flags(p, q) /\ q.shown = p.shown /\ q.tabs = p.tabs
<1>1. p \in Page
  BY DEF Sound, Held
<1>2. ASSUME q = GiveUp(p) PROVE q \in Page /\ Flags(p, q) /\ q.shown = p.shown /\ q.tabs = p.tabs
  <2>1. q = [p EXCEPT !.connecting = FALSE, !.inflight = FALSE, !.target = None]
    BY <1>2 DEF GiveUp
  <2>2. [p EXCEPT !.connecting = FALSE, !.inflight = FALSE, !.target = None] \in Page
    BY <1>1, Values, PageFields
  <2>3. q \in Page
    BY <2>1, <2>2
  <2>4. Flags(p, q) /\ q.shown = p.shown /\ q.tabs = p.tabs
    BY <1>1, <2>1 DEF Page, Flags
  <2>5. QED
    BY <2>3, <2>4
<1>3. ASSUME q = DisableAutoReconnect(p)
      PROVE  q \in Page /\ Flags(p, q) /\ q.shown = p.shown /\ q.tabs = p.tabs
  <2>1. PICK quieted : quieted = Quieted(p)
    OBVIOUS
  <2>2. /\ quieted \in Page
        /\ Flags(p, quieted) /\ quieted.shown = p.shown /\ quieted.tabs = p.tabs
    BY <2>1, QuietedSound DEF Sound, Held
  <2>3. q = [quieted EXCEPT !.suppress = TRUE]
    BY <1>3, <2>1 DEF DisableAutoReconnect
  <2>4. [quieted EXCEPT !.suppress = TRUE] \in Page
    BY <2>2, Values, PageFields
  <2>5. q \in Page
    BY <2>3, <2>4
  <2>6. Flags(quieted, q) /\ q.shown = quieted.shown /\ q.tabs = quieted.tabs
    BY <2>2, <2>3 DEF Page, Flags
  <2>7. QED
    BY <2>2, <2>5, <2>6 DEF Flags
<1>4. ASSUME q = EnableAutoReconnect(p)
      PROVE  q \in Page /\ Flags(p, q) /\ q.shown = p.shown /\ q.tabs = p.tabs
  <2>1. q = [p EXCEPT !.suppress = FALSE]
    BY <1>4 DEF EnableAutoReconnect
  <2>2. [p EXCEPT !.suppress = FALSE] \in Page
    BY <1>1, Values, PageFields
  <2>3. q \in Page
    BY <2>1, <2>2
  <2>4. Flags(p, q) /\ q.shown = p.shown /\ q.tabs = p.tabs
    BY <1>1, <2>1 DEF Page, Flags
  <2>5. QED
    BY <2>3, <2>4
<1>5. ASSUME q = ScheduleVideoRecovery(p, e)
      PROVE  q \in Page /\ Flags(p, q) /\ q.shown = p.shown /\ q.tabs = p.tabs
  <2>1. PICK due \in Nat : due = IF p.suppress THEN 0 ELSE e
    OBVIOUS
  <2>2. q = [p EXCEPT !.recovery = due]
    BY <1>5, <2>1 DEF ScheduleVideoRecovery
  <2>3. [p EXCEPT !.recovery = due] \in Page
    BY <1>1, PageFields
  <2>4. q \in Page
    BY <2>2, <2>3
  <2>5. Flags(p, q) /\ q.shown = p.shown /\ q.tabs = p.tabs
    BY <1>1, <2>2 DEF Page, Flags
  <2>6. QED
    BY <2>4, <2>5
<1>6. QED
  BY <1>2, <1>3, <1>4, <1>5, FlagsSound

\* What start makes of the page before it asks for a ticket.
LEMMA PrepareSound ==
  ASSUME NEW p, NEW t, Sound(p, t), NEW q, q = Prepare(p)
  PROVE  Sound(q, t) /\ q.active = p.active /\ q.shown = p.shown
<1>1. p.active \in MaybeTab /\ p.stamp \in Nat
  BY DEF Sound, Held, Page
<1>2. PICK silent : silent = StopHeartbeat(p, ReleaseTarget(p, p.active))
  OBVIOUS
<1>3. Sound(silent, t) /\ Alike(p, silent)
  BY <1>1, <1>2, StopHeartbeatSound
<1>4. Tab \in SUBSET Tab
  OBVIOUS
<1>5. PICK empty : empty = Dispose(silent, Tab)
  OBVIOUS
<1>6. Sound(empty, t) /\ Alike(silent, empty)
  BY <1>3, <1>4, <1>5, DisposeSound
<1>7. PICK cleared : cleared = StopNow(empty)
  OBVIOUS
<1>8. /\ Sound(cleared, t)
      /\ cleared.active = empty.active /\ cleared.shown = empty.shown
  BY <1>6, <1>7, StopNowSound
<1>9. PICK enabled : enabled = EnableAutoReconnect(cleared)
  OBVIOUS
<1>10. Sound(enabled, t) /\ Flags(cleared, enabled) /\ enabled.shown = cleared.shown
  BY <1>8, <1>9, <1>1, FlagFunctions
<1>11. q = [enabled EXCEPT !.inflight = TRUE, !.target = p.active, !.connecting = TRUE,
                           !.stamp = @ + 1, !.epoch = p.stamp + 1]
  BY <1>2, <1>5, <1>7, <1>9 DEF Prepare
<1>12. enabled \in Page
  BY <1>10 DEF Sound, Held
<1>13. q \in Page
  <2>1. PICK stamp \in Nat, epoch \in Nat : stamp = enabled.stamp + 1 /\ epoch = p.stamp + 1
    BY <1>1, <1>12 DEF Page
  <2>2. q = [enabled EXCEPT !.inflight = TRUE, !.target = p.active, !.connecting = TRUE,
                            !.stamp = stamp, !.epoch = epoch]
    BY <1>11, <2>1
  <2>3. [enabled EXCEPT !.inflight = TRUE, !.target = p.active, !.connecting = TRUE,
                        !.stamp = stamp, !.epoch = epoch] \in Page
    BY <1>1, <1>12, Values, PageFields
  <2>4. QED
    BY <2>2, <2>3
<1>14. Flags(enabled, q) /\ q.shown = enabled.shown
  BY <1>11, <1>12 DEF Flags, Page
<1>15. Sound(q, t)
  BY <1>10, <1>13, <1>14, FlagsSound
<1>16. QED
  BY <1>3, <1>6, <1>8, <1>10, <1>14, <1>15 DEF Flags, Alike

\* Taking up again what was kept for the active tab.
LEMMA RestoredSound ==
  ASSUME NEW p, NEW t, Sound(p, t), NEW k \in Tab, k = p.active, p.snap[k].pc # 0,
         NEW q, q = Restored(p, k)
  PROVE  Sound(q, t) /\ q.active = p.active /\ q.shown = p.shown
<1> DEFINE kept  == p.snap[k]
           fresh == p.stamp + 1
           peer  == [p.peer[kept.pc] EXCEPT !.by = "view", !.epoch = fresh, !.tab = k]
           sock  == [n \in Attempt |-> IF n = kept.ws
                      THEN [p.sock[n] EXCEPT !.by = "view", !.epoch = fresh, !.tab = p.active]
                      ELSE p.sock[n]]
           beats == p.beats \cup (IF kept.session = 0 \/ kept.device = None THEN {}
                                  ELSE {<<kept.device, kept.session>>})
           state == p.peer[kept.pc].state
           back  == [p EXCEPT
             !.stamp = fresh, !.epoch = fresh, !.inflight = FALSE, !.target = k,
             !.session = kept.session, !.pc = kept.pc, !.ws = kept.ws,
             !.peer[kept.pc] = peer,
             !.sock = sock,
             !.connected = state = "connected", !.connecting = state = "connecting",
             !.beats = beats]
           wired == Wired(back)
<1>1. /\ p \in Page /\ kept \in Kept /\ fresh \in Nat /\ kept.pc \in Attempt
      /\ p.peer[kept.pc] \in Peer
  <2>1. p \in Page
    BY DEF Sound, Held
  <2>2. kept \in Kept /\ fresh \in Nat
    BY <2>1 DEF Page
  <2>3. kept.pc \in Attempt
    BY <2>2 DEF Kept, Number, Attempt
  <2>4. QED
    BY <2>1, <2>2, <2>3 DEF Page
<1>2. Of(kept.pc, k, t) /\ Of(kept.ws, k, t) /\ Of(kept.session, k, t)
  BY DEF Sound, Held, Owned
<1>3. peer \in Peer /\ peer.by = "view"
  BY <1>1 DEF Peer, MaybeTab
<1>4. /\ sock \in [Attempt -> Sock]
      /\ kept.ws # 0 => sock[kept.ws].tab = k
  <2>1. ASSUME NEW n \in Attempt PROVE sock[n] \in Sock /\ (n = kept.ws => sock[n].tab = k)
    <3>1. p.sock[n] \in Sock /\ p.active \in MaybeTab
      BY <1>1 DEF Page
    <3>2. CASE n = kept.ws
      <4>1. sock[n] = [p.sock[n] EXCEPT !.by = "view", !.epoch = fresh, !.tab = p.active]
        BY <3>2
      <4>2. QED
        BY <1>1, <3>1, <4>1 DEF Sock
    <3>3. CASE n # kept.ws
      BY <3>1, <3>3
    <3>4. QED
      BY <3>2, <3>3
  <2>2. kept.ws # 0 => kept.ws \in Attempt
    BY <1>1 DEF Kept, Number, Attempt
  <2>3. QED
    BY <2>1, <2>2
<1>5. beats \in SUBSET (Tab \X Attempt)
  <2>1. kept.session # 0 /\ kept.device # None => <<kept.device, kept.session>> \in Tab \X Attempt
    BY <1>1 DEF Kept, Number, Attempt, MaybeTab
  <2>2. QED
    BY <1>1, <2>1 DEF Page
<1>6. q = Persist(wired, k, FALSE, FALSE)
  BY DEF Restored
<1> HIDE DEF peer, sock, beats, state
<1>7. /\ back.active = p.active /\ back.shown = p.shown /\ back.saved = p.saved /\ back.snap = p.snap
      /\ back.session = kept.session /\ back.pc = kept.pc /\ back.ws = kept.ws
      /\ back.sock = sock /\ back.peer = [p.peer EXCEPT ![kept.pc] = peer]
  BY <1>1 DEF Page
<1>8. back \in Page
  <2>1. [p.peer EXCEPT ![kept.pc] = peer] \in [Attempt -> Peer]
    BY <1>1, <1>3 DEF Page
  <2>2. kept.session \in Number /\ kept.pc \in Number /\ kept.ws \in Number /\ k \in MaybeTab
    BY <1>1 DEF Kept, MaybeTab
  <2>3. QED
    <3>1. PICK up \in BOOLEAN : up = (state = "connected")
      OBVIOUS
    <3>2. PICK soon \in BOOLEAN : soon = (state = "connecting")
      OBVIOUS
    <3>3. PICK peers \in [Attempt -> Peer] : peers = [p.peer EXCEPT ![kept.pc] = peer]
      BY <2>1
    <3>4. PICK made : made = [p EXCEPT !.stamp = fresh, !.epoch = fresh, !.inflight = FALSE,
                                       !.target = k]
      OBVIOUS
    <3>5. PICK told : told = [made EXCEPT !.session = kept.session, !.pc = kept.pc,
                                          !.ws = kept.ws]
      OBVIOUS
    <3>6. made \in Page
      <4>1. [p EXCEPT !.stamp = fresh, !.epoch = fresh, !.inflight = FALSE, !.target = k] \in Page
        BY <1>1, <2>2, Values, PageFields
      <4>2. QED
        BY <3>4, <4>1
    <3>7. told \in Page
      <4>1. [made EXCEPT !.session = kept.session, !.pc = kept.pc, !.ws = kept.ws] \in Page
        BY <2>2, <3>6, PageFields
      <4>2. QED
        BY <3>5, <4>1
    <3>8. told.peer = p.peer
      BY <1>1, <3>4, <3>5 DEF Page
    <3>9. back = [told EXCEPT !.peer[kept.pc] = peer, !.sock = sock,
                              !.connected = up, !.connecting = soon, !.beats = beats]
      BY <3>1, <3>2, <3>4, <3>5
    <3> HIDE DEF back
    <3>10. back = [told EXCEPT !.peer = peers, !.sock = sock,
                               !.connected = up, !.connecting = soon, !.beats = beats]
      BY <3>3, <3>8, <3>9
    <3>11. [told EXCEPT !.peer = peers, !.sock = sock,
                        !.connected = up, !.connecting = soon, !.beats = beats] \in Page
      BY <1>4, <1>5, <3>7, PageFields
    <3>12. QED
      BY <3>10, <3>11
<1> HIDE DEF back
<1>9. HandlersKnow(back)
  <2>1. \A n \in Attempt : back.peer[n] = peer \/ back.peer[n] = p.peer[n]
    BY <1>1, <1>7 DEF Page
  <2>2. QED
    BY <1>3, <1>4, <1>7, <2>1 DEF Sound, Held, HandlersKnow
<1>10. Held(back, t)
  BY <1>2, <1>7, <1>8, <1>9 DEF Sound, Held, Owned
<1>11. Sound(wired, t) /\ Alike(back, wired)
  BY <1>7, <1>10, PersistSound, ScreencastAssumption DEF Wired
<1> HIDE DEF wired
<1>12. Sound(q, t) /\ Alike(wired, q)
  <2>1. Held(wired, t) /\ OneStreams(wired) /\ k = wired.active
    BY <1>7, <1>11 DEF Sound, Alike
  <2>2. QED
    BY <1>6, <2>1, PersistSound
<1>13. QED
  BY <1>7, <1>11, <1>12 DEF Alike

---------------------------------------------------------------------------
(* The attempts                                                            *)

\* The same attempts for the same tabs.
SameTries(t, u) ==
  /\ u \in Seq(Try) /\ Len(u) = Len(t)
  /\ \A m \in DOMAIN t : u[m].tab = t[m].tab

LEMMA SameSound ==
  ASSUME NEW p, NEW t, NEW u, t \in Seq(Try), SameTries(t, u), Sound(p, t)
  PROVE  Sound(p, u)
<1>1. DOMAIN u = DOMAIN t
  BY DEF SameTries
<1>2. \A n, k : Of(n, k, t) => Of(n, k, u)
  BY <1>1 DEF Of, SameTries
<1>3. Owned(p, u)
  BY <1>2 DEF Sound, Held, Owned
<1>4. QED
  BY <1>3 DEF Sound, Held

\* Each attempt asks for what it asked for, and none waits that did not before.
NoNewWait(t, u) ==
  \A m \in DOMAIN t :
    u[m].device = t[m].device /\ u[m].ask = t[m].ask /\ (Waits(u, m) => Waits(t, m))

LEMMA SameAsking ==
  ASSUME NEW t, NEW u, NEW active, Asking(t, active), SameTries(t, u), NoNewWait(t, u)
  PROVE  Asking(u, active) /\ (NobodyWaits(t) => NobodyWaits(u))
<1>1. DOMAIN u = DOMAIN t
  BY DEF SameTries, Asking
<1>2. ASSUME NEW n \in DOMAIN u
      PROVE  /\ u[n].device = u[n].tab
             /\ Of(u[n].ask, u[n].tab, u)
             /\ Waits(u, n) => u[n].tab = active
  BY <1>1, <1>2 DEF SameTries, Asking, Of, NoNewWait
<1>3. Asking(u, active)
  BY <1>2 DEF SameTries, Asking
<1>4. QED
  BY <1>1, <1>3 DEF NobodyWaits, NoNewWait

\* One attempt goes on.
LEMMA TryReplaced ==
  ASSUME NEW t, NEW active, Asking(t, active), NEW n \in DOMAIN t, NEW e \in Try,
         e.tab = t[n].tab, e.device = e.tab, e.ask \in {0, t[n].ask},
         e.phase \in {"ticket", "config"} => e.tab = active,
         NEW u, u = [t EXCEPT ![n] = e]
  PROVE  /\ SameTries(t, u) /\ Asking(u, active)
         /\ e.phase \notin {"ticket", "config"} /\ NobodyWaits(t) => NobodyWaits(u)
<1>1. t \in Seq(Try)
  BY DEF Asking
<1>2. u \in Seq(Try) /\ Len(u) = Len(t) /\ DOMAIN u = DOMAIN t
  BY <1>1
<1>3. \A m \in DOMAIN t : u[m] = IF m = n THEN e ELSE t[m]
  BY <1>1
<1>4. SameTries(t, u)
  BY <1>2, <1>3 DEF SameTries
<1>5. \A m, k : Of(m, k, t) => Of(m, k, u)
  BY <1>2, <1>3 DEF Of
<1>6. ASSUME NEW m \in DOMAIN u
      PROVE  /\ u[m].device = u[m].tab
             /\ Of(u[m].ask, u[m].tab, u)
             /\ Waits(u, m) => u[m].tab = active
  <2>1. CASE m = n
    <3>1. u[m] = e
      BY <1>2, <1>3, <2>1
    <3>2. Of(t[n].ask, t[n].tab, t)
      BY DEF Asking
    <3>3. Of(e.ask, e.tab, u)
      BY <1>5, <3>2 DEF Of
    <3>4. QED
      BY <3>1, <3>3 DEF Waits
  <2>2. CASE m # n
    <3>1. u[m] = t[m] /\ m \in DOMAIN t
      BY <1>2, <1>3, <2>2
    <3>2. QED
      BY <1>5, <3>1 DEF Asking, Waits
  <2>3. QED
    BY <2>1, <2>2
<1>7. Asking(u, active)
  BY <1>2, <1>6 DEF Asking
<1>8. ASSUME e.phase \notin {"ticket", "config"}, NobodyWaits(t) PROVE NobodyWaits(u)
  BY <1>2, <1>3, <1>8 DEF NobodyWaits, Waits
<1>9. QED
  BY <1>4, <1>7, <1>8

\* An attempt for the active tab is begun.
LEMMA TryAppended ==
  ASSUME NEW p, NEW t, Sound(p, t), Asking(t, p.active), p.active # None,
         Len(t) < MaxAttempts,
         NEW u, u = Append(t, Ask(p)), NEW q, Sound(q, t)
  PROVE  Sound(q, u) /\ Asking(u, p.active)
<1>1. t \in Seq(Try) /\ p \in Page
  BY DEF Asking, Sound, Held
<1>2. Ask(p) \in Try
  <2>1. p.active \in Tab
    BY <1>1 DEF Page, MaybeTab
  <2>2. p.saved[p.active] \in Number /\ p.stamp + 1 \in Nat /\ 0 \in Number
    BY <1>1, <2>1, Values DEF Page
  <2>3. QED
    BY <2>1, <2>2 DEF Ask, Try
<1>3. u \in Seq(Try) /\ Len(u) = Len(t) + 1
  BY <1>1, <1>2
<1>4. /\ DOMAIN t = 1..Len(t) /\ DOMAIN u = 1..(Len(t) + 1) /\ Len(t) \in Nat
      /\ \A m \in DOMAIN t : u[m] = t[m]
      /\ u[Len(t) + 1] = Ask(p)
  BY <1>1, <1>2, <1>3
<1>5. \A m, k : Of(m, k, t) => Of(m, k, u)
  BY <1>4 DEF Of
<1>6. Sound(q, u)
  BY <1>5 DEF Sound, Held, Owned
<1>7. ASSUME NEW m \in DOMAIN u
      PROVE  /\ u[m].device = u[m].tab
             /\ Of(u[m].ask, u[m].tab, u)
             /\ Waits(u, m) => u[m].tab = p.active
  <2>1. CASE m = Len(t) + 1
    <3>1. u[m].device = u[m].tab /\ u[m].tab = p.active /\ u[m].ask = p.saved[p.active]
      BY <1>4, <2>1 DEF Ask
    <3>2. Of(p.saved[p.active], p.active, t)
      BY <1>1 DEF Sound, Held, Owned, Page, MaybeTab
    <3>3. QED
      BY <1>5, <3>1, <3>2
  <2>2. CASE m # Len(t) + 1
    <3>1. m \in DOMAIN t /\ u[m] = t[m]
      BY <1>4, <2>2
    <3>2. QED
      BY <1>5, <3>1 DEF Asking, Waits
  <2>3. QED
    BY <2>1, <2>2
<1>8. Asking(u, p.active)
  <2>1. Len(u) <= MaxAttempts
    BY <1>3, <1>4, ScreencastAssumption
  <2>2. QED
    BY <1>3, <1>7, <2>1 DEF Asking
<1>9. QED
  BY <1>6, <1>8

---------------------------------------------------------------------------
(* The handlers                                                            *)

\* The view is away or does not know yet what it will show.
Idle == ~page.shown \/ Coming \in jobs

LEMMA IdleQuiet ==
  ASSUME IInv, Idle
  PROVE  Quiet(page) /\ NobodyWaits(tries) /\ jobs \subseteq {Coming}
BY DEF IInv, Idle, Away

LEMMA Invariants ==
  ASSUME IInv
  PROVE  /\ Sound(page, tries) /\ Asking(tries, page.active) /\ page \in Page
         /\ tries \in Seq(Try) /\ DOMAIN tries \subseteq Attempt
         /\ \A n \in DOMAIN tries : tries[n] \in Try
<1>1. Sound(page, tries) /\ Asking(tries, page.active) /\ page \in Page
  BY DEF IInv, Sound, Held
<1>2. tries \in Seq(Try) /\ Len(tries) <= MaxAttempts
  BY <1>1 DEF Asking
<1>3. DOMAIN tries = 1..Len(tries) /\ Len(tries) \in Nat
  BY <1>2
<1>4. \A n \in DOMAIN tries : tries[n] \in Try
  BY <1>2
<1>5. DOMAIN tries \subseteq Attempt
  BY <1>2, <1>3, ScreencastAssumption DEF Attempt
<1>6. QED
  BY <1>1, <1>2, <1>4, <1>5

\* What waits is for the active tab, and the view is not idle.
LEMMA Waiting ==
  ASSUME IInv, NEW n \in DOMAIN tries, Waits(tries, n)
  PROVE  /\ ~Idle
         /\ tries[n].tab = page.active /\ tries[n].device = page.active /\ page.active \in Tab
<1>1. ~Idle
  BY IdleQuiet DEF NobodyWaits
<1>2. tries[n].tab = page.active /\ tries[n].device = tries[n].tab
  BY Invariants DEF Asking
<1>3. tries[n].tab \in Tab
  BY Invariants DEF Try
<1>4. QED
  BY <1>1, <1>2, <1>3

\* With nothing active nothing is held.
LEMMA NothingActive ==
  ASSUME IInv, page.active = None
  PROVE  page.pc = 0 /\ page.ws = 0 /\ page.session = 0
<1>1. \A n \in DOMAIN tries : tries[n].tab # None
  BY Invariants, ScreencastAssumption DEF Try
<1>2. QED
  BY <1>1, Invariants DEF Sound, Held, Owned, Of

\* What a handler has to leave behind that does not touch the jobs.
LEMMA HandlerKeeps ==
  ASSUME IInv, Sound(page', tries'), Asking(tries', page.active),
         page'.active = page.active, page'.shown = page.shown, jobs' = jobs,
         Idle => Quiet(page') /\ NobodyWaits(tries')
  PROVE  IInv'
BY DEF IInv, Away, Switching, Idle

LEMMA PageKeeps ==
  ASSUME IInv, NEW q, Sound(q, tries), q.active = page.active, q.shown = page.shown,
         Idle => Quiet(q),
         page' = q, tries' = tries, jobs' = jobs
  PROVE  IInv'
BY HandlerKeeps, IdleQuiet, Invariants

\* An attempt is over or waits for its socket.
LEMMA PhaseKeeps ==
  ASSUME IInv, NEW n \in DOMAIN tries, NEW phase \in {"socket", "over"},
         NEW u, u = [tries EXCEPT ![n].phase = phase]
  PROVE  /\ SameTries(tries, u) /\ Asking(u, page.active)
         /\ NobodyWaits(tries) => NobodyWaits(u)
<1>1. tries[n] \in Try
  BY Invariants
<1> DEFINE e == [tries[n] EXCEPT !.phase = phase]
<1>2. /\ e \in Try /\ e.tab = tries[n].tab /\ e.device = tries[n].device
      /\ e.ask = tries[n].ask /\ e.phase = phase
  BY <1>1 DEF Try
<1>3. u = [tries EXCEPT ![n] = e]
  OBVIOUS
<1> HIDE DEF e
<1>4. tries[n].device = tries[n].tab
  BY Invariants DEF Asking
<1>5. /\ e.ask \in {0, tries[n].ask} /\ e.device = e.tab
      /\ e.phase \notin {"ticket", "config"}
  BY <1>2, <1>4
<1>6. /\ Asking(tries, page.active)
      /\ e.phase \in {"ticket", "config"} => e.tab = page.active
  BY <1>5, Invariants
<1>7. SameTries(tries, u) /\ Asking(u, page.active)
  <2>1. ASSUME NEW v, v = [tries EXCEPT ![n] = e]
        PROVE  SameTries(tries, v) /\ Asking(v, page.active)
    BY <1>2, <1>5, <1>6, <2>1, TryReplaced
  <2>2. QED
    BY <1>3, <2>1
<1>8. ASSUME NobodyWaits(tries) PROVE NobodyWaits(u)
  <2>1. tries \in Seq(Try)
    BY Invariants
  <2>2. DOMAIN u = DOMAIN tries /\ \A m \in DOMAIN tries : u[m] = IF m = n THEN e ELSE tries[m]
    BY <1>3, <2>1
  <2>3. QED
    BY <1>5, <1>8, <2>2 DEF NobodyWaits, Waits
<1>9. QED
  BY <1>7, <1>8

\* A waiting attempt ends, and the page has become q.
LEMMA OverKeeps ==
  ASSUME IInv, NEW n \in DOMAIN tries, Waits(tries, n),
         NEW q, Sound(q, tries), q.active = page.active, q.shown = page.shown,
         NEW phase \in {"socket", "over"},
         page' = q, tries' = [tries EXCEPT ![n].phase = phase], jobs' = jobs
  PROVE  IInv'
<1>1. SameTries(tries, tries') /\ Asking(tries', page.active)
  BY PhaseKeeps
<1>2. Sound(q, tries')
  BY <1>1, SameSound, Invariants
<1>3. ~Idle
  BY Waiting
<1>4. QED
  BY <1>1, <1>2, <1>3, HandlerKeeps

\* GiveUp and then a reconnect, at once or after a stop.
LEMMA GaveUp ==
  ASSUME NEW p, NEW t, Sound(p, t),
         NEW q, q = ScheduleReconnect(GiveUp(p)) \/ q = StopAndReconnect(GiveUp(p))
  PROVE  Sound(q, t) /\ q.active = p.active /\ q.shown = p.shown
<1>1. PICK r : r = GiveUp(p)
  OBVIOUS
<1>2. Sound(r, t) /\ Flags(p, r) /\ r.shown = p.shown
  BY <1>1, FlagFunctions
<1>3. CASE q = ScheduleReconnect(r)
  BY <1>2, <1>3, ScheduleReconnectSound DEF Flags
<1>4. CASE q = StopAndReconnect(r)
  BY <1>2, <1>4, StopAndReconnectSound DEF Flags
<1>5. QED
  BY <1>1, <1>3, <1>4

LEMMA TicketRefusedKeeps ==
  ASSUME IInv, NEW n \in Attempt, TicketRefused(n) \/ TicketLost(n) \/ OfferFailed(n)
  PROVE  IInv'
<1>1. n \in DOMAIN tries /\ Waits(tries, n) /\ jobs' = jobs
  BY DEF TicketRefused, TicketLost, OfferFailed, Attempting, Waits
<1>2. tries' = [tries EXCEPT ![n].phase = "over"]
  BY DEF TicketRefused, TicketLost, OfferFailed
<1>3. page' = ScheduleReconnect(GiveUp(page)) \/ page' = StopAndReconnect(GiveUp(page))
  BY DEF TicketRefused, TicketLost, OfferFailed
<1>4. PICK q : q = page'
  OBVIOUS
<1>5. Sound(q, tries) /\ q.active = page.active /\ q.shown = page.shown
  BY <1>3, <1>4, GaveUp, Invariants
<1>6. QED
  BY <1>1, <1>2, <1>4, <1>5, OverKeeps

\* The ticket: a session and a socket for the tab that is active.
LEMMA TicketGrantedKeeps ==
  ASSUME IInv, NEW n \in Attempt, TicketGranted(n)
  PROVE  IInv'
<1> DEFINE session == IF tries[n].ask # 0 THEN tries[n].ask ELSE n
           saved == [k \in Tab |-> IF k = tries[n].tab /\ k \in page.tabs THEN session
                                   ELSE page.saved[k]]
           sock  == [Dead("connecting") EXCEPT !.by = "view", !.epoch = tries[n].epoch,
                                               !.tab = page.active]
           p     == [page EXCEPT !.session = session, !.saved = saved, !.ws = n, !.sock[n] = sock]
           q     == Persist(p, p.active, TRUE, FALSE)
<1>1. /\ n \in DOMAIN tries /\ Waits(tries, n) /\ jobs' = jobs
      /\ tries' = [tries EXCEPT ![n].phase = "socket"]
  BY DEF TicketGranted, Attempting, Waits
<1>2. page' = q
  BY DEF TicketGranted
<1>3. /\ ~Idle /\ tries[n].tab = page.active /\ page.active \in Tab
      /\ page \in Page /\ Sound(page, tries) /\ tries[n] \in Try
  BY <1>1, Waiting, Invariants
<1>4. session \in Number /\ n \in Number /\ Of(session, page.active, tries) /\ Of(n, page.active, tries)
  <2>1. Of(tries[n].ask, page.active, tries)
    BY <1>1, <1>3, Invariants DEF Asking
  <2>2. Of(n, page.active, tries)
    BY <1>1, <1>3 DEF Of
  <2>3. tries[n].ask \in Number /\ n \in Number
    BY <1>3 DEF Try, Number, Attempt
  <2>4. QED
    BY <2>1, <2>2, <2>3
<1> HIDE DEF session
<1>5. saved \in [Tab -> Number] /\ \A k \in Tab : Of(saved[k], k, tries)
  <2>1. ASSUME NEW k \in Tab PROVE saved[k] \in Number /\ Of(saved[k], k, tries)
    <3>1. page.saved[k] \in Number /\ Of(page.saved[k], k, tries)
      BY <1>3 DEF Page, Sound, Held, Owned
    <3>2. saved[k] = page.saved[k] \/ (saved[k] = session /\ k = page.active)
      BY <1>3
    <3>3. QED
      BY <1>4, <3>1, <3>2
  <2>2. QED
    BY <2>1
<1>6. sock \in Sock /\ sock.tab = page.active
  BY <1>3, Values DEF Dead, Sock, Try, MaybeTab
<1> HIDE DEF saved, sock
<1>7. p \in Page
  <2>1. [page.sock EXCEPT ![n] = sock] \in [Attempt -> Sock]
    BY <1>3, <1>6 DEF Page
  <2>2. QED
    BY <1>3, <1>4, <1>5, <2>1 DEF Page
<1>8. /\ p.active = page.active /\ p.shown = page.shown /\ p.pc = page.pc /\ p.ws = n
      /\ p.session = session /\ p.saved = saved /\ p.snap = page.snap /\ p.peer = page.peer
      /\ p.connected = page.connected /\ p.sock[n].tab = page.active
  BY <1>3, <1>6 DEF Page
<1> HIDE DEF p
<1>9. Held(p, tries) /\ OneStreams(p)
  <2>1. Owned(p, tries)
    BY <1>3, <1>4, <1>5, <1>8 DEF Sound, Held, Owned
  <2>2. HandlersKnow(p)
    BY <1>3, <1>8 DEF Sound, Held, HandlersKnow
  <2>3. OneStreams(p)
    BY <1>3, <1>8 DEF Sound, OneStreams, Streams
  <2>4. QED
    BY <1>3, <1>7, <1>8, <2>1, <2>2, <2>3 DEF Sound, Held
<1>10. Sound(q, tries) /\ Alike(p, q)
  BY <1>9, PersistSound
<1> HIDE DEF q
<1>11. Sound(q, tries) /\ q.active = page.active /\ q.shown = page.shown
  BY <1>8, <1>10 DEF Alike
<1>12. QED
  BY <1>1, <1>2, <1>11, OverKeeps

\* A session that is gone is asked for no more, nor remembered.
LEMMA SessionGoneKeeps ==
  ASSUME IInv, NEW n \in Attempt, SessionGone(n)
  PROVE  IInv'
<1> DEFINE saved == [k \in Tab |-> IF k = tries[n].tab THEN 0 ELSE page.saved[k]]
           p == [page EXCEPT !.saved = saved]
           e == [tries[n] EXCEPT !.ask = 0, !.device = page.active]
<1>1. n \in DOMAIN tries /\ Waits(tries, n) /\ jobs' = jobs /\ tries[n].phase = "ticket"
  BY DEF SessionGone, Attempting, Waits
<1>2. /\ ~Idle /\ tries[n].tab = page.active /\ page.active \in Tab
      /\ page \in Page /\ Sound(page, tries) /\ tries[n] \in Try
  BY <1>1, Waiting, Invariants
<1>3. page' = p /\ tries' = [tries EXCEPT ![n].ask = 0, ![n].device = page.active]
  BY <1>2, ScreencastAssumption DEF SessionGone
<1>4. e \in Try /\ e.tab = tries[n].tab /\ e.device = e.tab /\ e.ask = 0 /\ e.phase = "ticket"
  BY <1>1, <1>2, Values DEF Try
<1>5. tries' = [tries EXCEPT ![n] = e]
  BY <1>1, <1>3
<1> HIDE DEF e
<1>6. SameTries(tries, tries') /\ Asking(tries', page.active)
  <2>1. Asking(tries, page.active) /\ e.ask \in {0, tries[n].ask} /\ e.tab = page.active
    BY <1>2, <1>4, Invariants
  <2>2. QED
    BY <1>1, <1>4, <1>5, <2>1, TryReplaced
<1>7. saved \in [Tab -> Number] /\ \A k \in Tab : Of(saved[k], k, tries)
  <2>1. ASSUME NEW k \in Tab PROVE saved[k] \in Number /\ Of(saved[k], k, tries)
    <3>1. page.saved[k] \in Number /\ Of(page.saved[k], k, tries)
      BY <1>2 DEF Page, Sound, Held, Owned
    <3>2. QED
      BY <3>1, Values DEF Of
  <2>2. QED
    BY <2>1
<1> HIDE DEF saved
<1>8. /\ p \in Page /\ p.active = page.active /\ p.shown = page.shown
      /\ p.pc = page.pc /\ p.ws = page.ws /\ p.session = page.session
      /\ p.connected = page.connected /\ p.saved = saved
      /\ p.snap = page.snap /\ p.peer = page.peer /\ p.sock = page.sock
  BY <1>2, <1>7 DEF Page
<1> HIDE DEF p
<1>9. Sound(p, tries)
  <2>1. Owned(p, tries) /\ HandlersKnow(p)
    BY <1>2, <1>7, <1>8 DEF Sound, Held, Owned, HandlersKnow
  <2>2. OneStreams(p)
    BY <1>2, <1>8 DEF Sound, OneStreams, Streams
  <2>3. QED
    BY <1>2, <1>8, <2>1, <2>2 DEF Sound, Held
<1>10. Sound(p, tries')
  BY <1>6, <1>9, SameSound, Invariants
<1>11. QED
  BY <1>1, <1>2, <1>3, <1>6, <1>8, <1>10, HandlerKeeps

\* A socket that is the page's own was made for the active tab.
LEMMA SocketOpensKeeps ==
  ASSUME IInv, NEW n \in Attempt, SocketOpens(n)
  PROVE  IInv'
<1> DEFINE p == [page EXCEPT !.sock[n].state = "open"]
           current == tries[n].epoch = p.epoch /\ p.ws = n
           sock == [page.sock[n] EXCEPT !.state = "open"]
<1>1. n \in DOMAIN tries /\ tries[n].phase = "socket" /\ jobs' = jobs
  BY DEF SocketOpens, Attempting
<1>2. /\ page \in Page /\ Sound(page, tries) /\ tries[n] \in Try
      /\ Asking(tries, page.active) /\ tries \in Seq(Try)
  BY <1>1, Invariants
<1>3. /\ sock \in Sock /\ sock.by = page.sock[n].by /\ sock.tab = page.sock[n].tab
  <2>1. page.sock[n] \in Sock
    BY <1>2 DEF Page
  <2>2. QED
    BY <2>1 DEF Sock
<1>4. p = [page EXCEPT !.sock[n] = sock]
  BY <1>2 DEF Page
<1> HIDE DEF sock
<1>5. p \in Page /\ p.sock = [page.sock EXCEPT ![n] = sock]
  <2>1. PICK socks \in [Attempt -> Sock] : socks = [page.sock EXCEPT ![n] = sock]
    BY <1>2, <1>3 DEF Page
  <2>2. [page EXCEPT !.sock = socks] \in Page
    BY <1>2, PageFields
  <2>3. p = [page EXCEPT !.sock = socks]
    BY <1>2, <1>4, <2>1 DEF Page
  <2>4. p.sock = socks
    BY <1>2, <2>3 DEF Page
  <2>5. QED
    BY <2>1, <2>2, <2>3, <2>4
<1>6. Alike(page, p) /\ p.peer = page.peer /\ p.snap = page.snap
  BY <1>2, <1>4 DEF Alike, Page
<1>7. Sound(p, tries)
  <2>1. \A w \in Attempt : p.sock[w].by = page.sock[w].by /\ p.sock[w].tab = page.sock[w].tab
    BY <1>2, <1>3, <1>5 DEF Page
  <2>2. \A w : w \in Number /\ w # 0 => w \in Attempt
    BY DEF Number, Attempt
  <2>3. HandlersKnow(p)
    BY <1>2, <1>6, <2>1, <2>2 DEF Sound, Held, HandlersKnow, Alike, Page
  <2>4. Owned(p, tries) /\ OneStreams(p)
    BY <1>2, <1>6 DEF Sound, Held, Owned, OneStreams, Streams, Alike
  <2>5. QED
    BY <1>2, <1>5, <1>6, <2>3, <2>4 DEF Sound, Held, Alike
<1>8. CASE ~current
  <2>1. page' = p /\ tries' = [tries EXCEPT ![n].phase = "over"]
    BY <1>8 DEF SocketOpens
  <2>2. /\ SameTries(tries, tries') /\ Asking(tries', page.active)
        /\ NobodyWaits(tries) => NobodyWaits(tries')
    BY <1>1, <2>1, PhaseKeeps
  <2> HIDE DEF p
  <2>3. Sound(p, tries')
    BY <1>2, <1>7, <2>2, SameSound
  <2>4. Quiet(page) => Quiet(p)
    BY <1>6 DEF Alike, Quiet
  <2>5. QED
    BY <1>1, <1>6, <2>1, <2>2, <2>3, <2>4, HandlerKeeps, IdleQuiet DEF Alike
<1>9. CASE current
  <2> DEFINE r == [p EXCEPT !.inflight = FALSE, !.target = None]
             q == StartHeartbeat(r)
             e == [tries[n] EXCEPT !.phase = "config"]
  <2>1. page' = q /\ tries' = [tries EXCEPT ![n].phase = "config"]
    BY <1>9 DEF SocketOpens
  <2>2. page.ws = n
    BY <1>6, <1>9 DEF Alike
  <2>3. tries[n].tab = page.active /\ ~Idle
    BY <1>2, <2>2, IdleQuiet, ScreencastAssumption DEF Sound, Held, Owned, Of, Quiet, Attempt
  <2>4. /\ e \in Try /\ e.tab = tries[n].tab /\ e.device = tries[n].device
        /\ e.ask = tries[n].ask
    BY <1>2 DEF Try
  <2>5. tries' = [tries EXCEPT ![n] = e] /\ tries[n].device = tries[n].tab
    BY <1>1, <1>2, <2>1 DEF Asking
  <2> HIDE DEF e, p
  <2>6. SameTries(tries, tries') /\ Asking(tries', page.active)
    BY <1>1, <1>2, <2>3, <2>4, <2>5, TryReplaced
  <2>7. r \in Page /\ Flags(p, r) /\ r.shown = p.shown
    <3>1. r \in Page
      BY <1>5, Values, PageFields
    <3>2. Flags(p, r) /\ r.shown = p.shown
      BY <1>5 DEF Page, Flags
    <3>3. QED
      BY <3>1, <3>2
  <2> HIDE DEF r
  <2>8. Sound(r, tries)
    BY <1>7, <2>7, FlagsSound
  <2>9. Sound(q, tries) /\ Alike(r, q)
    BY <2>8, StartHeartbeatSound
  <2> HIDE DEF q
  <2>10. Sound(q, tries')
    BY <1>2, <2>6, <2>9, SameSound
  <2>11. q.active = page.active /\ q.shown = page.shown
    BY <1>6, <2>7, <2>9 DEF Alike, Flags
  <2>12. QED
    BY <1>1, <2>1, <2>3, <2>6, <2>10, <2>11, HandlerKeeps
<1>10. QED
  BY <1>8, <1>9

\* The attempts of u are those of t, with other fields but for the same tabs.
Mapped(t, u) ==
  /\ u \in [DOMAIN t -> Try]
  /\ \A m \in DOMAIN t : u[m].tab = t[m].tab

LEMMA TriesMapped ==
  ASSUME NEW t \in Seq(Try), NEW u, Mapped(t, u)
  PROVE  SameTries(t, u)
<1>1. DOMAIN t = 1..Len(t) /\ Len(t) \in Nat
  OBVIOUS
<1>2. u \in [1..Len(t) -> Try] /\ \A m \in DOMAIN t : u[m].tab = t[m].tab
  BY <1>1 DEF Mapped
<1>3. u \in Seq(Try) /\ Len(u) = Len(t)
  BY <1>1, <1>2
<1>4. QED
  BY <1>2, <1>3 DEF SameTries

\* Only peer connection n, flags and timers differ.
LEMMA PeerSound ==
  ASSUME NEW p, NEW t, Sound(p, t), NEW n \in Attempt, NEW peer \in Peer,
         peer.by = "background" => peer.tab \in Tab,
         p.peer[n].state = "closed" => peer.state = "closed",
         NEW q \in Page,
         q.pc = p.pc, q.ws = p.ws, q.session = p.session, q.active = p.active,
         q.saved = p.saved, q.snap = p.snap, q.sock = p.sock,
         q.peer = [p.peer EXCEPT ![n] = peer],
         q.connected => q.pc # 0
  PROVE  Sound(q, t)
<1>1. p \in Page
  BY DEF Sound, Held
<1>2. \A m \in Attempt : q.peer[m] = IF m = n THEN peer ELSE p.peer[m]
  BY <1>1 DEF Page
<1>3. HandlersKnow(q)
  BY <1>2 DEF Sound, Held, HandlersKnow
<1>4. ASSUME NEW k \in Tab, Streams(q, k) PROVE Streams(p, k)
  <2>1. p.snap[k].pc \in Attempt
    BY <1>1, <1>4 DEF Streams, Page, Kept, Number, Attempt
  <2>2. QED
    BY <1>2, <1>4, <2>1 DEF Streams
<1>5. OneStreams(q)
  BY <1>4 DEF Sound, OneStreams
<1>6. Owned(q, t)
  BY DEF Sound, Held, Owned
<1>7. QED
  BY <1>3, <1>5, <1>6 DEF Sound, Held

\* The offer goes out over the socket that is the page's by now.
LEMMA OfferedKeeps ==
  ASSUME IInv, NEW n \in Attempt, Offered(n)
  PROVE  IInv'
<1> DEFINE base == [page EXCEPT !.pc = n, !.peer[n] = NewPeer(n)]
           p    == Wired(base)
           u    == [m \in DOMAIN tries |->
                     [tries[m] EXCEPT !.phase = IF m = n THEN "over" ELSE @,
                                      !.offered = IF m = p.ws /\ p.sock[p.ws].state = "open"
                                                  THEN n ELSE @]]
<1>1. n \in DOMAIN tries /\ Waits(tries, n) /\ jobs' = jobs
  BY DEF Offered, Attempting, Waits
<1>2. /\ ~Idle /\ tries[n].tab = page.active /\ page.active \in Tab
      /\ page \in Page /\ Sound(page, tries) /\ tries[n] \in Try
      /\ tries \in Seq(Try) /\ Asking(tries, page.active)
      /\ \A m \in DOMAIN tries : tries[m] \in Try
  BY <1>1, Waiting, Invariants
<1>3. NewPeer(n) \in Peer /\ NewPeer(n).by = "view"
  BY <1>2, Values DEF NewPeer, Dead, Peer, Try, MaybeTab
<1>4. /\ n \in Number /\ n # 0
  BY ScreencastAssumption DEF Attempt, Number
<1>5. base \in Page /\ base.peer = [page.peer EXCEPT ![n] = NewPeer(n)]
  <2>1. PICK peers \in [Attempt -> Peer] : peers = [page.peer EXCEPT ![n] = NewPeer(n)]
    BY <1>2, <1>3 DEF Page
  <2>2. [page EXCEPT !.pc = n, !.peer = peers] \in Page
    BY <1>2, <1>4, PageFields
  <2>3. base = [page EXCEPT !.pc = n, !.peer = peers]
    BY <1>2, <2>1 DEF Page
  <2>4. base.peer = peers
    BY <1>2, <2>3 DEF Page
  <2>5. QED
    BY <2>1, <2>2, <2>3, <2>4
<1>6. /\ base.active = page.active /\ base.shown = page.shown /\ base.pc = n /\ base.ws = page.ws
      /\ base.session = page.session /\ base.saved = page.saved /\ base.snap = page.snap
      /\ base.sock = page.sock
  BY <1>2 DEF Page
<1> HIDE DEF base
<1>7. Held(base, tries)
  <2>1. \A m \in Attempt : base.peer[m] = NewPeer(n) \/ base.peer[m] = page.peer[m]
    BY <1>2, <1>5 DEF Page
  <2>2. HandlersKnow(base)
    BY <1>2, <1>3, <1>6, <2>1 DEF Sound, Held, HandlersKnow
  <2>3. Owned(base, tries)
    BY <1>1, <1>2, <1>6 DEF Sound, Held, Owned, Of
  <2>4. QED
    BY <1>4, <1>5, <1>6, <2>2, <2>3 DEF Held
<1>8. Sound(p, tries) /\ Alike(base, p)
  <2>1. base.pc # 0 /\ base.active # None
    BY <1>2, <1>4, <1>6, ScreencastAssumption
  <2>2. QED
    BY <1>7, <2>1, PersistSound DEF Wired
<1>9. \/ /\ page' = StopAndReconnect(GiveUp(p))
         /\ tries' = [tries EXCEPT ![n].phase = "over"]
      \/ page' = p /\ tries' = u
  BY DEF Offered, base
<1> HIDE DEF p
<1>10. p.active = page.active /\ p.shown = page.shown
  BY <1>6, <1>8 DEF Alike
<1>11. ASSUME page' = StopAndReconnect(GiveUp(p)), tries' = [tries EXCEPT ![n].phase = "over"]
       PROVE  IInv'
  <2>1. PICK q : q = page'
    OBVIOUS
  <2>2. Sound(q, tries) /\ q.active = page.active /\ q.shown = page.shown
    BY <1>8, <1>10, <1>11, <2>1, GaveUp
  <2>3. QED
    BY <1>1, <1>11, <2>1, <2>2, OverKeeps
<1>12. ASSUME page' = p, tries' = u PROVE IInv'
  <2>1. ASSUME NEW m \in DOMAIN tries
        PROVE  /\ u[m] \in Try /\ u[m].tab = tries[m].tab /\ u[m].device = tries[m].device
               /\ u[m].ask = tries[m].ask /\ (Waits(u, m) => Waits(tries, m))
    <3>1. PICK phase \in {"over", tries[m].phase}, offered \in {n, tries[m].offered} :
            u[m] = [tries[m] EXCEPT !.phase = phase, !.offered = offered]
      OBVIOUS
    <3> HIDE DEF u
    <3>2. tries[m] \in Try
      BY <1>2
    <3>3. PICK e : e = tries[m]
      OBVIOUS
    <3>4. e \in Try /\ phase \in {"over", e.phase} /\ offered \in Number
      BY <1>4, <3>2, <3>3 DEF Try
    <3>5. PICK f : f = [e EXCEPT !.phase = phase, !.offered = offered]
      OBVIOUS
    <3>6. f \in Try /\ f.tab = e.tab /\ f.device = e.device /\ f.ask = e.ask /\ f.phase = phase
      BY <3>4, <3>5 DEF Try
    <3>7. u[m] = f
      BY <3>1, <3>3, <3>5
    <3>8. QED
      BY <3>3, <3>4, <3>6, <3>7 DEF Waits
  <2>2. u = [m \in DOMAIN tries |-> u[m]]
    OBVIOUS
  <2> HIDE DEF u
  <2>3. SameTries(tries, u)
    <3>1. u \in [DOMAIN tries -> Try]
      BY <2>1, <2>2
    <3>2. Mapped(tries, u)
      BY <2>1, <3>1 DEF Mapped
    <3>3. QED
      BY <1>2, <3>2, TriesMapped
  <2>4. Asking(u, page.active)
    <3>1. NoNewWait(tries, u)
      BY <2>1 DEF NoNewWait
    <3>2. QED
      BY <1>2, <2>3, <3>1, SameAsking
  <2>5. Sound(p, u)
    BY <1>2, <1>8, <2>3, SameSound
  <2>6. QED
    BY <1>1, <1>2, <1>10, <1>12, <2>4, <2>5, HandlerKeeps
<1>13. QED
  BY <1>9, <1>11, <1>12

\* The socket that is the page's own while the view is idle: there is none.
LEMMA CurrentBusy ==
  ASSUME IInv, NEW n \in Attempt, SocketCurrent(n) \/ PeerCurrent(n) \/ page.pc = n \/ page.ws = n
  PROVE  ~Idle
BY IdleQuiet, ScreencastAssumption DEF SocketCurrent, PeerCurrent, Quiet, Attempt

\* The answer for attempt w: its offer is no longer open.
LEMMA OfferedChanges ==
  ASSUME IInv, NEW w \in DOMAIN tries, NEW m \in Number,
         NEW u, u = [tries EXCEPT ![w].offered = m]
  PROVE  /\ SameTries(tries, u) /\ Asking(u, page.active)
         /\ NobodyWaits(tries) => NobodyWaits(u)
<1> DEFINE e == [tries[w] EXCEPT !.offered = m]
<1>1. tries[w] \in Try /\ tries \in Seq(Try) /\ Asking(tries, page.active)
  BY Invariants
<1>2. /\ e \in Try /\ e.tab = tries[w].tab /\ e.device = tries[w].device
      /\ e.ask = tries[w].ask /\ e.phase = tries[w].phase
  BY <1>1 DEF Try
<1>3. u = [tries EXCEPT ![w] = e]
  OBVIOUS
<1> HIDE DEF e
<1>4. u = [k \in DOMAIN tries |-> u[k]] /\ \A k \in DOMAIN tries : u[k] = IF k = w THEN e ELSE tries[k]
  BY <1>1, <1>3
<1>5. SameTries(tries, u)
  <2>1. \A k \in DOMAIN tries : u[k] \in Try /\ u[k].tab = tries[k].tab
    BY <1>2, <1>4, Invariants
  <2>2. u \in [DOMAIN tries -> Try]
    BY <1>4, <2>1
  <2>3. Mapped(tries, u)
    BY <2>1, <2>2 DEF Mapped
  <2>4. QED
    BY <1>1, <2>3, TriesMapped
<1>6. NoNewWait(tries, u)
  BY <1>2, <1>4 DEF NoNewWait, Waits
<1>7. QED
  BY <1>1, <1>5, <1>6, SameAsking

LEMMA AnsweredKeeps ==
  ASSUME IInv, NEW w \in Attempt, Answered(w)
  PROVE  IInv'
<1> DEFINE m == tries[w].offered
           peer == [page.peer[m] EXCEPT !.state = "connecting", !.stable = TRUE]
           p == [page EXCEPT !.peer[m].state = "connecting", !.peer[m].stable = TRUE,
                             !.fallback = FALSE, !.restarting = FALSE]
           r == ScheduleVideoRecovery(p, page.epoch)
           q == Persist(r, page.active, TRUE, FALSE)
<1>1. /\ w \in DOMAIN tries /\ m # 0 /\ jobs' = jobs
      /\ tries' = [tries EXCEPT ![w].offered = 0]
  BY DEF Answered
<1>2. /\ page \in Page /\ Sound(page, tries) /\ tries[w] \in Try /\ tries \in Seq(Try)
      /\ m \in Attempt
  <2>1. page \in Page /\ Sound(page, tries) /\ tries[w] \in Try /\ tries \in Seq(Try)
    BY <1>1, Invariants
  <2>2. m \in Number
    BY <2>1 DEF Try
  <2>3. QED
    BY <1>1, <2>1, <2>2 DEF Number, Attempt
<1>3. \/ page' = page
      \/ SocketCurrent(w) /\ page.pc = m /\ page.peer[m].state # "closed" /\ page' = q
  BY DEF Answered
<1>4. /\ SameTries(tries, tries') /\ Asking(tries', page.active)
      /\ NobodyWaits(tries) => NobodyWaits(tries')
  BY <1>1, OfferedChanges, Values
<1>5. CASE page' = page
  BY <1>1, <1>2, <1>4, <1>5, SameSound, HandlerKeeps, IdleQuiet
<1>6. CASE SocketCurrent(w) /\ page.pc = m /\ page.peer[m].state # "closed" /\ page' = q
  <2>1. ~Idle
    BY <1>6, CurrentBusy
  <2>2. page.peer[m] \in Peer
    BY <1>2 DEF Page
  <2>3. peer \in Peer /\ peer.by = page.peer[m].by /\ peer.tab = page.peer[m].tab
    BY <2>2, Values DEF Peer
  <2>4. PICK peers \in [Attempt -> Peer] : peers = [page.peer EXCEPT ![m] = peer]
    BY <1>2, <2>3 DEF Page
  <2>5. p = [page EXCEPT !.peer = peers, !.fallback = FALSE, !.restarting = FALSE]
    BY <1>2, <2>4 DEF Page
  <2> HIDE DEF p, peer
  <2>6. /\ p.pc = page.pc /\ p.ws = page.ws /\ p.session = page.session /\ p.active = page.active
        /\ p.saved = page.saved /\ p.snap = page.snap /\ p.sock = page.sock
        /\ p.connected = page.connected /\ p.shown = page.shown
        /\ p.peer = [page.peer EXCEPT ![m] = peer]
    BY <1>2, <2>4, <2>5 DEF Page
  <2>7. Sound(p, tries)
    <3>1. p \in Page
      <4>1. [page EXCEPT !.peer = peers, !.fallback = FALSE, !.restarting = FALSE] \in Page
        BY <1>2, Values, PageFields
      <4>2. QED
        BY <2>5, <4>1
    <3>2. peer.by = "background" => peer.tab \in Tab
      BY <1>2, <2>3 DEF Sound, Held, HandlersKnow
    <3>3. p.connected => p.pc # 0
      BY <1>2, <2>6 DEF Sound, Held
    <3>4. QED
      BY <1>2, <1>6, <2>3, <2>6, <3>1, <3>2, <3>3, PeerSound
  <2>8. Sound(r, tries) /\ Flags(p, r) /\ r.shown = p.shown
    <3>1. page.epoch \in Nat
      BY <1>2 DEF Page
    <3>2. QED
      BY <2>7, <3>1, FlagFunctions
  <2> HIDE DEF r
  <2>9. Sound(q, tries) /\ Alike(r, q)
    <3>1. Held(r, tries) /\ OneStreams(r) /\ page.active = r.active
      BY <2>6, <2>8 DEF Sound, Flags
    <3>2. QED
      BY <3>1, PersistSound
  <2> HIDE DEF q
  <2>10. Sound(q, tries')
    BY <1>2, <1>4, <2>9, SameSound
  <2>11. q.active = page.active /\ q.shown = page.shown
    BY <2>6, <2>8, <2>9 DEF Alike, Flags
  <2>12. QED
    BY <1>1, <1>4, <1>6, <2>1, <2>10, <2>11, HandlerKeeps
<1>7. QED
  BY <1>3, <1>5, <1>6

LEMMA SignalErrorKeeps ==
  ASSUME IInv, NEW w \in Attempt, SignalError(w)
  PROVE  IInv'
<1> DEFINE q == [page EXCEPT !.connecting = FALSE]
<1>1. page' = q /\ tries' = tries /\ jobs' = jobs /\ ~Idle
  BY CurrentBusy DEF SignalError
<1>2. page \in Page /\ Sound(page, tries)
  BY Invariants
<1>3. q \in Page /\ Flags(page, q) /\ q.shown = page.shown
  <2>1. q \in Page
    BY <1>2, Values, PageFields
  <2>2. Flags(page, q) /\ q.shown = page.shown
    BY <1>2 DEF Page, Flags
  <2>3. QED
    BY <2>1, <2>2
<1> HIDE DEF q
<1>4. Sound(q, tries)
  BY <1>2, <1>3, FlagsSound
<1>5. QED
  BY <1>1, <1>3, <1>4, PageKeeps DEF Flags

\* Socket w is closed, and the page's own socket is "own" now.
Shut(p, w, own) == [p EXCEPT !.sock[w] = Dead("closed"), !.ws = own]

LEMMA SocketCloseSound ==
  ASSUME NEW p, NEW t, Sound(p, t), NEW w \in Attempt, NEW own \in {0, p.ws},
         NEW q, q = Shut(p, w, own)
  PROVE  /\ Sound(q, t) /\ q.active = p.active /\ q.shown = p.shown /\ q.pc = p.pc
         /\ Quiet(p) => Quiet(q)
<1>1. p \in Page
  BY DEF Sound, Held
<1>2. Dead("closed") \in Sock /\ Dead("closed").by = "nobody"
  BY Values DEF Dead, Sock
<1>3. q = [p EXCEPT !.sock[w] = Dead("closed"), !.ws = own]
  BY DEF Shut
<1>4. own \in Number /\ p.ws \in Number
  BY <1>1, Values DEF Page
<1>5. q \in Page
  <2>1. PICK socks \in [Attempt -> Sock] : socks = [p.sock EXCEPT ![w] = Dead("closed")]
    BY <1>1, <1>2 DEF Page
  <2>2. [p EXCEPT !.sock = socks, !.ws = own] \in Page
    BY <1>1, <1>4, PageFields
  <2>3. q = [p EXCEPT !.sock = socks, !.ws = own]
    BY <1>1, <1>3, <2>1 DEF Page
  <2>4. QED
    BY <2>2, <2>3
<1>6. /\ q.active = p.active /\ q.shown = p.shown /\ q.pc = p.pc /\ q.ws = own
      /\ q.session = p.session /\ q.saved = p.saved /\ q.snap = p.snap /\ q.peer = p.peer
      /\ q.connected = p.connected /\ q.sock = [p.sock EXCEPT ![w] = Dead("closed")]
      /\ q.reconnect = p.reconnect /\ q.connecting = p.connecting /\ q.fallback = p.fallback
      /\ q.recovery = p.recovery
  BY <1>1, <1>3 DEF Page
<1>7. HandlersKnow(q)
  <2>1. \A n \in Attempt : q.sock[n] = Dead("closed") \/ q.sock[n] = p.sock[n]
    BY <1>1, <1>6 DEF Page
  <2>2. q.ws # 0 => q.ws = p.ws /\ q.ws \in Attempt
    BY <1>4, <1>6 DEF Number, Attempt
  <2>3. QED
    BY <1>2, <1>6, <2>1, <2>2 DEF Sound, Held, HandlersKnow
<1>8. Owned(q, t)
  BY <1>6 DEF Sound, Held, Owned, Of
<1>9. OneStreams(q)
  <2>1. \A k : Streams(q, k) <=> Streams(p, k)
    BY <1>6 DEF Streams
  <2>2. OneStreams(p)
    BY DEF Sound
  <2>3. QED
    BY <1>6, <2>1, <2>2 DEF OneStreams
<1>10. Quiet(p) => Quiet(q)
  BY <1>6 DEF Quiet
<1>11. QED
  BY <1>5, <1>6, <1>7, <1>8, <1>9, <1>10 DEF Sound, Held

LEMMA SocketClosesKeeps ==
  ASSUME IInv, NEW w \in Attempt, SocketCloses(w)
  PROVE  IInv'
<1> DEFINE shut == [page EXCEPT !.sock[w] = Dead("closed")]
           p == [shut EXCEPT !.ws = 0]
           cleared == ClearPersisted(p, page.active)
<1>1. page \in Page /\ Sound(page, tries)
  BY Invariants
<1>2. tries' = tries /\ jobs' = jobs
  BY DEF SocketCloses
<1>3. \/ page' = shut
      \/ SocketCurrent(w) /\ page' = Persist(p, page.sock[w].tab, TRUE, FALSE)
      \/ SocketCurrent(w) /\ page' = StopAndReconnect(ClearPersisted(p, page.sock[w].tab))
  BY DEF SocketCloses
<1>4. SocketCurrent(w) => page.sock[w].tab = page.active
  BY <1>1, ScreencastAssumption DEF SocketCurrent, Sound, Held, HandlersKnow, Attempt
<1>5. shut = Shut(page, w, page.ws)
  BY <1>1 DEF Page, Shut
<1>6. p = Shut(page, w, 0)
  BY <1>1 DEF Page, Shut
<1> HIDE DEF p, shut
<1>7. CASE page' = shut
  <2>1. page.ws \in {0, page.ws}
    OBVIOUS
  <2>2. /\ Sound(shut, tries) /\ shut.active = page.active /\ shut.shown = page.shown
        /\ Quiet(page) => Quiet(shut)
    BY <1>1, <1>5, <2>1, SocketCloseSound
  <2>3. QED
    BY <1>2, <1>7, <2>2, PageKeeps, IdleQuiet
<1>8. Sound(p, tries) /\ p.active = page.active /\ p.shown = page.shown
  <2>1. 0 \in {0, page.ws}
    OBVIOUS
  <2>2. QED
    BY <1>1, <1>6, <2>1, SocketCloseSound
<1>9. CASE SocketCurrent(w) /\ page' = Persist(p, page.sock[w].tab, TRUE, FALSE)
  <2>1. PICK q : q = page'
    OBVIOUS
  <2>2. q = Persist(p, p.active, TRUE, FALSE)
    BY <1>4, <1>8, <1>9, <2>1
  <2>3. Sound(q, tries) /\ Alike(p, q)
    BY <1>8, <2>2, PersistSound DEF Sound
  <2>4. q.active = page.active /\ q.shown = page.shown
    BY <1>8, <2>3 DEF Alike
  <2>5. ~Idle
    BY <1>9, CurrentBusy
  <2>6. QED
    BY <1>2, <2>1, <2>3, <2>4, <2>5, PageKeeps
<1>10. CASE SocketCurrent(w) /\ page' = StopAndReconnect(ClearPersisted(p, page.sock[w].tab))
  <2>1. PICK q : q = page'
    OBVIOUS
  <2>2. q = StopAndReconnect(cleared)
    BY <1>4, <1>10, <2>1
  <2>3. Sound(cleared, tries) /\ Alike(p, cleared)
    BY <1>1, <1>8, ClearPersistedSound DEF Page
  <2> HIDE DEF cleared
  <2>4. Sound(q, tries) /\ q.active = cleared.active /\ q.shown = cleared.shown
    BY <2>2, <2>3, StopAndReconnectSound
  <2>5. q.active = page.active /\ q.shown = page.shown
    BY <1>8, <2>3, <2>4 DEF Alike
  <2>6. ~Idle
    BY <1>10, CurrentBusy
  <2>7. QED
    BY <1>2, <2>1, <2>4, <2>5, <2>6, PageKeeps
<1>11. QED
  BY <1>3, <1>7, <1>9, <1>10

\* Peer connection n is in another state.
InState(p, n, state) == [p EXCEPT !.peer[n].state = state]

PeerState == {"connected", "disconnected", "failed"}

LEMMA InStateSound ==
  ASSUME NEW p, NEW t, Sound(p, t), NEW n \in Attempt, NEW state \in PeerState,
         p.peer[n].state # "closed",
         NEW q, q = InState(p, n, state)
  PROVE  /\ Sound(q, t) /\ Alike(p, q)
         /\ \A m \in Attempt : q.peer[m].by = p.peer[m].by /\ q.peer[m].tab = p.peer[m].tab
<1> DEFINE peer == [p.peer[n] EXCEPT !.state = state]
<1>1. p \in Page
  BY DEF Sound, Held
<1>2. p.peer[n] \in Peer
  BY <1>1 DEF Page
<1>3. peer \in Peer /\ peer.by = p.peer[n].by /\ peer.tab = p.peer[n].tab
  BY <1>2 DEF Peer, PeerState
<1>4. q = [p EXCEPT !.peer = [p.peer EXCEPT ![n] = peer]]
  BY <1>1 DEF InState, Page
<1> HIDE DEF peer
<1>5. q \in Page /\ q.peer = [p.peer EXCEPT ![n] = peer]
  <2>1. PICK peers \in [Attempt -> Peer] : peers = [p.peer EXCEPT ![n] = peer]
    BY <1>1, <1>3 DEF Page
  <2>2. [p EXCEPT !.peer = peers] \in Page
    BY <1>1, PageFields
  <2>3. q = [p EXCEPT !.peer = peers]
    BY <1>4, <2>1
  <2>4. q.peer = peers
    BY <1>1, <2>3 DEF Page
  <2>5. QED
    BY <2>1, <2>2, <2>3, <2>4
<1>6. Alike(p, q) /\ q.snap = p.snap /\ q.sock = p.sock
  BY <1>1, <1>4 DEF Alike, Page
<1>7. Sound(q, t)
  <2>1. peer.by = "background" => peer.tab \in Tab
    BY <1>3 DEF Sound, Held, HandlersKnow
  <2>2. q.connected => q.pc # 0
    BY <1>6 DEF Alike, Sound, Held
  <2>3. /\ q.pc = p.pc /\ q.ws = p.ws /\ q.session = p.session /\ q.active = p.active
        /\ q.saved = p.saved
    BY <1>6 DEF Alike
  <2>4. QED
    BY <1>3, <1>5, <1>6, <2>1, <2>2, <2>3, PeerSound
<1>8. \A m \in Attempt : q.peer[m] = IF m = n THEN peer ELSE p.peer[m]
  BY <1>1, <1>5 DEF Page
<1>9. QED
  BY <1>3, <1>6, <1>7, <1>8

\* Flags and timers of a view that holds a connection; "connected" is one of them.
LEMMA ConnectedSound ==
  ASSUME NEW p, NEW t, Sound(p, t), p.pc # 0, NEW q \in Page,
         q.pc = p.pc, q.ws = p.ws, q.session = p.session, q.active = p.active,
         q.saved = p.saved, q.snap = p.snap, q.peer = p.peer, q.sock = p.sock
  PROVE  Sound(q, t)
<1>1. Owned(q, t) /\ HandlersKnow(q)
  BY DEF Sound, Held, Owned, HandlersKnow
<1>2. OneStreams(q)
  BY DEF Sound, OneStreams, Streams
<1>3. QED
  BY <1>1, <1>2 DEF Sound, Held

\* Neither the jobs nor the page know another tab or a view that is away afterwards.
LEMMA JobsKeep ==
  ASSUME IInv, ~Idle, NEW q, Sound(q, tries), q.active = page.active, q.shown = page.shown,
         page' = q, tries' = tries, jobs' \subseteq Job, Coming \notin jobs',
         \A k \in Tab : <<"switch", k>> \in jobs' => <<"switch", k>> \in jobs
  PROVE  IInv'
BY Invariants DEF IInv, Away, Switching, Idle

LEMMA ViewPeerKeeps ==
  ASSUME IInv, NEW n \in Attempt, NEW state \in PeerState,
         page.peer[n].state # "closed", PeerCurrent(n),
         ViewPeer(n, state), tries' = tries
  PROVE  IInv'
<1> DEFINE r == InState(page, n, state)
<1>1. page \in Page /\ Sound(page, tries) /\ page.epoch \in Nat /\ page.pc = n /\ n # 0 /\ ~Idle
  BY Invariants, CurrentBusy, ScreencastAssumption DEF Page, PeerCurrent, Attempt
<1>2. Sound(r, tries) /\ Alike(page, r)
  BY <1>1, InStateSound
<1>3. r \in Page /\ r.pc = n /\ r.pc # 0 /\ r.active = page.active /\ r.shown = page.shown
  BY <1>1, <1>2 DEF Sound, Held, Alike
<1>4. CASE state = "connected"
  <2> DEFINE on == [r EXCEPT !.connected = TRUE, !.connecting = FALSE, !.reconnect = FALSE,
                             !.fallback = FALSE, !.restarting = FALSE]
             up == StartHeartbeat(on)
             late == ScheduleVideoRecovery(up, page.epoch)
  <2>1. jobs' = jobs /\ \/ page' = Persist(up, page.active, TRUE, FALSE)
                        \/ page' = Persist(late, page.active, TRUE, FALSE)
    BY <1>4 DEF ViewPeer, InState
  <2> HIDE DEF r
  <2>2. on \in Page
    BY <1>3, Values, PageFields
  <2>3. /\ on.pc = r.pc /\ on.ws = r.ws /\ on.session = r.session /\ on.active = r.active
        /\ on.saved = r.saved /\ on.snap = r.snap /\ on.peer = r.peer /\ on.sock = r.sock
        /\ on.shown = r.shown
    BY <1>3 DEF Page
  <2> HIDE DEF on
  <2>4. Sound(on, tries)
    BY <1>2, <1>3, <2>2, <2>3, ConnectedSound
  <2>5. Sound(up, tries) /\ Alike(on, up)
    BY <2>4, StartHeartbeatSound
  <2> HIDE DEF up
  <2>6. Sound(late, tries) /\ Flags(up, late) /\ late.shown = up.shown
    BY <1>1, <2>5, FlagFunctions
  <2> HIDE DEF late
  <2>7. up.active = page.active /\ up.shown = page.shown
    BY <1>3, <2>3, <2>5 DEF Alike
  <2>8. late.active = page.active /\ late.shown = page.shown
    BY <2>6, <2>7 DEF Flags
  <2>9. ASSUME NEW s, Sound(s, tries), s.active = page.active, s.shown = page.shown,
               page' = Persist(s, page.active, TRUE, FALSE)
        PROVE  IInv'
    <3>1. PICK q : q = page'
      OBVIOUS
    <3>2. Sound(q, tries) /\ Alike(s, q)
      BY <2>9, <3>1, PersistSound DEF Sound
    <3>3. q.active = page.active /\ q.shown = page.shown
      BY <2>9, <3>2 DEF Alike
    <3>4. QED
      BY <1>1, <2>1, <3>1, <3>2, <3>3, PageKeeps
  <2>10. QED
    BY <2>1, <2>5, <2>6, <2>7, <2>8, <2>9
<1>5. CASE state # "connected"
  <2> DEFINE off == [r EXCEPT !.connected = FALSE, !.connecting = FALSE]
             ice == [off EXCEPT !.restarting = TRUE, !.connecting = TRUE, !.connected = FALSE]
  <2>1. \/ page' = StopAndReconnect(off) /\ jobs' = jobs
        \/ page' = off /\ jobs' = jobs
        \/ page' = ice /\ jobs' = jobs \cup {<<"ice", n>>}
    BY <1>5 DEF ViewPeer, InState, Recoverable
  <2> HIDE DEF r
  <2>2. /\ off \in Page
        /\ off.pc = r.pc /\ off.ws = r.ws /\ off.session = r.session /\ off.active = r.active
        /\ off.saved = r.saved /\ off.snap = r.snap /\ off.peer = r.peer /\ off.sock = r.sock
        /\ off.shown = r.shown
    <3>1. off \in Page
      BY <1>3, Values, PageFields
    <3>2. /\ off.pc = r.pc /\ off.ws = r.ws /\ off.session = r.session /\ off.active = r.active
          /\ off.saved = r.saved /\ off.snap = r.snap /\ off.peer = r.peer /\ off.sock = r.sock
          /\ off.shown = r.shown
      BY <1>3 DEF Page
    <3>3. QED
      BY <3>1, <3>2
  <2> HIDE DEF off
  <2>3. Sound(off, tries)
    BY <1>2, <1>3, <2>2, ConnectedSound
  <2>4. CASE page' = StopAndReconnect(off) /\ jobs' = jobs
    <3>1. PICK q : q = page'
      OBVIOUS
    <3>2. Sound(q, tries) /\ q.active = off.active /\ q.shown = off.shown
      BY <2>3, <2>4, <3>1, StopAndReconnectSound
    <3>3. QED
      BY <1>1, <1>3, <2>2, <2>4, <3>1, <3>2, PageKeeps
  <2>5. CASE page' = off /\ jobs' = jobs
    BY <1>1, <1>3, <2>2, <2>3, <2>5, PageKeeps
  <2>6. CASE page' = ice /\ jobs' = jobs \cup {<<"ice", n>>}
    <3>1. /\ ice \in Page
          /\ ice.pc = off.pc /\ ice.ws = off.ws /\ ice.session = off.session
          /\ ice.active = off.active /\ ice.saved = off.saved /\ ice.snap = off.snap
          /\ ice.peer = off.peer /\ ice.sock = off.sock /\ ice.shown = off.shown
      <4>1. ice \in Page
        BY <2>2, Values, PageFields
      <4>2. /\ ice.pc = off.pc /\ ice.ws = off.ws /\ ice.session = off.session
            /\ ice.active = off.active /\ ice.saved = off.saved /\ ice.snap = off.snap
            /\ ice.peer = off.peer /\ ice.sock = off.sock /\ ice.shown = off.shown
        BY <2>2 DEF Page
      <4>3. QED
        BY <4>1, <4>2
    <3> HIDE DEF ice
    <3>2. Sound(ice, tries) /\ ice.active = page.active /\ ice.shown = page.shown
      BY <1>3, <2>2, <2>3, <3>1, ConnectedSound
    <3>3. /\ jobs' \subseteq Job /\ Coming \notin jobs'
          /\ \A k \in Tab : <<"switch", k>> \in jobs' => <<"switch", k>> \in jobs
      BY <1>1, <2>6 DEF IInv, Job, Idle, Coming
    <3>4. QED
      BY <1>1, <2>6, <3>2, <3>3, JobsKeep
  <2>7. QED
    BY <2>1, <2>4, <2>5, <2>6
<1>6. QED
  BY <1>4, <1>5

\* A connection in the background: it is disposed of when it fails, and may be
\* disposed of later when it is disconnected.
LEMMA BackgroundPeerKeeps ==
  ASSUME IInv, NEW n \in Attempt, NEW state \in PeerState,
         page.peer[n].state # "closed", page.peer[n].by = "background",
         BackgroundPeer(n, state), tries' = tries
  PROVE  IInv'
<1> DEFINE r     == InState(page, n, state)
           k     == page.peer[n].tab
           grace == <<n, k, page.peer[n].epoch>>
           less  == [r EXCEPT !.doom = @ \ {grace}]
           more  == [r EXCEPT !.doom = @ \cup {grace}]
<1>1. page \in Page /\ Sound(page, tries)
  BY Invariants
<1>2. k \in Tab /\ grace \in Attempt \X Tab \X Nat
  <2>1. k \in Tab
    BY <1>1 DEF Sound, Held, HandlersKnow
  <2>2. page.peer[n].epoch \in Nat
    BY <1>1 DEF Page, Peer
  <2>3. QED
    BY <2>1, <2>2
<1>3. Sound(r, tries) /\ Alike(page, r)
  BY <1>1, InStateSound
<1>4. jobs' = jobs /\ page' \in {less, more, Dispose(less, {k})}
  BY DEF BackgroundPeer, InState
<1> HIDE DEF r, k, grace
<1>5. /\ less \in Page /\ Flags(r, less) /\ Alike(r, less)
      /\ more \in Page /\ Flags(r, more) /\ Alike(r, more)
  <2>1. r \in Page /\ r.doom \subseteq Attempt \X Tab \X Nat
    BY <1>3 DEF Sound, Held, Page
  <2>2. r.doom \ {grace} \in SUBSET (Attempt \X Tab \X Nat)
    BY <2>1
  <2>3. r.doom \cup {grace} \in SUBSET (Attempt \X Tab \X Nat)
    BY <1>2, <2>1
  <2>4. less \in Page /\ more \in Page
    <3>1. PICK fewer \in SUBSET (Attempt \X Tab \X Nat) : fewer = r.doom \ {grace}
      BY <2>2
    <3>2. PICK others \in SUBSET (Attempt \X Tab \X Nat) : others = r.doom \cup {grace}
      BY <2>3
    <3>3. [r EXCEPT !.doom = fewer] \in Page /\ [r EXCEPT !.doom = others] \in Page
      BY <2>1, PageFields
    <3>4. QED
      BY <3>1, <3>2, <3>3
  <2>5. Flags(r, less) /\ Alike(r, less) /\ Flags(r, more) /\ Alike(r, more)
    BY <2>1 DEF Page, Flags, Alike
  <2>6. QED
    BY <2>4, <2>5
<1> HIDE DEF less, more
<1>6. Sound(less, tries) /\ Sound(more, tries)
  BY <1>3, <1>5, FlagsSound
<1>7. ASSUME NEW q, page' = q, Sound(q, tries), Alike(less, q) \/ Alike(more, q)
      PROVE  IInv'
  <2>1. Alike(page, q)
    BY <1>3, <1>5, <1>7 DEF Alike
  <2>2. q.active = page.active /\ q.shown = page.shown /\ (Quiet(page) => Quiet(q))
    BY <2>1 DEF Alike, Quiet
  <2>3. QED
    BY <1>4, <1>7, <2>2, PageKeeps, IdleQuiet
<1>8. CASE page' \in {less, more}
  BY <1>6, <1>7, <1>8 DEF Alike
<1>9. CASE page' = Dispose(less, {k})
  <2>1. PICK q : q = page'
    OBVIOUS
  <2>2. PICK K : K = {k}
    OBVIOUS
  <2>3. K \in SUBSET Tab /\ q = Dispose(less, K)
    BY <1>2, <1>9, <2>1, <2>2
  <2>4. Sound(q, tries) /\ Alike(less, q)
    BY <1>6, <2>3, DisposeSound
  <2>5. QED
    BY <1>7, <2>1, <2>4
<1>10. QED
  BY <1>4, <1>8, <1>9

LEMMA PeerChangesKeeps ==
  ASSUME IInv, NEW n \in Attempt, NEW state \in PeerState, PeerChanges(n, state)
  PROVE  IInv'
<1>1. page.peer[n].state # "closed" /\ tries' = tries
  BY DEF PeerChanges, Becomes
<1>2. \/ PeerCurrent(n) /\ ViewPeer(n, state)
      \/ page.peer[n].by = "background" /\ BackgroundPeer(n, state)
      \/ page' = InState(page, n, state) /\ jobs' = jobs
  BY DEF PeerChanges, InState
<1>3. CASE page' = InState(page, n, state) /\ jobs' = jobs
  <2>1. PICK q : q = page'
    OBVIOUS
  <2>2. Sound(q, tries) /\ Alike(page, q)
    BY <1>1, <1>3, <2>1, Invariants, InStateSound
  <2>3. q.active = page.active /\ q.shown = page.shown /\ (Quiet(page) => Quiet(q))
    BY <2>2 DEF Alike, Quiet
  <2>4. QED
    BY <1>1, <1>3, <2>1, <2>2, <2>3, PageKeeps, IdleQuiet
<1>4. QED
  BY <1>1, <1>2, <1>3, ViewPeerKeeps, BackgroundPeerKeeps

\* The offer for an ICE restart; the page may hold another connection by now.
LEMMA IceOfferedKeeps ==
  ASSUME IInv, NEW n \in Attempt, IceOffered(n)
  PROVE  IInv'
<1> DEFINE w == page.ws
           peer == [page.peer[n] EXCEPT !.stable = FALSE]
           p == [page EXCEPT !.restarting = FALSE, !.fallback = FALSE]
           q == [page EXCEPT !.fallback = TRUE, !.peer[n].stable = FALSE]
<1>1. page \in Page /\ Sound(page, tries) /\ tries \in Seq(Try) /\ Asking(tries, page.active)
  BY Invariants
<1>2. /\ ~Idle /\ <<"ice", n>> \in jobs /\ jobs' = jobs \ {<<"ice", n>>}
  BY IdleQuiet DEF IceOffered, Coming
<1>3. /\ jobs' \subseteq Job /\ Coming \notin jobs'
      /\ \A k \in Tab : <<"switch", k>> \in jobs' => <<"switch", k>> \in jobs
  BY <1>2 DEF IInv, Idle
<1>4. \/ /\ page.pc = n /\ w # 0 /\ page.peer[n].state # "closed"
         /\ page' = q /\ tries' = [tries EXCEPT ![w].offered = n]
      \/ page' = StopAndReconnect(p) /\ tries' = tries
  BY DEF IceOffered
<1>5. CASE page' = StopAndReconnect(p) /\ tries' = tries
  <2>1. p \in Page /\ Flags(page, p) /\ p.shown = page.shown
    <3>1. p \in Page
      BY <1>1, Values, PageFields
    <3>2. Flags(page, p) /\ p.shown = page.shown
      BY <1>1 DEF Page, Flags
    <3>3. QED
      BY <3>1, <3>2
  <2> HIDE DEF p
  <2>2. Sound(p, tries)
    BY <1>1, <2>1, FlagsSound
  <2>3. PICK s : s = page'
    OBVIOUS
  <2>4. Sound(s, tries) /\ s.active = page.active /\ s.shown = page.shown
    BY <1>5, <2>1, <2>2, <2>3, StopAndReconnectSound DEF Flags
  <2>5. QED
    BY <1>2, <1>3, <1>5, <2>3, <2>4, JobsKeep
<1>6. CASE /\ page.pc = n /\ w # 0 /\ page.peer[n].state # "closed"
           /\ page' = q /\ tries' = [tries EXCEPT ![w].offered = n]
  <2>1. w \in DOMAIN tries /\ n \in Number /\ n # 0
    BY <1>1, <1>6, ScreencastAssumption DEF Sound, Held, Owned, Of, Number, Attempt
  <2>2. SameTries(tries, tries') /\ Asking(tries', page.active)
    BY <1>6, <2>1, OfferedChanges
  <2>3. page.peer[n] \in Peer
    BY <1>1 DEF Page
  <2>4. peer \in Peer /\ peer.by = page.peer[n].by /\ peer.tab = page.peer[n].tab
    BY <2>3, Values DEF Peer
  <2>5. q = [page EXCEPT !.fallback = TRUE, !.peer = [page.peer EXCEPT ![n] = peer]]
    BY <1>1 DEF Page
  <2> HIDE DEF peer
  <2>6. q \in Page
    <3>1. PICK peers \in [Attempt -> Peer] : peers = [page.peer EXCEPT ![n] = peer]
      BY <1>1, <2>4 DEF Page
    <3>2. [page EXCEPT !.fallback = TRUE, !.peer = peers] \in Page
      BY <1>1, Values, PageFields
    <3>3. q = [page EXCEPT !.fallback = TRUE, !.peer = peers]
      BY <2>5, <3>1
    <3>4. QED
      BY <3>2, <3>3
  <2>7. /\ q.pc = page.pc /\ q.ws = page.ws /\ q.session = page.session /\ q.active = page.active
        /\ q.saved = page.saved /\ q.snap = page.snap /\ q.sock = page.sock /\ q.shown = page.shown
        /\ q.peer = [page.peer EXCEPT ![n] = peer]
    BY <1>1, <2>5 DEF Page
  <2> HIDE DEF q
  <2>8. Sound(q, tries)
    <3>1. peer.by = "background" => peer.tab \in Tab
      BY <1>1, <2>4 DEF Sound, Held, HandlersKnow
    <3>2. q.connected => q.pc # 0
      BY <1>6, <2>1, <2>7
    <3>3. QED
      BY <1>1, <1>6, <2>4, <2>6, <2>7, <3>1, <3>2, PeerSound
  <2>9. Sound(q, tries')
    BY <1>1, <2>2, <2>8, SameSound
  <2>10. QED
    BY <1>1, <1>2, <1>3, <1>6, <2>2, <2>7, <2>9 DEF IInv, Away, Switching, Idle
<1>7. QED
  BY <1>4, <1>5, <1>6

\* The connection that the view holds is lost.
LEMMA LostKeeps ==
  ASSUME IInv, NEW n \in Attempt, VideoTrackEnded(n) \/ ControlLost(n)
  PROVE  IInv'
<1> DEFINE p == Persist(page, page.active, TRUE, FALSE)
<1>1. ~Idle /\ tries' = tries /\ jobs' = jobs /\ page \in Page /\ Sound(page, tries)
  BY CurrentBusy, Invariants DEF VideoTrackEnded, ControlLost
<1>2. page' = p \/ page' = StopAndReconnect(p)
  BY DEF VideoTrackEnded, ControlLost, Wired
<1>3. Sound(p, tries) /\ Alike(page, p)
  BY <1>1, PersistSound DEF Sound
<1> HIDE DEF p
<1>4. PICK q : q = page'
  OBVIOUS
<1>5. Sound(q, tries) /\ q.active = page.active /\ q.shown = page.shown
  BY <1>2, <1>3, <1>4, StopAndReconnectSound DEF Alike
<1>6. QED
  BY <1>1, <1>4, <1>5, PageKeeps

---------------------------------------------------------------------------
(* The timers                                                              *)

LEMMA FallbackDueKeeps ==
  ASSUME IInv, FallbackDue
  PROVE  IInv'
<1> DEFINE p == [page EXCEPT !.fallback = FALSE]
           r == [p EXCEPT !.restarting = FALSE]
<1>1. ~Idle /\ tries' = tries /\ jobs' = jobs /\ page \in Page /\ Sound(page, tries)
  BY IdleQuiet, Invariants DEF FallbackDue, Quiet
<1>2. page' \in {p, r, StopAndReconnect(p)}
  BY DEF FallbackDue
<1>3. /\ p \in Page /\ Flags(page, p) /\ p.shown = page.shown
      /\ r \in Page /\ Flags(page, r) /\ r.shown = page.shown
  <2>1. p \in Page /\ r \in Page
    BY <1>1, Values, PageFields
  <2>2. Flags(page, p) /\ p.shown = page.shown
    BY <1>1 DEF Page, Flags
  <2>3. Flags(page, r) /\ r.shown = page.shown
    BY <1>1 DEF Page, Flags
  <2>4. QED
    BY <2>1, <2>2, <2>3
<1> HIDE DEF p, r
<1>4. Sound(p, tries) /\ Sound(r, tries)
  BY <1>1, <1>3, FlagsSound
<1>5. PICK q : q = page'
  OBVIOUS
<1>6. Sound(q, tries) /\ q.active = page.active /\ q.shown = page.shown
  BY <1>2, <1>3, <1>4, <1>5, StopAndReconnectSound DEF Flags
<1>7. QED
  BY <1>1, <1>5, <1>6, PageKeeps

LEMMA RecoveryDueKeeps ==
  ASSUME IInv, NEW video \in BOOLEAN, RecoveryDue(video)
  PROVE  IInv'
<1> DEFINE p == [page EXCEPT !.recovery = 0]
<1>1. ~Idle /\ tries' = tries /\ jobs' = jobs /\ page \in Page /\ Sound(page, tries)
  BY IdleQuiet, Invariants DEF RecoveryDue, Quiet
<1>2. page' \in {p, StopAndReconnect(p)}
  BY DEF RecoveryDue
<1>3. p \in Page /\ Flags(page, p) /\ p.shown = page.shown
  <2>1. p \in Page
    BY <1>1, Values, PageFields
  <2>2. Flags(page, p) /\ p.shown = page.shown
    BY <1>1 DEF Page, Flags
  <2>3. QED
    BY <2>1, <2>2
<1> HIDE DEF p
<1>4. Sound(p, tries)
  BY <1>1, <1>3, FlagsSound
<1>5. PICK q : q = page'
  OBVIOUS
<1>6. Sound(q, tries) /\ q.active = page.active /\ q.shown = page.shown
  BY <1>2, <1>3, <1>4, <1>5, StopAndReconnectSound DEF Flags
<1>7. QED
  BY <1>1, <1>5, <1>6, PageKeeps

LEMMA GraceOverKeeps ==
  ASSUME IInv, NEW d \in page.doom, GraceOver(d)
  PROVE  IInv'
<1> DEFINE p == [page EXCEPT !.doom = @ \ {d}]
<1>1. tries' = tries /\ jobs' = jobs /\ page \in Page /\ Sound(page, tries)
  BY Invariants DEF GraceOver
<1>2. page' \in {p, Dispose(p, {d[2]})}
  BY DEF GraceOver
<1>3. p \in Page /\ Flags(page, p) /\ Alike(page, p) /\ d[2] \in Tab
  <2>1. page.doom \in SUBSET (Attempt \X Tab \X Nat)
    BY <1>1 DEF Page
  <2>2. page.doom \ {d} \in SUBSET (Attempt \X Tab \X Nat) /\ d[2] \in Tab
    BY <2>1
  <2>3. p \in Page
    <3>1. PICK fewer \in SUBSET (Attempt \X Tab \X Nat) : fewer = page.doom \ {d}
      BY <2>2
    <3>2. [page EXCEPT !.doom = fewer] \in Page
      BY <1>1, PageFields
    <3>3. QED
      BY <3>1, <3>2
  <2>4. Flags(page, p) /\ Alike(page, p)
    BY <1>1 DEF Page, Flags, Alike
  <2>5. QED
    BY <2>2, <2>3, <2>4
<1> HIDE DEF p
<1>4. Sound(p, tries)
  BY <1>1, <1>3, FlagsSound
<1>5. PICK q : q = page'
  OBVIOUS
<1>6. Sound(q, tries) /\ Alike(page, q)
  <2>1. CASE q = p
    BY <1>3, <1>4, <2>1
  <2>2. CASE q = Dispose(p, {d[2]})
    <3>1. PICK K : K = {d[2]}
      OBVIOUS
    <3>2. K \in SUBSET Tab /\ q = Dispose(p, K)
      BY <1>3, <2>2, <3>1
    <3>3. Sound(q, tries) /\ Alike(p, q)
      BY <1>4, <3>2, DisposeSound
    <3>4. QED
      BY <1>3, <3>3 DEF Alike
  <2>3. QED
    BY <1>2, <1>5, <2>1, <2>2
<1>7. q.active = page.active /\ q.shown = page.shown /\ (Quiet(page) => Quiet(q))
  BY <1>6 DEF Alike, Quiet
<1>8. QED
  BY <1>1, <1>5, <1>6, <1>7, PageKeeps, IdleQuiet

---------------------------------------------------------------------------
(* Connecting                                                              *)

\* An attempt is begun for page p, of a view that is not idle.
LEMMA StartSound ==
  ASSUME NEW p, Sound(p, tries), Asking(tries, p.active), p.active # None, Start(p)
  PROVE  /\ Sound(page', tries') /\ Asking(tries', p.active)
         /\ page'.active = p.active /\ page'.shown = p.shown
<1>1. PICK q : q = page'
  OBVIOUS
<1>2. Sound(q, tries) /\ q.active = p.active /\ q.shown = p.shown
  BY <1>1, PrepareSound DEF Start
<1>3. Len(tries) < MaxAttempts /\ tries' = Append(tries, Ask(p))
  BY DEF Start
<1>4. PICK u : u = tries'
  OBVIOUS
<1>5. Sound(q, u) /\ Asking(u, p.active)
  BY <1>2, <1>3, <1>4, TryAppended
<1>6. QED
  BY <1>1, <1>2, <1>4, <1>5

\* Whatever the view does then, with fewer jobs or for the same tab.
LEMMA BusyKeeps ==
  ASSUME IInv, Sound(page', tries'), Asking(tries', page'.active),
         page'.shown, jobs' \subseteq Job, Coming \notin jobs',
         \A k \in Tab : <<"switch", k>> \in jobs' => k = page'.active
  PROVE  IInv'
BY DEF IInv, Away, Switching

LEMMA ReconnectDueKeeps ==
  ASSUME IInv, ReconnectDue
  PROVE  IInv'
<1> DEFINE p == [page EXCEPT !.reconnect = FALSE]
<1>1. ~Idle /\ jobs' = jobs /\ page \in Page /\ Sound(page, tries) /\ Asking(tries, page.active)
  BY IdleQuiet, Invariants DEF ReconnectDue, Quiet
<1>2. (page' = p /\ tries' = tries) \/ (p.active # None /\ Start(p))
  BY DEF ReconnectDue, Resting
<1>3. p \in Page /\ Flags(page, p) /\ p.shown = page.shown
  <2>1. p \in Page
    BY <1>1, Values, PageFields
  <2>2. Flags(page, p) /\ p.shown = page.shown
    BY <1>1 DEF Page, Flags
  <2>3. QED
    BY <2>1, <2>2
<1> HIDE DEF p
<1>4. Sound(p, tries) /\ Asking(tries, p.active)
  BY <1>1, <1>3, FlagsSound DEF Flags
<1>5. CASE page' = p /\ tries' = tries
  BY <1>1, <1>3, <1>4, <1>5, PageKeeps DEF Flags
<1>6. CASE p.active # None /\ Start(p)
  <2>1. /\ Sound(page', tries') /\ Asking(tries', p.active)
        /\ page'.active = p.active /\ page'.shown = p.shown
    BY <1>4, <1>6, StartSound
  <2>2. QED
    BY <1>1, <1>3, <2>1, HandlerKeeps DEF Flags
<1>7. QED
  BY <1>2, <1>5, <1>6

\* scheduleStartConnection, of a view whose page has become p.
LEMMA ScheduleStartSound ==
  ASSUME NEW p, Sound(p, tries), Asking(tries, p.active), ScheduleStartConnection(p)
  PROVE  /\ Sound(page', tries') /\ Asking(tries', p.active)
         /\ page'.active = p.active /\ page'.shown = p.shown
<1> DEFINE enabled == EnableAutoReconnect(p)
<1>1. (page' = p /\ tries' = tries) \/ (p.active # None /\ Start(enabled))
  BY DEF ScheduleStartConnection, Resting
<1>2. Sound(enabled, tries) /\ Flags(p, enabled) /\ enabled.shown = p.shown
  BY FlagFunctions, Values
<1> HIDE DEF enabled
<1>3. CASE page' = p /\ tries' = tries
  BY <1>3
<1>4. CASE p.active # None /\ Start(enabled)
  <2>1. enabled.active = p.active
    BY <1>2 DEF Flags
  <2>2. QED
    BY <1>2, <1>4, <2>1, StartSound
<1>5. QED
  BY <1>1, <1>3, <1>4

---------------------------------------------------------------------------
(* What the user does                                                      *)

\* A patient user acts when nothing waits.
LEMMA SettledQuiet ==
  ASSUME IInv, Patient, Settled
  PROVE  jobs = {} /\ NobodyWaits(tries)
BY DEF Settled, NobodyWaits, Waits

\* Page p with other tabs, k of them shown.
Showing(p, tabs, k) == [p EXCEPT !.tabs = tabs, !.active = k]

\* A page that holds nothing can show any tab.
LEMMA ShowSound ==
  ASSUME NEW p, NEW t, Sound(p, t), p.pc = 0, p.ws = 0, p.session = 0, NEW k \in MaybeTab,
         NEW tabs \in SUBSET Tab,
         NEW q, q = Showing(p, tabs, k)
  PROVE  /\ Sound(q, t) /\ q.active = k /\ q.shown = p.shown
         /\ q.pc = 0 /\ q.ws = 0 /\ q.session = 0
         /\ Quiet(p) => Quiet(q)
<1>1. p \in Page
  BY DEF Sound, Held
<1>2. q \in Page
  BY <1>1, PageFields DEF Showing
<1>3. /\ q.active = k /\ q.shown = p.shown /\ q.pc = 0 /\ q.ws = 0 /\ q.session = 0
      /\ q.saved = p.saved /\ q.snap = p.snap /\ q.peer = p.peer /\ q.sock = p.sock
      /\ q.connected = p.connected
      /\ q.reconnect = p.reconnect /\ q.connecting = p.connecting /\ q.fallback = p.fallback
      /\ q.recovery = p.recovery
  BY <1>1 DEF Page, Showing
<1>4. Owned(q, t) /\ HandlersKnow(q)
  BY <1>3 DEF Sound, Held, Owned, Of, HandlersKnow
<1>5. OneStreams(q)
  BY <1>3 DEF Sound, OneStreams, Streams
<1>6. QED
  BY <1>2, <1>3, <1>4, <1>5 DEF Sound, Held, Quiet

LEMMA AskingAnything ==
  ASSUME NEW t, NEW active, Asking(t, active), NobodyWaits(t), NEW k
  PROVE  Asking(t, k)
BY DEF Asking, NobodyWaits

\* The tab that was shown is detached from the view before another one is shown.
LEMMA ActivateTabKeeps ==
  ASSUME IInv, Patient, NEW k \in Tab, ActivateTab(k)
  PROVE  IInv'
<1> DEFINE off  == DisableAutoReconnect(page)
           left == Stop(off, TRUE, page.active, FALSE)
<1>1. jobs = {} /\ NobodyWaits(tries) /\ page.shown /\ tries' = tries /\ jobs' = {<<"switch", k>>}
  BY SettledQuiet DEF ActivateTab
<1>2. page \in Page /\ Sound(page, tries) /\ Asking(tries, page.active)
  BY Invariants
<1>3. \E p : /\ page' = EnableAutoReconnect([p EXCEPT !.active = k])
             /\ p = IF page.active \in {None, k} THEN page ELSE left
  BY DEF ActivateTab
<1>4. PICK p : /\ page' = EnableAutoReconnect([p EXCEPT !.active = k])
               /\ p = IF page.active \in {None, k} THEN page ELSE left
  BY <1>3
<1>5. Sound(off, tries) /\ Flags(page, off) /\ off.shown = page.shown
  BY <1>2, FlagFunctions, Values
<1> HIDE DEF off
<1>6. PICK preserve \in BOOLEAN, others \in BOOLEAN : preserve = TRUE /\ others = FALSE
  OBVIOUS
<1>7. left = Stop(off, preserve, off.active, others)
  BY <1>5, <1>6 DEF Flags
<1> HIDE DEF left
<1>8. /\ Sound(left, tries) /\ left.pc = 0 /\ left.ws = 0 /\ left.session = 0
      /\ left.shown = page.shown
  <2>1. Sound(left, tries) /\ Quiet(left) /\ left.shown = off.shown
    BY <1>5, <1>7, StopSound
  <2>2. QED
    BY <1>5, <2>1 DEF Quiet
<1>9. /\ Sound(p, tries) /\ p.shown = page.shown /\ p.tabs \in SUBSET Tab /\ p \in Page
      /\ \/ p.pc = 0 /\ p.ws = 0 /\ p.session = 0
         \/ p.active = k
  BY <1>2, <1>4, <1>8, NothingActive DEF Sound, Held, Page
<1>10. PICK r : r = [p EXCEPT !.active = k]
  OBVIOUS
<1>11. Sound(r, tries) /\ r.active = k /\ r.shown = page.shown
  <2>1. CASE p.active = k
    <3>1. r = p
      BY <1>9, <1>10, <2>1 DEF Page
    <3>2. QED
      BY <1>9, <2>1, <3>1
  <2>2. CASE p.pc = 0 /\ p.ws = 0 /\ p.session = 0
    <3>1. r = Showing(p, p.tabs, k) /\ k \in MaybeTab
      BY <1>9, <1>10 DEF Page, MaybeTab, Showing
    <3>2. QED
      BY <1>9, <2>2, <3>1, ShowSound
  <2>3. QED
    BY <1>9, <2>1, <2>2
<1>12. PICK q : q = page'
  OBVIOUS
<1>13. q = EnableAutoReconnect(r)
  BY <1>4, <1>10, <1>12
<1>14. Sound(q, tries) /\ q.active = k /\ q.shown = page.shown
  BY <1>11, <1>13, FlagFunctions, Values DEF Flags
<1>15. Asking(tries, k)
  BY <1>1, <1>2, AskingAnything
<1>16. jobs' \subseteq Job /\ Coming \notin jobs' /\ \A l \in Tab : <<"switch", l>> \in jobs' => l = k
  BY <1>1 DEF Job, Coming
<1>17. QED
  BY <1>1, <1>12, <1>14, <1>15, <1>16, BusyKeeps

\* A page that forgets tab k, and the session it had.
Forgotten(p, k) == [p EXCEPT !.tabs = @ \ {k}, !.saved[k] = 0]

LEMMA ForgottenSound ==
  ASSUME NEW p, NEW t, Sound(p, t), NEW k \in Tab, NEW q, q = Forgotten(p, k)
  PROVE  Sound(q, t) /\ q.active = p.active /\ q.shown = p.shown /\ q.tabs = p.tabs \ {k}
<1> DEFINE saved == [p.saved EXCEPT ![k] = 0]
<1>1. p \in Page
  BY DEF Sound, Held
<1>2. saved \in [Tab -> Number] /\ \A l \in Tab : saved[l] = p.saved[l] \/ saved[l] = 0
  BY <1>1, Values DEF Page
<1>3. q = [p EXCEPT !.tabs = p.tabs \ {k}, !.saved = saved]
  BY <1>1 DEF Page, Forgotten
<1> HIDE DEF saved
<1>4. q \in Page
  <2>1. PICK tabs \in SUBSET Tab : tabs = p.tabs \ {k}
    BY <1>1 DEF Page
  <2>2. [p EXCEPT !.tabs = tabs, !.saved = saved] \in Page
    BY <1>1, <1>2, PageFields
  <2>3. q = [p EXCEPT !.tabs = tabs, !.saved = saved]
    BY <1>3, <2>1
  <2>4. QED
    BY <2>2, <2>3
<1>5. /\ q.active = p.active /\ q.shown = p.shown /\ q.tabs = p.tabs \ {k}
      /\ q.pc = p.pc /\ q.ws = p.ws /\ q.session = p.session /\ q.saved = saved
      /\ q.connected = p.connected /\ q.snap = p.snap /\ q.peer = p.peer /\ q.sock = p.sock
  BY <1>1, <1>3 DEF Page
<1>6. Owned(q, t)
  BY <1>2, <1>5 DEF Sound, Held, Owned, Of
<1>7. HandlersKnow(q) /\ OneStreams(q)
  BY <1>5 DEF Sound, Held, HandlersKnow, OneStreams, Streams
<1>8. QED
  BY <1>4, <1>5, <1>6, <1>7 DEF Sound, Held

\* Closing the tab that is shown stops it before another one is shown; what was kept
\* for any other tab that is closed is disposed of.
LEMMA CloseTabKeeps ==
  ASSUME IInv, Patient, NEW k \in Tab, NEW next \in MaybeTab, CloseTab(k, next)
  PROVE  IInv'
<1> DEFINE gone    == Forgotten(page, k)
           off     == DisableAutoReconnect(gone)
           stopped == StopNow(off)
           cleared == ClearPersisted(stopped, k)
           shows   == [cleared EXCEPT !.active = next]
<1>1. jobs = {} /\ NobodyWaits(tries) /\ page.shown /\ tries' = tries
  BY SettledQuiet DEF CloseTab
<1>2. page \in Page /\ Sound(page, tries) /\ Asking(tries, page.active)
  BY Invariants
<1>3. \/ page' = EnableAutoReconnect(shows) /\ jobs' \subseteq {<<"start", None>>}
      \/ page' = Dispose(gone, {k}) /\ jobs' = jobs
  BY <1>1 DEF CloseTab, Forgotten
<1>4. Sound(gone, tries) /\ gone.active = page.active /\ gone.shown = page.shown
  BY <1>2, ForgottenSound
<1> HIDE DEF gone
<1>5. CASE page' = EnableAutoReconnect(shows) /\ jobs' \subseteq {<<"start", None>>}
  <2>1. Sound(off, tries) /\ Flags(gone, off) /\ off.shown = gone.shown
    BY <1>4, FlagFunctions, Values
  <2> HIDE DEF off
  <2>2. Sound(stopped, tries) /\ Quiet(stopped) /\ stopped.shown = off.shown
    BY <2>1, StopNowSound
  <2> HIDE DEF stopped
  <2>3. Sound(cleared, tries) /\ Alike(stopped, cleared)
    BY <2>2, ClearPersistedSound DEF MaybeTab
  <2> HIDE DEF cleared
  <2>4. /\ cleared \in Page /\ cleared.tabs \in SUBSET Tab
        /\ cleared.pc = 0 /\ cleared.ws = 0 /\ cleared.session = 0
        /\ cleared.shown = page.shown
    BY <1>4, <2>1, <2>2, <2>3 DEF Sound, Held, Page, Alike, Quiet
  <2>5. shows = Showing(cleared, cleared.tabs, next)
    BY <2>4 DEF Showing, Page
  <2> HIDE DEF shows
  <2>6. Sound(shows, tries) /\ shows.active = next /\ shows.shown = cleared.shown
    BY <2>3, <2>4, <2>5, ShowSound
  <2>7. PICK q : q = page'
    OBVIOUS
  <2>8. Sound(q, tries) /\ q.active = next /\ q.shown = page.shown
    BY <1>5, <2>4, <2>6, <2>7, FlagFunctions, Values DEF Flags
  <2>9. Asking(tries, next)
    BY <1>1, <1>2, AskingAnything
  <2>10. /\ jobs' \subseteq Job /\ Coming \notin jobs'
         /\ \A l \in Tab : <<"switch", l>> \in jobs' => l = next
    BY <1>5 DEF Job, Coming
  <2>11. QED
    BY <1>1, <2>7, <2>8, <2>9, <2>10, BusyKeeps
<1>6. CASE page' = Dispose(gone, {k}) /\ jobs' = jobs
  <2>1. PICK K : K = {k}
    OBVIOUS
  <2>2. PICK q : q = page'
    OBVIOUS
  <2>3. K \in SUBSET Tab /\ q = Dispose(gone, K)
    BY <1>6, <2>1, <2>2
  <2>4. Sound(q, tries) /\ Alike(gone, q)
    BY <1>4, <2>3, DisposeSound
  <2>5. q.active = page.active /\ q.shown = page.shown
    BY <1>4, <2>4 DEF Alike
  <2>6. ~Idle
    BY <1>1 DEF Idle
  <2>7. QED
    BY <1>1, <1>6, <2>2, <2>4, <2>5, <2>6, PageKeeps
<1>7. QED
  BY <1>3, <1>5, <1>6

\* Leaving stops the view, or detaches what it keeps in the background.
LEMMA LeaveKeeps ==
  ASSUME IInv, Patient, Leave
  PROVE  IInv'
<1> DEFINE off     == DisableAutoReconnect(page)
           stopped == Stop(off, TRUE, page.active, TRUE)
           q       == [stopped EXCEPT !.shown = FALSE]
<1>1. jobs = {} /\ NobodyWaits(tries) /\ tries' = tries /\ jobs' = jobs /\ page' = q
  BY SettledQuiet DEF Leave
<1>2. Sound(page, tries) /\ Asking(tries, page.active)
  BY Invariants
<1>3. Sound(off, tries) /\ Flags(page, off)
  BY <1>2, FlagFunctions, Values
<1> HIDE DEF off
<1>4. PICK preserve \in BOOLEAN, others \in BOOLEAN : preserve = TRUE /\ others = TRUE
  OBVIOUS
<1>5. stopped = Stop(off, preserve, off.active, others)
  BY <1>3, <1>4 DEF Flags
<1> HIDE DEF stopped
<1>6. Sound(stopped, tries) /\ Quiet(stopped) /\ stopped.active = off.active
  BY <1>3, <1>5, StopSound
<1>7. q \in Page /\ Flags(stopped, q) /\ (Quiet(stopped) => Quiet(q)) /\ ~q.shown
  <2>1. stopped \in Page
    BY <1>6 DEF Sound, Held
  <2>2. q \in Page
    BY <2>1, Values, PageFields
  <2>3. Flags(stopped, q) /\ (Quiet(stopped) => Quiet(q)) /\ ~q.shown
    BY <2>1 DEF Page, Flags, Quiet
  <2>4. QED
    BY <2>2, <2>3
<1> HIDE DEF q
<1>8. Sound(q, tries) /\ Quiet(q) /\ q.active = page.active
  BY <1>3, <1>6, <1>7, FlagsSound DEF Flags
<1>9. QED
  BY <1>1, <1>2, <1>7, <1>8 DEF IInv, Away, Switching

LEMMA ReturnKeeps ==
  ASSUME IInv, Patient, Return
  PROVE  IInv'
<1> DEFINE r == [page EXCEPT !.shown = TRUE]
           q == EnableAutoReconnect(r)
<1>1. /\ jobs = {} /\ NobodyWaits(tries) /\ tries' = tries /\ jobs' = {Coming} /\ page' = q
      /\ Idle
  BY SettledQuiet DEF Return, Coming, Idle
<1>2. page \in Page /\ Sound(page, tries) /\ Asking(tries, page.active) /\ Quiet(page)
  BY <1>1, Invariants, IdleQuiet
<1>3. r \in Page /\ Flags(page, r) /\ Quiet(r) /\ r.shown
  <2>1. r \in Page
    BY <1>2, Values, PageFields
  <2>2. Flags(page, r) /\ Quiet(r) /\ r.shown
    BY <1>2 DEF Page, Flags, Quiet
  <2>3. QED
    BY <2>1, <2>2
<1> HIDE DEF r
<1>4. Sound(r, tries)
  BY <1>2, <1>3, FlagsSound
<1>5. Sound(q, tries) /\ Flags(r, q) /\ q.shown = r.shown
  BY <1>4, FlagFunctions, Values
<1>6. Quiet(q)
  BY <1>3, <1>4 DEF EnableAutoReconnect, Quiet, Sound, Held, Page
<1> HIDE DEF q
<1>7. q.active = page.active
  BY <1>3, <1>5 DEF Flags
<1>8. jobs' \subseteq Job /\ \A k \in Tab : <<"switch", k>> \notin jobs'
  BY <1>1 DEF Job, Coming
<1>9. QED
  BY <1>1, <1>2, <1>3, <1>5, <1>6, <1>7, <1>8 DEF IInv, Away, Switching

\* A page that is loaded anew holds and keeps nothing.
LEMMA EmptyPage ==
  Page0 \in Page
<1>1. /\ Nothing \in Kept /\ Dead("none") \in Peer /\ Dead("none") \in Sock
  BY Values DEF Nothing, Kept, Dead, Peer, Sock
<1>2. /\ [k \in Tab |-> 0] \in [Tab -> Number] /\ [k \in Tab |-> Nothing] \in [Tab -> Kept]
      /\ [n \in Attempt |-> Dead("none")] \in [Attempt -> Peer]
      /\ [n \in Attempt |-> Dead("none")] \in [Attempt -> Sock]
  BY <1>1, Values
<1>3. {} \in SUBSET Tab /\ {} \in SUBSET (Tab \X Attempt) /\ {} \in SUBSET (Attempt \X Tab \X Nat)
  OBVIOUS
<1>4. QED
  BY <1>2, <1>3, Values DEF Page0, Page

LEMMA EmptySound ==
  ASSUME NEW q \in Page, NEW t,
         q.pc = 0, q.ws = 0, q.session = 0, ~q.connected,
         q.snap = [k \in Tab |-> Nothing], q.peer = [n \in Attempt |-> Dead("none")],
         \A k \in Tab : Of(q.saved[k], k, t)
  PROVE  Sound(q, t)
<1>1. \A k \in Tab : q.snap[k] = Nothing
  OBVIOUS
<1>2. Nothing.pc = 0 /\ Nothing.ws = 0 /\ Nothing.session = 0
  BY DEF Nothing
<1>3. Owned(q, t) /\ OneStreams(q)
  BY <1>1, <1>2 DEF Owned, Of, OneStreams, Streams
<1>4. \A n \in Attempt : q.peer[n].by = "nobody"
  BY DEF Dead
<1>5. HandlersKnow(q)
  BY <1>4 DEF HandlersKnow
<1>6. QED
  BY <1>3, <1>5 DEF Sound, Held

LEMMA ReloadKeeps ==
  ASSUME IInv, Reload
  PROVE  IInv'
<1> DEFINE q == [Page0 EXCEPT !.tabs = page.tabs, !.active = page.active, !.saved = page.saved,
                              !.shown = TRUE, !.stamp = page.stamp]
           u == [n \in DOMAIN tries |-> [tries[n] EXCEPT !.phase = "over", !.offered = 0]]
<1>1. page' = q /\ tries' = u /\ jobs' = {Coming}
  BY DEF Reload, Coming
<1>2. /\ page \in Page /\ Sound(page, tries) /\ Asking(tries, page.active)
      /\ tries \in Seq(Try) /\ \A n \in DOMAIN tries : tries[n] \in Try
  BY Invariants
<1>3. ASSUME NEW m \in DOMAIN tries
      PROVE  /\ u[m] \in Try /\ u[m].tab = tries[m].tab /\ u[m].device = tries[m].device
             /\ u[m].ask = tries[m].ask /\ u[m].phase = "over"
  <2>1. u[m] = [tries[m] EXCEPT !.phase = "over", !.offered = 0]
    OBVIOUS
  <2> HIDE DEF u
  <2>2. QED
    BY <1>2, <2>1, Values DEF Try
<1>4. u = [m \in DOMAIN tries |-> u[m]]
  OBVIOUS
<1> HIDE DEF u
<1>5. SameTries(tries, u)
  <2>1. u \in [DOMAIN tries -> Try]
    BY <1>3, <1>4
  <2>2. Mapped(tries, u)
    BY <1>3, <2>1 DEF Mapped
  <2>3. QED
    BY <1>2, <2>2, TriesMapped
<1>6. NoNewWait(tries, u) /\ NobodyWaits(u)
  <2>1. DOMAIN u = DOMAIN tries
    BY <1>4
  <2>2. QED
    BY <1>3, <2>1 DEF NoNewWait, NobodyWaits, Waits
<1>7. Asking(u, page.active)
  BY <1>2, <1>5, <1>6, SameAsking
<1>8. Page0 \in Page
  BY EmptyPage
<1>9. /\ Page0.pc = 0 /\ Page0.ws = 0 /\ Page0.session = 0 /\ ~Page0.connected
      /\ Page0.snap = [k \in Tab |-> Nothing] /\ Page0.peer = [n \in Attempt |-> Dead("none")]
      /\ Quiet(Page0)
  BY DEF Page0, Quiet
<1>10. /\ q \in Page /\ q.active = page.active /\ q.saved = page.saved /\ q.shown
       /\ q.pc = 0 /\ q.ws = 0 /\ q.session = 0 /\ ~q.connected
       /\ q.snap = [k \in Tab |-> Nothing] /\ q.peer = [n \in Attempt |-> Dead("none")]
       /\ Quiet(q)
  <2>1. /\ page.tabs \in SUBSET Tab /\ page.active \in MaybeTab
        /\ page.saved \in [Tab -> Number] /\ page.stamp \in Nat
    BY <1>2 DEF Page
  <2>2. q \in Page
    BY <1>8, <2>1, Values, PageFields
  <2>3. /\ q.active = page.active /\ q.saved = page.saved /\ q.shown
        /\ q.pc = Page0.pc /\ q.ws = Page0.ws /\ q.session = Page0.session
        /\ q.connected = Page0.connected /\ q.snap = Page0.snap /\ q.peer = Page0.peer
        /\ q.reconnect = Page0.reconnect /\ q.connecting = Page0.connecting
        /\ q.fallback = Page0.fallback /\ q.recovery = Page0.recovery
    BY <1>8 DEF Page
  <2> HIDE DEF q
  <2>4. Quiet(q)
    BY <1>9, <2>3 DEF Quiet
  <2>5. QED
    BY <1>9, <2>2, <2>3, <2>4
<1> HIDE DEF q
<1>11. Sound(q, u)
  <2>1. ASSUME NEW k \in Tab PROVE Of(q.saved[k], k, tries)
    BY <1>2, <1>10 DEF Sound, Held, Owned
  <2>2. Sound(q, tries)
    BY <1>10, <2>1, EmptySound
  <2>3. QED
    BY <1>2, <1>5, <2>2, SameSound
<1>12. jobs' \subseteq Job /\ \A k \in Tab : <<"switch", k>> \notin jobs'
  BY <1>1 DEF Job, Coming
<1>13. QED
  BY <1>1, <1>6, <1>7, <1>10, <1>11, <1>12 DEF IInv, Away, Switching

---------------------------------------------------------------------------
(* What goes on after its awaits                                           *)

\* What is kept for the active tab is taken up, or disposed of before anything else.
LEMMA SwitchedKeeps ==
  ASSUME IInv, NEW k \in Tab, Switched(k)
  PROVE  IInv'
<1>1. <<"switch", k>> \in jobs /\ jobs' = jobs \ {<<"switch", k>>}
  BY DEF Switched
<1>2. k = page.active /\ page.active \in Tab /\ page.shown /\ Coming \notin jobs /\ jobs \subseteq Job
  BY <1>1 DEF IInv, Away, Switching, Coming
<1>3. page \in Page /\ Sound(page, tries) /\ Asking(tries, page.active)
  BY Invariants
<1>4. \E p : /\ ScheduleStartConnection(p)
             /\ p = page \/ p = Dispose(page, {k})
      \/ /\ page.snap[k].pc # 0
         /\ page' = Restored(page, k) /\ tries' = tries
  BY DEF Switched, Restorable, Resting
<1>5. /\ Sound(page', tries') /\ Asking(tries', page.active)
      /\ page'.active = page.active /\ page'.shown = page.shown
  <2>1. CASE page.snap[k].pc # 0 /\ page' = Restored(page, k) /\ tries' = tries
    <3>1. PICK q : q = page'
      OBVIOUS
    <3>2. Sound(q, tries) /\ q.active = page.active /\ q.shown = page.shown
      <4>1. k \in Tab /\ q = Restored(page, k)
        BY <2>1, <3>1
      <4>2. Sound(page, tries) /\ k = page.active /\ page.snap[k].pc # 0
        BY <1>2, <1>3, <2>1
      <4>3. QED
        BY <4>1, <4>2, RestoredSound
    <3>3. QED
      BY <1>3, <2>1, <3>1, <3>2
  <2>2. ASSUME NEW p, ScheduleStartConnection(p), p = page \/ p = Dispose(page, {k})
        PROVE  /\ Sound(page', tries') /\ Asking(tries', page.active)
               /\ page'.active = page.active /\ page'.shown = page.shown
    <3>1. Sound(p, tries) /\ p.active = page.active /\ p.shown = page.shown
      <4>1. CASE p = page
        BY <1>3, <4>1
      <4>2. CASE p = Dispose(page, {k})
        <5>1. PICK K : K = {k}
          OBVIOUS
        <5>2. K \in SUBSET Tab /\ p = Dispose(page, K)
          BY <4>2, <5>1
        <5>3. Sound(p, tries) /\ Alike(page, p)
          BY <1>3, <5>2, DisposeSound
        <5>4. QED
          BY <5>3 DEF Alike
      <4>3. QED
        BY <2>2, <4>1, <4>2
    <3>2. QED
      BY <1>3, <2>2, <3>1, ScheduleStartSound
  <2>3. QED
    BY <1>4, <2>1, <2>2
<1>6. /\ jobs' \subseteq Job /\ Coming \notin jobs'
      /\ \A l \in Tab : <<"switch", l>> \in jobs' => l = page'.active
  BY <1>1, <1>2, <1>5 DEF IInv, Switching
<1>7. QED
  BY <1>2, <1>5, <1>6, BusyKeeps

\* A view that comes back has nothing under way, so that any tab can be shown.
LEMMA OpenedKeeps ==
  ASSUME IInv, NEW k \in Tab, Opened(k)
  PROVE  IInv'
<1> DEFINE q == [page EXCEPT !.tabs = @ \cup {k}, !.active = k]
<1>1. /\ Coming \in jobs /\ page' = q /\ tries' = tries
      /\ jobs' = (jobs \ {Coming}) \cup {<<"start", None>>}
  BY DEF Opened, Coming
<1>2. /\ page \in Page /\ Sound(page, tries) /\ Asking(tries, page.active)
      /\ Quiet(page) /\ NobodyWaits(tries) /\ jobs \subseteq {Coming} /\ page.shown
  BY <1>1, Invariants, IdleQuiet DEF Idle, IInv, Away
<1>3. PICK tabs : tabs = page.tabs \cup {k}
  OBVIOUS
<1>4. q = Showing(page, tabs, k) /\ tabs \in SUBSET Tab /\ k \in MaybeTab
  BY <1>2, <1>3 DEF Showing, Page, MaybeTab
<1> HIDE DEF q
<1>5. Sound(q, tries) /\ q.active = k /\ q.shown = page.shown
  <2>1. page.pc = 0 /\ page.ws = 0 /\ page.session = 0
    BY <1>2 DEF Quiet
  <2>2. PICK r : r = q
    OBVIOUS
  <2>3. r = Showing(page, tabs, k)
    BY <1>4, <2>2
  <2>4. Sound(page, tries) /\ tabs \in SUBSET Tab /\ k \in MaybeTab
    BY <1>2, <1>4
  <2>5. Sound(r, tries) /\ r.active = k /\ r.shown = page.shown
    BY <2>1, <2>3, <2>4, ShowSound
  <2>6. QED
    BY <2>2, <2>5
<1>6. Asking(tries, k)
  BY <1>2, AskingAnything
<1>7. /\ jobs' \subseteq Job /\ Coming \notin jobs'
      /\ \A l \in Tab : <<"switch", l>> \in jobs' => l = k
  BY <1>1, <1>2 DEF Job, Coming
<1>8. QED
  BY <1>1, <1>2, <1>5, <1>6, <1>7, BusyKeeps

LEMMA ReturnedKeeps ==
  ASSUME IInv, Returned
  PROVE  IInv'
<1>1. Coming \in jobs /\ tries' = tries
  BY DEF Returned, Coming, Resting
<1>2. /\ page \in Page /\ Sound(page, tries) /\ Asking(tries, page.active)
      /\ jobs \subseteq {Coming} /\ page.shown
  BY <1>1, Invariants, IdleQuiet DEF Idle, IInv, Away
<1>3. /\ jobs' \subseteq {<<"start", None>>}
      /\ \/ page' = page
         \/ page.active # None /\ page.snap[page.active].pc # 0 /\ page' = Restored(page, page.active)
         \/ page.active # None /\ page' = Dispose(page, {page.active})
  BY <1>2 DEF Returned, Coming, Resting, Restorable
<1>4. PICK q : q = page'
  OBVIOUS
<1>5. Sound(q, tries) /\ q.active = page.active /\ q.shown = page.shown
  <2>1. CASE q = page
    BY <1>2, <2>1
  <2>2. CASE page.active # None /\ page.snap[page.active].pc # 0 /\ q = Restored(page, page.active)
    <3>1. page.active \in Tab
      BY <1>2, <2>2 DEF Page, MaybeTab
    <3>2. PICK k \in Tab : k = page.active
      BY <3>1
    <3>3. page.snap[k].pc # 0 /\ q = Restored(page, k)
      BY <2>2, <3>2
    <3>4. Sound(page, tries)
      BY <1>2
    <3>5. QED
      BY <3>2, <3>3, <3>4, RestoredSound
  <2>3. CASE page.active # None /\ q = Dispose(page, {page.active})
    <3>1. PICK K : K = {page.active}
      OBVIOUS
    <3>2. K \in SUBSET Tab /\ q = Dispose(page, K)
      BY <1>2, <2>3, <3>1 DEF Page, MaybeTab
    <3>3. Sound(q, tries) /\ Alike(page, q)
      BY <1>2, <3>2, DisposeSound
    <3>4. QED
      BY <3>3 DEF Alike
  <2>4. QED
    BY <1>3, <1>4, <2>1, <2>2, <2>3
<1>6. /\ jobs' \subseteq Job /\ Coming \notin jobs'
      /\ \A l \in Tab : <<"switch", l>> \in jobs' => l = q.active
  BY <1>3 DEF Job, Coming
<1>7. QED
  BY <1>1, <1>2, <1>4, <1>5, <1>6, BusyKeeps

LEMMA StartedKeeps ==
  ASSUME IInv, Started
  PROVE  IInv'
<1>1. <<"start", None>> \in jobs /\ jobs' = jobs \ {<<"start", None>>}
  BY DEF Started
<1>2. page.shown /\ Coming \notin jobs /\ jobs \subseteq Job
  BY <1>1 DEF IInv, Away, Coming
<1>3. Sound(page, tries) /\ Asking(tries, page.active)
  BY Invariants
<1>4. /\ Sound(page', tries') /\ Asking(tries', page.active)
      /\ page'.active = page.active /\ page'.shown = page.shown
  BY <1>3, ScheduleStartSound DEF Started
<1>5. /\ jobs' \subseteq Job /\ Coming \notin jobs'
      /\ \A l \in Tab : <<"switch", l>> \in jobs' => l = page'.active
  BY <1>1, <1>2, <1>4 DEF IInv, Switching
<1>6. QED
  BY <1>2, <1>4, <1>5, BusyKeeps

---------------------------------------------------------------------------
(* The theorems                                                            *)

LEMMA InitIInv ==
  Init => IInv
<1> SUFFICES ASSUME Init PROVE IInv
  OBVIOUS
<1>1. /\ Page0.pc = 0 /\ Page0.ws = 0 /\ Page0.session = 0 /\ ~Page0.connected
      /\ Page0.snap = [k \in Tab |-> Nothing] /\ Page0.peer = [n \in Attempt |-> Dead("none")]
      /\ \A k \in Tab : Page0.saved[k] = 0
      /\ Quiet(Page0)
  BY DEF Page0, Quiet
<1>2. page = Page0 /\ jobs = {} /\ tries = <<>>
  BY DEF Init
<1>3. Sound(page, tries)
  BY <1>1, <1>2, EmptyPage, EmptySound DEF Of
<1>4. tries \in Seq(Try) /\ Len(tries) = 0 /\ DOMAIN tries = {}
  BY <1>2
<1>5. Asking(tries, page.active) /\ NobodyWaits(tries)
  BY <1>4, ScreencastAssumption DEF Asking, NobodyWaits
<1>6. QED
  BY <1>1, <1>2, <1>3, <1>5 DEF IInv, Away, Switching

\* One step per action of the specification.
LEMMA NextKeeps ==
  ASSUME Patient, IInv, [Next]_vars
  PROVE  IInv'
<1>1. CASE UNCHANGED vars
  BY <1>1 DEF vars, IInv, Away, Switching
<1>2. CASE ReconnectDue \/ FallbackDue
  BY <1>2, ReconnectDueKeeps, FallbackDueKeeps
<1>3. CASE \E video \in BOOLEAN : RecoveryDue(video)
  BY <1>3, RecoveryDueKeeps
<1>4. CASE \E d \in page.doom : GraceOver(d)
  BY <1>4, GraceOverKeeps
<1>5. ASSUME NEW n \in Attempt,
             \/ TicketGranted(n) \/ SessionGone(n) \/ TicketRefused(n) \/ TicketLost(n)
             \/ SocketOpens(n) \/ Offered(n) \/ OfferFailed(n) \/ IceOffered(n)
             \/ VideoTrackEnded(n) \/ ControlLost(n)
             \/ Answered(n) \/ SignalError(n) \/ SocketCloses(n)
      PROVE  IInv'
  BY <1>5, TicketGrantedKeeps, SessionGoneKeeps, TicketRefusedKeeps, SocketOpensKeeps,
     OfferedKeeps, IceOfferedKeeps, LostKeeps, AnsweredKeeps, SignalErrorKeeps,
     SocketClosesKeeps
<1>6. ASSUME NEW n \in Attempt, NEW state \in PeerState, PeerChanges(n, state)
      PROVE  IInv'
  BY <1>6, PeerChangesKeeps
<1>7. ASSUME NEW k \in Tab, ActivateTab(k) \/ Switched(k) \/ Opened(k)
      PROVE  IInv'
  BY <1>7, ActivateTabKeeps, SwitchedKeeps, OpenedKeeps
<1>8. ASSUME NEW k \in Tab, NEW next \in MaybeTab, CloseTab(k, next)
      PROVE  IInv'
  BY <1>8, CloseTabKeeps
<1>9. CASE Leave \/ Reload \/ Return \/ Returned \/ Started
  BY <1>9, LeaveKeeps, ReloadKeeps, ReturnKeeps, ReturnedKeeps, StartedKeeps
<1>10. QED
  BY <1>1, <1>2, <1>3, <1>4, <1>5, <1>6, <1>7, <1>8, <1>9 DEF Next, PeerState, MaybeTab

LEMMA Invariant ==
  ASSUME Patient
  PROVE  Spec => []IInv
<1>1. Init => IInv
  BY InitIInv
<1>2. IInv /\ [Next]_vars => IInv'
  BY NextKeeps
<1>3. QED
  BY <1>1, <1>2, PTL DEF Spec

\* With a patient user, what the view shows as connected was made for the active
\* tab, with its socket and its session, whatever order tickets, answers, closes and
\* timers come in.
THEOREM AlwaysShownIsActive ==
  ASSUME Patient
  PROVE  Spec => []ShownIsActive
<1>1. IInv => ShownIsActive
  <2> SUFFICES ASSUME IInv, page.connected
               PROVE  /\ page.pc # 0 /\ tries[page.pc].tab = page.active
                      /\ page.ws # 0 => tries[page.ws].tab = page.active
                      /\ page.session # 0 => tries[page.session].device = page.active
    BY DEF ShownIsActive
  <2>1. page.pc # 0
    BY Invariants DEF Sound, Held
  <2>2. /\ Of(page.pc, page.active, tries) /\ Of(page.ws, page.active, tries)
        /\ Of(page.session, page.active, tries)
    BY Invariants DEF Sound, Held, Owned
  <2>3. \A n \in DOMAIN tries : tries[n].device = tries[n].tab
    BY Invariants DEF Asking
  <2>4. QED
    BY <2>1, <2>2, <2>3 DEF Of
<1>2. QED
  BY <1>1, Invariant, PTL

\* With a patient user, what is kept for a tab was made for it, and the page never
\* keeps two connections that are not closed.
THEOREM AlwaysSnapshotOfTab ==
  ASSUME Patient
  PROVE  Spec => []SnapshotOfTab
<1>1. IInv => SnapshotOfTab
  <2> SUFFICES ASSUME IInv PROVE SnapshotOfTab
    OBVIOUS
  <2>1. \A k \in Tab : page.snap[k].pc # 0 => tries[page.snap[k].pc].tab = k
    BY Invariants DEF Sound, Held, Owned, Of
  <2>2. \A k, l \in Tab : Streams(page, k) /\ Streams(page, l) => k = l
    BY Invariants DEF Sound, OneStreams
  <2>3. QED
    BY <2>1, <2>2 DEF SnapshotOfTab, Streams
<1>2. QED
  BY <1>1, Invariant, PTL

\* With a patient user, a view that was left holds no connection, and neither
\* connects nor is going to.
THEOREM AlwaysLeftQuiet ==
  ASSUME Patient
  PROVE  Spec => []LeftQuiet
<1>1. IInv => LeftQuiet
  BY DEF IInv, Away, Quiet, LeftQuiet
<1>2. QED
  BY <1>1, Invariant, PTL
=====
