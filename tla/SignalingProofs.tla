-------------------------- MODULE SignalingProofs --------------------------
(***************************************************************************)
(* Proofs about Signaling, for any sockets, session objects and monitors:  *)
(* why closing, attaching and watching may overlap as they please.  The    *)
(* argument is about knowledge: an object is private until it is stored,   *)
(* and whoever is going to close it has taken it out of the map first.     *)
(***************************************************************************)
EXTENDS Signaling, TLAPS

---------------------------------------------------------------------------
(* The inductive invariant                                                 *)

Places == {"idle", "replace", "closeOld", "lookup", "build", "store", "attach", "greet",
           "serve", "dead", "ask", "watch", "remove", "close", "over"}

Stages == {"none", "tick", "ask", "peer", "remove", "close", "leave", "over"}

TypeOK ==
  /\ lease \in BOOLEAN
  /\ tickets \in Nat
  /\ current \in Objects \cup {None}
  /\ made \subseteq Objects
  /\ closed \in [Objects -> BOOLEAN]
  /\ conn \in [Objects -> Sockets \cup {None}]
  /\ stop \in [Objects -> Nat]
  /\ seq \in [Objects -> Nat]
  /\ peer \in [Objects -> {"new", "live", "failed", "closed"}]
  /\ callback \in [Objects -> {"quiet", "close", "over"}]
  /\ monitor \in [Objects -> [Seqs -> Stages]]
  /\ cancelled \in [Objects -> SUBSET Nat]
  /\ releasing \subseteq Objects
  /\ pc \in [Sockets -> Places]
  /\ object \in [Sockets -> Objects \cup {None}]
  /\ previous \in [Sockets -> Sockets \cup {None}]
  /\ open \in [Sockets -> BOOLEAN]

\* A goroutine beyond the lookup works with an object that was made.
Handed(w) ==
  /\ pc[w] \in {"store", "attach", "greet", "serve", "dead", "ask", "watch", "remove", "close"}
       => object[w] # None
  /\ object[w] \in made \cup {None}

\* Nobody but the one that makes it knows the object.
Untouched(o) ==
  /\ current # o /\ o \notin releasing /\ ~closed[o]
  /\ callback[o] = "quiet" /\ peer[o] = "new"
  /\ \A n \in Seqs : monitor[o][n] = "none"

Private(w) ==
  pc[w] = "store" =>
    /\ Untouched(object[w])
    /\ \A v \in Sockets : object[v] = object[w] => v = w

\* An object is closed, or somebody is on the way to close it.
Leaving(o) ==
  \/ closed[o]
  \/ o \in releasing
  \/ callback[o] # "quiet"
  \/ \E n \in Seqs : monitor[o][n] = "close"
  \/ \E w \in Sockets : pc[w] \in {"closeOld", "close"} /\ object[w] = o

\* Who closes an object has taken it out of the map; it never comes back.
LeavingIsGone == \A o \in Objects : Leaving(o) => current # o

\* A closed object keeps nothing.
ClosedIsEmpty == \A o \in Objects : closed[o] => conn[o] = None /\ stop[o] = 0

\* Only the monitor started last can be stopped.
StopIsLast == \A o \in Objects : stop[o] \in {0, seq[o]}

\* Who knows which object.
Known ==
  /\ current \in made \cup {None}
  /\ \A o \in Objects : o \notin made => Untouched(o)
  /\ \A w \in Sockets : Handed(w) /\ Private(w)

\* What can still be stopped.
Stoppable == ClosedIsEmpty /\ StopIsLast /\ MonitorsCancellable

IInv == TypeOK /\ Known /\ LeavingIsGone /\ Stoppable


---------------------------------------------------------------------------
(* Closing                                                                 *)

\* closeSignalingSession touches no other object, empties the one it closes, and takes the
\* monitor it can stop with it.
LEMMA CloseFacts ==
  ASSUME TypeOK, ClosedIsEmpty, NEW o \in Objects \cup {None}, CloseSignalingSession(o)
  PROVE  /\ closed' \in [Objects -> BOOLEAN]
         /\ conn' \in [Objects -> Sockets \cup {None}]
         /\ stop' \in [Objects -> Nat]
         /\ peer' \in [Objects -> {"new", "live", "failed", "closed"}]
         /\ cancelled' \in [Objects -> SUBSET Nat]
         /\ open' \in [Sockets -> BOOLEAN]
         /\ \A p \in Objects \ {o} : /\ closed'[p] = closed[p] /\ conn'[p] = conn[p]
                                     /\ stop'[p] = stop[p] /\ peer'[p] = peer[p]
                                     /\ cancelled'[p] = cancelled[p]
         /\ o # None => closed'[o] /\ conn'[o] = None /\ stop'[o] = 0
         /\ o # None => cancelled[o] \subseteq cancelled'[o]
         /\ o # None => (stop[o] # 0 => stop[o] \in cancelled'[o])
<1>1. CASE o = None \/ closed[o]
  BY <1>1, SignalingAssumption DEF CloseSignalingSession, TypeOK, ClosedIsEmpty
<1>2. CASE o # None /\ ~closed[o]
  <2>1. /\ closed' = [closed EXCEPT ![o] = TRUE]
        /\ conn' = [conn EXCEPT ![o] = None]
        /\ peer' = [peer EXCEPT ![o] = "closed"]
        /\ CancelMonitor(o) /\ Hangup(conn[o])
    BY <1>2 DEF CloseSignalingSession
  <2>2. o \in Objects /\ conn[o] \in Sockets \cup {None} /\ stop[o] \in Nat
    BY <1>2 DEF TypeOK
  <2>3. open' \in [Sockets -> BOOLEAN]
    BY <2>1, <2>2 DEF Hangup, TypeOK
  <2>4. /\ stop' \in [Objects -> Nat] /\ stop'[o] = 0
        /\ \A p \in Objects \ {o} : stop'[p] = stop[p]
    BY <2>1, <2>2 DEF CancelMonitor, TypeOK
  <2>5. /\ cancelled' \in [Objects -> SUBSET Nat]
        /\ cancelled'[o] = IF stop[o] = 0 THEN cancelled[o] ELSE cancelled[o] \cup {stop[o]}
        /\ \A p \in Objects \ {o} : cancelled'[p] = cancelled[p]
    BY <2>1, <2>2 DEF CancelMonitor, TypeOK
  <2>6. QED
    BY <2>1, <2>2, <2>3, <2>4, <2>5 DEF TypeOK
<1>3. QED
  BY <1>1, <1>2

\* Everybody else has lost sight of an object that leaves.
LEMMA LeavingFacts ==
  ASSUME IInv, NEW o \in Objects, Leaving(o)
  PROVE  o \in made /\ current # o /\ \A w \in Sockets : pc[w] = "store" => object[w] # o
<1>1. ~Untouched(o) \/ \E w \in Sockets : pc[w] \in {"closeOld", "close"} /\ object[w] = o
  BY DEF Leaving, Untouched
<1>2. o \in made
  BY <1>1, SignalingAssumption DEF IInv, Known, Handed
<1>3. \A w \in Sockets : pc[w] = "store" => object[w] # o
  BY <1>1 DEF IInv, Known, Private
<1>4. QED
  BY <1>2, <1>3 DEF IInv, LeavingIsGone

\* Whoever closes an object, of which all know that it leaves, keeps the invariant.
LEMMA ClosingStep ==
  ASSUME IInv, NEW o \in Objects \cup {None}, CloseSignalingSession(o),
         o # None => Leaving(o),
         UNCHANGED <<leasing, current, made, seq, previous>>, releasing' \subseteq releasing,
         callback' \in [Objects -> {"quiet", "close", "over"}],
         \A p \in Objects \ {o} : callback'[p] = callback[p],
         monitor' \in [Objects -> [Seqs -> Stages]],
         \A p \in Objects \ {o} : monitor'[p] = monitor[p],
         \A p \in Objects : \A k \in Seqs : monitor'[p][k] \in {monitor[p][k], "leave"},
         pc' \in [Sockets -> Places],
         object' \in [Sockets -> Objects \cup {None}],
         \A v \in Sockets :
           \/ pc'[v] = pc[v] /\ object'[v] = object[v]
           \/ pc'[v] \in {"lookup", "over"} /\ object'[v] = None
  PROVE  IInv'
<1>1. /\ closed' \in [Objects -> BOOLEAN]
      /\ conn' \in [Objects -> Sockets \cup {None}]
      /\ stop' \in [Objects -> Nat]
      /\ peer' \in [Objects -> {"new", "live", "failed", "closed"}]
      /\ cancelled' \in [Objects -> SUBSET Nat]
      /\ open' \in [Sockets -> BOOLEAN]
      /\ \A p \in Objects \ {o} : /\ closed'[p] = closed[p] /\ conn'[p] = conn[p]
                                  /\ stop'[p] = stop[p] /\ peer'[p] = peer[p]
                                  /\ cancelled'[p] = cancelled[p]
      /\ o # None => closed'[o] /\ conn'[o] = None /\ stop'[o] = 0
      /\ o # None => cancelled[o] \subseteq cancelled'[o]
      /\ o # None => (stop[o] # 0 => stop[o] \in cancelled'[o])
  BY CloseFacts DEF IInv, Stoppable
<1>2. o \in Objects =>
        o \in made /\ current # o /\ \A w \in Sockets : pc[w] = "store" => object[w] # o
  BY LeavingFacts, SignalingAssumption
<1>3. TypeOK'
  BY <1>1 DEF IInv, TypeOK, leasing
<1>4. ASSUME NEW p \in Objects, Untouched(p), p # o
      PROVE  Untouched(p)'
  <2>1. p \in Objects \ {o}
    BY <1>4
  <2>2. /\ closed'[p] = closed[p] /\ peer'[p] = peer[p]
        /\ callback'[p] = callback[p] /\ monitor'[p] = monitor[p]
    BY <1>1, <2>1
  <2>3. QED
    BY <1>4, <2>2 DEF Untouched
<1>5. Known'
  <2>1. (current \in made \cup {None})'
    BY DEF IInv, Known
  <2>2. ASSUME NEW p \in Objects, p \notin made' PROVE Untouched(p)'
    BY <1>2, <1>4, <2>2 DEF IInv, Known
  <2>3. ASSUME NEW w \in Sockets PROVE Handed(w)' /\ Private(w)'
    <3>1. Handed(w)'
      BY DEF IInv, Known, Handed
    <3>2. CASE pc'[w] = "store"
      <4>1. pc[w] = "store" /\ object'[w] = object[w]
        BY <3>2
      <4>2. object[w] # None /\ object[w] \in Objects /\ object[w] # o
        BY <1>2, <4>1 DEF IInv, Known, Handed, TypeOK
      <4>3. Untouched(object[w])'
        BY <1>4, <4>1, <4>2 DEF IInv, Known, Private, Untouched
      <4>4. \A v \in Sockets : object'[v] = object'[w] => v = w
        BY <4>1, <4>2 DEF IInv, Known, Private
      <4>5. QED
        BY <3>1, <4>1, <4>3, <4>4 DEF Private, Untouched
    <3>3. QED
      BY <3>1, <3>2 DEF Private
  <2>4. QED
    BY <2>1, <2>2, <2>3 DEF Known
<1>6. LeavingIsGone'
  <2>1. ASSUME NEW p \in Objects, Leaving(p)' PROVE current' # p
    <3>1. CASE p = o
      BY <1>2, <3>1
    <3>2. CASE p # o
      <4>1. Leaving(p)
        <5>1. p \in Objects \ {o}
          BY <3>2
        <5>2. closed'[p] = closed[p] /\ callback'[p] = callback[p] /\ monitor'[p] = monitor[p]
          BY <1>1, <5>1
        <5>3. p \in releasing' => p \in releasing
          OBVIOUS
        <5>4. ASSUME NEW v \in Sockets, pc'[v] \in {"closeOld", "close"}, object'[v] = p
              PROVE  pc[v] \in {"closeOld", "close"} /\ object[v] = p
          BY <5>4, SignalingAssumption
        <5>5. QED
          BY <2>1, <5>2, <5>3, <5>4 DEF Leaving
      <4>2. QED
        BY <4>1 DEF IInv, LeavingIsGone
    <3>3. QED
      BY <3>1, <3>2
  <2>2. QED
    BY <2>1 DEF LeavingIsGone
<1>7. Stoppable'
  <2>1. ClosedIsEmpty'
    <3>1. ASSUME NEW p \in Objects, closed'[p] PROVE conn'[p] = None /\ stop'[p] = 0
      <4>1. CASE p = o
        BY <1>1, <4>1, SignalingAssumption
      <4>2. CASE p # o
        <5>1. p \in Objects \ {o}
          BY <4>2
        <5>2. closed[p] /\ conn'[p] = conn[p] /\ stop'[p] = stop[p]
          BY <1>1, <3>1, <5>1
        <5>3. QED
          BY <5>2 DEF IInv, Stoppable, ClosedIsEmpty
      <4>3. QED
        BY <4>1, <4>2
    <3>2. QED
      BY <3>1 DEF ClosedIsEmpty
  <2>2. StopIsLast'
    BY <1>1, SignalingAssumption DEF IInv, Stoppable, StopIsLast
  <2>3. ASSUME NEW p \in Objects, NEW n \in Seqs,
               monitor'[p][n] \notin {"none", "leave", "over"}, n \notin cancelled'[p]
        PROVE  stop'[p] = n
    <3>1. monitor[p][n] \notin {"none", "leave", "over"} /\ n \notin cancelled[p]
      BY <1>1, <2>3, SignalingAssumption
    <3>2. stop[p] = n
      BY <3>1 DEF IInv, Stoppable, MonitorsCancellable
    <3>3. n # 0
      BY SignalingAssumption DEF Seqs
    <3>4. QED
      BY <1>1, <2>3, <3>2, <3>3, SignalingAssumption
  <2>4. QED
    BY <2>1, <2>2, <2>3 DEF Stoppable, MonitorsCancellable
<1>8. QED
  BY <1>3, <1>5, <1>6, <1>7 DEF IInv


---------------------------------------------------------------------------
(* The steps of a socket                                                   *)

LEMMA StepReplace ==
  ASSUME IInv, NEW w \in Sockets, Replace(w)
  PROVE  IInv'
<1>1. TypeOK'
  BY SignalingAssumption
     DEF Replace, Goto, leasing, fields, peers, monitors, IInv, TypeOK, Places, Stages, Known,
         Handed
<1>2. Known'
  BY SignalingAssumption
     DEF Replace, Goto, leasing, fields, peers, monitors, IInv, TypeOK, Known, Handed,
         Untouched, Private, LeavingIsGone, Leaving
<1>3. LeavingIsGone'
  BY SignalingAssumption
     DEF Replace, Goto, leasing, fields, peers, monitors, IInv, TypeOK, Known, Handed,
         Untouched, Private, LeavingIsGone, Leaving
<1>4. Stoppable'
  BY SignalingAssumption
     DEF Replace, Goto, leasing, fields, peers, monitors, IInv, TypeOK, Known, Handed,
         Untouched, Private, LeavingIsGone, Leaving, Stoppable, ClosedIsEmpty, StopIsLast,
         MonitorsCancellable
<1>5. QED
  BY <1>1, <1>2, <1>3, <1>4 DEF IInv

LEMMA StepReplaceCloses ==
  ASSUME IInv, NEW w \in Sockets, ReplaceCloses(w)
  PROVE  IInv'
<1>1. /\ object[w] \in Objects \cup {None} /\ CloseSignalingSession(object[w])
      /\ object[w] # None => Leaving(object[w])
  BY DEF ReplaceCloses, Goto, leasing, IInv, TypeOK, Leaving
<1>2. /\ UNCHANGED <<leasing, current, made, seq, previous>> /\ releasing' \subseteq releasing
      /\ callback' \in [Objects -> {"quiet", "close", "over"}]
      /\ \A p \in Objects \ {object[w]} : callback'[p] = callback[p]
  BY DEF ReplaceCloses, Goto, leasing, IInv, TypeOK, Stages
<1>3. /\ monitor' \in [Objects -> [Seqs -> Stages]]
      /\ \A p \in Objects \ {object[w]} : monitor'[p] = monitor[p]
      /\ \A p \in Objects : \A k \in Seqs : monitor'[p][k] \in {monitor[p][k], "leave"}
  BY DEF ReplaceCloses, Goto, leasing, IInv, TypeOK, Stages
<1>4. /\ pc' \in [Sockets -> Places]
      /\ object' \in [Sockets -> Objects \cup {None}]
      /\ \A v \in Sockets :
           \/ pc'[v] = pc[v] /\ object'[v] = object[v]
           \/ pc'[v] \in {"lookup", "over"} /\ object'[v] = None
  BY DEF ReplaceCloses, Goto, leasing, IInv, TypeOK, Places
<1>5. QED
  BY <1>1, <1>2, <1>3, <1>4, ClosingStep

LEMMA StepStartFails ==
  ASSUME IInv, NEW w \in Sockets, StartFails(w)
  PROVE  IInv'
<1>1. TypeOK'
  BY SignalingAssumption
     DEF StartFails, Goto, Return, leasing, fields, peers, monitors, IInv, TypeOK, Places,
         Stages, Known, Handed
<1>2. Known'
  BY SignalingAssumption
     DEF StartFails, Goto, Return, leasing, fields, peers, monitors, IInv, TypeOK, Known,
         Handed, Untouched, Private, LeavingIsGone, Leaving
<1>3. LeavingIsGone'
  BY SignalingAssumption
     DEF StartFails, Goto, Return, leasing, fields, peers, monitors, IInv, TypeOK, Known,
         Handed, Untouched, Private, LeavingIsGone, Leaving
<1>4. Stoppable'
  BY SignalingAssumption
     DEF StartFails, Goto, Return, leasing, fields, peers, monitors, IInv, TypeOK, Known,
         Handed, Untouched, Private, LeavingIsGone, Leaving, Stoppable, ClosedIsEmpty,
         StopIsLast, MonitorsCancellable
<1>5. QED
  BY <1>1, <1>2, <1>3, <1>4 DEF IInv

LEMMA StepLookup ==
  ASSUME IInv, NEW w \in Sockets, Lookup(w)
  PROVE  IInv'
<1>1. TypeOK'
  BY SignalingAssumption
     DEF Lookup, Goto, leasing, fields, peers, monitors, IInv, TypeOK, Places, Stages, Known,
         Handed
<1>2. Known'
  BY SignalingAssumption
     DEF Lookup, Goto, leasing, fields, peers, monitors, IInv, TypeOK, Known, Handed,
         Untouched, Private, LeavingIsGone, Leaving
<1>3. LeavingIsGone'
  BY SignalingAssumption
     DEF Lookup, Goto, leasing, fields, peers, monitors, IInv, TypeOK, Known, Handed,
         Untouched, Private, LeavingIsGone, Leaving
<1>4. Stoppable'
  BY SignalingAssumption
     DEF Lookup, Goto, leasing, fields, peers, monitors, IInv, TypeOK, Known, Handed,
         Untouched, Private, LeavingIsGone, Leaving, Stoppable, ClosedIsEmpty, StopIsLast,
         MonitorsCancellable
<1>5. QED
  BY <1>1, <1>2, <1>3, <1>4 DEF IInv

LEMMA StepStore ==
  ASSUME IInv, NEW w \in Sockets, Store(w)
  PROVE  IInv'
<1>1. TypeOK'
  BY SignalingAssumption
     DEF Store, Goto, leasing, fields, peers, monitors, IInv, TypeOK, Places, Stages, Known,
         Handed
<1>2. Known'
  BY SignalingAssumption
     DEF Store, Goto, leasing, fields, peers, monitors, IInv, TypeOK, Known, Handed, Untouched,
         Private, LeavingIsGone, Leaving
<1>3. LeavingIsGone'
  BY SignalingAssumption
     DEF Store, Goto, leasing, fields, peers, monitors, IInv, TypeOK, Known, Handed, Untouched,
         Private, LeavingIsGone, Leaving
<1>4. Stoppable'
  BY SignalingAssumption
     DEF Store, Goto, leasing, fields, peers, monitors, IInv, TypeOK, Known, Handed, Untouched,
         Private, LeavingIsGone, Leaving, Stoppable, ClosedIsEmpty, StopIsLast,
         MonitorsCancellable
<1>5. QED
  BY <1>1, <1>2, <1>3, <1>4 DEF IInv

LEMMA StepStoreLate ==
  ASSUME IInv, NEW w \in Sockets, StoreLate(w)
  PROVE  IInv'
<1>1. TypeOK'
  BY SignalingAssumption
     DEF StoreLate, Goto, leasing, fields, monitors, IInv, TypeOK, Places, Stages, Known, Handed
<1>2. Known'
  BY SignalingAssumption
     DEF StoreLate, Goto, leasing, fields, monitors, IInv, TypeOK, Known, Handed, Untouched,
         Private, LeavingIsGone, Leaving
<1>3. LeavingIsGone'
  BY SignalingAssumption
     DEF StoreLate, Goto, leasing, fields, monitors, IInv, TypeOK, Known, Handed, Untouched,
         Private, LeavingIsGone, Leaving
<1>4. Stoppable'
  BY SignalingAssumption
     DEF StoreLate, Goto, leasing, fields, monitors, IInv, TypeOK, Known, Handed, Untouched,
         Private, LeavingIsGone, Leaving, Stoppable, ClosedIsEmpty, StopIsLast,
         MonitorsCancellable
<1>5. QED
  BY <1>1, <1>2, <1>3, <1>4 DEF IInv

LEMMA StepAttach ==
  ASSUME IInv, NEW w \in Sockets, Attach(w)
  PROVE  IInv'
<1>1. TypeOK'
  BY SignalingAssumption
     DEF Attach, Goto, CancelMonitor, leasing, peers, IInv, TypeOK, Places, Stages, Known,
         Handed
<1>2. Known'
  BY SignalingAssumption
     DEF Attach, Goto, CancelMonitor, leasing, peers, IInv, TypeOK, Known, Handed, Untouched,
         Private, LeavingIsGone, Leaving
<1>3. LeavingIsGone'
  BY SignalingAssumption
     DEF Attach, Goto, CancelMonitor, leasing, peers, IInv, TypeOK, Known, Handed, Untouched,
         Private, LeavingIsGone, Leaving
<1>4. Stoppable'
  BY SignalingAssumption
     DEF Attach, Goto, CancelMonitor, leasing, peers, IInv, TypeOK, Known, Handed, Untouched,
         Private, LeavingIsGone, Leaving, Stoppable, ClosedIsEmpty, StopIsLast,
         MonitorsCancellable
<1>5. QED
  BY <1>1, <1>2, <1>3, <1>4 DEF IInv

LEMMA StepAttachClosed ==
  ASSUME IInv, NEW w \in Sockets, AttachClosed(w)
  PROVE  IInv'
<1>1. TypeOK'
  BY SignalingAssumption
     DEF AttachClosed, Goto, leasing, fields, peers, monitors, IInv, TypeOK, Places, Stages,
         Known, Handed
<1>2. Known'
  BY SignalingAssumption
     DEF AttachClosed, Goto, leasing, fields, peers, monitors, IInv, TypeOK, Known, Handed,
         Untouched, Private, LeavingIsGone, Leaving
<1>3. LeavingIsGone'
  BY SignalingAssumption
     DEF AttachClosed, Goto, leasing, fields, peers, monitors, IInv, TypeOK, Known, Handed,
         Untouched, Private, LeavingIsGone, Leaving
<1>4. Stoppable'
  BY SignalingAssumption
     DEF AttachClosed, Goto, leasing, fields, peers, monitors, IInv, TypeOK, Known, Handed,
         Untouched, Private, LeavingIsGone, Leaving, Stoppable, ClosedIsEmpty, StopIsLast,
         MonitorsCancellable
<1>5. QED
  BY <1>1, <1>2, <1>3, <1>4 DEF IInv

LEMMA StepCloseReplaced ==
  ASSUME IInv, NEW w \in Sockets, CloseReplaced(w)
  PROVE  IInv'
<1>1. TypeOK'
  BY SignalingAssumption
     DEF CloseReplaced, Goto, Hangup, leasing, fields, peers, monitors, IInv, TypeOK, Places,
         Stages, Known, Handed
<1>2. Known'
  BY SignalingAssumption
     DEF CloseReplaced, Goto, Hangup, leasing, fields, peers, monitors, IInv, TypeOK, Known,
         Handed, Untouched, Private, LeavingIsGone, Leaving
<1>3. LeavingIsGone'
  BY SignalingAssumption
     DEF CloseReplaced, Goto, Hangup, leasing, fields, peers, monitors, IInv, TypeOK, Known,
         Handed, Untouched, Private, LeavingIsGone, Leaving
<1>4. Stoppable'
  BY SignalingAssumption
     DEF CloseReplaced, Goto, Hangup, leasing, fields, peers, monitors, IInv, TypeOK, Known,
         Handed, Untouched, Private, LeavingIsGone, Leaving, Stoppable, ClosedIsEmpty,
         StopIsLast, MonitorsCancellable
<1>5. QED
  BY <1>1, <1>2, <1>3, <1>4 DEF IInv

LEMMA StepNegotiate ==
  ASSUME IInv, NEW w \in Sockets, Negotiate(w)
  PROVE  IInv'
<1>1. TypeOK'
  BY SignalingAssumption
     DEF Negotiate, leasing, fields, monitors, threads, IInv, TypeOK, Places, Stages, Known,
         Handed
<1>2. Known'
  BY SignalingAssumption
     DEF Negotiate, leasing, fields, monitors, threads, IInv, TypeOK, Known, Handed, Untouched,
         Private, LeavingIsGone, Leaving
<1>3. LeavingIsGone'
  BY SignalingAssumption
     DEF Negotiate, leasing, fields, monitors, threads, IInv, TypeOK, Known, Handed, Untouched,
         Private, LeavingIsGone, Leaving
<1>4. Stoppable'
  BY SignalingAssumption
     DEF Negotiate, leasing, fields, monitors, threads, IInv, TypeOK, Known, Handed, Untouched,
         Private, LeavingIsGone, Leaving, Stoppable, ClosedIsEmpty, StopIsLast,
         MonitorsCancellable
<1>5. QED
  BY <1>1, <1>2, <1>3, <1>4 DEF IInv

LEMMA StepDisconnect ==
  ASSUME IInv, NEW w \in Sockets, Disconnect(w)
  PROVE  IInv'
<1>1. TypeOK'
  BY SignalingAssumption
     DEF Disconnect, leasing, fields, peers, monitors, threads, IInv, TypeOK, Places, Stages,
         Known, Handed
<1>2. Known'
  BY SignalingAssumption
     DEF Disconnect, leasing, fields, peers, monitors, threads, IInv, TypeOK, Known, Handed,
         Untouched, Private, LeavingIsGone, Leaving
<1>3. LeavingIsGone'
  BY SignalingAssumption
     DEF Disconnect, leasing, fields, peers, monitors, threads, IInv, TypeOK, Known, Handed,
         Untouched, Private, LeavingIsGone, Leaving
<1>4. Stoppable'
  BY SignalingAssumption
     DEF Disconnect, leasing, fields, peers, monitors, threads, IInv, TypeOK, Known, Handed,
         Untouched, Private, LeavingIsGone, Leaving, Stoppable, ClosedIsEmpty, StopIsLast,
         MonitorsCancellable
<1>5. QED
  BY <1>1, <1>2, <1>3, <1>4 DEF IInv

LEMMA StepReadEnds ==
  ASSUME IInv, NEW w \in Sockets, ReadEnds(w)
  PROVE  IInv'
<1>1. TypeOK'
  BY SignalingAssumption
     DEF ReadEnds, Goto, DetachConn, leasing, peers, monitors, IInv, TypeOK, Places, Stages,
         Known, Handed
<1>2. Known'
  BY SignalingAssumption
     DEF ReadEnds, Goto, DetachConn, leasing, peers, monitors, IInv, TypeOK, Known, Handed,
         Untouched, Private, LeavingIsGone, Leaving
<1>3. LeavingIsGone'
  BY SignalingAssumption
     DEF ReadEnds, Goto, DetachConn, leasing, peers, monitors, IInv, TypeOK, Known, Handed,
         Untouched, Private, LeavingIsGone, Leaving
<1>4. Stoppable'
  BY SignalingAssumption
     DEF ReadEnds, Goto, DetachConn, leasing, peers, monitors, IInv, TypeOK, Known, Handed,
         Untouched, Private, LeavingIsGone, Leaving, Stoppable, ClosedIsEmpty, StopIsLast,
         MonitorsCancellable
<1>5. QED
  BY <1>1, <1>2, <1>3, <1>4 DEF IInv

LEMMA StepHandlerFails ==
  ASSUME IInv, NEW w \in Sockets, HandlerFails(w)
  PROVE  IInv'
<1>1. TypeOK'
  BY SignalingAssumption
     DEF HandlerFails, Goto, Return, DetachConn, leasing, peers, monitors, IInv, TypeOK,
         Places, Stages, Known, Handed
<1>2. Known'
  BY SignalingAssumption
     DEF HandlerFails, Goto, Return, DetachConn, leasing, peers, monitors, IInv, TypeOK, Known,
         Handed, Untouched, Private, LeavingIsGone, Leaving
<1>3. LeavingIsGone'
  BY SignalingAssumption
     DEF HandlerFails, Goto, Return, DetachConn, leasing, peers, monitors, IInv, TypeOK, Known,
         Handed, Untouched, Private, LeavingIsGone, Leaving
<1>4. Stoppable'
  BY SignalingAssumption
     DEF HandlerFails, Goto, Return, DetachConn, leasing, peers, monitors, IInv, TypeOK, Known,
         Handed, Untouched, Private, LeavingIsGone, Leaving, Stoppable, ClosedIsEmpty,
         StopIsLast, MonitorsCancellable
<1>5. QED
  BY <1>1, <1>2, <1>3, <1>4 DEF IInv

LEMMA StepAskLease ==
  ASSUME IInv, NEW w \in Sockets, AskLease(w)
  PROVE  IInv'
<1>1. TypeOK'
  BY SignalingAssumption
     DEF AskLease, Goto, leasing, fields, peers, monitors, IInv, TypeOK, Places, Stages, Known,
         Handed
<1>2. Known'
  BY SignalingAssumption
     DEF AskLease, Goto, leasing, fields, peers, monitors, IInv, TypeOK, Known, Handed,
         Untouched, Private, LeavingIsGone, Leaving
<1>3. LeavingIsGone'
  BY SignalingAssumption
     DEF AskLease, Goto, leasing, fields, peers, monitors, IInv, TypeOK, Known, Handed,
         Untouched, Private, LeavingIsGone, Leaving
<1>4. Stoppable'
  BY SignalingAssumption
     DEF AskLease, Goto, leasing, fields, peers, monitors, IInv, TypeOK, Known, Handed,
         Untouched, Private, LeavingIsGone, Leaving, Stoppable, ClosedIsEmpty, StopIsLast,
         MonitorsCancellable
<1>5. QED
  BY <1>1, <1>2, <1>3, <1>4 DEF IInv

LEMMA StepStartDetachedMonitor ==
  ASSUME IInv, NEW w \in Sockets, StartDetachedMonitor(w)
  PROVE  IInv'
<1> DEFINE o == object[w]
<1>1. /\ pc[w] = "watch" /\ pc' = [pc EXCEPT ![w] = "over"]
      /\ object' = [object EXCEPT ![w] = None]
      /\ UNCHANGED <<leasing, current, made, closed, conn, peers, cancelled, releasing,
                     previous, open>>
  BY DEF StartDetachedMonitor, Return, Goto
<1>2. o \in Objects /\ o \in made /\ \A v \in Sockets : pc[v] = "store" => object[v] # o
  BY <1>1, SignalingAssumption DEF IInv, Known, Handed, Private, TypeOK
<1>3. /\ seq[o] \in Nat /\ stop[o] \in Nat
      /\ seq' \in [Objects -> Nat] /\ stop' \in [Objects -> Nat]
      /\ monitor' \in [Objects -> [Seqs -> Stages]]
      /\ \A p \in Objects \ {o} : seq'[p] = seq[p] /\ stop'[p] = stop[p] /\ monitor'[p] = monitor[p]
  <2>1. CASE closed[o] \/ stop[o] # 0
    BY <1>2, <2>1 DEF StartDetachedMonitor, IInv, TypeOK
  <2>2. CASE ~(closed[o] \/ stop[o] # 0)
    <3>1. /\ seq' = [seq EXCEPT ![o] = @ + 1]
          /\ stop' = [stop EXCEPT ![o] = seq[o] + 1]
          /\ monitor' = [monitor EXCEPT ![o][seq[o] + 1] = "tick"]
      BY <2>2 DEF StartDetachedMonitor
    <3>2. /\ seq' \in [Objects -> Nat] /\ stop' \in [Objects -> Nat]
          /\ \A p \in Objects \ {o} : seq'[p] = seq[p] /\ stop'[p] = stop[p]
      BY <1>2, <3>1 DEF IInv, TypeOK
    <3>3. [monitor[o] EXCEPT ![seq[o] + 1] = "tick"] \in [Seqs -> Stages]
      BY <1>2 DEF IInv, TypeOK, Stages
    <3>4. /\ monitor' \in [Objects -> [Seqs -> Stages]]
          /\ \A p \in Objects \ {o} : monitor'[p] = monitor[p]
      BY <1>2, <3>1, <3>3 DEF IInv, TypeOK
    <3>5. seq[o] \in Nat /\ stop[o] \in Nat
      BY <1>2 DEF IInv, TypeOK
    <3>6. QED
      BY <3>2, <3>4, <3>5
  <2>3. QED
    BY <2>1, <2>2
<1>4. \/ UNCHANGED <<seq, stop, monitor>>
      \/ /\ ~closed[o] /\ stop[o] = 0 /\ seq'[o] = seq[o] + 1 /\ stop'[o] = seq[o] + 1
         /\ \A n \in Seqs : monitor'[o][n] = IF n = seq[o] + 1 THEN "tick" ELSE monitor[o][n]
  <2>1. CASE closed[o] \/ stop[o] # 0
    BY <2>1 DEF StartDetachedMonitor
  <2>2. CASE ~(closed[o] \/ stop[o] # 0)
    <3>1. /\ seq' = [seq EXCEPT ![o] = @ + 1]
          /\ stop' = [stop EXCEPT ![o] = seq[o] + 1]
          /\ monitor' = [monitor EXCEPT ![o][seq[o] + 1] = "tick"]
      BY <2>2 DEF StartDetachedMonitor
    <3>2. QED
      BY <1>2, <2>2, <3>1 DEF IInv, TypeOK
  <2>3. QED
    BY <2>1, <2>2
<1>5. TypeOK'
  BY <1>1, <1>3 DEF IInv, TypeOK, Places, leasing, peers
<1>6. ASSUME NEW p \in Objects, p # o, Untouched(p)
      PROVE  Untouched(p)'
  BY <1>1, <1>3, <1>6 DEF Untouched, peers
<1>7. Known'
  BY <1>1, <1>2, <1>6 DEF IInv, Known, Handed, Private, TypeOK
<1>8. LeavingIsGone'
  <2>1. ASSUME NEW p \in Objects, NEW n \in Seqs, monitor'[p][n] = "close"
        PROVE  monitor[p][n] = "close"
    BY <1>3, <1>4, <2>1
  <2>2. ASSUME NEW p \in Objects, NEW v \in Sockets,
               pc'[v] \in {"closeOld", "close"}, object'[v] = p
        PROVE  pc[v] \in {"closeOld", "close"} /\ object[v] = p
    BY <1>1, <2>2, SignalingAssumption DEF IInv, TypeOK
  <2>3. ASSUME NEW p \in Objects, Leaving(p)' PROVE Leaving(p)
    BY <1>1, <2>1, <2>2, <2>3 DEF Leaving, peers
  <2>4. QED
    BY <1>1, <2>3 DEF IInv, LeavingIsGone
<1>9. Stoppable'
  <2>1. ClosedIsEmpty' /\ StopIsLast'
    BY <1>1, <1>3, <1>4 DEF IInv, Stoppable, ClosedIsEmpty, StopIsLast
  <2>2. MonitorsCancellable'
    BY <1>1, <1>2, <1>3, <1>4 DEF IInv, Stoppable, MonitorsCancellable, Seqs
  <2>3. QED
    BY <2>1, <2>2 DEF Stoppable
<1>10. QED
  BY <1>5, <1>7, <1>8, <1>9 DEF IInv


LEMMA StepRemove ==
  ASSUME IInv, NEW w \in Sockets, Remove(w)
  PROVE  IInv'
<1>1. TypeOK'
  BY SignalingAssumption
     DEF Remove, Goto, RemoveSignalingSession, leasing, fields, peers, monitors, IInv, TypeOK,
         Places, Stages, Known, Handed
<1>2. Known'
  BY SignalingAssumption
     DEF Remove, Goto, RemoveSignalingSession, leasing, fields, peers, monitors, IInv, TypeOK,
         Known, Handed, Untouched, Private, LeavingIsGone, Leaving
<1>3. LeavingIsGone'
  BY SignalingAssumption
     DEF Remove, Goto, RemoveSignalingSession, leasing, fields, peers, monitors, IInv, TypeOK,
         Known, Handed, Untouched, Private, LeavingIsGone, Leaving
<1>4. Stoppable'
  BY SignalingAssumption
     DEF Remove, Goto, RemoveSignalingSession, leasing, fields, peers, monitors, IInv, TypeOK,
         Known, Handed, Untouched, Private, LeavingIsGone, Leaving, Stoppable, ClosedIsEmpty,
         StopIsLast, MonitorsCancellable
<1>5. QED
  BY <1>1, <1>2, <1>3, <1>4 DEF IInv

LEMMA StepSocketCloses ==
  ASSUME IInv, NEW w \in Sockets, SocketCloses(w)
  PROVE  IInv'
<1>1. /\ object[w] \in Objects \cup {None} /\ CloseSignalingSession(object[w])
      /\ object[w] # None => Leaving(object[w])
  BY DEF SocketCloses, Goto, Return, leasing, IInv, TypeOK, Leaving
<1>2. /\ UNCHANGED <<leasing, current, made, seq, previous>> /\ releasing' \subseteq releasing
      /\ callback' \in [Objects -> {"quiet", "close", "over"}]
      /\ \A p \in Objects \ {object[w]} : callback'[p] = callback[p]
  BY DEF SocketCloses, Goto, Return, leasing, IInv, TypeOK, Stages
<1>3. /\ monitor' \in [Objects -> [Seqs -> Stages]]
      /\ \A p \in Objects \ {object[w]} : monitor'[p] = monitor[p]
      /\ \A p \in Objects : \A k \in Seqs : monitor'[p][k] \in {monitor[p][k], "leave"}
  BY DEF SocketCloses, Goto, Return, leasing, IInv, TypeOK, Stages
<1>4. /\ pc' \in [Sockets -> Places]
      /\ object' \in [Sockets -> Objects \cup {None}]
      /\ \A v \in Sockets :
           \/ pc'[v] = pc[v] /\ object'[v] = object[v]
           \/ pc'[v] \in {"lookup", "over"} /\ object'[v] = None
  BY DEF SocketCloses, Goto, Return, leasing, IInv, TypeOK, Places
<1>5. QED
  BY <1>1, <1>2, <1>3, <1>4, ClosingStep

LEMMA StepBuild ==
  ASSUME IInv, NEW w \in Sockets, NEW o \in Objects, Build(w, o)
  PROVE  IInv'
<1>1. TypeOK'
  BY SignalingAssumption
     DEF Build, Goto, leasing, fields, peers, monitors, IInv, TypeOK, Places, Stages, Known,
         Handed
<1>2. Known'
  BY SignalingAssumption
     DEF Build, Goto, leasing, fields, peers, monitors, IInv, TypeOK, Known, Handed, Untouched,
         Private, LeavingIsGone, Leaving
<1>3. LeavingIsGone'
  BY SignalingAssumption
     DEF Build, Goto, leasing, fields, peers, monitors, IInv, TypeOK, Known, Handed, Untouched,
         Private, LeavingIsGone, Leaving
<1>4. Stoppable'
  BY SignalingAssumption
     DEF Build, Goto, leasing, fields, peers, monitors, IInv, TypeOK, Known, Handed, Untouched,
         Private, LeavingIsGone, Leaving, Stoppable, ClosedIsEmpty, StopIsLast,
         MonitorsCancellable
<1>5. QED
  BY <1>1, <1>2, <1>3, <1>4 DEF IInv

LEMMA StepConnect ==
  ASSUME IInv, NEW w \in Sockets, NEW fresh \in BOOLEAN, Connect(w, fresh)
  PROVE  IInv'
<1>1. TypeOK'
  BY SignalingAssumption
     DEF Connect, Goto, fields, peers, monitors, IInv, TypeOK, Places, Stages, Known, Handed
<1>2. Known'
  BY SignalingAssumption
     DEF Connect, Goto, fields, peers, monitors, IInv, TypeOK, Known, Handed, Untouched,
         Private, LeavingIsGone, Leaving
<1>3. LeavingIsGone'
  BY SignalingAssumption
     DEF Connect, Goto, fields, peers, monitors, IInv, TypeOK, Known, Handed, Untouched,
         Private, LeavingIsGone, Leaving
<1>4. Stoppable'
  BY SignalingAssumption
     DEF Connect, Goto, fields, peers, monitors, IInv, TypeOK, Known, Handed, Untouched,
         Private, LeavingIsGone, Leaving, Stoppable, ClosedIsEmpty, StopIsLast,
         MonitorsCancellable
<1>5. QED
  BY <1>1, <1>2, <1>3, <1>4 DEF IInv

---------------------------------------------------------------------------
(* The steps of a monitor                                                  *)

LEMMA StepMonitorStops ==
  ASSUME IInv, NEW o \in Objects, NEW n \in Seqs, MonitorStops(o, n)
  PROVE  IInv'
<1>1. TypeOK'
  BY SignalingAssumption
     DEF MonitorStops, Move, leasing, fields, peers, threads, IInv, TypeOK, Places, Stages,
         Known, Handed
<1>2. Known'
  BY SignalingAssumption
     DEF MonitorStops, Move, leasing, fields, peers, threads, IInv, TypeOK, Known, Handed,
         Untouched, Private, LeavingIsGone, Leaving
<1>3. LeavingIsGone'
  BY SignalingAssumption
     DEF MonitorStops, Move, leasing, fields, peers, threads, IInv, TypeOK, Known, Handed,
         Untouched, Private, LeavingIsGone, Leaving
<1>4. Stoppable'
  BY SignalingAssumption
     DEF MonitorStops, Move, leasing, fields, peers, threads, IInv, TypeOK, Known, Handed,
         Untouched, Private, LeavingIsGone, Leaving, Stoppable, ClosedIsEmpty, StopIsLast,
         MonitorsCancellable
<1>5. QED
  BY <1>1, <1>2, <1>3, <1>4 DEF IInv

LEMMA StepMonitorTicks ==
  ASSUME IInv, NEW o \in Objects, NEW n \in Seqs, MonitorTicks(o, n)
  PROVE  IInv'
<1>1. TypeOK'
  BY SignalingAssumption
     DEF MonitorTicks, Move, leasing, fields, peers, threads, IInv, TypeOK, Places, Stages,
         Known, Handed
<1>2. Known'
  BY SignalingAssumption
     DEF MonitorTicks, Move, leasing, fields, peers, threads, IInv, TypeOK, Known, Handed,
         Untouched, Private, LeavingIsGone, Leaving
<1>3. LeavingIsGone'
  BY SignalingAssumption
     DEF MonitorTicks, Move, leasing, fields, peers, threads, IInv, TypeOK, Known, Handed,
         Untouched, Private, LeavingIsGone, Leaving
<1>4. Stoppable'
  BY SignalingAssumption
     DEF MonitorTicks, Move, leasing, fields, peers, threads, IInv, TypeOK, Known, Handed,
         Untouched, Private, LeavingIsGone, Leaving, Stoppable, ClosedIsEmpty, StopIsLast,
         MonitorsCancellable
<1>5. QED
  BY <1>1, <1>2, <1>3, <1>4 DEF IInv

LEMMA StepMonitorAsksLease ==
  ASSUME IInv, NEW o \in Objects, NEW n \in Seqs, MonitorAsksLease(o, n)
  PROVE  IInv'
<1>1. TypeOK'
  BY SignalingAssumption
     DEF MonitorAsksLease, Move, leasing, fields, peers, threads, IInv, TypeOK, Places, Stages,
         Known, Handed
<1>2. Known'
  BY SignalingAssumption
     DEF MonitorAsksLease, Move, leasing, fields, peers, threads, IInv, TypeOK, Known, Handed,
         Untouched, Private, LeavingIsGone, Leaving
<1>3. LeavingIsGone'
  BY SignalingAssumption
     DEF MonitorAsksLease, Move, leasing, fields, peers, threads, IInv, TypeOK, Known, Handed,
         Untouched, Private, LeavingIsGone, Leaving
<1>4. Stoppable'
  BY SignalingAssumption
     DEF MonitorAsksLease, Move, leasing, fields, peers, threads, IInv, TypeOK, Known, Handed,
         Untouched, Private, LeavingIsGone, Leaving, Stoppable, ClosedIsEmpty, StopIsLast,
         MonitorsCancellable
<1>5. QED
  BY <1>1, <1>2, <1>3, <1>4 DEF IInv

LEMMA StepMonitorLooksAtPeer ==
  ASSUME IInv, NEW o \in Objects, NEW n \in Seqs, MonitorLooksAtPeer(o, n)
  PROVE  IInv'
<1>1. TypeOK'
  BY SignalingAssumption
     DEF MonitorLooksAtPeer, Move, leasing, fields, peers, threads, IInv, TypeOK, Places,
         Stages, Known, Handed
<1>2. Known'
  BY SignalingAssumption
     DEF MonitorLooksAtPeer, Move, leasing, fields, peers, threads, IInv, TypeOK, Known,
         Handed, Untouched, Private, LeavingIsGone, Leaving
<1>3. LeavingIsGone'
  BY SignalingAssumption
     DEF MonitorLooksAtPeer, Move, leasing, fields, peers, threads, IInv, TypeOK, Known,
         Handed, Untouched, Private, LeavingIsGone, Leaving
<1>4. Stoppable'
  BY SignalingAssumption
     DEF MonitorLooksAtPeer, Move, leasing, fields, peers, threads, IInv, TypeOK, Known,
         Handed, Untouched, Private, LeavingIsGone, Leaving, Stoppable, ClosedIsEmpty,
         StopIsLast, MonitorsCancellable
<1>5. QED
  BY <1>1, <1>2, <1>3, <1>4 DEF IInv

LEMMA StepMonitorRemoves ==
  ASSUME IInv, NEW o \in Objects, NEW n \in Seqs, MonitorRemoves(o, n)
  PROVE  IInv'
<1>1. TypeOK'
  BY SignalingAssumption
     DEF MonitorRemoves, RemoveSignalingSession, Move, leasing, fields, peers, threads, IInv,
         TypeOK, Places, Stages, Known, Handed
<1>2. Known'
  BY SignalingAssumption
     DEF MonitorRemoves, RemoveSignalingSession, Move, leasing, fields, peers, threads, IInv,
         TypeOK, Known, Handed, Untouched, Private, LeavingIsGone, Leaving
<1>3. LeavingIsGone'
  BY SignalingAssumption
     DEF MonitorRemoves, RemoveSignalingSession, Move, leasing, fields, peers, threads, IInv,
         TypeOK, Known, Handed, Untouched, Private, LeavingIsGone, Leaving
<1>4. Stoppable'
  BY SignalingAssumption
     DEF MonitorRemoves, RemoveSignalingSession, Move, leasing, fields, peers, threads, IInv,
         TypeOK, Known, Handed, Untouched, Private, LeavingIsGone, Leaving, Stoppable,
         ClosedIsEmpty, StopIsLast, MonitorsCancellable
<1>5. QED
  BY <1>1, <1>2, <1>3, <1>4 DEF IInv

LEMMA StepMonitorCloses ==
  ASSUME IInv, NEW o \in Objects, NEW n \in Seqs, MonitorCloses(o, n)
  PROVE  IInv'
<1>1. /\ o \in Objects \cup {None} /\ CloseSignalingSession(o)
      /\ o # None => Leaving(o)
  BY DEF MonitorCloses, Move, leasing, threads, IInv, TypeOK, Leaving
<1>2. /\ UNCHANGED <<leasing, current, made, seq, previous>> /\ releasing' \subseteq releasing
      /\ callback' \in [Objects -> {"quiet", "close", "over"}]
      /\ \A p \in Objects \ {o} : callback'[p] = callback[p]
  BY DEF MonitorCloses, Move, leasing, threads, IInv, TypeOK, Stages
<1>3. /\ monitor' \in [Objects -> [Seqs -> Stages]]
      /\ \A p \in Objects \ {o} : monitor'[p] = monitor[p]
      /\ \A p \in Objects : \A k \in Seqs : monitor'[p][k] \in {monitor[p][k], "leave"}
  BY DEF MonitorCloses, Move, leasing, threads, IInv, TypeOK, Stages
<1>4. /\ pc' \in [Sockets -> Places]
      /\ object' \in [Sockets -> Objects \cup {None}]
      /\ \A v \in Sockets :
           \/ pc'[v] = pc[v] /\ object'[v] = object[v]
           \/ pc'[v] \in {"lookup", "over"} /\ object'[v] = None
  BY DEF MonitorCloses, Move, leasing, threads, IInv, TypeOK, Places
<1>5. QED
  BY <1>1, <1>2, <1>3, <1>4, ClosingStep

LEMMA StepMonitorLeaves ==
  ASSUME IInv, NEW o \in Objects, NEW n \in Seqs, MonitorLeaves(o, n)
  PROVE  IInv'
<1>1. TypeOK'
  BY SignalingAssumption
     DEF MonitorLeaves, Move, Forgets, leasing, peers, threads, IInv, TypeOK, Places, Stages,
         Known, Handed
<1>2. Known'
  BY SignalingAssumption
     DEF MonitorLeaves, Move, Forgets, leasing, peers, threads, IInv, TypeOK, Known, Handed,
         Untouched, Private, LeavingIsGone, Leaving
<1>3. LeavingIsGone'
  BY SignalingAssumption
     DEF MonitorLeaves, Move, Forgets, leasing, peers, threads, IInv, TypeOK, Known, Handed,
         Untouched, Private, LeavingIsGone, Leaving
<1>4. Stoppable'
  BY SignalingAssumption
     DEF MonitorLeaves, Move, Forgets, leasing, peers, threads, IInv, TypeOK, Known, Handed,
         Untouched, Private, LeavingIsGone, Leaving, Stoppable, ClosedIsEmpty, StopIsLast,
         MonitorsCancellable
<1>5. QED
  BY <1>1, <1>2, <1>3, <1>4 DEF IInv

---------------------------------------------------------------------------
(* The steps of the peer connection, the leases and the tickets            *)

LEMMA StepReleaseCloses ==
  ASSUME IInv, NEW o \in Objects, ReleaseCloses(o)
  PROVE  IInv'
<1>1. /\ o \in Objects \cup {None} /\ CloseSignalingSession(o)
      /\ o # None => Leaving(o)
  BY DEF ReleaseCloses, leasing, threads, IInv, TypeOK, Leaving
<1>2. /\ UNCHANGED <<leasing, current, made, seq, previous>> /\ releasing' \subseteq releasing
      /\ callback' \in [Objects -> {"quiet", "close", "over"}]
      /\ \A p \in Objects \ {o} : callback'[p] = callback[p]
  BY DEF ReleaseCloses, leasing, threads, IInv, TypeOK, Stages
<1>3. /\ monitor' \in [Objects -> [Seqs -> Stages]]
      /\ \A p \in Objects \ {o} : monitor'[p] = monitor[p]
      /\ \A p \in Objects : \A k \in Seqs : monitor'[p][k] \in {monitor[p][k], "leave"}
  BY DEF ReleaseCloses, leasing, threads, IInv, TypeOK, Stages
<1>4. /\ pc' \in [Sockets -> Places]
      /\ object' \in [Sockets -> Objects \cup {None}]
      /\ \A v \in Sockets :
           \/ pc'[v] = pc[v] /\ object'[v] = object[v]
           \/ pc'[v] \in {"lookup", "over"} /\ object'[v] = None
  BY DEF ReleaseCloses, leasing, threads, IInv, TypeOK, Places
<1>5. QED
  BY <1>1, <1>2, <1>3, <1>4, ClosingStep

LEMMA StepPeerReports ==
  ASSUME IInv, NEW o \in Objects, PeerReports(o)
  PROVE  IInv'
<1>1. TypeOK'
  BY SignalingAssumption
     DEF PeerReports, RemoveSignalingSession, leasing, fields, monitors, threads, IInv, TypeOK,
         Places, Stages, Known, Handed
<1>2. Known'
  BY SignalingAssumption
     DEF PeerReports, RemoveSignalingSession, leasing, fields, monitors, threads, IInv, TypeOK,
         Known, Handed, Untouched, Private, LeavingIsGone, Leaving
<1>3. LeavingIsGone'
  BY SignalingAssumption
     DEF PeerReports, RemoveSignalingSession, leasing, fields, monitors, threads, IInv, TypeOK,
         Known, Handed, Untouched, Private, LeavingIsGone, Leaving
<1>4. Stoppable'
  BY SignalingAssumption
     DEF PeerReports, RemoveSignalingSession, leasing, fields, monitors, threads, IInv, TypeOK,
         Known, Handed, Untouched, Private, LeavingIsGone, Leaving, Stoppable, ClosedIsEmpty,
         StopIsLast, MonitorsCancellable
<1>5. QED
  BY <1>1, <1>2, <1>3, <1>4 DEF IInv

LEMMA StepCallbackCloses ==
  ASSUME IInv, NEW o \in Objects, CallbackCloses(o)
  PROVE  IInv'
<1>1. /\ o \in Objects \cup {None} /\ CloseSignalingSession(o)
      /\ o # None => Leaving(o)
  BY DEF CallbackCloses, leasing, threads, IInv, TypeOK, Leaving
<1>2. /\ UNCHANGED <<leasing, current, made, seq, previous>> /\ releasing' \subseteq releasing
      /\ callback' \in [Objects -> {"quiet", "close", "over"}]
      /\ \A p \in Objects \ {o} : callback'[p] = callback[p]
  BY DEF CallbackCloses, leasing, threads, IInv, TypeOK, Stages
<1>3. /\ monitor' \in [Objects -> [Seqs -> Stages]]
      /\ \A p \in Objects \ {o} : monitor'[p] = monitor[p]
      /\ \A p \in Objects : \A k \in Seqs : monitor'[p][k] \in {monitor[p][k], "leave"}
  BY DEF CallbackCloses, leasing, threads, IInv, TypeOK, Stages
<1>4. /\ pc' \in [Sockets -> Places]
      /\ object' \in [Sockets -> Objects \cup {None}]
      /\ \A v \in Sockets :
           \/ pc'[v] = pc[v] /\ object'[v] = object[v]
           \/ pc'[v] \in {"lookup", "over"} /\ object'[v] = None
  BY DEF CallbackCloses, leasing, threads, IInv, TypeOK, Places
<1>5. QED
  BY <1>1, <1>2, <1>3, <1>4, ClosingStep

LEMMA StepPeerFails ==
  ASSUME IInv, NEW o \in Objects, PeerFails(o)
  PROVE  IInv'
<1>1. TypeOK'
  BY SignalingAssumption
     DEF PeerFails, leasing, fields, monitors, threads, IInv, TypeOK, Places, Stages, Known,
         Handed
<1>2. Known'
  BY SignalingAssumption
     DEF PeerFails, leasing, fields, monitors, threads, IInv, TypeOK, Known, Handed, Untouched,
         Private, LeavingIsGone, Leaving
<1>3. LeavingIsGone'
  BY SignalingAssumption
     DEF PeerFails, leasing, fields, monitors, threads, IInv, TypeOK, Known, Handed, Untouched,
         Private, LeavingIsGone, Leaving
<1>4. Stoppable'
  BY SignalingAssumption
     DEF PeerFails, leasing, fields, monitors, threads, IInv, TypeOK, Known, Handed, Untouched,
         Private, LeavingIsGone, Leaving, Stoppable, ClosedIsEmpty, StopIsLast,
         MonitorsCancellable
<1>5. QED
  BY <1>1, <1>2, <1>3, <1>4 DEF IInv

LEMMA StepCreateTicket ==
  ASSUME IInv, CreateTicket
  PROVE  IInv'
<1>1. TypeOK'
  BY SignalingAssumption
     DEF CreateTicket, fields, peers, monitors, threads, IInv, TypeOK, Places, Stages, Known,
         Handed
<1>2. Known'
  BY SignalingAssumption
     DEF CreateTicket, fields, peers, monitors, threads, IInv, TypeOK, Known, Handed,
         Untouched, Private, LeavingIsGone, Leaving
<1>3. LeavingIsGone'
  BY SignalingAssumption
     DEF CreateTicket, fields, peers, monitors, threads, IInv, TypeOK, Known, Handed,
         Untouched, Private, LeavingIsGone, Leaving
<1>4. Stoppable'
  BY SignalingAssumption
     DEF CreateTicket, fields, peers, monitors, threads, IInv, TypeOK, Known, Handed,
         Untouched, Private, LeavingIsGone, Leaving, Stoppable, ClosedIsEmpty, StopIsLast,
         MonitorsCancellable
<1>5. QED
  BY <1>1, <1>2, <1>3, <1>4 DEF IInv

LEMMA StepLeaseExpires ==
  ASSUME IInv, LeaseExpires
  PROVE  IInv'
<1>0. lease' \in BOOLEAN
  BY Zenon DEF LeaseExpires
<1>1. TypeOK'
  BY <1>0, SignalingAssumption
     DEF LeaseExpires, fields, peers, monitors, threads, IInv, TypeOK, Places, Stages, Known,
         Handed
<1>2. Known'
  BY <1>0, SignalingAssumption
     DEF LeaseExpires, fields, peers, monitors, threads, IInv, TypeOK, Known, Handed,
         Untouched, Private, LeavingIsGone, Leaving
<1>3. LeavingIsGone'
  BY <1>0, SignalingAssumption
     DEF LeaseExpires, fields, peers, monitors, threads, IInv, TypeOK, Known, Handed,
         Untouched, Private, LeavingIsGone, Leaving
<1>4. Stoppable'
  BY <1>0, SignalingAssumption
     DEF LeaseExpires, fields, peers, monitors, threads, IInv, TypeOK, Known, Handed,
         Untouched, Private, LeavingIsGone, Leaving, Stoppable, ClosedIsEmpty, StopIsLast,
         MonitorsCancellable
<1>5. QED
  BY <1>1, <1>2, <1>3, <1>4 DEF IInv

LEMMA StepReleaseSession ==
  ASSUME IInv, ReleaseSession
  PROVE  IInv'
<1>0. lease' \in BOOLEAN
  BY Zenon DEF ReleaseSession
<1>1. TypeOK'
  BY <1>0, SignalingAssumption
     DEF ReleaseSession, fields, peers, monitors, threads, IInv, TypeOK, Places, Stages, Known,
         Handed
<1>2. Known'
  BY <1>0, SignalingAssumption
     DEF ReleaseSession, fields, peers, monitors, threads, IInv, TypeOK, Known, Handed,
         Untouched, Private, LeavingIsGone, Leaving
<1>3. LeavingIsGone'
  BY <1>0, SignalingAssumption
     DEF ReleaseSession, fields, peers, monitors, threads, IInv, TypeOK, Known, Handed,
         Untouched, Private, LeavingIsGone, Leaving
<1>4. Stoppable'
  BY <1>0, SignalingAssumption
     DEF ReleaseSession, fields, peers, monitors, threads, IInv, TypeOK, Known, Handed,
         Untouched, Private, LeavingIsGone, Leaving, Stoppable, ClosedIsEmpty, StopIsLast,
         MonitorsCancellable
<1>5. QED
  BY <1>1, <1>2, <1>3, <1>4 DEF IInv

---------------------------------------------------------------------------
(* The invariant                                                           *)

LEMMA IInvInit == Init => IInv
<1> SUFFICES ASSUME Init PROVE IInv
  OBVIOUS
<1>1. TypeOK
  BY DEF Init, TypeOK, Places, Stages
<1>2. Known
  BY SignalingAssumption DEF Init, Known, Handed, Private, Untouched
<1>3. LeavingIsGone
  BY SignalingAssumption DEF Init, LeavingIsGone
<1>4. Stoppable
  BY DEF Init, Stoppable, ClosedIsEmpty, StopIsLast, MonitorsCancellable
<1>5. QED
  BY <1>1, <1>2, <1>3, <1>4 DEF IInv

LEMMA IInvStep == IInv /\ [Next]_vars => IInv'
<1> SUFFICES ASSUME IInv, [Next]_vars PROVE IInv'
  OBVIOUS
<1>1. CASE UNCHANGED vars
  <2>1. TypeOK'
    BY <1>1 DEF vars, leasing, fields, peers, monitors, threads, IInv, TypeOK
  <2>2. Known'
    BY <1>1
       DEF vars, leasing, fields, peers, monitors, threads, IInv, Known, Handed, Private, Untouched
  <2>3. LeavingIsGone'
    BY <1>1
       DEF vars, leasing, fields, peers, monitors, threads, IInv, LeavingIsGone, Leaving
  <2>4. Stoppable'
    BY <1>1
       DEF vars, leasing, fields, peers, monitors, threads, IInv, Stoppable, ClosedIsEmpty,
           StopIsLast, MonitorsCancellable
  <2>5. QED
    BY <2>1, <2>2, <2>3, <2>4 DEF IInv
<1>2. ASSUME NEW w \in Sockets, Socket(w) PROVE IInv'
  BY <1>2,
     StepReplace, StepReplaceCloses, StepLookup, StepStore, StepStoreLate, StepAttach,
     StepAttachClosed, StepCloseReplaced, StepReadEnds, StepAskLease, StepStartDetachedMonitor,
     StepRemove, StepSocketCloses, StepBuild
     DEF Socket
<1>3. ASSUME NEW o \in Objects, NEW n \in Seqs, Monitor(o, n) PROVE IInv'
  BY <1>3,
     StepMonitorStops, StepMonitorTicks, StepMonitorAsksLease, StepMonitorLooksAtPeer,
     StepMonitorRemoves, StepMonitorCloses, StepMonitorLeaves
     DEF Monitor
<1>4. CASE Next
  BY <1>2, <1>3, <1>4,
     StepStartFails, StepNegotiate, StepDisconnect, StepHandlerFails, StepConnect,
     StepReleaseCloses, StepPeerReports, StepCallbackCloses, StepPeerFails, StepCreateTicket,
     StepLeaseExpires, StepReleaseSession
     DEF Next, Peer
<1>5. QED
  BY <1>1, <1>4

LEMMA IInvAlways == Spec => []IInv
  BY IInvInit, IInvStep, PTL DEF Spec

\* The service's map never holds a closed session, a closed one keeps neither socket nor
\* monitor, and every monitor at work can be stopped, for any number of sockets, objects and
\* monitors.
THEOREM SessionsAlwaysInOrder == Spec => []SessionsInOrder
<1>1. IInv => SessionsInOrder
  <2>1. LeavingIsGone /\ ClosedIsEmpty => ClosedIsGone
    BY DEF LeavingIsGone, Leaving, ClosedIsEmpty, ClosedIsGone
  <2>2. QED
    BY <2>1 DEF IInv, Stoppable, SessionsInOrder
<1>2. QED
  BY <1>1, IInvAlways, PTL
=============================================================================
