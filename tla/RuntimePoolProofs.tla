------------------------- MODULE RuntimePoolProofs -------------------------
(* Proofs about RuntimePool, for any devices, sessions, goroutines and ids. *)
EXTENDS RuntimePool, FiniteSetTheorems, TLAPS

---------------------------------------------------------------------------
(* Types                                                                   *)

\* What a goroutine knows in each phase of its request.
SignalRequest == [device : Devices, session : Sessions, signature : Signatures]

RequestOK ==
  \A t \in Threads :
    /\ pc[t] \in {"acquire", "wait", "evict", "starting", "using"}
         => req[t] \in SignalRequest
    /\ pc[t] \in {"borrow", "borrowWait", "borrowed", "checkLease",
                  "checkRefs", "forceClose", "forceRead"}
         => req[t].device \in Devices
    /\ pc[t] \in {"wait", "borrowWait", "starting", "using", "borrowed", "forceRead"}
         => held[t] \in Ids

Typed == TypeOK /\ RequestOK

LEMMA NewEntryType ==
  ASSUME NEW e \in Ids, NEW g \in Signatures, NEW s \in Sessions
  PROVE  NewEntry(e, g, s) \in PoolEntry
  BY DEF NewEntry, PoolEntry

LEMMA JoinedType ==
  ASSUME NEW m \in PoolEntry, NEW s \in Sessions
  PROVE  Joined(m, s) \in PoolEntry
  BY DEF Joined, PoolEntry

LEMMA DroppedType ==
  ASSUME NEW m \in PoolEntry
  PROVE  Dropped(m) \in PoolEntry
  BY DEF Dropped, PoolEntry

LEMMA ReleasedType ==
  ASSUME NEW m \in PoolEntry, NEW s \in Sessions, m.sessionRefs[s] > 0
  PROVE  Released(m, s) \in PoolEntry
<1> DEFINE refs == [x \in Sessions |-> IF Dropped(m).refCount = 0 THEN 0
                                        ELSE IF x = s THEN m.sessionRefs[x] - 1
                                        ELSE m.sessionRefs[x]]
<1>1. refs \in [Sessions -> Nat]
  BY DEF PoolEntry
<1> HIDE DEF refs
<1>2. [Dropped(m) EXCEPT !.sessionRefs = refs] \in PoolEntry
  BY <1>1, DroppedType DEF PoolEntry
<1>3. QED
  BY <1>2 DEF Released, refs

\* A goroutine that leaves knows nothing any more.
LEMMA LeaveType ==
  ASSUME Typed, NEW t \in Threads, NEW label \in {"idle", "cleanup"}, Leave(t, label)
  PROVE  /\ pc' \in [Procs -> Labels] /\ req' \in [Threads -> Request]
         /\ held' \in [Threads -> Ids \cup {None}] /\ RequestOK'
<1>1. label \in Labels /\ NoRequest \in Request /\ t \in Procs /\ Janitor \notin Threads
  BY PoolAssumption DEF Labels, NoRequest, Request, Procs
<1>2. pc' \in [Procs -> Labels] /\ req' \in [Threads -> Request] /\ held' \in [Threads -> Ids \cup {None}]
  BY <1>1 DEF Typed, TypeOK, Leave, Goto
<1>3. /\ pc'[t] = label /\ \A u \in Threads \ {t} : pc'[u] = pc[u]
      /\ \A u \in Threads \ {t} : req'[u] = req[u] /\ held'[u] = held[u]
  BY <1>1 DEF Typed, TypeOK, Leave, Goto, Procs
<1>4. RequestOK'
  BY <1>3 DEF Typed, RequestOK
<1>5. QED
  BY <1>2, <1>4

\* A goroutine that goes on with its request needs what the next phase asks for.
LEMMA GotoType ==
  ASSUME Typed, NEW t \in Threads, NEW label \in {"checkRefs", "forceClose"}, Goto(t, label),
         pc[t] \in {"checkLease", "checkRefs"}, UNCHANGED <<req, held>>
  PROVE  pc' \in [Procs -> Labels] /\ RequestOK'
<1>1. label \in Labels /\ t \in Procs
  BY DEF Labels, Procs
<1>2. pc' \in [Procs -> Labels] /\ pc'[t] = label /\ \A u \in Threads \ {t} : pc'[u] = pc[u]
  BY <1>1 DEF Typed, TypeOK, Goto, Procs
<1>3. RequestOK'
  BY <1>2 DEF Typed, RequestOK
<1>4. QED
  BY <1>2, <1>3

LEMMA CheckLeaseTyped ==
  ASSUME Typed, NEW t \in Threads, CheckLease(t)
  PROVE  Typed'
<1>1. UNCHANGED <<runtimes, runtime, lease, closing>>
  BY DEF CheckLease, pool
<1>2. CASE Leave(t, "cleanup")
  BY <1>1, <1>2, LeaveType DEF Typed, TypeOK
<1>3. CASE Goto(t, "checkRefs") /\ UNCHANGED <<req, held>>
  <2>1. pc' \in [Procs -> Labels] /\ RequestOK'
    BY <1>3, GotoType DEF CheckLease
  <2>2. QED
    BY <1>1, <1>3, <2>1 DEF Typed, TypeOK
<1>4. QED
  BY <1>2, <1>3 DEF CheckLease

LEMMA CheckRefsTyped ==
  ASSUME Typed, NEW t \in Threads, CheckRefs(t)
  PROVE  Typed'
<1>1. UNCHANGED <<runtimes, runtime, lease, closing>>
  BY DEF CheckRefs, pool
<1>2. CASE Leave(t, "cleanup")
  BY <1>1, <1>2, LeaveType DEF Typed, TypeOK
<1>3. CASE Goto(t, "forceClose") /\ UNCHANGED <<req, held>>
  <2>1. pc' \in [Procs -> Labels] /\ RequestOK'
    BY <1>3, GotoType DEF CheckRefs
  <2>2. QED
    BY <1>1, <1>3, <2>1 DEF Typed, TypeOK
<1>4. QED
  BY <1>2, <1>3 DEF CheckRefs

LEMMA ForceDeleteTyped ==
  ASSUME Typed, NEW t \in Threads, ForceDelete(t)
  PROVE  Typed'
<1>1. UNCHANGED <<runtime, lease, closing>>
  BY DEF ForceDelete
<1>2. CASE Current(t) = None
  <2>1. Leave(t, "cleanup") /\ UNCHANGED runtimes
    BY <1>2 DEF ForceDelete
  <2>2. QED
    BY <1>1, <2>1, LeaveType DEF Typed, TypeOK
<1>3. CASE Current(t) # None
  <2>1. req[t].device \in Devices
    BY DEF ForceDelete, Typed, RequestOK
  <2>2. Current(t).id \in Ids
    BY <1>3, <2>1 DEF Current, Typed, TypeOK, PoolEntry
  <2>3. /\ runtimes' = [runtimes EXCEPT ![req[t].device] = None]
        /\ held' = [held EXCEPT ![t] = Current(t).id]
        /\ pc' = [pc EXCEPT ![t] = "forceRead"]
        /\ req' = req
    BY <1>3 DEF ForceDelete, Goto
  <2>4. /\ runtimes' \in [Devices -> PoolEntry \cup {None}]
        /\ pc' \in [Procs -> Labels] /\ held' \in [Threads -> Ids \cup {None}]
    BY <2>2, <2>3 DEF Typed, TypeOK, Labels
  <2>5. /\ pc'[t] = "forceRead" /\ held'[t] = Current(t).id
        /\ \A u \in Threads \ {t} : pc'[u] = pc[u] /\ held'[u] = held[u]
    BY <2>3 DEF Typed, TypeOK, Procs
  <2>6. RequestOK'
    BY <2>1, <2>2, <2>3, <2>5 DEF Typed, RequestOK
  <2>7. QED
    BY <1>1, <2>3, <2>4, <2>6 DEF Typed, TypeOK
<1>4. QED
  BY <1>2, <1>3

LEMMA TypedInit == Init => Typed
  BY PoolAssumption DEF Init, Typed, TypeOK, RequestOK, Procs, NoRequest, Request, Labels

LEMMA TypedStep == Typed /\ [Next]_vars => Typed'
<1> SUFFICES ASSUME Typed, [Next]_vars PROVE Typed'
  OBVIOUS
<1> USE PoolAssumption DEF Typed, TypeOK, RequestOK, Goto, Procs, pool
<1> USE DEF Request, SignalRequest, Labels
<1>1. ASSUME NEW t \in Threads, NEW s \in Sessions, NEW g \in Signatures, OpenSignal(t, s, g)
      PROVE  Typed'
  BY <1>1 DEF OpenSignal
<1>2. ASSUME NEW t \in Threads, NEW d \in Devices, BorrowBegin(t, d)
      PROVE  Typed'
  BY <1>2 DEF BorrowBegin, NoRequest
<1>3. ASSUME NEW t \in Threads, NEW s \in Sessions, ReleaseSession(t, s)
      PROVE  Typed'
  BY <1>3 DEF ReleaseSession, NoRequest
<1>4. ASSUME NEW t \in Threads, AcquireWait(t) PROVE Typed'
  BY <1>4 DEF AcquireWait, WaitReady, Current, PoolEntry
<1>5. ASSUME NEW t \in Threads, AcquireWake(t) PROVE Typed'
  BY <1>5 DEF AcquireWake, Woken
<1>6. ASSUME NEW t \in Threads, AcquireJoin(t) PROVE Typed'
  <2>1. Current(t) \in PoolEntry
    BY <1>6 DEF AcquireJoin, FindsOpen, Ready, Current
  <2>2. Joined(Current(t), req[t].session) \in PoolEntry
    BY <1>6, <2>1, JoinedType DEF AcquireJoin, FindsOpen
  <2>3. QED
    BY <1>6, <2>1, <2>2 DEF AcquireJoin, FindsOpen, Current, PoolEntry
<1>7. ASSUME NEW t \in Threads, AcquireEvictClosed(t) PROVE Typed'
  BY <1>7 DEF AcquireEvictClosed, Evict, Ready, Current, PoolEntry
<1>8. ASSUME NEW t \in Threads, AcquireEvictIdle(t) PROVE Typed'
  BY <1>8 DEF AcquireEvictIdle, FindsOpen, Evict, Ready, Current, PoolEntry
<1>9. ASSUME NEW t \in Threads, CloseEvicted(t) PROVE Typed'
  BY <1>9 DEF CloseEvicted
<1>10. ASSUME NEW t \in Threads, AcquireBusy(t) PROVE Typed'
  BY <1>10 DEF AcquireBusy, FindsOpen, Leave, NoRequest
<1>11. ASSUME NEW t \in Threads, NEW e \in Ids, AcquireCreate(t, e) PROVE Typed'
  <2>1. NewEntry(e, req[t].signature, req[t].session) \in PoolEntry
    BY <1>11, NewEntryType DEF AcquireCreate
  <2>2. QED
    BY <1>11, <2>1 DEF AcquireCreate
<1>12. ASSUME NEW t \in Threads, AcquireCancelled(t) PROVE Typed'
  BY <1>12 DEF AcquireCancelled, Leave, NoRequest
<1>13. ASSUME NEW t \in Threads, StartSucceeds(t) PROVE Typed'
  BY <1>13 DEF StartSucceeds
<1>14. ASSUME NEW t \in Threads, StartFails(t) PROVE Typed'
  BY <1>14 DEF StartFails, Leave, NoRequest
<1>15. ASSUME NEW t \in Threads, ReleaseRuntime(t) PROVE Typed'
  <2> DEFINE d == req[t].device
             s == req[t].session
  <2>1. d \in Devices /\ s \in Sessions
    BY <1>15 DEF ReleaseRuntime
  <2>2. runtimes' \in [Devices -> PoolEntry \cup {None}]
    <3>1. CASE Pooled(d, held[t]) /\ runtimes[d].sessionRefs[s] > 0
      <4>1. Released(runtimes[d], s) \in PoolEntry
        BY <2>1, <3>1, ReleasedType DEF Pooled
      <4>2. QED
        BY <1>15, <2>1, <3>1, <4>1 DEF ReleaseRuntime
    <3>2. CASE ~(Pooled(d, held[t]) /\ runtimes[d].sessionRefs[s] > 0)
      BY <1>15, <3>2 DEF ReleaseRuntime
    <3>3. QED
      BY <3>1, <3>2
  <2>3. QED
    BY <1>15, <2>2 DEF ReleaseRuntime, Leave, NoRequest
<1>16. ASSUME NEW p \in Procs, CleanupIdleRuntimes(p) PROVE Typed'
  <2>1. {runtimes[d].id : d \in Stale} \subseteq Ids
    BY DEF Stale, Ready, PoolEntry
  <2>2. QED
    BY <1>16, <2>1 DEF CleanupIdleRuntimes
<1>17. ASSUME NEW p \in Procs, NEW e \in Ids, CloseStale(p, e) PROVE Typed'
  BY <1>17 DEF CloseStale
<1>18. ASSUME NEW p \in Procs, SweepDone(p) PROVE Typed'
  BY <1>18 DEF SweepDone
<1>19. ASSUME NEW t \in Threads, BorrowWait(t) PROVE Typed'
  BY <1>19 DEF BorrowWait, WaitReady, Current, PoolEntry
<1>20. ASSUME NEW t \in Threads, BorrowWake(t) PROVE Typed'
  BY <1>20 DEF BorrowWake, Woken
<1>21. ASSUME NEW t \in Threads, BorrowMissing(t) PROVE Typed'
  BY <1>21 DEF BorrowMissing, Leave, NoRequest
<1>22. ASSUME NEW t \in Threads, Borrow(t) PROVE Typed'
  BY <1>22 DEF Borrow, Ready, Current, PoolEntry
<1>23. ASSUME NEW t \in Threads, BorrowReturn(t) PROVE Typed'
  BY <1>23, DroppedType DEF BorrowReturn, Pooled, Leave, NoRequest
<1>24. ASSUME NEW t \in Threads, CheckLease(t) PROVE Typed'
  BY <1>24, CheckLeaseTyped
<1>25. ASSUME NEW t \in Threads, CheckRefs(t) PROVE Typed'
  BY <1>25, CheckRefsTyped
<1>26. ASSUME NEW t \in Threads, ForceDelete(t) PROVE Typed'
  BY <1>26, ForceDeleteTyped
<1>27. ASSUME NEW t \in Threads, ForceRead(t) PROVE Typed'
  BY <1>27 DEF ForceRead, Leave, NoRequest
<1>28. ASSUME NEW e \in Ids, RuntimeEnds(e) PROVE Typed'
  BY <1>28 DEF RuntimeEnds
<1>29. ASSUME NEW s \in Sessions, LeaseExpires(s) PROVE Typed'
  BY <1>29 DEF LeaseExpires
<1>30. CASE UNCHANGED vars
  BY <1>30 DEF vars
<1>31. QED
  BY <1>1, <1>2, <1>3, <1>4, <1>5, <1>6, <1>7, <1>8, <1>9, <1>10, <1>11, <1>12,
     <1>13, <1>14, <1>15, <1>16, <1>17, <1>18, <1>19, <1>20, <1>21, <1>22, <1>23,
     <1>24, <1>25, <1>26, <1>27, <1>28, <1>29, <1>30
  DEF Next, Acquire, Start, Sweep, BorrowStep, ReleaseStep

LEMMA TypedAlways == Spec => []Typed
<1>1. QED
  BY TypedInit, TypedStep, PTL DEF Spec

\* The type invariant: in particular no counter is ever taken below zero.
THEOREM TypeCorrect == Spec => []TypeOK
<1>1. Typed => TypeOK
  BY DEF Typed
<1>2. QED
  BY <1>1, TypedAlways, PTL

---------------------------------------------------------------------------
(* The inductive invariant                                                 *)

\* The phases in which a goroutine holds a reference, and a socket's ones.
Referring  == {"starting", "using", "borrowed"}
Signalling == {"starting", "using"}

\* No two devices have the same entry.
Distinct ==
  \A d, x \in Devices :
    (runtimes[d] # None /\ runtimes[x] # None /\ runtimes[d].id = runtimes[x].id) => d = x

\* A goroutine holds a reference to an entry of its own device.
AtHome ==
  \A t \in Threads, d \in Devices :
    (pc[t] \in Referring /\ Pooled(d, held[t])) => req[t].device = d

\* What is being closed is not starting and has left the map for good.
ClosingGone ==
  \A p \in Procs : \A e \in closing[p] :
    ~Starting(e) /\ \A d \in Devices : ~Pooled(d, e)

\* While an entry starts, only the goroutine that starts it holds it.
StarterAlone ==
  \A t \in Threads : pc[t] = "starting" =>
    /\ Starting(held[t])
    /\ \A u \in Threads : (pc[u] \in Referring /\ held[u] = held[t]) => u = t

\* A socket's signature is that of the entry it holds, while it is pooled.
SameSignature ==
  \A t \in Threads, d \in Devices :
    (pc[t] \in Signalling /\ Pooled(d, held[t]))
      => req[t].signature = runtimes[d].signature

\* ExclusiveDisplay, counting the goroutine that starts the runtime.
OneSession ==
  \A t, u \in Threads :
    (/\ pc[t] \in Signalling
     /\ pc[u] \in Signalling
     /\ held[t] = held[u]
     /\ req[t].signature \notin Shareable)
    => req[t].session = req[u].session

\* The conjuncts a step disturbs only if a reference is taken or given back.
References ==
  Distinct /\ AtHome /\ RefsMatchHolders /\ SameSignature /\ OneSession

\* The conjuncts about runtimes that start and that are closed.
Closings == ClosingGone /\ StarterAlone /\ IdleCloseUnused

IInv == Typed /\ References /\ Closings

LEMMA IInvInit == Init => IInv
<1> SUFFICES ASSUME Init PROVE IInv
  OBVIOUS
<1>1. Typed
  BY TypedInit
<1>2. References
  BY PoolAssumption
  DEF Init, References, Distinct, AtHome, RefsMatchHolders, SameSignature,
      OneSession, Referring, Signalling, Pooled, Procs
<1>3. Closings
  BY PoolAssumption
  DEF Init, Closings, ClosingGone, StarterAlone, IdleCloseUnused, Procs
<1>4. QED
  BY <1>1, <1>2, <1>3 DEF IInv

---------------------------------------------------------------------------
(* Steps that take and give back no reference                              *)

Quiet ==
  \A u \in Threads :
    /\ pc'[u] \in Referring <=> pc[u] \in Referring
    /\ pc'[u] \in Signalling <=> pc[u] \in Signalling
    /\ pc[u] \in Referring => held'[u] = held[u] /\ req'[u] = req[u]

\* The map only loses entries.
Shrinks == \A d \in Devices : runtimes'[d] \in {runtimes[d], None}

LEMMA QuietReferences ==
  ASSUME References, Quiet, Shrinks
  PROVE  References'
<1> USE DEF References, Quiet, Shrinks
<1>1. Distinct'
  BY DEF Distinct
<1>2. AtHome'
  BY DEF AtHome, Pooled
<1>3. RefsMatchHolders'
  <2> SUFFICES ASSUME NEW d \in Devices, runtimes'[d] # None
               PROVE  (/\ runtimes[d].refCount = Cardinality(Holders(runtimes[d].id))
                       /\ \A s \in Sessions :
                            runtimes[d].sessionRefs[s]
                              = Cardinality(SessionHolders(runtimes[d].id, s)))'
    BY DEF RefsMatchHolders
  <2>1. runtimes'[d] = runtimes[d] /\ runtimes[d] # None
    OBVIOUS
  <2> DEFINE e == runtimes[d].id
  <2>2. Holders(e)' = Holders(e) /\ \A s \in Sessions : SessionHolders(e, s)' = SessionHolders(e, s)
    <3>1. e' = e
      BY <2>1
    <3>2. QED
      BY <3>1 DEF Holders, SessionHolders, Referring, Signalling
  <2>3. QED
    BY <2>1, <2>2 DEF RefsMatchHolders
<1>4. SameSignature'
  BY DEF SameSignature, Pooled, Referring, Signalling
<1>5. OneSession'
  BY DEF OneSession, Referring, Signalling
<1>6. QED
  BY <1>1, <1>2, <1>3, <1>4, <1>5

---------------------------------------------------------------------------
(* Steps that take a reference                                             *)

LEMMA HoldersFinite ==
  \A e : /\ IsFiniteSet(Holders(e))
         /\ \A s : IsFiniteSet(SessionHolders(e, s))
  BY PoolAssumption, FS_Subset DEF Holders, SessionHolders

\* Goroutine t takes a reference to e of device d, in phase label.
Takes(t, d, e, label) ==
  /\ pc[t] \notin Referring
  /\ req[t].device = d
  /\ Goto(t, label)
  /\ held' = [held EXCEPT ![t] = e]
  /\ req' = req
  /\ \A x \in Devices \ {d} : runtimes'[x] = runtimes[x] /\ ~Pooled(x, e)

LEMMA TakesHolders ==
  ASSUME Typed, NEW t \in Threads, NEW d \in Devices, NEW e, NEW label \in Referring,
         Takes(t, d, e, label)
  PROVE  /\ t \notin Holders(e)
         /\ Holders(e)' = Holders(e) \cup {t}
         /\ \A f : f # e => Holders(f)' = Holders(f)
         /\ \A s : /\ t \notin SessionHolders(e, s)
                   /\ SessionHolders(e, s)' = IF label \in Signalling /\ s = req[t].session
                                              THEN SessionHolders(e, s) \cup {t}
                                              ELSE SessionHolders(e, s)
                   /\ \A f : f # e => SessionHolders(f, s)' = SessionHolders(f, s)
  BY DEF Takes, Holders, SessionHolders, Typed, TypeOK, Procs, Goto, Referring, Signalling

\* What the step has to say of the entry of d for the counters to stay exact.
LEMMA TakesRefs ==
  ASSUME Typed, References, NEW t \in Threads, NEW d \in Devices, NEW e,
         NEW label \in Referring, Takes(t, d, e, label),
         Pooled(d, e) \/ Holders(e) = {},
         runtimes'[d] # None,
         runtimes'[d].id = e,
         runtimes'[d].refCount = Cardinality(Holders(e)) + 1,
         \A s \in Sessions :
           runtimes'[d].sessionRefs[s] =
             Cardinality(SessionHolders(e, s))
               + (IF label \in Signalling /\ s = req[t].session THEN 1 ELSE 0)
  PROVE  Distinct' /\ AtHome' /\ RefsMatchHolders'
<1>1. Distinct'
  BY DEF Takes, References, Distinct, Pooled
<1>2. AtHome'
  <2> SUFFICES ASSUME NEW u \in Threads, NEW x \in Devices,
                      pc'[u] \in Referring, Pooled(x, held[u])'
               PROVE  req'[u].device = x
    BY DEF AtHome
  <2>1. CASE u = t
    BY <2>1 DEF Takes, Pooled, Typed, TypeOK
  <2>2. CASE u # t
    <3>1. pc[u] \in Referring /\ held'[u] = held[u] /\ req'[u] = req[u]
      BY <2>2 DEF Takes, Goto, Typed, TypeOK, Procs
    <3>2. CASE x = d
      <4>1. held[u] = e /\ u \in Holders(e)
        BY <3>1, <3>2 DEF Pooled, Holders, Referring
      <4>2. QED
        BY <3>1, <3>2, <4>1 DEF References, AtHome
    <3>3. CASE x # d
      BY <3>1, <3>3 DEF Takes, Pooled, References, AtHome
    <3>4. QED
      BY <3>2, <3>3
  <2>3. QED
    BY <2>1, <2>2
<1>3. RefsMatchHolders'
  <2> SUFFICES ASSUME NEW x \in Devices, runtimes'[x] # None
               PROVE  (/\ runtimes[x].refCount = Cardinality(Holders(runtimes[x].id))
                       /\ \A s \in Sessions :
                            runtimes[x].sessionRefs[s]
                              = Cardinality(SessionHolders(runtimes[x].id, s)))'
    BY DEF RefsMatchHolders
  <2>1. CASE x = d
    <3>1. Cardinality(Holders(e) \cup {t}) = Cardinality(Holders(e)) + 1
      BY TakesHolders, HoldersFinite, FS_AddElement
    <3>2. \A s : Cardinality(SessionHolders(e, s) \cup {t}) = Cardinality(SessionHolders(e, s)) + 1
      BY TakesHolders, HoldersFinite, FS_AddElement
    <3>3. \A s : Cardinality(SessionHolders(e, s)) \in Nat
      BY HoldersFinite, FS_CardinalityType
    <3>4. Holders(runtimes[x].id)' = Holders(e)'
      BY <2>1 DEF Holders
    <3>5. \A s \in Sessions : SessionHolders(runtimes[x].id, s)' = SessionHolders(e, s)'
      BY <2>1 DEF SessionHolders
    <3>6. Cardinality(Holders(e)') = Cardinality(Holders(e)) + 1
      BY <3>1, TakesHolders
    <3>7. ASSUME NEW s \in Sessions
          PROVE  runtimes'[d].sessionRefs[s] = Cardinality(SessionHolders(e, s)')
      <4>1. CASE label \in Signalling /\ s = req[t].session
        <5>1. SessionHolders(e, s)' = SessionHolders(e, s) \cup {t}
          BY <4>1, TakesHolders
        <5>2. QED
          BY <3>2, <4>1, <5>1
      <4>2. CASE ~(label \in Signalling /\ s = req[t].session)
        <5>1. SessionHolders(e, s)' = SessionHolders(e, s)
          BY <4>2, TakesHolders
        <5>2. QED
          BY <3>3, <4>2, <5>1
      <4>3. QED
        BY <4>1, <4>2
    <3>8. QED
      BY <2>1, <3>4, <3>5, <3>6, <3>7
  <2>2. CASE x # d
    <3>1. PICK f : runtimes[x].id = f
      OBVIOUS
    <3>2. runtimes'[x] = runtimes[x] /\ f # e
      BY <2>2, <3>1 DEF Takes, Pooled
    <3>3. /\ Holders(runtimes[x].id)' = Holders(f)'
          /\ \A s \in Sessions : SessionHolders(runtimes[x].id, s)' = SessionHolders(f, s)'
      BY <3>1, <3>2 DEF Holders, SessionHolders
    <3>4. QED
      BY <3>1, <3>2, <3>3, TakesHolders DEF References, RefsMatchHolders
  <2>3. QED
    BY <2>1, <2>2
<1>4. QED
  BY <1>1, <1>2, <1>3

---------------------------------------------------------------------------
(* Steps that give a reference back                                        *)

Gives(t, label) ==
  /\ pc[t] \in Referring
  /\ Leave(t, label)

\* The entry of x is left alone, and is not the one t holds; or it is, and its
\* counters follow.
Accounted(x, t) ==
  \/ runtimes'[x] = runtimes[x] /\ runtimes[x].id # held[t]
  \/ /\ runtimes[x] # None
     /\ runtimes[x].id = held[t]
     /\ runtimes'[x].id = held[t]
     /\ runtimes'[x].refCount = Cardinality(Holders(held[t]) \ {t})
     /\ \A s \in Sessions :
          runtimes'[x].sessionRefs[s] = Cardinality(SessionHolders(held[t], s) \ {t})

LEMMA GivesHolders ==
  ASSUME Typed, NEW t \in Threads, NEW label, label \notin Referring, Gives(t, label)
  PROVE  /\ \A f : Holders(f)' = Holders(f) \ {t}
         /\ \A f, s : SessionHolders(f, s)' = SessionHolders(f, s) \ {t}
<1>1. \A f : Holders(f)' = Holders(f) \ {t}
  BY DEF Gives, Leave, Goto, Holders, Typed, TypeOK, Procs, Referring
<1>2. \A f, s : SessionHolders(f, s)' = SessionHolders(f, s) \ {t}
  BY DEF Gives, Leave, Goto, SessionHolders, Typed, TypeOK, Procs, Referring
<1>3. QED
  BY <1>1, <1>2

LEMMA GivesRefs ==
  ASSUME Typed, References, NEW t \in Threads, NEW label,
         label \notin Referring, Gives(t, label),
         \A x \in Devices : runtimes'[x] # None => Accounted(x, t)
  PROVE  Distinct' /\ AtHome' /\ RefsMatchHolders'
<1>1. Distinct'
  BY DEF References, Distinct, Accounted
<1>2. AtHome'
  BY DEF Gives, Leave, Goto, References, AtHome, Pooled, Accounted, Typed, TypeOK, Procs
<1>3. RefsMatchHolders'
  <2> SUFFICES ASSUME NEW x \in Devices, runtimes'[x] # None
               PROVE  (/\ runtimes[x].refCount = Cardinality(Holders(runtimes[x].id))
                       /\ \A s \in Sessions :
                            runtimes[x].sessionRefs[s]
                              = Cardinality(SessionHolders(runtimes[x].id, s)))'
    BY DEF RefsMatchHolders
  <2>1. PICK f : runtimes'[x].id = f
    OBVIOUS
  <2>2. /\ Holders(runtimes[x].id)' = Holders(f) \ {t}
        /\ \A s \in Sessions : SessionHolders(runtimes[x].id, s)' = SessionHolders(f, s) \ {t}
    <3>1. /\ Holders(runtimes[x].id)' = Holders(f)'
          /\ \A s \in Sessions : SessionHolders(runtimes[x].id, s)' = SessionHolders(f, s)'
      BY <2>1 DEF Holders, SessionHolders
    <3>2. QED
      BY <3>1, GivesHolders
  <2>3. CASE runtimes'[x] = runtimes[x] /\ runtimes[x].id # held[t]
    <3>1. t \notin Holders(f) /\ \A s : t \notin SessionHolders(f, s)
      BY <2>1, <2>3 DEF Holders, SessionHolders
    <3>2. Holders(f) \ {t} = Holders(f) /\ \A s : SessionHolders(f, s) \ {t} = SessionHolders(f, s)
      BY <3>1
    <3>3. /\ runtimes[x].refCount = Cardinality(Holders(f))
          /\ \A s \in Sessions : runtimes[x].sessionRefs[s] = Cardinality(SessionHolders(f, s))
      BY <2>1, <2>3 DEF References, RefsMatchHolders
    <3>4. QED
      BY <2>2, <2>3, <3>2, <3>3
  <2>4. CASE ~(runtimes'[x] = runtimes[x] /\ runtimes[x].id # held[t])
    BY <2>1, <2>2, <2>4 DEF Accounted
  <2>5. QED
    BY <2>3, <2>4
<1>4. QED
  BY <1>1, <1>2, <1>3

---------------------------------------------------------------------------
(* Every step preserves References                                         *)

LEMMA JoinReferences ==
  ASSUME IInv, NEW t \in Threads, AcquireJoin(t)
  PROVE  References'
<1> USE DEF IInv
<1>1. PICK d \in Devices, s \in Sessions, e \in Ids :
        /\ d = req[t].device
        /\ s = req[t].session
        /\ runtimes[d] \in PoolEntry
        /\ runtimes[d] # None
        /\ runtimes[d].id = e
  BY DEF AcquireJoin, FindsOpen, Ready, Current, Typed, TypeOK, RequestOK,
         SignalRequest, PoolEntry
<1>2. runtimes' = [runtimes EXCEPT ![d] = Joined(runtimes[d], s)]
  BY <1>1 DEF AcquireJoin
<1>3. /\ runtimes'[d].id = e
      /\ runtimes'[d].signature = runtimes[d].signature
      /\ runtimes'[d].refCount = runtimes[d].refCount + 1
      /\ \A y \in Sessions : runtimes'[d].sessionRefs[y] =
           runtimes[d].sessionRefs[y] + (IF y = s THEN 1 ELSE 0)
  BY <1>1, <1>2 DEF Joined, Typed, TypeOK, PoolEntry
<1>4. Takes(t, d, e, "using")
  BY <1>1, <1>2 DEF AcquireJoin, FindsOpen, Takes, Current, References, Distinct,
                    Pooled, Referring, Typed, TypeOK
<1>5. runtimes'[d] # None
  BY <1>1, <1>2, JoinedType, PoolAssumption DEF Typed, TypeOK
<1>6. /\ runtimes[d].refCount = Cardinality(Holders(e))
      /\ \A y \in Sessions : runtimes[d].sessionRefs[y] = Cardinality(SessionHolders(e, y))
  BY <1>1 DEF References, RefsMatchHolders
<1>7. Distinct' /\ AtHome' /\ RefsMatchHolders'
  <2>1. \A y \in Sessions :
          runtimes'[d].sessionRefs[y] = Cardinality(SessionHolders(e, y))
            + (IF "using" \in Signalling /\ y = req[t].session THEN 1 ELSE 0)
    BY <1>1, <1>3, <1>6 DEF Signalling
  <2>2. Pooled(d, e)
    BY <1>1 DEF Pooled
  <2>3. runtimes'[d].refCount = Cardinality(Holders(e)) + 1
    BY <1>3, <1>6
  <2>4. QED
    BY <1>3, <1>4, <1>5, <2>1, <2>2, <2>3, TakesRefs DEF Referring
<1>8. req[t].signature = runtimes[d].signature /\ Joinable(t, runtimes[d])
  BY <1>1 DEF AcquireJoin, Current, Joinable
<1>9. SameSignature'
  <2> SUFFICES ASSUME NEW u \in Threads, NEW x \in Devices,
                      pc'[u] \in Signalling, Pooled(x, held[u])'
               PROVE  req'[u].signature = runtimes'[x].signature
    BY DEF SameSignature
  <2>1. CASE u = t
    BY <1>3, <1>4, <1>8, <2>1 DEF Takes, Pooled, Typed, TypeOK
  <2>2. CASE u # t
    BY <1>1, <1>3, <1>4, <2>2
    DEF Takes, Goto, Pooled, References, SameSignature, Typed, TypeOK, Procs
  <2>3. QED
    BY <2>1, <2>2
<1>10. ASSUME NEW u \in Threads, u # t, pc[u] \in Signalling, held[u] = e,
              req[u].signature \notin Shareable \/ req[t].signature \notin Shareable
       PROVE  req[u].session = s
  <2>1. req[u].signature = req[t].signature
    BY <1>1, <1>8, <1>10 DEF References, SameSignature, Pooled
  <2>2. runtimes[d].refCount # 0
    <3>1. u \in Holders(e)
      BY <1>10 DEF Holders, Signalling
    <3>2. QED
      BY <1>6, <3>1, HoldersFinite, FS_EmptySet
  <2>3. runtimes[d].sessionRefs[s] > 0
    BY <1>1, <1>8, <1>10, <2>1, <2>2 DEF Joinable, SameSession, CanShare, KeptForSession
  <2>4. PICK v \in Threads : v \in SessionHolders(e, s)
    <3>1. SessionHolders(e, s) # {}
      BY <1>1, <1>6, <2>3, FS_EmptySet
    <3>2. QED
      BY <3>1 DEF SessionHolders
  <2>5. QED
    BY <1>10, <2>1, <2>4 DEF References, OneSession, SessionHolders, Signalling
<1>11. OneSession'
  <2> SUFFICES ASSUME NEW u \in Threads, NEW v \in Threads,
                      pc'[u] \in Signalling, pc'[v] \in Signalling,
                      held'[u] = held'[v], req'[u].signature \notin Shareable
               PROVE  req'[u].session = req'[v].session
    BY DEF OneSession
  <2>1. \A w \in Threads : w # t => pc'[w] = pc[w] /\ held'[w] = held[w]
    BY <1>4 DEF Takes, Goto, Typed, TypeOK, Procs
  <2>2. req' = req /\ held'[t] = e
    BY <1>4 DEF Takes, Typed, TypeOK
  <2>3. QED
    BY <1>1, <1>10, <2>1, <2>2 DEF References, OneSession
<1>12. QED
  BY <1>7, <1>9, <1>11 DEF References

LEMMA BorrowReferences ==
  ASSUME IInv, NEW t \in Threads, Borrow(t)
  PROVE  References'
<1> USE DEF IInv
<1>1. PICK d \in Devices, e \in Ids :
        /\ d = req[t].device
        /\ runtimes[d] \in PoolEntry
        /\ runtimes[d] # None
        /\ runtimes[d].id = e
  BY DEF Borrow, Ready, Typed, TypeOK, RequestOK, PoolEntry
<1>2. runtimes' = [runtimes EXCEPT ![d].refCount = runtimes[d].refCount + 1]
  BY <1>1 DEF Borrow
<1>3. /\ runtimes'[d].id = e
      /\ runtimes'[d].signature = runtimes[d].signature
      /\ runtimes'[d].refCount = runtimes[d].refCount + 1
      /\ runtimes'[d].sessionRefs = runtimes[d].sessionRefs
      /\ runtimes'[d] \in PoolEntry
  BY <1>1, <1>2 DEF Typed, TypeOK, PoolEntry
<1>4. Takes(t, d, e, "borrowed")
  BY <1>1, <1>2 DEF Borrow, Takes, Current, References, Distinct, Pooled, Referring,
                    Typed, TypeOK
<1>5. /\ runtimes[d].refCount = Cardinality(Holders(e))
      /\ \A y \in Sessions : runtimes[d].sessionRefs[y] = Cardinality(SessionHolders(e, y))
      /\ \A y \in Sessions : Cardinality(SessionHolders(e, y)) \in Nat
  BY <1>1, HoldersFinite, FS_CardinalityType DEF References, RefsMatchHolders
<1>6. Distinct' /\ AtHome' /\ RefsMatchHolders'
  <2>1. runtimes'[d] # None /\ Pooled(d, e)
    BY <1>1, <1>3, PoolAssumption DEF Pooled
  <2>2. \A y \in Sessions :
          runtimes'[d].sessionRefs[y] = Cardinality(SessionHolders(e, y))
            + (IF "borrowed" \in Signalling /\ y = req[t].session THEN 1 ELSE 0)
    BY <1>3, <1>5 DEF Signalling
  <2>3. QED
    BY <1>3, <1>4, <1>5, <2>1, <2>2, TakesRefs DEF Referring
<1>7. \A w \in Threads : w # t => pc'[w] = pc[w] /\ held'[w] = held[w]
  BY <1>4 DEF Takes, Goto, Typed, TypeOK, Procs
<1>8. pc'[t] \notin Signalling /\ req' = req
  BY <1>4 DEF Takes, Goto, Typed, TypeOK, Procs, Signalling
<1>9. SameSignature'
  <2> SUFFICES ASSUME NEW u \in Threads, NEW x \in Devices,
                      pc'[u] \in Signalling, Pooled(x, held[u])'
               PROVE  req'[u].signature = runtimes'[x].signature
    BY DEF SameSignature
  <2>2. u # t /\ pc[u] \in Signalling /\ held'[u] = held[u]
    BY <1>7, <1>8
  <2>3. runtimes'[x] # None /\ runtimes'[x].id = held[u]
    BY <2>2 DEF Pooled
  <2>4. Pooled(x, held[u]) /\ runtimes'[x].signature = runtimes[x].signature
    BY <1>1, <1>3, <1>4, <2>3 DEF Takes, Pooled
  <2>5. QED
    BY <1>8, <2>2, <2>4 DEF References, SameSignature
<1>10. OneSession'
  BY <1>7, <1>8 DEF References, OneSession
<1>11. QED
  BY <1>6, <1>9, <1>10 DEF References

LEMMA CreateReferences ==
  ASSUME IInv, NEW t \in Threads, NEW e \in Ids, AcquireCreate(t, e)
  PROVE  References'
<1> USE DEF IInv
<1>1. PICK d \in Devices, s \in Sessions, g \in Signatures :
        d = req[t].device /\ s = req[t].session /\ g = req[t].signature
  BY DEF AcquireCreate, Typed, RequestOK, SignalRequest
<1>2. runtimes' = [runtimes EXCEPT ![d] = NewEntry(e, g, s)]
  BY <1>1 DEF AcquireCreate
<1>3. runtimes'[d] = NewEntry(e, g, s) /\ NewEntry(e, g, s) \in PoolEntry
  BY <1>2, NewEntryType DEF Typed, TypeOK
<1>4. Takes(t, d, e, "starting")
  BY <1>1, <1>2 DEF AcquireCreate, Takes, Forgotten, Referring, Typed, TypeOK
<1>5. Holders(e) = {} /\ \A y : SessionHolders(e, y) = {}
  BY DEF AcquireCreate, Forgotten, Holders, SessionHolders
<1>6. Distinct' /\ AtHome' /\ RefsMatchHolders'
  <2>1. /\ runtimes'[d] # None
        /\ runtimes'[d].id = e
        /\ runtimes'[d].refCount = Cardinality(Holders(e)) + 1
    BY <1>3, <1>5, FS_EmptySet, PoolAssumption DEF NewEntry
  <2>2. \A y \in Sessions :
          runtimes'[d].sessionRefs[y] = Cardinality(SessionHolders(e, y))
            + (IF "starting" \in Signalling /\ y = req[t].session THEN 1 ELSE 0)
    BY <1>1, <1>3, <1>5, FS_EmptySet DEF NewEntry, Signalling
  <2>3. QED
    BY <1>4, <1>5, <2>1, <2>2, TakesRefs DEF Referring
<1>7. \A w \in Threads : w # t => pc'[w] = pc[w] /\ held'[w] = held[w] /\ held[w] # e
  BY <1>4 DEF AcquireCreate, Forgotten, Takes, Goto, Typed, TypeOK, Procs
<1>8. held'[t] = e /\ req' = req
  BY <1>4 DEF Takes, Typed, TypeOK
<1>9. SameSignature'
  <2> SUFFICES ASSUME NEW u \in Threads, NEW x \in Devices,
                      pc'[u] \in Signalling, Pooled(x, held[u])'
               PROVE  req'[u].signature = runtimes'[x].signature
    BY DEF SameSignature
  <2>1. CASE u = t
    <3>1. x = d
      BY <1>4, <1>8, <2>1 DEF Takes, Pooled
    <3>2. QED
      BY <1>1, <1>3, <1>8, <2>1, <3>1 DEF NewEntry
  <2>2. CASE u # t
    <3>1. x # d
      BY <1>3, <1>7, <2>2 DEF Pooled, NewEntry
    <3>2. QED
      BY <1>4, <1>7, <1>8, <2>2, <3>1 DEF Takes, Pooled, References, SameSignature
  <2>3. QED
    BY <2>1, <2>2
<1>10. OneSession'
  BY <1>7, <1>8 DEF References, OneSession
<1>11. QED
  BY <1>6, <1>9, <1>10 DEF References

\* SameSignature and OneSession speak of fewer sockets after a release.
LEMMA GivesSessions ==
  ASSUME Typed, References, NEW t \in Threads, NEW label,
         label \notin Referring, Gives(t, label),
         \A x \in Devices : runtimes'[x] # None =>
            /\ runtimes[x] # None
            /\ runtimes'[x].id = runtimes[x].id
            /\ runtimes'[x].signature = runtimes[x].signature
  PROVE  SameSignature' /\ OneSession'
<1>1. \A u \in Threads : pc'[u] \in Signalling =>
        pc[u] \in Signalling /\ held'[u] = held[u] /\ req'[u] = req[u]
  BY DEF Gives, Leave, Goto, Typed, TypeOK, Procs, Referring, Signalling
<1>2. SameSignature'
  BY <1>1 DEF References, SameSignature, Pooled
<1>3. OneSession'
  BY <1>1 DEF References, OneSession
<1>4. QED
  BY <1>2, <1>3

LEMMA StartFailsReferences ==
  ASSUME IInv, NEW t \in Threads, StartFails(t)
  PROVE  References'
<1> USE DEF IInv
<1>1. PICK d \in Devices : d = req[t].device /\ runtimes' = [runtimes EXCEPT ![d] = None]
  BY DEF StartFails, Typed, RequestOK, SignalRequest
<1>2. Gives(t, "idle") /\ "idle" \notin Referring
  BY DEF StartFails, Gives, Referring
<1>3. ASSUME NEW x \in Devices, runtimes'[x] # None
      PROVE  runtimes'[x] = runtimes[x] /\ runtimes[x].id # held[t]
  BY <1>1, <1>2, <1>3 DEF Gives, References, AtHome, Pooled, Typed, TypeOK
<1>4. \A x \in Devices : runtimes'[x] # None => Accounted(x, t)
  BY <1>3 DEF Accounted
<1>5. Distinct' /\ AtHome' /\ RefsMatchHolders'
  BY <1>2, <1>4, GivesRefs
<1>6. SameSignature' /\ OneSession'
  BY <1>2, <1>3, GivesSessions
<1>7. QED
  BY <1>5, <1>6 DEF References

\* The reference t holds is counted, and the count without it is one less.
LEMMA OneLess ==
  ASSUME References, NEW t \in Threads, pc[t] \in Referring,
         NEW d \in Devices, Pooled(d, held[t])
  PROVE  /\ runtimes[d].refCount > 0
         /\ Cardinality(Holders(held[t]) \ {t}) = runtimes[d].refCount - 1
         /\ \A y \in Sessions :
              Cardinality(SessionHolders(held[t], y) \ {t}) =
                IF pc[t] \in Signalling /\ y = req[t].session
                THEN runtimes[d].sessionRefs[y] - 1 ELSE runtimes[d].sessionRefs[y]
         /\ pc[t] \in Signalling /\ req[t].session \in Sessions
              => runtimes[d].sessionRefs[req[t].session] > 0
<1> DEFINE e == held[t]
<1>1. /\ runtimes[d].refCount = Cardinality(Holders(e))
      /\ \A y \in Sessions : runtimes[d].sessionRefs[y] = Cardinality(SessionHolders(e, y))
  BY DEF References, RefsMatchHolders, Pooled
<1>2. t \in Holders(e)
  BY DEF Holders, Referring
<1>3. \A y : t \in SessionHolders(e, y) <=> pc[t] \in Signalling /\ y = req[t].session
  BY DEF SessionHolders, Signalling
<1>4. Cardinality(Holders(e)) \in Nat /\ Cardinality(Holders(e)) # 0
  BY <1>2, HoldersFinite, FS_CardinalityType, FS_EmptySet
<1>5. \A y : /\ Cardinality(SessionHolders(e, y)) \in Nat
             /\ t \in SessionHolders(e, y) => Cardinality(SessionHolders(e, y)) # 0
  BY HoldersFinite, FS_CardinalityType, FS_EmptySet
<1>6. Cardinality(Holders(e) \ {t}) = Cardinality(Holders(e)) - 1
  BY <1>2, HoldersFinite, FS_RemoveElement
<1>7. \A y : Cardinality(SessionHolders(e, y) \ {t}) =
               IF t \in SessionHolders(e, y) THEN Cardinality(SessionHolders(e, y)) - 1
               ELSE Cardinality(SessionHolders(e, y))
  BY HoldersFinite, FS_RemoveElement
<1>8. QED
  BY <1>1, <1>3, <1>4, <1>5, <1>6, <1>7

LEMMA ReleaseReferences ==
  ASSUME IInv, NEW t \in Threads, ReleaseRuntime(t)
  PROVE  References'
<1> USE DEF IInv
<1>1. PICK d \in Devices, s \in Sessions, e \in Ids :
        d = req[t].device /\ s = req[t].session /\ e = held[t]
  BY DEF ReleaseRuntime, Typed, RequestOK, SignalRequest
<1>2. /\ Gives(t, "cleanup")
      /\ "cleanup" \notin Referring
      /\ pc[t] \in Signalling
  BY DEF ReleaseRuntime, Gives, Referring, Signalling
<1>3. CASE Pooled(d, e)
  <2>1. /\ runtimes[d] \in PoolEntry
        /\ runtimes[d] # None
        /\ runtimes[d].id = e
    BY <1>3 DEF Pooled, Typed, TypeOK
  <2>2. /\ runtimes[d].refCount > 0
        /\ runtimes[d].sessionRefs[s] > 0
        /\ Cardinality(Holders(e) \ {t}) = runtimes[d].refCount - 1
        /\ \A y \in Sessions :
             Cardinality(SessionHolders(e, y) \ {t}) =
               IF y = s THEN runtimes[d].sessionRefs[y] - 1 ELSE runtimes[d].sessionRefs[y]
    <3>1. References /\ pc[t] \in Referring /\ Pooled(d, held[t])
      BY <1>1, <1>2, <1>3 DEF Gives
    <3>2. /\ runtimes[d].refCount > 0
          /\ Cardinality(Holders(held[t]) \ {t}) = runtimes[d].refCount - 1
          /\ \A y \in Sessions :
               Cardinality(SessionHolders(held[t], y) \ {t}) =
                 IF pc[t] \in Signalling /\ y = req[t].session
                 THEN runtimes[d].sessionRefs[y] - 1 ELSE runtimes[d].sessionRefs[y]
          /\ pc[t] \in Signalling /\ req[t].session \in Sessions
               => runtimes[d].sessionRefs[req[t].session] > 0
      BY <3>1, OneLess
    <3>3. QED
      BY <1>1, <1>2, <3>2
  <2>3. runtimes' = [runtimes EXCEPT ![d] = Released(runtimes[d], s)]
    BY <1>1, <1>3, <2>2 DEF ReleaseRuntime
  <2>4. /\ Dropped(runtimes[d]).refCount = runtimes[d].refCount - 1
        /\ Dropped(runtimes[d]).id = e
        /\ Dropped(runtimes[d]).signature = runtimes[d].signature
        /\ Dropped(runtimes[d]) \in PoolEntry
    BY <2>1, <2>2, DroppedType DEF Dropped, PoolEntry
  <2>5. /\ runtimes'[d].id = e
        /\ runtimes'[d].signature = runtimes[d].signature
        /\ runtimes'[d].refCount = runtimes[d].refCount - 1
        /\ \A y \in Sessions : runtimes'[d].sessionRefs[y] =
             IF runtimes[d].refCount - 1 = 0 THEN 0
             ELSE IF y = s THEN runtimes[d].sessionRefs[y] - 1
             ELSE runtimes[d].sessionRefs[y]
    BY <2>3, <2>4 DEF Released, Typed, TypeOK, PoolEntry
  <2>6. ASSUME NEW y \in Sessions, runtimes[d].refCount - 1 = 0
        PROVE  Cardinality(SessionHolders(e, y) \ {t}) = 0
    <3>1. Holders(e) \ {t} = {}
      BY <2>2, <2>6, HoldersFinite, FS_RemoveElement, FS_EmptySet
    <3>2. SessionHolders(e, y) \ {t} = {}
      BY <3>1 DEF Holders, SessionHolders
    <3>3. QED
      BY <3>2, FS_EmptySet
  <2>7. Accounted(d, t)
    BY <1>1, <2>1, <2>2, <2>5, <2>6 DEF Accounted
  <2>8. \A x \in Devices : (runtimes'[x] # None /\ x # d) =>
          runtimes'[x] = runtimes[x] /\ runtimes[x].id # e
    BY <2>1, <2>3 DEF References, Distinct, Typed, TypeOK
  <2>9. \A x \in Devices : runtimes'[x] # None => Accounted(x, t)
    BY <1>1, <2>7, <2>8 DEF Accounted
  <2>10. Distinct' /\ AtHome' /\ RefsMatchHolders'
    BY <1>2, <2>9, GivesRefs
  <2>11. SameSignature' /\ OneSession'
    BY <1>2, <2>1, <2>5, <2>8, GivesSessions
  <2>12. QED
    BY <2>10, <2>11 DEF References
<1>4. CASE ~Pooled(d, e)
  <2>1. runtimes' = runtimes
    BY <1>1, <1>4 DEF ReleaseRuntime
  <2>2. \A x \in Devices : runtimes[x] # None => runtimes[x].id # e
    BY <1>1, <1>2, <1>4 DEF Gives, References, AtHome, Pooled
  <2>3. \A x \in Devices : runtimes'[x] # None => Accounted(x, t)
    BY <1>1, <2>1, <2>2 DEF Accounted
  <2>4. Distinct' /\ AtHome' /\ RefsMatchHolders'
    BY <1>2, <2>3, GivesRefs
  <2>5. SameSignature' /\ OneSession'
    BY <1>2, <2>1, GivesSessions
  <2>6. QED
    BY <2>4, <2>5 DEF References
<1>5. QED
  BY <1>3, <1>4

LEMMA BorrowReturnReferences ==
  ASSUME IInv, NEW t \in Threads, BorrowReturn(t)
  PROVE  References'
<1> USE DEF IInv
<1>1. PICK d \in Devices, e \in Ids : d = req[t].device /\ e = held[t]
  BY DEF BorrowReturn, Typed, RequestOK
<1>2. /\ Gives(t, "idle")
      /\ "idle" \notin Referring
      /\ pc[t] \notin Signalling
  BY DEF BorrowReturn, Gives, Referring, Signalling
<1>3. CASE Pooled(d, e)
  <2>1. /\ runtimes[d] \in PoolEntry
        /\ runtimes[d] # None
        /\ runtimes[d].id = e
    BY <1>3 DEF Pooled, Typed, TypeOK
  <2>2. /\ runtimes[d].refCount > 0
        /\ Cardinality(Holders(e) \ {t}) = runtimes[d].refCount - 1
        /\ \A y \in Sessions :
             Cardinality(SessionHolders(e, y) \ {t}) = runtimes[d].sessionRefs[y]
    BY <1>1, <1>2, <1>3, OneLess DEF Gives
  <2>3. runtimes' = [runtimes EXCEPT ![d] = Dropped(runtimes[d])]
    BY <1>1, <1>3 DEF BorrowReturn
  <2>4. /\ Dropped(runtimes[d]).refCount = runtimes[d].refCount - 1
        /\ Dropped(runtimes[d]).id = e
        /\ Dropped(runtimes[d]).signature = runtimes[d].signature
        /\ Dropped(runtimes[d]).sessionRefs = runtimes[d].sessionRefs
    BY <2>1, <2>2 DEF Dropped, PoolEntry
  <2>5. runtimes'[d] = Dropped(runtimes[d])
    BY <2>3 DEF Typed, TypeOK
  <2>6. Accounted(d, t)
    BY <1>1, <2>1, <2>2, <2>4, <2>5 DEF Accounted
  <2>7. \A x \in Devices : (runtimes'[x] # None /\ x # d) =>
          runtimes'[x] = runtimes[x] /\ runtimes[x].id # e
    BY <2>1, <2>3 DEF References, Distinct, Typed, TypeOK
  <2>8. \A x \in Devices : runtimes'[x] # None => Accounted(x, t)
    BY <1>1, <2>6, <2>7 DEF Accounted
  <2>9. Distinct' /\ AtHome' /\ RefsMatchHolders'
    BY <1>2, <2>8, GivesRefs
  <2>10. SameSignature' /\ OneSession'
    BY <1>2, <2>1, <2>4, <2>5, <2>7, GivesSessions
  <2>11. QED
    BY <2>9, <2>10 DEF References
<1>4. CASE ~Pooled(d, e)
  <2>1. runtimes' = runtimes
    BY <1>1, <1>4 DEF BorrowReturn
  <2>2. \A x \in Devices : runtimes[x] # None => runtimes[x].id # e
    BY <1>1, <1>2, <1>4 DEF Gives, References, AtHome, Pooled
  <2>3. \A x \in Devices : runtimes'[x] # None => Accounted(x, t)
    BY <1>1, <2>1, <2>2 DEF Accounted
  <2>4. Distinct' /\ AtHome' /\ RefsMatchHolders'
    BY <1>2, <2>3, GivesRefs
  <2>5. SameSignature' /\ OneSession'
    BY <1>2, <2>1, GivesSessions
  <2>6. QED
    BY <2>4, <2>5 DEF References
<1>5. QED
  BY <1>3, <1>4

---------------------------------------------------------------------------
(* Closings, and the steps that leave it alone                             *)

\* No reference is taken or given back, nothing is about to be closed or
\* starts to start, and what is closed stays closed.
Calm ==
  /\ Quiet
  /\ Shrinks
  /\ \A p \in Procs : closing'[p] \subseteq closing[p]
  /\ \A t \in Threads : pc'[t] = "starting" => pc[t] = "starting"
  /\ \A e \in Ids : /\ Starting(e)' <=> Starting(e)
                    /\ runtime[e] = "closed" => runtime'[e] = "closed"

LEMMA CalmStep ==
  ASSUME IInv, Calm
  PROVE  References' /\ Closings'
<1> USE DEF IInv, Calm
<1>1. References'
  BY QuietReferences
<1>2. ClosingGone'
  BY DEF Closings, ClosingGone, Shrinks, Pooled, Typed, TypeOK
<1>3. StarterAlone'
  <2> SUFFICES ASSUME NEW t \in Threads, pc'[t] = "starting"
               PROVE  /\ Starting(held[t])'
                      /\ \A u \in Threads :
                           (pc'[u] \in Referring /\ held'[u] = held'[t]) => u = t
    BY DEF StarterAlone
  <2>1. pc[t] = "starting" /\ held'[t] = held[t] /\ held[t] \in Ids
    BY DEF Quiet, Referring, Typed, RequestOK
  <2>2. Starting(held[t]) /\ \A u \in Threads : (pc[u] \in Referring /\ held[u] = held[t]) => u = t
    BY <2>1 DEF Closings, StarterAlone
  <2>3. runtime'[held[t]] = "starting"
    BY <2>1, <2>2 DEF Starting
  <2>4. QED
    BY <2>1, <2>2, <2>3 DEF Quiet, Starting
<1>4. IdleCloseUnused'
  <2> SUFFICES ASSUME NEW p \in Procs, NEW e \in closing'[p], Holders(e)' # {}
               PROVE  runtime'[e] = "closed"
    BY DEF IdleCloseUnused
  <2>1. e \in closing[p] /\ e \in Ids
    BY DEF Typed, TypeOK
  <2>2. Holders(e) # {}
    BY DEF Quiet, Holders, Referring
  <2>3. QED
    BY <2>1, <2>2 DEF Closings, IdleCloseUnused
<1>5. QED
  BY <1>1, <1>2, <1>3, <1>4 DEF Closings

LEMMA CalmActions ==
  ASSUME IInv, NEW t \in Threads,
         \/ \E s \in Sessions, g \in Signatures : OpenSignal(t, s, g)
         \/ \E d \in Devices : BorrowBegin(t, d)
         \/ \E s \in Sessions : ReleaseSession(t, s)
         \/ AcquireWait(t) \/ AcquireWake(t) \/ AcquireBusy(t) \/ AcquireCancelled(t)
         \/ CloseEvicted(t)
         \/ BorrowWait(t) \/ BorrowWake(t) \/ BorrowMissing(t)
         \/ CheckLease(t) \/ CheckRefs(t) \/ ForceDelete(t) \/ ForceRead(t)
  PROVE  Calm
<1> USE DEF IInv, Calm, Quiet, Shrinks, Referring, Signalling, Goto, Leave, pool
<1> USE DEF Typed, TypeOK, Procs
<1>1. ASSUME NEW s \in Sessions, NEW g \in Signatures, OpenSignal(t, s, g) PROVE Calm
  BY <1>1 DEF OpenSignal, Starting
<1>2. ASSUME NEW d \in Devices, BorrowBegin(t, d) PROVE Calm
  BY <1>2 DEF BorrowBegin, Starting
<1>3. ASSUME NEW s \in Sessions, ReleaseSession(t, s) PROVE Calm
  BY <1>3 DEF ReleaseSession, Starting
<1>4. CASE AcquireWait(t) \/ BorrowWait(t)
  BY <1>4 DEF AcquireWait, BorrowWait, WaitReady, Starting
<1>5. CASE AcquireWake(t) \/ BorrowWake(t)
  BY <1>5 DEF AcquireWake, BorrowWake, Woken, Starting
<1>6. CASE AcquireBusy(t) \/ AcquireCancelled(t) \/ BorrowMissing(t)
  BY <1>6 DEF AcquireBusy, FindsOpen, AcquireCancelled, BorrowMissing, Starting
<1>7. CASE CloseEvicted(t)
  BY <1>7 DEF CloseEvicted, Starting, Closings, ClosingGone
<1>8. CASE CheckLease(t) \/ CheckRefs(t)
  BY <1>8 DEF CheckLease, CheckRefs, Starting
<1>9. CASE ForceDelete(t)
  BY <1>9 DEF ForceDelete, Starting
<1>10. CASE ForceRead(t)
  BY <1>10 DEF ForceRead, Starting
<1>11. QED
  BY <1>1, <1>2, <1>3, <1>4, <1>5, <1>6, <1>7, <1>8, <1>9, <1>10

LEMMA CalmSweep ==
  ASSUME IInv, NEW p \in Procs, SweepDone(p) \/ \E e \in Ids : CloseStale(p, e)
  PROVE  Calm
<1> USE DEF IInv, Calm, Quiet, Shrinks, Referring, Signalling, Goto, pool
<1> USE DEF Typed, TypeOK, Procs
<1>1. CASE SweepDone(p)
  BY <1>1 DEF SweepDone, Starting
<1>2. ASSUME NEW e \in Ids, CloseStale(p, e) PROVE Calm
  BY <1>2 DEF CloseStale, Starting, Closings, ClosingGone
<1>3. QED
  BY <1>1, <1>2

LEMMA CalmEnvironment ==
  ASSUME IInv,
         \/ \E e \in Ids : RuntimeEnds(e)
         \/ \E s \in Sessions : LeaseExpires(s)
         \/ UNCHANGED vars
  PROVE  Calm
  BY DEF IInv, Calm, Quiet, Shrinks, RuntimeEnds, LeaseExpires, vars, pool, Starting,
         Typed, TypeOK

---------------------------------------------------------------------------
(* Steps that disturb Closings                                             *)

\* Entries leave the map to be closed: nobody holds them, or they are closed.
LEMMA RemovalStep ==
  ASSUME IInv, Quiet, Shrinks, UNCHANGED runtime, NEW p \in Procs,
         \A q \in Procs : q # p => closing'[q] = closing[q],
         \A t \in Threads : pc'[t] = "starting" => pc[t] = "starting",
         \A e \in closing'[p] :
           /\ e \in Ids
           /\ ~Starting(e)
           /\ \A d \in Devices : ~Pooled(d, e)'
           /\ Holders(e) = {} \/ runtime[e] = "closed"
  PROVE  References' /\ Closings'
<1> USE DEF IInv
<1>1. References'
  BY QuietReferences
<1>2. ClosingGone'
  <2> SUFFICES ASSUME NEW q \in Procs, NEW e \in closing'[q]
               PROVE  runtime'[e] # "starting" /\ \A d \in Devices : ~Pooled(d, e)'
    BY DEF ClosingGone, Starting
  <2>1. CASE q = p
    BY <2>1 DEF Starting
  <2>2. CASE q # p
    BY <2>2 DEF Closings, ClosingGone, Shrinks, Pooled, Starting
  <2>3. QED
    BY <2>1, <2>2
<1>3. StarterAlone'
  BY DEF Closings, StarterAlone, Quiet, Starting, Referring
<1>4. IdleCloseUnused'
  <2> SUFFICES ASSUME NEW q \in Procs, NEW e \in closing'[q], Holders(e)' # {}
               PROVE  runtime'[e] = "closed"
    BY DEF IdleCloseUnused
  <2>1. Holders(e) # {}
    BY DEF Quiet, Holders, Referring
  <2>2. QED
    BY <2>1 DEF Closings, IdleCloseUnused
<1>5. QED
  BY <1>1, <1>2, <1>3, <1>4 DEF Closings

LEMMA EvictStep ==
  ASSUME IInv, NEW t \in Threads, AcquireEvictClosed(t) \/ AcquireEvictIdle(t)
  PROVE  References' /\ Closings'
<1> USE DEF IInv
<1>1. PICK d \in Devices, e \in Ids :
        /\ d = req[t].device
        /\ runtimes[d] # None
        /\ runtimes[d].id = e
        /\ ~Starting(e)
        /\ runtimes[d].refCount = 0 \/ runtime[e] = "closed"
  BY DEF AcquireEvictClosed, AcquireEvictIdle, FindsOpen, Ready, Current, Typed,
         TypeOK, RequestOK, SignalRequest, PoolEntry
<1>2. /\ pc[t] = "acquire"
      /\ Goto(t, "evict")
      /\ runtimes' = [runtimes EXCEPT ![d] = None]
      /\ closing' = [closing EXCEPT ![t] = {e}]
      /\ UNCHANGED <<runtime, req, held>>
  BY <1>1 DEF AcquireEvictClosed, AcquireEvictIdle, FindsOpen, Evict, Current
<1>3. Quiet /\ Shrinks /\ \A u \in Threads : pc'[u] = "starting" => pc[u] = "starting"
  BY <1>2 DEF Quiet, Shrinks, Goto, Referring, Signalling, Typed, TypeOK, Procs
<1>4. Holders(e) = {} \/ runtime[e] = "closed"
  BY <1>1, HoldersFinite, FS_EmptySet DEF References, RefsMatchHolders
<1>5. \A x \in Devices : ~Pooled(x, e)'
  BY <1>1, <1>2 DEF Pooled, References, Distinct, Typed, TypeOK
<1>6. closing'[t] = {e} /\ \A q \in Procs : q # t => closing'[q] = closing[q]
  BY <1>2 DEF Typed, TypeOK, Procs
<1>7. t \in Procs
  BY DEF Procs
<1>8. QED
  BY <1>1, <1>2, <1>3, <1>4, <1>5, <1>6, <1>7, RemovalStep

LEMMA CleanupStep ==
  ASSUME IInv, NEW p \in Procs, CleanupIdleRuntimes(p)
  PROVE  References' /\ Closings'
<1> USE DEF IInv
<1>1. Quiet /\ Shrinks /\ \A u \in Threads : pc'[u] = "starting" => pc[u] = "starting"
  BY DEF CleanupIdleRuntimes, Quiet, Shrinks, Goto, Referring, Signalling, Typed,
         TypeOK, Procs
<1>2. /\ closing'[p] = {runtimes[d].id : d \in Stale}
      /\ \A q \in Procs : q # p => closing'[q] = closing[q]
  BY DEF CleanupIdleRuntimes, Typed, TypeOK
<1>3. ASSUME NEW e \in closing'[p]
      PROVE  /\ e \in Ids
             /\ ~Starting(e)
             /\ \A d \in Devices : ~Pooled(d, e)'
             /\ Holders(e) = {}
  <2>1. PICK d \in Devices : d \in Stale /\ e = runtimes[d].id
    BY <1>2 DEF Stale
  <2>2. /\ runtimes[d] # None
        /\ runtimes[d] \in PoolEntry
        /\ ~Starting(e)
        /\ runtimes[d].refCount = 0
    BY <2>1 DEF Stale, Ready, Typed, TypeOK
  <2>3. Holders(e) = {}
    BY <2>1, <2>2, HoldersFinite, FS_EmptySet DEF References, RefsMatchHolders
  <2>4. \A x \in Devices : ~Pooled(x, e)'
    BY <2>1, <2>2 DEF CleanupIdleRuntimes, Pooled, References, Distinct
  <2>5. QED
    BY <2>1, <2>2, <2>3, <2>4 DEF PoolEntry
<1>4. QED
  BY <1>1, <1>2, <1>3, RemovalStep DEF CleanupIdleRuntimes

\* An entry that is taken is neither being closed nor being started by another.
LEMMA TakesClosings ==
  ASSUME IInv, NEW t \in Threads, NEW d \in Devices, NEW e \in Ids,
         NEW label \in Referring, Takes(t, d, e, label),
         UNCHANGED closing,
         \A p \in Procs : e \notin closing[p],
         runtimes'[d].id = e,
         \A f \in Ids : f # e => runtime'[f] = runtime[f],
         \A u \in Threads : u # t /\ pc[u] = "starting" => held[u] # e,
         label = "starting" => runtime'[e] = "starting" /\ Holders(e) = {}
  PROVE  Closings'
<1> USE DEF IInv
<1>1. /\ \A u \in Threads : u # t => pc'[u] = pc[u] /\ held'[u] = held[u]
      /\ pc'[t] = label /\ held'[t] = e
  BY DEF Takes, Goto, Typed, TypeOK, Procs
<1>2. ClosingGone'
  <2> SUFFICES ASSUME NEW p \in Procs, NEW f \in closing'[p]
               PROVE  runtime'[f] # "starting" /\ \A x \in Devices : ~Pooled(x, f)'
    BY DEF ClosingGone, Starting
  <2>1. f \in closing[p] /\ f \in Ids /\ f # e
    BY DEF Typed, TypeOK
  <2>2. runtime'[f] # "starting"
    BY <2>1 DEF Closings, ClosingGone, Starting
  <2>3. ASSUME NEW x \in Devices PROVE ~Pooled(x, f)'
    BY <2>1 DEF Closings, ClosingGone, Takes, Pooled
  <2>4. QED
    BY <2>2, <2>3
<1>3. StarterAlone'
  <2> SUFFICES ASSUME NEW u \in Threads, pc'[u] = "starting"
               PROVE  /\ runtime'[held'[u]] = "starting"
                      /\ \A v \in Threads :
                           (pc'[v] \in Referring /\ held'[v] = held'[u]) => v = u
    BY DEF StarterAlone, Starting
  <2>1. CASE u = t
    <3>1. \A v \in Threads : v # t => ~(pc[v] \in Referring /\ held[v] = e)
      BY <1>1, <2>1 DEF Holders, Referring
    <3>2. QED
      BY <1>1, <2>1, <3>1
  <2>2. CASE u # t
    <3>1. pc[u] = "starting" /\ held[u] \in Ids /\ held[u] # e
      BY <1>1, <2>2 DEF Typed, RequestOK
    <3>2. QED
      BY <1>1, <2>2, <3>1 DEF Closings, StarterAlone, Starting
  <2>3. QED
    BY <2>1, <2>2
<1>4. IdleCloseUnused'
  <2> SUFFICES ASSUME NEW p \in Procs, NEW f \in closing'[p], Holders(f)' # {}
               PROVE  runtime'[f] = "closed"
    BY DEF IdleCloseUnused
  <2>1. f \in closing[p] /\ f \in Ids /\ f # e
    BY DEF Typed, TypeOK
  <2>2. Holders(f) # {}
    BY <2>1, TakesHolders
  <2>3. QED
    BY <2>1, <2>2 DEF Closings, IdleCloseUnused
<1>5. QED
  BY <1>2, <1>3, <1>4 DEF Closings

\* A reference given back; a start that failed leaves a runtime closed.
LEMMA GivesClosings ==
  ASSUME IInv, NEW t \in Threads, NEW label, label \notin Referring, Gives(t, label),
         UNCHANGED closing,
         \A x \in Devices : runtimes'[x] # None =>
            runtimes[x] # None /\ runtimes'[x].id = runtimes[x].id,
         \A e \in Ids :
            \/ runtime'[e] = runtime[e]
            \/ pc[t] = "starting" /\ e = held[t] /\ runtime'[e] = "closed"
  PROVE  Closings'
<1> USE DEF IInv
<1>1. \A u \in Threads : pc'[u] \in Referring =>
        u # t /\ pc'[u] = pc[u] /\ held'[u] = held[u]
  BY DEF Gives, Leave, Goto, Typed, TypeOK, Procs
<1>2. ClosingGone'
  <2> SUFFICES ASSUME NEW p \in Procs, NEW e \in closing[p]
               PROVE  runtime'[e] # "starting" /\ \A x \in Devices : ~Pooled(x, e)'
    BY DEF ClosingGone, Starting
  <2>1. e \in Ids /\ runtime[e] # "starting" /\ \A x \in Devices : ~Pooled(x, e)
    BY DEF Closings, ClosingGone, Starting, Typed, TypeOK
  <2>2. QED
    BY <2>1 DEF Pooled
<1>3. StarterAlone'
  <2> SUFFICES ASSUME NEW u \in Threads, pc'[u] = "starting"
               PROVE  /\ runtime'[held'[u]] = "starting"
                      /\ \A v \in Threads :
                           (pc'[v] \in Referring /\ held'[v] = held'[u]) => v = u
    BY DEF StarterAlone, Starting
  <2>1. u # t /\ pc[u] = "starting" /\ held'[u] = held[u] /\ held[u] \in Ids
    BY <1>1 DEF Referring, Typed, RequestOK
  <2>2. /\ runtime[held[u]] = "starting"
        /\ \A v \in Threads : (pc[v] \in Referring /\ held[v] = held[u]) => v = u
    BY <2>1 DEF Closings, StarterAlone, Starting
  <2>3. held[u] # held[t]
    BY <2>1, <2>2 DEF Gives
  <2>4. QED
    BY <1>1, <2>1, <2>2, <2>3
<1>4. IdleCloseUnused'
  <2> SUFFICES ASSUME NEW p \in Procs, NEW e \in closing[p], Holders(e)' # {}
               PROVE  runtime'[e] = "closed"
    BY DEF IdleCloseUnused
  <2>1. e \in Ids /\ Holders(e) # {}
    BY GivesHolders DEF Typed, TypeOK
  <2>2. QED
    BY <2>1 DEF Closings, IdleCloseUnused
<1>5. QED
  BY <1>2, <1>3, <1>4 DEF Closings

LEMMA JoinClosings ==
  ASSUME IInv, NEW t \in Threads, AcquireJoin(t) \/ Borrow(t)
  PROVE  Closings'
<1> USE DEF IInv
<1>1. PICK d \in Devices, e \in Ids :
        /\ d = req[t].device
        /\ runtimes[d] \in PoolEntry
        /\ runtimes[d] # None
        /\ runtimes[d].id = e
        /\ ~Starting(e)
  BY DEF AcquireJoin, FindsOpen, Borrow, Ready, Typed, TypeOK, RequestOK, SignalRequest,
         PoolEntry
<1>2. PICK label \in {"using", "borrowed"} : Goto(t, label)
  BY DEF AcquireJoin, Borrow
<1>3. /\ pc[t] \notin Referring
      /\ held' = [held EXCEPT ![t] = e]
      /\ UNCHANGED <<runtime, closing, req>>
  BY <1>1 DEF AcquireJoin, FindsOpen, Borrow, Current, Referring
<1>4. /\ runtimes'[d].id = e
      /\ \A x \in Devices : x # d => runtimes'[x] = runtimes[x]
  <2>1. CASE AcquireJoin(t)
    BY <1>1, <2>1 DEF AcquireJoin, Joined, Typed, TypeOK
  <2>2. CASE Borrow(t)
    BY <1>1, <2>2 DEF Borrow, Typed, TypeOK, PoolEntry
  <2>3. QED
    BY <2>1, <2>2
<1>5. Takes(t, d, e, label)
  BY <1>1, <1>2, <1>3, <1>4 DEF Takes, References, Distinct, Pooled
<1>6. \A p \in Procs : e \notin closing[p]
  BY <1>1 DEF Closings, ClosingGone, Pooled
<1>7. \A u \in Threads : pc[u] = "starting" => held[u] # e
  BY <1>1 DEF Closings, StarterAlone
<1>8. label \in Referring /\ label # "starting"
  BY DEF Referring
<1>9. QED
  BY <1>3, <1>4, <1>5, <1>6, <1>7, <1>8, TakesClosings

LEMMA CreateClosings ==
  ASSUME IInv, NEW t \in Threads, NEW e \in Ids, AcquireCreate(t, e)
  PROVE  Closings'
<1> USE DEF IInv
<1>1. PICK d \in Devices, s \in Sessions, g \in Signatures :
        d = req[t].device /\ s = req[t].session /\ g = req[t].signature
  BY DEF AcquireCreate, Typed, RequestOK, SignalRequest
<1>2. runtimes' = [runtimes EXCEPT ![d] = NewEntry(e, g, s)]
  BY <1>1 DEF AcquireCreate
<1>3. Takes(t, d, e, "starting") /\ runtimes'[d].id = e
  BY <1>1, <1>2
  DEF AcquireCreate, Takes, Forgotten, Referring, NewEntry, Typed, TypeOK
<1>4. /\ UNCHANGED closing
      /\ \A p \in Procs : e \notin closing[p]
      /\ \A u \in Threads : held[u] # e
      /\ \A f \in Ids : f # e => runtime'[f] = runtime[f]
      /\ runtime'[e] = "starting"
  BY DEF AcquireCreate, Forgotten, Typed, TypeOK
<1>5. Holders(e) = {} /\ "starting" \in Referring
  BY <1>4 DEF Holders, Referring
<1>6. QED
  BY <1>3, <1>4, <1>5, TakesClosings

LEMMA StartSucceedsStep ==
  ASSUME IInv, NEW t \in Threads, StartSucceeds(t)
  PROVE  References' /\ Closings'
<1> USE DEF IInv
<1>1. PICK e \in Ids : e = held[t]
  BY DEF StartSucceeds, Typed, RequestOK
<1>2. /\ pc[t] = "starting" /\ pc'[t] = "using"
      /\ \A u \in Threads : u # t => pc'[u] = pc[u]
      /\ \A f \in Ids : runtime'[f] = IF f = e THEN "open" ELSE runtime[f]
      /\ UNCHANGED <<runtimes, closing, req, held>>
  BY <1>1 DEF StartSucceeds, Goto, Typed, TypeOK, Procs
<1>3. Quiet /\ Shrinks
  BY <1>2 DEF Quiet, Shrinks, Referring, Signalling
<1>4. /\ runtime[e] = "starting"
      /\ \A u \in Threads : (pc[u] \in Referring /\ held[u] = e) => u = t
  BY <1>1, <1>2 DEF Closings, StarterAlone, Starting
<1>5. \A p \in Procs : \A f \in closing[p] : f \in Ids /\ f # e
  BY <1>4 DEF Closings, ClosingGone, Starting, Typed, TypeOK
<1>6. ClosingGone'
  BY <1>2, <1>5 DEF Closings, ClosingGone, Starting, Pooled
<1>7. StarterAlone'
  <2> SUFFICES ASSUME NEW u \in Threads, pc'[u] = "starting"
               PROVE  /\ runtime'[held[u]] = "starting"
                      /\ \A v \in Threads :
                           (pc'[v] \in Referring /\ held[v] = held[u]) => v = u
    BY <1>2 DEF StarterAlone, Starting
  <2>1. u # t /\ pc[u] = "starting" /\ held[u] \in Ids
    BY <1>2 DEF Typed, RequestOK
  <2>2. held[u] # e
    BY <1>4, <2>1 DEF Referring
  <2>3. QED
    BY <1>2, <1>3, <2>1, <2>2 DEF Closings, StarterAlone, Starting, Quiet
<1>8. IdleCloseUnused'
  <2> SUFFICES ASSUME NEW p \in Procs, NEW f \in closing[p], Holders(f)' # {}
               PROVE  runtime'[f] = "closed"
    BY <1>2 DEF IdleCloseUnused
  <2>1. Holders(f) # {}
    BY <1>3 DEF Quiet, Holders, Referring
  <2>2. QED
    BY <1>2, <1>5, <2>1 DEF Closings, IdleCloseUnused
<1>9. QED
  BY <1>3, <1>6, <1>7, <1>8, QuietReferences DEF Closings

LEMMA GiveBackClosings ==
  ASSUME IInv, NEW t \in Threads, StartFails(t) \/ ReleaseRuntime(t) \/ BorrowReturn(t)
  PROVE  Closings'
<1> USE DEF IInv
<1>1. PICK d \in Devices, e \in Ids : d = req[t].device /\ e = held[t]
  BY DEF StartFails, ReleaseRuntime, BorrowReturn, Typed, RequestOK, SignalRequest
<1>2. /\ UNCHANGED closing
      /\ \E label \in {"idle", "cleanup"} : Gives(t, label)
  BY DEF StartFails, ReleaseRuntime, BorrowReturn, Gives, Referring
<1>3. \A x \in Devices : runtimes'[x] # None =>
        runtimes[x] # None /\ runtimes'[x].id = runtimes[x].id
  <2>1. CASE StartFails(t)
    BY <1>1, <2>1 DEF StartFails, Typed, TypeOK
  <2>2. CASE ReleaseRuntime(t)
    BY <1>1, <2>2 DEF ReleaseRuntime, Released, Dropped, Pooled, Typed, TypeOK, PoolEntry
  <2>3. CASE BorrowReturn(t)
    BY <1>1, <2>3 DEF BorrowReturn, Dropped, Pooled, Typed, TypeOK, PoolEntry
  <2>4. QED
    BY <2>1, <2>2, <2>3
<1>4. \A f \in Ids :
        \/ runtime'[f] = runtime[f]
        \/ pc[t] = "starting" /\ f = held[t] /\ runtime'[f] = "closed"
  BY DEF StartFails, ReleaseRuntime, BorrowReturn, Typed, TypeOK
<1>5. "idle" \notin Referring /\ "cleanup" \notin Referring
  BY DEF Referring
<1>6. QED
  BY <1>2, <1>3, <1>4, <1>5, GivesClosings

---------------------------------------------------------------------------
(* The invariant and the theorems                                          *)

LEMMA IInvStep == IInv /\ [Next]_vars => IInv'
<1> SUFFICES ASSUME IInv, [Next]_vars PROVE References' /\ Closings'
  BY TypedStep DEF IInv
<1>1. ASSUME NEW t \in Threads,
             \/ \E s \in Sessions, g \in Signatures : OpenSignal(t, s, g)
             \/ \E d \in Devices : BorrowBegin(t, d)
             \/ \E s \in Sessions : ReleaseSession(t, s)
             \/ AcquireCancelled(t)
             \/ ReleaseStep(t)
      PROVE  References' /\ Closings'
  BY <1>1, CalmActions, CalmStep DEF ReleaseStep
<1>2. ASSUME NEW t \in Threads, Acquire(t)
      PROVE  References' /\ Closings'
  <2>1. CASE AcquireWait(t) \/ AcquireWake(t) \/ CloseEvicted(t) \/ AcquireBusy(t)
    BY <2>1, CalmActions, CalmStep
  <2>2. CASE AcquireJoin(t)
    BY <2>2, JoinReferences, JoinClosings
  <2>3. CASE AcquireEvictClosed(t) \/ AcquireEvictIdle(t)
    BY <2>3, EvictStep
  <2>4. CASE \E e \in Ids : AcquireCreate(t, e)
    BY <2>4, CreateReferences, CreateClosings
  <2>5. QED
    BY <1>2, <2>1, <2>2, <2>3, <2>4 DEF Acquire
<1>3. ASSUME NEW t \in Threads, Start(t)
      PROVE  References' /\ Closings'
  BY <1>3, StartSucceedsStep, StartFailsReferences, GiveBackClosings DEF Start
<1>4. ASSUME NEW t \in Threads, ReleaseRuntime(t)
      PROVE  References' /\ Closings'
  BY <1>4, ReleaseReferences, GiveBackClosings
<1>5. ASSUME NEW t \in Threads, BorrowStep(t)
      PROVE  References' /\ Closings'
  <2>1. CASE BorrowWait(t) \/ BorrowWake(t) \/ BorrowMissing(t)
    BY <2>1, CalmActions, CalmStep
  <2>2. CASE Borrow(t)
    BY <2>2, BorrowReferences, JoinClosings
  <2>3. CASE BorrowReturn(t)
    BY <2>3, BorrowReturnReferences, GiveBackClosings
  <2>4. QED
    BY <1>5, <2>1, <2>2, <2>3 DEF BorrowStep
<1>6. ASSUME NEW p \in Procs, Sweep(p)
      PROVE  References' /\ Closings'
  BY <1>6, CleanupStep, CalmSweep, CalmStep DEF Sweep
<1>7. ASSUME \/ \E e \in Ids : RuntimeEnds(e)
             \/ \E s \in Sessions : LeaseExpires(s)
             \/ UNCHANGED vars
      PROVE  References' /\ Closings'
  BY <1>7, CalmEnvironment, CalmStep
<1>8. QED
  BY <1>1, <1>2, <1>3, <1>4, <1>5, <1>6, <1>7 DEF Next

LEMMA IInvAlways == Spec => []IInv
  BY IInvInit, IInvStep, PTL DEF Spec

\* The counters of the entry a device has are always the references that
\* sockets and clipboard calls hold: acquireRuntime, releaseRuntime and the
\* closure of borrowRuntime neither lose nor invent one, in any interleaving.
THEOREM RefsExact == Spec => []RefsMatchHolders
<1>1. IInv => RefsMatchHolders
  BY DEF IInv, References
<1>2. QED
  BY <1>1, IInvAlways, PTL

\* Neither cleanupIdleRuntimes nor an acquire that replaces an idle entry ever
\* closes a runtime in use, unless it ended by itself.
THEOREM IdleCloseSafe == Spec => []IdleCloseUnused
<1>1. IInv => IdleCloseUnused
  BY DEF IInv, Closings
<1>2. QED
  BY <1>1, IInvAlways, PTL

\* All sockets that use one runtime with a virtual display belong to one
\* session, whichever of the branches of acquireRuntime let them in.
THEOREM DisplayExclusive == Spec => []ExclusiveDisplay
<1>1. IInv => ExclusiveDisplay
  BY DEF IInv, References, OneSession, ExclusiveDisplay, Signalling
<1>2. QED
  BY <1>1, IInvAlways, PTL
=============================================================================
