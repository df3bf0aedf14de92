---------------------------- MODULE RuntimePool ----------------------------
(***************************************************************************)
(* The pool of scrcpy runtimes the agent's WebRTC handler keeps, one entry *)
(* per device (AYLink.Agent/internal/transport/http/handler/webrtc.go).    *)
(* Every signalling WebSocket holds a counted reference to the runtime of  *)
(* its device, the clipboard endpoints borrow one, an idle runtime lives   *)
(* on while a session of the device has a lease, and three different paths *)
(* close runtimes: an acquire that replaces an idle entry, the sweep of    *)
(* idle entries, and the release of a session.                             *)
(*                                                                         *)
(* A step is one critical section of runtimeMu, or one call made outside   *)
(* it.  An id stands for a *managedRuntime and for the runtime its start   *)
(* produces: entry.runtime is assigned once, so comparing runtimes is      *)
(* comparing ids.  Once an entry is out of the map the code reads only its *)
(* ready channel and its runtime, so the other fields live in the map.     *)
(***************************************************************************)
EXTENDS Naturals, FiniteSets

CONSTANTS
  Devices,      \* device keys
  Sessions,     \* casting session ids
  DeviceOf,     \* the device each session was created for
  Signatures,   \* runtime signatures (device, app and display options)
  Shareable,    \* the signatures without a virtual display of their own
  Threads,      \* goroutines that serve requests
  Janitor,      \* the goroutine of runtimeJanitor
  Ids,          \* identities of entries (a bound: a forgotten one is reused)
  None

\* A managedRuntime.
PoolEntry == [id          : Ids,
              signature   : Signatures,
              refCount    : Nat,
              sessionRefs : [Sessions -> Nat],
              sessionIDs  : SUBSET Sessions]

ASSUME PoolAssumption ==
  /\ DeviceOf \in [Sessions -> Devices]
  /\ Shareable \subseteq Signatures
  /\ IsFiniteSet(Threads)
  /\ Janitor \notin Threads
  /\ None \notin Devices \cup Sessions \cup Signatures \cup Ids
  /\ None \notin PoolEntry

VARIABLES
  runtimes,     \* the map device -> entry
  runtime,      \* what became of the runtime of each id
  lease,        \* the sessions that have a live lease
  pc,           \* what each goroutine does next
  req,          \* the request a goroutine serves: device, session, signature
  held,         \* the entry a goroutine refers to
  closing       \* the entries a goroutine took out of the map to close

vars == <<runtimes, runtime, lease, pc, req, held, closing>>
pool == <<runtimes, runtime, closing>>

Procs == Threads \cup {Janitor}

NoRequest == [device |-> None, session |-> None, signature |-> None]

\* The entry acquireRuntime publishes before it starts the runtime.
NewEntry(e, g, s) ==
  [id          |-> e,
   signature   |-> g,
   refCount    |-> 1,
   sessionRefs |-> [x \in Sessions |-> IF x = s THEN 1 ELSE 0],
   sessionIDs  |-> {s}]

Init ==
  /\ runtimes = [d \in Devices |-> None]
  /\ runtime  = [e \in Ids |-> "closed"]
  /\ lease    = {}
  /\ pc       = [p \in Procs |-> IF p = Janitor THEN "cleanup" ELSE "idle"]
  /\ req      = [t \in Threads |-> NoRequest]
  /\ held     = [t \in Threads |-> None]
  /\ closing  = [p \in Procs |-> {}]

---------------------------------------------------------------------------
(* Shared helpers                                                          *)

HasActiveSessionLease(d) == \E s \in lease : DeviceOf[s] = d

HasSessionLease(d, s) == s \in lease /\ DeviceOf[s] = d

\* d has the entry e.
Pooled(d, e) == runtimes[d] # None /\ runtimes[d].id = e

\* starting is cleared, and ready closed, in the critical section that sets
\* entry.runtime or takes the entry out of the map.  A start that failed leaves
\* no runtime to close: nothing tells it from one that is closed.
Starting(e) == runtime[e] = "starting"

\* d has an entry that is not starting.
Ready(d) == runtimes[d] # None /\ ~Starting(runtimes[d].id)

\* Nothing refers to e any more: the id may be used for a new entry.
Forgotten(e) ==
  /\ \A d \in Devices : ~Pooled(d, e)
  /\ \A t \in Threads : held[t] # e
  /\ \A p \in Procs : e \notin closing[p]
  /\ runtime[e] = "closed"

Goto(p, label) == pc' = [pc EXCEPT ![p] = label]

\* The goroutine is done with its request, and goes on to label.
Leave(t, label) ==
  /\ Goto(t, label)
  /\ req'  = [req EXCEPT ![t] = NoRequest]
  /\ held' = [held EXCEPT ![t] = None]

\* The entry of the request's device.
Current(t) == runtimes[req[t].device]

---------------------------------------------------------------------------
(* acquireRuntime, called by ServeSignalWS                                 *)

\* ServeSignalWS up to acquireRuntime: the ticket names the session and the
\* options; MarkSessionStarted gives the session a fresh lease.
OpenSignal(t, s, g) ==
  /\ pc[t] = "idle"
  /\ lease' = lease \cup {s}
  /\ req' = [req EXCEPT ![t] =
               [device |-> DeviceOf[s], session |-> s, signature |-> g]]
  /\ Goto(t, "acquire")
  /\ UNCHANGED <<pool, held>>

\* The entry is being started by another goroutine: wait on its ready channel,
\* in acquireRuntime and in borrowRuntime alike.
WaitReady(t, label) ==
  /\ Current(t) # None
  /\ Starting(Current(t).id)
  /\ held' = [held EXCEPT ![t] = Current(t).id]
  /\ Goto(t, label)
  /\ UNCHANGED <<pool, lease, req>>

Woken(t, label) ==
  /\ ~Starting(held[t])
  /\ held' = [held EXCEPT ![t] = None]
  /\ Goto(t, label)
  /\ UNCHANGED <<pool, lease, req>>

AcquireWait(t) == pc[t] = "acquire" /\ WaitReady(t, "wait")

AcquireWake(t) == pc[t] = "wait" /\ Woken(t, "acquire")

\* The request context ends while the goroutine waits.
AcquireCancelled(t) ==
  /\ pc[t] = "wait"
  /\ Leave(t, "idle")
  /\ UNCHANGED <<pool, lease>>

\* The three ways to join an entry: the session already holds it; it is in use
\* and can be shared; it is idle and kept for this leased session.
SameSession(t, m) == m.sessionRefs[req[t].session] > 0

\* Mutated: a virtual display is shared like the mirrored screen.
CanShare_AnyDisplay(t, m) == m.refCount > 0

CanShare(t, m) == req[t].signature \in Shareable /\ m.refCount > 0

KeptForSession(t, m) ==
  /\ m.refCount = 0
  /\ req[t].session \in m.sessionIDs
  /\ HasSessionLease(req[t].device, req[t].session)

Joinable(t, m) ==
  /\ m.signature = req[t].signature
  /\ SameSession(t, m) \/ CanShare(t, m) \/ KeptForSession(t, m)

\* One more reference to m, by session s.
Joined(m, s) ==
  [id          |-> m.id,
   signature   |-> m.signature,
   refCount    |-> m.refCount + 1,
   sessionRefs |-> [x \in Sessions |-> IF x = s THEN m.sessionRefs[x] + 1
                                       ELSE m.sessionRefs[x]],
   sessionIDs  |-> m.sessionIDs \cup {s}]

\* The goroutine finds an entry whose runtime is up.
FindsOpen(t) ==
  /\ pc[t] = "acquire"
  /\ Ready(req[t].device)
  /\ runtime[Current(t).id] = "open"

AcquireJoin(t) ==
  /\ FindsOpen(t)
  /\ Joinable(t, Current(t))
  /\ runtimes' = [runtimes EXCEPT ![req[t].device] = Joined(@, req[t].session)]
  /\ held' = [held EXCEPT ![t] = Current(t).id]
  /\ Goto(t, "using")
  /\ UNCHANGED <<runtime, closing, lease, req>>

\* Take the entry out of the map, to close its runtime outside the lock.
Evict(t) ==
  /\ closing'  = [closing EXCEPT ![t] = {Current(t).id}]
  /\ runtimes' = [runtimes EXCEPT ![req[t].device] = None]
  /\ Goto(t, "evict")
  /\ UNCHANGED <<runtime, lease, req, held>>

AcquireEvictClosed(t) ==
  /\ pc[t] = "acquire"
  /\ Ready(req[t].device)
  /\ runtime[Current(t).id] = "closed"
  /\ Evict(t)

AcquireEvictIdle(t) ==
  /\ FindsOpen(t)
  /\ ~Joinable(t, Current(t))
  /\ Current(t).refCount = 0
  /\ Evict(t)

CloseEvicted(t) ==
  /\ pc[t] = "evict"
  /\ runtime' = [e \in Ids |-> IF e \in closing[t] THEN "closed" ELSE runtime[e]]
  /\ closing' = [closing EXCEPT ![t] = {}]
  /\ Goto(t, "acquire")
  /\ UNCHANGED <<runtimes, lease, req, held>>

\* In use by others and not shareable: the handler answers with an error.
AcquireBusy(t) ==
  /\ FindsOpen(t)
  /\ ~Joinable(t, Current(t))
  /\ Current(t).refCount > 0
  /\ Leave(t, "idle")
  /\ UNCHANGED <<pool, lease>>

\* No entry: publish one that is starting, and start the runtime unlocked.
AcquireCreate(t, e) ==
  /\ pc[t] = "acquire"
  /\ Current(t) = None
  /\ Forgotten(e)
  /\ runtimes' = [runtimes EXCEPT ![req[t].device] =
                    NewEntry(e, req[t].signature, req[t].session)]
  /\ runtime'  = [runtime EXCEPT ![e] = "starting"]
  /\ held'     = [held EXCEPT ![t] = e]
  /\ Goto(t, "starting")
  /\ UNCHANGED <<closing, lease, req>>

StartSucceeds(t) ==
  /\ pc[t] = "starting"
  /\ runtime' = [runtime EXCEPT ![held[t]] = "open"]
  /\ Goto(t, "using")
  /\ UNCHANGED <<runtimes, closing, lease, req, held>>

\* The error path deletes the device's key, whichever entry is there by now.
StartFails(t) ==
  /\ pc[t] = "starting"
  /\ runtimes' = [runtimes EXCEPT ![req[t].device] = None]
  /\ runtime'  = [runtime EXCEPT ![held[t]] = "closed"]
  /\ Leave(t, "idle")
  /\ UNCHANGED <<closing, lease>>

---------------------------------------------------------------------------
(* releaseRuntime and cleanupIdleRuntimes, deferred by ServeSignalWS       *)

\* m without one reference, and without one of session s.
Dropped(m) == [m EXCEPT !.refCount = IF @ > 0 THEN @ - 1 ELSE 0]

Released(m, s) ==
  [Dropped(m) EXCEPT !.sessionRefs =
     [x \in Sessions |-> IF Dropped(m).refCount = 0 THEN 0
                         ELSE IF x = s THEN m.sessionRefs[x] - 1
                         ELSE m.sessionRefs[x]]]

\* The runtime the goroutine used may have been replaced meanwhile: only a
\* reference to the current one is given back.
ReleaseRuntime(t) ==
  /\ pc[t] = "using"
  /\ LET d == req[t].device
         s == req[t].session
     IN runtimes' = IF Pooled(d, held[t]) /\ runtimes[d].sessionRefs[s] > 0
                    THEN [runtimes EXCEPT ![d] = Released(@, s)]
                    ELSE runtimes
  /\ Leave(t, "cleanup")
  /\ UNCHANGED <<runtime, closing, lease>>

\* Mutated: the sweep ignores the references.
Stale_IgnoresRefs == {d \in Devices : Ready(d) /\ ~HasActiveSessionLease(d)}

\* Mutated: the sweep spares entries a session may come back to.
Stale_KeepsOwned == {d \in Devices :
                       /\ Ready(d)
                       /\ runtimes[d].refCount = 0
                       /\ runtimes[d].sessionIDs = {}
                       /\ ~HasActiveSessionLease(d)}

\* The devices whose entry a sweep takes out of the map.
Stale == {d \in Devices :
            /\ Ready(d)
            /\ runtimes[d].refCount = 0
            /\ ~HasActiveSessionLease(d)}

\* One pass over the map under the lock; the runtimes are closed after it.
CleanupIdleRuntimes(p) ==
  /\ pc[p] = "cleanup"
  /\ runtimes' = [d \in Devices |-> IF d \in Stale THEN None ELSE runtimes[d]]
  /\ closing'  = [closing EXCEPT ![p] = {runtimes[d].id : d \in Stale}]
  /\ Goto(p, "sweep")
  /\ UNCHANGED <<runtime, lease, req, held>>

CloseStale(p, e) ==
  /\ pc[p] = "sweep"
  /\ e \in closing[p]
  /\ runtime' = [runtime EXCEPT ![e] = "closed"]
  /\ closing' = [closing EXCEPT ![p] = @ \ {e}]
  /\ UNCHANGED <<runtimes, lease, pc, req, held>>

\* The handler returns; the janitor waits for its next tick.
SweepDone(p) ==
  /\ pc[p] = "sweep"
  /\ closing[p] = {}
  /\ Goto(p, IF p = Janitor THEN "cleanup" ELSE "idle")
  /\ UNCHANGED <<pool, lease, req, held>>

---------------------------------------------------------------------------
(* borrowRuntime, called by the clipboard endpoints                        *)

BorrowBegin(t, d) ==
  /\ pc[t] = "idle"
  /\ req' = [req EXCEPT ![t] = [NoRequest EXCEPT !.device = d]]
  /\ Goto(t, "borrow")
  /\ UNCHANGED <<pool, lease, held>>

BorrowWait(t) == pc[t] = "borrow" /\ WaitReady(t, "borrowWait")

BorrowWake(t) == pc[t] = "borrowWait" /\ Woken(t, "borrow")

\* The other refusal, an entry that is neither starting nor has a runtime,
\* cannot happen: a failed start takes its entry out of the map.
BorrowMissing(t) ==
  /\ pc[t] = "borrow"
  /\ Current(t) = None
  /\ Leave(t, "idle")
  /\ UNCHANGED <<pool, lease>>

\* Unlike an acquire, a borrow takes a runtime that has closed by itself.
Borrow(t) ==
  /\ pc[t] = "borrow"
  /\ Ready(req[t].device)
  /\ runtimes' = [runtimes EXCEPT ![req[t].device].refCount = @ + 1]
  /\ held'     = [held EXCEPT ![t] = Current(t).id]
  /\ Goto(t, "borrowed")
  /\ UNCHANGED <<runtime, closing, lease, req>>

\* Mutated: the closure gives the reference back to whichever entry is current.
BorrowReturn_AnyEntry(t) ==
  /\ pc[t] = "borrowed"
  /\ runtimes' = IF Current(t) # None
                 THEN [runtimes EXCEPT ![req[t].device] = Dropped(@)]
                 ELSE runtimes
  /\ Leave(t, "idle")
  /\ UNCHANGED <<runtime, closing, lease>>

\* The release closure: it compares the entry itself with the current one.
BorrowReturn(t) ==
  /\ pc[t] = "borrowed"
  /\ runtimes' = IF Pooled(req[t].device, held[t])
                 THEN [runtimes EXCEPT ![req[t].device] = Dropped(@)]
                 ELSE runtimes
  /\ Leave(t, "idle")
  /\ UNCHANGED <<runtime, closing, lease>>

---------------------------------------------------------------------------
(* handleSessionAction: the release of a session                           *)

ReleaseSession(t, s) ==
  /\ pc[t] = "idle"
  /\ lease' = lease \ {s}
  /\ req' = [req EXCEPT ![t] = [NoRequest EXCEPT !.device = DeviceOf[s]]]
  /\ Goto(t, "checkLease")
  /\ UNCHANGED <<pool, held>>

\* The three calls that follow lock, unlock and act on what they saw.
CheckLease(t) ==
  /\ pc[t] = "checkLease"
  /\ IF HasActiveSessionLease(req[t].device)
     THEN Leave(t, "cleanup")
     ELSE Goto(t, "checkRefs") /\ UNCHANGED <<req, held>>
  /\ UNCHANGED <<pool, lease>>

HasRuntimeRefs(d) == runtimes[d] # None /\ runtimes[d].refCount > 0

CheckRefs(t) ==
  /\ pc[t] = "checkRefs"
  /\ IF HasRuntimeRefs(req[t].device)
     THEN Leave(t, "cleanup")
     ELSE Goto(t, "forceClose") /\ UNCHANGED <<req, held>>
  /\ UNCHANGED <<pool, lease>>

\* forceCloseRuntime deletes whatever entry the device has by now ...
ForceDelete(t) ==
  /\ pc[t] = "forceClose"
  /\ IF Current(t) = None
     THEN Leave(t, "cleanup") /\ UNCHANGED runtimes
     ELSE /\ runtimes' = [runtimes EXCEPT ![req[t].device] = None]
          /\ held' = [held EXCEPT ![t] = Current(t).id]
          /\ Goto(t, "forceRead")
          /\ UNCHANGED req
  /\ UNCHANGED <<runtime, closing, lease>>

\* ... and, outside the lock, reads entry.runtime and closes what it finds:
\* nothing while the start of the entry is under way.  The read is not under
\* runtimeMu: it may see the runtime of a start that has just succeeded or not.
ForceRead(t) ==
  /\ pc[t] = "forceRead"
  /\ runtime' = [runtime EXCEPT ![held[t]] = IF @ = "open" THEN "closed" ELSE @]
  /\ Leave(t, "cleanup")
  /\ UNCHANGED <<runtimes, closing, lease>>

---------------------------------------------------------------------------
(* The environment: the device ends a runtime, a lease runs out            *)

RuntimeEnds(e) ==
  /\ runtime[e] = "open"
  /\ runtime' = [runtime EXCEPT ![e] = "closed"]
  /\ UNCHANGED <<runtimes, lease, pc, req, held, closing>>

LeaseExpires(s) ==
  /\ s \in lease
  /\ lease' = lease \ {s}
  /\ UNCHANGED <<pool, pc, req, held>>

---------------------------------------------------------------------------
Acquire(t) ==
  \/ AcquireWait(t)
  \/ AcquireWake(t)
  \/ AcquireJoin(t)
  \/ AcquireEvictClosed(t)
  \/ AcquireEvictIdle(t)
  \/ CloseEvicted(t)
  \/ AcquireBusy(t)
  \/ \E e \in Ids : AcquireCreate(t, e)

Start(t) == StartSucceeds(t) \/ StartFails(t)

Sweep(p) ==
  \/ CleanupIdleRuntimes(p)
  \/ \E e \in Ids : CloseStale(p, e)
  \/ SweepDone(p)

BorrowStep(t) ==
  BorrowWait(t) \/ BorrowWake(t) \/ BorrowMissing(t) \/ Borrow(t) \/ BorrowReturn(t)

ReleaseStep(t) ==
  CheckLease(t) \/ CheckRefs(t) \/ ForceDelete(t) \/ ForceRead(t)

Next ==
  \/ \E t \in Threads :
       \/ \E s \in Sessions, g \in Signatures : OpenSignal(t, s, g)
       \/ \E d \in Devices : BorrowBegin(t, d)
       \/ \E s \in Sessions : ReleaseSession(t, s)
       \/ Acquire(t)
       \/ AcquireCancelled(t)
       \/ Start(t)
       \/ ReleaseRuntime(t)
       \/ BorrowStep(t)
       \/ ReleaseStep(t)
  \/ \E p \in Procs : Sweep(p)
  \/ \E e \in Ids : RuntimeEnds(e)
  \/ \E s \in Sessions : LeaseExpires(s)

(***************************************************************************)
(* A goroutine that can run does run; starting a runtime ends, with a      *)
(* runtime or an error; the janitor's ticker keeps firing.  Nothing is     *)
(* assumed about clients: a socket may stay open for ever.                 *)
(***************************************************************************)
Proceed(t) == Acquire(t) \/ Start(t) \/ BorrowStep(t) \/ ReleaseStep(t) \/ Sweep(t)

Fairness ==
  /\ \A t \in Threads : WF_vars(Proceed(t))
  /\ WF_vars(Sweep(Janitor))

Spec == Init /\ [][Next]_vars

FairSpec == Spec /\ Fairness

---------------------------------------------------------------------------
(* Properties                                                              *)

Request == [device    : Devices \cup {None},
            session   : Sessions \cup {None},
            signature : Signatures \cup {None}]

Labels == {"idle", "acquire", "wait", "evict", "starting", "using", "cleanup",
           "sweep", "borrow", "borrowWait", "borrowed", "checkLease",
           "checkRefs", "forceClose", "forceRead"}

\* Every variable has its type.  The counters are natural numbers: no release,
\* however late, takes a reference that was not given (releaseRuntime).
TypeOK ==
  /\ runtimes \in [Devices -> PoolEntry \cup {None}]
  /\ runtime \in [Ids -> {"starting", "open", "closed"}]
  /\ lease \subseteq Sessions
  /\ pc \in [Procs -> Labels]
  /\ req \in [Threads -> Request]
  /\ held \in [Threads -> Ids \cup {None}]
  /\ closing \in [Procs -> SUBSET Ids]

\* The goroutines that hold a reference to e, and those that hold it for s.
Holders(e) == {t \in Threads :
                 held[t] = e /\ pc[t] \in {"starting", "using", "borrowed"}}

SessionHolders(e, s) == {t \in Threads :
                           /\ held[t] = e
                           /\ pc[t] \in {"starting", "using"}
                           /\ req[t].session = s}

\* The counters of the entry a device has are the references really held: a
\* late release of a replaced runtime, a failed start or a borrower's return
\* leaves no count too high (a runtime never reclaimed) or too low (a runtime
\* closed under its users).
RefsMatchHolders ==
  \A d \in Devices : runtimes[d] # None =>
    LET m == runtimes[d]
    IN /\ m.refCount = Cardinality(Holders(m.id))
       /\ \A s \in Sessions :
            m.sessionRefs[s] = Cardinality(SessionHolders(m.id, s))

\* An acquire that replaces an entry, and the sweep of idle entries, close no
\* runtime that a socket or a clipboard call still uses, unless the runtime
\* ended by itself.
IdleCloseUnused ==
  \A p \in Procs : \A e \in closing[p] :
    Holders(e) # {} => runtime[e] = "closed"

\* A runtime with a virtual display of its own serves one session: two sockets
\* that use it, however their acquires interleave, belong to the same session.
ExclusiveDisplay ==
  \A t, u \in Threads :
    /\ held[t] = held[u]
    /\ pc[t] = "using"
    /\ pc[u] = "using"
    /\ req[t].signature \notin Shareable
    => req[t].session = req[u].session

\* handler/webrtc.go:149 says of the release of a session that it closes the
\* runtime "when there is no active reference": when forceCloseRuntime is about
\* to close a runtime, no socket and no clipboard call uses it.
ReleaseClosesUnreferenced ==
  \A t \in Threads : pc[t] = "forceRead" =>
    (Holders(held[t]) # {} => runtime[held[t]] # "open")

\* The entry of d holds an open runtime nobody references.
IdleOpen(d, e) ==
  /\ Pooled(d, e)
  /\ runtimes[d].refCount = 0
  /\ runtime[e] = "open"

\* An idle runtime of a device without a lease does not stay pooled: the sweep
\* takes it out, it is used again, or a session of the device comes back.
IdleRuntimeSwept ==
  \A d \in Devices, e \in Ids :
    (IdleOpen(d, e) /\ ~HasActiveSessionLease(d))
      ~> (~Pooled(d, e) \/ HasRuntimeRefs(d) \/ HasActiveSessionLease(d))

=============================================================================
