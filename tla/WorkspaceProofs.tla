-------------------------- MODULE WorkspaceProofs --------------------------
(***************************************************************************)
(* Proofs about Workspace, for any devices, accounts, directories, numbers *)
(* of connections and bounds, and any views the user visits.               *)
(*                                                                         *)
(* The invariant has a part for the operations, one for the pool of        *)
(* connections and one for each view, and each part is a predicate of the  *)
(* values it speaks of, so that a lemma about an operator of the model     *)
(* carries over to every action made of it.  What the views wait for is    *)
(* among the operations; so an operation is shown to go on in the same few *)
(* ways whatever moves it (Advances), and the views to be content with     *)
(* each of these.                                                          *)
(***************************************************************************)
EXTENDS Workspace, FiniteSetTheorems, SequenceTheorems, TLAPS

---------------------------------------------------------------------------
(* The inductive invariant                                                 *)

Operations ==
  [id : Nat, kind : {"download", "upload", "install", "export", "terminal", "ended"},
   dev : Dev \cup {0}, left : Nat,
   phase : {"auth", "waiting", "sending", "written", "answer", "reading", "aborting", "stuck", "over"},
   conn : Attempts \cup {0}, owner : Accounts \cup {""}, aborted : BOOLEAN,
   status : {"running", "completed", "failed", "cancelled"}, cancelable : BOOLEAN]

\* What is true of every operation by itself.
Sound(o) ==
  /\ o.kind = "ended" <=> o.phase = "over"
  /\ o.status = "running" <=> o.phase # "over"
  /\ o.cancelable => o.status = "running" /\ ~o.aborted /\ o.phase # "written"
  /\ o.phase # "over" => o.dev \in Dev
  /\ o.aborted => o.phase \notin {"waiting", "sending", "written", "reading"}
  /\ o.kind = "terminal" => /\ o.phase \in {"auth", "waiting", "sending", "reading", "aborting"}
                            /\ o.aborted => o.phase \in {"auth", "aborting"}

OpsKept(O) == O \subseteq Operations /\ IsFiniteSet(O) /\ \A o \in O : Sound(o)

Tries ==
  [phase : {"none", "asked", "open", "down", "unavailable", "closed", "dropped"},
   dev : Dev \cup {0}, scope : Accounts \cup {""}]

Pools ==
  [scope : Accounts \cup {""}, entry : [Dev -> Attempts \cup {0}], try : [Attempts -> Tries]]

\* The entry of a device is a connection to it, asked for in the scope of the pool.
EntryOwned(P) ==
  \A d \in Dev : P.entry[d] # 0 =>
    /\ P.try[P.entry[d]].dev = d /\ P.try[P.entry[d]].scope = P.scope
    /\ P.try[P.entry[d]].phase # "none"

UpIsEntry(P) == \A n \in Attempts : Connected(P.try[n].phase) => IsEntry(P, n)

\* An operation has, or waits for, an attempt that was made for its owner.
Carries(P, o) ==
  o.conn # 0 => P.try[o.conn].phase # "none" /\ P.try[o.conn].scope = o.owner

PoolKept(P, O) ==
  /\ P \in Pools /\ EntryOwned(P) /\ UpIsEntry(P)
  /\ \A o \in O : Carries(P, o)

---------------------------------------------------------------------------
(* Operations                                                              *)

\* NextId finds a number: the operations have fewer than there are to choose from.
LEMMA NextIdType ==
  ASSUME NEW O, O \subseteq Operations, IsFiniteSet(O)
  PROVE  NextId(O) \in Nat
<1> DEFINE used == {o.id : o \in O}
<1> DEFINE n == Cardinality(O) + 1
<1>1. Cardinality(O) \in Nat /\ n \in Nat
  BY FS_CardinalityType
<1>2. IsFiniteSet(used) /\ Cardinality(used) <= Cardinality(O)
  <2> DEFINE f == [o \in O |-> o.id]
  <2>1. f \in Surjection(O, used)
    BY DEF Surjection
  <2> HIDE DEF f, used
  <2> QED
    BY <2>1, FS_Surjection
<1>3. Cardinality(1..n) = n
  BY <1>1, FS_Interval
<1>4. ~(1..n \subseteq used)
  <2> SUFFICES ASSUME 1..n \subseteq used PROVE FALSE
    OBVIOUS
  <2>1. Cardinality(1..n) <= Cardinality(used)
    BY <1>2, FS_Subset
  <2>2. Cardinality(used) \in Nat
    BY <1>2, FS_CardinalityType
  <2> HIDE DEF used
  <2> QED
    BY <2>1, <2>2, <1>1, <1>2, <1>3
<1>5. \E i \in 1..n : \A o \in O : o.id # i
  BY <1>4
<1>6. NextId(O) \in 1..n
  <2> DEFINE Free(i) == i \in 1..n /\ \A o \in O : o.id # i
  <2>1. NextId(O) = CHOOSE i : Free(i)
    BY DEF NextId
  <2>2. \E i : Free(i)
    BY <1>5
  <2> HIDE DEF Free
  <2>3. Free(NextId(O))
    BY <2>1, <2>2
  <2> QED
    BY <2>3 DEF Free
<1> QED
  BY <1>1, <1>6

LEMMA OpsWith ==
  ASSUME NEW O, OpsKept(O), NEW k \in Operations, Sound(k)
  PROVE  OpsKept(O \cup {k})
BY FS_AddElement DEF OpsKept

LEMMA OpsWithout ==
  ASSUME NEW O, OpsKept(O), NEW D
  PROVE  OpsKept(O \ D)
BY FS_Difference DEF OpsKept

LEMMA OpsInstead ==
  ASSUME OpsKept(ops), NEW o, NEW k \in Operations, Sound(k)
  PROVE  OpsKept(Instead(o, k))
BY OpsWith, OpsWithout DEF Instead

LEMMA OperationNew ==
  ASSUME NEW O, OpsKept(O), NEW kind \in {"download", "upload", "install", "export", "terminal"},
         NEW d \in Dev, NEW left \in Nat
  PROVE  LET k == Operation(NextId(O), kind, d, left)
         IN  k \in Operations /\ Sound(k)
<1>1. NextId(O) \in Nat
  BY NextIdType DEF OpsKept
<1> DEFINE i == NextId(O)
<1> HIDE DEF i
<1>2. Operation(i, kind, d, left) \in Operations
  BY <1>1 DEF i, Operation, Operations
<1>3. Sound(Operation(i, kind, d, left))
  BY DEF Operation, Sound
<1> QED
  BY <1>2, <1>3 DEF i

LEMMA FinishedSound ==
  ASSUME NEW status \in {"completed", "failed", "cancelled"}
  PROVE  Finished(status) \in Operations /\ Sound(Finished(status))
BY DEF Finished, Operations, Sound

\* An operation goes on: it stays of its kind and its device, and if it is a terminal that
\* is open it stays open.
Advances(o, k) ==
  /\ k \in Operations /\ Sound(k)
  /\ k.kind = o.kind /\ k.dev = o.dev
  /\ o.kind = "terminal" => /\ k.aborted = o.aborted
                            /\ o.phase = "reading" => k.phase = "reading"

---------------------------------------------------------------------------
(* The connections                                                         *)

LEMMA Carrying ==
  ASSUME NEW P, NEW O, PoolKept(P, O), NEW O2, \A k \in O2 : Carries(P, k)
  PROVE  PoolKept(P, O2)
BY DEF PoolKept

\* What is forgotten is not up, is no device's entry, and no operation has it.
LEMMA ReferredKeeps ==
  ASSUME NEW P, NEW O, PoolKept(P, O), O \subseteq Operations
  PROVE  PoolKept(Referred(P, O), O)
<1> DEFINE used == {n \in Attempts : \/ P.try[n].phase \in {"asked", "open", "down"}
                               \/ (P.try[n].phase = "unavailable" /\ IsEntry(P, n))
                               \/ \E o \in O : o.conn = n}
<1> DEFINE Q == Referred(P, O)
<1> DEFINE entry == [d \in Dev |-> IF P.entry[d] \in used THEN P.entry[d] ELSE 0]
<1> DEFINE try == [n \in Attempts |-> IF n \in used THEN P.try[n] ELSE NoAttempt]
<1>1. P \in Pools /\ EntryOwned(P) /\ UpIsEntry(P) /\ \A o \in O : Carries(P, o)
  BY DEF PoolKept
<1>2. Q = [P EXCEPT !.entry = entry, !.try = try]
  BY <1>1, Zenon DEF Referred, Pools
<1>3. Q.scope = P.scope /\ Q.entry = entry /\ Q.try = try
  BY <1>1, <1>2 DEF Pools
<1>4. P.scope \in Accounts \cup {""} /\ P.entry \in [Dev -> Attempts \cup {0}] /\ P.try \in [Attempts -> Tries]
  BY <1>1 DEF Pools
<1> HIDE DEF used, Q
<1>5. NoAttempt \in Tries
  BY DEF NoAttempt, Tries
<1>6. entry \in [Dev -> Attempts \cup {0}] /\ try \in [Attempts -> Tries]
  BY <1>4, <1>5
<1>7. Q \in Pools
  BY <1>1, <1>2, <1>6 DEF Pools
<1>8. EntryOwned(Q)
  <2> SUFFICES ASSUME NEW d \in Dev, entry[d] # 0
               PROVE  /\ try[entry[d]].dev = d /\ try[entry[d]].scope = P.scope
                      /\ try[entry[d]].phase # "none"
    BY <1>3 DEF EntryOwned
  <2>1. P.entry[d] \in used /\ entry[d] = P.entry[d]
    OBVIOUS
  <2>2. entry[d] \in Attempts
    BY <2>1 DEF used
  <2>3. try[entry[d]] = P.try[P.entry[d]]
    BY <2>1, <2>2
  <2>4. P.entry[d] # 0
    BY <2>1
  <2> QED
    BY <2>3, <2>4, <1>1 DEF EntryOwned
<1>9. UpIsEntry(Q)
  <2> SUFFICES ASSUME NEW n \in Attempts, Connected(try[n].phase)
               PROVE  IsEntry(Q, n)
    BY <1>3 DEF UpIsEntry
  <2>1. n \in used /\ try[n] = P.try[n]
    BY DEF Connected, NoAttempt
  <2>2. IsEntry(P, n)
    BY <1>1, <2>1 DEF UpIsEntry
  <2>3. P.try[n].dev \in Dev /\ P.entry[P.try[n].dev] = n
    BY <1>4, <2>2 DEF IsEntry, Tries
  <2> QED
    BY <2>1, <2>2, <2>3, <1>3 DEF IsEntry
<1>10. ASSUME NEW o \in O PROVE Carries(Q, o)
  <2> SUFFICES ASSUME o.conn # 0 PROVE Q.try[o.conn] = P.try[o.conn]
    BY <1>1 DEF Carries
  <2>1. o.conn \in Attempts
    BY DEF Operations
  <2>2. o.conn \in used
    BY <2>1 DEF used
  <2> QED
    BY <2>1, <2>2, <1>3
<1> QED
  BY <1>7, <1>8, <1>9, <1>10 DEF PoolKept, Q

LEMMA NowKeeps ==
  ASSUME NEW P, NEW O, PoolKept(P, O), O \subseteq Operations, Now(P, O)
  PROVE  PoolKept(pool', ops')
BY ReferredKeeps DEF Now

\* The operations go on, and the pool stays as it is.
LEMMA SameConnections ==
  ASSUME PoolKept(pool, ops), NEW O \in SUBSET Operations, Now(pool, O),
         \A k \in O : k.conn = 0 \/ \E o \in ops : k.conn = o.conn /\ k.owner = o.owner
  PROVE  PoolKept(pool', ops')
<1>1. \A k \in O : Carries(pool, k)
  BY DEF PoolKept, Carries
<1>2. PoolKept(pool, O)
  BY <1>1, Carrying
<1> QED
  BY <1>2, NowKeeps

\* Another account's connections are given up: none is up and none is an entry.
LEMMA InScopeKeeps ==
  ASSUME NEW P, NEW O, PoolKept(P, O), O \subseteq Operations, account \in Accounts
  PROVE  PoolKept(InScope(P), O) /\ InScope(P).scope = account
<1>1. P \in Pools /\ EntryOwned(P) /\ UpIsEntry(P) /\ \A o \in O : Carries(P, o)
  BY DEF PoolKept
<1>2. CASE P.scope = account
  BY <1>2 DEF InScope
<1>3. CASE P.scope # account
  <2> DEFINE entry == [d \in Dev |-> 0]
  <2> DEFINE try == [n \in Attempts |->
                         IF IsEntry(P, n) /\ P.try[n].phase # "asked"
                         THEN [P.try[n] EXCEPT !.phase = "closed"] ELSE P.try[n]]
  <2> DEFINE Q == [[P EXCEPT !.entry = entry, !.try = try] EXCEPT !.scope = account]
  <2>1. InScope(P) = Q
    BY <1>1, <1>3, Zenon DEF InScope, ClosePool, Pools
  <2>2. Q.scope = account /\ Q.entry = entry /\ Q.try = try
    BY <1>1 DEF Pools
  <2>3. P.entry \in [Dev -> Attempts \cup {0}] /\ P.try \in [Attempts -> Tries]
    BY <1>1 DEF Pools
  <2>4. \A n \in Attempts : try[n] \in Tries /\ try[n].scope = P.try[n].scope
                            /\ (P.try[n].phase # "none" => try[n].phase # "none")
                            /\ ~Connected(try[n].phase)
    <3> SUFFICES ASSUME NEW n \in Attempts
                 PROVE  try[n] \in Tries /\ try[n].scope = P.try[n].scope
                            /\ (P.try[n].phase # "none" => try[n].phase # "none")
                            /\ ~Connected(try[n].phase)
      OBVIOUS
    <3>1. P.try[n] \in Tries
      BY <2>3
    <3>2. CASE IsEntry(P, n) /\ P.try[n].phase # "asked"
      <4>1. try[n] = [P.try[n] EXCEPT !.phase = "closed"]
        BY <3>2
      <4> QED
        BY <4>1, <3>1 DEF Tries, Connected
    <3>3. CASE ~IsEntry(P, n)
      BY <3>3, <3>1, <1>1 DEF UpIsEntry
    <3>4. CASE P.try[n].phase = "asked"
      BY <3>4, <3>1 DEF Connected
    <3> QED
      BY <3>2, <3>3, <3>4
  <2>5. Q \in Pools
    <3>1. entry \in [Dev -> Attempts \cup {0}] /\ try \in [Attempts -> Tries]
      BY <2>4
    <3> HIDE DEF entry, try
    <3> QED
      BY <3>1, <1>1 DEF Pools
  <2>6. \A o \in O : Carries(Q, o)
    <3> SUFFICES ASSUME NEW o \in O, o.conn # 0
                 PROVE  try[o.conn].phase # "none" /\ try[o.conn].scope = o.owner
      BY <2>2 DEF Carries
    <3>1. o.conn \in Attempts
      BY DEF Operations
    <3> HIDE DEF try
    <3> QED
      BY <3>1, <2>4, <1>1 DEF Carries
  <2>7. EntryOwned(Q) /\ UpIsEntry(Q)
    <3> HIDE DEF try
    <3> QED
      BY <2>2, <2>4 DEF EntryOwned, UpIsEntry
  <2> HIDE DEF Q
  <2> QED
    BY <2>1, <2>2, <2>5, <2>6, <2>7 DEF PoolKept
<1> QED
  BY <1>2, <1>3

\* An attempt gets another phase; it is not up unless it is its device's entry.
LEMMA PhaseKeeps ==
  ASSUME NEW P, NEW O, PoolKept(P, O), O \subseteq Operations,
         NEW n \in Attempts, P.try[n].phase # "none",
         NEW phase \in {"asked", "open", "down", "unavailable", "closed", "dropped"},
         Connected(phase) => IsEntry(P, n)
  PROVE  PoolKept([P EXCEPT !.try[n].phase = phase], O)
<1> DEFINE Q == [P EXCEPT !.try[n].phase = phase]
<1>1. P \in Pools /\ EntryOwned(P) /\ UpIsEntry(P) /\ \A o \in O : Carries(P, o)
  BY DEF PoolKept
<1>2. P.entry \in [Dev -> Attempts \cup {0}] /\ P.try \in [Attempts -> Tries]
  BY <1>1 DEF Pools
<1>3. PICK t \in Tries : t = [P.try[n] EXCEPT !.phase = phase]
  BY <1>2 DEF Tries
<1>4. t.phase = phase /\ t.dev = P.try[n].dev /\ t.scope = P.try[n].scope
  BY <1>2, <1>3 DEF Tries
<1>5. PICK try \in [Attempts -> Tries] : try = [P.try EXCEPT ![n] = t]
  BY <1>2
<1>6. Q = [P EXCEPT !.try = try]
  BY <1>1, <1>3, <1>5 DEF Pools
<1>7. try[n] = t /\ \A k \in Attempts \ {n} : try[k] = P.try[k]
  BY <1>2, <1>5
<1>8. Q \in Pools
  BY <1>1, <1>6 DEF Pools
<1>9. Q.scope = P.scope /\ Q.entry = P.entry /\ Q.try = try
  BY <1>1, <1>6 DEF Pools
<1> HIDE DEF Q
<1>10. \A k \in Attempts : try[k].dev = P.try[k].dev /\ try[k].scope = P.try[k].scope
                          /\ (P.try[k].phase # "none" => try[k].phase # "none")
  BY <1>4, <1>7
<1>11. EntryOwned(Q)
  BY <1>1, <1>2, <1>9, <1>10 DEF EntryOwned
<1>12. UpIsEntry(Q)
  BY <1>1, <1>4, <1>7, <1>9, <1>10 DEF UpIsEntry, IsEntry
<1>13. ASSUME NEW o \in O PROVE Carries(Q, o)
  <2>1. o.conn \in Attempts \cup {0}
    BY DEF Operations
  <2> QED
    BY <2>1, <1>1, <1>9, <1>10 DEF Carries
<1> QED
  BY <1>8, <1>11, <1>12, <1>13 DEF PoolKept, Q

\* acquire: what it returns was asked for by the account that is signed in.
LEMMA AcquireKeeps ==
  ASSUME NEW O, PoolKept(pool, O), O \subseteq Operations, account \in Accounts,
         NEW d \in Dev, HasUnused(InScope(pool))
  PROVE  LET got == Acquire(pool, d)
         IN  /\ PoolKept(got.pool, O)
             /\ got.conn \in Attempts \cup {0}
             /\ got.conn # 0 => /\ got.pool.try[got.conn].phase # "none"
                               /\ got.pool.try[got.conn].scope = account
<1> DEFINE got == Acquire(pool, d)
<1>1. PICK Q : Q = InScope(pool)
  OBVIOUS
<1>2. PoolKept(Q, O) /\ Q.scope = account
  BY <1>1, InScopeKeeps
<1>3. Q \in Pools /\ EntryOwned(Q) /\ UpIsEntry(Q) /\ \A o \in O : Carries(Q, o)
  BY <1>2 DEF PoolKept
<1>4. Q.entry \in [Dev -> Attempts \cup {0}] /\ Q.try \in [Attempts -> Tries]
  BY <1>3 DEF Pools
<1>5. PICK e \in Attempts \cup {0} : e = Q.entry[d]
  BY <1>4
<1>6. PICK n \in Attempts : n = Unused(Q) /\ Q.try[n].phase = "none"
  BY <1>1 DEF HasUnused, Unused
<1>7. CASE e # 0 /\ Q.try[e].phase \in {"asked", "open"}
  <2>1. got = [pool |-> Q, conn |-> e]
    BY <1>7, <1>1, <1>5 DEF Acquire
  <2>2. Q.try[e].scope = account
    BY <1>7, <1>2, <1>3, <1>5 DEF EntryOwned
  <2> QED
    BY <2>1, <2>2, <1>2, <1>7
<1>8. CASE ~(e # 0 /\ Q.try[e].phase \in {"asked", "open"}) /\ e # 0 /\ Q.try[e].phase = "unavailable"
  <2>1. got = [pool |-> Q, conn |-> 0]
    BY <1>8, <1>1, <1>5 DEF Acquire
  <2> QED
    BY <2>1, <1>2
<1>9. CASE /\ ~(e # 0 /\ Q.try[e].phase \in {"asked", "open"})
           /\ ~(e # 0 /\ Q.try[e].phase = "unavailable")
  <2>1. PICK try : try = [k \in Attempts |->
                            CASE k = n -> Attempt(d, account)
                              [] k = e -> [Q.try[k] EXCEPT !.phase = "closed"]
                              [] OTHER -> Q.try[k]]
    OBVIOUS
  <2>2. PICK R : R = [Q EXCEPT !.entry[d] = n, !.try = try]
    OBVIOUS
  <2>3. got = [pool |-> R, conn |-> n]
    <3>1. got = [pool |-> [Q EXCEPT !.entry[d] = n,
                             !.try = [k \in Attempts |->
                                  CASE k = n -> Attempt(d, account)
                                    [] k = e -> [@[k] EXCEPT !.phase = "closed"]
                                    [] OTHER -> @[k]]], conn |-> n]
      <4>1. e = InScope(pool).entry[d] /\ n = Unused(InScope(pool))
        BY <1>1, <1>5, <1>6
      <4>2. Q.try[e].phase \notin {"asked", "open", "unavailable"} \/ e = 0
        BY <1>9
      <4> QED
        BY <4>1, <4>2, <1>1, SMT DEF Acquire
    <3> QED
      BY <3>1, <1>3, <2>1, <2>2 DEF Pools
  <2>4. Attempt(d, account) \in Tries /\ Attempt(d, account).dev = d
        /\ Attempt(d, account).scope = account /\ Attempt(d, account).phase = "asked"
    BY DEF Attempt, Tries
  <2>5. try[n] = Attempt(d, account)
    <3>1. n # e
      BY <1>3, <1>5, <1>6, TransfersAssumption DEF EntryOwned
    <3> QED
      BY <3>1, <2>1
  <2>6. ASSUME NEW k \in Attempts \ {n}
        PROVE  /\ try[k] \in Tries
               /\ try[k].dev = Q.try[k].dev /\ try[k].scope = Q.try[k].scope
               /\ Q.try[k].phase # "none" => try[k].phase # "none"
               /\ Connected(try[k].phase) => k # e /\ Connected(Q.try[k].phase)
    <3>1. Q.try[k] \in Tries
      BY <1>4
    <3>2. CASE k = e
      <4>1. try[k] = [Q.try[k] EXCEPT !.phase = "closed"]
        BY <2>1, <3>2
      <4> QED
        BY <4>1, <3>1 DEF Tries, Connected
    <3>3. CASE k # e
      <4>1. try[k] = Q.try[k]
        BY <2>1, <3>3
      <4> QED
        BY <4>1, <3>1, <3>3
    <3> QED
      BY <3>2, <3>3
  <2>7. try \in [Attempts -> Tries]
    BY <2>1, <2>4, <2>5, <2>6
  <2>8. PICK entry \in [Dev -> Attempts \cup {0}] : entry = [Q.entry EXCEPT ![d] = n]
    BY <1>4
  <2>9. R = [Q EXCEPT !.entry = entry, !.try = try]
    BY <1>3, <2>2, <2>8 DEF Pools
  <2>10. R \in Pools
    BY <1>3, <2>7, <2>9 DEF Pools
  <2>11. R.scope = Q.scope /\ R.entry = entry /\ R.try = try
    BY <1>3, <2>9 DEF Pools
  <2>12. entry[d] = n /\ \A b \in Dev \ {d} : entry[b] = Q.entry[b]
    BY <1>4, <2>8
  <2>13. EntryOwned(R)
    <3> SUFFICES ASSUME NEW b \in Dev, entry[b] # 0
                 PROVE  /\ try[entry[b]].dev = b /\ try[entry[b]].scope = account
                        /\ try[entry[b]].phase # "none"
      BY <1>2, <2>11 DEF EntryOwned
    <3>1. CASE b = d
      BY <3>1, <2>4, <2>5, <2>12
    <3>2. CASE b # d
      <4>1. entry[b] = Q.entry[b] /\ entry[b] \in Attempts
        BY <3>2, <2>12
      <4>2. Q.try[entry[b]].dev = b /\ Q.try[entry[b]].scope = account /\ Q.try[entry[b]].phase # "none"
        BY <4>1, <1>2, <1>3 DEF EntryOwned
      <4>3. entry[b] # n
        BY <4>2, <1>6
      <4> QED
        BY <4>1, <4>2, <4>3, <2>6
    <3> QED
      BY <3>1, <3>2
  <2>14. UpIsEntry(R)
    <3> SUFFICES ASSUME NEW k \in Attempts, Connected(try[k].phase)
                 PROVE  try[k].dev # 0 /\ entry[try[k].dev] = k
      BY <2>11 DEF UpIsEntry, IsEntry
    <3>1. k # n
      BY <2>4, <2>5 DEF Connected
    <3>2. k # e /\ Connected(Q.try[k].phase) /\ try[k].dev = Q.try[k].dev
      BY <3>1, <2>6
    <3>3. Q.try[k].dev # 0 /\ Q.entry[Q.try[k].dev] = k
      BY <3>2, <1>3 DEF UpIsEntry, IsEntry
    <3>4. Q.try[k].dev \in Dev
      BY <3>3, <1>4 DEF Tries
    <3> QED
      BY <3>2, <3>3, <3>4, <1>5, <2>12
  <2>15. \A o \in O : Carries(R, o)
    <3> SUFFICES ASSUME NEW o \in O, o.conn # 0
                 PROVE  try[o.conn].phase # "none" /\ try[o.conn].scope = o.owner
      BY <2>11 DEF Carries
    <3>1. o.conn \in Attempts
      BY DEF Operations
    <3>2. Q.try[o.conn].phase # "none" /\ Q.try[o.conn].scope = o.owner
      BY <1>3 DEF Carries
    <3>3. o.conn # n
      BY <3>2, <1>6
    <3> QED
      BY <3>1, <3>2, <3>3, <2>6
  <2>16. PoolKept(R, O)
    BY <2>10, <2>13, <2>14, <2>15 DEF PoolKept
  <2> QED
    BY <2>3, <2>4, <2>5, <2>11, <2>16
<1> QED
  BY <1>7, <1>8, <1>9

---------------------------------------------------------------------------
(* The tabs                                                                *)

TabSets == [order : Seq(Dev), active : Dev \cup {NoDevice}]

TabsKept(T) == T \in TabSets /\ IsInjective(T.order) /\ ActiveIsListed(T)

LEMMA RestoredKept ==
  ASSUME NEW T \in RestoredTabs(Dev)
  PROVE  TabsKept(T)
<1>1. T \in [order : {s \in SeqOf(Dev, 2) : IsInjective(s)}, active : Dev \cup {NoDevice}]
      /\ ActiveIsListed(T)
  BY DEF RestoredTabs
<1>2. T.order \in SeqOf(Dev, 2) /\ IsInjective(T.order)
  BY <1>1
<1>3. T.order \in Seq(Dev)
  <2>1. PICK m \in 0..2 : T.order \in [1..m -> Dev]
    BY <1>2 DEF SeqOf
  <2>2. m \in Nat
    BY <2>1
  <2>3. \A f \in [1..m -> Dev] : f \in Seq(Dev)
    BY <2>2
  <2> QED
    BY <2>1, <2>3
<1> QED
  BY <1>1, <1>2, <1>3 DEF TabsKept, TabSets

LEMMA OpenedKept ==
  ASSUME NEW T, TabsKept(T), NEW d \in Dev
  PROVE  /\ TabsKept(TabOpened(T, d)) /\ TabOpened(T, d).active = d
         /\ d \in TabDevices(TabOpened(T, d))
         /\ TabDevices(T) \subseteq TabDevices(TabOpened(T, d))
<1> DEFINE U == TabOpened(T, d)
<1>1. T.order \in Seq(Dev) /\ IsInjective(T.order)
  BY DEF TabsKept, TabSets
<1>2. CASE d \in TabDevices(T)
  <2>1. U.order = T.order /\ U.active = d /\ U \in TabSets
    BY <1>2, <1>1 DEF TabOpened, TabSets
  <2> QED
    BY <2>1, <1>1, <1>2 DEF TabsKept, ActiveIsListed, TabDevices, ToSet
<1>3. CASE d \notin TabDevices(T)
  <2>1. U.order = Append(T.order, d) /\ U.active = d
    BY <1>3 DEF TabOpened
  <2>2. U.order \in Seq(Dev) /\ U \in TabSets
    BY <2>1, <1>1, <1>3 DEF TabOpened, TabSets
  <2>3. /\ DOMAIN U.order = 1..(Len(T.order) + 1) /\ U.order[Len(T.order) + 1] = d
        /\ \A i \in 1..Len(T.order) : U.order[i] = T.order[i]
        /\ DOMAIN T.order = 1..Len(T.order) /\ Len(T.order) \in Nat
    BY <2>1, <1>1
  <2>4. \A i \in DOMAIN T.order : T.order[i] # d
    BY <1>3 DEF TabDevices, ToSet
  <2>5. IsInjective(U.order)
    <3> SUFFICES ASSUME NEW a \in DOMAIN U.order, NEW b \in DOMAIN U.order, U.order[a] = U.order[b]
                 PROVE  a = b
      BY DEF IsInjective
    <3>1. CASE a \in DOMAIN T.order /\ b \in DOMAIN T.order
      BY <3>1, <2>3, <1>1 DEF IsInjective
    <3>2. CASE a \notin DOMAIN T.order /\ b \notin DOMAIN T.order
      BY <3>2, <2>3
    <3>3. CASE a \in DOMAIN T.order /\ b \notin DOMAIN T.order
      <4>1. U.order[b] = d
        BY <3>3, <2>3
      <4> QED
        BY <4>1, <3>3, <2>3, <2>4
    <3>4. CASE a \notin DOMAIN T.order /\ b \in DOMAIN T.order
      <4>1. U.order[a] = d
        BY <3>4, <2>3
      <4> QED
        BY <4>1, <3>4, <2>3, <2>4
    <3> QED
      BY <3>1, <3>2, <3>3, <3>4
  <2>6. d \in TabDevices(U) /\ TabDevices(T) \subseteq TabDevices(U)
    BY <2>3 DEF TabDevices, ToSet
  <2>7. U.order # << >>
    BY <2>3
  <2> QED
    BY <2>1, <2>2, <2>5, <2>6, <2>7 DEF TabsKept, ActiveIsListed
<1> QED
  BY <1>2, <1>3

LEMMA ActivatedKept ==
  ASSUME NEW T, TabsKept(T), NEW d \in TabDevices(T)
  PROVE  /\ TabsKept(TabActivated(T, d)) /\ TabActivated(T, d).active = d /\ d \in Dev
         /\ TabDevices(TabActivated(T, d)) = TabDevices(T)
<1>1. T \in TabSets /\ T.order \in Seq(Dev) /\ IsInjective(T.order)
  BY DEF TabsKept, TabSets
<1>2. d \in Dev /\ T.order # << >>
  BY <1>1 DEF TabDevices, ToSet
<1>3. PICK U \in TabSets : U = TabActivated(T, d)
  BY <1>1, <1>2 DEF TabActivated, TabSets
<1>4. U.order = T.order /\ U.active = d
  BY <1>1, <1>3 DEF TabActivated, TabSets
<1> QED
  BY <1>1, <1>2, <1>3, <1>4 DEF TabsKept, ActiveIsListed, TabDevices

LEMMA ClosedKept ==
  ASSUME NEW T, TabsKept(T), NEW d \in TabDevices(T)
  PROVE  /\ TabsKept(TabClosed(T, d))
         /\ TabDevices(TabClosed(T, d)) = TabDevices(T) \ {d}
         /\ d # T.active => TabClosed(T, d).active = T.active
<1> DEFINE U == TabClosed(T, d)
<1>1. T \in TabSets /\ T.order \in Seq(Dev) /\ IsInjective(T.order) /\ ActiveIsListed(T)
  BY DEF TabsKept, TabSets
<1>2. PICK n \in Nat : n = Len(T.order) /\ DOMAIN T.order = 1..n
  BY <1>1
<1>3. PICK i \in 1..n : i = (CHOOSE k \in DOMAIN T.order : T.order[k] = d) /\ T.order[i] = d
  BY <1>2 DEF TabDevices, ToSet
<1>4. PICK rest : rest = RemoveAt(T.order, i)
  OBVIOUS
<1>5. /\ rest \in Seq(Dev) /\ Len(rest) = n - 1 /\ DOMAIN rest = 1..(n - 1)
      /\ \A k \in 1..(n - 1) : rest[k] = IF k < i THEN T.order[k] ELSE T.order[k + 1]
  <2>1. SubSeq(T.order, 1, i - 1) \in Seq(Dev) /\ Len(SubSeq(T.order, 1, i - 1)) = i - 1
        /\ \A k \in 1..(i - 1) : SubSeq(T.order, 1, i - 1)[k] = T.order[k]
    BY <1>1, <1>2
  <2>2. SubSeq(T.order, i + 1, n) \in Seq(Dev) /\ Len(SubSeq(T.order, i + 1, n)) = n - i
        /\ \A k \in 1..(n - i) : SubSeq(T.order, i + 1, n)[k] = T.order[i + k]
    BY <1>1, <1>2
  <2>3. rest = SubSeq(T.order, 1, i - 1) \o SubSeq(T.order, i + 1, n)
    BY <1>2, <1>4 DEF RemoveAt
  <2>4. PICK a \in Seq(Dev), b \in Seq(Dev) :
          /\ a = SubSeq(T.order, 1, i - 1) /\ b = SubSeq(T.order, i + 1, n)
    BY <2>1, <2>2
  <2>5. /\ rest = a \o b /\ Len(a) = i - 1 /\ Len(b) = n - i
        /\ \A k \in 1..(i - 1) : a[k] = T.order[k]
        /\ \A k \in 1..(n - i) : b[k] = T.order[i + k]
    BY <2>1, <2>2, <2>3, <2>4
  <2>6. rest \in Seq(Dev) /\ Len(rest) = n - 1 /\ DOMAIN rest = 1..(n - 1)
    <3>1. rest \in Seq(Dev)
      BY <2>5
    <3>2. Len(rest) = Len(a) + Len(b)
      BY <2>5, ConcatProperties, Zenon
    <3>3. Len(rest) = n - 1
      BY <3>2, <2>5
    <3> QED
      BY <3>1, <3>3
  <2>7. ASSUME NEW k \in 1..(n - 1)
        PROVE  rest[k] = IF k < i THEN T.order[k] ELSE T.order[k + 1]
    <3>1. CASE k < i
      BY <3>1, <2>5
    <3>2. CASE ~(k < i)
      <4>1. rest[k] = b[k - (i - 1)] /\ k - (i - 1) \in 1..(n - i)
        BY <3>2, <2>5
      <4> QED
        BY <4>1, <3>2, <2>5
    <3> QED
      BY <3>1, <3>2
  <2> QED
    BY <2>6, <2>7
<1>6. \A k \in 1..n : T.order[k] = d => k = i
  BY <1>1, <1>2, <1>3 DEF IsInjective
<1>7. ToSet(rest) = TabDevices(T) \ {d}
  <2>1. ASSUME NEW x \in ToSet(rest) PROVE x \in TabDevices(T) \ {d}
    <3>1. PICK k \in 1..(n - 1) : x = rest[k]
      BY <1>5 DEF ToSet
    <3>2. PICK j \in 1..n : j # i /\ rest[k] = T.order[j]
      <4>1. CASE k < i
        BY <4>1, <1>5
      <4>2. CASE ~(k < i)
        BY <4>2, <1>5
      <4> QED
        BY <4>1, <4>2
    <3> QED
      BY <3>1, <3>2, <1>2, <1>6 DEF TabDevices, ToSet
  <2>2. ASSUME NEW x \in TabDevices(T) \ {d} PROVE x \in ToSet(rest)
    <3>1. PICK j \in 1..n : x = T.order[j] /\ j # i
      BY <1>2, <1>3 DEF TabDevices, ToSet
    <3>2. CASE j < i
      BY <3>1, <3>2, <1>5 DEF ToSet
    <3>3. CASE j > i
      <4>1. j - 1 \in 1..(n - 1) /\ ~(j - 1 < i) /\ (j - 1) + 1 = j
        BY <3>1, <3>3
      <4>2. rest[j - 1] = x
        BY <4>1, <3>1, <1>5
      <4> QED
        BY <4>1, <4>2, <1>5 DEF ToSet
    <3> QED
      BY <3>1, <3>2, <3>3
  <2> QED
    BY <2>1, <2>2
<1>8. IsInjective(rest)
  <2> SUFFICES ASSUME NEW j \in 1..(n - 1), NEW k \in 1..(n - 1), rest[j] = rest[k]
               PROVE  j = k
    BY <1>5 DEF IsInjective
  <2> DEFINE at(m) == IF m < i THEN m ELSE m + 1
  <2>1. at(j) \in 1..n /\ at(k) \in 1..n /\ rest[j] = T.order[at(j)] /\ rest[k] = T.order[at(k)]
    BY <1>5
  <2>2. at(j) = at(k)
    <3> HIDE DEF at
    <3> QED
      BY <2>1, <1>1, <1>2 DEF IsInjective
  <2> QED
    BY <2>2
<1> DEFINE next == IF i \in DOMAIN rest THEN rest[i]
                   ELSE IF rest = << >> THEN NoDevice ELSE rest[i - 1]
<1>9. U = [order |-> rest, active |-> IF T.active = d THEN next ELSE T.active]
  BY <1>3, <1>4 DEF TabClosed
<1>10. IF rest = << >> THEN next = NoDevice ELSE next \in ToSet(rest)
  <2>1. CASE i \in DOMAIN rest
    BY <2>1, <1>5 DEF ToSet
  <2>2. CASE i \notin DOMAIN rest /\ rest # << >>
    <3>1. n - 1 # 0
      BY <2>2, <1>5
    <3>2. i - 1 \in 1..(n - 1)
      BY <3>1, <2>2, <1>5
    <3> QED
      BY <3>2, <2>2, <1>5 DEF ToSet
  <2>3. CASE i \notin DOMAIN rest /\ rest = << >>
    BY <2>3
  <2> QED
    BY <2>1, <2>2, <2>3
<1> HIDE DEF next
<1>11. ToSet(rest) \subseteq Dev /\ (rest = << >> => ToSet(rest) = {})
  BY <1>5 DEF ToSet
<1>12. T.active # d => T.active \in TabDevices(T) \ {d}
  <2>1. T.order # << >>
    BY <1>2, <1>3
  <2> QED
    BY <2>1, <1>1 DEF ActiveIsListed
<1>13. U.order = rest /\ U.active = (IF T.active = d THEN next ELSE T.active)
  BY <1>9
<1>14. IF rest = << >> THEN U.active = NoDevice ELSE U.active \in ToSet(rest)
  BY <1>7, <1>10, <1>11, <1>12, <1>13
<1>15. U \in TabSets
  BY <1>5, <1>9, <1>11, <1>13, <1>14 DEF TabSets
<1> QED
  BY <1>7, <1>8, <1>13, <1>14, <1>15 DEF TabsKept, ActiveIsListed, TabDevices

---------------------------------------------------------------------------
(* The file view                                                           *)

Places == (Dev \cup {NoDevice}) \X Paths

ListCalls ==
  [at : Places, phase : {"asked", "aborted", "body", "refused"}, latest : BOOLEAN, upload : BOOLEAN]

Files ==
  [tabs : TabSets, path : [Dev -> Paths], loading : BOOLEAN, error : BOOLEAN, loaded : Places,
   entries : Places, uploading : BOOLEAN, list : SUBSET ListCalls, work : Nat]

OneLatest(C) == \A c, e \in C : c.latest /\ e.latest => c = e
HasLatest(C) == \E c \in C : c.latest

\* An upload, or the listing that follows it: there is only one.
HasUpload(O) == \E o \in O : o.kind = "upload"
OneUpload(O) == \A o, k \in O : o.kind = "upload" /\ k.kind = "upload" => o = k
Lists(C) == \E c \in C : c.upload
OneLists(C) == \A c, e \in C : c.upload /\ e.upload => c = e

\* What is true of the view by itself ...
Listing(F) == F \in Files /\ TabsKept(F.tabs) /\ F.entries \in {F.loaded, Nothing}

\* ... of its spinner ...
Spins(F) == OneLatest(F.list) /\ F.loading = HasLatest(F.list)

\* ... and of the upload.
UploadsAgree(F, O) ==
  /\ OneUpload(O) /\ OneLists(F.list) /\ ~(HasUpload(O) /\ Lists(F.list))
  /\ F.uploading = (HasUpload(O) \/ Lists(F.list))

FilesKept(F, O) == Listing(F) /\ Spins(F) /\ UploadsAgree(F, O)

LEMMA NothingPlace == Nothing \in Places
BY FileManagerAssumption DEF Nothing, Places

LEMMA HerePlace ==
  ASSUME NEW F \in Files, F.tabs.active # NoDevice
  PROVE  Here(F) \in Places
<1>1. F.tabs.active \in Dev /\ F.path \in [Dev -> Paths]
  BY DEF Files, TabSets
<1> QED
  BY <1>1 DEF Here, Places

LEMMA SupersededListsFacts ==
  ASSUME NEW C, C \subseteq ListCalls
  PROVE  LET S == SupersededLists(C)
         IN  /\ S \subseteq ListCalls /\ \A c \in S : ~c.latest
             /\ Lists(S) <=> Lists(C)
             /\ OneLists(C) => OneLists(S)
<1> DEFINE New(c) == [c EXCEPT !.latest = FALSE, !.phase = IF c.phase = "asked" THEN "aborted" ELSE c.phase]
<1>1. ASSUME NEW c \in ListCalls
      PROVE  New(c) \in ListCalls /\ ~New(c).latest /\ New(c).upload = c.upload
  BY DEF ListCalls
<1>2. \A c \in C : [c EXCEPT !.latest = FALSE, !.phase = IF @ = "asked" THEN "aborted" ELSE @] = New(c)
  BY DEF ListCalls
<1> HIDE DEF New
<1>3. ASSUME NEW s \in SupersededLists(C) PROVE \E c \in C : s = New(c)
  <2>1. PICK c \in C : s = [c EXCEPT !.latest = FALSE, !.phase = IF @ = "asked" THEN "aborted" ELSE @]
    BY Zenon DEF SupersededLists
  <2> QED
    BY <2>1, <1>2, Zenon
<1>4. ASSUME NEW c \in C, c.upload PROVE New(c) \in SupersededLists(C)
  <2>0. c \in {b \in C : b.phase # "asked" \/ b.upload}
    BY <1>4
  <2>1. [c EXCEPT !.latest = FALSE, !.phase = IF @ = "asked" THEN "aborted" ELSE @] \in SupersededLists(C)
    BY <2>0, Zenon DEF SupersededLists
  <2> QED
    BY <2>1, <1>2, Zenon
<1> QED
  BY <1>1, <1>3, <1>4 DEF Lists, OneLists

\* loadFiles: afterwards the spinner turns exactly if there is a tab.
LEMMA LoadFilesFacts ==
  ASSUME NEW F, Listing(F), NEW upload \in BOOLEAN
  PROVE  LET G == LoadFiles(F, upload)
         IN  /\ Listing(G) /\ Spins(G)
             /\ OneLists(F.list) /\ ~(upload /\ Lists(F.list)) => OneLists(G.list)
             /\ IF F.tabs.active = NoDevice
                THEN (Lists(G.list) <=> Lists(F.list)) /\ G.uploading = (F.uploading /\ ~upload)
                ELSE (Lists(G.list) <=> Lists(F.list) \/ upload) /\ G.uploading = F.uploading
<1>1. F \in Files /\ TabsKept(F.tabs) /\ F.entries \in {F.loaded, Nothing}
  BY DEF Listing
<1>2. F.list \subseteq ListCalls /\ F.uploading \in BOOLEAN
  BY <1>1 DEF Files
<1>3. PICK S \in SUBSET ListCalls : S = SupersededLists(F.list)
  BY <1>2, SupersededListsFacts
<1>4. (\A c \in S : ~c.latest) /\ (Lists(S) <=> Lists(F.list)) /\ (OneLists(F.list) => OneLists(S))
  BY <1>2, <1>3, SupersededListsFacts
<1>5. CASE F.tabs.active = NoDevice
  <2>1. PICK up \in BOOLEAN : up = (F.uploading /\ ~upload)
    OBVIOUS
  <2>2. LoadFiles(F, upload) =
          [F EXCEPT !.entries = Nothing, !.error = FALSE, !.loading = FALSE, !.loaded = Nothing,
                    !.list = S, !.uploading = up]
    BY <1>1, <1>3, <1>5, <2>1 DEF LoadFiles, LoadNoFiles, Files
  <2>3. PICK G : G = LoadFiles(F, upload)
    OBVIOUS
  <2>4. G \in Files
    BY <1>1, <2>2, <2>3, NothingPlace DEF Files
  <2>5. /\ G.tabs = F.tabs /\ G.entries = Nothing /\ G.loaded = Nothing /\ G.list = S
        /\ G.loading = FALSE /\ G.uploading = up
    BY <1>1, <2>2, <2>3 DEF Files
  <2>6. Listing(G)
    BY <1>1, <2>4, <2>5 DEF Listing
  <2>7. Spins(G)
    BY <1>4, <2>5 DEF Spins, OneLatest, HasLatest
  <2> QED
    BY <1>4, <1>5, <2>1, <2>3, <2>5, <2>6, <2>7
<1>6. CASE F.tabs.active # NoDevice
  <2>1. PICK c \in ListCalls : c = ListCall(Here(F), upload)
    BY <1>1, <1>6, HerePlace DEF ListCall, ListCalls
  <2>2. c.latest = TRUE /\ c.upload = upload
    BY <2>1 DEF ListCall
  <2> DEFINE L == S \cup {c}
  <2>3. LoadFiles(F, upload) = [F EXCEPT !.loading = TRUE, !.error = FALSE, !.list = L]
    BY <1>1, <1>3, <1>6, <2>1 DEF LoadFiles, Files
  <2> HIDE DEF L
  <2>4. PICK G : G = LoadFiles(F, upload)
    OBVIOUS
  <2>5. G \in Files
    <3>1. L \in SUBSET ListCalls
      BY DEF L
    <3> QED
      BY <3>1, <1>1, <2>3, <2>4 DEF Files
  <2>6. /\ G.tabs = F.tabs /\ G.entries = F.entries /\ G.loaded = F.loaded /\ G.list = L
        /\ G.loading = TRUE /\ G.uploading = F.uploading
    BY <1>1, <2>3, <2>4 DEF Files
  <2>7. Listing(G)
    BY <1>1, <2>5, <2>6 DEF Listing
  <2>8. Spins(G)
    BY <1>4, <2>2, <2>6 DEF L, Spins, OneLatest, HasLatest
  <2>9. Lists(G.list) <=> Lists(F.list) \/ upload
    BY <1>4, <2>2, <2>6 DEF L, Lists
  <2>10. OneLists(F.list) /\ ~(upload /\ Lists(F.list)) => OneLists(G.list)
    BY <1>4, <2>2, <2>6 DEF L, Lists, OneLists
  <2> QED
    BY <1>6, <2>4, <2>6, <2>7, <2>8, <2>9, <2>10
<1> QED
  BY <1>5, <1>6

LEMMA LoadFilesKeeps ==
  ASSUME NEW F, NEW O, Listing(F), UploadsAgree(F, O)
  PROVE  FilesKept(LoadFiles(F, FALSE), O)
<1>1. PICK G : G = LoadFiles(F, FALSE)
  OBVIOUS
<1>2. /\ Listing(G) /\ Spins(G)
      /\ OneLists(F.list) => OneLists(G.list)
      /\ (Lists(G.list) <=> Lists(F.list)) /\ G.uploading = F.uploading
  <2>1. F.uploading \in BOOLEAN
    BY DEF Listing, Files
  <2> QED
    BY <1>1, <2>1, LoadFilesFacts
<1>3. UploadsAgree(G, O)
  BY <1>2 DEF UploadsAgree
<1> QED
  BY <1>1, <1>2, <1>3 DEF FilesKept

\* Other tabs and other directories.
LEMMA RetabKeeps ==
  ASSUME NEW F, NEW O, FilesKept(F, O), NEW T, TabsKept(T), NEW path \in [Dev -> Paths]
  PROVE  FilesKept([F EXCEPT !.tabs = T, !.path = path], O)
<1>1. PICK G : G = [F EXCEPT !.tabs = T, !.path = path]
  OBVIOUS
<1>2. F \in Files /\ T \in TabSets
  BY DEF FilesKept, Listing, TabsKept
<1>3. G \in Files
  BY <1>1, <1>2 DEF Files
<1>4. /\ G.tabs = T /\ G.entries = F.entries /\ G.loaded = F.loaded /\ G.list = F.list
      /\ G.loading = F.loading /\ G.uploading = F.uploading
  BY <1>1, <1>2 DEF Files
<1>5. Listing(G) /\ Spins(G) /\ UploadsAgree(G, O)
  BY <1>3, <1>4, Zenon DEF FilesKept, Listing, Spins, UploadsAgree
<1> QED
  BY <1>1, <1>5 DEF FilesKept

\* The end of a request: the spinner stops with the latest one, and what counted as the
\* upload is over if it waited for this one.
LEMMA ListEndsKeeps ==
  ASSUME NEW F, NEW O, FilesKept(F, O), NEW c \in F.list
  PROVE  FilesKept(ListEnds(F, c), O)
<1>1. F \in Files /\ F.list \subseteq ListCalls /\ c \in ListCalls
  BY DEF FilesKept, Listing, Files
<1>2. PICK C \in SUBSET ListCalls : C = F.list \ {c}
  BY <1>1
<1>3. PICK spin \in BOOLEAN, up \in BOOLEAN :
        spin = (F.loading /\ ~c.latest) /\ up = (F.uploading /\ ~c.upload)
  OBVIOUS
<1>4. PICK G : G = ListEnds(F, c)
  OBVIOUS
<1>5. G = [F EXCEPT !.list = C, !.loading = spin, !.uploading = up]
  BY <1>1, <1>2, <1>3, <1>4 DEF ListEnds, Files
<1>6. G \in Files
  BY <1>1, <1>5 DEF Files
<1>7. /\ G.tabs = F.tabs /\ G.entries = F.entries /\ G.loaded = F.loaded /\ G.list = C
      /\ G.loading = spin /\ G.uploading = up
  BY <1>1, <1>5 DEF Files
<1>8. Listing(G)
  BY <1>6, <1>7, Zenon DEF FilesKept, Listing
<1>9. Spins(G)
  BY <1>2, <1>3, <1>7 DEF FilesKept, Spins, OneLatest, HasLatest
<1>10. UploadsAgree(G, O)
  BY <1>2, <1>3, <1>7 DEF FilesKept, UploadsAgree, OneLists, Lists
<1> QED
  BY <1>4, <1>8, <1>9, <1>10 DEF FilesKept

\* The listing or an error is shown; nothing else changes.
LEMMA ShownKeeps ==
  ASSUME NEW F, NEW O, FilesKept(F, O), NEW entries \in Places, NEW loaded \in Places,
         entries \in {loaded, Nothing}, NEW error \in BOOLEAN
  PROVE  FilesKept([F EXCEPT !.entries = entries, !.loaded = loaded, !.error = error], O)
<1>1. PICK G : G = [F EXCEPT !.entries = entries, !.loaded = loaded, !.error = error]
  OBVIOUS
<1>2. F \in Files
  BY DEF FilesKept, Listing
<1>3. G \in Files
  BY <1>1, <1>2 DEF Files
<1>4. /\ G.tabs = F.tabs /\ G.entries = entries /\ G.loaded = loaded /\ G.list = F.list
      /\ G.loading = F.loading /\ G.uploading = F.uploading
  BY <1>1, <1>2 DEF Files
<1>5. Listing(G) /\ Spins(G) /\ UploadsAgree(G, O)
  BY <1>3, <1>4, Zenon DEF FilesKept, Listing, Spins, UploadsAgree
<1> QED
  BY <1>1, <1>5 DEF FilesKept

LEMMA ErrorKeeps ==
  ASSUME NEW F, NEW O, FilesKept(F, O)
  PROVE  FilesKept([F EXCEPT !.error = TRUE, !.entries = Nothing], O)
<1>1. F \in Files /\ F.loaded \in Places
  BY DEF FilesKept, Listing, Files
<1>2. [F EXCEPT !.error = TRUE, !.entries = Nothing]
        = [F EXCEPT !.entries = Nothing, !.loaded = F.loaded, !.error = TRUE]
  BY <1>1 DEF Files
<1>3. FilesKept([F EXCEPT !.entries = Nothing, !.loaded = F.loaded, !.error = TRUE], O)
  BY <1>1, NothingPlace, ShownKeeps
<1> QED
  BY <1>2, <1>3

LEMMA ListedKeeps ==
  ASSUME NEW F, NEW O, FilesKept(F, O), NEW c \in F.list
  PROVE  FilesKept(Listed(F, c), O)
<1>1. F \in Files /\ F.error \in BOOLEAN /\ c.at \in Places
  BY DEF FilesKept, Listing, Files, ListCalls
<1>2. CASE c.latest
  <2>1. Listed(F, c) = [F EXCEPT !.entries = c.at, !.loaded = c.at, !.error = F.error]
    BY <1>1, <1>2 DEF Listed, Files
  <2>2. FilesKept([F EXCEPT !.entries = c.at, !.loaded = c.at, !.error = F.error], O)
    BY <1>1, ShownKeeps
  <2> QED
    BY <2>1, <2>2
<1>3. CASE ~c.latest
  BY <1>3 DEF Listed
<1> QED
  BY <1>2, <1>3

\* A request goes on.
LEMMA RephasedKeeps ==
  ASSUME NEW F, NEW O, FilesKept(F, O), NEW c \in F.list,
         NEW phase \in {"asked", "aborted", "body", "refused"}
  PROVE  FilesKept([F EXCEPT !.list = (@ \ {c}) \cup {[c EXCEPT !.phase = phase]}], O)
<1>1. F \in Files /\ F.list \subseteq ListCalls /\ c \in ListCalls
  BY DEF FilesKept, Listing, Files
<1>2. PICK d \in ListCalls : d = [c EXCEPT !.phase = phase]
  BY <1>1 DEF ListCalls
<1>3. d.latest = c.latest /\ d.upload = c.upload
  BY <1>1, <1>2 DEF ListCalls
<1>4. PICK C \in SUBSET ListCalls : C = (F.list \ {c}) \cup {d}
  BY <1>1
<1>5. PICK G : G = [F EXCEPT !.list = (@ \ {c}) \cup {[c EXCEPT !.phase = phase]}]
  OBVIOUS
<1>6. G = [F EXCEPT !.list = C]
  BY <1>2, <1>4, <1>5
<1>7. G \in Files
  BY <1>1, <1>6 DEF Files
<1>8. /\ G.tabs = F.tabs /\ G.entries = F.entries /\ G.loaded = F.loaded /\ G.list = C
      /\ G.loading = F.loading /\ G.uploading = F.uploading
  BY <1>1, <1>6 DEF Files
<1>9. Listing(G)
  BY <1>7, <1>8, Zenon DEF FilesKept, Listing
<1>10. Spins(G)
  BY <1>3, <1>4, <1>8 DEF FilesKept, Spins, OneLatest, HasLatest
<1>11. UploadsAgree(G, O)
  BY <1>3, <1>4, <1>8 DEF FilesKept, UploadsAgree, OneLists, Lists
<1> QED
  BY <1>5, <1>9, <1>10, <1>11 DEF FilesKept

LEMMA ListStepsKeep ==
  ASSUME NEW O, FilesKept(files, O), ListSteps
  PROVE  FilesKept(files', O)
<1>1. ASSUME ListAborts PROVE FilesKept(files', O)
  BY <1>1, ListEndsKeeps DEF ListAborts
<1>2. ASSUME ListHeaders PROVE FilesKept(files', O)
  <2>1. PICK c \in files.list, ok \in BOOLEAN :
          files' = [files EXCEPT !.list = (@ \ {c}) \cup {[c EXCEPT !.phase = IF ok THEN "body" ELSE "refused"]}]
    BY <1>2 DEF ListHeaders
  <2>2. PICK phase \in {"body", "refused"} : phase = IF ok THEN "body" ELSE "refused"
    OBVIOUS
  <2>3. files' = [files EXCEPT !.list = (@ \ {c}) \cup {[c EXCEPT !.phase = phase]}]
    BY <2>1, <2>2
  <2> QED
    BY <2>3, RephasedKeeps
<1>3. ASSUME ListArrives PROVE FilesKept(files', O)
  <2>1. PICK c \in files.list : files' = ListEnds(Listed(files, c), c)
    BY <1>3 DEF ListArrives
  <2>2. PICK F : F = Listed(files, c)
    OBVIOUS
  <2>3. FilesKept(F, O) /\ F.list = files.list
    <3>1. files \in Files
      BY DEF FilesKept, Listing
    <3> QED
      BY <2>2, <3>1, ListedKeeps DEF Listed, Files
  <2> QED
    BY <2>1, <2>2, <2>3, ListEndsKeeps
<1>4. ASSUME NEW c \in files.list, files' = ListEnds([files EXCEPT !.error = TRUE, !.entries = Nothing], c)
      PROVE  FilesKept(files', O)
  <2>1. PICK F : F = [files EXCEPT !.error = TRUE, !.entries = Nothing]
    OBVIOUS
  <2>2. FilesKept(F, O) /\ F.list = files.list
    <3>1. files \in Files
      BY DEF FilesKept, Listing
    <3> QED
      BY <2>1, <3>1, ErrorKeeps DEF Files
  <2> QED
    BY <1>4, <2>1, <2>2, ListEndsKeeps
<1>5. ASSUME ListRefused PROVE FilesKept(files', O)
  BY <1>4, <1>5, Zenon DEF ListRefused
<1>6. ASSUME ListFails PROVE FilesKept(files', O)
  <2>1. PICK c \in files.list :
          files' = ListEnds(IF c.latest THEN [files EXCEPT !.error = TRUE, !.entries = Nothing]
                         ELSE files, c)
    BY <1>6 DEF ListFails
  <2>2. CASE c.latest
    BY <1>4, <2>1, <2>2, Zenon
  <2>3. CASE ~c.latest
    BY <2>1, <2>3, ListEndsKeeps
  <2> QED
    BY <2>2, <2>3
<1> QED
  BY <1>1, <1>2, <1>3, <1>5, <1>6 DEF ListSteps

---------------------------------------------------------------------------
(* An operation goes on                                                    *)

\* An operation becomes k, which has the connection it had or none, and the pool is that
\* of one that looked at the account or did not.
LEMMA AdvanceKeeps ==
  ASSUME OpsKept(ops), PoolKept(pool, ops), account \in Accounts,
         NEW o \in ops, NEW k, Advances(o, k),
         NEW P, P \in {pool, InScope(pool)}, Now(P, Instead(o, k)),
         k.conn = 0 \/ (k.conn = o.conn /\ k.owner = o.owner)
  PROVE  OpsKept(ops') /\ PoolKept(pool', ops') /\ ops' = Instead(o, k)
<1>1. ops' = Instead(o, k)
  BY DEF Now
<1>2. OpsKept(Instead(o, k))
  BY OpsInstead DEF Advances
<1>3. PoolKept(P, ops)
  BY InScopeKeeps DEF OpsKept
<1>4. \A x \in Instead(o, k) : Carries(P, x)
  <2>1. \A x \in ops : Carries(P, x)
    BY <1>3 DEF PoolKept
  <2>2. Carries(P, k)
    BY <2>1 DEF Carries
  <2> QED
    BY <2>1, <2>2 DEF Instead
<1>5. PoolKept(P, Instead(o, k))
  BY <1>3, <1>4, Carrying
<1> QED
  BY <1>1, <1>2, <1>5, NowKeeps DEF OpsKept

Advancing == \E o \in ops : \E k : Advances(o, k) /\ ops' = Instead(o, k)

Progress == OpsKept(ops') /\ PoolKept(pool', ops') /\ Advancing

LEMMA AsksKeeps ==
  ASSUME OpsKept(ops), PoolKept(pool, ops), account \in Accounts,
         NEW o \in ops, o.phase = "auth", ~o.aborted, Asks(o)
  PROVE  Progress
<1>1. o \in Operations /\ Sound(o) /\ o.dev \in Dev /\ ops \subseteq Operations
  BY DEF OpsKept, Sound
<1>2. PICK got : got = Acquire(pool, o.dev)
  OBVIOUS
<1>3. /\ PoolKept(got.pool, ops) /\ got.conn \in Attempts \cup {0}
      /\ got.conn # 0 => /\ got.pool.try[got.conn].phase # "none"
                        /\ got.pool.try[got.conn].scope = account
  BY <1>1, <1>2, AcquireKeeps DEF Asks
<1>4. PICK phase \in {"sending", "waiting"} : phase = IF got.conn = 0 THEN "sending" ELSE "waiting"
  OBVIOUS
<1>5. PICK k : k = [o EXCEPT !.conn = got.conn, !.owner = account, !.phase = phase]
  OBVIOUS
<1>6. Now(got.pool, Instead(o, k))
  BY <1>2, <1>4, <1>5, Zenon DEF Asks
<1>7. k \in Operations
  BY <1>1, <1>3, <1>5 DEF Operations
<1>8. /\ k.kind = o.kind /\ k.dev = o.dev /\ k.aborted = o.aborted /\ k.phase = phase
      /\ k.conn = got.conn /\ k.owner = account /\ k.status = o.status /\ k.cancelable = o.cancelable
  BY <1>1, <1>5 DEF Operations
<1>9. Advances(o, k)
  BY <1>1, <1>7, <1>8 DEF Advances, Sound
<1>10. OpsKept(Instead(o, k))
  BY <1>9, OpsInstead DEF Advances
<1>11. \A x \in Instead(o, k) : Carries(got.pool, x)
  <2>1. \A x \in ops : Carries(got.pool, x)
    BY <1>3 DEF PoolKept
  <2>2. Carries(got.pool, k)
    BY <1>3, <1>8 DEF Carries
  <2> QED
    BY <2>1, <2>2 DEF Instead
<1>12. PoolKept(got.pool, Instead(o, k))
  BY <1>3, <1>11, Carrying
<1>13. PoolKept(pool', ops') /\ ops' = Instead(o, k)
  BY <1>6, <1>10, <1>12, NowKeeps DEF OpsKept, Now
<1> QED
  BY <1>9, <1>10, <1>13 DEF Progress, Advancing

\* The same step with the record it makes.
LEMMA AdvanceProgress ==
  ASSUME OpsKept(ops), PoolKept(pool, ops), account \in Accounts,
         NEW o \in ops, NEW k, Advances(o, k),
         NEW P, P \in {pool, InScope(pool)}, Now(P, Instead(o, k)),
         k.conn = 0 \/ (k.conn = o.conn /\ k.owner = o.owner)
  PROVE  Progress
BY AdvanceKeeps DEF Progress, Advancing

\* Another phase, with the connection it has.
LEMMA PhaseAdvances ==
  ASSUME NEW o \in Operations, Sound(o), o.phase # "over",
         NEW phase \in {"sending", "written", "answer", "reading", "aborting", "stuck"},
         o.aborted => phase \in {"aborting", "stuck"},
         o.kind = "terminal" => /\ phase \in {"sending", "reading", "aborting"}
                                /\ o.phase = "reading" => phase = "reading",
         phase = "written" => ~o.cancelable
  PROVE  LET k == [o EXCEPT !.phase = phase]
         IN  Advances(o, k) /\ k.conn = o.conn /\ k.owner = o.owner
<1>1. PICK k : k = [o EXCEPT !.phase = phase]
  OBVIOUS
<1>2. k \in Operations
  BY <1>1 DEF Operations
<1>3. /\ k.kind = o.kind /\ k.dev = o.dev /\ k.aborted = o.aborted /\ k.phase = phase
      /\ k.conn = o.conn /\ k.owner = o.owner /\ k.status = o.status /\ k.cancelable = o.cancelable
  BY <1>1 DEF Operations
<1>4. Advances(o, k)
  BY <1>2, <1>3 DEF Advances, Sound
<1> QED
  BY <1>1, <1>3, <1>4

\* Another phase, without a connection.
LEMMA LeaveAdvances ==
  ASSUME NEW o \in Operations, Sound(o), o.phase = "waiting",
         NEW phase \in {"sending", "aborting"}
  PROVE  LET k == [o EXCEPT !.phase = phase, !.conn = 0]
         IN  Advances(o, k) /\ k.conn = 0
<1>1. PICK k : k = [o EXCEPT !.phase = phase, !.conn = 0]
  OBVIOUS
<1>2. k \in Operations
  BY <1>1 DEF Operations
<1>3. /\ k.kind = o.kind /\ k.dev = o.dev /\ k.aborted = o.aborted /\ k.phase = phase
      /\ k.conn = 0 /\ k.status = o.status /\ k.cancelable = o.cancelable
  BY <1>1 DEF Operations
<1>4. Advances(o, k)
  BY <1>2, <1>3 DEF Advances, Sound
<1> QED
  BY <1>1, <1>3, <1>4

LEMMA OperationProgress ==
  ASSUME OpsKept(ops), PoolKept(pool, ops), account \in Accounts,
         AsksForConnection \/ AsksHttp \/ AbortIsSeen \/ AbortIsSeenByHttp \/ Answered \/ TerminalOpens
  PROVE  Progress
<1>0. \A o \in ops : o \in Operations /\ Sound(o)
  BY DEF OpsKept
<1>1. CASE AsksForConnection
  BY <1>1, AsksKeeps DEF AsksForConnection
<1>2. ASSUME NEW o \in ops, NEW P \in {pool, InScope(pool)}, o.phase # "over",
             NEW phase \in {"sending", "answer", "reading", "aborting", "stuck"},
             o.aborted => phase \in {"aborting", "stuck"},
             o.kind = "terminal" => /\ phase \in {"sending", "reading", "aborting"}
                                    /\ o.phase = "reading" => phase = "reading",
             Now(P, Instead(o, [o EXCEPT !.phase = phase]))
      PROVE  Progress
  <2>1. o \in Operations /\ Sound(o)
    BY <1>0
  <2>2. PICK k : k = [o EXCEPT !.phase = phase] /\ Advances(o, k) /\ k.conn = o.conn /\ k.owner = o.owner
    BY <1>2, <2>1, PhaseAdvances
  <2> QED
    BY <1>2, <2>2, AdvanceProgress
<1>3. CASE AsksHttp
  <2>1. PICK o \in ops : /\ o.phase = "auth" /\ ~o.aborted /\ IsTask(o)
                         /\ Now(pool, Instead(o, [o EXCEPT !.phase = "sending"]))
    BY <1>3, Zenon DEF AsksHttp
  <2> QED
    BY <2>1, <1>2 DEF IsTask
<1>4. CASE AbortIsSeen
  <2>1. PICK o \in ops : /\ o.phase = "auth" /\ o.aborted
                         /\ Now(InScope(pool), Instead(o, [o EXCEPT !.phase = "aborting"]))
    BY <1>4, Zenon DEF AbortIsSeen
  <2> QED
    BY <2>1, <1>2
<1>5. CASE AbortIsSeenByHttp
  <2>1. PICK o \in ops :
          /\ o.phase = "auth" /\ o.aborted /\ IsTask(o)
          /\ Now(pool, Instead(o, [o EXCEPT !.phase = IF o.kind \in Uploads THEN "stuck" ELSE "aborting"]))
    BY <1>5, Zenon DEF AbortIsSeenByHttp
  <2>2. PICK phase \in {"stuck", "aborting"} : phase = IF o.kind \in Uploads THEN "stuck" ELSE "aborting"
    OBVIOUS
  <2>3. Now(pool, Instead(o, [o EXCEPT !.phase = phase]))
    BY <2>1, <2>2, Zenon
  <2> QED
    BY <2>1, <2>3, <1>2 DEF IsTask
<1>6. CASE Answered
  <2>1. PICK o \in ops :
          /\ IsTask(o) /\ o.phase \in {"sending", "written"}
          /\ Now(pool, Instead(o, [o EXCEPT !.phase = IF o.kind \in Uploads THEN "answer" ELSE "reading"]))
    BY <1>6, Zenon DEF Answered
  <2>2. PICK phase \in {"answer", "reading"} : phase = IF o.kind \in Uploads THEN "answer" ELSE "reading"
    OBVIOUS
  <2>3. Now(pool, Instead(o, [o EXCEPT !.phase = phase]))
    BY <2>1, <2>2, Zenon
  <2>4. ~o.aborted
    BY <2>1, <1>0 DEF Sound
  <2> QED
    BY <2>1, <2>3, <2>4, <1>2 DEF IsTask
<1>7. CASE TerminalOpens
  <2>1. PICK o \in ops : /\ o.kind = "terminal" /\ o.phase = "sending" /\ ~o.aborted
                         /\ Now(pool, Instead(o, [o EXCEPT !.phase = "reading"]))
    BY <1>7, Zenon DEF TerminalOpens
  <2> QED
    BY <2>1, <1>2
<1> QED
  BY <1>1, <1>3, <1>4, <1>5, <1>6, <1>7

LEMMA UploadGoesOn ==
  ASSUME OpsKept(ops), PoolKept(pool, ops), account \in Accounts, UploadProgress \/ NextFile
  PROVE  Progress
<1>0. \A o \in ops : o \in Operations /\ Sound(o)
  BY DEF OpsKept
<1>1. CASE UploadProgress
  <2>1. PICK o \in ops, done \in BOOLEAN :
          /\ o.kind \in Uploads /\ o.phase = "sending"
          /\ Now(pool, Instead(o, Progressed(o, done)))
    BY <1>1, Zenon DEF UploadProgress
  <2>2. o \in Operations /\ Sound(o) /\ o.kind # "terminal"
    BY <1>0, <2>1 DEF Uploads
  <2>3. PICK phase \in {"written", "sending"} : phase = IF done THEN "written" ELSE "sending"
    OBVIOUS
  <2>4. PICK may \in BOOLEAN : may = ~done
    OBVIOUS
  <2>5. PICK k : k = Progressed(o, done)
    OBVIOUS
  <2>6. k = [o EXCEPT !.phase = phase, !.cancelable = may]
    BY <2>3, <2>4, <2>5 DEF Progressed
  <2>7. k \in Operations
    BY <2>2, <2>6 DEF Operations
  <2>8. /\ k.kind = o.kind /\ k.dev = o.dev /\ k.aborted = o.aborted /\ k.phase = phase
        /\ k.conn = o.conn /\ k.owner = o.owner /\ k.status = o.status /\ k.cancelable = may
    BY <2>2, <2>6 DEF Operations
  <2>9. ~o.aborted
    BY <2>1, <2>2 DEF Sound
  <2>10. Advances(o, k)
    BY <2>1, <2>2, <2>3, <2>4, <2>7, <2>8, <2>9 DEF Advances, Sound
  <2> QED
    BY <2>1, <2>5, <2>8, <2>10, AdvanceProgress
<1>2. CASE NextFile
  <2>1. PICK o \in ops : /\ o.phase = "answer" /\ o.left > 1
                         /\ Now(pool, Instead(o, [o EXCEPT !.phase = "auth", !.conn = 0, !.owner = "",
                                                           !.left = @ - 1]))
    BY <1>2, Zenon DEF NextFile
  <2>2. o \in Operations /\ Sound(o)
    BY <1>0
  <2>3. PICK left \in Nat : left = o.left - 1
    <3>1. o.left \in Nat
      BY <2>2 DEF Operations
    <3> QED
      BY <2>1, <3>1
  <2>4. PICK k : k = [o EXCEPT !.phase = "auth", !.conn = 0, !.owner = "", !.left = @ - 1]
    OBVIOUS
  <2>5. k = [o EXCEPT !.phase = "auth", !.conn = 0, !.owner = "", !.left = left]
    BY <2>2, <2>3, <2>4 DEF Operations
  <2>6. k \in Operations
    BY <2>2, <2>5 DEF Operations
  <2>7. /\ k.kind = o.kind /\ k.dev = o.dev /\ k.aborted = o.aborted /\ k.phase = "auth"
        /\ k.conn = 0 /\ k.status = o.status /\ k.cancelable = o.cancelable
    BY <2>2, <2>5 DEF Operations
  <2>8. Advances(o, k)
    BY <2>1, <2>2, <2>6, <2>7 DEF Advances, Sound
  <2> QED
    <3>1. Now(pool, Instead(o, k))
      BY <2>1, <2>4, Zenon
    <3> QED
      BY <2>7, <2>8, <3>1, AdvanceProgress
<1> QED
  BY <1>1, <1>2

LEMMA ResumedGoesOn ==
  ASSUME OpsKept(ops), PoolKept(pool, ops), account \in Accounts, Resumes
  PROVE  Progress
<1>1. PICK o \in ops : o.phase = "waiting" /\ Now(pool, Instead(o, Resumed(o)))
  BY Zenon DEF Resumes, Settled
<1>2. o \in Operations /\ Sound(o)
  BY DEF OpsKept
<1>3. CASE pool.try[o.conn].phase = "open"
  <2>1. Resumed(o) = [o EXCEPT !.phase = "sending"]
    BY <1>3 DEF Resumed
  <2>2. PICK k : k = [o EXCEPT !.phase = "sending"] /\ Advances(o, k) /\ k.conn = o.conn /\ k.owner = o.owner
    BY <1>1, <1>2, PhaseAdvances DEF Sound
  <2> QED
    <3>1. Now(pool, Instead(o, k))
      BY <1>1, <2>1, <2>2, Zenon
    <3> QED
      BY <2>2, <3>1, AdvanceProgress
<1>4. CASE pool.try[o.conn].phase # "open"
  <2>1. PICK phase \in {"sending", "aborting"} : Resumed(o) = [o EXCEPT !.phase = phase, !.conn = 0]
    BY <1>4 DEF Resumed
  <2>2. PICK k : k = [o EXCEPT !.phase = phase, !.conn = 0] /\ Advances(o, k) /\ k.conn = 0
    BY <1>1, <1>2, LeaveAdvances
  <2> QED
    BY <1>1, <2>1, <2>2, AdvanceProgress
<1> QED
  BY <1>3, <1>4

\* What is cancelled hears of it at once or goes on to the end of what it does.
LEMMA CancelledGoesOn ==
  ASSUME OpsKept(ops), PoolKept(pool, ops), account \in Accounts, RequestCancel
  PROVE  Progress
<1>1. PICK o \in ops : IsTask(o) /\ o.status = "running" /\ Now(pool, Instead(o, Aborts(o)))
  BY Zenon DEF RequestCancel
<1>2. o \in Operations /\ Sound(o) /\ o.kind # "terminal"
  BY <1>1 DEF OpsKept, IsTask
<1>3. PICK phase : phase = IF Hears(o) THEN "aborting" ELSE o.phase
  OBVIOUS
<1>4. PICK conn \in {0, o.conn} : conn = IF Hears(o) THEN 0 ELSE o.conn
  OBVIOUS
<1>5. PICK k : k = Aborts(o)
  OBVIOUS
<1>6. k = [o EXCEPT !.aborted = TRUE, !.cancelable = FALSE, !.phase = phase, !.conn = conn]
  BY <1>2, <1>3, <1>4, <1>5 DEF Aborts, Operations
<1>7. phase \in {"auth", "waiting", "sending", "written", "answer", "reading", "aborting", "stuck", "over"}
  BY <1>2, <1>3 DEF Operations
<1>8. k \in Operations
  <2>1. conn \in Attempts \cup {0}
    BY <1>2, <1>4 DEF Operations
  <2> QED
    BY <1>2, <1>6, <1>7, <2>1 DEF Operations
<1>9. /\ k.kind = o.kind /\ k.dev = o.dev /\ k.aborted /\ k.phase = phase
      /\ k.conn = conn /\ k.owner = o.owner /\ k.status = o.status /\ ~k.cancelable
  BY <1>2, <1>6 DEF Operations
<1>10. phase \notin {"waiting", "sending", "written", "reading"} /\ (phase = "over" <=> o.phase = "over")
  BY <1>3 DEF Hears
<1>11. Advances(o, k)
  BY <1>2, <1>8, <1>9, <1>10 DEF Advances, Sound
<1> QED
  BY <1>1, <1>4, <1>5, <1>9, <1>11, AdvanceProgress

---------------------------------------------------------------------------
(* The app view                                                            *)

AppsCalls ==
  [dev : Dev \cup {NoDevice}, phase : {"asked", "aborted", "body"}, latest : BOOLEAN, run : BOOLEAN]

Apps ==
  [tabs : TabSets, mounted : BOOLEAN, loading : BOOLEAN, listed : Dev \cup {NoDevice},
   running : BOOLEAN, info : BOOLEAN, infoLoading : BOOLEAN, list : SUBSET AppsCalls,
   work : [launch : Nat, uninstall : Nat, info : Nat]]

Acting(O) == \E o \in O : o.kind \in {"install", "export"}
Runners(C) == \E c \in C : c.run
Working(work) == work.launch > 0 \/ work.uninstall > 0 \/ work.info > 0

AppsKept(A, O) ==
  /\ A \in Apps /\ TabsKept(A.tabs)
  /\ OneLatest(A.list) /\ A.loading = HasLatest(A.list)
  /\ A.running => Acting(O) \/ Runners(A.list) \/ Working(A.work)
  /\ A.infoLoading => A.work.info > 0

\* What loadApps needs of the view: the rest it makes so.
Loadable(A) == A \in Apps /\ TabsKept(A.tabs) /\ (A.infoLoading => A.work.info > 0)

LEMMA SupersededAppsFacts ==
  ASSUME NEW C, C \subseteq AppsCalls
  PROVE  LET S == SupersededApps(C)
         IN  S \subseteq AppsCalls /\ (\A c \in S : ~c.latest) /\ (Runners(C) => Runners(S))
<1> DEFINE New(c) == [c EXCEPT !.latest = FALSE, !.phase = IF c.phase = "asked" THEN "aborted" ELSE c.phase]
<1>1. ASSUME NEW c \in AppsCalls
      PROVE  New(c) \in AppsCalls /\ ~New(c).latest /\ New(c).run = c.run
  BY DEF AppsCalls
<1>2. \A c \in C : [c EXCEPT !.latest = FALSE, !.phase = IF @ = "asked" THEN "aborted" ELSE @] = New(c)
  BY DEF AppsCalls
<1> HIDE DEF New
<1>3. ASSUME NEW s \in SupersededApps(C) PROVE \E c \in C : s = New(c)
  <2>1. PICK c \in C : s = [c EXCEPT !.latest = FALSE, !.phase = IF @ = "asked" THEN "aborted" ELSE @]
    BY Zenon DEF SupersededApps
  <2> QED
    BY <2>1, <1>2, Zenon
<1>4. ASSUME NEW c \in C, c.run PROVE New(c) \in SupersededApps(C)
  <2>1. c \in {b \in C : b.phase # "asked" \/ b.run}
    BY <1>4
  <2>2. [c EXCEPT !.latest = FALSE, !.phase = IF @ = "asked" THEN "aborted" ELSE @] \in SupersededApps(C)
    BY <2>1, Zenon DEF SupersededApps
  <2> QED
    BY <2>2, <1>2, Zenon
<1> QED
  BY <1>1, <1>3, <1>4 DEF Runners

\* loadApps: an action that waits for it goes on, or is over when there is no tab.
LEMMA LoadAppsFacts ==
  ASSUME NEW A, NEW O, Loadable(A), NEW run \in BOOLEAN,
         A.running => run \/ Acting(O) \/ Runners(A.list) \/ Working(A.work)
  PROVE  AppsKept(LoadApps(A, run), O)
<1>1. A \in Apps /\ TabsKept(A.tabs) /\ (A.infoLoading => A.work.info > 0)
  BY DEF Loadable
<1>2. A.list \subseteq AppsCalls /\ A.running \in BOOLEAN
  BY <1>1 DEF Apps
<1>3. PICK S \in SUBSET AppsCalls : S = SupersededApps(A.list)
  BY <1>2, SupersededAppsFacts
<1>4. (\A c \in S : ~c.latest) /\ (Runners(A.list) => Runners(S))
  BY <1>2, <1>3, SupersededAppsFacts
<1>5. PICK G : G = LoadApps(A, run)
  OBVIOUS
<1>6. CASE A.tabs.active = NoDevice
  <2>1. PICK left \in BOOLEAN : left = (A.running /\ ~run)
    OBVIOUS
  <2>2. G = [A EXCEPT !.listed = NoDevice, !.loading = FALSE, !.list = S, !.running = left]
    BY <1>1, <1>3, <1>5, <1>6, <2>1 DEF LoadApps, Apps
  <2>3. G \in Apps
    BY <1>1, <2>2 DEF Apps
  <2>4. /\ G.tabs = A.tabs /\ G.list = S /\ G.loading = FALSE /\ G.running = left
        /\ G.infoLoading = A.infoLoading /\ G.work = A.work
    BY <1>1, <2>2 DEF Apps
  <2>5. OneLatest(G.list) /\ G.loading = HasLatest(G.list)
    BY <1>4, <2>4 DEF OneLatest, HasLatest
  <2> QED
    BY <1>1, <1>4, <1>5, <2>1, <2>3, <2>4, <2>5 DEF AppsKept
<1>7. CASE A.tabs.active # NoDevice
  <2>1. PICK d \in Dev : d = A.tabs.active
    BY <1>1, <1>7 DEF Apps, TabSets
  <2>2. PICK c \in AppsCalls : c = AppsCall(d, run)
    BY DEF AppsCall, AppsCalls
  <2>3. c.latest = TRUE /\ c.run = run
    BY <2>2 DEF AppsCall
  <2>4. PICK L \in SUBSET AppsCalls : L = S \cup {c}
    OBVIOUS
  <2>5. G = [A EXCEPT !.listed = NoDevice, !.loading = TRUE, !.list = L]
    BY <1>1, <1>3, <1>5, <1>7, <2>1, <2>2, <2>4 DEF LoadApps, Apps
  <2>6. G \in Apps
    BY <1>1, <2>5 DEF Apps
  <2>7. /\ G.tabs = A.tabs /\ G.list = L /\ G.loading = TRUE /\ G.running = A.running
        /\ G.infoLoading = A.infoLoading /\ G.work = A.work
    BY <1>1, <2>5 DEF Apps
  <2>8. OneLatest(G.list) /\ G.loading = HasLatest(G.list)
    <3>1. c \in L /\ c.latest /\ \A e \in L : e.latest => e = c
      BY <1>4, <2>3, <2>4
    <3>2. OneLatest(L) /\ HasLatest(L)
      BY <3>1 DEF OneLatest, HasLatest
    <3> QED
      BY <2>7, <3>2
  <2>9. run \/ Runners(A.list) => Runners(G.list)
    BY <1>4, <2>3, <2>4, <2>7 DEF Runners
  <2> QED
    BY <1>1, <1>5, <2>6, <2>7, <2>8, <2>9 DEF AppsKept
<1> QED
  BY <1>6, <1>7

\* The end of a request.
LEMMA AppsEndsKeeps ==
  ASSUME NEW A, NEW O, AppsKept(A, O), NEW c \in A.list
  PROVE  AppsKept(AppsEnds(A, c), O)
<1>1. A \in Apps /\ A.list \subseteq AppsCalls /\ c \in AppsCalls
  BY DEF AppsKept, Apps
<1>2. PICK C \in SUBSET AppsCalls : C = A.list \ {c}
  BY <1>1
<1>3. PICK spin \in BOOLEAN, left \in BOOLEAN :
        spin = (A.loading /\ ~c.latest) /\ left = (A.running /\ ~c.run)
  OBVIOUS
<1>4. PICK G : G = AppsEnds(A, c)
  OBVIOUS
<1>5. G = [A EXCEPT !.list = C, !.loading = spin, !.running = left]
  BY <1>1, <1>2, <1>3, <1>4 DEF AppsEnds, Apps
<1>6. G \in Apps
  BY <1>1, <1>5 DEF Apps
<1>7. /\ G.tabs = A.tabs /\ G.list = C /\ G.loading = spin /\ G.running = left
      /\ G.infoLoading = A.infoLoading /\ G.work = A.work
  BY <1>1, <1>5 DEF Apps
<1>8. OneLatest(G.list) /\ G.loading = HasLatest(G.list)
  BY <1>2, <1>3, <1>7 DEF AppsKept, OneLatest, HasLatest
<1>9. left => Acting(O) \/ Runners(C) \/ Working(A.work)
  BY <1>2, <1>3 DEF AppsKept, Runners
<1> QED
  BY <1>4, <1>6, <1>7, <1>8, <1>9 DEF AppsKept

LEMMA AppsListKeeps ==
  ASSUME NEW O, AppsKept(apps, O), AppsListSteps
  PROVE  AppsKept(apps', O)
<1>1. CASE AppsHeaders
  <2>1. PICK c \in apps.list : apps' = [apps EXCEPT !.list = (@ \ {c}) \cup {[c EXCEPT !.phase = "body"]}]
    BY <1>1, Zenon DEF AppsHeaders
  <2>2. apps \in Apps /\ apps.list \subseteq AppsCalls /\ c \in AppsCalls
    BY DEF AppsKept, Apps
  <2>3. PICK d \in AppsCalls : d = [c EXCEPT !.phase = "body"]
    BY <2>2 DEF AppsCalls
  <2>4. d.latest = c.latest /\ d.run = c.run
    BY <2>2, <2>3 DEF AppsCalls
  <2>5. PICK C \in SUBSET AppsCalls : C = (apps.list \ {c}) \cup {d}
    BY <2>2
  <2>6. PICK G : G = apps'
    OBVIOUS
  <2>7. G = [apps EXCEPT !.list = C]
    BY <2>1, <2>3, <2>5, <2>6
  <2>8. G \in Apps
    BY <2>2, <2>7 DEF Apps
  <2>9. /\ G.tabs = apps.tabs /\ G.list = C /\ G.loading = apps.loading /\ G.running = apps.running
        /\ G.infoLoading = apps.infoLoading /\ G.work = apps.work
    BY <2>2, <2>7 DEF Apps
  <2>10. OneLatest(C) /\ HasLatest(C) = HasLatest(apps.list) /\ (Runners(apps.list) => Runners(C))
    BY <2>4, <2>5 DEF AppsKept, OneLatest, HasLatest, Runners
  <2> QED
    BY <2>6, <2>8, <2>9, <2>10 DEF AppsKept
<1>2. CASE AppsArrive
  <2>1. PICK c \in apps.list : apps' = AppsEnds([apps EXCEPT !.listed = c.dev], c)
    BY <1>2, Zenon DEF AppsArrive
  <2>2. apps \in Apps /\ c.dev \in Dev \cup {NoDevice}
    BY DEF AppsKept, Apps, AppsCalls
  <2>3. PICK A : A = [apps EXCEPT !.listed = c.dev]
    OBVIOUS
  <2>4. A \in Apps
    BY <2>2, <2>3 DEF Apps
  <2>5. /\ A.tabs = apps.tabs /\ A.list = apps.list /\ A.loading = apps.loading
        /\ A.running = apps.running /\ A.infoLoading = apps.infoLoading /\ A.work = apps.work
    BY <2>2, <2>3 DEF Apps
  <2>6. AppsKept(A, O)
    BY <2>4, <2>5, Zenon DEF AppsKept
  <2> QED
    BY <2>1, <2>3, <2>5, <2>6, AppsEndsKeeps
<1>3. CASE AppsFail
  BY <1>3, AppsEndsKeeps DEF AppsFail
<1> QED
  BY <1>1, <1>2, <1>3 DEF AppsListSteps

Works == [launch : Nat, uninstall : Nat, info : Nat]

\* An action begins, or is over, and its request with it.
LEMMA ActsKeeps ==
  ASSUME NEW A, NEW O, A \in Apps, TabsKept(A.tabs),
         OneLatest(A.list) /\ A.loading = HasLatest(A.list),
         NEW running \in BOOLEAN, NEW work \in Works, NEW info \in BOOLEAN, NEW infoLoading \in BOOLEAN,
         running => Acting(O) \/ Runners(A.list) \/ Working(work),
         infoLoading => work.info > 0
  PROVE  AppsKept([A EXCEPT !.running = running, !.work = work, !.info = info,
                            !.infoLoading = infoLoading], O)
<1>1. PICK G : G = [A EXCEPT !.running = running, !.work = work, !.info = info,
                            !.infoLoading = infoLoading]
  OBVIOUS
<1>2. G \in Apps
  BY <1>1 DEF Apps, Works
<1>3. /\ G.tabs = A.tabs /\ G.list = A.list /\ G.loading = A.loading /\ G.running = running
      /\ G.infoLoading = infoLoading /\ G.work = work
  BY <1>1 DEF Apps
<1>4. TabsKept(G.tabs) /\ OneLatest(G.list) /\ G.loading = HasLatest(G.list)
  BY <1>3, Zenon
<1>5. /\ G.running => Acting(O) \/ Runners(G.list) \/ Working(G.work)
      /\ G.infoLoading => G.work.info > 0
  BY <1>3
<1> QED
  BY <1>1, <1>2, <1>4, <1>5 DEF AppsKept

\* Other tabs.
LEMMA AppsTabsKeep ==
  ASSUME NEW A, NEW O, AppsKept(A, O), NEW T, TabsKept(T), NEW mounted \in BOOLEAN
  PROVE  AppsKept([A EXCEPT !.tabs = T, !.mounted = mounted], O)
<1>1. PICK G : G = [A EXCEPT !.tabs = T, !.mounted = mounted]
  OBVIOUS
<1>2. A \in Apps /\ T \in TabSets
  BY DEF AppsKept, TabsKept
<1>3. G \in Apps
  BY <1>1, <1>2 DEF Apps
<1>4. /\ G.tabs = T /\ G.list = A.list /\ G.loading = A.loading /\ G.running = A.running
      /\ G.infoLoading = A.infoLoading /\ G.work = A.work
  BY <1>1, <1>2 DEF Apps
<1> QED
  BY <1>1, <1>3, <1>4, Zenon DEF AppsKept

LEMMA LoadAppsKeeps ==
  ASSUME NEW A, NEW O, AppsKept(A, O)
  PROVE  AppsKept(LoadApps(A, FALSE), O)
<1>1. Loadable(A) /\ (A.running => Acting(O) \/ Runners(A.list) \/ Working(A.work))
  BY DEF AppsKept, Loadable
<1> QED
  BY <1>1, LoadAppsFacts

\* The tabs of the view, when it is shown and while it is.
LEMMA AppsTabStepsKeep ==
  ASSUME NEW O, AppsKept(apps, O),
         \/ \E d \in Dev \cup {NoDevice} : AppsShown(d)
         \/ AppsActivateTab \/ AppsCloseTab \/ RefreshApps
  PROVE  AppsKept(apps', O)
<1>0. apps \in Apps /\ TabsKept(apps.tabs)
  BY DEF AppsKept
<1>1. TabDevices(apps.tabs) \subseteq Dev
  BY <1>0 DEF TabsKept, TabSets, TabDevices, ToSet
<1>2. ASSUME NEW T, TabsKept(T), NEW mounted \in BOOLEAN, NEW A,
             A = [apps EXCEPT !.tabs = T, !.mounted = mounted]
      PROVE  AppsKept(A, O) /\ AppsKept(LoadApps(A, FALSE), O)
  BY <1>2, AppsTabsKeep, LoadAppsKeeps
<1>3. ASSUME NEW T, TabsKept(T)
      PROVE  AppsKept([apps EXCEPT !.tabs = T], O) /\ AppsKept(LoadApps([apps EXCEPT !.tabs = T], FALSE), O)
  <2>1. [apps EXCEPT !.tabs = T] = [apps EXCEPT !.tabs = T, !.mounted = apps.mounted] /\ apps.mounted \in BOOLEAN
    BY <1>0 DEF Apps
  <2> QED
    BY <1>2, <1>3, <2>1
<1>4. CASE \E d \in Dev \cup {NoDevice} : AppsShown(d)
  <2>1. PICK d \in Dev \cup {NoDevice} : AppsShown(d)
    BY <1>4
  <2>2. PICK A : A = [apps EXCEPT !.mounted = TRUE]
    OBVIOUS
  <2>3. A = [apps EXCEPT !.tabs = apps.tabs, !.mounted = TRUE] /\ A.tabs = apps.tabs
    BY <1>0, <2>2 DEF Apps
  <2>4. AppsKept(LoadApps(A, FALSE), O)
    BY <1>0, <1>2, <2>3
  <2>5. CASE d # NoDevice
    <3>1. PICK T : T = TabOpened(apps.tabs, d) /\ TabsKept(T)
      BY <1>0, <2>5, OpenedKept
    <3>2. apps' = LoadApps([A EXCEPT !.tabs = T], FALSE)
      BY <2>1, <2>2, <2>3, <2>5, <3>1 DEF AppsShown, AppsOpenTab
    <3>3. [A EXCEPT !.tabs = T] = [apps EXCEPT !.tabs = T, !.mounted = TRUE]
      BY <1>0, <2>2 DEF Apps
    <3>4. AppsKept(LoadApps([apps EXCEPT !.tabs = T, !.mounted = TRUE], FALSE), O)
      BY <1>2, <3>1
    <3> QED
      BY <3>2, <3>3, <3>4
  <2>6. CASE d = NoDevice
    <3>1. apps' = IF apps.mounted THEN apps ELSE LoadApps(A, FALSE)
      BY <2>1, <2>2, <2>6 DEF AppsShown
    <3> QED
      BY <2>4, <3>1
  <2> QED
    BY <2>5, <2>6
<1>5. CASE AppsActivateTab
  <2>1. PICK d \in TabDevices(apps.tabs) : apps' = LoadApps([apps EXCEPT !.tabs = TabActivated(@, d)], FALSE)
    BY <1>5, Zenon DEF AppsActivateTab
  <2>2. PICK T : T = TabActivated(apps.tabs, d) /\ TabsKept(T)
    BY <1>0, ActivatedKept
  <2>3. apps' = LoadApps([apps EXCEPT !.tabs = T], FALSE)
    BY <2>1, <2>2
  <2> QED
    BY <1>3, <2>2, <2>3
<1>6. CASE AppsCloseTab
  <2>1. PICK d \in TabDevices(apps.tabs) :
          apps' \in {LoadApps([apps EXCEPT !.tabs = TabClosed(@, d)], FALSE),
                     [apps EXCEPT !.tabs = TabClosed(@, d)]}
    BY <1>6 DEF AppsCloseTab
  <2>2. PICK T : T = TabClosed(apps.tabs, d) /\ TabsKept(T)
    BY <1>0, ClosedKept
  <2>3. apps' \in {LoadApps([apps EXCEPT !.tabs = T], FALSE), [apps EXCEPT !.tabs = T]}
    BY <2>1, <2>2
  <2> QED
    BY <1>3, <2>2, <2>3
<1>7. CASE RefreshApps
  BY <1>7, LoadAppsKeeps DEF RefreshApps
<1> QED
  BY <1>4, <1>5, <1>6, <1>7

\* An action is over: none counts as running, whatever else goes on.
LEMMA RanKeeps ==
  ASSUME NEW A, A \in Apps, TabsKept(A.tabs), OneLatest(A.list), A.loading = HasLatest(A.list),
         A.infoLoading => A.work.info > 0, NEW O, NEW ok
  PROVE  AppsKept(Ran(A, ok), O)
<1>1. /\ A.work \in Works /\ A.info \in BOOLEAN /\ A.infoLoading \in BOOLEAN
  BY DEF Apps, Works
<1>2. PICK G : G = [A EXCEPT !.running = FALSE, !.work = A.work, !.info = A.info,
                            !.infoLoading = A.infoLoading]
  OBVIOUS
<1>3. Ran(A, ok) = G
  BY <1>2 DEF Ran, Apps
<1>4. AppsKept(G, O)
  BY <1>1, <1>2, ActsKeeps
<1> QED
  BY <1>3, <1>4

\* A request for an app is made: the action runs.
LEMMA AppsRequestsKeep ==
  ASSUME NEW O, AppsKept(apps, O), LaunchApp \/ UninstallApp \/ OpenAppInfo \/ CloseAppInfo
  PROVE  AppsKept(apps', O)
<1>1. /\ apps \in Apps /\ TabsKept(apps.tabs)
      /\ OneLatest(apps.list) /\ apps.loading = HasLatest(apps.list)
      /\ apps.running => Acting(O) \/ Runners(apps.list) \/ Working(apps.work)
      /\ apps.infoLoading => apps.work.info > 0
  BY DEF AppsKept
<1>2. PICK W \in Works : W = apps.work
  BY <1>1 DEF Apps, Works
<1>3. W.launch \in Nat /\ W.uninstall \in Nat /\ W.info \in Nat
  BY DEF Works
<1>4. apps.info \in BOOLEAN /\ apps.infoLoading \in BOOLEAN /\ apps.running \in BOOLEAN
  BY <1>1 DEF Apps
<1>5. ASSUME NEW running \in BOOLEAN, NEW work \in Works, NEW info \in BOOLEAN, NEW infoLoading \in BOOLEAN,
             running => Acting(O) \/ Runners(apps.list) \/ Working(work),
             infoLoading => work.info > 0,
             apps' = [apps EXCEPT !.running = running, !.work = work, !.info = info,
                                  !.infoLoading = infoLoading]
      PROVE  AppsKept(apps', O)
  BY <1>1, <1>5, ActsKeeps
<1>6. CASE LaunchApp
  <2>0. PICK n \in Nat : n = W.launch + 1
    BY <1>3 DEF Works
  <2>1. PICK work \in Works : work = [W EXCEPT !.launch = @ + 1] /\ work = [W EXCEPT !.launch = n]
    BY <1>3, <2>0 DEF Works
  <2>2. work.launch > 0 /\ work.info = W.info
    BY <1>3, <2>1 DEF Works
  <2>3. apps' = [[apps EXCEPT !.running = TRUE] EXCEPT !.work = work]
    BY <1>1, <1>2, <1>6, <2>1 DEF LaunchApp, Runs, Apps
  <2>4. apps' = [apps EXCEPT !.running = TRUE, !.work = work, !.info = apps.info,
                             !.infoLoading = apps.infoLoading]
    BY <1>1, <2>3 DEF Apps
  <2> QED
    BY <1>1, <1>2, <1>4, <1>5, <2>2, <2>4 DEF Working
<1>7. CASE UninstallApp
  <2>0. PICK n \in Nat : n = W.uninstall + 1
    BY <1>3 DEF Works
  <2>1. PICK work \in Works : work = [W EXCEPT !.uninstall = @ + 1] /\ work = [W EXCEPT !.uninstall = n]
    BY <1>3, <2>0 DEF Works
  <2>2. work.uninstall > 0 /\ work.info = W.info
    BY <1>3, <2>1 DEF Works
  <2>3. apps' = [[apps EXCEPT !.running = TRUE] EXCEPT !.work = work]
    BY <1>1, <1>2, <1>7, <2>1 DEF UninstallApp, Runs, Apps
  <2>4. apps' = [apps EXCEPT !.running = TRUE, !.work = work, !.info = apps.info,
                             !.infoLoading = apps.infoLoading]
    BY <1>1, <2>3 DEF Apps
  <2> QED
    BY <1>1, <1>2, <1>4, <1>5, <2>2, <2>4 DEF Working
<1>8. CASE OpenAppInfo
  <2>0. PICK n \in Nat : n = W.info + 1
    BY <1>3 DEF Works
  <2>1. PICK work \in Works : work = [W EXCEPT !.info = @ + 1] /\ work = [W EXCEPT !.info = n]
    BY <1>3, <2>0 DEF Works
  <2>2. work.info > 0
    BY <1>3, <2>1 DEF Works
  <2>3. apps' = [[apps EXCEPT !.running = TRUE] EXCEPT !.info = TRUE, !.infoLoading = TRUE, !.work = work]
    BY <1>1, <1>2, <1>8, <2>1 DEF OpenAppInfo, Runs, Apps
  <2>4. apps' = [apps EXCEPT !.running = TRUE, !.work = work, !.info = TRUE, !.infoLoading = TRUE]
    BY <1>1, <2>3 DEF Apps
  <2> QED
    BY <1>5, <2>2, <2>4 DEF Working
<1>9. CASE CloseAppInfo
  <2>1. apps' = [apps EXCEPT !.info = FALSE]
    BY <1>9 DEF CloseAppInfo
  <2>2. apps' = [apps EXCEPT !.running = apps.running, !.work = W, !.info = FALSE,
                             !.infoLoading = apps.infoLoading]
    BY <1>1, <1>2, <2>1 DEF Apps
  <2> QED
    BY <1>1, <1>2, <1>4, <1>5, <2>2
<1> QED
  BY <1>6, <1>7, <1>8, <1>9

\* The end of a request for an app: the flag of the actions, which they share, is taken
\* back, or waits for the list that is loaded.
LEMMA AppsWorkedKeeps ==
  ASSUME NEW O, AppsKept(apps, O), AppsWorked
  PROVE  AppsKept(apps', O)
<1>1. /\ apps \in Apps /\ TabsKept(apps.tabs)
      /\ OneLatest(apps.list) /\ apps.loading = HasLatest(apps.list)
      /\ apps.infoLoading => apps.work.info > 0
  BY DEF AppsKept
<1>2. PICK W \in Works : W = apps.work
  BY <1>1 DEF Apps, Works
<1>3. W.launch \in Nat /\ W.uninstall \in Nat /\ W.info \in Nat
  BY DEF Works
<1>4. apps.info \in BOOLEAN /\ apps.infoLoading \in BOOLEAN
  BY <1>1 DEF Apps
<1>5. ASSUME NEW work \in Works, NEW info \in BOOLEAN, NEW infoLoading \in BOOLEAN,
             infoLoading => work.info > 0,
             apps' = [apps EXCEPT !.running = FALSE, !.work = work, !.info = info,
                                  !.infoLoading = infoLoading]
      PROVE  AppsKept(apps', O)
  BY <1>1, <1>5, ActsKeeps
<1>6. CASE AppLaunched
  <2>0. PICK n \in Nat : n = W.launch - 1
    BY <1>2, <1>3, <1>6 DEF AppLaunched
  <2>1. PICK work \in Works : work = [W EXCEPT !.launch = @ - 1] /\ work = [W EXCEPT !.launch = n]
    BY <1>3, <2>0 DEF Works
  <2>2. work.info = W.info
    BY <2>1 DEF Works
  <2>3. apps' = [[apps EXCEPT !.running = FALSE] EXCEPT !.work = work]
    BY <1>1, <1>2, <1>6, <2>1 DEF AppLaunched, Ran, Apps
  <2>4. apps' = [apps EXCEPT !.running = FALSE, !.work = work, !.info = apps.info,
                             !.infoLoading = apps.infoLoading]
    BY <1>1, <2>3 DEF Apps
  <2> QED
    BY <1>1, <1>2, <1>4, <1>5, <2>2, <2>4
<1>7. CASE AppUninstalled
  <2>0. PICK n \in Nat : n = W.uninstall - 1
    BY <1>2, <1>3, <1>7 DEF Works, AppUninstalled
  <2>1. PICK work \in Works : work = [W EXCEPT !.uninstall = @ - 1] /\ work = [W EXCEPT !.uninstall = n]
    BY <1>3, <2>0 DEF Works
  <2>2. work.info = W.info
    BY <2>1 DEF Works
  <2>3. PICK A : A = [apps EXCEPT !.work = work]
    OBVIOUS
  <2>4. apps' \in {Ran(A, FALSE), LoadApps(A, TRUE)}
    <3>1. A = [apps EXCEPT !.work.uninstall = @ - 1]
      BY <1>1, <1>2, <2>1, <2>3 DEF Apps
    <3> QED
      BY <1>7, <3>1 DEF AppUninstalled
  <2>5. A \in Apps
    BY <1>1, <2>3 DEF Apps, Works
  <2>6. /\ A.tabs = apps.tabs /\ A.list = apps.list /\ A.loading = apps.loading
        /\ A.infoLoading = apps.infoLoading /\ A.work = work
    BY <1>1, <2>3 DEF Apps
  <2>7. A.infoLoading => A.work.info > 0
    BY <1>1, <1>2, <2>2, <2>6
  <2>8. TabsKept(A.tabs) /\ OneLatest(A.list) /\ A.loading = HasLatest(A.list)
    BY <1>1, <2>6, Zenon
  <2>9. AppsKept(Ran(A, FALSE), O)
    BY <2>5, <2>7, <2>8, RanKeeps
  <2>10. AppsKept(LoadApps(A, TRUE), O)
    BY <2>5, <2>7, <2>8, LoadAppsFacts DEF Loadable
  <2> QED
    BY <2>4, <2>9, <2>10
<1>8. ASSUME InfoArrives \/ InfoFails PROVE AppsKept(apps', O)
  <2>0. PICK n \in Nat : n = W.info - 1
    BY <1>2, <1>3, <1>8 DEF Works, InfoArrives, InfoFails
  <2>1. PICK work \in Works : work = [W EXCEPT !.info = @ - 1] /\ work = [W EXCEPT !.info = n]
    BY <1>3, <2>0 DEF Works
  <2>2. PICK info \in BOOLEAN : info = IF InfoArrives THEN TRUE ELSE apps.info
    BY <1>4
  <2>3. apps' = [[apps EXCEPT !.running = FALSE] EXCEPT !.work = work, !.info = info, !.infoLoading = FALSE]
    <3>1. CASE InfoArrives
      BY <1>1, <1>2, <2>1, <2>2, <3>1 DEF InfoArrives, Ran, Apps
    <3>2. CASE ~InfoArrives
      <4>1. info = apps.info /\ InfoFails
        BY <1>8, <2>2, <3>2
      <4> QED
        BY <1>1, <1>2, <2>1, <4>1 DEF InfoFails, Ran, Apps
    <3> QED
      BY <3>1, <3>2
  <2>4. apps' = [apps EXCEPT !.running = FALSE, !.work = work, !.info = info, !.infoLoading = FALSE]
    BY <1>1, <2>3 DEF Apps
  <2> QED
    BY <1>5, <2>4
<1> QED
  BY <1>6, <1>7, <1>8 DEF AppsWorked

\* A transfer of the view begins: an action runs while it does.
LEMMA AppTransferStarts ==
  ASSUME NEW O, AppsKept(apps, O), NEW O2, Acting(O2), apps' = Runs(apps)
  PROVE  AppsKept(apps', O2)
<1>1. /\ apps \in Apps /\ TabsKept(apps.tabs)
      /\ OneLatest(apps.list) /\ apps.loading = HasLatest(apps.list)
      /\ apps.infoLoading => apps.work.info > 0
  BY DEF AppsKept
<1>2. apps.work \in Works /\ apps.info \in BOOLEAN /\ apps.infoLoading \in BOOLEAN
  BY <1>1 DEF Apps, Works
<1>3. apps' = [apps EXCEPT !.running = TRUE, !.work = apps.work, !.info = apps.info,
                           !.infoLoading = apps.infoLoading]
  BY <1>1 DEF Runs, Apps
<1>4. PICK running \in BOOLEAN : running
  OBVIOUS
<1>5. AppsKept([apps EXCEPT !.running = running, !.work = apps.work, !.info = apps.info,
                           !.infoLoading = apps.infoLoading], O2)
  BY <1>1, <1>2, ActsKeeps
<1>6. running = TRUE
  BY <1>4
<1> QED
  BY <1>3, <1>5, <1>6

\* A transfer of the view ends, and takes back the flag that the actions share.
LEMMA AppTransferEnds ==
  ASSUME NEW O, AppsKept(apps, O), NEW O2,
         NEW S, InstallEnds(S) \/ DownloadAppEnds(S)
  PROVE  AppsKept(apps', O2)
<1>1. \E ok : apps' \in {Ran(apps, ok), LoadApps(Ran(apps, TRUE), FALSE)}
  <2>1. ASSUME InstallEnds(S) PROVE apps' \in {Ran(apps, FALSE), LoadApps(Ran(apps, TRUE), FALSE)}
    BY <2>1 DEF InstallEnds
  <2>2. ASSUME DownloadAppEnds(S) PROVE \E ok : apps' = Ran(apps, ok)
    BY <2>2, Zenon DEF DownloadAppEnds
  <2> QED
    BY <2>1, <2>2
<1>2. ASSUME NEW ok PROVE AppsKept(Ran(apps, ok), O2)
  BY RanKeeps DEF AppsKept
<1>3. AppsKept(LoadApps(Ran(apps, TRUE), FALSE), O2)
  BY <1>2, LoadAppsKeeps
<1> QED
  BY <1>1, <1>2, <1>3

\* The operations change; those that the flag counts stay.
LEMMA AppsOpsKeep ==
  ASSUME NEW A, NEW O, AppsKept(A, O), NEW O2, Acting(O) => Acting(O2)
  PROVE  AppsKept(A, O2)
BY DEF AppsKept

---------------------------------------------------------------------------
(* The steps of the file view                                              *)

\* The tabs of the view, when it is shown and while it is.
LEMMA FilesTabStepsKeep ==
  ASSUME NEW O, FilesKept(files, O),
         \/ \E d \in Dev \cup {NoDevice} : FilesShown(d)
         \/ FilesActivateTab \/ FilesCloseTab \/ NavigateToPath \/ RefreshFiles
  PROVE  FilesKept(files', O)
<1>0. files \in Files /\ TabsKept(files.tabs)
  BY DEF FilesKept, Listing
<1>1. files.path \in [Dev -> Paths] /\ Root \in Paths
  BY <1>0, FileManagerAssumption DEF Files
<1>2. TabDevices(files.tabs) \subseteq Dev /\ files.tabs.active \in Dev \cup {NoDevice}
  BY <1>0 DEF TabsKept, TabSets, TabDevices, ToSet
<1>3. ASSUME NEW F, FilesKept(F, O)
      PROVE  FilesKept(LoadFiles(F, FALSE), O)
  BY <1>3, LoadFilesKeeps DEF FilesKept
<1>4. ASSUME NEW T, TabsKept(T), NEW path \in [Dev -> Paths], NEW F,
             F = [files EXCEPT !.tabs = T, !.path = path]
      PROVE  FilesKept(F, O) /\ FilesKept(LoadFiles(F, FALSE), O)
  BY <1>3, <1>4, RetabKeeps
<1>5. CASE \E d \in Dev \cup {NoDevice} : FilesShown(d)
  <2>1. PICK d \in Dev \cup {NoDevice} : FilesShown(d)
    BY <1>5
  <2>2. CASE d # NoDevice
    <3>1. PICK T : T = TabOpened(files.tabs, d) /\ TabsKept(T)
      BY <1>0, <2>2, OpenedKept
    <3>2. PICK path \in [Dev -> Paths] : path = [files.path EXCEPT ![d] = Root]
      BY <1>1
    <3>3. PICK F : F = [files EXCEPT !.tabs = T, !.path = path]
      OBVIOUS
    <3>4. F = [files EXCEPT !.tabs = TabOpened(@, d), !.path[d] = Root]
      BY <1>0, <3>1, <3>2, <3>3 DEF Files
    <3>5. files' = LoadFiles(F, FALSE)
      BY <2>1, <2>2, <3>4 DEF FilesShown, FilesOpenTab
    <3> QED
      BY <1>4, <3>1, <3>3, <3>5
  <2>3. CASE d = NoDevice
    BY <1>3, <2>1, <2>3 DEF FilesShown
  <2> QED
    BY <2>2, <2>3
<1>6. CASE FilesActivateTab
  <2>1. PICK d \in TabDevices(files.tabs) : files' = LoadFiles([files EXCEPT !.tabs = TabActivated(@, d)], FALSE)
    BY <1>6, Zenon DEF FilesActivateTab
  <2>2. PICK T : T = TabActivated(files.tabs, d) /\ TabsKept(T)
    BY <1>0, ActivatedKept
  <2>3. PICK F : F = [files EXCEPT !.tabs = T, !.path = files.path]
    OBVIOUS
  <2>4. F = [files EXCEPT !.tabs = TabActivated(@, d)]
    BY <1>0, <2>2, <2>3 DEF Files
  <2> QED
    BY <1>1, <1>4, <2>1, <2>2, <2>3, <2>4
<1>7. CASE FilesCloseTab
  <2>1. PICK d \in TabDevices(files.tabs) :
          files' \in {LoadFiles([files EXCEPT !.tabs = TabClosed(@, d), !.path[d] = Root], FALSE),
                      [files EXCEPT !.tabs = TabClosed(@, d), !.path[d] = Root]}
    BY <1>7 DEF FilesCloseTab
  <2>2. PICK T : T = TabClosed(files.tabs, d) /\ TabsKept(T)
    BY <1>0, ClosedKept
  <2>3. PICK path \in [Dev -> Paths] : path = [files.path EXCEPT ![d] = Root]
    BY <1>1
  <2>4. PICK F : F = [files EXCEPT !.tabs = T, !.path = path]
    OBVIOUS
  <2>5. F = [files EXCEPT !.tabs = TabClosed(@, d), !.path[d] = Root]
    BY <1>0, <2>2, <2>3, <2>4 DEF Files
  <2>6. files' \in {LoadFiles(F, FALSE), F}
    BY <2>1, <2>5
  <2>7. FilesKept(F, O) /\ FilesKept(LoadFiles(F, FALSE), O)
    BY <1>4, <2>2, <2>4
  <2> QED
    BY <2>6, <2>7
<1>8. CASE NavigateToPath
  <2>1. PICK p \in Paths : files' = LoadFiles([files EXCEPT !.path[files.tabs.active] = p], FALSE)
    BY <1>8, Zenon DEF NavigateToPath
  <2>2. PICK path \in [Dev -> Paths] : path = [files.path EXCEPT ![files.tabs.active] = p]
    BY <1>1
  <2>3. PICK F : F = [files EXCEPT !.tabs = files.tabs, !.path = path]
    OBVIOUS
  <2>4. F = [files EXCEPT !.path[files.tabs.active] = p]
    BY <1>0, <2>2, <2>3 DEF Files
  <2> QED
    BY <1>0, <1>4, <2>1, <2>3, <2>4
<1>9. CASE RefreshFiles
  BY <1>3, <1>9 DEF RefreshFiles
<1> QED
  BY <1>5, <1>6, <1>7, <1>8, <1>9

LEMMA WorkKeeps ==
  ASSUME NEW F, NEW O, FilesKept(F, O), NEW work \in Nat
  PROVE  FilesKept([F EXCEPT !.work = work], O)
<1>1. PICK G : G = [F EXCEPT !.work = work]
  OBVIOUS
<1>2. F \in Files
  BY DEF FilesKept, Listing
<1>3. G \in Files
  BY <1>1, <1>2 DEF Files
<1>4. /\ G.tabs = F.tabs /\ G.entries = F.entries /\ G.loaded = F.loaded /\ G.list = F.list
      /\ G.loading = F.loading /\ G.uploading = F.uploading
  BY <1>1, <1>2 DEF Files
<1>5. Listing(G) /\ Spins(G) /\ UploadsAgree(G, O)
  BY <1>3, <1>4, Zenon DEF FilesKept, Listing, Spins, UploadsAgree
<1> QED
  BY <1>1, <1>5 DEF FilesKept

LEMMA FileWorkKeeps ==
  ASSUME NEW O, FilesKept(files, O), FileWork \/ FileWorked
  PROVE  FilesKept(files', O)
<1>1. files \in Files /\ files.work \in Nat
  BY DEF FilesKept, Listing, Files
<1>2. CASE FileWork
  <2>1. PICK work \in Nat : work = files.work + 1
    BY <1>1
  <2>2. files' = [files EXCEPT !.work = work]
    BY <1>2, <2>1 DEF FileWork
  <2> QED
    BY <2>2, WorkKeeps
<1>3. CASE FileWorked
  <2>1. PICK work \in Nat : work = files.work - 1
    BY <1>1, <1>3 DEF FileWorked
  <2>2. PICK F : F = [files EXCEPT !.work = work]
    OBVIOUS
  <2>3. files' \in {F, LoadFiles(F, FALSE)}
    BY <1>3, <2>1, <2>2 DEF FileWorked
  <2>4. FilesKept(F, O)
    BY <2>2, WorkKeeps
  <2>5. FilesKept(LoadFiles(F, FALSE), O)
    BY <2>4, LoadFilesKeeps DEF FilesKept
  <2> QED
    BY <2>3, <2>4, <2>5
<1> QED
  BY <1>2, <1>3

LEMMA UploadingKeeps ==
  ASSUME NEW F, Listing(F), Spins(F), NEW O, OneUpload(O), OneLists(F.list), ~(HasUpload(O) /\ Lists(F.list)),
         NEW up \in BOOLEAN, up = (HasUpload(O) \/ Lists(F.list))
  PROVE  FilesKept([F EXCEPT !.uploading = up], O)
<1>1. PICK G : G = [F EXCEPT !.uploading = up]
  OBVIOUS
<1>2. F \in Files
  BY DEF Listing
<1>3. G \in Files
  BY <1>1, <1>2 DEF Files
<1>4. /\ G.tabs = F.tabs /\ G.entries = F.entries /\ G.loaded = F.loaded /\ G.list = F.list
      /\ G.loading = F.loading /\ G.uploading = up
  BY <1>1, <1>2 DEF Files
<1>5. Listing(G) /\ Spins(G) /\ UploadsAgree(G, O)
  BY <1>3, <1>4, Zenon DEF Listing, Spins, UploadsAgree
<1> QED
  BY <1>1, <1>5 DEF FilesKept

\* An upload begins: there is none, nor a listing that one waits for.
LEMMA UploadStarts ==
  ASSUME FilesKept(files, ops), NEW k, k.kind = "upload", ~files.uploading,
         files' = [files EXCEPT !.uploading = TRUE]
  PROVE  FilesKept(files', ops \cup {k})
<1>1. ~HasUpload(ops) /\ ~Lists(files.list) /\ OneLists(files.list) /\ Listing(files) /\ Spins(files)
  BY DEF FilesKept, UploadsAgree
<1>2. PICK O : O = ops \cup {k}
  OBVIOUS
<1>3. HasUpload(O) /\ OneUpload(O)
  BY <1>1, <1>2 DEF HasUpload, OneUpload
<1>4. PICK up \in BOOLEAN : up = TRUE
  OBVIOUS
<1>5. FilesKept([files EXCEPT !.uploading = up], O)
  BY <1>1, <1>3, <1>4, UploadingKeeps
<1> QED
  BY <1>2, <1>4, <1>5

\* An upload ends; after a success it counts as going on while the listing does.
LEMMA UploadEndsKeeps ==
  ASSUME FilesKept(files, ops), NEW S, UploadEnds(S)
  PROVE  FilesKept(files', ops')
<1>1. PICK o \in ops, status \in S :
        /\ o.kind = "upload" /\ TransferEnds(o, status)
        /\ files' = IF status = "completed" THEN LoadFiles(files, TRUE)
                    ELSE [files EXCEPT !.uploading = FALSE]
  BY Zenon DEF UploadEnds
<1>2. ops' = (ops \ {o}) \cup {Finished(status)} /\ Finished(status).kind = "ended"
  BY <1>1 DEF TransferEnds, Now, Instead, Finished
<1>3. /\ OneUpload(ops) /\ HasUpload(ops) /\ ~Lists(files.list) /\ OneLists(files.list)
      /\ Listing(files) /\ Spins(files) /\ files.uploading = TRUE
  BY <1>1 DEF FilesKept, UploadsAgree, HasUpload
<1>4. ~HasUpload(ops') /\ OneUpload(ops')
  BY <1>1, <1>2, <1>3 DEF HasUpload, OneUpload
<1>5. CASE status = "completed"
  <2>1. PICK upload \in BOOLEAN : upload = TRUE
    OBVIOUS
  <2>2. PICK G : G = LoadFiles(files, upload)
    OBVIOUS
  <2>3. /\ Listing(G) /\ Spins(G) /\ OneLists(G.list)
        /\ IF files.tabs.active = NoDevice THEN ~Lists(G.list) /\ G.uploading = FALSE
           ELSE Lists(G.list) /\ G.uploading = TRUE
    BY <1>3, <2>1, <2>2, LoadFilesFacts
  <2>4. UploadsAgree(G, ops')
    BY <1>4, <2>3 DEF UploadsAgree
  <2> QED
    BY <1>1, <1>5, <2>1, <2>2, <2>3, <2>4 DEF FilesKept
<1>6. CASE status # "completed"
  <2>1. PICK up \in BOOLEAN : up = FALSE
    OBVIOUS
  <2>2. FilesKept([files EXCEPT !.uploading = up], ops')
    BY <1>3, <1>4, <2>1, UploadingKeeps
  <2> QED
    BY <1>1, <1>6, <2>1, <2>2
<1> QED
  BY <1>5, <1>6

---------------------------------------------------------------------------
(* The views and the operations of the others                              *)

\* The uploads stay as they are.
LEMMA UploadsSame ==
  ASSUME NEW F, NEW O, FilesKept(F, O), NEW O2,
         \A k : k.kind = "upload" => (k \in O <=> k \in O2)
  PROVE  FilesKept(F, O2)
<1>1. (HasUpload(O2) <=> HasUpload(O)) /\ (OneUpload(O) => OneUpload(O2))
  BY DEF HasUpload, OneUpload
<1>2. UploadsAgree(F, O2)
  BY <1>1 DEF FilesKept, UploadsAgree
<1> QED
  BY <1>2 DEF FilesKept

\* An operation goes on: what a flag counts goes on being counted.
LEMMA ViewsAdvance ==
  ASSUME NEW F, FilesKept(F, ops), NEW A, AppsKept(A, ops), Advancing
  PROVE  FilesKept(F, ops') /\ AppsKept(A, ops')
<1>1. PICK o \in ops : \E x : Advances(o, x) /\ ops' = Instead(o, x)
  BY DEF Advancing
<1>2. PICK k : Advances(o, k) /\ ops' = Instead(o, k)
  BY <1>1
<1>3. k.kind = o.kind /\ ops' = (ops \ {o}) \cup {k}
  BY <1>2 DEF Advances, Instead
<1>4. (HasUpload(ops') <=> HasUpload(ops)) /\ (OneUpload(ops) => OneUpload(ops'))
  BY <1>3 DEF HasUpload, OneUpload
<1>5. UploadsAgree(F, ops')
  BY <1>4 DEF FilesKept, UploadsAgree
<1>6. Acting(ops) => Acting(ops')
  BY <1>3 DEF Acting
<1> QED
  BY <1>5, <1>6, AppsOpsKeep DEF FilesKept

---------------------------------------------------------------------------
(* The steps of the connections, and the list of tasks                     *)

Shared == OpsKept(ops') /\ PoolKept(pool', ops')

LEMMA ConnectionsKeep ==
  ASSUME OpsKept(ops), PoolKept(pool, ops),
         \/ AttemptOpens \/ AttemptFails
         \/ UnavailableEnds \/ ConnectionFalters \/ ConnectionEnds
  PROVE  Shared /\ ops' = ops
<1>0. ops \subseteq Operations
  BY DEF OpsKept
<1>1. ASSUME NEW n \in Attempts, pool.try[n].phase # "none",
             NEW phase \in {"asked", "open", "down", "unavailable", "closed", "dropped"},
             Connected(phase) => IsEntry(pool, n),
             Now([pool EXCEPT !.try[n].phase = phase], ops)
      PROVE  Shared /\ ops' = ops
  <2>1. PICK P : P = [pool EXCEPT !.try[n].phase = phase]
    OBVIOUS
  <2>2. PoolKept(P, ops)
    BY <1>0, <1>1, <2>1, PhaseKeeps
  <2>3. Now(P, ops)
    BY <1>1, <2>1
  <2> QED
    BY <1>0, <2>2, <2>3, NowKeeps DEF Shared, Now
<1>2. CASE AttemptOpens
  <2>1. PICK n \in Attempts : pool.try[n].phase = "asked" /\ Now(Established(pool, n), ops)
    BY <1>2, Zenon DEF AttemptOpens
  <2>2. PICK phase \in {"open", "dropped"} : phase = IF IsEntry(pool, n) THEN "open" ELSE "dropped"
    OBVIOUS
  <2>3. Now([pool EXCEPT !.try[n].phase = phase], ops)
    BY <2>1, <2>2, Zenon DEF Established
  <2>4. Connected(phase) => IsEntry(pool, n)
    BY <2>2 DEF Connected
  <2> QED
    BY <1>1, <2>1, <2>2, <2>3, <2>4
<1>3. CASE AttemptFails
  <2>1. PICK n \in Attempts :
          /\ pool.try[n].phase = "asked"
          /\ Now([pool EXCEPT !.try[n].phase = IF IsEntry(pool, n) THEN "unavailable" ELSE "dropped"], ops)
    BY <1>3, Zenon DEF AttemptFails
  <2>2. PICK phase \in {"unavailable", "dropped"} :
          phase = IF IsEntry(pool, n) THEN "unavailable" ELSE "dropped"
    OBVIOUS
  <2>3. Now([pool EXCEPT !.try[n].phase = phase], ops)
    BY <2>1, <2>2, Zenon
  <2>4. ~Connected(phase)
    BY <2>2 DEF Connected
  <2> QED
    BY <1>1, <2>1, <2>2, <2>3, <2>4
<1>4. CASE UnavailableEnds
  <2>1. PICK n \in Attempts : pool.try[n].phase = "unavailable"
                              /\ Now([pool EXCEPT !.try[n].phase = "closed"], ops)
    BY <1>4, Zenon DEF UnavailableEnds
  <2> QED
    BY <1>1, <2>1 DEF Connected
<1>5. CASE ConnectionFalters
  <2>1. PICK n \in Attempts, to \in {"open", "down"} :
          Connected(pool.try[n].phase) /\ Now([pool EXCEPT !.try[n].phase = to], ops)
    BY <1>5, Zenon DEF ConnectionFalters
  <2>2. IsEntry(pool, n) /\ pool.try[n].phase # "none"
    BY <2>1 DEF PoolKept, UpIsEntry, Connected
  <2> QED
    BY <1>1, <2>1, <2>2
<1>6. CASE ConnectionEnds
  <2>1. PICK n \in Attempts : Connected(pool.try[n].phase)
                              /\ Now([pool EXCEPT !.try[n].phase = "closed"], ops)
    BY <1>6, Zenon DEF ConnectionEnds
  <2> QED
    BY <1>1, <2>1 DEF Connected
<1> QED
  BY <1>2, <1>3, <1>4, <1>5, <1>6

\* A transfer begins: it has no connection yet.
LEMMA StartedKeeps ==
  ASSUME OpsKept(ops), PoolKept(pool, ops), pool' = pool,
         NEW kind \in {"download", "upload", "install", "export"}, NEW d \in Dev, NEW left \in Nat,
         ops' = Started(kind, d, left)
  PROVE  Shared /\ \E k : k.kind = kind /\ ops' = ops \cup {k}
<1>1. PICK k : k = Operation(NextId(ops), kind, d, left)
  OBVIOUS
<1>2. k \in Operations /\ Sound(k)
  BY <1>1, OperationNew
<1>3. k.kind = kind /\ k.conn = 0
  BY <1>1 DEF Operation
<1>4. ops' = ops \cup {k}
  BY <1>1 DEF Started
<1>5. OpsKept(ops')
  BY <1>2, <1>4, OpsWith
<1>6. \A x \in ops' : Carries(pool, x)
  BY <1>3, <1>4 DEF PoolKept, Carries
<1>7. PoolKept(pool, ops')
  BY <1>6, Carrying
<1> QED
  BY <1>3, <1>4, <1>5, <1>7 DEF Shared

\* A transfer ends: in its place there is one of those that have ended.
LEMMA TransferEndsKeeps ==
  ASSUME OpsKept(ops), PoolKept(pool, ops), NEW o \in ops, NEW status, TransferEnds(o, status)
  PROVE  Shared /\ \E k : k.kind = "ended" /\ ops' = (ops \ {o}) \cup {k}
<1>1. status \in {"completed", "failed", "cancelled"}
  BY DEF TransferEnds, Endings
<1>2. PICK k : k = Finished(status)
  OBVIOUS
<1>3. k \in Operations /\ Sound(k) /\ k.kind = "ended" /\ k.conn = 0
  BY <1>1, <1>2, FinishedSound DEF Finished
<1>4. PICK O : O = Instead(o, k)
  OBVIOUS
<1>5. OpsKept(O)
  BY <1>3, <1>4, OpsInstead
<1>6. \A x \in O : Carries(pool, x)
  BY <1>3, <1>4 DEF PoolKept, Carries, Instead
<1>7. PoolKept(pool, O)
  BY <1>6, Carrying
<1>8. Now(pool, O)
  BY <1>2, <1>4 DEF TransferEnds
<1>9. PoolKept(pool', ops') /\ ops' = O
  BY <1>5, <1>7, <1>8, NowKeeps DEF OpsKept, Now
<1> QED
  BY <1>3, <1>4, <1>5, <1>9 DEF Shared, Instead

\* Operations of which nothing more is to come are forgotten.
LEMMA ForgottenKeeps ==
  ASSUME OpsKept(ops), PoolKept(pool, ops), NEW gone, Now(pool, ops \ gone)
  PROVE  Shared /\ ops' = ops \ gone
<1>1. OpsKept(ops \ gone)
  BY OpsWithout
<1>2. PoolKept(pool, ops \ gone)
  BY Carrying DEF PoolKept
<1> QED
  BY <1>1, <1>2, NowKeeps DEF Shared, OpsKept, Now

\* Only what has ended leaves the list.
LEMMA RemovedKeeps ==
  ASSUME OpsKept(ops), PoolKept(pool, ops), RemoveTask
  PROVE  Shared /\ \E gone : (\A o \in ops \cap gone : o.kind = "ended") /\ ops' = ops \ gone
<1>1. PICK gone \in SUBSET {o \in ops : IsTask(o) /\ o.status # "running"} : Now(pool, ops \ gone)
  BY Zenon DEF RemoveTask
<1>2. \A o \in ops \cap gone : o.kind = "ended"
  BY DEF OpsKept, Sound
<1> QED
  BY <1>1, <1>2, ForgottenKeeps

---------------------------------------------------------------------------
(* The terminal view                                                       *)

Statuses == {"idle", "connecting", "connected", "disconnected", "error"}

Terms == [tabs : TabSets, made : SUBSET Dev, status : [Dev -> Statuses]]

\* The terminal of every connection that is not aborted is there, and the connection is
\* the only one of it.
Attached(made, O) ==
  \A o \in O : o.kind = "terminal" /\ ~o.aborted =>
    o.dev \in made /\ \A k \in O : Connects(k, o.dev) => k = o

\* A tab that says that it is connected has a connection that is open.
Online(status, O) ==
  \A d \in Dev : status[d] = "connected" => \E o \in O : Connects(o, d) /\ o.phase = "reading"

TermsKept(T, O) ==
  /\ T \in Terms /\ TabsKept(T.tabs) /\ T.made \subseteq TabDevices(T.tabs)
  /\ Attached(T.made, O) /\ Online(T.status, O)

\* What the other views see of a step of this one: their operations are the same.
OthersSame(O, O2) == \A k : k.kind # "terminal" => (k \in O <=> k \in O2)

TerminalsSame(O, O2) == \A k : k.kind = "terminal" => (k \in O <=> k \in O2)

LEMMA OthersViews ==
  ASSUME NEW F, NEW A, NEW O, FilesKept(F, O), AppsKept(A, O), NEW O2, OthersSame(O, O2)
  PROVE  FilesKept(F, O2) /\ AppsKept(A, O2)
<1>1. \A k : k.kind = "upload" => (k \in O <=> k \in O2)
  BY DEF OthersSame
<1>2. Acting(O) => Acting(O2)
  BY DEF OthersSame, Acting
<1> QED
  BY <1>1, <1>2, UploadsSame, AppsOpsKeep

LEMMA TermsSame ==
  ASSUME NEW T, NEW O, TermsKept(T, O), NEW O2, TerminalsSame(O, O2)
  PROVE  TermsKept(T, O2)
<1>1. Attached(T.made, O2)
  BY DEF TermsKept, Attached, TerminalsSame, Connects
<1>2. Online(T.status, O2)
  BY DEF TermsKept, Online, TerminalsSame, Connects
<1> QED
  BY <1>1, <1>2 DEF TermsKept

\* A connection that goes on stays the one of its terminal, and open if it was.
LEMMA TermsAdvance ==
  ASSUME NEW T, TermsKept(T, ops), Advancing
  PROVE  TermsKept(T, ops')
<1>1. PICK o \in ops : \E x : Advances(o, x) /\ ops' = Instead(o, x)
  BY DEF Advancing
<1>2. PICK k : Advances(o, k) /\ ops' = Instead(o, k)
  BY <1>1
<1>3. PICK O : O = ops'
  OBVIOUS
<1>4. O = (ops \ {o}) \cup {k}
  BY <1>2, <1>3 DEF Instead
<1>5. /\ k.kind = o.kind /\ k.dev = o.dev
      /\ o.kind = "terminal" => /\ k.aborted = o.aborted
                                /\ o.phase = "reading" => k.phase = "reading"
  BY <1>2 DEF Advances
<1>6. \A d : Connects(k, d) <=> Connects(o, d)
  BY <1>5 DEF Connects
<1>7. Attached(T.made, O)
  <2> SUFFICES ASSUME NEW x \in O, x.kind = "terminal", ~x.aborted
               PROVE  x.dev \in T.made /\ \A y \in O : Connects(y, x.dev) => y = x
    BY DEF Attached
  <2>1. PICK z \in ops : z.kind = "terminal" /\ ~z.aborted /\ z.dev = x.dev /\ (IF x = k THEN z = o ELSE z = x)
    BY <1>4, <1>5
  <2>2. z.dev \in T.made /\ \A y \in ops : Connects(y, z.dev) => y = z
    BY <2>1 DEF TermsKept, Attached
  <2>3. ASSUME NEW y \in O, Connects(y, x.dev) PROVE y = x
    <3>1. CASE y = k
      <4>1. o = z
        BY <1>6, <2>1, <2>2, <2>3, <3>1
      <4> QED
        BY <1>4, <2>1, <3>1, <4>1
    <3>2. CASE y # k
      <4>1. y \in ops /\ y # o
        BY <1>4, <3>2
      <4>2. y = z
        BY <2>1, <2>2, <2>3, <4>1
      <4> QED
        BY <2>1, <4>1, <4>2
    <3> QED
      BY <3>1, <3>2
  <2> QED
    BY <2>1, <2>2, <2>3
<1>8. Online(T.status, O)
  <2> SUFFICES ASSUME NEW d \in Dev, T.status[d] = "connected"
               PROVE  \E x \in O : Connects(x, d) /\ x.phase = "reading"
    BY DEF Online
  <2>1. PICK z \in ops : Connects(z, d) /\ z.phase = "reading"
    BY DEF TermsKept, Online
  <2>2. CASE z = o
    BY <1>4, <1>5, <1>6, <2>1, <2>2 DEF Connects
  <2>3. CASE z # o
    BY <1>4, <2>1, <2>3
  <2> QED
    BY <2>2, <2>3
<1> QED
  BY <1>3, <1>7, <1>8 DEF TermsKept

\* The tabs and the status of one of them change.
LEMMA TermsTabsKeep ==
  ASSUME NEW T, NEW O, TermsKept(T, O), NEW U, TabsKept(U), T.made \subseteq TabDevices(U),
         NEW status \in [Dev -> Statuses],
         \A d \in Dev : status[d] = "connected" => T.status[d] = "connected"
  PROVE  TermsKept([T EXCEPT !.tabs = U, !.status = status], O)
<1>1. PICK V : V = [T EXCEPT !.tabs = U, !.status = status]
  OBVIOUS
<1>2. T \in Terms /\ U \in TabSets
  BY DEF TermsKept, TabsKept
<1>3. V \in Terms /\ V.tabs = U /\ V.made = T.made /\ V.status = status
  BY <1>1, <1>2 DEF Terms
<1>4. Online(status, O)
  BY DEF TermsKept, Online
<1>5. TermsKept(V, O)
  BY <1>3, <1>4 DEF TermsKept
<1> QED
  BY <1>1, <1>5

\* A connection that is closed hears of it at once or when it has its token.
LEMMA AbortsSound ==
  ASSUME NEW o \in Operations, Sound(o), o.kind = "terminal"
  PROVE  /\ Aborts(o) \in Operations /\ Sound(Aborts(o)) /\ Aborts(o).aborted
         /\ Aborts(o).kind = "terminal" /\ Aborts(o).dev = o.dev
         /\ Aborts(o).conn = 0 \/ (Aborts(o).conn = o.conn /\ Aborts(o).owner = o.owner)
<1>1. PICK phase \in {"auth", "aborting"} : phase = IF Hears(o) THEN "aborting" ELSE o.phase
  BY DEF Sound, Hears
<1>2. PICK conn \in {0, o.conn} : conn = IF Hears(o) THEN 0 ELSE o.conn
  OBVIOUS
<1>3. PICK k : k = Aborts(o)
  OBVIOUS
<1>4. k = [o EXCEPT !.aborted = TRUE, !.cancelable = FALSE, !.phase = phase, !.conn = conn]
  BY <1>1, <1>2, <1>3 DEF Aborts, Operations
<1>5. k \in Operations
  BY <1>4 DEF Operations
<1>6. /\ k.kind = o.kind /\ k.dev = o.dev /\ k.aborted /\ k.phase = phase
      /\ k.conn = conn /\ k.owner = o.owner /\ k.status = o.status /\ ~k.cancelable
  BY <1>4 DEF Operations
<1>7. Sound(k)
  BY <1>6 DEF Sound
<1> QED
  BY <1>2, <1>3, <1>5, <1>6, <1>7

\* clearRuntime: the terminals of D and their connections are closed.
LEMMA CloseKeeps ==
  ASSUME OpsKept(ops), PoolKept(pool, ops), NEW D
  PROVE  LET O == CloseConnections(D)
         IN  /\ OpsKept(O) /\ PoolKept(pool, O) /\ OthersSame(ops, O)
             /\ \A k \in O : k.kind = "terminal" /\ ~k.aborted => k \in ops /\ k.dev \notin D
             /\ \A o \in ops : o.dev \notin D => o \in O
<1>1. PICK O : O = CloseConnections(D)
  OBVIOUS
<1>2. PICK f : f = [o \in ops |-> IF o.kind = "terminal" /\ o.dev \in D THEN Aborts(o) ELSE o]
  OBVIOUS
<1>3. O = {f[o] : o \in ops}
  BY <1>1, <1>2, Zenon DEF CloseConnections
<1>4. ASSUME NEW o \in ops
      PROVE  /\ f[o] \in Operations /\ Sound(f[o]) /\ f[o].kind = o.kind
             /\ f[o].conn = 0 \/ (f[o].conn = o.conn /\ f[o].owner = o.owner)
             /\ o.kind = "terminal" /\ o.dev \in D => f[o].aborted
             /\ o.kind # "terminal" \/ o.dev \notin D => f[o] = o
  <2>1. o \in Operations /\ Sound(o)
    BY DEF OpsKept
  <2>2. CASE o.kind = "terminal" /\ o.dev \in D
    <3>1. f[o] = Aborts(o)
      BY <1>2, <2>2
    <3> QED
      BY <2>1, <2>2, <3>1, AbortsSound
  <2>3. CASE ~(o.kind = "terminal" /\ o.dev \in D)
    <3>1. f[o] = o
      BY <1>2, <2>3
    <3> QED
      BY <2>1, <2>3, <3>1
  <2> QED
    BY <2>2, <2>3
<1>5. OpsKept(O)
  <2>1. f \in Surjection(ops, O)
    BY <1>2, <1>3 DEF Surjection
  <2>2. IsFiniteSet(O)
    BY <2>1, FS_Surjection DEF OpsKept
  <2> QED
    BY <1>3, <1>4, <2>2 DEF OpsKept
<1>6. \A k \in O : Carries(pool, k)
  BY <1>3, <1>4 DEF PoolKept, Carries
<1>7. PoolKept(pool, O)
  BY <1>6, Carrying
<1>8. OthersSame(ops, O)
  BY <1>3, <1>4 DEF OthersSame
<1>9. \A k \in O : k.kind = "terminal" /\ ~k.aborted => k \in ops /\ k.dev \notin D
  BY <1>3, <1>4
<1>10. \A o \in ops : o.dev \notin D => o \in O
  BY <1>3, <1>4
<1> QED
  BY <1>1, <1>5, <1>7, <1>8, <1>9, <1>10

\* What the tabs of the terminals that are closed say.
LEMMA ClearedKeeps ==
  ASSUME OpsKept(ops), PoolKept(pool, ops), TermsKept(terms, ops), NEW D, D \subseteq terms.made
  PROVE  /\ TermsKept(Cleared(terms, D), CloseConnections(D))
         /\ Cleared(terms, D).tabs = terms.tabs /\ Cleared(terms, D).made = terms.made \ D
<1>1. PICK O : O = CloseConnections(D)
  OBVIOUS
<1>2. /\ \A k \in O : k.kind = "terminal" /\ ~k.aborted => k \in ops /\ k.dev \notin D
      /\ \A o \in ops : o.dev \notin D => o \in O
  BY <1>1, CloseKeeps
<1>3. terms \in Terms /\ terms.status \in [Dev -> Statuses]
  BY DEF TermsKept, Terms
<1>4. PICK status : status = [d \in Dev |-> IF d \in D THEN ClosedStatus(terms.status[d], HasConnection(d))
                                            ELSE terms.status[d]]
  OBVIOUS
<1>5. PICK V : V = Cleared(terms, D)
  OBVIOUS
<1>6. PICK made \in SUBSET Dev : made = terms.made \ D
  BY <1>3 DEF Terms
<1>7. V = [terms EXCEPT !.made = made, !.status = status]
  BY <1>3, <1>4, <1>5, <1>6, Zenon DEF Cleared, Terms
<1>8. ASSUME NEW d \in Dev
      PROVE  status[d] \in Statuses /\ (status[d] = "connected" => d \notin D /\ terms.status[d] = "connected")
  <2>1. terms.status[d] \in Statuses
    BY <1>3
  <2>2. CASE d \in D
    <3>1. status[d] = IF HasConnection(d) /\ terms.status[d] # "error" THEN "disconnected" ELSE terms.status[d]
      BY <1>4, <2>2 DEF ClosedStatus
    <3>2. terms.status[d] = "connected" => HasConnection(d)
      BY DEF TermsKept, Online, HasConnection
    <3> QED
      BY <2>1, <3>1, <3>2 DEF Statuses
  <2>3. CASE d \notin D
    BY <1>4, <2>1, <2>3
  <2> QED
    BY <2>2, <2>3
<1>9. status \in [Dev -> Statuses]
  BY <1>4, <1>8
<1>10. V \in Terms /\ V.tabs = terms.tabs /\ V.made = made /\ V.status = status
  BY <1>3, <1>7, <1>9 DEF Terms
<1>11. Attached(made, O)
  BY <1>2, <1>6 DEF Attached, TermsKept, Connects
<1>12. Online(status, O)
  BY <1>2, <1>8 DEF Online, TermsKept, Connects
<1>13. TermsKept(V, O)
  BY <1>6, <1>10, <1>11, <1>12 DEF TermsKept
<1> QED
  BY <1>1, <1>5, <1>6, <1>10, <1>13

\* The terminal of the active tab is there, or it is made with its connection.
LEMMA EnsuredKeeps ==
  ASSUME NEW T, NEW O, OpsKept(O), PoolKept(pool, O), TermsKept(T, O), Ensured(T, O)
  PROVE  Shared /\ TermsKept(terms', ops') /\ OthersSame(O, ops')
<1>0. O \subseteq Operations
  BY DEF OpsKept
<1>1. PICK d : d = T.tabs.active
  OBVIOUS
<1>2. CASE d = NoDevice \/ d \in T.made
  <2>1. terms' = T /\ Now(pool, O)
    BY <1>1, <1>2 DEF Ensured
  <2>2. ops' = O
    BY <2>1 DEF Now
  <2> QED
    BY <1>0, <2>1, <2>2, NowKeeps DEF Shared, OthersSame
<1>3. CASE ~(d = NoDevice \/ d \in T.made)
  <2>1. PICK k : k = Operation(NextId(O), "terminal", d, 1)
    OBVIOUS
  <2>2. /\ terms' = [T EXCEPT !.made = @ \cup {d}, !.status[d] = "connecting"]
        /\ Now(pool, O \cup {k})
    BY <1>1, <1>3, <2>1 DEF Ensured
  <2>3. T \in Terms /\ T.made \in SUBSET Dev /\ T.status \in [Dev -> Statuses]
    BY DEF TermsKept, Terms
  <2>4. d \in Dev /\ d \in TabDevices(T.tabs)
    <3>1. TabsKept(T.tabs)
      BY DEF TermsKept
    <3>2. T.tabs.active \in Dev
      BY <1>1, <1>3, <3>1 DEF TabsKept, TabSets
    <3>3. T.tabs.order # << >>
      BY <1>1, <1>3, <3>1 DEF TabsKept, ActiveIsListed
    <3> QED
      BY <1>1, <3>1, <3>2, <3>3 DEF TabsKept, ActiveIsListed
  <2>5. k \in Operations /\ Sound(k)
    BY <2>1, <2>4, OperationNew
  <2>6. k.kind = "terminal" /\ k.dev = d /\ ~k.aborted /\ k.conn = 0
    BY <2>1 DEF Operation
  <2>7. PICK N : N = O \cup {k}
    OBVIOUS
  <2>8. OpsKept(N)
    BY <2>5, <2>7, OpsWith
  <2>9. \A x \in N : Carries(pool, x)
    BY <2>6, <2>7 DEF PoolKept, Carries
  <2>10. PoolKept(pool, N)
    BY <2>9, Carrying
  <2>11. PoolKept(pool', ops') /\ ops' = N
    BY <2>2, <2>7, <2>8, <2>10, NowKeeps DEF OpsKept, Now
  <2>12. PICK made \in SUBSET Dev : made = T.made \cup {d}
    BY <2>3, <2>4
  <2>13. PICK status \in [Dev -> Statuses] : status = [T.status EXCEPT ![d] = "connecting"]
    BY <2>3 DEF Statuses
  <2>14. PICK V : V = [T EXCEPT !.made = made, !.status = status]
    OBVIOUS
  <2>15. terms' = V
    BY <2>2, <2>3, <2>12, <2>13, <2>14 DEF Terms
  <2>16. V \in Terms /\ V.tabs = T.tabs /\ V.made = made /\ V.status = status
    BY <2>3, <2>14 DEF Terms
  <2>17. Attached(made, N)
    <3> SUFFICES ASSUME NEW o \in N, o.kind = "terminal", ~o.aborted
                 PROVE  o.dev \in made /\ \A x \in N : Connects(x, o.dev) => x = o
      BY DEF Attached
    <3>1. CASE o = k
      <4>1. \A x \in O : ~Connects(x, d)
        BY <1>3 DEF TermsKept, Attached, Connects
      <4> QED
        BY <2>6, <2>7, <2>12, <3>1, <4>1
    <3>2. CASE o # k
      <4>1. o \in O /\ o.dev \in T.made /\ \A x \in O : Connects(x, o.dev) => x = o
        BY <2>7, <3>2 DEF TermsKept, Attached
      <4>2. o.dev # d
        BY <1>3, <4>1
      <4>3. ~Connects(k, o.dev)
        BY <2>6, <4>2 DEF Connects
      <4> QED
        BY <2>7, <2>12, <4>1, <4>3
    <3> QED
      BY <3>1, <3>2
  <2>18. Online(status, N)
    <3>1. \A e \in Dev : status[e] = "connected" => T.status[e] = "connected"
      BY <2>3, <2>13
    <3> QED
      BY <2>7, <3>1 DEF Online, TermsKept
  <2>19. made \subseteq TabDevices(T.tabs)
    BY <2>4, <2>12 DEF TermsKept
  <2>20. TermsKept(V, N)
    BY <2>16, <2>17, <2>18, <2>19 DEF TermsKept
  <2>21. OthersSame(O, N)
    BY <2>6, <2>7 DEF OthersSame
  <2> QED
    BY <2>8, <2>11, <2>15, <2>20, <2>21 DEF Shared
<1> QED
  BY <1>2, <1>3

TermsStep == Shared /\ TermsKept(terms', ops') /\ OthersSame(ops, ops')

\* The view is shown, perhaps to open a device.
LEMMA TermsShownKeeps ==
  ASSUME OpsKept(ops), PoolKept(pool, ops), TermsKept(terms, ops),
         NEW d \in Dev \cup {NoDevice}, TermsShown(d)
  PROVE  TermsStep
<1>1. terms \in Terms /\ TabsKept(terms.tabs) /\ terms.made \subseteq TabDevices(terms.tabs)
      /\ terms.status \in [Dev -> Statuses]
  BY DEF TermsKept, Terms
<1>2. CASE d = NoDevice
  <2>1. Ensured(terms, ops)
    BY <1>2 DEF TermsShown
  <2> QED
    BY <2>1, EnsuredKeeps DEF TermsStep
<1>3. CASE d # NoDevice
  <2>1. PICK U : U = TabOpened(terms.tabs, d) /\ TabsKept(U) /\ TabDevices(terms.tabs) \subseteq TabDevices(U)
    BY <1>1, <1>3, OpenedKept
  <2>2. PICK status \in [Dev -> Statuses] : status = [terms.status EXCEPT ![d] = "idle"]
    BY <1>1 DEF Statuses
  <2>3. PICK T : T = [terms EXCEPT !.tabs = U, !.status = status]
    OBVIOUS
  <2>4. T = [terms EXCEPT !.tabs = TabOpened(@, d), !.status[d] = "idle"]
    BY <1>1, <2>1, <2>2, <2>3 DEF Terms
  <2>5. Ensured(T, ops)
    BY <1>3, <2>4 DEF TermsShown
  <2>6. \A e \in Dev : status[e] = "connected" => terms.status[e] = "connected"
    BY <1>1, <2>2
  <2>7. TermsKept(T, ops)
    BY <1>1, <2>1, <2>3, <2>6, TermsTabsKeep
  <2> QED
    BY <2>5, <2>7, EnsuredKeeps DEF TermsStep
<1> QED
  BY <1>2, <1>3

\* The view is left: no terminal stays, nor a connection that is not closed.
LEMMA TermsHiddenKeeps ==
  ASSUME OpsKept(ops), PoolKept(pool, ops), TermsKept(terms, ops), TermsHidden
  PROVE  TermsStep /\ terms'.made = {}
<1>1. PICK D, O : D = terms.made /\ O = CloseConnections(D)
  OBVIOUS
<1>2. terms' = Cleared(terms, D) /\ Now(pool, O)
  BY <1>1 DEF TermsHidden
<1>3. OpsKept(O) /\ PoolKept(pool, O) /\ OthersSame(ops, O)
  BY <1>1, CloseKeeps
<1>4. TermsKept(Cleared(terms, D), O) /\ Cleared(terms, D).made = terms.made \ D
  BY <1>1, ClearedKeeps
<1>5. PoolKept(pool', ops') /\ ops' = O
  BY <1>2, <1>3, NowKeeps DEF OpsKept, Now
<1> QED
  BY <1>1, <1>2, <1>3, <1>4, <1>5 DEF TermsStep, Shared

LEMMA TermsActsKeep ==
  ASSUME OpsKept(ops), PoolKept(pool, ops), TermsKept(terms, ops), TermsActs
  PROVE  TermsStep
<1>1. terms \in Terms /\ TabsKept(terms.tabs) /\ terms.made \subseteq TabDevices(terms.tabs)
      /\ terms.status \in [Dev -> Statuses]
  BY DEF TermsKept, Terms
<1>2. CASE TermsActivateTab
  <2>1. PICK d \in TabDevices(terms.tabs) : Ensured([terms EXCEPT !.tabs = TabActivated(@, d)], ops)
    BY <1>2, Zenon DEF TermsActivateTab
  <2>2. PICK U : U = TabActivated(terms.tabs, d) /\ TabsKept(U) /\ TabDevices(U) = TabDevices(terms.tabs)
    BY <1>1, ActivatedKept
  <2>3. PICK T : T = [terms EXCEPT !.tabs = U, !.status = terms.status]
    OBVIOUS
  <2>4. T = [terms EXCEPT !.tabs = TabActivated(@, d)]
    BY <1>1, <2>2, <2>3 DEF Terms
  <2>5. TermsKept(T, ops)
    BY <1>1, <2>2, <2>3, TermsTabsKeep
  <2> QED
    BY <2>1, <2>4, <2>5, EnsuredKeeps DEF TermsStep
<1>3. CASE TermsCloseTab
  <2>1. PICK d \in TabDevices(terms.tabs) :
          LET D == {d} \cap terms.made
              T == [Cleared(terms, D) EXCEPT !.tabs = TabClosed(@, d), !.status[d] = "idle"]
          IN  IF d = terms.tabs.active THEN Ensured(T, CloseConnections(D))
              ELSE terms' = T /\ Now(pool, CloseConnections(D))
    BY <1>3, Zenon DEF TermsCloseTab
  <2>2. PICK D : D = {d} \cap terms.made
    OBVIOUS
  <2>3. PICK C : C = Cleared(terms, D)
    OBVIOUS
  <2>4. PICK O : O = CloseConnections(D)
    OBVIOUS
  <2>5. OpsKept(O) /\ PoolKept(pool, O) /\ OthersSame(ops, O)
    BY <2>4, CloseKeeps
  <2>6. TermsKept(C, O) /\ C.tabs = terms.tabs /\ C.made = terms.made \ D
    BY <2>2, <2>3, <2>4, ClearedKeeps
  <2>7. PICK U : U = TabClosed(terms.tabs, d) /\ TabsKept(U) /\ TabDevices(U) = TabDevices(terms.tabs) \ {d}
    BY <1>1, ClosedKept
  <2>8. C \in Terms /\ C.status \in [Dev -> Statuses]
    BY <2>6 DEF TermsKept, Terms
  <2>9. PICK status \in [Dev -> Statuses] : status = [C.status EXCEPT ![d] = "idle"]
    BY <2>8 DEF Statuses
  <2>10. PICK T : T = [C EXCEPT !.tabs = U, !.status = status]
    OBVIOUS
  <2>11. T = [C EXCEPT !.tabs = TabClosed(@, d), !.status[d] = "idle"]
    BY <2>6, <2>7, <2>8, <2>9, <2>10 DEF Terms
  <2>12. C.made \subseteq TabDevices(U)
    BY <1>1, <2>2, <2>6, <2>7
  <2>13. \A e \in Dev : status[e] = "connected" => C.status[e] = "connected"
    BY <2>8, <2>9
  <2>14. TermsKept(T, O)
    BY <2>6, <2>7, <2>10, <2>12, <2>13, TermsTabsKeep
  <2>15. IF d = terms.tabs.active THEN Ensured(T, O) ELSE terms' = T /\ Now(pool, O)
    BY <2>1, <2>2, <2>3, <2>4, <2>11
  <2>16. CASE d = terms.tabs.active
    <3>1. Shared /\ TermsKept(terms', ops') /\ OthersSame(O, ops')
      BY <2>5, <2>14, <2>15, <2>16, EnsuredKeeps
    <3> QED
      BY <2>5, <3>1 DEF TermsStep, OthersSame
  <2>17. CASE d # terms.tabs.active
    <3>1. terms' = T /\ Now(pool, O)
      BY <2>15, <2>17
    <3>2. PoolKept(pool', ops') /\ ops' = O
      BY <2>5, <3>1, NowKeeps DEF OpsKept, Now
    <3> QED
      BY <2>5, <2>14, <3>1, <3>2 DEF TermsStep, Shared
  <2> QED
    BY <2>16, <2>17
<1> QED
  BY <1>2, <1>3 DEF TermsActs

\* The status of one tab changes, and the operation o may be gone.
LEMMA StatusKeeps ==
  ASSUME TermsKept(terms, ops), NEW o \in ops, o.kind = "terminal", o.dev \in Dev,
         NEW to \in Statuses, to # "connected"
  PROVE  TermsKept([terms EXCEPT !.status[o.dev] = to], ops \ {o})
<1>1. PICK O : O = ops \ {o}
  OBVIOUS
<1>2. terms \in Terms /\ terms.status \in [Dev -> Statuses]
  BY DEF TermsKept, Terms
<1>3. PICK status \in [Dev -> Statuses] : status = [terms.status EXCEPT ![o.dev] = to]
  BY <1>2
<1>4. PICK V : V = [terms EXCEPT !.status = status]
  OBVIOUS
<1>5. V = [terms EXCEPT !.status[o.dev] = to]
  BY <1>2, <1>3, <1>4 DEF Terms
<1>6. V \in Terms /\ V.tabs = terms.tabs /\ V.made = terms.made /\ V.status = status
  BY <1>2, <1>4 DEF Terms
<1>7. Attached(terms.made, O)
  BY <1>1 DEF TermsKept, Attached
<1>8. Online(status, O)
  <2> SUFFICES ASSUME NEW d \in Dev, status[d] = "connected"
               PROVE  \E x \in O : Connects(x, d) /\ x.phase = "reading"
    BY DEF Online
  <2>1. d # o.dev /\ terms.status[d] = "connected"
    BY <1>2, <1>3
  <2>2. PICK x \in ops : Connects(x, d) /\ x.phase = "reading"
    BY <2>1 DEF TermsKept, Online
  <2> QED
    BY <1>1, <2>1, <2>2 DEF Connects
<1>9. TermsKept(V, O)
  BY <1>6, <1>7, <1>8 DEF TermsKept
<1> QED
  BY <1>1, <1>5, <1>9

\* A connection ends, or is heard to be closed.
LEMMA TerminalEndsKeep ==
  ASSUME OpsKept(ops), PoolKept(pool, ops), TermsKept(terms, ops),
         TerminalCloses \/ TerminalRefused \/ TerminalAborts
  PROVE  TermsStep /\ terms'.made = terms.made
<1>0. \A o \in ops : o \in Operations /\ Sound(o)
  BY DEF OpsKept
<1>1. terms \in Terms /\ terms.status \in [Dev -> Statuses]
  BY DEF TermsKept, Terms
<1>2. ASSUME NEW o \in ops, o.kind = "terminal", Now(pool, ops \ {o})
      PROVE  Shared /\ ops' = ops \ {o} /\ OthersSame(ops, ops') /\ o.dev \in Dev
  <2>1. Shared /\ ops' = ops \ {o}
    BY <1>2, ForgottenKeeps
  <2> QED
    BY <1>0, <1>2, <2>1 DEF OthersSame, Sound
<1>3. ASSUME NEW o \in ops, o.kind = "terminal", Now(pool, ops \ {o}),
             NEW to \in Statuses, to # "connected", terms' = [terms EXCEPT !.status[o.dev] = to]
      PROVE  TermsStep /\ terms'.made = terms.made
  <2>1. TermsKept([terms EXCEPT !.status[o.dev] = to], ops \ {o})
    BY <1>2, <1>3, StatusKeeps
  <2>2. terms'.made = terms.made
    BY <1>1, <1>3 DEF Terms
  <2> QED
    BY <1>2, <1>3, <2>1, <2>2 DEF TermsStep
<1>4. CASE TerminalCloses
  <2>1. PICK o \in ops, failed \in BOOLEAN :
          /\ o.kind = "terminal" /\ Now(pool, ops \ {o})
          /\ terms' = [terms EXCEPT !.status[o.dev] = IF failed THEN "error" ELSE ClosedStatus(@, TRUE)]
    BY <1>4, Zenon DEF TerminalCloses
  <2>2. terms.status[o.dev] \in Statuses
    BY <1>1, <1>2, <2>1
  <2>3. PICK to \in Statuses :
          to = (IF failed THEN "error" ELSE ClosedStatus(terms.status[o.dev], TRUE)) /\ to # "connected"
    BY <2>2 DEF ClosedStatus, Statuses
  <2>4. terms' = [terms EXCEPT !.status[o.dev] = to]
    BY <1>1, <2>1, <2>3 DEF Terms
  <2> QED
    BY <1>3, <2>1, <2>3, <2>4
<1>5. CASE TerminalRefused
  <2>1. PICK o \in ops : /\ o.kind = "terminal" /\ Now(pool, ops \ {o})
                         /\ terms' = [terms EXCEPT !.status[o.dev] = "error"]
    BY <1>5, Zenon DEF TerminalRefused
  <2> QED
    BY <1>3, <2>1 DEF Statuses
<1>6. CASE TerminalAborts
  <2>1. PICK o \in ops : /\ o.kind = "terminal" /\ o.aborted
                         /\ Now(pool, ops \ {o}) /\ terms' = terms
    BY <1>6, Zenon DEF TerminalAborts
  <2>2. PICK O : O = ops \ {o}
    OBVIOUS
  <2>3. Attached(terms.made, O) /\ Online(terms.status, O)
    BY <2>1, <2>2 DEF TermsKept, Attached, Online, Connects
  <2>4. TermsKept(terms, O)
    BY <2>3 DEF TermsKept
  <2> QED
    BY <1>2, <2>1, <2>2, <2>4 DEF TermsStep
<1> QED
  BY <1>4, <1>5, <1>6

\* A message of the agent comes over a connection that is open.
LEMMA MessageKeeps ==
  ASSUME TermsKept(terms, ops), OpsKept(ops), TerminalMessage
  PROVE  TermsKept(terms', ops) /\ terms'.made = terms.made /\ pool' = pool /\ ops' = ops
<1>1. PICK o \in ops, to \in {"connected", "error"} :
        /\ o.kind = "terminal" /\ o.phase = "reading" /\ ~o.aborted
        /\ terms' = [terms EXCEPT !.status[o.dev] = to] /\ UNCHANGED <<pool, ops>>
  BY Zenon DEF TerminalMessage
<1>2. terms \in Terms /\ terms.status \in [Dev -> Statuses]
  BY DEF TermsKept, Terms
<1>3. o.dev \in Dev
  BY <1>1 DEF OpsKept, Sound
<1>4. PICK status \in [Dev -> Statuses] : status = [terms.status EXCEPT ![o.dev] = to]
  BY <1>2 DEF Statuses
<1>5. PICK V : V = terms'
  OBVIOUS
<1>6. V = [terms EXCEPT !.status = status]
  BY <1>1, <1>2, <1>4, <1>5 DEF Terms
<1>7. V \in Terms /\ V.tabs = terms.tabs /\ V.made = terms.made /\ V.status = status
  BY <1>2, <1>6 DEF Terms
<1>8. Online(status, ops)
  <2> SUFFICES ASSUME NEW d \in Dev, status[d] = "connected"
               PROVE  \E x \in ops : Connects(x, d) /\ x.phase = "reading"
    BY DEF Online
  <2>1. CASE d = o.dev
    BY <1>1, <2>1 DEF Connects
  <2>2. CASE d # o.dev
    BY <1>2, <1>4, <2>2 DEF TermsKept, Online
  <2> QED
    BY <2>1, <2>2
<1>9. TermsKept(V, ops)
  BY <1>7, <1>8 DEF TermsKept
<1> QED
  BY <1>1, <1>5, <1>7, <1>9

---------------------------------------------------------------------------
(* The invariant                                                           *)

IInv ==
  /\ account \in Accounts
  /\ OpsKept(ops) /\ PoolKept(pool, ops)
  /\ FilesKept(files, ops) /\ AppsKept(apps, ops) /\ TermsKept(terms, ops)
  /\ shown # "terminal" => terms.made = {}

LEMMA InitOps ==
  ASSUME Init
  PROVE  account \in Accounts /\ ops = {} /\ OpsKept(ops) /\ PoolKept(pool, ops)
<1>1. account \in Accounts /\ pool = InitPool /\ ops = {}
  BY DEF Init
<1>2. OpsKept(ops)
  BY <1>1, FS_EmptySet DEF OpsKept
<1>3. NoAttempt \in Tries /\ ~Connected(NoAttempt.phase)
  BY DEF NoAttempt, Tries, Connected
<1>4. /\ pool.scope = "" /\ pool.entry = [d \in Dev |-> 0] /\ pool.try = [n \in Attempts |-> NoAttempt]
      /\ pool = [scope |-> pool.scope, entry |-> pool.entry, try |-> pool.try]
  BY <1>1 DEF InitPool
<1>5. pool \in Pools
  <2>1. pool.entry \in [Dev -> Attempts \cup {0}] /\ pool.try \in [Attempts -> Tries]
    BY <1>3, <1>4
  <2> QED
    BY <2>1, <1>4 DEF Pools
<1>6. EntryOwned(pool) /\ UpIsEntry(pool)
  BY <1>3, <1>4 DEF EntryOwned, UpIsEntry
<1>7. PoolKept(pool, ops)
  BY <1>1, <1>5, <1>6 DEF PoolKept
<1> QED
  BY <1>1, <1>2, <1>7

LEMMA InitViews ==
  ASSUME NEW T, TabsKept(T), InitFiles(T), InitApps(T), InitTerms(T), ops = {}
  PROVE  FilesKept(files, ops) /\ AppsKept(apps, ops) /\ TermsKept(terms, ops) /\ terms.made = {}
<1>0. T \in TabSets /\ Root \in Paths
  BY FileManagerAssumption DEF TabsKept
<1>1. FilesKept(files, ops)
  <2>1. files = [tabs |-> T, path |-> [d \in Dev |-> Root], loading |-> FALSE, error |-> FALSE,
                 loaded |-> Nothing, entries |-> Nothing, uploading |-> FALSE, list |-> {}, work |-> 0]
    BY DEF InitFiles
  <2>2. files \in Files
    BY <1>0, <2>1, NothingPlace DEF Files
  <2>3. Listing(files)
    BY <2>1, <2>2 DEF Listing
  <2>4. Spins(files)
    BY <2>1 DEF Spins, OneLatest, HasLatest
  <2>5. UploadsAgree(files, ops)
    BY <2>1 DEF UploadsAgree, OneUpload, OneLists, HasUpload, Lists
  <2> QED
    BY <2>3, <2>4, <2>5 DEF FilesKept
<1>2. AppsKept(apps, ops)
  <2>1. apps = [tabs |-> T, mounted |-> FALSE, loading |-> FALSE, listed |-> NoDevice, running |-> FALSE,
                info |-> FALSE, infoLoading |-> FALSE, list |-> {},
                work |-> [launch |-> 0, uninstall |-> 0, info |-> 0]]
    BY DEF InitApps
  <2>2. apps \in Apps
    BY <1>0, <2>1 DEF Apps
  <2>3. OneLatest(apps.list) /\ apps.loading = HasLatest(apps.list)
    BY <2>1 DEF OneLatest, HasLatest
  <2> QED
    BY <2>1, <2>2, <2>3 DEF AppsKept
<1>3. TermsKept(terms, ops) /\ terms.made = {}
  <2>1. terms = [tabs |-> T, made |-> {}, status |-> [d \in Dev |-> "idle"]]
    BY DEF InitTerms
  <2>2. terms \in Terms
    BY <1>0, <2>1 DEF Terms, Statuses
  <2>3. Attached(terms.made, ops) /\ Online(terms.status, ops)
    BY <2>1 DEF Attached, Online
  <2> QED
    BY <2>1, <2>2, <2>3 DEF TermsKept
<1> QED
  BY <1>1, <1>2, <1>3

LEMMA InitInv ==
  ASSUME Init
  PROVE  IInv
<1>1. PICK T \in RestoredTabs(Dev) : InitFiles(T) /\ InitApps(T) /\ InitTerms(T)
  BY Zenon DEF Init
<1>2. TabsKept(T)
  BY RestoredKept
<1> QED
  BY <1>1, <1>2, InitOps, InitViews DEF IInv

\* The steps of what the views share.
LEMMA SharedSteps ==
  ASSUME IInv,
         ConnectionSteps \/ OperationSteps \/ AccountChanges \/ ConnectionMoves \/ RequestCancel
           \/ RemoveTask \/ (Resumes /\ UNCHANGED <<account, shown, moves, files, apps, terms>>),
         UNCHANGED <<files, apps, terms>>
  PROVE  IInv'
<1>1. /\ account \in Accounts /\ OpsKept(ops) /\ PoolKept(pool, ops)
      /\ FilesKept(files, ops) /\ AppsKept(apps, ops) /\ TermsKept(terms, ops)
      /\ shown # "terminal" => terms.made = {}
  BY DEF IInv
<1>2. ASSUME ops' = ops, Shared, shown' = shown, account' \in Accounts
      PROVE  IInv'
  BY <1>1, <1>2 DEF IInv, Shared
<1>3. ASSUME Progress, shown' = shown, account' = account
      PROVE  IInv'
  BY <1>1, <1>3, ViewsAdvance, TermsAdvance DEF IInv, Progress
<1>4. CASE ConnectionSteps \/ ConnectionMoves
  <2>1. shown' = shown /\ account' = account
    BY <1>4 DEF ConnectionSteps, ConnectionMoves
  <2>2. AttemptOpens \/ AttemptFails \/ UnavailableEnds \/ ConnectionFalters \/ ConnectionEnds
    BY <1>4 DEF ConnectionSteps, ConnectionMoves
  <2> QED
    BY <1>1, <1>2, <2>1, <2>2, ConnectionsKeep
<1>5. CASE OperationSteps
  <2>1. shown' = shown /\ account' = account
    BY <1>5 DEF OperationSteps
  <2>2. \/ AsksForConnection \/ AsksHttp \/ AbortIsSeen \/ AbortIsSeenByHttp
        \/ UploadProgress \/ Answered \/ NextFile
    BY <1>5 DEF OperationSteps
  <2>3. Progress
    BY <1>1, <2>2, OperationProgress, UploadGoesOn
  <2> QED
    BY <1>3, <2>1, <2>3
<1>6. CASE AccountChanges
  <2>1. account' \in Accounts /\ pool' = pool /\ ops' = ops /\ shown' = shown
    BY <1>6 DEF AccountChanges
  <2> QED
    BY <1>1, <1>2, <2>1 DEF Shared
<1>7. CASE RequestCancel
  <2>1. shown' = shown /\ account' = account
    BY <1>7 DEF RequestCancel
  <2> QED
    BY <1>1, <1>3, <1>7, <2>1, CancelledGoesOn
<1>8. CASE RemoveTask
  <2>1. shown' = shown /\ account' = account
    BY <1>8 DEF RemoveTask
  <2>2. Shared
    BY <1>1, <1>8, RemovedKeeps
  <2>3. PICK gone : (\A o \in ops \cap gone : o.kind = "ended") /\ ops' = ops \ gone
    BY <1>1, <1>8, RemovedKeeps
  <2>4. /\ \A k : k.kind = "upload" => (k \in ops <=> k \in ops')
        /\ TerminalsSame(ops, ops') /\ (Acting(ops) => Acting(ops'))
    BY <2>3 DEF TerminalsSame, Acting
  <2>5. FilesKept(files, ops') /\ AppsKept(apps, ops') /\ TermsKept(terms, ops')
    BY <1>1, <2>4, UploadsSame, AppsOpsKeep, TermsSame
  <2> QED
    BY <1>1, <2>1, <2>2, <2>5 DEF IInv, Shared
<1>9. CASE Resumes /\ UNCHANGED <<account, shown, moves, files, apps, terms>>
  BY <1>1, <1>3, <1>9, ResumedGoesOn
<1> QED
  BY <1>4, <1>5, <1>6, <1>7, <1>8, <1>9

\* The steps of the file view.
LEMMA FilesSteps ==
  ASSUME IInv, ListSteps \/ FilesActs \/ FileWorked, UNCHANGED <<apps, terms>>
  PROVE  IInv'
<1>1. /\ account \in Accounts /\ OpsKept(ops) /\ PoolKept(pool, ops)
      /\ FilesKept(files, ops) /\ AppsKept(apps, ops) /\ TermsKept(terms, ops)
      /\ shown # "terminal" => terms.made = {}
  BY DEF IInv
<1>2. ASSUME FilesKept(files', ops), UNCHANGED <<account, pool, ops, shown>>
      PROVE  IInv'
  BY <1>1, <1>2 DEF IInv
<1>3. CASE ListSteps
  <2>1. UNCHANGED <<account, pool, ops, shown>>
    BY <1>3 DEF ListSteps, poolVars
  <2> QED
    BY <1>1, <1>2, <1>3, <2>1, ListStepsKeep
<1>4. CASE FilesActivateTab \/ FilesCloseTab \/ NavigateToPath \/ RefreshFiles
  <2>1. UNCHANGED <<account, pool, ops, shown>>
    BY <1>4 DEF FilesActivateTab, FilesCloseTab, NavigateToPath, RefreshFiles, poolVars
  <2>2. FilesKept(files', ops)
    BY <1>1, <1>4, FilesTabStepsKeep
  <2> QED
    BY <1>2, <2>1, <2>2
<1>5. CASE FileWork \/ FileWorked
  <2>1. UNCHANGED <<account, pool, ops, shown>>
    BY <1>5 DEF FileWork, FileWorked, poolVars
  <2>2. FilesKept(files', ops)
    BY <1>1, <1>5, FileWorkKeeps
  <2> QED
    BY <1>2, <2>1, <2>2
<1>6. files.tabs.active \in Dev \cup {NoDevice}
  BY <1>1 DEF FilesKept, Listing, TabsKept, TabSets
<1>7. CASE DownloadEntry
  <2>1. /\ files.tabs.active \in Dev /\ ops' = Started("download", files.tabs.active, 1)
        /\ UNCHANGED <<account, pool, shown, files>>
    BY <1>6, <1>7 DEF DownloadEntry, EntryMenu, HasCurrentListing, poolVars
  <2>2. Shared /\ \E x : x.kind = "download" /\ ops' = ops \cup {x}
    BY <1>1, <2>1, StartedKeeps
  <2>3. PICK k : k.kind = "download" /\ ops' = ops \cup {k}
    BY <2>2
  <2>4. /\ \A x : x.kind = "upload" => (x \in ops <=> x \in ops')
        /\ TerminalsSame(ops, ops') /\ (Acting(ops) => Acting(ops'))
    BY <2>3 DEF TerminalsSame, Acting
  <2>5. FilesKept(files, ops') /\ AppsKept(apps, ops') /\ TermsKept(terms, ops')
    BY <1>1, <2>4, UploadsSame, AppsOpsKeep, TermsSame
  <2> QED
    BY <1>1, <2>1, <2>2, <2>5 DEF IInv, Shared
<1>8. CASE UploadSelectedFiles
  <2>1. PICK n \in {1, 2} :
          /\ files.tabs.active # NoDevice /\ ~files.uploading
          /\ files' = [files EXCEPT !.uploading = TRUE]
          /\ ops' = Started("upload", files.tabs.active, n)
          /\ UNCHANGED <<poolVars, shown>>
    BY <1>8, Zenon DEF UploadSelectedFiles
  <2>2. files.tabs.active \in Dev /\ UNCHANGED <<account, pool, shown>>
    BY <1>6, <2>1 DEF poolVars
  <2>3. Shared /\ \E x : x.kind = "upload" /\ ops' = ops \cup {x}
    BY <1>1, <2>1, <2>2, StartedKeeps
  <2>4. PICK k : k.kind = "upload" /\ ops' = ops \cup {k}
    BY <2>3
  <2>5. FilesKept(files', ops')
    BY <1>1, <2>1, <2>4, UploadStarts
  <2>6. TerminalsSame(ops, ops') /\ (Acting(ops) => Acting(ops'))
    BY <2>4 DEF TerminalsSame, Acting
  <2>7. AppsKept(apps, ops') /\ TermsKept(terms, ops')
    BY <1>1, <2>6, AppsOpsKeep, TermsSame
  <2> QED
    BY <1>1, <2>2, <2>3, <2>5, <2>7 DEF IInv, Shared
<1> QED
  BY <1>3, <1>4, <1>5, <1>7, <1>8 DEF FilesActs

\* The steps of the app view.
LEMMA AppsSteps ==
  ASSUME IInv, AppsListSteps \/ AppsActs \/ AppsWorked, UNCHANGED <<files, terms>>
  PROVE  IInv'
<1>1. /\ account \in Accounts /\ OpsKept(ops) /\ PoolKept(pool, ops)
      /\ FilesKept(files, ops) /\ AppsKept(apps, ops) /\ TermsKept(terms, ops)
      /\ shown # "terminal" => terms.made = {}
  BY DEF IInv
<1>2. ASSUME AppsKept(apps', ops), UNCHANGED <<account, pool, ops, shown>>
      PROVE  IInv'
  BY <1>1, <1>2 DEF IInv
<1>3. CASE AppsListSteps
  <2>1. UNCHANGED <<account, pool, ops, shown>>
    BY <1>3 DEF AppsListSteps, poolVars
  <2> QED
    BY <1>1, <1>2, <1>3, <2>1, AppsListKeeps
<1>4. CASE AppsActivateTab \/ AppsCloseTab \/ RefreshApps
  <2>1. UNCHANGED <<account, pool, ops, shown>>
    BY <1>4 DEF AppsActivateTab, AppsCloseTab, RefreshApps, poolVars
  <2>2. AppsKept(apps', ops)
    BY <1>1, <1>4, AppsTabStepsKeep
  <2> QED
    BY <1>2, <2>1, <2>2
<1>5. CASE LaunchApp \/ UninstallApp \/ OpenAppInfo \/ CloseAppInfo
  <2>1. UNCHANGED <<account, pool, ops, shown>>
    BY <1>5 DEF LaunchApp, UninstallApp, OpenAppInfo, CloseAppInfo, poolVars
  <2>2. AppsKept(apps', ops)
    BY <1>1, <1>5, AppsRequestsKeep
  <2> QED
    BY <1>2, <2>1, <2>2
<1>6. CASE AppsWorked
  <2>1. UNCHANGED <<account, pool, ops, shown>>
    BY <1>6 DEF AppsWorked, AppLaunched, AppUninstalled, InfoArrives, InfoFails, poolVars
  <2>2. AppsKept(apps', ops)
    BY <1>1, <1>6, AppsWorkedKeeps
  <2> QED
    BY <1>2, <2>1, <2>2
<1>7. apps.tabs.active \in Dev \cup {NoDevice}
  BY <1>1 DEF AppsKept, TabsKept, TabSets
<1>8. ASSUME NEW kind \in {"install", "export"}, ops' = Started(kind, apps.tabs.active, 1),
             apps.tabs.active # NoDevice, apps' = Runs(apps), UNCHANGED <<account, pool, shown>>
      PROVE  IInv'
  <2>1. apps.tabs.active \in Dev /\ pool' = pool /\ kind \in {"download", "upload", "install", "export"}
    BY <1>7, <1>8
  <2>2. Shared /\ \E x : x.kind = kind /\ ops' = ops \cup {x}
    BY <1>1, <1>8, <2>1, StartedKeeps
  <2>3. PICK k : k.kind = kind /\ ops' = ops \cup {k}
    BY <2>2
  <2>4. /\ \A x : x.kind = "upload" => (x \in ops <=> x \in ops')
        /\ TerminalsSame(ops, ops') /\ Acting(ops')
    BY <1>8, <2>3 DEF TerminalsSame, Acting
  <2>5. FilesKept(files, ops') /\ AppsKept(apps', ops') /\ TermsKept(terms, ops')
    BY <1>1, <1>8, <2>4, UploadsSame, AppTransferStarts, TermsSame
  <2> QED
    BY <1>1, <1>8, <2>2, <2>5 DEF IInv, Shared
<1>9. CASE InstallApk
  BY <1>8, <1>9 DEF InstallApk, AppMenu, poolVars
<1>10. CASE DownloadApp
  BY <1>8, <1>10 DEF DownloadApp, AppMenu, poolVars
<1> QED
  BY <1>3, <1>4, <1>5, <1>6, <1>9, <1>10 DEF AppsActs

\* The ends of the transfers.
LEMMA EndsSteps ==
  ASSUME IInv, NEW S, Ends(S)
  PROVE  IInv'
<1>1. /\ account \in Accounts /\ OpsKept(ops) /\ PoolKept(pool, ops)
      /\ FilesKept(files, ops) /\ AppsKept(apps, ops) /\ TermsKept(terms, ops)
      /\ shown # "terminal" => terms.made = {}
  BY DEF IInv
<1>2. ASSUME NEW o \in ops, NEW status, TransferEnds(o, status), o.kind # "terminal"
      PROVE  /\ Shared /\ TerminalsSame(ops, ops')
             /\ o.kind # "upload" => \A x : x.kind = "upload" => (x \in ops <=> x \in ops')
             /\ o.kind \notin {"install", "export"} => (Acting(ops) => Acting(ops'))
  <2>1. Shared /\ \E x : x.kind = "ended" /\ ops' = (ops \ {o}) \cup {x}
    BY <1>1, <1>2, TransferEndsKeeps
  <2>2. PICK k : k.kind = "ended" /\ ops' = (ops \ {o}) \cup {k}
    BY <2>1
  <2> QED
    BY <1>2, <2>1, <2>2 DEF TerminalsSame, Acting
<1>3. CASE DownloadEnds(S) /\ UNCHANGED <<apps, terms>>
  <2>1. (\E o \in ops, status \in S : o.kind = "download" /\ TransferEnds(o, status))
        /\ UNCHANGED <<account, shown, files, apps, terms>>
    BY <1>3, Zenon DEF DownloadEnds
  <2>2. Shared /\ FilesKept(files, ops') /\ AppsKept(apps, ops') /\ TermsKept(terms, ops')
    BY <1>1, <1>2, <2>1, UploadsSame, AppsOpsKeep, TermsSame
  <2> QED
    BY <1>1, <2>1, <2>2 DEF IInv, Shared
<1>4. CASE UploadEnds(S) /\ UNCHANGED <<apps, terms>>
  <2>1. (\E o \in ops, status \in S : o.kind = "upload" /\ TransferEnds(o, status))
        /\ UNCHANGED <<account, shown, apps, terms>>
    BY <1>4, Zenon DEF UploadEnds
  <2>2. Shared /\ AppsKept(apps, ops') /\ TermsKept(terms, ops')
    BY <1>1, <1>2, <2>1, AppsOpsKeep, TermsSame
  <2>3. FilesKept(files', ops')
    BY <1>1, <1>4, UploadEndsKeeps
  <2> QED
    BY <1>1, <2>1, <2>2, <2>3 DEF IInv, Shared
<1>5. CASE (InstallEnds(S) \/ DownloadAppEnds(S)) /\ UNCHANGED <<files, terms>>
  <2>1. (\E o \in ops, status \in S : o.kind \in {"install", "export"} /\ TransferEnds(o, status))
        /\ UNCHANGED <<account, shown, files, terms>>
    BY <1>5, Zenon DEF InstallEnds, DownloadAppEnds
  <2>2. Shared /\ FilesKept(files, ops') /\ TermsKept(terms, ops')
    BY <1>1, <1>2, <2>1, UploadsSame, TermsSame
  <2>3. AppsKept(apps', ops')
    BY <1>1, <1>5, AppTransferEnds
  <2> QED
    BY <1>1, <2>1, <2>2, <2>3 DEF IInv, Shared
<1> QED
  BY <1>3, <1>4, <1>5 DEF Ends

\* The steps of the terminal view, and its connections.
LEMMA TermsSteps ==
  ASSUME IInv, TermsActs \/ TerminalSteps \/ TerminalResumes, UNCHANGED <<files, apps>>
  PROVE  IInv'
<1>1. /\ account \in Accounts /\ OpsKept(ops) /\ PoolKept(pool, ops)
      /\ FilesKept(files, ops) /\ AppsKept(apps, ops) /\ TermsKept(terms, ops)
      /\ shown # "terminal" => terms.made = {}
  BY DEF IInv
<1>2. ASSUME TermsStep, account' = account, shown' # "terminal" => terms'.made = {}
      PROVE  IInv'
  BY <1>1, <1>2, OthersViews DEF IInv, TermsStep, Shared
<1>3. CASE TermsActs
  <2>1. account' = account /\ shown' = "terminal"
    BY <1>3 DEF TermsActs, TermsActivateTab, TermsCloseTab
  <2> QED
    BY <1>1, <1>2, <1>3, <2>1, TermsActsKeep
<1>4. CASE TerminalSteps \/ TerminalResumes
  <2>1. /\ account' = account /\ shown' = shown
        /\ TerminalOpens \/ TerminalMessage \/ TerminalCloses \/ TerminalRefused \/ TerminalAborts
    BY <1>4 DEF TerminalSteps, TerminalResumes
  <2>2. CASE TerminalOpens
    <3>1. Progress
      BY <1>1, <2>2, OperationProgress
    <3>2. terms' = terms
      BY <2>2 DEF TerminalOpens
    <3> QED
      BY <1>1, <2>1, <3>1, <3>2, ViewsAdvance, TermsAdvance DEF IInv, Progress
  <2>3. CASE TerminalMessage
    <3>1. TermsKept(terms', ops) /\ terms'.made = terms.made /\ pool' = pool /\ ops' = ops
      BY <1>1, <2>3, MessageKeeps
    <3> QED
      BY <1>1, <2>1, <3>1 DEF IInv
  <2>4. CASE TerminalCloses \/ TerminalRefused \/ TerminalAborts
    BY <1>1, <1>2, <2>1, <2>4, TerminalEndsKeep
  <2> QED
    BY <2>1, <2>2, <2>3, <2>4
<1> QED
  BY <1>3, <1>4

\* The user goes to another view.
LEMMA ShowSteps ==
  ASSUME IInv, Show \/ ShowHome
  PROVE  IInv'
<1>1. /\ account \in Accounts /\ OpsKept(ops) /\ PoolKept(pool, ops)
      /\ FilesKept(files, ops) /\ AppsKept(apps, ops) /\ TermsKept(terms, ops)
      /\ shown # "terminal" => terms.made = {}
  BY DEF IInv
<1>2. ASSUME TermsStep, account' = account, shown' # "terminal" => terms'.made = {},
             FilesKept(files', ops), AppsKept(apps', ops)
      PROVE  IInv'
  BY <1>1, <1>2, OthersViews DEF IInv, TermsStep, Shared
<1>3. ASSUME UNCHANGED <<terms, pool, ops>>
      PROVE  TermsStep
  BY <1>1, <1>3 DEF TermsStep, Shared, OthersSame
<1>4. CASE Show
  <2>1. PICK v \in {"files", "apps", "terminal", "tasks"}, d \in Dev \cup {NoDevice} :
          /\ v # shown /\ shown' = v
          /\ IF v = "files" THEN FilesShown(d) ELSE UNCHANGED files
          /\ IF v = "apps" THEN AppsShown(d) ELSE UNCHANGED apps
          /\ CASE v = "terminal"     -> TermsShown(d)
               [] shown = "terminal" -> TermsHidden
               [] OTHER              -> UNCHANGED <<terms, pool, ops>>
          /\ UNCHANGED account
    BY <1>4, Zenon DEF Show
  <2>2. FilesKept(files', ops)
    BY <1>1, <2>1, FilesTabStepsKeep
  <2>3. AppsKept(apps', ops)
    BY <1>1, <2>1, AppsTabStepsKeep
  <2>4. TermsStep /\ (shown' # "terminal" => terms'.made = {})
    <3>1. CASE v = "terminal"
      <4>1. TermsShown(d)
        BY <2>1, <3>1
      <4> QED
        BY <1>1, <2>1, <3>1, <4>1, TermsShownKeeps
    <3>2. CASE v # "terminal" /\ shown = "terminal"
      <4>1. TermsHidden
        BY <2>1, <3>2
      <4> QED
        BY <1>1, <4>1, TermsHiddenKeeps
    <3>3. CASE v # "terminal" /\ shown # "terminal"
      <4>1. UNCHANGED <<terms, pool, ops>>
        BY <2>1, <3>3
      <4> QED
        BY <1>1, <1>3, <3>3, <4>1
    <3> QED
      BY <3>1, <3>2, <3>3
  <2> QED
    BY <1>2, <2>1, <2>2, <2>3, <2>4
<1>5. CASE ShowHome
  <2>1. shown' = "home" /\ UNCHANGED <<account, files, apps>>
    BY <1>5 DEF ShowHome
  <2>2. TermsStep /\ terms'.made = {}
    <3>1. CASE shown = "terminal"
      <4>1. TermsHidden
        BY <1>5, <3>1 DEF ShowHome
      <4> QED
        BY <1>1, <4>1, TermsHiddenKeeps
    <3>2. CASE shown # "terminal"
      <4>1. UNCHANGED <<terms, pool, ops>>
        BY <1>5, <3>2 DEF ShowHome
      <4> QED
        BY <1>1, <1>3, <3>2, <4>1
    <3> QED
      BY <3>1, <3>2
  <2> QED
    BY <1>1, <1>2, <2>1, <2>2
<1> QED
  BY <1>4, <1>5

LEMMA StepInv ==
  ASSUME IInv, [Next]_vars
  PROVE  IInv'
<1>1. CASE UNCHANGED vars
  BY <1>1 DEF IInv, vars, poolVars
<1>2. CASE Next
  <2>1. CASE Resume
    <3>1. CASE Resumes /\ UNCHANGED <<account, shown, moves, files, apps, terms>>
      BY <3>1, SharedSteps
    <3>2. CASE TerminalResumes /\ UNCHANGED <<files, apps>>
      BY <3>2, TermsSteps
    <3>3. CASE Ends({"cancelled"})
      BY <3>3, EndsSteps
    <3> QED
      BY <2>1, <3>1, <3>2, <3>3 DEF Resume
  <2>2. CASE Events
    BY <2>2, SharedSteps, FilesSteps, AppsSteps, TermsSteps, EndsSteps, ShowSteps DEF Events
  <2> QED
    BY <1>2, <2>1, <2>2 DEF Next
<1> QED
  BY <1>1, <1>2

LEMMA Invariant == Spec => []IInv
BY InitInv, StepInv, PTL DEF Spec

---------------------------------------------------------------------------
(* Theorems                                                                *)

\* What carries an operation was asked for by the account it was begun under, and what is
\* up is the entry of its device: acquire, with the accounts that come and go, with late
\* successes and with attempts that take the place of another.
THEOREM OwnedAlways == Spec => []ConnectionsOwned
<1>1. IInv => ConnectionsOwned
  BY DEF IInv, PoolKept, UpIsEntry, Carries, ConnectionsOwned
<1> QED
  BY <1>1, Invariant, PTL

\* The list of tasks tells the truth: a task runs exactly while its transfer does, and
\* offers to be cancelled only while that would be heard.
THEOREM TruthfulAlways == Spec => []TaskTruthful
<1>1. IInv => TaskTruthful
  BY DEF IInv, OpsKept, Sound, TaskTruthful
<1> QED
  BY <1>1, Invariant, PTL

\* What the file view shows as current was listed for the tab and the directory it is at.
THEOREM ListingAlways == Spec => []ListingOfTab
<1>1. IInv => ListingOfTab
  BY DEF IInv, FilesKept, Listing, HasCurrentListing, ListingOfTab
<1> QED
  BY <1>1, Invariant, PTL

\* The flags of the views end with what they stand for.
THEOREM FlagsAlwaysEnd == Spec => []FlagsEnd
<1>1. IInv => FlagsEnd
  <2> SUFFICES ASSUME IInv PROVE FlagsEnd
    OBVIOUS
  <2>1. \A o \in ops : o.kind \in {"upload", "install", "export"} => o.phase # "over"
    BY DEF IInv, OpsKept, Sound
  <2>2. files.loading <=> \E c \in files.list : c.latest
    BY DEF IInv, FilesKept, Spins, HasLatest
  <2>3. apps.loading <=> \E c \in apps.list : c.latest
    BY DEF IInv, AppsKept, HasLatest
  <2>4. files.uploading <=> \/ \E o \in ops : o.kind = "upload" /\ o.phase # "over"
                            \/ \E c \in files.list : c.upload
    BY <2>1 DEF IInv, FilesKept, UploadsAgree, HasUpload, Lists
  <2>5. apps.running => \/ \E o \in ops : o.kind \in {"install", "export"} /\ o.phase # "over"
                        \/ \E c \in apps.list : c.run
                        \/ \E k \in DOMAIN apps.work : apps.work[k] > 0
    <3>1. apps.work \in Works /\ (apps.running => Acting(ops) \/ Runners(apps.list) \/ Working(apps.work))
      BY DEF IInv, AppsKept, Apps, Works
    <3>2. Working(apps.work) => \E k \in DOMAIN apps.work : apps.work[k] > 0
      BY <3>1 DEF Works, Working
    <3> QED
      BY <2>1, <3>1, <3>2 DEF Acting, Runners
  <2>6. apps.infoLoading => apps.work.info > 0
    BY DEF IInv, AppsKept
  <2> QED
    BY <2>2, <2>3, <2>4, <2>5, <2>6 DEF FlagsEnd
<1> QED
  BY <1>1, Invariant, PTL

\* Every terminal belongs to a tab of the view that is shown, its connection is the only
\* one, and a tab that says that it is connected is.
THEOREM OwnedTerminals == Spec => []TerminalsOwned
<1>1. IInv => TerminalsOwned
  BY DEF IInv, TermsKept, Attached, Online, OpsKept, Sound, TerminalsOwned
<1> QED
  BY <1>1, Invariant, PTL
=============================================================================
