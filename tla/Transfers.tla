------------------------------ MODULE Transfers ------------------------------
(***************************************************************************)
(* What the file, app and terminal views of the web client share: the pool *)
(* of WebRTC connections to devices (connection.ts), the requests that go  *)
(* over one of them or over HTTP (requests.ts, transfer.ts), and the task  *)
(* list that shows the transfers and cancels them (tasks.ts).              *)
(*                                                                         *)
(* A transfer, or a terminal's connection, is one record, an "operation".  *)
(* Handlers run to their first wait; what a settled promise resumes runs   *)
(* before the next event (Urgent).                                         *)
(***************************************************************************)
EXTENDS Naturals, FiniteSets

CONSTANTS
  Dev,       \* devices
  Accounts,  \* accounts that sign in, in this page or in another one of the browser
  Attempts,  \* bound: numbers for the connections that exist at a time
  MaxMoves   \* bound: what the user does, the changes of the account, and what befalls
             \* a connection that was established

ASSUME TransfersAssumption ==
  /\ 0 \notin Dev /\ Attempts \subseteq Nat \ {0}
  /\ Accounts # {} /\ "" \notin Accounts /\ MaxMoves \in Nat

VARIABLES
  account,  \* the account that is signed in, the pool's getScope
  pool,     \* the connections, and which of them is the entry of which device
  ops,      \* the operations
  shown,    \* the view that is shown
  moves     \* how many bounded moves were made

poolVars == <<account, pool>>

Move == moves < MaxMoves /\ moves' = moves + 1

------------------------------------------------------------------------------
(* The connections.                                                        *)

\* "asked" until it is established; "down" while the peer connection is disconnected;
\* "unavailable" keeps a failure for a while; "dropped": it ended when it was no longer
\* its device's entry.
NoAttempt == [phase |-> "none", dev |-> 0, scope |-> ""]

Attempt(d, scope) == [phase |-> "asked", dev |-> d, scope |-> scope]

InitPool == [scope |-> "", entry |-> [d \in Dev |-> 0], try |-> [n \in Attempts |-> NoAttempt]]

Connected(phase) == phase \in {"open", "down"}

IsEntry(P, n) == P.try[n].dev # 0 /\ P.entry[P.try[n].dev] = n

\* close: the connections of the entries are closed, the entries forgotten.
ClosePool(P) ==
  [P EXCEPT !.entry = [d \in Dev |-> 0],
            !.try   = [n \in Attempts |->
                         IF IsEntry(P, n) /\ @[n].phase # "asked"
                         THEN [@[n] EXCEPT !.phase = "closed"] ELSE @[n]]]

\* Mutated: a change of the account goes unnoticed.
InScope_Unnoticed(P) == [P EXCEPT !.scope = account]

\* What acquire does first: the connections of another account are closed.
InScope(P) == IF P.scope = account THEN P ELSE [ClosePool(P) EXCEPT !.scope = account]

\* The number of an attempt that nothing refers to.
Unused(P) == CHOOSE n \in Attempts : P.try[n].phase = "none"

HasUnused(P) == \E n \in Attempts : P.try[n].phase = "none"

\* acquire for a signal that is not aborted: the pool it leaves, and the attempt
\* whose connection it returns or waits for; 0 when the device is known not to answer.
Acquire(P, d) ==
  LET Q == InScope(P)
      e == Q.entry[d]
      n == Unused(Q)
  IN  IF e # 0 /\ Q.try[e].phase \in {"asked", "open"} THEN [pool |-> Q, conn |-> e]
      ELSE IF e # 0 /\ Q.try[e].phase = "unavailable" THEN [pool |-> Q, conn |-> 0]
      ELSE [pool |-> [Q EXCEPT !.entry[d] = n,
                               !.try = [k \in Attempts |->
                                  CASE k = n -> Attempt(d, account)
                                    [] k = e -> [@[k] EXCEPT !.phase = "closed"]
                                    [] OTHER -> @[k]]],
            conn |-> n]

\* What nothing refers to any more is forgotten; so is an entry whose connection is
\* closed, which is as good as none.
Referred(P, O) ==
  LET used == {n \in Attempts : \/ P.try[n].phase \in {"asked", "open", "down"}
                               \/ (P.try[n].phase = "unavailable" /\ IsEntry(P, n))
                               \/ \E o \in O : o.conn = n}
  IN  [P EXCEPT !.entry = [d \in Dev |-> IF @[d] \in used THEN @[d] ELSE 0],
                !.try   = [n \in Attempts |-> IF n \in used THEN @[n] ELSE NoAttempt]]

\* The pool P and the operations O are what is there next.
Now(P, O) == ops' = O /\ pool' = Referred(P, O)

\* Mutated: the connection is taken whatever became of its entry.
Established_Unasked(P, n) == [P EXCEPT !.try[n].phase = "open"]

\* What the pool makes of a connection that is established: it is closed unless the
\* attempt is still its device's entry.
Established(P, n) ==
  [P EXCEPT !.try[n].phase = IF IsEntry(P, n) THEN "open" ELSE "dropped"]

AttemptOpens ==
  \E n \in Attempts : pool.try[n].phase = "asked" /\ Now(Established(pool, n), ops)

AttemptFails ==
  \E n \in Attempts :
    /\ pool.try[n].phase = "asked"
    /\ Now([pool EXCEPT !.try[n].phase =
              IF IsEntry(pool, n) THEN "unavailable" ELSE "dropped"], ops)

\* unavailableUntil passes: as an entry whose connection is closed, it is replaced.
UnavailableEnds ==
  \E n \in Attempts : pool.try[n].phase = "unavailable"
                      /\ Now([pool EXCEPT !.try[n].phase = "closed"], ops)

ConnectionFalters ==
  \E n \in Attempts, to \in {"open", "down"} :
    Connected(pool.try[n].phase) /\ pool.try[n].phase # to
    /\ Now([pool EXCEPT !.try[n].phase = to], ops)

\* The peer fails, or nobody asked anything of the connection for IDLE_TIMEOUT_MS.
ConnectionEnds ==
  \E n \in Attempts : Connected(pool.try[n].phase)
                      /\ Now([pool EXCEPT !.try[n].phase = "closed"], ops)

ConnectionSteps == (AttemptOpens \/ AttemptFails) /\ UNCHANGED <<account, shown, moves>>

ConnectionMoves == /\ Move
                   /\ \/ UnavailableEnds \/ ConnectionFalters \/ ConnectionEnds
                   /\ UNCHANGED <<account, shown>>

\* Another account signs in.
AccountChanges ==
  /\ Move
  /\ account' \in Accounts \ {account}
  /\ UNCHANGED <<pool, ops, shown>>

------------------------------------------------------------------------------
(* The operations.                                                         *)

Uploads == {"upload", "install"}
IsTask(o) == o.kind # "terminal"

\* "auth" until there is a token; "waiting" for attempt "conn"; "sending" over it, or
\* over HTTP when that is 0; "written" when all is sent; "answer": the answer to an
\* upload is read; "reading": a body is read, a terminal is open; "aborting": the
\* abort is heard; "stuck": nothing will come.
Operation(id, kind, d, left) ==
  [id |-> id, kind |-> kind, dev |-> d, left |-> left, phase |-> "auth", conn |-> 0, owner |-> "",
   aborted |-> FALSE, status |-> "running", cancelable |-> TRUE]

\* A number that none of the operations O has.
NextId(O) == CHOOSE i \in 1..(Cardinality(O) + 1) : \A o \in O : o.id # i

\* start: the task is listed, running, and may be cancelled.
Started(kind, d, left) == ops \cup {Operation(NextId(ops), kind, d, left)}

Instead(o, k) == (ops \ {o}) \cup {k}

\* finish: the task stays in the list.  Those that ended alike are one.
Finished(status) ==
  [id |-> 0, kind |-> "ended", dev |-> 0, left |-> 0, phase |-> "over", conn |-> 0, owner |-> "",
   aborted |-> FALSE, status |-> status, cancelable |-> FALSE]

\* acquire for o: it waits for, or has, the connection; or it goes over HTTP.
Asks(o) ==
  LET got == Acquire(pool, o.dev)
      k   == [o EXCEPT !.conn = got.conn, !.owner = account,
                       !.phase = IF got.conn = 0 THEN "sending" ELSE "waiting"]
  IN  HasUnused(InScope(pool)) /\ Now(got.pool, Instead(o, k))

\* The token is there: o asks for a connection.
AsksForConnection == \E o \in ops : o.phase = "auth" /\ ~o.aborted /\ Asks(o)

\* The setting of the account, which may change at any time, keeps transfers to HTTP.
AsksHttp ==
  \E o \in ops : /\ o.phase = "auth" /\ ~o.aborted /\ IsTask(o)
                 /\ Now(pool, Instead(o, [o EXCEPT !.phase = "sending"]))

\* The token is there, but the operation is aborted.  acquire still looks at the account.
AbortIsSeen ==
  \E o \in ops : /\ o.phase = "auth" /\ o.aborted
                 /\ Now(InScope(pool), Instead(o, [o EXCEPT !.phase = "aborting"]))

\* The same over HTTP: a fetch rejects, but an upload calls abort on an XMLHttpRequest
\* that is not sent, and no event ever comes.
AbortIsSeenByHttp ==
  \E o \in ops :
    /\ o.phase = "auth" /\ o.aborted /\ IsTask(o)
    /\ Now(pool, Instead(o, [o EXCEPT !.phase = IF o.kind \in Uploads THEN "stuck" ELSE "aborting"]))

\* What o makes of the attempt it waited for.
Resumed(o) ==
  CASE pool.try[o.conn].phase = "open"    -> [o EXCEPT !.phase = "sending"]
    [] pool.try[o.conn].phase = "dropped" -> [o EXCEPT !.phase = "aborting", !.conn = 0]
    [] OTHER                              -> [o EXCEPT !.phase = "sending", !.conn = 0]

Settled(o) == o.phase = "waiting" /\ pool.try[o.conn].phase # "asked"

Resumes == \E o \in ops : Settled(o) /\ Now(pool, Instead(o, Resumed(o)))

\* Nothing comes over a connection that is closed.
Carried(o) == o.conn # 0 => Connected(pool.try[o.conn].phase)

\* What runs before the next event.
Urgent == \E o \in ops : o.phase = "aborting" \/ Settled(o)

\* Mutated: the update leaves the button as it is.
Progressed_Silent(o, done) == [o EXCEPT !.phase = IF done THEN "written" ELSE "sending"]

\* The onProgress of an upload: it may be cancelled until all is sent.
Progressed(o, done) ==
  [o EXCEPT !.phase = IF done THEN "written" ELSE "sending", !.cancelable = ~done]

UploadProgress ==
  \E o \in ops, done \in BOOLEAN :
    /\ o.kind \in Uploads /\ o.phase = "sending" /\ Carried(o)
    /\ Now(pool, Instead(o, Progressed(o, done)))

\* The headers of an answer, which after an upload is deaf to an abort from then on.
Answered ==
  \E o \in ops :
    /\ IsTask(o) /\ o.phase \in {"sending", "written"} /\ Carried(o)
    /\ Now(pool, Instead(o, [o EXCEPT !.phase =
                              IF o.kind \in Uploads THEN "answer" ELSE "reading"]))

\* A file of several is uploaded: the next one begins as the first did.
NextFile ==
  \E o \in ops : /\ o.phase = "answer" /\ o.left > 1
                 /\ Now(pool, Instead(o, [o EXCEPT !.phase = "auth", !.conn = 0, !.owner = "",
                                                   !.left = @ - 1]))

\* The ends that o may come to now.
Endings(o) ==
  CASE o.phase = "aborting" -> {"cancelled"}
    [] o.phase = "answer" /\ o.left = 1 -> {"completed", "failed"}
    [] o.phase = "reading" -> {"completed", "failed"}
    [] o.phase \in {"auth", "sending", "written", "answer"} -> {"failed"}
    [] OTHER -> {}

\* The transfer o ends with this status.
TransferEnds(o, status) == status \in Endings(o) /\ Now(pool, Instead(o, Finished(status)))

OperationSteps == /\ \/ AsksForConnection \/ AsksHttp \/ AbortIsSeen \/ AbortIsSeenByHttp
                     \/ UploadProgress \/ Answered \/ NextFile
                  /\ UNCHANGED <<account, shown, moves>>

\* Where an abort is heard at once.
Hears(o) == o.phase \in {"waiting", "sending", "written", "reading"}

Aborts(o) ==
  [o EXCEPT !.aborted = TRUE, !.cancelable = FALSE,
            !.phase = IF Hears(o) THEN "aborting" ELSE @, !.conn = IF Hears(o) THEN 0 ELSE @]

\* requestCancel, from the task list or from the progress notification.
RequestCancel ==
  \E o \in ops : /\ Move /\ IsTask(o) /\ o.status = "running" /\ o.cancelable
                 /\ Now(pool, Instead(o, Aborts(o)))
                 /\ UNCHANGED <<account, shown>>

\* removeSelectedTask and clearInactiveFromMenu: only what has ended leaves the list.
RemoveTask ==
  /\ Move /\ shown = "tasks"
  /\ \E gone \in SUBSET {o \in ops : IsTask(o) /\ o.status # "running"} :
       /\ gone = {o \in ops : IsTask(o) /\ o.status # "running"} \/ Cardinality(gone) = 1
       /\ gone # {} /\ Now(pool, ops \ gone)
  /\ UNCHANGED <<account, shown>>

------------------------------------------------------------------------------
(* Properties.                                                             *)

\* An operation that has a connection has one that was asked for under the account the
\* operation was begun under, whatever account signs in meanwhile; and a connection that is
\* up is its device's entry in the pool: no change of the account, no late success and no
\* second attempt leaves one that nobody will close (DeviceConnectionPool.acquire).
ConnectionsOwned ==
  /\ \A o \in ops : o.conn # 0 /\ o.phase # "waiting" => pool.try[o.conn].scope = o.owner
  /\ \A n \in Attempts : Connected(pool.try[n].phase) => IsEntry(pool, n)

\* A task runs exactly while its transfer does, and offers to be cancelled only while
\* the transfer would hear of it and was not told already (tasks.ts, onProgress).
TaskTruthful ==
  \A o \in ops : IsTask(o) =>
    /\ o.status = "running" <=> o.phase # "over"
    /\ o.cancelable => o.status = "running" /\ ~o.aborted /\ o.phase # "written"
==============================================================================
