---------------------------- MODULE ControlQueue ----------------------------
(***************************************************************************)
(* The control messages of a scrcpy runtime: SendControl, which screens    *)
(* and queues what the WebRTC control channels, the clipboard and the      *)
(* refresh logic send, and writeControlLoop, which writes the queue to the *)
(* device (AYLink.Agent/internal/infra/scrcpy/runtime.go).                 *)
(*                                                                         *)
(* controlEnqueueMu is held for the whole of SendControl, so one sender    *)
(* stands for all of them: who sends next is the choice of the next        *)
(* message.  The writer does not take that lock.                           *)
(***************************************************************************)
EXTENDS Naturals, Sequences, FiniteSets

CONSTANTS
  Pointers,    \* the pointers of a touch screen
  Cap,         \* controlQueueSize
  MaxSends     \* bound: how many messages are sent in a behaviour

VARIABLES
  sends,       \* calls of SendControl so far
  sender,      \* what the holder of controlEnqueueMu does next
  pending,     \* the messages the current call has still to queue
  remaining,   \* dropQueuedControlPayloads' list of messages to put back
  active,      \* the keys of activeTouchPointers
  queue,       \* controlWrites
  writer,      \* "take", "write" or "stopped"
  payload,     \* the message the writer holds
  done,        \* the runtime is closed
  accepted,    \* history: what was queued and must not be dropped
  written      \* history: of these, what was written to the device

sending == <<sends, sender, pending, remaining, active>>
writing == <<writer, payload>>
vars == <<sending, queue, writing, done, accepted, written>>

\* Touch events of a pointer; a resize stands for the other messages of which
\* only the latest counts, a key for the other ones that must not get lost.
Touch(kind, p) == [kind |-> kind, pointer |-> {p}]

Message == {Touch(kind, p) : kind \in {"down", "move", "up"}, p \in Pointers}
             \cup [kind : {"resize", "key"}, pointer : {{}}]

Droppable(m) == m.kind \in {"move", "resize"}

SameKind(m, n) == m.kind = n.kind

Nothing == <<>>

Init ==
  /\ sends = 0
  /\ sender = "idle"
  /\ pending = <<>>
  /\ remaining = <<>>
  /\ active = {}
  /\ queue = <<>>
  /\ writer = "take"
  /\ payload = Nothing
  /\ done = FALSE
  /\ accepted = <<>>
  /\ written = <<>>

---------------------------------------------------------------------------
(* SendControl                                                             *)

FirstStep(m) == IF Droppable(m) THEN "drain" ELSE "put"

\* A move of a pointer that is not down is dropped.
DropMove(m) ==
  /\ sender = "idle"
  /\ sends < MaxSends
  /\ m.kind = "move" /\ ~(m.pointer \subseteq active)
  /\ sends' = sends + 1
  /\ UNCHANGED <<sender, pending, remaining, active, queue, writing, done, accepted, written>>

\* Mutated: a pointer that is still down is not released first.
Screened_NoRelease(m) == <<m>>

\* A pointer that is still down is released before it goes down again.
Screened(m) ==
  IF m.kind = "down" /\ m.pointer \subseteq active
  THEN <<[m EXCEPT !.kind = "up"], m>>
  ELSE <<m>>

SendControl(m) ==
  /\ sender = "idle"
  /\ sends < MaxSends
  /\ m.kind = "move" => m.pointer \subseteq active
  /\ sends' = sends + 1
  /\ pending' = Screened(m)
  /\ sender' = FirstStep(Head(Screened(m)))
  /\ UNCHANGED <<remaining, active, queue, writing, done, accepted, written>>

\* dropQueuedControlPayloads takes the messages out of the channel one by one;
\* those of another kind go to remaining.
Drain ==
  /\ sender = "drain"
  /\ queue # <<>>
  /\ queue' = Tail(queue)
  /\ remaining' = IF SameKind(Head(queue), Head(pending))
                  THEN remaining ELSE Append(remaining, Head(queue))
  /\ UNCHANGED <<sends, sender, pending, active, writing, done, accepted, written>>

\* Mutated: what was taken out is not put back.
Drained_Forgets ==
  /\ sender = "drain"
  /\ queue = <<>>
  /\ remaining' = <<>>
  /\ sender' = "put"
  /\ UNCHANGED <<sends, pending, active, queue, writing, done, accepted, written>>

Drained ==
  /\ sender = "drain"
  /\ queue = <<>>
  /\ sender' = "requeue"
  /\ UNCHANGED <<sends, pending, remaining, active, queue, writing, done, accepted, written>>

\* A send on the channel: it would block if the queue were full.
Requeue ==
  /\ sender = "requeue"
  /\ remaining # <<>>
  /\ Len(queue) < Cap
  /\ queue' = Append(queue, Head(remaining))
  /\ remaining' = Tail(remaining)
  /\ UNCHANGED <<sends, sender, pending, active, writing, done, accepted, written>>

Requeued ==
  /\ sender = "requeue"
  /\ remaining = <<>>
  /\ sender' = "put"
  /\ UNCHANGED <<sends, pending, remaining, active, queue, writing, done, accepted, written>>

\* rememberQueuedTouchPayloadLocked.
Remember(m) ==
  active' = IF m.kind \in {"down", "move"} THEN active \cup m.pointer
            ELSE IF m.kind = "up" THEN active \ m.pointer
            ELSE active

\* The first pending message is done; the next one, if any, is queued.
Proceed ==
  /\ Remember(Head(pending))
  /\ pending' = Tail(pending)
  /\ sender' = IF Tail(pending) = <<>> THEN "idle" ELSE FirstStep(Head(Tail(pending)))
  /\ UNCHANGED <<sends, remaining>>

Enqueue ==
  /\ Len(queue) < Cap
  /\ queue' = Append(queue, Head(pending))
  /\ accepted' = IF Droppable(Head(pending)) THEN accepted ELSE Append(accepted, Head(pending))
  /\ Proceed
  /\ UNCHANGED <<writing, done, written>>

\* SendControl returns an error; the messages not yet queued are given up.
Fail ==
  /\ pending' = <<>>
  /\ sender' = "idle"
  /\ UNCHANGED <<sends, remaining, active, queue, writing, done, accepted, written>>

Put == sender = "put" /\ Enqueue

\* The queue is full: a droppable message is given up, without an error.
PutDropped ==
  /\ sender = "put"
  /\ ~done
  /\ Len(queue) = Cap
  /\ Droppable(Head(pending))
  /\ Proceed
  /\ UNCHANGED <<queue, writing, done, accepted, written>>

\* The queue is full: wait for a place, for controlQueueWaitTimeout.
PutWaits ==
  /\ sender = "put"
  /\ ~done
  /\ Len(queue) = Cap
  /\ ~Droppable(Head(pending))
  /\ sender' = "wait"
  /\ UNCHANGED <<sends, pending, remaining, active, queue, writing, done, accepted, written>>

WaitedPut == sender = "wait" /\ Enqueue

WaitTimesOut == sender = "wait" /\ Fail

\* Both selects also look at done.
SenderClosed == sender \in {"put", "wait"} /\ done /\ Fail

---------------------------------------------------------------------------
(* writeControlLoop and Close                                              *)

WriterTakes ==
  /\ writer = "take"
  /\ queue # <<>>
  /\ payload' = Head(queue)
  /\ queue' = Tail(queue)
  /\ writer' = "write"
  /\ UNCHANGED <<sending, done, accepted, written>>

WriterWrites ==
  /\ writer = "write"
  /\ written' = IF Droppable(payload) THEN written ELSE Append(written, payload)
  /\ payload' = Nothing
  /\ writer' = "take"
  /\ UNCHANGED <<sending, queue, done, accepted>>

\* A write error ends the loop, not the runtime.
WriterFails ==
  /\ writer = "write"
  /\ writer' = "stopped"
  /\ UNCHANGED <<sending, queue, payload, done, accepted, written>>

WriterStops ==
  /\ writer = "take"
  /\ done
  /\ writer' = "stopped"
  /\ UNCHANGED <<sending, queue, payload, done, accepted, written>>

Close ==
  /\ ~done
  /\ done' = TRUE
  /\ UNCHANGED <<sending, queue, writing, accepted, written>>

---------------------------------------------------------------------------
Sender ==
  \/ Drain
  \/ Drained
  \/ Requeue
  \/ Requeued
  \/ Put
  \/ PutDropped
  \/ PutWaits
  \/ WaitedPut
  \/ WaitTimesOut
  \/ SenderClosed

Writer == WriterTakes \/ WriterWrites \/ WriterStops

Next ==
  \/ \E m \in Message : SendControl(m) \/ DropMove(m)
  \/ Sender
  \/ Writer
  \/ WriterFails
  \/ Close

\* A call under way goes on, and a timer that is started fires.
Fairness == WF_vars(Sender)

Spec == Init /\ [][Next]_vars

---------------------------------------------------------------------------
(* Properties                                                              *)

Occurrences(m, s) == Cardinality({i \in DOMAIN s : s[i] = m})

\* A message that must not get lost, and that SendControl has queued, is
\* written once, or still on its way: the drain that makes room for a move
\* neither loses nor repeats what the writer takes meanwhile.
MessagesConserved ==
  \A m \in {n \in Message : ~Droppable(n)} :
    Occurrences(m, accepted) =
      Occurrences(m, written) + Occurrences(m, queue) + Occurrences(m, remaining)
        + (IF payload = m THEN 1 ELSE 0)

\* runtime_source_health_test.go:388: of the droppable messages of a kind at
\* most the latest is queued, so a slow device gets the last position, not a
\* backlog.
Coalesced ==
  \A i, j \in DOMAIN queue :
    Droppable(queue[i]) /\ SameKind(queue[i], queue[j]) => i = j

\* A message that must not get lost is written once or still on its way, and of the
\* droppable ones of a kind only the latest is queued, whatever the drain and the writer
\* take from the queue meanwhile.
QueueKept == MessagesConserved /\ Coalesced

\* runtime_source_health_test.go:400: a pointer that goes down twice is
\* released in between, also when the up message, or an earlier release, was
\* given up because the queue was congested.
DownsReleased ==
  \A i, j \in DOMAIN accepted :
    /\ i < j
    /\ accepted[i].kind = "down"
    /\ accepted[j] = accepted[i]
    => \E k \in i..j : accepted[k] = [accepted[i] EXCEPT !.kind = "up"]

=============================================================================
