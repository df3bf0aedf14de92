-------------------------- MODULE MCScrcpyRuntime --------------------------
(***************************************************************************)
(* Three parts of a scrcpy runtime, each in a tour of its own: ClipboardRpc*)
(* (which this module extends), ControlQueue and VideoFanout.  They share  *)
(* the closing of the runtime (done) and little else: the clipboard's      *)
(* requests pass through the control queue as messages it never drops, and *)
(* the two locks, controlEnqueueMu and videoMu, are never held together.   *)
(* A tour leaves the other parts in their initial state.                   *)
(***************************************************************************)
EXTENDS ClipboardRpc

CONSTANTS
  Pointers, QueueCap, MaxSends,                        \* of ControlQueue
  Subscribers, ChannelCap, MaxPackets, MaxReplays      \* of VideoFanout

VARIABLES
  tour,
  sends, sender, pending, remaining, active, queue, writer, payload, accepted, written,
  holder, batch, todo, target, step, generation, keyFrame, subs, packets, chan, hand,
  afterConfig, running, held, returned, arrived, replays, unclosed

control == <<sends, sender, pending, remaining, active, queue, writer, payload, accepted, written>>
fanout == <<holder, batch, todo, target, step, generation, keyFrame, subs, packets, chan, hand,
            afterConfig, running, held, returned, arrived, replays, unclosed>>

\* done is in vars.
clipboardOnly == <<calls, waiting, channels, latest, reading, closer, closing, device>>

Queue == INSTANCE ControlQueue WITH Cap <- QueueCap

Fanout == INSTANCE VideoFanout WITH
            Cap <- ChannelCap, queue <- packets, remaining <- held, closing <- unclosed

\* What the proofs about the fan-out assume of its constants.
ASSUME FanoutBounded == Fanout!FanoutAssumption

RuntimeInit ==
  /\ tour \in {"clipboard", "control", "video"}
  /\ Init /\ Queue!Init /\ Fanout!Init

RuntimeNext ==
  /\ UNCHANGED tour
  /\ \/ tour = "clipboard" /\ Next /\ UNCHANGED <<control, fanout>>
     \/ tour = "control" /\ Queue!Next /\ UNCHANGED <<clipboardOnly, fanout>>
     \/ tour = "video" /\ Fanout!Next /\ UNCHANGED <<clipboardOnly, control>>

\* The fairness of the parts: a call whose context ends, a sender whose timer fires, the
\* holder of videoMu.  None of it is enabled in the other tours.
RuntimeSpec ==
  /\ RuntimeInit
  /\ [][RuntimeNext]_<<tour, vars, control, fanout>>
  /\ Fairness /\ Queue!Fairness /\ Fanout!Fairness

-----------------------------------------------------------------------------
\* A message that must not get lost is written once or still on its way, and of the
\* droppable ones of a kind only the latest is queued, whatever the drain and the writer
\* take from the queue meanwhile (runtime_source_health_test.go:388).
QueueKept == Queue!QueueKept

\* A pointer that goes down twice is released in between, also when the queue was too full
\* for the release (runtime_source_health_test.go:400).
DownsReleased == Queue!DownsReleased

\* A packet's buffer goes back to the pool once, exactly when nobody can read it any more,
\* and no packet is offered to a channel that may be closed.
BuffersCounted == Fanout!BuffersCounted /\ Fanout!ChannelsSafe

\* A replayed key frame directly follows its configuration at every subscriber.
ReplayIntact == Fanout!ReplayIntact

\* Nobody hangs: a clipboard call returns though the device is silent, the lock of the
\* control queue is given back whatever its writer does, and a subscriber that takes no
\* packet holds up neither the video socket nor videoMu.
NobodyHangs ==
  []<>(/\ \A c \in Calls : pc[c] \in {"idle", "done"}
       /\ sender = "idle"
       /\ holder = "nobody")
=============================================================================
