----------------------------- MODULE VideoFanout -----------------------------
(***************************************************************************)
(* How a scrcpy runtime hands video packets to the WebRTC sessions of a    *)
(* device: the goroutine that reads the video socket offers each packet to *)
(* the bounded channel of every subscriber, drops old packets of slow      *)
(* ones, and replays the cached configuration and key frame on request     *)
(* (AYLink.Agent/internal/infra/scrcpy/runtime.go; the subscribers are the *)
(* media bridges of internal/service/webrtc/scrcpy_bridge.go).             *)
(*                                                                         *)
(* A packet's buffer comes from a pool.  All subscribers share it, each of *)
(* them releases it once, and with the last release it is used again: a    *)
(* release too many shows one viewer the data of another packet, one too   *)
(* few loses the buffer.                                                   *)
(*                                                                         *)
(* Only who holds videoMu sends on a channel, but the subscriber receives  *)
(* at any time, between a look at the channel and the next one too.        *)
(***************************************************************************)
EXTENDS Naturals, FiniteSets, Sequences

CONSTANTS
  Subscribers,
  Cap,            \* videoPacketQueueSize, at least 2
  MaxPackets,     \* bound: packets that arrive on the video socket
  MaxReplays,     \* bound: replays of the cached key frame
  None

VARIABLES
  holder,      \* of videoMu: "nobody", "offer" or "replay"
  batch,       \* the packets still to be offered to the current subscriber
  todo,        \* the other subscribers the holder serves
  target,      \* the subscriber it serves, or None
  step,        \* how far it is: "reserve", "clear", "send", "drop" or "retry"
  generation,  \* videoGeneration
  keyFrame,    \* the generation of latestVideoKeyFrame, 0 without one
  subs,        \* the keys of videoSubscribers
  queue,       \* the subscribers' channels
  chan,        \* "none", "open", "removed", "draining" or "drained"
  hand,        \* the packet a subscriber works on
  afterConfig, \* history: the generation of the configuration it just took, or 0
  running,     \* a subscriber's loop runs
  remaining,   \* sharedReleaseState.remaining of a buffer
  returned,    \* how often a buffer went back to the pool
  arrived,     \* packets so far
  replays,     \* replays so far
  done,        \* the runtime is closed
  closing      \* the channels closeAllSubscribers has still to close

offering == <<holder, batch, todo, target, step>>
cache == <<generation, keyFrame>>
buffers == <<remaining, returned>>
bounds == <<arrived, replays>>
vars == <<offering, cache, subs, queue, chan, hand, afterConfig, running, buffers, bounds, done, closing>>

Buffers == 1..MaxPackets

\* A copy of a cached packet: buffer 0, which nobody releases.
Copy(kind) == [kind |-> kind, gen |-> generation, buffer |-> 0]

Packet == [kind : {"config", "key", "delta"}, gen : Nat, buffer : 0..MaxPackets]

FanoutAssumption ==
  /\ IsFiniteSet(Subscribers)
  /\ Cap \in Nat /\ Cap >= 2
  /\ MaxPackets \in Nat /\ MaxReplays \in Nat
  /\ None \notin Packet

Critical(p) == p.kind # "delta"

Init ==
  /\ holder = "nobody"
  /\ batch = <<>> /\ todo = {} /\ target = None /\ step = "send"
  /\ generation = 0
  /\ keyFrame = 0
  /\ subs = {}
  /\ queue = [s \in Subscribers |-> <<>>]
  /\ chan = [s \in Subscribers |-> "none"]
  /\ hand = [s \in Subscribers |-> None]
  /\ afterConfig = [s \in Subscribers |-> 0]
  /\ running = [s \in Subscribers |-> FALSE]
  /\ remaining = [b \in Buffers |-> 0]
  /\ returned = [b \in Buffers |-> 0]
  /\ arrived = 0
  /\ replays = 0
  /\ done = FALSE
  /\ closing = {}

---------------------------------------------------------------------------
(* Buffers                                                                 *)

\* The last of the sharers returns the buffer.
Release(p) ==
  IF p.buffer = 0 \/ remaining[p.buffer] = 0 THEN UNCHANGED buffers
  ELSE /\ remaining' = [remaining EXCEPT ![p.buffer] = @ - 1]
       /\ returned' = [returned EXCEPT ![p.buffer] = IF remaining[p.buffer] = 1 THEN @ + 1 ELSE @]

---------------------------------------------------------------------------
(* The subscribers                                                         *)

\* The new channel starts with the cached configuration and its key frame.
Warm == (IF generation > 0 THEN <<Copy("config")>> ELSE <<>>)
          \o (IF generation > 0 /\ keyFrame = generation THEN <<Copy("key")>> ELSE <<>>)

Subscribe(s) ==
  /\ chan[s] = "none"
  /\ holder = "nobody"
  /\ ~done
  /\ subs' = subs \cup {s}
  /\ chan' = [chan EXCEPT ![s] = "open"]
  /\ queue' = [queue EXCEPT ![s] = Warm]
  /\ running' = [running EXCEPT ![s] = TRUE]
  /\ UNCHANGED <<offering, cache, hand, afterConfig, buffers, bounds, done, closing>>

Take(s) ==
  /\ running[s]
  /\ hand[s] = None
  /\ queue[s] # <<>>
  /\ hand' = [hand EXCEPT ![s] = Head(queue[s])]
  /\ afterConfig' = [afterConfig EXCEPT ![s] =
                       IF Head(queue[s]).kind = "config" THEN Head(queue[s]).gen ELSE 0]
  /\ queue' = [queue EXCEPT ![s] = Tail(@)]
  /\ UNCHANGED <<offering, cache, subs, chan, running, buffers, bounds, done, closing>>

\* handlePacket, and then the release.
Handled(s) ==
  /\ hand[s] # None
  /\ Release(hand[s])
  /\ hand' = [hand EXCEPT ![s] = None]
  /\ UNCHANGED <<offering, cache, subs, queue, chan, afterConfig, running, bounds, done, closing>>

\* A bridge whose loop ends removes its channel, if it is still there.
Unsubscribe(s) ==
  /\ running[s]
  /\ hand[s] = None
  /\ holder = "nobody"
  /\ running' = [running EXCEPT ![s] = FALSE]
  /\ chan' = [chan EXCEPT ![s] = IF s \in subs THEN "removed" ELSE @]
  /\ subs' = subs \ {s}
  /\ UNCHANGED <<offering, cache, queue, hand, afterConfig, buffers, bounds, done, closing>>

\* closeAllSubscribers goes through its channels one by one.
CloseChannel(s) ==
  /\ chan[s] = "removed"
  /\ s \in closing => \A t \in closing : chan[t] = "removed"
  /\ chan' = [chan EXCEPT ![s] = "draining"]
  /\ UNCHANGED <<offering, cache, subs, queue, hand, afterConfig, running, buffers, bounds, done, closing>>

\* releaseQueuedVideoPackets on a closed channel, until nothing is left.
DrainChannel(s) ==
  /\ chan[s] = "draining"
  /\ IF queue[s] = <<>>
     THEN /\ chan' = [chan EXCEPT ![s] = "drained"]
          /\ closing' = closing \ {s}
          /\ UNCHANGED <<queue, buffers>>
     ELSE /\ Release(Head(queue[s]))
          /\ queue' = [queue EXCEPT ![s] = Tail(@)]
          /\ UNCHANGED <<chan, closing>>
  /\ UNCHANGED <<offering, cache, subs, hand, afterConfig, running, bounds, done>>

---------------------------------------------------------------------------
(* readVideoLoop: offerLatestVideoPacket                                   *)

\* Lock videoMu, and begin with some subscriber.
Lock(who, first, packets) ==
  /\ holder' = who
  /\ \E s \in subs : target' = s /\ todo' = subs \ {s}
  /\ step' = first
  /\ batch' = packets

\* Where the generation goes with a packet of a kind.
Generation(kind) == IF kind = "config" THEN generation + 1 ELSE generation

KeyFrame(kind) ==
  CASE kind = "config" -> 0
    [] kind = "key" -> generation
    [] OTHER -> keyFrame

Arrive(kind) ==
  /\ holder = "nobody"
  /\ arrived < MaxPackets
  /\ arrived' = arrived + 1
  /\ IF done \/ subs = {}
     THEN /\ returned' = [returned EXCEPT ![arrived + 1] = 1]
          /\ UNCHANGED <<remaining, holder, batch, todo, target, step>>
     ELSE /\ remaining' = [remaining EXCEPT ![arrived + 1] = Cardinality(subs)]
          /\ Lock("offer", "send", <<[kind |-> kind, gen |-> Generation(kind), buffer |-> arrived + 1]>>)
          /\ UNCHANGED returned
  /\ generation' = IF done THEN generation ELSE Generation(kind)
  /\ keyFrame' = IF done THEN keyFrame ELSE KeyFrame(kind)
  /\ UNCHANGED <<subs, queue, chan, hand, afterConfig, running, replays, done, closing>>

KeyFramePair == <<Copy("config"), Copy("key")>>

\* The packet is in the channel: the next one, the next subscriber, or unlock.
Offered ==
  IF Tail(batch) # <<>>
  THEN /\ batch' = Tail(batch)
       /\ step' = "send"
       /\ UNCHANGED <<holder, todo, target>>
  ELSE IF todo = {}
  THEN /\ holder' = "nobody"
       /\ target' = None
       /\ batch' = <<>>
       /\ step' = "send"
       /\ UNCHANGED todo
  ELSE /\ \E s \in todo : target' = s /\ todo' = todo \ {s}
       /\ IF holder = "replay"
          THEN batch' = KeyFramePair /\ step' = "reserve"
          ELSE step' = "send" /\ UNCHANGED batch
       /\ UNCHANGED holder

\* Nobody else sends, so there is room after a packet was dropped: the code's
\* last resort, to release the packet, is never taken.
Send ==
  /\ holder # "nobody" /\ step \in {"send", "retry"}
  /\ Len(queue[target]) < Cap
  /\ queue' = [queue EXCEPT ![target] = Append(@, Head(batch))]
  /\ Offered
  /\ UNCHANGED <<cache, subs, chan, hand, afterConfig, running, buffers, bounds, done, closing>>

\* The channel is full: make room.
SendFull ==
  /\ holder # "nobody" /\ step = "send"
  /\ Len(queue[target]) = Cap
  /\ step' = "drop"
  /\ UNCHANGED <<holder, batch, todo, target, cache, subs, queue, chan, hand, afterConfig, running, buffers, bounds, done, closing>>

\* Mutated: what makes room is forgotten, not released.
DropQueued_Forgets ==
  /\ step = "drop"
  /\ queue[target] # <<>>
  /\ queue' = [queue EXCEPT ![target] = Tail(@)]
  /\ step' = IF Critical(Head(batch)) THEN "drop" ELSE "retry"
  /\ UNCHANGED <<holder, batch, todo, target, cache, subs, chan, hand, afterConfig, running, buffers, bounds, done, closing>>

\* For a delta frame the oldest packet goes, for a critical one all of them.
DropQueued ==
  /\ step = "drop"
  /\ queue[target] # <<>>
  /\ Release(Head(queue[target]))
  /\ queue' = [queue EXCEPT ![target] = Tail(@)]
  /\ step' = IF Critical(Head(batch)) THEN "drop" ELSE "retry"
  /\ UNCHANGED <<holder, batch, todo, target, cache, subs, chan, hand, afterConfig, running, bounds, done, closing>>

\* Mutated: waits until the subscriber has taken what is queued.
NothingQueued_Waits ==
  /\ step = "drop"
  /\ queue[target] = <<>> /\ hand[target] = None
  /\ step' = "retry"
  /\ UNCHANGED <<holder, batch, todo, target, cache, subs, queue, chan, hand, afterConfig, running, buffers, bounds, done, closing>>

\* The subscriber took what was left.
NothingQueued ==
  /\ step = "drop"
  /\ queue[target] = <<>>
  /\ step' = "retry"
  /\ UNCHANGED <<holder, batch, todo, target, cache, subs, queue, chan, hand, afterConfig, running, buffers, bounds, done, closing>>

---------------------------------------------------------------------------
(* ReplayLatestVideoKeyFrame, outside its cooldown                         *)

\* Mutated: one place is enough.
Crowded_One == Len(queue[target]) = Cap

\* Two places are reserved, lest the key frame evicts its configuration.
Crowded == Cap - Len(queue[target]) < 2

Reserve ==
  /\ step = "reserve"
  /\ step' = IF Crowded THEN "clear" ELSE "send"
  /\ UNCHANGED <<holder, batch, todo, target, cache, subs, queue, chan, hand, afterConfig, running, buffers, bounds, done, closing>>

Clear ==
  /\ step = "clear"
  /\ IF queue[target] = <<>>
     THEN step' = "send" /\ UNCHANGED <<queue, buffers>>
     ELSE /\ Release(Head(queue[target]))
          /\ queue' = [queue EXCEPT ![target] = Tail(@)]
          /\ UNCHANGED step
  /\ UNCHANGED <<holder, batch, todo, target, cache, subs, chan, hand, afterConfig, running, bounds, done, closing>>

Replay ==
  /\ holder = "nobody"
  /\ ~done
  /\ replays < MaxReplays
  /\ generation > 0 /\ keyFrame = generation
  /\ subs # {}
  /\ replays' = replays + 1
  /\ Lock("replay", "reserve", KeyFramePair)
  /\ UNCHANGED <<cache, subs, queue, chan, hand, afterConfig, running, buffers, arrived, done, closing>>

---------------------------------------------------------------------------
(* Close                                                                   *)

CloseRuntime ==
  /\ ~done
  /\ done' = TRUE
  /\ UNCHANGED <<offering, cache, subs, queue, chan, hand, afterConfig, running, buffers, bounds, closing>>

CloseAll ==
  /\ done
  /\ holder = "nobody"
  /\ subs # {}
  /\ closing' = subs
  /\ subs' = {}
  /\ chan' = [s \in Subscribers |-> IF s \in subs THEN "removed" ELSE chan[s]]
  /\ UNCHANGED <<offering, cache, queue, hand, afterConfig, running, buffers, bounds, done>>
---------------------------------------------------------------------------
(* Specification                                                           *)

Producer ==
  \/ Send
  \/ SendFull
  \/ DropQueued
  \/ NothingQueued
  \/ Reserve
  \/ Clear

Next ==
  \/ Producer
  \/ \E kind \in {"config", "key", "delta"} : Arrive(kind)
  \/ Replay
  \/ CloseRuntime
  \/ CloseAll
  \/ \E s \in Subscribers :
       \/ Subscribe(s)
       \/ Take(s)
       \/ Handled(s)
       \/ Unsubscribe(s)
       \/ CloseChannel(s)
       \/ DrainChannel(s)

\* Who holds videoMu runs.  Nothing is assumed of the subscribers.
Fairness == WF_vars(Producer)

Spec == Init /\ [][Next]_vars

---------------------------------------------------------------------------
(* Properties                                                              *)

\* Who can still read a buffer: the channels, in whose places it is, the subscribers at
\* work on it, and those it is being offered to.
Places(channels, b) ==
  UNION {{s} \X {i \in DOMAIN channels[s] : channels[s][i].buffer = b} : s \in Subscribers}

Readers(b) == {s \in Subscribers : hand[s] # None /\ hand[s].buffer = b}

Awaiting(b) == IF holder = "offer" /\ Head(batch).buffer = b THEN 1 + Cardinality(todo) ELSE 0

References(b) == Cardinality(Places(queue, b)) + Cardinality(Readers(b)) + Awaiting(b)

\* runtime_video_test.go:198, 209: the buffer of a packet goes back to the pool
\* once, exactly when nobody can read it any more: overflow, unsubscribing and
\* the close of the runtime, however they overlap, release it neither early
\* nor twice nor never.
BuffersCounted ==
  \A b \in 1..arrived :
    /\ remaining[b] = References(b)
    /\ returned[b] = IF References(b) = 0 THEN 1 ELSE 0

\* No send on a closed channel, which would panic, and nothing is left in one.
ChannelsSafe ==
  /\ holder # "nobody" => todo \cup {target} \subseteq subs
  /\ \A s \in Subscribers : chan[s] = "drained" => queue[s] = <<>>

\* runtime.go:410: a replayed key frame reaches a subscriber directly after its
\* configuration, also while the subscriber empties its channel.
AfterItsConfig(s) ==
  LET n == Len(queue[s]) IN
  IF n > 1 THEN queue[s][n - 1] = Copy("config") ELSE afterConfig[s] = generation

ReplayIntact ==
  [][\A s \in Subscribers :
       holder = "replay" /\ target = s /\ target' # s => AfterItsConfig(s)']_vars

=============================================================================
