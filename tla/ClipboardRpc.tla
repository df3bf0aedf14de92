---------------------------- MODULE ClipboardRpc ----------------------------
(***************************************************************************)
(* The clipboard of the device behind a scrcpy runtime: HTTP calls that    *)
(* read and write it register a channel, send a request down the control   *)
(* socket and wait; the goroutine that reads the control socket answers    *)
(* them and keeps a cache, and the close of the runtime wakes whoever is   *)
(* left (AYLink.Agent/internal/infra/scrcpy/runtime.go and                 *)
(* internal/transport/http/handler/webrtc.go).                             *)
(*                                                                         *)
(* A call's channel has one slot and is closed by whoever took it out of   *)
(* the map; a second close would panic and end the agent.                  *)
(***************************************************************************)
EXTENDS Naturals, Sequences

CONSTANTS
  Calls,       \* the HTTP calls of a behaviour
  Texts,       \* what a clipboard can hold
  None,        \* no text, no message
  Ack,         \* what an acknowledged write receives
  Empty,       \* what a receive from a channel closed without a value returns
  Failed,      \* the result of a call that returns an error
  MaxCopies    \* bound: how often the user copies something on the device

ASSUME ClipboardAssumption ==
  /\ None \notin Calls
  /\ {None, Ack, Empty, Failed} \cap Texts = {}
  /\ None # Ack /\ None # Empty /\ None # Failed /\ Ack # Empty /\ Ack # Failed /\ Empty # Failed
  /\ MaxCopies \in Nat

VARIABLES
  pc,          \* where a call is
  wanted,      \* the text a call writes; None when it reads
  result,      \* what it returned
  waiting,     \* calls in clipboardWaiters or clipboardAckWaiters
  slot,        \* what a call's channel holds
  closes,      \* how often it was closed
  latest,      \* latestClipboardText, None without hasLatestClipboard
  handing,     \* the calls readControlLoop is answering
  answer,      \* with what
  reader,      \* readControlLoop runs
  done,        \* the runtime is closed
  closer,      \* where closeAllSubscribers is
  closing,     \* the calls it has still to wake
  requests,    \* on their way to the device
  messages,    \* on their way from the device
  clipboard,   \* what the device's clipboard holds
  copies       \* how often the user copied something

calls == <<pc, wanted, result>>
channels == <<slot, closes>>
reading == <<handing, answer, reader>>
shutdown == <<done, closer, closing>>
device == <<requests, messages, clipboard, copies>>
vars == <<calls, waiting, channels, latest, reading, shutdown, device>>

Request == [call : Calls, text : Texts \cup {None}]
Reply == [call : Calls, value : {Ack}] \cup [call : {None}, value : Texts]

Init ==
  /\ pc = [c \in Calls |-> "idle"]
  /\ wanted = [c \in Calls |-> None]
  /\ result = [c \in Calls |-> None]
  /\ waiting = {}
  /\ slot = [c \in Calls |-> None]
  /\ closes = [c \in Calls |-> 0]
  /\ latest = None
  /\ handing = {}
  /\ answer = None
  /\ reader = TRUE
  /\ done = FALSE
  /\ closer = "open"
  /\ closing = {}
  /\ requests = <<>>
  /\ messages = <<>>
  /\ clipboard \in Texts
  /\ copies = 0

Return(c, r) ==
  /\ pc' = [pc EXCEPT ![c] = "done"]
  /\ result' = [result EXCEPT ![c] = r]
  /\ UNCHANGED wanted

Goto(c, where) ==
  /\ pc' = [pc EXCEPT ![c] = where]
  /\ UNCHANGED <<wanted, result>>

---------------------------------------------------------------------------
(* The calls                                                               *)

\* A read looks at the cache first.
ReadCached(c) ==
  /\ pc[c] = "idle"
  /\ latest # None
  /\ Return(c, latest)
  /\ UNCHANGED <<waiting, channels, latest, reading, shutdown, device>>

ReadMisses(c) ==
  /\ pc[c] = "idle"
  /\ latest = None
  /\ Goto(c, "register")
  /\ UNCHANGED <<waiting, channels, latest, reading, shutdown, device>>

Write(c, t) ==
  /\ pc[c] = "idle"
  /\ pc' = [pc EXCEPT ![c] = "register"]
  /\ wanted' = [wanted EXCEPT ![c] = t]
  /\ UNCHANGED <<result, waiting, channels, latest, reading, shutdown, device>>

\* The new waiter enters the map, also when the runtime is closed by then.
Register(c) ==
  /\ pc[c] = "register"
  /\ waiting' = waiting \cup {c}
  /\ Goto(c, "send")
  /\ UNCHANGED <<channels, latest, reading, shutdown, device>>

SendRequest(c) ==
  /\ pc[c] = "send"
  /\ requests' = Append(requests, [call |-> c, text |-> wanted[c]])
  /\ Goto(c, "await")
  /\ UNCHANGED <<waiting, channels, latest, reading, shutdown, messages, clipboard, copies>>

\* Mutated: the waiter is closed without looking whether it is still there.
RemoveWaiter_Anyway(c) ==
  /\ waiting' = waiting \ {c}
  /\ closes' = [closes EXCEPT ![c] = @ + 1]
  /\ UNCHANGED slot

\* removeClipboardWaiter, removeClipboardAckWaiter: whoever takes the waiter
\* out of the map closes it.
RemoveWaiter(c) ==
  /\ waiting' = waiting \ {c}
  /\ closes' = [closes EXCEPT ![c] = IF c \in waiting THEN @ + 1 ELSE @]
  /\ UNCHANGED slot

\* An error: a read falls back to the cache.
GiveUp(c) ==
  /\ RemoveWaiter(c)
  /\ Return(c, IF wanted[c] = None /\ latest # None THEN latest ELSE Failed)
  /\ UNCHANGED <<latest, reading, shutdown, device>>

\* The control queue is congested, or the runtime is closed.
SendFails(c) == pc[c] = "send" /\ GiveUp(c)

\* The select of a waiting call: the runtime is closed, ...
CallClosed(c) == pc[c] = "await" /\ done /\ GiveUp(c)

\* ... its context ends, ...
TimesOut(c) == pc[c] = "await" /\ GiveUp(c)

\* ... or its channel has a value, or is closed.
Received(c) == IF slot[c] # None THEN slot[c] ELSE Empty

ReadAnswered(c) ==
  /\ pc[c] = "await"
  /\ wanted[c] = None
  /\ slot[c] # None \/ closes[c] > 0
  /\ Return(c, Received(c))
  /\ slot' = [slot EXCEPT ![c] = None]
  /\ UNCHANGED <<waiting, closes, latest, reading, shutdown, device>>

WriteAnswered(c) ==
  /\ pc[c] = "await"
  /\ wanted[c] # None
  /\ slot[c] # None \/ closes[c] > 0
  /\ Goto(c, "save")
  /\ slot' = [slot EXCEPT ![c] = None]
  /\ UNCHANGED <<waiting, closes, latest, reading, shutdown, device>>

\* The writer updates the cache itself, in a critical section of its own.
Save(c) ==
  /\ pc[c] = "save"
  /\ latest' = wanted[c]
  /\ Return(c, Ack)
  /\ UNCHANGED <<waiting, channels, reading, shutdown, device>>

---------------------------------------------------------------------------
(* readControlLoop                                                         *)

ReadText ==
  /\ reader /\ handing = {}
  /\ messages # <<>> /\ Head(messages).call = None
  /\ messages' = Tail(messages)
  /\ latest' = Head(messages).value
  /\ handing' = {c \in waiting : wanted[c] = None}
  /\ answer' = Head(messages).value
  /\ waiting' = {c \in waiting : wanted[c] # None}
  /\ UNCHANGED <<calls, channels, reader, shutdown, requests, clipboard, copies>>

\* Only the waiter with that sequence number, if it is still there.
Acked(c) == waiting \cap {c}

ReadAck ==
  /\ reader /\ handing = {}
  /\ messages # <<>> /\ Head(messages).call # None
  /\ messages' = Tail(messages)
  /\ handing' = Acked(Head(messages).call)
  /\ answer' = Ack
  /\ waiting' = waiting \ Acked(Head(messages).call)
  /\ UNCHANGED <<calls, channels, latest, reader, shutdown, requests, clipboard, copies>>

Notify(c) ==
  /\ c \in handing
  /\ handing' = handing \ {c}
  /\ slot' = [slot EXCEPT ![c] = answer]
  /\ closes' = [closes EXCEPT ![c] = @ + 1]
  /\ UNCHANGED <<calls, waiting, latest, answer, reader, shutdown, device>>

\* A read error ends the loop, not the runtime.
ReaderStops ==
  /\ reader /\ handing = {}
  /\ reader' = FALSE
  /\ UNCHANGED <<calls, waiting, channels, latest, handing, answer, shutdown, device>>

---------------------------------------------------------------------------
(* Close                                                                   *)

CloseRuntime ==
  /\ ~done
  /\ done' = TRUE
  /\ closer' = "take"
  /\ UNCHANGED <<calls, waiting, channels, latest, reading, closing, device>>

\* closeAllSubscribers replaces the maps ...
CloseTakes ==
  /\ closer = "take"
  /\ closer' = "wake"
  /\ closing' = waiting
  /\ waiting' = {}
  /\ UNCHANGED <<calls, channels, latest, reading, done, device>>

\* ... and closes the channels it took, without a value.
CloseWakes(c) ==
  /\ c \in closing
  /\ closing' = closing \ {c}
  /\ closes' = [closes EXCEPT ![c] = @ + 1]
  /\ UNCHANGED <<calls, waiting, slot, latest, reading, done, closer, device>>

---------------------------------------------------------------------------
(* The device (scrcpy's server): it serves requests in order, and tells    *)
(* when the user copies something.                                         *)

DeviceServes ==
  /\ requests # <<>>
  /\ requests' = Tail(requests)
  /\ LET r == Head(requests)
     IN IF r.text = None
        THEN /\ messages' = Append(messages, [call |-> None, value |-> clipboard])
             /\ UNCHANGED clipboard
        ELSE /\ messages' = Append(messages, [call |-> r.call, value |-> Ack])
             /\ clipboard' = r.text
  /\ UNCHANGED <<calls, waiting, channels, latest, reading, shutdown, copies>>

UserCopies(t) ==
  /\ copies < MaxCopies
  /\ t # clipboard
  /\ copies' = copies + 1
  /\ clipboard' = t
  /\ messages' = Append(messages, [call |-> None, value |-> t])
  /\ UNCHANGED <<calls, waiting, channels, latest, reading, shutdown, requests>>

---------------------------------------------------------------------------
Step(c) ==
  \/ Register(c)
  \/ SendRequest(c)
  \/ SendFails(c)
  \/ CallClosed(c)
  \/ TimesOut(c)
  \/ ReadAnswered(c)
  \/ WriteAnswered(c)
  \/ Save(c)

Call(c) ==
  \/ ReadCached(c)
  \/ ReadMisses(c)
  \/ \E t \in Texts : Write(c, t)

Next ==
  \/ \E c \in Calls : Call(c) \/ Step(c) \/ Notify(c) \/ CloseWakes(c)
  \/ ReadText
  \/ ReadAck
  \/ ReaderStops
  \/ CloseRuntime
  \/ CloseTakes
  \/ DeviceServes
  \/ \E t \in Texts : UserCopies(t)

\* A call's context ends (1.2 s for a read, 5 s for a write), and its
\* goroutine is scheduled.  Nothing is assumed of the device.
Fairness == \A c \in Calls : WF_vars(Step(c))

Spec == Init /\ [][Next]_vars

---------------------------------------------------------------------------
(* Properties                                                              *)

\* Every variable has its type; done is closed exactly from the first step of
\* the close on.
TypeOK ==
  /\ pc \in [Calls -> {"idle", "register", "send", "await", "save", "done"}]
  /\ wanted \in [Calls -> Texts \cup {None}]
  /\ result \in [Calls -> Texts \cup {None, Ack, Empty, Failed}]
  /\ waiting \subseteq Calls
  /\ slot \in [Calls -> Texts \cup {None, Ack}]
  /\ closes \in [Calls -> Nat]
  /\ latest \in Texts \cup {None}
  /\ handing \subseteq Calls
  /\ answer \in Texts \cup {None, Ack}
  /\ reader \in BOOLEAN
  /\ done \in BOOLEAN
  /\ closer \in {"open", "take", "wake"} /\ (done <=> closer # "open")
  /\ closing \subseteq Calls
  /\ requests \in Seq(Request)
  /\ messages \in Seq(Reply)
  /\ clipboard \in Texts
  /\ copies \in 0..MaxCopies

\* A channel is closed at most once: it is in the hands of the map, the reader
\* or the closer until one of them closes it, whatever races.
ClosedOnce ==
  \A c \in Calls :
    /\ closes[c] <= 1
    /\ c \in waiting => closes[c] = 0 /\ c \notin handing /\ c \notin closing
    /\ c \in handing => closes[c] = 0 /\ c \notin closing
    /\ c \in closing => closes[c] = 0

\* No abandoned waiter stays in the maps.
NoStrayWaiter == \A c \in waiting : pc[c] \in {"send", "await"}

\* A waiter is accounted for: whoever gives up, answers or closes the runtime, each
\* waiter's channel is closed once at most and none is forgotten in the maps.
WaitersAccounted == ClosedOnce /\ NoStrayWaiter

=============================================================================
