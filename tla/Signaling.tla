------------------------------ MODULE Signaling ------------------------------
(***************************************************************************)
(* The signalling of one WebRTC session: WebSockets that come and go, the  *)
(* session object with its peer connection that outlives them as long as   *)
(* the session's lease is renewed, and the monitor that watches it while   *)
(* no socket is attached (AYLink.Agent/internal/service/webrtc:            *)
(* signaling.go, signaling_session.go, service.go).                        *)
(*                                                                         *)
(* Sessions with different ids share no state but the lock, so the model   *)
(* has one id.  Objects are the signalingSession values made for it.       *)
(***************************************************************************)
EXTENDS Naturals, FiniteSets

CONSTANTS
  Sockets,     \* the WebSockets of a behaviour
  Objects,     \* bound: the session objects
  MaxMonitors, \* bound: the monitors of an object
  None

ASSUME SignalingAssumption ==
  /\ IsFiniteSet(Sockets)
  /\ MaxMonitors \in Nat
  /\ None \notin Sockets /\ None \notin Objects

Seqs == 1..MaxMonitors

VARIABLES
  lease,       \* the session has a lease
  tickets,     \* tickets not yet consumed
  current,     \* the object in the service's map, or None
  made,        \* objects whose peer connection exists
  closed, conn, stop, seq,  \* fields of the objects; stop is a monitor's number or 0
  peer,        \* "new", "live", "failed" or "closed"
  callback,    \* OnConnectionStateChange: "quiet", "close" or "over"
  monitor,     \* where the monitors of an object are
  cancelled,   \* the monitors whose context is cancelled
  releasing,   \* objects that ReleaseSession's goroutines have to close
  pc,          \* where a socket's goroutine is
  object,      \* the object it works with
  previous,    \* what it has to close: a socket after attachConn
  open         \* the socket is connected

leasing == <<lease, tickets>>
fields == <<closed, conn, stop, seq>>
peers == <<peer, callback>>
monitors == <<monitor, cancelled>>
threads == <<pc, object, previous>>
vars == <<leasing, current, made, fields, peers, monitors, releasing, threads, open>>

Init ==
  /\ lease = FALSE
  /\ tickets = 1
  /\ current = None
  /\ made = {}
  /\ closed = [o \in Objects |-> FALSE]
  /\ conn = [o \in Objects |-> None]
  /\ stop = [o \in Objects |-> 0]
  /\ seq = [o \in Objects |-> 0]
  /\ peer = [o \in Objects |-> "new"]
  /\ callback = [o \in Objects |-> "quiet"]
  /\ monitor = [o \in Objects |-> [n \in Seqs |-> "none"]]
  /\ cancelled = [o \in Objects |-> {}]
  /\ releasing = {}
  /\ pc = [w \in Sockets |-> "idle"]
  /\ object = [w \in Sockets |-> None]
  /\ previous = [w \in Sockets |-> None]
  /\ open = [w \in Sockets |-> FALSE]

Goto(w, where) == pc' = [pc EXCEPT ![w] = where]

\* The socket's goroutine returns.
Return(w) ==
  /\ Goto(w, "over")
  /\ object' = [object EXCEPT ![w] = None]

Hangup(w) == open' = IF w = None THEN open ELSE [open EXCEPT ![w] = FALSE]

\* removeSignalingSession.
RemoveSignalingSession(o) == current' = IF current = o THEN None ELSE current

CancelMonitor(o) ==
  /\ cancelled' = [cancelled EXCEPT ![o] = IF stop[o] = 0 THEN @ ELSE @ \cup {stop[o]}]
  /\ stop' = [stop EXCEPT ![o] = 0]

\* closeSignalingSession; UNCHANGED seq, monitor and callback is the caller's.
CloseSignalingSession(o) ==
  IF o = None \/ closed[o] THEN UNCHANGED <<closed, conn, stop, peer, cancelled, open>>
  ELSE /\ closed' = [closed EXCEPT ![o] = TRUE]
       /\ CancelMonitor(o)
       /\ conn' = [conn EXCEPT ![o] = None]
       /\ Hangup(conn[o])
       /\ peer' = [peer EXCEPT ![o] = "closed"]

---------------------------------------------------------------------------
(* Tickets and leases                                                      *)

\* A ticket for the session of a lease.
CreateTicket ==
  /\ lease
  /\ tickets < Cardinality(Sockets)
  /\ tickets' = tickets + 1
  /\ UNCHANGED <<lease, current, made, fields, peers, monitors, releasing, threads, open>>

\* TouchSession, the heartbeat, puts it off; nothing makes a browser send one.
LeaseExpires ==
  /\ lease
  /\ lease' = FALSE
  /\ UNCHANGED <<tickets, current, made, fields, peers, monitors, releasing, threads, open>>

\* Mutated: the object is closed, but stays in the map.
ReleaseSession_Keeps ==
  /\ lease \/ current # None
  /\ lease' = FALSE
  /\ releasing' = releasing \cup ({current} \ {None})
  /\ UNCHANGED <<tickets, current, made, fields, peers, monitors, threads, open>>

ReleaseSession ==
  /\ lease \/ current # None
  /\ lease' = FALSE
  /\ releasing' = releasing \cup ({current} \ {None})
  /\ current' = None
  /\ UNCHANGED <<tickets, made, fields, peers, monitors, threads, open>>

ReleaseCloses(o) ==
  /\ o \in releasing
  /\ releasing' = releasing \ {o}
  /\ CloseSignalingSession(o)
  /\ UNCHANGED <<leasing, current, made, seq, monitor, callback, threads>>

---------------------------------------------------------------------------
(* A signalling socket                                                     *)

\* The ticket is consumed and the lease marked; a new peer connection is asked
\* for or not.
Connect(w, fresh) ==
  /\ pc[w] = "idle"
  /\ tickets > 0
  /\ tickets' = tickets - 1
  /\ lease' = TRUE
  /\ open' = [open EXCEPT ![w] = TRUE]
  /\ Goto(w, IF fresh THEN "replace" ELSE "lookup")
  /\ UNCHANGED <<current, made, fields, peers, monitors, releasing, object, previous>>

\* ReplaceSignalingSession takes the object out of the map, then closes it.
Replace(w) ==
  /\ pc[w] = "replace"
  /\ object' = [object EXCEPT ![w] = current]
  /\ current' = None
  /\ Goto(w, "closeOld")
  /\ UNCHANGED <<leasing, made, fields, peers, monitors, releasing, previous, open>>

ReplaceCloses(w) ==
  /\ pc[w] = "closeOld"
  /\ CloseSignalingSession(object[w])
  /\ object' = [object EXCEPT ![w] = None]
  /\ Goto(w, "lookup")
  /\ UNCHANGED <<leasing, current, made, seq, monitor, callback, releasing, previous>>

\* The runtime cannot be started, or the peer connection not be made.
StartFails(w) ==
  /\ pc[w] \in {"lookup", "build"}
  /\ open' = [open EXCEPT ![w] = FALSE]
  /\ Return(w)
  /\ UNCHANGED <<leasing, current, made, fields, peers, monitors, releasing, previous>>

\* getOrCreateSignalingSession: use the object in the map, ...
Lookup(w) ==
  /\ pc[w] = "lookup"
  /\ object' = [object EXCEPT ![w] = current]
  /\ Goto(w, IF current # None THEN "attach" ELSE "build")
  /\ UNCHANGED <<leasing, current, made, fields, peers, monitors, releasing, previous, open>>

\* ... or make one without the lock, ...
Build(w, o) ==
  /\ pc[w] = "build"
  /\ o \notin made
  /\ made' = made \cup {o}
  /\ object' = [object EXCEPT ![w] = o]
  /\ Goto(w, "store")
  /\ UNCHANGED <<leasing, current, fields, peers, monitors, releasing, previous, open>>

\* ... and store it, unless another socket was faster.
Store(w) ==
  /\ pc[w] = "store"
  /\ current = None
  /\ current' = object[w]
  /\ Goto(w, "attach")
  /\ UNCHANGED <<leasing, made, fields, peers, monitors, releasing, object, previous, open>>

StoreLate(w) ==
  /\ pc[w] = "store"
  /\ current # None
  /\ peer' = [peer EXCEPT ![object[w]] = "closed"]
  /\ object' = [object EXCEPT ![w] = current]
  /\ Goto(w, "attach")
  /\ UNCHANGED <<leasing, current, made, fields, callback, monitors, releasing, previous, open>>

Attach(w) ==
  /\ pc[w] = "attach"
  /\ ~closed[object[w]]
  /\ CancelMonitor(object[w])
  /\ previous' = [previous EXCEPT ![w] = conn[object[w]]]
  /\ conn' = [conn EXCEPT ![object[w]] = w]
  /\ Goto(w, "greet")
  /\ UNCHANGED <<leasing, current, made, closed, seq, peers, monitor, releasing, object, open>>

\* Closed meanwhile: the socket is served with a dead peer connection.
AttachClosed(w) ==
  /\ pc[w] = "attach"
  /\ closed[object[w]]
  /\ Goto(w, "dead")
  /\ UNCHANGED <<leasing, current, made, fields, peers, monitors, releasing, object, previous, open>>

\* Mutated: the older socket is left alone.
CloseReplaced_Not(w) ==
  /\ pc[w] = "greet"
  /\ previous' = [previous EXCEPT ![w] = None]
  /\ Goto(w, "serve")
  /\ UNCHANGED <<leasing, current, made, fields, peers, monitors, releasing, object, open>>

\* "replaced by a newer signaling connection"
CloseReplaced(w) ==
  /\ pc[w] = "greet"
  /\ Hangup(previous[w])
  /\ previous' = [previous EXCEPT ![w] = None]
  /\ Goto(w, "serve")
  /\ UNCHANGED <<leasing, current, made, fields, peers, monitors, releasing, object>>

\* handleSessionDescription: the peer connections connect.
Negotiate(w) ==
  /\ pc[w] = "serve"
  /\ peer[object[w]] = "new"
  /\ peer' = [peer EXCEPT ![object[w]] = "live"]
  /\ UNCHANGED <<leasing, current, made, fields, callback, monitors, releasing, threads, open>>

\* The browser leaves.
Disconnect(w) ==
  /\ open[w] /\ pc[w] \in {"serve", "dead"}
  /\ open' = [open EXCEPT ![w] = FALSE]
  /\ UNCHANGED <<leasing, current, made, fields, peers, monitors, releasing, threads>>

DetachConn(w) ==
  conn' = [conn EXCEPT ![object[w]] = IF @ = w THEN None ELSE @]

\* ReadMessage returns an error.
ReadEnds(w) ==
  /\ pc[w] \in {"serve", "dead"}
  /\ ~open[w]
  /\ DetachConn(w)
  /\ Goto(w, "ask")
  /\ UNCHANGED <<leasing, current, made, closed, stop, seq, peers, monitors, releasing, object, previous, open>>

\* A message cannot be handled: the object is left to itself.
HandlerFails(w) ==
  /\ pc[w] \in {"serve", "dead"}
  /\ DetachConn(w)
  /\ open' = [open EXCEPT ![w] = FALSE]
  /\ Return(w)
  /\ UNCHANGED <<leasing, current, made, closed, stop, seq, peers, monitors, releasing, previous>>

AskLease(w) ==
  /\ pc[w] = "ask"
  /\ Goto(w, IF lease THEN "watch" ELSE "remove")
  /\ UNCHANGED <<leasing, current, made, fields, peers, monitors, releasing, object, previous, open>>

\* startDetachedMonitor.
StartDetachedMonitor(w) ==
  /\ pc[w] = "watch"
  /\ LET o == object[w]
     IN IF closed[o] \/ stop[o] # 0
        THEN UNCHANGED <<stop, seq, monitor>>
        ELSE /\ seq' = [seq EXCEPT ![o] = @ + 1]
             /\ stop' = [stop EXCEPT ![o] = seq[o] + 1]
             /\ monitor' = [monitor EXCEPT ![o][seq[o] + 1] = "tick"]
  /\ Return(w)
  /\ UNCHANGED <<leasing, current, made, closed, conn, peers, cancelled, releasing, previous, open>>

Remove(w) ==
  /\ pc[w] = "remove"
  /\ RemoveSignalingSession(object[w])
  /\ Goto(w, "close")
  /\ UNCHANGED <<leasing, made, fields, peers, monitors, releasing, object, previous, open>>

SocketCloses(w) ==
  /\ pc[w] = "close"
  /\ CloseSignalingSession(object[w])
  /\ Return(w)
  /\ UNCHANGED <<leasing, current, made, seq, monitor, callback, releasing, previous>>

---------------------------------------------------------------------------
(* The monitor of a detached session                                       *)

Move(o, n, where) == monitor' = [monitor EXCEPT ![o][n] = where]

\* The context is done.  The ticker may be ready too, and be chosen.
MonitorStops(o, n) ==
  /\ monitor[o][n] = "tick"
  /\ n \in cancelled[o]
  /\ Move(o, n, "leave")
  /\ UNCHANGED <<leasing, current, made, fields, peers, cancelled, releasing, threads, open>>

MonitorTicks(o, n) ==
  /\ monitor[o][n] = "tick"
  /\ Move(o, n, IF conn[o] # None THEN "leave" ELSE "ask")
  /\ UNCHANGED <<leasing, current, made, fields, peers, cancelled, releasing, threads, open>>

MonitorAsksLease(o, n) ==
  /\ monitor[o][n] = "ask"
  /\ Move(o, n, IF lease THEN "peer" ELSE "remove")
  /\ UNCHANGED <<leasing, current, made, fields, peers, cancelled, releasing, threads, open>>

MonitorLooksAtPeer(o, n) ==
  /\ monitor[o][n] = "peer"
  /\ Move(o, n, IF callback[o] = "quiet" THEN "tick" ELSE "remove")
  /\ UNCHANGED <<leasing, current, made, fields, peers, cancelled, releasing, threads, open>>

MonitorRemoves(o, n) ==
  /\ monitor[o][n] = "remove"
  /\ RemoveSignalingSession(o)
  /\ Move(o, n, "close")
  /\ UNCHANGED <<leasing, made, fields, peers, cancelled, releasing, threads, open>>

MonitorCloses(o, n) ==
  /\ monitor[o][n] = "close"
  /\ CloseSignalingSession(o)
  /\ Move(o, n, "leave")
  /\ UNCHANGED <<leasing, current, made, seq, callback, releasing, threads>>

Forgets(o, n) == seq[o] = n

MonitorLeaves(o, n) ==
  /\ monitor[o][n] = "leave"
  /\ Move(o, n, "over")
  /\ stop' = [stop EXCEPT ![o] = IF Forgets(o, n) THEN 0 ELSE @]
  /\ UNCHANGED <<leasing, current, made, closed, conn, seq, peers, cancelled, releasing, threads, open>>

---------------------------------------------------------------------------
(* The peer connection                                                     *)

PeerFails(o) ==
  /\ peer[o] = "live"
  /\ peer' = [peer EXCEPT ![o] = "failed"]
  /\ UNCHANGED <<leasing, current, made, fields, callback, monitors, releasing, threads, open>>

\* OnConnectionStateChange for "failed" or "closed": setPeerState, remove ...
PeerReports(o) ==
  /\ peer[o] \in {"failed", "closed"}
  /\ callback[o] = "quiet"
  /\ RemoveSignalingSession(o)
  /\ callback' = [callback EXCEPT ![o] = "close"]
  /\ UNCHANGED <<leasing, made, fields, peer, monitors, releasing, threads, open>>

\* ... and close.
CallbackCloses(o) ==
  /\ callback[o] = "close"
  /\ CloseSignalingSession(o)
  /\ callback' = [callback EXCEPT ![o] = "over"]
  /\ UNCHANGED <<leasing, current, made, seq, monitor, releasing, threads>>

---------------------------------------------------------------------------
(* Specification                                                           *)

Socket(w) ==
  \/ Replace(w) \/ ReplaceCloses(w)
  \/ Lookup(w) \/ Store(w) \/ StoreLate(w)
  \/ Attach(w) \/ AttachClosed(w) \/ CloseReplaced(w)
  \/ ReadEnds(w) \/ AskLease(w) \/ StartDetachedMonitor(w)
  \/ Remove(w) \/ SocketCloses(w)
  \/ \E o \in Objects : Build(w, o)

Monitor(o, n) ==
  \/ MonitorStops(o, n) \/ MonitorTicks(o, n)
  \/ MonitorAsksLease(o, n) \/ MonitorLooksAtPeer(o, n)
  \/ MonitorRemoves(o, n) \/ MonitorCloses(o, n) \/ MonitorLeaves(o, n)

Peer(o) == PeerReports(o) \/ CallbackCloses(o)

Next ==
  \/ CreateTicket \/ LeaseExpires \/ ReleaseSession
  \/ \E w \in Sockets :
       \/ \E fresh \in BOOLEAN : Connect(w, fresh)
       \/ Socket(w) \/ StartFails(w) \/ Negotiate(w) \/ Disconnect(w) \/ HandlerFails(w)
  \/ \E o \in Objects :
       \/ ReleaseCloses(o) \/ Peer(o) \/ PeerFails(o)
       \/ \E n \in Seqs : Monitor(o, n)

\* Goroutines and callbacks run.  Browsers, peers and leases do as they like.
Fairness ==
  /\ \A w \in Sockets : WF_vars(Socket(w))
  /\ \A o \in Objects :
       /\ WF_vars(ReleaseCloses(o) \/ Peer(o))
       /\ \A n \in Seqs : WF_vars(Monitor(o, n))

Spec == Init /\ [][Next]_vars

FairSpec == Spec /\ Fairness

---------------------------------------------------------------------------
(* Properties                                                              *)

\* The map never holds a closed object, which would refuse every offer of the
\* browser until its lease ends; and a closed object keeps no socket and no
\* monitor, whatever attach, detach and the five ways to close it overlap.
ClosedIsGone ==
  \A o \in Objects :
    closed[o] => current # o /\ conn[o] = None /\ stop[o] = 0

\* A monitor at work is the one that detachedMonitorStop cancels: there is only
\* one of an object, and the next socket to attach stops it, although monitors
\* that were stopped earlier leave, and clean up, whenever they please.
MonitorsCancellable ==
  \A o \in Objects : \A n \in Seqs :
    monitor[o][n] \notin {"none", "leave", "over"} /\ n \notin cancelled[o] => stop[o] = n

\* What a session leaves behind is found again: it is out of the map, and its monitor can be
\* stopped (closeSignalingSession, startDetachedMonitor).
SessionsInOrder == ClosedIsGone /\ MonitorsCancellable

\* signaling.go:37: a socket that was attached ends once another one has taken
\* its place or its object is closed: its goroutine holds a runtime reference,
\* so one that stayed would keep scrcpy running.  (No socket becomes displaced
\* twice, so "none is displaced" covers each of them.)
Displaced(w) == pc[w] = "serve" /\ conn[object[w]] # w

DisplacedSocketsEnd ==
  (\E w \in Sockets : Displaced(w)) ~> (\A w \in Sockets : ~Displaced(w))

\* A session whose peer connection has failed is closed, whoever is attached.
Failing(o) == peer[o] = "failed" /\ ~closed[o]

FailedPeersClose ==
  (\E o \in Objects : Failing(o)) ~> (\A o \in Objects : ~Failing(o))

\* Displaced sockets end and failed peer connections are closed, whatever else goes on.
NothingLingers == DisplacedSocketsEnd /\ FailedPeersClose
=============================================================================
