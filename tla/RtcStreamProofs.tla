-------------------------- MODULE RtcStreamProofs --------------------------
(* Proofs about RtcStream, for any window, chunk size and bodies. *)
EXTENDS RtcStream, Integers, TLAPS

---------------------------------------------------------------------------
(* Types                                                                   *)

Typed == TypeOK /\ claim <= sent["agent"] /\ owed <= copied["agent"]

LEMMA AgentSide == "agent" \in Side
  BY DEF Side

LEMMA ClientSide == "client" \in Side
  BY DEF Side

LEMMA AppendType ==
  ASSUME NEW T, NEW f \in [Side -> Seq(T)], NEW s \in Side, NEW e \in T
  PROVE  [f EXCEPT ![s] = Append(f[s], e)] \in [Side -> Seq(T)]
<1>1. Append(f[s], e) \in Seq(T)
  OBVIOUS
<1>2. QED
  BY <1>1

LEMMA FlushedType ==
  ASSUME Typed, NEW s \in Side
  PROVE  Flushed(s) \in Nat
<1>1. sent[s] \in Nat /\ claim \in Nat
  BY DEF Typed, TypeOK
<1>2. s = "agent" => claim <= sent[s]
  BY DEF Typed
<1>3. QED
  BY <1>1, <1>2 DEF Flushed

LEMMA ControlType ==
  ASSUME Typed, NEW s \in Side, NEW type \in {"request", "response", "data", "end", "error"}
  PROVE  Control(s, type) \in Frame
  BY FlushedType DEF Control, Frame

LEMMA PutType ==
  ASSUME Typed, NEW s \in Side, NEW f \in Frame, Put(s, f)
  PROVE  frames' \in [Side -> Seq(Frame)]
  BY DEF Put, Typed, TypeOK

LEMMA ConsumeType ==
  ASSUME Typed, NEW s \in Side, frames[Peer(s)] # <<>>, Consume(s)
  PROVE  frames' \in [Side -> Seq(Frame)]
<1>1. Peer(s) \in Side /\ frames[Peer(s)] \in Seq(Frame)
  BY DEF Peer, Side, Typed, TypeOK
<1>2. Tail(frames[Peer(s)]) \in Seq(Frame)
  BY <1>1
<1>3. QED
  BY <1>1, <1>2 DEF Consume, Typed, TypeOK

LEMMA IncomingType ==
  ASSUME Typed, NEW s \in Side, frames[Peer(s)] # <<>>
  PROVE  Incoming(s) \in Frame
<1>1. Peer(s) \in Side
  BY DEF Peer, Side
<1>2. frames[Peer(s)] \in Seq(Frame)
  BY <1>1 DEF Typed, TypeOK
<1>3. QED
  BY <1>2 DEF Incoming

LEMMA FinishType ==
  ASSUME Typed, NEW s \in Side, NEW why \in Statuses, Finish(s, why)
  PROVE  status' \in [Side -> Statuses] /\ closed' \in BOOLEAN
  BY DEF Finish, Typed, TypeOK

LEMMA RefuseType == ASSUME Typed, NEW s \in Side, Refuse(s) PROVE Typed'
<1>1. status' \in [Side -> Statuses] /\ closed' \in BOOLEAN
  BY FinishType DEF Refuse, Statuses
<1>2. frames' \in [Side -> Seq(Frame)]
  BY ControlType, PutType DEF Refuse, Typed, TypeOK
<1>3. QED
  BY <1>1, <1>2 DEF Refuse, Typed, TypeOK, flags, counters, threads, tokens

LEMMA TakableBound ==
  ASSUME Typed, NEW s \in Side, NEW n \in 1..Chunk, n \in Takable(s)
  PROVE  n \in Nat /\ 0 < n /\ n <= Chunk /\ n <= credit[s] /\ n <= body[s] - sent[s]
<1>1. Chunk \in Nat /\ credit[s] \in Nat /\ body[s] \in Nat /\ sent[s] \in Nat
  BY StreamAssumption DEF Typed, TypeOK
<1>2. n \in Nat /\ 0 < n /\ n <= Chunk
  BY <1>1
<1>3. n \in 1..Least(Chunk, credit[s]) /\ n <= body[s] - sent[s]
  BY DEF Takable
<1>4. Least(Chunk, credit[s]) \in Nat /\ Least(Chunk, credit[s]) <= credit[s]
  BY <1>1 DEF Least
<1>5. QED
  BY <1>1, <1>2, <1>3, <1>4

LEMMA TypedInit == Init => Typed
<1> SUFFICES ASSUME Init PROVE Typed
  OBVIOUS
<1>1. frames \in [Side -> Seq(Frame)] /\ credits \in [Side -> Seq(Credit)]
  <2>1. <<>> \in Seq(Frame) /\ <<>> \in Seq(Credit)
    OBVIOUS
  <2>2. QED
    BY <2>1 DEF Init
<1>2. body \in [Side -> Nat] /\ Window \in Nat
  BY StreamAssumption DEF Init
<1>3. /\ status \in [Side -> Statuses]
      /\ writer \in [Side -> {"idle", "head", "write", "send", "wait", "done"}]
  BY DEF Init, Statuses
<1>4. /\ controlled \in [Side -> BOOLEAN]
      /\ ended \in [Side -> BOOLEAN]
      /\ credit \in [Side -> Nat]
      /\ allowance \in [Side -> Nat]
      /\ sent \in [Side -> Nat]
      /\ received \in [Side -> Nat]
      /\ copied \in [Side -> Nat]
  BY <1>2 DEF Init
<1>5. claim \in Nat /\ owed \in Nat /\ claim <= sent["agent"] /\ owed <= copied["agent"]
  BY DEF Init, Side
<1>6. QED
  BY <1>1, <1>2, <1>3, <1>4, <1>5 DEF Init, Typed, TypeOK

LEMMA TypedReceive == ASSUME Typed, NEW s \in Side, Receive(s) PROVE Typed'
<1> USE DEF flags, counters, threads, tokens, wires, outcome
<1>1. CASE ReceiveHead(s)
  BY <1>1, RefuseType, ConsumeType DEF ReceiveHead, Arrives, Typed, TypeOK
<1>2. CASE ReceiveData(s)
  <2>1. CASE DataAllowed(s)
    <3>1. Incoming(s) \in Frame /\ frames' \in [Side -> Seq(Frame)]
      BY <1>2, <2>1, IncomingType, ConsumeType DEF ReceiveData, Arrives
    <3>2. /\ allowance[s] - Size(Incoming(s)) \in Nat
          /\ received[s] + Size(Incoming(s)) \in Nat
      <4>1. allowance[s] \in Nat /\ received[s] \in Nat
        BY DEF Typed, TypeOK
      <4>2. Size(Incoming(s)) \in Int
        BY <3>1 DEF Size, Frame
      <4>3. 0 < Size(Incoming(s)) /\ Size(Incoming(s)) <= allowance[s]
        BY <2>1 DEF DataAllowed
      <4>4. QED
        BY <4>1, <4>2, <4>3
    <3>3. allowance' \in [Side -> Nat] /\ received' \in [Side -> Nat] /\ inputReady' \in BOOLEAN
      BY <1>2, <2>1, <3>2 DEF ReceiveData, Typed, TypeOK
    <3>4. /\ UNCHANGED <<body, status, controlled, ended, credit, sent, copied, writer, reader,
                         claim, owed, creditReady, credits, closed, refused>>
      BY <1>2, <2>1 DEF ReceiveData
    <3>5. QED
      BY <3>1, <3>3, <3>4 DEF Typed, TypeOK
  <2>2. CASE ~DataAllowed(s)
    BY <1>2, <2>2, RefuseType DEF ReceiveData
  <2>3. QED
    BY <2>1, <2>2
<1>3. CASE ReceiveEnd(s)
  BY <1>3, RefuseType, ConsumeType DEF ReceiveEnd, Arrives, Typed, TypeOK
<1>4. CASE ReceiveError(s)
  BY <1>4, FinishType, ConsumeType DEF ReceiveError, Arrives, Typed, TypeOK, Statuses
<1>5. CASE ReceiveCredit(s)
  <2> DEFINE n == Size(Head(credits[Peer(s)]))
  <2>1. CASE 0 < n /\ n <= Window - credit[s]
    <3>1. Peer(s) \in Side /\ credits[Peer(s)] \in Seq(Credit) /\ credits[Peer(s)] # <<>>
      BY <1>5 DEF ReceiveCredit, Peer, Side, Typed, TypeOK
    <3>2. Tail(credits[Peer(s)]) \in Seq(Credit) /\ Head(credits[Peer(s)]) \in Credit
      BY <3>1
    <3>3. credit[s] + n \in Nat
      <4>1. credit[s] \in Nat
        BY DEF Typed, TypeOK
      <4>2. n \in Int
        BY <3>2 DEF Size, Credit
      <4>3. QED
        BY <2>1, <4>1, <4>2
    <3>4. credit' \in [Side -> Nat] /\ credits' \in [Side -> Seq(Credit)] /\ creditReady' \in BOOLEAN
      BY <1>5, <2>1, <3>1, <3>2, <3>3 DEF ReceiveCredit, Typed, TypeOK
    <3>5. /\ UNCHANGED <<body, status, controlled, ended, allowance, sent, received, copied,
                         writer, reader, claim, owed, inputReady, frames, closed, refused>>
      BY <1>5, <2>1 DEF ReceiveCredit
    <3>6. QED
      BY <3>4, <3>5 DEF Typed, TypeOK
  <2>2. CASE ~(0 < n /\ n <= Window - credit[s])
    BY <1>5, <2>2, RefuseType DEF ReceiveCredit
  <2>3. QED
    BY <2>1, <2>2
<1>6. CASE OnClose(s)
  BY <1>6, FinishType DEF OnClose, Typed, TypeOK, Statuses
<1>7. QED
  BY <1>1, <1>2, <1>3, <1>4, <1>5, <1>6 DEF Receive

LEMMA TypedAgentWriter == ASSUME Typed, AgentWriter \/ AgentFail PROVE Typed'
<1> USE DEF flags, counters, threads, tokens, wires, outcome, WriterGoes
<1>1. CASE AgentServe \/ AgentStall \/ AgentWake \/ AgentStop
  <2>1. /\ writer' \in [Side -> {"idle", "head", "write", "send", "wait", "done"}]
        /\ reader' \in {reader, "read"} /\ creditReady' \in {creditReady, FALSE}
        /\ inputReady' = inputReady
    BY <1>1 DEF AgentServe, AgentStall, AgentWake, AgentStop, Typed, TypeOK
  <2>2. UNCHANGED <<body, status, controlled, ended, credit, allowance, sent, received, copied,
                    claim, owed, frames, credits, closed, refused>>
    BY <1>1 DEF AgentServe, AgentStall, AgentWake, AgentStop
  <2>3. QED
    BY <2>1, <2>2 DEF Typed, TypeOK
<1>2. CASE AgentFail
  <2>1. frames' \in [Side -> Seq(Frame)]
    BY <1>2, ControlType, PutType DEF AgentFail, Side, Typed, TypeOK
  <2>2. status' \in [Side -> Statuses] /\ closed' \in BOOLEAN
    BY <1>2, FinishType DEF AgentFail, Side, Statuses
  <2>3. QED
    BY <1>2, <2>1, <2>2 DEF AgentFail, Typed, TypeOK
<1>3. CASE AgentHead \/ AgentEnd
  <2>1. frames' \in [Side -> Seq(Frame)]
    BY <1>3, ControlType, PutType DEF AgentHead, AgentEnd, Side
  <2>2. QED
    BY <1>3, <2>1 DEF AgentHead, AgentEnd, Typed, TypeOK
<1>4. ASSUME NEW n \in 1..Chunk, AgentTake(n) PROVE Typed'
  <2>1. /\ n \in Nat
        /\ n <= credit["agent"]
    BY <1>4, AgentSide, TakableBound DEF AgentTake
  <2>2. credit["agent"] \in Nat /\ sent["agent"] \in Nat
    BY AgentSide DEF Typed, TypeOK
  <2>3. credit' \in [Side -> Nat]
    <3>1. credit["agent"] - n \in Nat
      BY <2>1, <2>2
    <3>2. QED
      BY <1>4, <3>1 DEF AgentTake, Typed, TypeOK
  <2>4. sent' \in [Side -> Nat] /\ claim' \in Nat /\ claim' <= sent'["agent"]
    <3>1. sent["agent"] + n \in Nat /\ n <= sent["agent"] + n
      BY <2>1, <2>2
    <3>2. sent'["agent"] = sent["agent"] + n
      BY <1>4, AgentSide DEF AgentTake, Typed, TypeOK
    <3>3. QED
      BY <1>4, <2>1, <3>1, <3>2 DEF AgentTake, Typed, TypeOK
  <2>5. QED
    BY <1>4, <2>3, <2>4 DEF AgentTake, Typed, TypeOK
<1>5. CASE AgentSend
  <2>1. Flushed("agent") \in Nat /\ sent["agent"] \in Nat
    BY AgentSide, FlushedType DEF Typed, TypeOK
  <2>2. [type |-> "data", from |-> Flushed("agent"), to |-> sent["agent"]] \in Frame
    BY <2>1 DEF Frame
  <2>3. frames' \in [Side -> Seq(Frame)]
    BY <1>5, <2>2, PutType DEF AgentSend, Side, Typed, TypeOK
  <2>4. status' \in [Side -> Statuses] /\ closed' \in BOOLEAN
    BY <1>5, FinishType DEF AgentSend, Side, Statuses, Typed, TypeOK
  <2>5. /\ writer' \in [Side -> {"idle", "head", "write", "send", "wait", "done"}]
        /\ claim' = 0
        /\ UNCHANGED <<body, controlled, ended, credit, allowance, sent, received, copied,
                       reader, owed, creditReady, inputReady, credits, refused>>
    BY <1>5 DEF AgentSend, Typed, TypeOK
  <2>6. claim' \in Nat /\ claim' <= sent'["agent"] /\ owed' <= copied'["agent"]
    BY <2>1, <2>5 DEF Typed
  <2>7. QED
    BY <2>3, <2>4, <2>5, <2>6 DEF Typed, TypeOK
<1>6. QED
  BY <1>1, <1>2, <1>3, <1>4, <1>5 DEF AgentWriter

LEMMA TypedAgentReader == ASSUME Typed, AgentReader PROVE Typed'
<1> USE DEF flags, counters, threads, tokens, wires, outcome
<1>1. CASE AgentEOF \/ AgentReadWait \/ AgentReadWake \/ AgentQuitsReading
  BY <1>1 DEF AgentEOF, AgentReadWait, AgentReadWake, AgentQuitsReading, Typed, TypeOK
<1>2. ASSUME NEW n \in 1..Chunk, AgentCopy(n) PROVE Typed'
  <2>1. n \in Nat
    BY StreamAssumption
  <2>2. copied["agent"] \in Nat /\ allowance["agent"] \in Nat
    BY AgentSide DEF Typed, TypeOK
  <2>3. allowance' \in [Side -> Nat]
    <3>1. allowance["agent"] + n \in Nat
      BY <2>1, <2>2
    <3>2. QED
      BY <1>2, <3>1 DEF AgentCopy, Typed, TypeOK
  <2>4. copied' \in [Side -> Nat] /\ owed' \in Nat /\ owed' <= copied'["agent"]
    <3>1. copied["agent"] + n \in Nat /\ n <= copied["agent"] + n
      BY <2>1, <2>2
    <3>2. copied'["agent"] = copied["agent"] + n
      BY <1>2, AgentSide DEF AgentCopy, Typed, TypeOK
    <3>3. QED
      BY <1>2, <2>1, <3>1, <3>2 DEF AgentCopy, Typed, TypeOK
  <2>5. QED
    BY <1>2, <2>3, <2>4 DEF AgentCopy, Typed, TypeOK
<1>3. CASE AgentCredit
  <2>1. [from |-> copied["agent"] - owed, to |-> copied["agent"]] \in Credit
    <3>1. copied["agent"] \in Nat /\ owed \in Nat /\ owed <= copied["agent"]
      BY AgentSide DEF Typed, TypeOK
    <3>2. copied["agent"] - owed \in Nat
      BY <3>1
    <3>3. QED
      BY <3>1, <3>2 DEF Credit
  <2>2. credits' \in [Side -> Seq(Credit)]
    <3>1. CASE CanSend("agent")
      <4>1. credits' = [credits EXCEPT !["agent"] =
                          Append(credits["agent"], [from |-> copied["agent"] - owed,
                                                    to   |-> copied["agent"]])]
        BY <1>3, <3>1 DEF AgentCredit
      <4>2. credits \in [Side -> Seq(Credit)]
        BY DEF Typed, TypeOK
      <4>3. QED
        BY <2>1, <4>1, <4>2, AppendType, AgentSide
    <3>2. CASE ~CanSend("agent")
      BY <1>3, <3>2 DEF AgentCredit, Typed, TypeOK
    <3>3. QED
      BY <3>1, <3>2
  <2>3. owed' \in Nat /\ owed' <= copied'["agent"]
    <3>1. owed' = 0 /\ copied'["agent"] = copied["agent"] /\ copied["agent"] \in Nat
      BY <1>3, AgentSide DEF AgentCredit, Typed, TypeOK
    <3>2. QED
      BY <3>1
  <2>4. QED
    BY <1>3, <2>2, <2>3 DEF AgentCredit, Typed, TypeOK
<1>4. QED
  BY <1>1, <1>2, <1>3 DEF AgentReader

LEMMA TypedClient == ASSUME Typed, ClientWriter \/ ClientReader \/ ClientAbort PROVE Typed'
<1> USE DEF flags, counters, threads, tokens, wires, outcome, WriterGoes
<1>1. CASE ClientStart \/ ClientEnd
  <2>1. frames' \in [Side -> Seq(Frame)]
    BY <1>1, ControlType, PutType DEF ClientStart, ClientEnd, Side
  <2>2. QED
    BY <1>1, <2>1 DEF ClientStart, ClientEnd, Typed, TypeOK
<1>2. ASSUME NEW n \in 1..Chunk, ClientWrite(n) PROVE Typed'
  <2>1. /\ n \in Nat
        /\ n <= credit["client"]
    BY <1>2, ClientSide, TakableBound DEF ClientWrite
  <2>a. /\ credit["client"] - n \in Nat
        /\ sent["client"] + n \in Nat
    <3>1. credit["client"] \in Nat /\ sent["client"] \in Nat
      BY ClientSide DEF Typed, TypeOK
    <3>2. QED
      BY <2>1, <3>1
  <2>2. [type |-> "data", from |-> sent["client"], to |-> sent["client"] + n] \in Frame
    BY <2>a, ClientSide DEF Frame, Typed, TypeOK
  <2>3. frames' \in [Side -> Seq(Frame)]
    BY <1>2, <2>2, PutType, ClientSide DEF ClientWrite
  <2>4. credit' \in [Side -> Nat]
    BY <1>2, <2>a DEF ClientWrite, Typed, TypeOK
  <2>5. sent' \in [Side -> Nat] /\ sent'["agent"] = sent["agent"]
    BY <1>2, <2>a, AgentSide DEF ClientWrite, Typed, TypeOK
  <2>6. QED
    BY <1>2, <2>3, <2>4, <2>5 DEF ClientWrite, Typed, TypeOK
<1>3. CASE ClientStop
  BY <1>3 DEF ClientStop, Typed, TypeOK
<1>4. ASSUME NEW n \in 1..Window, ClientCopy(n) PROVE Typed'
  <2>1. n \in Nat
    BY StreamAssumption
  <2>2. /\ copied["client"] \in Nat
        /\ copied["client"] + n \in Nat
        /\ allowance["client"] + n \in Nat
    <3>1. copied["client"] \in Nat /\ allowance["client"] \in Nat
      BY ClientSide DEF Typed, TypeOK
    <3>2. QED
      BY <2>1, <3>1
  <2>3. [from |-> copied["client"], to |-> copied["client"] + n] \in Credit
    BY <2>2 DEF Credit
  <2>4. credits' \in [Side -> Seq(Credit)]
    BY <1>4, <2>3, AppendType, ClientSide DEF ClientCopy, Typed, TypeOK
  <2>5. allowance' \in [Side -> Nat]
    BY <1>4, <2>2 DEF ClientCopy, Typed, TypeOK
  <2>6. copied' \in [Side -> Nat] /\ copied'["agent"] = copied["agent"]
    BY <1>4, <2>2, AgentSide DEF ClientCopy, Typed, TypeOK
  <2>7. QED
    BY <1>4, <2>4, <2>5, <2>6 DEF ClientCopy, Typed, TypeOK
<1>5. CASE ClientComplete \/ ClientAbort
  BY <1>5, FinishType DEF ClientComplete, ClientAbort, Typed, TypeOK, Side, Statuses
<1>6. QED
  BY <1>1, <1>2, <1>3, <1>4, <1>5 DEF ClientWriter, ClientReader

LEMMA TypedStep == Typed /\ [Next]_vars => Typed'
<1> SUFFICES ASSUME Typed, [Next]_vars PROVE Typed'
  OBVIOUS
<1>1. CASE UNCHANGED vars
  BY <1>1 DEF vars, flags, counters, threads, tokens, wires, outcome, Typed, TypeOK
<1>2. QED
  BY <1>1, TypedReceive, TypedAgentWriter, TypedAgentReader, TypedClient DEF Next

LEMMA TypedAlways == Spec => []Typed
  BY TypedInit, TypedStep, PTL DEF Spec

\* The type invariant: no window is ever overdrawn at either end.
THEOREM TypeCorrect == Spec => []TypeOK
<1>1. Typed => TypeOK
  BY DEF Typed
<1>2. QED
  BY <1>1, TypedAlways, PTL

---------------------------------------------------------------------------
(* The inductive invariant of the refinement                               *)

\* The ranges in q follow one another, the first one from a; they lead up to EndOf(q, a).
Linked(q, a) ==
  /\ q # <<>> => q[1].from = a
  /\ \A i \in 1..(Len(q) - 1) : q[i].to = q[i + 1].from

EndOf(q, a) == IF q = <<>> THEN a ELSE q[Len(q)].to

\* Bytes read at s whose credit is not yet returned.
Due(s) == IF s = "agent" THEN owed ELSE 0

HeadType(s) == IF s = "client" THEN "request" ELSE "response"

\* What a thread is about to send is counted while it is about to send it.
Threads ==
  /\ claim <= Chunk
  /\ claim # 0 <=> writer["agent"] = "send"
  /\ owed # 0 <=> reader = "credit"
  /\ writer["agent"] = "idle" => reader = "idle"

\* Nobody refuses a frame, and the channel is closed by a client that is done or an agent
\* that failed.
Closing ==
  /\ refused = {}
  /\ closed => status["client"] \in {"complete", "aborted"} \/ status["agent"] = "failed"
  /\ \A s \in Side : ~Open(s) => closed
  /\ \A i \in 1..Len(frames["agent"]) :
       frames["agent"][i].type = "error" => status["agent"] = "failed"

\* The body that s sends: what is read was received, what was received was sent, and the
\* receiver allows a window from what was read.
Counts(s) ==
  /\ received[Peer(s)] <= sent[s]
  /\ sent[s] <= body[s]
  /\ copied[Peer(s)] <= received[Peer(s)]
  /\ allowance[Peer(s)] + received[Peer(s)] = Window + copied[Peer(s)]

\* The frames on their way from s carry what was sent and not yet received.
WireFrame(s, f) ==
  /\ f.to <= sent[s]
  /\ f.type = "data" => 0 < Size(f) /\ Size(f) <= Chunk
  /\ f.type # "data" => f.from = f.to
  /\ f.type = "end" => f.from = body[s]

Wire(s) ==
  /\ Linked(frames[s], received[Peer(s)])
  /\ ~closed => EndOf(frames[s], received[Peer(s)]) = Flushed(s)
  /\ \A i \in 1..Len(frames[s]) : WireFrame(s, frames[s][i])

\* The credits on their way to s return what was read and not yet returned.
Base(s) == credit[s] + sent[s] - Window

Returned(s) ==
  /\ Linked(credits[Peer(s)], Base(s))
  /\ ~closed => EndOf(credits[Peer(s)], Base(s)) = copied[Peer(s)] - Due(Peer(s))
  /\ Base(s) <= copied[Peer(s)]
  /\ \A i \in 1..Len(credits[Peer(s)]) :
       /\ credits[Peer(s)][i].from < credits[Peer(s)][i].to
       /\ credits[Peer(s)][i].to <= copied[Peer(s)]

\* First the head, then data, then the end, each once and in this order.
Order(s) ==
  /\ writer[s] \in {"idle", "head"} =>
       frames[s] = <<>> /\ ~controlled[Peer(s)] /\ ~ended[Peer(s)]
  /\ writer[s] \in {"write", "send", "wait"} =>
       /\ ~ended[Peer(s)]
       /\ \A i \in 1..Len(frames[s]) : frames[s][i].type \in {HeadType(s), "data"}
       /\ controlled[Peer(s)] \/ (frames[s] # <<>> /\ frames[s][1].type = HeadType(s))
  /\ \A i \in 1..Len(frames[s]) :
       /\ frames[s][i].type = HeadType(s) => i = 1 /\ ~controlled[Peer(s)]
       /\ frames[s][i].type \in {"data", "end"} =>
            ~ended[Peer(s)] /\ (controlled[Peer(s)] \/ frames[s][1].type = HeadType(s))
       /\ \A j \in 1..Len(frames[s]) :
            frames[s][i].type = "end" /\ i < j => frames[s][j].type = "error"
  /\ ended[Peer(s)] => controlled[Peer(s)] /\ received[Peer(s)] = body[s]

Direction(s) == Counts(s) /\ Wire(s) /\ Returned(s) /\ Order(s)

IInv == Typed /\ Threads /\ Closing /\ \A s \in Side : Direction(s)

---------------------------------------------------------------------------
(* Sequences of ranges                                                     *)

LEMMA AppendFacts ==
  ASSUME NEW T, NEW q \in Seq(T), NEW e \in T
  PROVE  /\ Append(q, e) \in Seq(T)
         /\ Append(q, e) # <<>>
         /\ Len(Append(q, e)) = Len(q) + 1
         /\ Append(q, e)[Len(q) + 1] = e
         /\ \A i \in 1..Len(q) : Append(q, e)[i] = q[i]
         /\ \A i \in 1..Len(Append(q, e)) : i \in 1..Len(q) \/ i = Len(q) + 1
  OBVIOUS

LEMMA TailFacts ==
  ASSUME NEW T, NEW q \in Seq(T), q # <<>>
  PROVE  /\ Tail(q) \in Seq(T)
         /\ Len(q) \in Nat \ {0}
         /\ Len(Tail(q)) = Len(q) - 1
         /\ Head(q) = q[1]
         /\ q[1] \in T
         /\ \A i \in 1..Len(Tail(q)) : i + 1 \in 1..Len(q) /\ Tail(q)[i] = q[i + 1]
  OBVIOUS

LEMMA EmptyFacts ==
  ASSUME NEW T, NEW q \in Seq(T)
  PROVE  Len(q) \in Nat /\ (q = <<>> <=> Len(q) = 0)
  OBVIOUS

LEMMA EntryType ==
  ASSUME NEW T, NEW q \in Seq(T), NEW i \in 1..Len(q)
  PROVE  q[i] \in T
  OBVIOUS

LEMMA LinkedAppend ==
  ASSUME NEW T, NEW q \in Seq(T), NEW e \in T, NEW a, Linked(q, a), e.from = EndOf(q, a)
  PROVE  Linked(Append(q, e), a) /\ EndOf(Append(q, e), a) = e.to
<1> DEFINE r == Append(q, e)
<1>1. Len(q) \in Nat /\ (q = <<>> <=> Len(q) = 0)
  BY EmptyFacts
<1>2. /\ r # <<>> /\ Len(r) = Len(q) + 1 /\ r[Len(q) + 1] = e
      /\ \A i \in 1..Len(q) : r[i] = q[i]
  BY AppendFacts
<1>3. r[1].from = a
  BY <1>1, <1>2 DEF Linked, EndOf
<1>4. ASSUME NEW i \in 1..(Len(r) - 1) PROVE r[i].to = r[i + 1].from
  <2>1. CASE i = Len(q)
    BY <1>1, <1>2, <1>4, <2>1 DEF EndOf
  <2>2. CASE i # Len(q)
    <3>1. i \in 1..(Len(q) - 1) /\ i \in 1..Len(q) /\ i + 1 \in 1..Len(q)
      BY <1>1, <1>2, <1>4, <2>2
    <3>2. QED
      BY <1>2, <3>1 DEF Linked
  <2>3. QED
    BY <2>1, <2>2
<1>5. EndOf(r, a) = e.to
  BY <1>2 DEF EndOf
<1>6. QED
  BY <1>3, <1>4, <1>5 DEF Linked

LEMMA LinkedTail ==
  ASSUME NEW T, NEW q \in Seq(T), NEW a, Linked(q, a), q # <<>>
  PROVE  Linked(Tail(q), q[1].to) /\ EndOf(Tail(q), q[1].to) = EndOf(q, a)
<1> DEFINE r == Tail(q)
<1>1. /\ r \in Seq(T) /\ Len(q) \in Nat \ {0} /\ Len(r) = Len(q) - 1
      /\ \A i \in 1..Len(r) : i + 1 \in 1..Len(q) /\ r[i] = q[i + 1]
  BY TailFacts
<1>2. r = <<>> <=> Len(r) = 0
  BY <1>1, EmptyFacts
<1>3. ASSUME r # <<>> PROVE r[1].from = q[1].to
  <2>1. 1 \in 1..Len(r) /\ 1 \in 1..(Len(q) - 1)
    BY <1>1, <1>2, <1>3
  <2>2. r[1] = q[2] /\ q[1].to = q[2].from
    BY <1>1, <2>1 DEF Linked
  <2>3. QED
    BY <2>2
<1>4. ASSUME NEW i \in 1..(Len(r) - 1) PROVE r[i].to = r[i + 1].from
  <2>1. i \in 1..Len(r) /\ i + 1 \in 1..Len(r) /\ i + 1 \in 1..(Len(q) - 1)
    BY <1>1
  <2>2. r[i] = q[i + 1] /\ r[i + 1] = q[(i + 1) + 1] /\ q[i + 1].to = q[(i + 1) + 1].from
    BY <1>1, <2>1 DEF Linked
  <2>3. QED
    BY <2>2
<1>5. EndOf(r, q[1].to) = EndOf(q, a)
  <2>1. CASE r = <<>>
    BY <1>1, <1>2, <2>1 DEF EndOf
  <2>2. CASE r # <<>>
    <3>1. Len(r) \in 1..Len(r)
      BY <1>1, <1>2, <2>2
    <3>2. r[Len(r)] = q[Len(r) + 1] /\ Len(r) + 1 = Len(q)
      BY <1>1, <3>1
    <3>3. QED
      BY <2>2, <3>2 DEF EndOf
  <2>3. QED
    BY <2>1, <2>2
<1>6. QED
  BY <1>3, <1>4, <1>5 DEF Linked

---------------------------------------------------------------------------
(* What the invariant says of what comes in                                *)

LEMMA PeerFacts ==
  ASSUME NEW s \in Side
  PROVE  Peer(s) \in Side /\ Peer(Peer(s)) = s /\ Peer(s) # s
  BY DEF Peer, Side

LEMMA IncomingFacts ==
  ASSUME IInv, NEW s \in Side, frames[Peer(s)] # <<>>
  PROVE  /\ Incoming(s) = frames[Peer(s)][1]
         /\ Incoming(s) \in Frame
         /\ 1 \in 1..Len(frames[Peer(s)])
         /\ WireFrame(Peer(s), Incoming(s))
         /\ Incoming(s).from = received[s]
<1>1. Peer(s) \in Side /\ Peer(Peer(s)) = s
  BY PeerFacts
<1>2. frames[Peer(s)] \in Seq(Frame)
  BY <1>1 DEF IInv, Typed, TypeOK
<1>3. /\ Len(frames[Peer(s)]) \in Nat \ {0}
      /\ Head(frames[Peer(s)]) = frames[Peer(s)][1]
      /\ frames[Peer(s)][1] \in Frame
  BY <1>2, TailFacts
<1>4. 1 \in 1..Len(frames[Peer(s)])
  BY <1>3
<1>5. Wire(Peer(s))
  BY <1>1 DEF IInv, Direction
<1>6. QED
  BY <1>1, <1>3, <1>4, <1>5 DEF Wire, Linked, Incoming

LEMMA HeadUnrefused ==
  ASSUME IInv, NEW s \in Side, Arrives(s, HeadType(Peer(s)))
  PROVE  ~controlled[s]
<1>1. Peer(s) \in Side /\ Peer(Peer(s)) = s
  BY PeerFacts
<1>2. Order(Peer(s))
  BY <1>1 DEF IInv, Direction
<1>3. QED
  BY <1>1, <1>2, IncomingFacts DEF Order, Arrives

LEMMA CreditFits ==
  ASSUME IInv, NEW s \in Side
  PROVE  sent[s] <= Window + copied[Peer(s)] /\ sent[s] \in Nat /\ copied[Peer(s)] \in Nat
<1>1. Peer(s) \in Side
  BY PeerFacts
<1>2. /\ sent[s] \in Nat /\ copied[Peer(s)] \in Nat /\ credit[s] \in Nat
      /\ Window \in Nat
  BY <1>1, StreamAssumption DEF IInv, Typed, TypeOK
<1>3. credit[s] + sent[s] - Window <= copied[Peer(s)]
  BY DEF IInv, Direction, Returned, Base
<1>4. QED
  BY <1>2, <1>3

LEMMA DataUnrefused ==
  ASSUME IInv, NEW s \in Side, Arrives(s, "data")
  PROVE  DataAllowed(s)
<1> DEFINE d == Peer(s)
<1>1. d \in Side /\ Peer(d) = s
  BY PeerFacts
<1>2. /\ Incoming(s) = frames[d][1] /\ Incoming(s) \in Frame
      /\ 1 \in 1..Len(frames[d]) /\ WireFrame(d, Incoming(s))
      /\ Incoming(s).from = received[s] /\ Incoming(s).type = "data"
  BY IncomingFacts DEF Arrives
<1>3. Order(d) /\ Counts(d)
  BY <1>1 DEF IInv, Direction
<1>4. (s = "client" => controlled[s]) /\ ~ended[s]
  BY <1>1, <1>2, <1>3 DEF Order, HeadType
<1>5. Size(Incoming(s)) <= allowance[s]
  <2>1. /\ allowance[s] \in Nat /\ received[s] \in Nat /\ Window \in Nat
        /\ allowance[s] + received[s] = Window + copied[s]
    BY <1>1, <1>3, StreamAssumption DEF Counts, IInv, Typed, TypeOK
  <2>2. sent[d] <= Window + copied[s] /\ sent[d] \in Nat /\ copied[s] \in Nat
    BY <1>1, CreditFits
  <2>3. Incoming(s).to \in Nat /\ Incoming(s).to <= sent[d]
    BY <1>2 DEF WireFrame, Frame
  <2>4. Incoming(s).to - received[s] <= allowance[s]
    BY <2>1, <2>2, <2>3
  <2>5. QED
    BY <1>2, <2>4 DEF Size
<1>6. 0 < Size(Incoming(s)) /\ Size(Incoming(s)) <= Chunk
  BY <1>2 DEF WireFrame
<1>7. QED
  BY <1>4, <1>5, <1>6 DEF DataAllowed

LEMMA EndUnrefused ==
  ASSUME IInv, NEW s \in Side, Arrives(s, "end")
  PROVE  ~ended[s] /\ controlled[s]
<1> DEFINE d == Peer(s)
<1>1. d \in Side /\ Peer(d) = s
  BY PeerFacts
<1>2. Incoming(s) = frames[d][1] /\ 1 \in 1..Len(frames[d]) /\ Incoming(s).type = "end"
  BY IncomingFacts DEF Arrives
<1>3. Order(d)
  BY <1>1 DEF IInv, Direction
<1>4. QED
  BY <1>1, <1>2, <1>3 DEF Order, HeadType

LEMMA CreditUnrefused ==
  ASSUME IInv, NEW s \in Side, credits[Peer(s)] # <<>>
  PROVE  LET c == Head(credits[Peer(s)])
         IN /\ c = credits[Peer(s)][1] /\ c \in Credit
            /\ 0 < Size(c) /\ Size(c) <= Window - credit[s]
            /\ c.from = Base(s) /\ c.to <= copied[Peer(s)]
<1> DEFINE c == Head(credits[Peer(s)])
<1>1. Peer(s) \in Side /\ credits[Peer(s)] \in Seq(Credit)
  BY PeerFacts DEF IInv, Typed, TypeOK
<1>2. c = credits[Peer(s)][1] /\ c \in Credit /\ 1 \in 1..Len(credits[Peer(s)])
  BY <1>1, TailFacts
<1>3. c.from < c.to /\ c.to <= copied[Peer(s)] /\ c.from = Base(s)
  BY <1>2 DEF IInv, Direction, Returned, Linked
<1>4. copied[Peer(s)] <= received[Peer(s)] /\ received[Peer(s)] <= sent[s]
  BY DEF IInv, Direction, Counts
<1>5. /\ c.from \in Nat /\ c.to \in Nat /\ Window \in Nat /\ credit[s] \in Nat
      /\ copied[Peer(s)] \in Nat /\ received[Peer(s)] \in Nat /\ sent[s] \in Nat
  BY <1>1, <1>2, StreamAssumption DEF Credit, IInv, Typed, TypeOK
<1>6. 0 < c.to - c.from /\ c.to - c.from <= Window - credit[s]
  <2> HIDE DEF c
  <2>1. c.to <= sent[s]
    BY <1>3, <1>4, <1>5
  <2>2. c.from = credit[s] + sent[s] - Window
    BY <1>3 DEF Base
  <2>3. QED
    BY <1>3, <1>5, <2>1, <2>2
<1>7. QED
  BY <1>2, <1>3, <1>6 DEF Size

---------------------------------------------------------------------------
(* What a step leaves alone                                                *)

\* How far the writer of s has come: before its head, between head and end, after.
Phase(w) == IF w \in {"idle", "head"} THEN "before"
            ELSE IF w \in {"write", "send", "wait"} THEN "during" ELSE "after"

LEMMA OrderKept ==
  ASSUME IInv, NEW s \in Side,
         frames'[s] = frames[s], Phase(writer'[s]) \in {Phase(writer[s]), "after"},
         controlled'[Peer(s)] = controlled[Peer(s)], ended'[Peer(s)] = ended[Peer(s)],
         received'[Peer(s)] = received[Peer(s)], body'[s] = body[s]
  PROVE  Order(s)'
<1>1. Order(s)
  BY DEF IInv, Direction
<1>2. /\ writer'[s] \in {"idle", "head"} => writer[s] \in {"idle", "head"}
      /\ writer'[s] \in {"write", "send", "wait"} => writer[s] \in {"write", "send", "wait"}
  BY DEF Phase
<1>3. QED
  BY <1>1, <1>2 DEF Order

LEMMA WireKept ==
  ASSUME IInv, NEW s \in Side, closed => closed',
         frames'[s] = frames[s], received'[Peer(s)] = received[Peer(s)],
         sent[s] <= sent'[s], sent'[s] \in Nat, Flushed(s)' = Flushed(s), body'[s] = body[s]
  PROVE  Wire(s)'
<1>1. Wire(s)
  BY DEF IInv, Direction
<1>2. ASSUME NEW i \in 1..Len(frames[s]) PROVE WireFrame(s, frames[s][i])'
  <2>1. frames[s] \in Seq(Frame) /\ sent[s] \in Nat
    BY DEF IInv, Typed, TypeOK
  <2>a. frames[s][i] \in Frame
    BY <2>1, EntryType
  <2>2. frames[s][i].to \in Nat
    BY <2>a DEF Frame
  <2>3. QED
    BY <1>1, <2>1, <2>2 DEF Wire, WireFrame
<1>3. QED
  BY <1>1, <1>2 DEF Wire

LEMMA ReturnedKept ==
  ASSUME IInv, NEW s \in Side, closed => closed',
         credits'[Peer(s)] = credits[Peer(s)], copied'[Peer(s)] = copied[Peer(s)],
         Base(s)' = Base(s), Due(Peer(s))' = Due(Peer(s))
  PROVE  Returned(s)'
  BY DEF IInv, Direction, Returned

LEMMA CountsKept ==
  ASSUME IInv, NEW s \in Side,
         received'[Peer(s)] = received[Peer(s)], copied'[Peer(s)] = copied[Peer(s)],
         allowance'[Peer(s)] = allowance[Peer(s)], sent'[s] = sent[s], body'[s] = body[s]
  PROVE  Counts(s)'
  BY DEF IInv, Direction, Counts

\* A direction none of whose parts changes, but that its writer may stop or move within a
\* phase.
LEMMA DirectionKept ==
  ASSUME IInv, NEW s \in Side, closed => closed',
         frames'[s] = frames[s], Phase(writer'[s]) \in {Phase(writer[s]), "after"},
         controlled'[Peer(s)] = controlled[Peer(s)], ended'[Peer(s)] = ended[Peer(s)],
         received'[Peer(s)] = received[Peer(s)], body'[s] = body[s],
         copied'[Peer(s)] = copied[Peer(s)], allowance'[Peer(s)] = allowance[Peer(s)],
         sent'[s] = sent[s], credit'[s] = credit[s], Flushed(s)' = Flushed(s),
         credits'[Peer(s)] = credits[Peer(s)], Due(Peer(s))' = Due(Peer(s))
  PROVE  Direction(s)'
<1>1. sent[s] <= sent'[s] /\ sent'[s] \in Nat
  BY DEF IInv, Typed, TypeOK
<1>2. Base(s)' = Base(s)
  BY DEF Base
<1>3. QED
  BY <1>1, <1>2, OrderKept, WireKept, ReturnedKept, CountsKept DEF Direction

\* Only the status of the sides and the states of the threads change.
LEMMA QuietStep ==
  ASSUME IInv, closed => closed',
         UNCHANGED <<body, controlled, ended, credit, allowance, sent, received, copied,
                     frames, credits, claim, owed>>,
         \A t \in Side : Phase(writer'[t]) \in {Phase(writer[t]), "after"}
  PROVE  \A t \in Side : Direction(t)'
<1> SUFFICES ASSUME NEW t \in Side PROVE Direction(t)'
  OBVIOUS
<1>1. Flushed(t)' = Flushed(t) /\ Due(Peer(t))' = Due(Peer(t))
  BY DEF Flushed, Due
<1>2. QED
  BY <1>1, DirectionKept

---------------------------------------------------------------------------
(* A frame is put on its way                                               *)

LEMMA PutFacts ==
  ASSUME IInv, NEW s \in Side, NEW f \in Frame, Put(s, f)
  PROVE  LET q == frames[s] r == frames'[s]
         IN /\ r = Append(q, f) /\ q \in Seq(Frame) /\ Len(q) \in Nat
            /\ r # <<>> /\ Len(r) = Len(q) + 1 /\ r[Len(q) + 1] = f
            /\ \A i \in 1..Len(q) : r[i] = q[i]
            /\ \A i \in 1..Len(r) : i \in 1..Len(q) \/ i = Len(q) + 1
            /\ \A t \in Side : t # s => frames'[t] = frames[t]
<1>1. frames \in [Side -> Seq(Frame)]
  BY DEF IInv, Typed, TypeOK
<1>2. /\ frames'[s] = Append(frames[s], f) /\ frames[s] \in Seq(Frame)
      /\ \A t \in Side : t # s => frames'[t] = frames[t]
  BY <1>1 DEF Put
<1>3. Len(frames[s]) \in Nat
  BY <1>2, EmptyFacts
<1>4. QED
  BY <1>2, <1>3, AppendFacts

LEMMA WirePut ==
  ASSUME IInv, NEW s \in Side, ~closed, NEW f \in Frame, Put(s, f),
         f.from = Flushed(s), f.to = Flushed(s)', WireFrame(s, f)',
         received'[Peer(s)] = received[Peer(s)],
         sent[s] <= sent'[s], sent'[s] \in Nat, body'[s] = body[s]
  PROVE  Wire(s)'
<1> DEFINE q == frames[s]
           r == frames'[s]
<1>1. /\ r = Append(q, f) /\ q \in Seq(Frame) /\ r[Len(q) + 1] = f
      /\ \A i \in 1..Len(q) : r[i] = q[i]
      /\ \A i \in 1..Len(r) : i \in 1..Len(q) \/ i = Len(q) + 1
  BY PutFacts
<1>2. Wire(s)
  BY DEF IInv, Direction
<1>3. Linked(r, received[Peer(s)]) /\ EndOf(r, received[Peer(s)]) = f.to
  BY <1>1, <1>2, LinkedAppend DEF Wire
<1>4. ASSUME NEW i \in 1..Len(r) PROVE WireFrame(s, frames[s][i])'
  <2>1. CASE i = Len(q) + 1
    BY <1>1, <2>1 DEF WireFrame
  <2>2. CASE i \in 1..Len(q)
    <3>1. q[i] \in Frame /\ sent[s] \in Nat
      BY <1>1, <2>2, EntryType DEF IInv, Typed, TypeOK
    <3>2. q[i].to \in Nat /\ WireFrame(s, q[i]) /\ r[i] = q[i]
      BY <1>1, <1>2, <2>2, <3>1 DEF Frame, Wire
    <3>3. q[i].to <= sent'[s]
      BY <3>1, <3>2 DEF WireFrame
    <3>4. QED
      BY <3>2, <3>3 DEF WireFrame
  <2>3. QED
    BY <1>1, <1>4, <2>1, <2>2
<1>5. QED
  BY <1>3, <1>4 DEF Wire, Linked, EndOf

LEMMA OrderPut ==
  ASSUME IInv, NEW s \in Side, NEW f \in Frame, Put(s, f),
         controlled'[Peer(s)] = controlled[Peer(s)], ended'[Peer(s)] = ended[Peer(s)],
         received'[Peer(s)] = received[Peer(s)], body'[s] = body[s],
         \/ writer[s] = "head" /\ f.type = HeadType(s) /\ writer'[s] = "write"
         \/ /\ Phase(writer[s]) = "during" /\ Phase(writer'[s]) = "during"
            /\ f.type = "data"
         \/ Phase(writer[s]) = "during" /\ writer'[s] = "done" /\ f.type = "end"
         \/ /\ Phase(writer[s]) \in {"before", "during"} /\ writer'[s] = "done"
            /\ f.type = "error"
  PROVE  Order(s)'
<1> DEFINE q == frames[s]
           r == frames'[s]
           p == Peer(s)
           n == Len(q) + 1
<1>1. /\ Len(q) \in Nat /\ r # <<>> /\ Len(r) = n /\ r[n] = f /\ n \in 1..Len(r)
      /\ \A i \in 1..Len(q) : r[i] = q[i]
      /\ \A i \in 1..Len(r) : i \in 1..Len(q) \/ i = n
      /\ q = <<>> => n = 1
      /\ q # <<>> => 1 \in 1..Len(q)
  BY PutFacts, EmptyFacts
<1>2. Order(s)
  BY DEF IInv, Direction
<1>3. /\ ~ended[p]
      /\ \A i \in 1..Len(q) : q[i].type \in {HeadType(s), "data"}
      /\ f.type # HeadType(s) => \/ Phase(writer[s]) = "before" /\ q = <<>>
                                 \/ controlled[p] \/ (q # <<>> /\ q[1].type = HeadType(s))
      /\ f.type = HeadType(s) => q = <<>> /\ ~controlled[p] /\ writer'[s] = "write"
  BY <1>1, <1>2 DEF Order, Phase, HeadType
<1>4. HeadType(s) \notin {"data", "end", "error"}
  BY DEF HeadType
<1>5. ASSUME writer'[s] \in {"write", "send", "wait"}
      PROVE  /\ \A i \in 1..Len(r) : r[i].type \in {HeadType(s), "data"}
             /\ controlled[p] \/ r[1].type = HeadType(s)
  <2>1. f.type \in {HeadType(s), "data"}
    BY <1>5 DEF Phase
  <2>2. f.type = "data" => Phase(writer[s]) = "during"
    BY <1>4, <1>5 DEF Phase
  <2>3. QED
    BY <1>1, <1>3, <1>4, <2>1, <2>2
<1>6. writer'[s] \notin {"idle", "head"}
  BY DEF Phase
<1>7. ASSUME NEW i \in 1..Len(r)
      PROVE  /\ r[i].type = HeadType(s) => i = 1 /\ ~controlled[p]
             /\ r[i].type \in {"data", "end"} => controlled[p] \/ r[1].type = HeadType(s)
             /\ \A j \in 1..Len(r) : r[i].type = "end" /\ i < j => r[j].type = "error"
  <2>1. r[i].type = HeadType(s) => i = 1 /\ ~controlled[p]
    BY <1>1, <1>2, <1>3, <1>4, <1>7 DEF Order
  <2>2. r[i].type \in {"data", "end"} => controlled[p] \/ r[1].type = HeadType(s)
    <3>1. CASE i \in 1..Len(q)
      BY <1>1, <1>2, <3>1 DEF Order
    <3>2. CASE i = n
      <4>1. f.type \in {"data", "end"} => Phase(writer[s]) = "during"
        BY <1>4
      <4>2. QED
        BY <1>1, <1>3, <1>4, <3>2, <4>1
    <3>3. QED
      BY <1>1, <1>7, <3>1, <3>2
  <2>3. ASSUME NEW j \in 1..Len(r), r[i].type = "end", i < j PROVE FALSE
    <3>1. i \in 1..Len(q)
      BY <1>1, <1>7, <2>3
    <3>2. QED
      BY <1>1, <1>3, <1>4, <2>3, <3>1
  <2>4. QED
    BY <2>1, <2>2, <2>3
<1>8. QED
  BY <1>1, <1>2, <1>3, <1>5, <1>6, <1>7 DEF Order

---------------------------------------------------------------------------
(* A frame is taken from the wire                                          *)

LEMMA ConsumeFacts ==
  ASSUME IInv, NEW s \in Side, frames[Peer(s)] # <<>>, Consume(s)
  PROVE  LET q == frames[Peer(s)] r == frames'[Peer(s)]
         IN /\ r = Tail(q) /\ q \in Seq(Frame) /\ Incoming(s) = q[1]
            /\ Len(q) \in Nat \ {0} /\ Len(r) = Len(q) - 1 /\ 1 \in 1..Len(q)
            /\ \A i \in 1..Len(r) : i + 1 \in 1..Len(q) /\ r[i] = q[i + 1]
            /\ r # <<>> => 1 \in 1..Len(r)
            /\ frames'[s] = frames[s]
<1>1. frames \in [Side -> Seq(Frame)] /\ Peer(s) \in Side /\ Peer(s) # s
  BY PeerFacts DEF IInv, Typed, TypeOK
<1>2. /\ frames'[Peer(s)] = Tail(frames[Peer(s)]) /\ frames[Peer(s)] \in Seq(Frame)
      /\ frames'[s] = frames[s]
  BY <1>1 DEF Consume
<1>3. /\ Tail(frames[Peer(s)]) \in Seq(Frame) /\ Len(frames[Peer(s)]) \in Nat \ {0}
      /\ Len(Tail(frames[Peer(s)])) = Len(frames[Peer(s)]) - 1
      /\ Head(frames[Peer(s)]) = frames[Peer(s)][1]
      /\ \A i \in 1..Len(Tail(frames[Peer(s)])) :
           i + 1 \in 1..Len(frames[Peer(s)])
           /\ Tail(frames[Peer(s)])[i] = frames[Peer(s)][i + 1]
  BY <1>2, TailFacts
<1>4. frames'[Peer(s)] # <<>> => 1 \in 1..Len(frames'[Peer(s)])
  BY <1>2, <1>3, EmptyFacts
<1>5. QED
  BY <1>2, <1>3, <1>4 DEF Incoming

LEMMA WireConsume ==
  ASSUME IInv, NEW s \in Side, frames[Peer(s)] # <<>>, Consume(s), closed => closed',
         received'[s] = Incoming(s).to, sent'[Peer(s)] = sent[Peer(s)],
         Flushed(Peer(s))' = Flushed(Peer(s)), body'[Peer(s)] = body[Peer(s)]
  PROVE  Wire(Peer(s))'
<1> DEFINE d == Peer(s)
           q == frames[d]
           r == frames'[d]
<1>1. d \in Side /\ Peer(d) = s
  BY PeerFacts
<1>2. /\ r = Tail(q) /\ q \in Seq(Frame) /\ Incoming(s) = q[1]
      /\ \A i \in 1..Len(r) : i + 1 \in 1..Len(q) /\ r[i] = q[i + 1]
  BY ConsumeFacts
<1>3. Wire(d)
  BY <1>1 DEF IInv, Direction
<1>4. Linked(r, q[1].to) /\ EndOf(r, q[1].to) = EndOf(q, received[s])
  BY <1>1, <1>2, <1>3, LinkedTail DEF Wire
<1>5. ASSUME NEW i \in 1..Len(r) PROVE WireFrame(d, frames[d][i])'
  BY <1>2, <1>3, <1>5 DEF Wire, WireFrame
<1>6. received'[Peer(d)] = q[1].to
  BY <1>1, <1>2
<1>7. QED
  BY <1>1, <1>3, <1>4, <1>5, <1>6 DEF Wire, Linked, EndOf

LEMMA OrderConsume ==
  ASSUME IInv, NEW s \in Side, frames[Peer(s)] # <<>>, Consume(s),
         writer'[Peer(s)] = writer[Peer(s)], body'[Peer(s)] = body[Peer(s)],
         \/ /\ Incoming(s).type = HeadType(Peer(s))
            /\ controlled'[s] /\ ended'[s] = ended[s] /\ received'[s] = received[s]
         \/ /\ Incoming(s).type = "data"
            /\ controlled'[s] = controlled[s] /\ ended'[s] = ended[s]
         \/ /\ Incoming(s).type = "end"
            /\ controlled'[s] = controlled[s] /\ ended'[s] /\ received'[s] = received[s]
         \/ /\ Incoming(s).type = "error"
            /\ controlled'[s] = controlled[s] /\ ended'[s] = ended[s]
            /\ received'[s] = received[s]
  PROVE  Order(Peer(s))'
<1> DEFINE d == Peer(s)
           q == frames[d]
           r == frames'[d]
<1>1. d \in Side /\ Peer(d) = s
  BY PeerFacts
<1>2. /\ Incoming(s) = q[1] /\ 1 \in 1..Len(q) /\ Len(q) \in Nat
      /\ \A i \in 1..Len(r) : i \in Nat /\ i + 1 \in 1..Len(q) /\ r[i] = q[i + 1]
      /\ \A i \in 1..Len(r) : 1 < i + 1 /\ i + 1 # 1
      /\ r # <<>> => 1 \in 1..Len(r)
  BY ConsumeFacts
<1>3. Order(d)
  BY <1>1 DEF IInv, Direction
<1>4. HeadType(d) \notin {"data", "end", "error"}
  BY DEF HeadType
<1>5. writer[d] \notin {"idle", "head"}
  BY <1>1, <1>3 DEF Order
<1>6. ASSUME NEW i \in 1..Len(r) PROVE r[i].type # HeadType(d)
  BY <1>1, <1>2, <1>3, <1>6 DEF Order
<1>7. ASSUME writer[d] \in {"write", "send", "wait"}
      PROVE  /\ ~ended'[s] /\ controlled'[s]
             /\ \A i \in 1..Len(r) : r[i].type \in {HeadType(d), "data"}
  BY <1>1, <1>2, <1>3, <1>4, <1>7 DEF Order
<1>8. ASSUME NEW i \in 1..Len(r), r[i].type \in {"data", "end"}
      PROVE  ~ended'[s] /\ controlled'[s]
  <2>1. i + 1 \in 1..Len(q) /\ q[i + 1].type \in {"data", "end"} /\ 1 < i + 1
    BY <1>2, <1>8
  <2>2. ~ended[s] /\ (controlled[s] \/ q[1].type = HeadType(d))
    BY <1>1, <1>3, <2>1 DEF Order
  <2>3. q[1].type # "end"
    BY <1>2, <1>3, <2>1 DEF Order
  <2>4. q[1].type = "error" => controlled[s]
    BY <1>4, <2>2
  <2>5. QED
    BY <1>2, <1>4, <2>2, <2>3, <2>4
<1>9. ASSUME NEW i \in 1..Len(r), NEW j \in 1..Len(r), r[i].type = "end", i < j
      PROVE  r[j].type = "error"
  <2>1. i + 1 < j + 1 /\ i + 1 \in 1..Len(q) /\ j + 1 \in 1..Len(q)
    BY <1>2, <1>9
  <2>2. q[i + 1].type = "end" /\ q[j + 1] = r[j]
    BY <1>2, <1>9
  <2>3. QED
    BY <1>3, <2>1, <2>2 DEF Order
<1>10. ASSUME ended'[s] PROVE controlled'[s] /\ received'[s] = body[d]
  <2>1. CASE Incoming(s).type = "end"
    <3>1. /\ controlled[s] \/ q[1].type = HeadType(d)
      BY <1>1, <1>2, <1>3, <2>1 DEF Order
    <3>2. received[s] = body[d]
      BY <1>1, <2>1, IncomingFacts DEF WireFrame
    <3>3. QED
      BY <1>2, <1>4, <2>1, <3>1, <3>2
  <2>2. CASE Incoming(s).type = "data"
    BY <1>1, <1>2, <1>3, <1>4, <1>10, <2>2 DEF Order
  <2>3. CASE Incoming(s).type \in {HeadType(d), "error"}
    BY <1>1, <1>2, <1>3, <1>4, <1>10, <2>3 DEF Order
  <2>4. QED
    BY <2>1, <2>2, <2>3
<1>11. QED
  BY <1>1, <1>5, <1>6, <1>7, <1>8, <1>9, <1>10 DEF Order

---------------------------------------------------------------------------
(* The invariant over a step that receives                                 *)

LEMMA BothSides ==
  ASSUME NEW s \in Side, NEW t \in Side
  PROVE  t = s \/ t = Peer(s)
  BY DEF Peer, Side

LEMMA ErrorsKept ==
  ASSUME IInv, status["agent"] = "failed" => status'["agent"] = "failed",
         \/ frames' = frames
         \/ \E s \in Side : frames[Peer(s)] # <<>> /\ Consume(s)
         \/ \E s \in Side, f \in Frame :
              Put(s, f) /\ (f.type = "error" => status'["agent"] = "failed")
  PROVE  \A i \in 1..Len(frames'["agent"]) :
           frames'["agent"][i].type = "error" => status'["agent"] = "failed"
<1>1. \A i \in 1..Len(frames["agent"]) :
        frames["agent"][i].type = "error" => status["agent"] = "failed"
  BY DEF IInv, Closing
<1>2. CASE frames' = frames
  BY <1>1, <1>2
<1>3. ASSUME NEW s \in Side, frames[Peer(s)] # <<>>, Consume(s)
      PROVE  \A i \in 1..Len(frames'["agent"]) :
               frames'["agent"][i].type = "error" => status'["agent"] = "failed"
  <2>1. CASE s = "agent"
    BY <1>1, <1>3, <2>1, ConsumeFacts
  <2>2. CASE Peer(s) = "agent"
    <3>1. \A i \in 1..Len(frames'["agent"]) :
            i + 1 \in 1..Len(frames["agent"]) /\ frames'["agent"][i] = frames["agent"][i + 1]
      BY <1>3, <2>2, ConsumeFacts
    <3>2. QED
      BY <1>1, <3>1
  <2>3. QED
    BY <2>1, <2>2, BothSides, AgentSide
<1>4. ASSUME NEW s \in Side, NEW f \in Frame, Put(s, f),
             f.type = "error" => status'["agent"] = "failed"
      PROVE  \A i \in 1..Len(frames'["agent"]) :
               frames'["agent"][i].type = "error" => status'["agent"] = "failed"
  <2>1. CASE s = "agent"
    BY <1>1, <1>4, <2>1, PutFacts
  <2>2. CASE s # "agent"
    BY <1>1, <1>4, <2>2, PutFacts, AgentSide
  <2>3. QED
    BY <2>1, <2>2
<1>5. QED
  BY <1>2, <1>3, <1>4

LEMMA ConsumeStep ==
  ASSUME IInv, NEW s \in Side, frames[Peer(s)] # <<>>, Consume(s), closed => closed',
         UNCHANGED <<body, sent, copied, credit, credits, writer, claim, owed>>,
         received'[Peer(s)] = received[Peer(s)], allowance'[Peer(s)] = allowance[Peer(s)],
         controlled'[Peer(s)] = controlled[Peer(s)], ended'[Peer(s)] = ended[Peer(s)],
         received'[s] = Incoming(s).to,
         allowance'[s] + received'[s] = Window + copied[s],
         \/ /\ Incoming(s).type = HeadType(Peer(s))
            /\ controlled'[s] /\ ended'[s] = ended[s] /\ received'[s] = received[s]
         \/ /\ Incoming(s).type = "data"
            /\ controlled'[s] = controlled[s] /\ ended'[s] = ended[s]
         \/ /\ Incoming(s).type = "end"
            /\ controlled'[s] = controlled[s] /\ ended'[s] /\ received'[s] = received[s]
         \/ /\ Incoming(s).type = "error"
            /\ controlled'[s] = controlled[s] /\ ended'[s] = ended[s]
            /\ received'[s] = received[s]
  PROVE  \A t \in Side : Direction(t)'
<1> DEFINE d == Peer(s)
<1>1. d \in Side /\ Peer(d) = s /\ d # s
  BY PeerFacts
<1>2. \A t \in Side : Flushed(t)' = Flushed(t) /\ Due(t)' = Due(t)
  BY DEF Flushed, Due
<1>3. frames'[s] = frames[s]
  BY ConsumeFacts
<1>4. Direction(s)'
  BY <1>1, <1>2, <1>3, DirectionKept
<1>5. Counts(d)'
  <2>1. Counts(d) /\ received[s] \in Nat /\ copied[s] \in Nat
    BY <1>1 DEF IInv, Direction, Typed, TypeOK
  <2>2. /\ Incoming(s) \in Frame /\ Incoming(s).from = received[s]
        /\ WireFrame(d, Incoming(s))
    BY IncomingFacts
  <2>3. Incoming(s).to \in Nat /\ Incoming(s).to <= sent[d] /\ received[s] <= Incoming(s).to
    <3>1. Incoming(s).to \in Nat /\ Incoming(s).from \in Nat
      BY <2>2 DEF Frame
    <3>2. /\ Incoming(s).to <= sent[d]
          /\ Incoming(s).type = "data" => 0 < Incoming(s).to - Incoming(s).from
          /\ Incoming(s).type # "data" => Incoming(s).from = Incoming(s).to
      BY <2>2 DEF WireFrame, Size
    <3>3. QED
      BY <2>2, <3>1, <3>2
  <2>4. copied[s] <= Incoming(s).to
    BY <1>1, <2>1, <2>3 DEF Counts
  <2>5. QED
    BY <1>1, <2>1, <2>3, <2>4 DEF Counts
<1>6. Wire(d)'
  BY <1>2, <1>1, WireConsume
<1>7. Returned(d)'
  <2>1. Base(d)' = Base(d)
    BY DEF Base
  <2>2. QED
    BY <1>1, <1>2, <2>1, ReturnedKept
<1>8. Order(d)'
  BY OrderConsume
<1>9. QED
  BY <1>4, <1>5, <1>6, <1>7, <1>8, BothSides DEF Direction

LEMMA StepReceiveHead ==
  ASSUME IInv, NEW s \in Side, ReceiveHead(s)
  PROVE  Threads' /\ Closing' /\ \A t \in Side : Direction(t)'
<1> DEFINE d == Peer(s)
<1>1. d \in Side /\ Peer(d) = s /\ d # s
  BY PeerFacts
<1>2. HeadType(d) = IF s = "agent" THEN "request" ELSE "response"
  BY DEF HeadType, Peer, Side
<1>3. Arrives(s, HeadType(d))
  BY <1>2 DEF ReceiveHead
<1>4. ~controlled[s]
  BY <1>3, HeadUnrefused
<1>5. /\ controlled' = [controlled EXCEPT ![s] = TRUE] /\ Consume(s)
      /\ UNCHANGED <<body, ended, counters, threads, tokens, credits, outcome>>
  BY <1>4 DEF ReceiveHead
<1>6. Threads'
  BY <1>5 DEF threads, counters, IInv, Threads
<1>7. Closing'
  BY <1>3, <1>5, ErrorsKept DEF outcome, Arrives, IInv, Closing, Open
<1>8. /\ Incoming(s).type = HeadType(d) /\ frames[d] # <<>>
      /\ Incoming(s).to = received[s]
  BY <1>3, IncomingFacts DEF Arrives, WireFrame, HeadType
<1>9. controlled'[s] /\ controlled'[d] = controlled[d]
  BY <1>1, <1>5 DEF IInv, Typed, TypeOK
<1>10. allowance[s] + received[s] = Window + copied[s]
  BY <1>1 DEF IInv, Direction, Counts
<1>11. QED
  BY <1>1, <1>5, <1>6, <1>7, <1>8, <1>9, <1>10, ConsumeStep
     DEF counters, threads, outcome

LEMMA StepReceiveData ==
  ASSUME IInv, NEW s \in Side, ReceiveData(s)
  PROVE  Threads' /\ Closing' /\ \A t \in Side : Direction(t)'
<1> DEFINE d == Peer(s)
           f == Incoming(s)
<1>1. d \in Side /\ Peer(d) = s /\ d # s
  BY PeerFacts
<1>2. Arrives(s, "data") /\ DataAllowed(s)
  BY DataUnrefused DEF ReceiveData
<1>3. /\ allowance' = [allowance EXCEPT ![s] = @ - Size(f)]
      /\ received' = [received EXCEPT ![s] = @ + Size(f)]
      /\ Consume(s)
      /\ UNCHANGED <<body, flags, credit, sent, copied, threads, credits, outcome>>
  BY <1>2 DEF ReceiveData
<1>4. Threads'
  BY <1>3 DEF threads, IInv, Threads
<1>5. Closing'
  BY <1>2, <1>3, ErrorsKept DEF outcome, Arrives, IInv, Closing, Open
<1>6. f.type = "data" /\ frames[d] # <<>> /\ f \in Frame /\ f.from = received[s]
  BY <1>2, IncomingFacts DEF Arrives
<1>7. /\ allowance[s] \in Nat /\ received[s] \in Nat /\ f.to \in Nat
      /\ allowance \in [Side -> Nat] /\ received \in [Side -> Nat]
  BY <1>6 DEF Frame, IInv, Typed, TypeOK
<1>8. /\ received'[s] = f.to /\ allowance'[s] = allowance[s] - (f.to - received[s])
      /\ received'[d] = received[d] /\ allowance'[d] = allowance[d]
  BY <1>1, <1>3, <1>6, <1>7 DEF Size
<1>9. allowance[s] + received[s] = Window + copied[s]
  BY <1>1 DEF IInv, Direction, Counts
<1>10. allowance'[s] + received'[s] = Window + copied[s]
  BY <1>7, <1>8, <1>9
<1>11. QED
  BY <1>3, <1>4, <1>5, <1>6, <1>8, <1>10, ConsumeStep DEF flags, threads, outcome

LEMMA StepReceiveEnd ==
  ASSUME IInv, NEW s \in Side, ReceiveEnd(s)
  PROVE  Threads' /\ Closing' /\ \A t \in Side : Direction(t)'
<1> DEFINE d == Peer(s)
<1>1. d \in Side /\ Peer(d) = s /\ d # s
  BY PeerFacts
<1>2. Arrives(s, "end") /\ ~ended[s] /\ controlled[s]
  BY EndUnrefused DEF ReceiveEnd
<1>3. /\ ended' = [ended EXCEPT ![s] = TRUE] /\ Consume(s)
      /\ UNCHANGED <<body, controlled, counters, threads, credits, outcome>>
  BY <1>2 DEF ReceiveEnd
<1>4. Threads'
  BY <1>3 DEF threads, counters, IInv, Threads
<1>5. Closing'
  BY <1>2, <1>3, ErrorsKept DEF outcome, Arrives, IInv, Closing, Open
<1>6. /\ Incoming(s).type = "end" /\ frames[d] # <<>>
      /\ Incoming(s).to = received[s]
  BY <1>2, IncomingFacts DEF Arrives, WireFrame
<1>7. ended'[s] /\ ended'[d] = ended[d]
  BY <1>1, <1>3 DEF IInv, Typed, TypeOK
<1>8. allowance[s] + received[s] = Window + copied[s]
  BY <1>1 DEF IInv, Direction, Counts
<1>9. QED
  BY <1>3, <1>4, <1>5, <1>6, <1>7, <1>8, ConsumeStep DEF counters, threads, outcome

LEMMA FinishFacts ==
  ASSUME IInv, NEW s \in Side, NEW why, Finish(s, why)
  PROVE  /\ closed'
         /\ \A t \in Side : t # s => status'[t] = status[t]
         /\ status'[s] = IF Open(s) THEN why ELSE status[s]
  BY DEF Finish, Open, IInv, Typed, TypeOK

LEMMA StepReceiveError ==
  ASSUME IInv, NEW s \in Side, ReceiveError(s)
  PROVE  Threads' /\ Closing' /\ \A t \in Side : Direction(t)'
<1> DEFINE d == Peer(s)
<1>1. d \in Side /\ Peer(d) = s /\ d # s
  BY PeerFacts
<1>2. /\ Arrives(s, "error") /\ Finish(s, "failed") /\ Consume(s)
      /\ UNCHANGED <<body, flags, counters, threads, credits, refused>>
  BY DEF ReceiveError
<1>3. Threads'
  BY <1>2 DEF threads, counters, IInv, Threads
<1>4. /\ Incoming(s).type = "error" /\ frames[d] # <<>>
      /\ Incoming(s).to = received[s] /\ Incoming(s) = frames[d][1]
      /\ 1 \in 1..Len(frames[d])
  BY <1>2, IncomingFacts DEF Arrives, WireFrame
<1>5. status'["agent"] = "failed"
  <2>1. CASE s = "agent"
    BY <1>2, <2>1, FinishFacts DEF Arrives
  <2>2. CASE d = "agent"
    BY <1>1, <1>2, <1>4, <2>2, FinishFacts DEF IInv, Closing
  <2>3. QED
    BY <2>1, <2>2, BothSides, AgentSide
<1>6. Closing'
  BY <1>2, <1>4, <1>5, ErrorsKept, FinishFacts DEF IInv, Closing
<1>7. allowance[s] + received[s] = Window + copied[s]
  BY <1>1 DEF IInv, Direction, Counts
<1>8. closed'
  BY <1>2, FinishFacts
<1>9. QED
  BY <1>2, <1>3, <1>4, <1>6, <1>7, <1>8, ConsumeStep DEF flags, counters, threads

LEMMA StepReceiveCredit ==
  ASSUME IInv, NEW s \in Side, ReceiveCredit(s)
  PROVE  Threads' /\ Closing' /\ \A t \in Side : Direction(t)'
<1> DEFINE d == Peer(s)
           q == credits[d]
           c == Head(q)
<1>1. d \in Side /\ Peer(d) = s /\ d # s
  BY PeerFacts
<1>2. q # <<>>
  BY DEF ReceiveCredit
<1>3. /\ c = q[1] /\ c \in Credit /\ 0 < Size(c) /\ Size(c) <= Window - credit[s]
      /\ c.from = Base(s) /\ c.to <= copied[d]
  BY <1>2, CreditUnrefused
<1>4. /\ credit' = [credit EXCEPT ![s] = @ + Size(c)]
      /\ credits' = [credits EXCEPT ![d] = Tail(@)]
      /\ UNCHANGED <<body, flags, allowance, sent, received, copied, threads, frames,
                     outcome>>
  BY <1>3 DEF ReceiveCredit
<1>5. Threads'
  BY <1>4 DEF threads, IInv, Threads
<1>6. Closing'
  BY <1>4, ErrorsKept DEF outcome, IInv, Closing, Open
<1>7. /\ credits'[d] = Tail(q) /\ credits'[s] = credits[s] /\ q \in Seq(Credit)
      /\ credit'[s] = credit[s] + Size(c) /\ credit'[d] = credit[d]
  BY <1>1, <1>4 DEF IInv, Typed, TypeOK
<1>8. \A t \in Side : Flushed(t)' = Flushed(t) /\ Due(t)' = Due(t)
  BY <1>4 DEF threads, Flushed, Due
<1>9. Direction(d)'
  BY <1>1, <1>4, <1>7, <1>8, DirectionKept DEF flags, threads, outcome
<1>10. Returned(s)'
  <2>1. Base(s)' = c.to
    <3>1. /\ credit[s] \in Nat /\ sent[s] \in Nat /\ Window \in Nat
          /\ c.from \in Nat /\ c.to \in Nat
      BY <1>3, StreamAssumption DEF Credit, IInv, Typed, TypeOK
    <3>2. c.from = credit[s] + sent[s] - Window
      BY <1>3 DEF Base
    <3>3. credit'[s] = credit[s] + (c.to - c.from) /\ sent'[s] = sent[s]
      BY <1>4, <1>7 DEF Size
    <3>4. credit'[s] + sent'[s] - Window = c.to
      <4> HIDE DEF c
      <4> QED
        BY <3>1, <3>2, <3>3
    <3>5. QED
      BY <3>4 DEF Base
  <2>2. Returned(s)
    BY DEF IInv, Direction
  <2>3. Linked(Tail(q), c.to) /\ EndOf(Tail(q), c.to) = EndOf(q, Base(s))
    BY <1>2, <1>3, <1>7, <2>2, LinkedTail DEF Returned
  <2>4. \A i \in 1..Len(Tail(q)) : i + 1 \in 1..Len(q) /\ Tail(q)[i] = q[i + 1]
    BY <1>2, <1>7, TailFacts
  <2>5. closed' = closed /\ copied' = copied
    BY <1>4 DEF outcome
  <2>6. \A i \in 1..Len(Tail(q)) :
          Tail(q)[i].from < Tail(q)[i].to /\ Tail(q)[i].to <= copied[d]
    BY <2>2, <2>4 DEF Returned
  <2>7. ~closed => EndOf(Tail(q), c.to) = copied[d] - Due(d)
    BY <2>2, <2>3 DEF Returned
  <2> HIDE DEF c, q
  <2>8. Linked(credits'[d], Base(s)') /\ EndOf(credits'[d], Base(s)') = EndOf(Tail(q), c.to)
    BY <1>7, <2>1, <2>3
  <2>9. QED
    BY <1>1, <1>3, <1>7, <1>8, <2>1, <2>5, <2>6, <2>7, <2>8 DEF Returned, Linked, EndOf
<1>11. Counts(s)' /\ Wire(s)' /\ Order(s)'
  <2>1. sent[s] <= sent[s] /\ sent[s] \in Nat
    BY DEF IInv, Typed, TypeOK
  <2>2. QED
    BY <1>4, <1>8, <2>1, CountsKept, WireKept, OrderKept DEF flags, threads, outcome, Phase
<1>12. QED
  BY <1>5, <1>6, <1>9, <1>10, <1>11, BothSides DEF Direction

LEMMA StepOnClose ==
  ASSUME IInv, NEW s \in Side, OnClose(s)
  PROVE  Threads' /\ Closing' /\ \A t \in Side : Direction(t)'
<1>1. /\ closed /\ Finish(s, "lost") /\ Open(s)
      /\ UNCHANGED <<body, flags, counters, threads, wires, refused>>
  BY DEF OnClose
<1>2. Threads'
  BY <1>1 DEF threads, counters, IInv, Threads
<1>3. Closing'
  <2>1. /\ closed' /\ \A t \in Side : t # s => status'[t] = status[t]
        /\ status'[s] = "lost"
    BY <1>1, FinishFacts
  <2>2. /\ status["agent"] = "failed" => status'["agent"] = "failed"
        /\ status["client"] \in {"complete", "aborted"} => status'["client"] = status["client"]
    BY <1>1, <2>1, AgentSide, ClientSide DEF Open
  <2>3. QED
    BY <1>1, <2>1, <2>2, ErrorsKept DEF wires, IInv, Closing
<1>4. closed'
  BY <1>1, FinishFacts
<1>5. \A t \in Side : Direction(t)'
  BY <1>1, <1>4, QuietStep DEF flags, counters, threads, wires
<1>6. QED
  BY <1>2, <1>3, <1>5

LEMMA StepReceive ==
  ASSUME IInv, NEW s \in Side, Receive(s)
  PROVE  Threads' /\ Closing' /\ \A t \in Side : Direction(t)'
  BY StepReceiveHead, StepReceiveData, StepReceiveEnd, StepReceiveError,
     StepReceiveCredit, StepOnClose DEF Receive

---------------------------------------------------------------------------
(* The invariant over a step that sends                                    *)

LEMMA OpenUnlessClosed ==
  ASSUME IInv, NEW s \in Side
  PROVE  (CanSend(s) <=> ~closed) /\ (closed => \/ status["client"] \in {"complete", "aborted"}
                                                \/ status["agent"] = "failed")
  BY DEF IInv, Closing, CanSend

LEMMA PutStep ==
  ASSUME IInv, NEW s \in Side, ~closed, NEW f \in Frame, Put(s, f),
         UNCHANGED <<body, received, copied, allowance, controlled, ended, credits, owed>>,
         \A t \in Side : t # s => /\ sent'[t] = sent[t] /\ credit'[t] = credit[t]
                                  /\ writer'[t] = writer[t] /\ Flushed(t)' = Flushed(t),
         sent'[s] \in Nat, sent[s] <= sent'[s], sent'[s] <= body[s], Base(s)' = Base(s),
         f.from = Flushed(s), f.to = Flushed(s)', WireFrame(s, f)',
         \/ writer[s] = "head" /\ f.type = HeadType(s) /\ writer'[s] = "write"
         \/ /\ Phase(writer[s]) = "during" /\ Phase(writer'[s]) = "during"
            /\ f.type = "data"
         \/ Phase(writer[s]) = "during" /\ writer'[s] = "done" /\ f.type = "end"
         \/ /\ Phase(writer[s]) \in {"before", "during"} /\ writer'[s] = "done"
            /\ f.type = "error"
  PROVE  \A t \in Side : Direction(t)'
<1> DEFINE d == Peer(s)
<1>1. d \in Side /\ Peer(d) = s /\ d # s
  BY PeerFacts
<1>2. \A t \in Side : Due(t)' = Due(t)
  BY DEF Due
<1>3. frames'[d] = frames[d]
  BY <1>1, PutFacts
<1>4. Direction(d)'
  BY <1>1, <1>2, <1>3, DirectionKept
<1>5. Wire(s)'
  BY WirePut
<1>6. Order(s)'
  BY OrderPut
<1>7. Returned(s)'
  BY <1>1, <1>2, ReturnedKept
<1>8. Counts(s)'
  <2>1. Counts(s) /\ received[d] \in Nat /\ sent[s] \in Nat
    BY <1>1 DEF IInv, Direction, Typed, TypeOK
  <2>2. received[d] <= sent'[s]
    BY <2>1 DEF Counts
  <2>3. QED
    BY <2>1, <2>2 DEF Counts
<1>9. QED
  BY <1>4, <1>5, <1>6, <1>7, <1>8, BothSides DEF Direction

\* A frame without bytes.
LEMMA ControlStep ==
  ASSUME IInv, NEW s \in Side, ~closed,
         NEW type \in {"request", "response", "end", "error"}, Put(s, Control(s, type)),
         UNCHANGED <<body, received, copied, allowance, controlled, ended, credits, owed,
                     sent, credit, claim>>,
         \A t \in Side : t # s => writer'[t] = writer[t],
         type = "end" => Flushed(s) = body[s],
         \/ writer[s] = "head" /\ type = HeadType(s) /\ writer'[s] = "write"
         \/ Phase(writer[s]) = "during" /\ writer'[s] = "done" /\ type = "end"
         \/ /\ Phase(writer[s]) \in {"before", "during"} /\ writer'[s] = "done"
            /\ type = "error"
  PROVE  \A t \in Side : Direction(t)'
<1>1. PICK f \in Frame : f = Control(s, type)
  BY ControlType DEF IInv
<1>a. f.type = type /\ f.from = Flushed(s) /\ f.to = Flushed(s)
  BY <1>1 DEF Control
<1>2. \A t \in Side : Flushed(t)' = Flushed(t) /\ Base(t)' = Base(t)
  BY DEF Flushed, Base
<1>3. /\ sent[s] \in Nat /\ sent[s] <= sent[s] /\ sent[s] <= body[s]
      /\ claim \in Nat /\ claim <= sent["agent"]
  BY DEF IInv, Direction, Counts, Typed, TypeOK
<1>4. Flushed(s) <= sent[s]
  BY <1>3 DEF Flushed
<1>5. WireFrame(s, f)'
  BY <1>a, <1>2, <1>3, <1>4 DEF WireFrame
<1>6. Put(s, f)
  BY <1>1
<1>7. QED
  BY <1>a, <1>2, <1>3, <1>5, <1>6, PutStep

LEMMA StepAgentQuiet ==
  ASSUME IInv, \/ AgentServe \/ AgentStall \/ AgentWake \/ AgentStop \/ AgentEOF
               \/ AgentReadWait \/ AgentReadWake \/ AgentQuitsReading
  PROVE  Threads' /\ Closing' /\ \A t \in Side : Direction(t)'
<1> USE DEF flags, counters, tokens, wires, outcome, WriterGoes
<1>1. UNCHANGED <<body, flags, counters, claim, owed, wires, outcome>>
  BY DEF AgentServe, AgentStall, AgentWake, AgentStop, AgentEOF, AgentReadWait,
         AgentReadWake, AgentQuitsReading
<1>2. \A t \in Side : Phase(writer'[t]) \in {Phase(writer[t]), "after"}
  BY DEF AgentServe, AgentStall, AgentWake, AgentStop, AgentEOF, AgentReadWait,
         AgentReadWake, AgentQuitsReading, Phase, IInv, Typed, TypeOK
<1>3. Threads'
  <2>1. Threads /\ writer \in [Side -> {"idle", "head", "write", "send", "wait", "done"}]
    BY DEF IInv, Typed, TypeOK
  <2>2. QED
    BY <1>1, <2>1, AgentSide
       DEF AgentServe, AgentStall, AgentWake, AgentStop, AgentEOF, AgentReadWait,
           AgentReadWake, AgentQuitsReading, Threads
<1>4. Closing'
  BY <1>1, ErrorsKept DEF IInv, Closing, Open
<1>5. QED
  BY <1>1, <1>2, <1>3, <1>4, QuietStep

LEMMA StepAgentFail ==
  ASSUME IInv, AgentFail
  PROVE  Threads' /\ Closing' /\ \A t \in Side : Direction(t)'
<1>1. /\ writer["agent"] \in {"head", "write"} /\ Finish("agent", "failed")
      /\ Open("agent")
      /\ IF closed THEN UNCHANGED frames ELSE Put("agent", Control("agent", "error"))
      /\ writer' = [writer EXCEPT !["agent"] = "done"]
      /\ UNCHANGED <<body, flags, counters, reader, claim, owed, credits, refused>>
  BY DEF AgentFail, WriterGoes
<1>2. /\ writer'["agent"] = "done" /\ \A t \in Side : t # "agent" => writer'[t] = writer[t]
      /\ Phase(writer["agent"]) \in {"before", "during"} /\ Phase("done") = "after"
  BY <1>1, AgentSide DEF Phase, IInv, Typed, TypeOK
<1>3. /\ status'["agent"] = "failed" /\ closed'
      /\ \A t \in Side : t # "agent" => status'[t] = status[t]
  BY <1>1, AgentSide, FinishFacts
<1>4. Threads'
  BY <1>1, <1>2 DEF IInv, Threads, counters
<1>5. Closing'
  <2>1. \E f \in Frame : f = Control("agent", "error")
    BY AgentSide, ControlType DEF IInv
  <2>2. QED
    BY <1>1, <1>3, <2>1, AgentSide, ErrorsKept DEF IInv, Closing
<1>6. CASE closed
  <2>1. \A t \in Side : Phase(writer'[t]) \in {Phase(writer[t]), "after"}
    BY <1>2
  <2>2. QED
    BY <1>1, <1>3, <1>4, <1>5, <1>6, <2>1, QuietStep DEF flags, counters
<1>7. CASE ~closed
  BY <1>1, <1>2, <1>4, <1>5, <1>7, AgentSide, ControlStep DEF flags, counters
<1>8. QED
  BY <1>6, <1>7

LEMMA StepAgentControl ==
  ASSUME IInv, AgentHead \/ AgentEnd
  PROVE  Threads' /\ Closing' /\ \A t \in Side : Direction(t)'
<1>1. CASE AgentHead
  <2>1. /\ writer["agent"] = "head" /\ CanSend("agent")
        /\ Put("agent", Control("agent", "response"))
        /\ writer' = [writer EXCEPT !["agent"] = "write"]
        /\ UNCHANGED <<body, flags, counters, reader, claim, owed, credits, outcome>>
    BY <1>1 DEF AgentHead, WriterGoes
  <2>2. ~closed /\ writer'["agent"] = "write"
        /\ \A t \in Side : t # "agent" => writer'[t] = writer[t]
    BY <2>1, AgentSide, OpenUnlessClosed DEF IInv, Typed, TypeOK
  <2>3. Threads'
    BY <2>1, <2>2 DEF IInv, Threads, counters
  <2>4. PICK f \in Frame : f = Control("agent", "response")
    BY AgentSide, ControlType DEF IInv
  <2>5. f.type # "error"
    BY <2>4 DEF Control
  <2>6. Closing'
    BY <2>1, <2>4, <2>5, AgentSide, ErrorsKept DEF IInv, Closing, outcome, Open
  <2>7. QED
    BY <2>1, <2>2, <2>3, <2>6, AgentSide, ControlStep
       DEF flags, counters, HeadType
<1>2. CASE AgentEnd
  <2>1. /\ writer["agent"] = "write" /\ CanSend("agent") /\ sent["agent"] = body["agent"]
        /\ Put("agent", Control("agent", "end"))
        /\ writer' = [writer EXCEPT !["agent"] = "done"]
        /\ UNCHANGED <<body, flags, counters, reader, claim, owed, credits, outcome>>
    BY <1>2 DEF AgentEnd, WriterGoes
  <2>2. ~closed /\ writer'["agent"] = "done"
        /\ \A t \in Side : t # "agent" => writer'[t] = writer[t]
    BY <2>1, AgentSide, OpenUnlessClosed DEF IInv, Typed, TypeOK
  <2>3. Threads'
    BY <2>1, <2>2 DEF IInv, Threads, counters
  <2>4. PICK f \in Frame : f = Control("agent", "end")
    BY AgentSide, ControlType DEF IInv
  <2>5. f.type # "error"
    BY <2>4 DEF Control
  <2>6. Closing'
    BY <2>1, <2>4, <2>5, AgentSide, ErrorsKept DEF IInv, Closing, outcome, Open
  <2>7. Flushed("agent") = body["agent"]
    <3>1. claim = 0
      BY <2>1 DEF IInv, Threads
    <3>2. sent["agent"] \in Nat
      BY AgentSide DEF IInv, Typed, TypeOK
    <3>3. QED
      BY <2>1, <3>1, <3>2 DEF Flushed
  <2>8. Phase(writer["agent"]) = "during"
    BY <2>1 DEF Phase
  <2>9. QED
    BY <2>1, <2>2, <2>3, <2>6, <2>7, <2>8, AgentSide, ControlStep
       DEF flags, counters
<1>3. QED
  BY <1>1, <1>2

LEMMA StepAgentTake ==
  ASSUME IInv, NEW n \in 1..Chunk, AgentTake(n)
  PROVE  Threads' /\ Closing' /\ \A t \in Side : Direction(t)'
<1>1. /\ writer["agent"] = "write" /\ n \in Takable("agent")
      /\ credit' = [credit EXCEPT !["agent"] = @ - n]
      /\ sent' = [sent EXCEPT !["agent"] = @ + n]
      /\ claim' = n
      /\ writer' = [writer EXCEPT !["agent"] = "send"]
      /\ UNCHANGED <<body, flags, allowance, received, copied, reader, owed, wires, outcome>>
  BY DEF AgentTake, WriterGoes
<1>2. /\ n \in Nat /\ 0 < n /\ n <= Chunk /\ n <= credit["agent"]
      /\ n <= body["agent"] - sent["agent"]
  BY <1>1, AgentSide, TakableBound DEF IInv
<1>3. /\ writer'["agent"] = "send" /\ \A t \in Side : t # "agent" => writer'[t] = writer[t]
      /\ credit'["agent"] = credit["agent"] - n /\ sent'["agent"] = sent["agent"] + n
      /\ \A t \in Side : t # "agent" => credit'[t] = credit[t] /\ sent'[t] = sent[t]
  BY <1>1, AgentSide DEF IInv, Typed, TypeOK
<1>4. claim = 0
  BY <1>1 DEF IInv, Threads
<1>5. Threads'
  BY <1>1, <1>2, <1>3 DEF IInv, Threads
<1>6. Closing'
  BY <1>1, ErrorsKept DEF IInv, Closing, wires, outcome, Open
<1>7. /\ credit["agent"] \in Nat /\ sent["agent"] \in Nat /\ body["agent"] \in Nat
      /\ Window \in Nat
  BY AgentSide, StreamAssumption DEF IInv, Typed, TypeOK
<1>8. Flushed("agent")' = Flushed("agent")
  BY <1>1, <1>2, <1>3, <1>4, <1>7 DEF Flushed
<1>9. Base("agent")' = Base("agent")
  BY <1>2, <1>3, <1>7 DEF Base
<1>10. /\ sent["agent"] <= sent'["agent"] /\ sent'["agent"] \in Nat
       /\ sent'["agent"] <= body["agent"]
  BY <1>2, <1>3, <1>7
<1>11. \A t \in Side : Due(t)' = Due(t)
  BY <1>1 DEF Due
<1>12. Direction("client")'
  <2>1. Flushed("client")' = Flushed("client")
    BY <1>3, ClientSide DEF Flushed
  <2>2. "client" # "agent"
    OBVIOUS
  <2>3. QED
    BY <1>1, <1>3, <1>11, <2>1, <2>2, ClientSide, PeerFacts, DirectionKept
       DEF flags, wires, outcome
<1>13. Direction("agent")'
  <2>1. Order("agent")'
    <3>1. Phase(writer'["agent"]) = Phase(writer["agent"])
      BY <1>1, <1>3 DEF Phase
    <3>2. QED
      BY <1>1, <3>1, AgentSide, OrderKept DEF flags, wires
  <2>2. Wire("agent")'
    BY <1>1, <1>8, <1>10, AgentSide, WireKept DEF wires, outcome
  <2>3. Returned("agent")'
    BY <1>1, <1>9, <1>11, AgentSide, PeerFacts, ReturnedKept DEF wires, outcome
  <2>4. Counts("agent")'
    <3>1. Counts("agent") /\ received[Peer("agent")] \in Nat
      BY AgentSide, PeerFacts DEF IInv, Direction, Typed, TypeOK
    <3>2. received[Peer("agent")] <= sent'["agent"]
      BY <1>7, <1>10, <3>1 DEF Counts
    <3>3. QED
      BY <1>1, <1>10, <3>1, <3>2 DEF Counts
  <2>5. QED
    BY <2>1, <2>2, <2>3, <2>4 DEF Direction
<1>14. QED
  BY <1>5, <1>6, <1>12, <1>13, AgentSide, BothSides DEF Side

LEMMA StepAgentSend ==
  ASSUME IInv, AgentSend
  PROVE  Threads' /\ Closing' /\ \A t \in Side : Direction(t)'
<1>1. /\ writer["agent"] = "send" /\ claim' = 0
      /\ UNCHANGED <<body, flags, counters, reader, owed, credits, refused>>
  BY DEF AgentSend
<1>2. /\ sent["agent"] \in Nat /\ claim \in Nat /\ claim # 0 /\ claim <= sent["agent"]
      /\ claim <= Chunk /\ sent["agent"] <= body["agent"]
  BY <1>1, AgentSide DEF IInv, Typed, TypeOK, Threads, Direction, Counts
<1>3. Flushed("agent")' = sent["agent"] /\ Flushed("agent") = sent["agent"] - claim
  BY <1>1, <1>2 DEF Flushed, counters
<1>4. Flushed("client")' = Flushed("client") /\ \A t \in Side : Due(t)' = Due(t)
  BY <1>1 DEF Flushed, Due, counters
<1>5. \A t \in Side : Base(t)' = Base(t)
  BY <1>1 DEF Base, counters
<1>6. CASE closed
  <2>1. /\ Finish("agent", "failed") /\ frames' = frames
        /\ writer' = [writer EXCEPT !["agent"] = "done"]
    BY <1>6 DEF AgentSend, WriterGoes
  <2>2. /\ closed' /\ \A t \in Side : t # "agent" => status'[t] = status[t]
        /\ status["agent"] = "failed" => status'["agent"] = "failed"
    BY <2>1, AgentSide, FinishFacts DEF Open
  <2>3. /\ writer'["agent"] = "done"
        /\ \A t \in Side : t # "agent" => writer'[t] = writer[t]
    BY <2>1, AgentSide DEF IInv, Typed, TypeOK
  <2>4. Threads'
    BY <1>1, <1>2, <2>3, StreamAssumption DEF IInv, Threads, counters
  <2>5. Closing'
    BY <1>1, <1>6, <2>1, <2>2, ClientSide, ErrorsKept DEF IInv, Closing
  <2>6. Direction("client")'
    <3>1. "client" # "agent"
      OBVIOUS
    <3>2. QED
      BY <1>1, <1>4, <1>6, <2>1, <2>2, <2>3, <3>1, ClientSide, PeerFacts, DirectionKept
         DEF flags, counters
  <2>7. Direction("agent")'
    <3>1. Order("agent")'
      BY <1>1, <2>1, <2>3, AgentSide, OrderKept DEF flags, counters, Phase
    <3>2. Returned("agent")'
      BY <1>1, <1>4, <1>5, <2>2, AgentSide, PeerFacts, ReturnedKept DEF counters
    <3>3. Counts("agent")'
      BY <1>1, AgentSide, CountsKept DEF counters
    <3>4. Wire("agent")'
      BY <1>1, <2>1, <2>2, AgentSide DEF IInv, Direction, Wire, WireFrame, counters
    <3>5. QED
      BY <3>1, <3>2, <3>3, <3>4 DEF Direction
  <2>8. QED
    BY <2>4, <2>5, <2>6, <2>7 DEF Side
<1>7. CASE ~closed
  <2>1. PICK f \in Frame :
          f = [type |-> "data", from |-> Flushed("agent"), to |-> sent["agent"]]
    <3>1. Flushed("agent") \in Nat
      BY <1>2, <1>3
    <3>2. QED
      BY <1>2, <3>1 DEF Frame
  <2>2. f.type = "data" /\ f.from = Flushed("agent") /\ f.to = Flushed("agent")'
    BY <1>3, <2>1
  <2>3. /\ Put("agent", f) /\ UNCHANGED <<status, closed>>
        /\ writer' = [writer EXCEPT !["agent"] = "write"]
    BY <1>7, <2>1 DEF AgentSend, WriterGoes
  <2>4. /\ writer'["agent"] = "write"
        /\ \A t \in Side : t # "agent" => writer'[t] = writer[t]
    BY <2>3, AgentSide DEF IInv, Typed, TypeOK
  <2>5. Threads'
    BY <1>1, <1>2, <2>4, StreamAssumption DEF IInv, Threads, counters
  <2>6. Closing'
    BY <1>1, <2>2, <2>3, AgentSide, ErrorsKept DEF IInv, Closing, Open
  <2>7. WireFrame("agent", f)'
    <3>1. f.from = sent["agent"] - claim /\ f.to = sent["agent"]
      BY <1>3, <2>2
    <3>2. 0 < f.to - f.from /\ f.to - f.from <= Chunk /\ f.to <= sent["agent"]
      BY <1>2, <3>1
    <3>3. QED
      BY <1>1, <2>2, <3>2 DEF WireFrame, Size, counters
  <2>8. Phase(writer["agent"]) = "during" /\ Phase(writer'["agent"]) = "during"
    BY <1>1, <2>4 DEF Phase
  <2>9. \A t \in Side : t # "agent" => /\ sent'[t] = sent[t] /\ credit'[t] = credit[t]
                                       /\ Flushed(t)' = Flushed(t)
    BY <1>1, <1>4 DEF counters, Side
  <2>10. QED
    BY <1>1, <1>2, <1>5, <1>7, <2>2, <2>3, <2>4, <2>5, <2>6, <2>7, <2>8, <2>9, AgentSide, PutStep
       DEF flags, counters
<1>8. QED
  BY <1>6, <1>7

\* Bytes are read at s: the window of the peer's body moves on.
LEMMA CopyCounts ==
  ASSUME IInv, NEW s \in Side, NEW n \in Nat, n <= Buffered(s),
         copied'[s] = copied[s] + n, allowance'[s] = allowance[s] + n,
         UNCHANGED <<body, sent, received>>
  PROVE  Counts(Peer(s))'
<1> DEFINE d == Peer(s)
<1>1. d \in Side /\ Peer(d) = s
  BY PeerFacts
<1>2. /\ copied[s] \in Nat /\ received[s] \in Nat /\ allowance[s] \in Nat /\ Window \in Nat
      /\ Counts(d)
  BY <1>1, StreamAssumption DEF IInv, Direction, Typed, TypeOK
<1>3. n <= received[s] - copied[s]
  BY DEF Buffered
<1>4. copied[s] + n <= received[s]
  BY <1>2, <1>3
<1>5. allowance[s] + n + received[s] = Window + (copied[s] + n)
  BY <1>1, <1>2 DEF Counts
<1>6. QED
  BY <1>1, <1>2, <1>4, <1>5 DEF Counts

LEMMA StepAgentCopy ==
  ASSUME IInv, NEW n \in 1..Chunk, AgentCopy(n)
  PROVE  Threads' /\ Closing' /\ \A t \in Side : Direction(t)'
<1>1. /\ reader = "read" /\ n \in 1..Least(Chunk, Buffered("agent"))
      /\ copied' = [copied EXCEPT !["agent"] = @ + n]
      /\ allowance' = [allowance EXCEPT !["agent"] = @ + n]
      /\ owed' = n /\ reader' = "credit"
      /\ UNCHANGED <<body, flags, credit, sent, received, writer, claim, wires, outcome>>
  BY DEF AgentCopy
<1>2. /\ copied["agent"] \in Nat /\ received["agent"] \in Nat /\ Chunk \in Nat
      /\ copied["agent"] <= received["agent"] /\ n \in Nat /\ 0 < n
  BY AgentSide, ClientSide, StreamAssumption
     DEF IInv, Typed, TypeOK, Direction, Counts, Peer
<1>3. n <= Buffered("agent")
  <2>1. Buffered("agent") \in Nat
    BY <1>2 DEF Buffered
  <2>2. QED
    BY <1>1, <1>2, <2>1 DEF Least
<1>4. /\ copied'["agent"] = copied["agent"] + n
      /\ allowance'["agent"] = allowance["agent"] + n
      /\ copied'["client"] = copied["client"] /\ allowance'["client"] = allowance["client"]
  BY <1>1, AgentSide, ClientSide DEF IInv, Typed, TypeOK
<1>5. owed = 0
  BY <1>1 DEF IInv, Threads
<1>6. Threads'
  BY <1>1, <1>2 DEF IInv, Threads
<1>7. Closing'
  BY <1>1, ErrorsKept DEF IInv, Closing, wires, outcome, Open
<1>8. \A t \in Side : Flushed(t)' = Flushed(t) /\ Base(t)' = Base(t)
  BY <1>1 DEF Flushed, Base
<1>9. Peer("agent") = "client" /\ Peer("client") = "agent"
  BY DEF Peer
<1>10. Direction("agent")'
  <2>1. Due("client")' = Due("client")
    BY DEF Due
  <2>2. QED
    BY <1>1, <1>4, <1>8, <1>9, <2>1, AgentSide, DirectionKept DEF flags, wires, outcome
<1>11. Direction("client")'
  <2>1. Counts("client")'
    BY <1>1, <1>2, <1>3, <1>4, <1>9, AgentSide, CopyCounts
  <2>2. sent["client"] <= sent["client"] /\ sent["client"] \in Nat
    BY ClientSide DEF IInv, Typed, TypeOK
  <2>3. Wire("client")'
    BY <1>1, <1>8, <2>2, ClientSide, WireKept DEF wires, outcome
  <2>4. Order("client")'
    BY <1>1, ClientSide, OrderKept DEF flags, wires
  <2>5. Returned("client")'
    <3>1. Returned("client") /\ Base("client") <= copied["agent"]
      BY <1>9, ClientSide DEF IInv, Direction, Returned
    <3>a. Base("client") \in Int
      BY ClientSide, StreamAssumption DEF IInv, Typed, TypeOK, Base
    <3>2. Base("client") <= copied'["agent"]
      BY <1>2, <1>4, <3>1, <3>a
    <3>3. copied'["agent"] - Due("agent")' = copied["agent"] - Due("agent")
      BY <1>1, <1>2, <1>4, <1>5 DEF Due
    <3>4. ASSUME NEW i \in 1..Len(credits["agent"])
          PROVE  /\ credits["agent"][i].from < credits["agent"][i].to
                 /\ credits["agent"][i].to <= copied'["agent"]
      <4>1. credits["agent"][i] \in Credit
        BY AgentSide, EntryType DEF IInv, Typed, TypeOK
      <4>2. credits["agent"][i].to \in Nat
        BY <4>1 DEF Credit
      <4>3. QED
        BY <1>2, <1>4, <1>9, <3>1, <4>2 DEF Returned
    <3>5. QED
      BY <1>1, <1>8, <1>9, <3>1, <3>2, <3>3, <3>4, ClientSide
         DEF Returned, Linked, EndOf, wires, outcome
  <2>6. QED
    BY <2>1, <2>3, <2>4, <2>5 DEF Direction
<1>12. QED
  BY <1>6, <1>7, <1>10, <1>11 DEF Side

\* The credits on their way to s grow by one.
LEMMA CreditPut ==
  ASSUME IInv, NEW s \in Side, NEW c \in Credit, ~closed,
         credits'[Peer(s)] = Append(credits[Peer(s)], c), Base(s)' = Base(s),
         c.from = copied[Peer(s)] - Due(Peer(s)), c.from < c.to,
         c.to = copied'[Peer(s)] - Due(Peer(s))', c.to = copied'[Peer(s)],
         copied[Peer(s)] <= copied'[Peer(s)], copied'[Peer(s)] \in Nat
  PROVE  Returned(s)'
<1> DEFINE p == Peer(s)
           q == credits[p]
           r == credits'[p]
<1>1. p \in Side /\ q \in Seq(Credit) /\ copied[p] \in Nat
  BY PeerFacts DEF IInv, Typed, TypeOK
<1>2. Returned(s)
  BY DEF IInv, Direction
<1>3. Linked(r, Base(s)) /\ EndOf(r, Base(s)) = c.to
  BY <1>1, <1>2, LinkedAppend DEF Returned
<1>4. /\ r[Len(q) + 1] = c /\ \A i \in 1..Len(q) : r[i] = q[i]
      /\ \A i \in 1..Len(r) : i \in 1..Len(q) \/ i = Len(q) + 1
  BY <1>1, AppendFacts
<1>5. ASSUME NEW i \in 1..Len(r) PROVE r[i].from < r[i].to /\ r[i].to <= copied'[p]
  <2>1. CASE i = Len(q) + 1
    BY <1>4, <2>1
  <2>2. CASE i \in 1..Len(q)
    <3>1. q[i] \in Credit
      BY <1>1, <2>2, EntryType
    <3>2. q[i].to \in Nat
      BY <3>1 DEF Credit
    <3>3. q[i].from < q[i].to /\ q[i].to <= copied[p] /\ r[i] = q[i]
      BY <1>2, <1>4, <2>2 DEF Returned
    <3>4. QED
      BY <1>1, <3>2, <3>3
  <2>3. QED
    BY <1>4, <1>5, <2>1, <2>2
<1>6. Base(s) <= copied'[p]
  <2>1. Base(s) \in Int /\ Base(s) <= copied[p]
    BY <1>2, StreamAssumption DEF Returned, Base, IInv, Typed, TypeOK
  <2>2. QED
    BY <1>1, <2>1
<1>7. QED
  BY <1>3, <1>5, <1>6 DEF Returned, Linked, EndOf

LEMMA StepAgentCredit ==
  ASSUME IInv, AgentCredit
  PROVE  Threads' /\ Closing' /\ \A t \in Side : Direction(t)'
<1>1. /\ reader = "credit" /\ owed' = 0 /\ reader' \in {"read", "stopped"}
      /\ UNCHANGED <<body, flags, counters, writer, claim, frames, outcome>>
  BY DEF AgentCredit
<1>2. Threads'
  BY <1>1 DEF IInv, Threads
<1>3. Closing'
  BY <1>1, ErrorsKept DEF IInv, Closing, outcome, Open
<1>4. \A t \in Side : Flushed(t)' = Flushed(t) /\ Base(t)' = Base(t)
  BY <1>1 DEF Flushed, Base, counters
<1>5. Peer("agent") = "client" /\ Peer("client") = "agent" /\ "client" # "agent"
  BY DEF Peer
<1>6. /\ copied["agent"] \in Nat /\ owed \in Nat /\ owed # 0 /\ owed <= copied["agent"]
      /\ credits \in [Side -> Seq(Credit)]
  BY <1>1, AgentSide DEF IInv, Typed, TypeOK, Threads
<1>7. credits'["client"] = credits["client"]
  BY <1>5, <1>6, ClientSide DEF AgentCredit
<1>8. Direction("agent")'
  <2>1. Due("client")' = Due("client")
    BY DEF Due
  <2>2. QED
    BY <1>1, <1>4, <1>5, <1>7, <2>1, AgentSide, DirectionKept DEF flags, counters, outcome
<1>9. Returned("client")'
  <2>1. CASE closed
    <3>1. credits' = credits /\ closed'
      BY <1>1, <2>1, AgentSide, OpenUnlessClosed DEF AgentCredit, outcome
    <3>2. QED
      BY <1>1, <1>4, <3>1, ClientSide DEF IInv, Direction, Returned, counters
  <2>2. CASE ~closed
    <3>1. PICK c \in Credit : c = [from |-> copied["agent"] - owed, to |-> copied["agent"]]
      <4>1. copied["agent"] - owed \in Nat
        BY <1>6
      <4>2. QED
        BY <1>6, <4>1 DEF Credit
    <3>2. credits'["agent"] = Append(credits["agent"], c)
      BY <1>6, <2>2, <3>1, AgentSide, OpenUnlessClosed DEF AgentCredit
    <3>3. c.from = copied["agent"] - owed /\ c.to = copied["agent"] /\ c.from < c.to
      BY <1>6, <3>1
    <3>4. Due("agent") = owed /\ Due("agent")' = 0 /\ copied' = copied
      BY <1>1 DEF Due, counters
    <3>5. /\ copied["agent"] = copied'["agent"] - Due("agent")'
          /\ copied["agent"] <= copied'["agent"]
      BY <1>6, <3>4
    <3>6. QED
      BY <1>4, <1>5, <1>6, <2>2, <3>2, <3>3, <3>4, <3>5, ClientSide, CreditPut
  <2>3. QED
    BY <2>1, <2>2
<1>10. Counts("client")' /\ Wire("client")' /\ Order("client")'
  <2>1. sent["client"] <= sent["client"] /\ sent["client"] \in Nat
    BY ClientSide DEF IInv, Typed, TypeOK
  <2>2. QED
    BY <1>1, <1>4, <2>1, ClientSide, CountsKept, WireKept, OrderKept
       DEF flags, counters, outcome
<1>11. QED
  BY <1>2, <1>3, <1>8, <1>9, <1>10 DEF Side, Direction

LEMMA StepClientControl ==
  ASSUME IInv, ClientStart \/ ClientEnd
  PROVE  Threads' /\ Closing' /\ \A t \in Side : Direction(t)'
<1>1. CASE ClientStart
  <2>1. /\ writer["client"] = "head" /\ CanSend("client")
        /\ Put("client", Control("client", "request"))
        /\ writer' = [writer EXCEPT !["client"] = "write"]
        /\ UNCHANGED <<body, flags, counters, reader, claim, owed, credits, outcome>>
    BY <1>1 DEF ClientStart, WriterGoes
  <2>2. ~closed /\ writer'["client"] = "write"
        /\ \A t \in Side : t # "client" => writer'[t] = writer[t]
    BY <2>1, ClientSide, OpenUnlessClosed DEF IInv, Typed, TypeOK
  <2>3. Threads'
    BY <2>1, <2>2, AgentSide DEF IInv, Threads, counters
  <2>4. PICK f \in Frame : f = Control("client", "request")
    BY ClientSide, ControlType DEF IInv
  <2>5. f.type # "error"
    BY <2>4 DEF Control
  <2>6. Closing'
    BY <2>1, <2>4, <2>5, ClientSide, ErrorsKept DEF IInv, Closing, outcome, Open
  <2>7. QED
    BY <2>1, <2>2, <2>3, <2>6, ClientSide, ControlStep
       DEF flags, counters, HeadType
<1>2. CASE ClientEnd
  <2>1. /\ writer["client"] = "write" /\ CanSend("client")
        /\ sent["client"] = body["client"]
        /\ Put("client", Control("client", "end"))
        /\ writer' = [writer EXCEPT !["client"] = "done"]
        /\ UNCHANGED <<body, flags, counters, reader, claim, owed, credits, outcome>>
    BY <1>2 DEF ClientEnd, WriterGoes
  <2>2. ~closed /\ writer'["client"] = "done"
        /\ \A t \in Side : t # "client" => writer'[t] = writer[t]
    BY <2>1, ClientSide, OpenUnlessClosed DEF IInv, Typed, TypeOK
  <2>3. Threads'
    BY <2>1, <2>2, AgentSide DEF IInv, Threads, counters
  <2>4. PICK f \in Frame : f = Control("client", "end")
    BY ClientSide, ControlType DEF IInv
  <2>5. f.type # "error"
    BY <2>4 DEF Control
  <2>6. Closing'
    BY <2>1, <2>4, <2>5, ClientSide, ErrorsKept DEF IInv, Closing, outcome, Open
  <2>7. Flushed("client") = body["client"] /\ Phase(writer["client"]) = "during"
    BY <2>1 DEF Flushed, Phase
  <2>8. QED
    BY <2>1, <2>2, <2>3, <2>6, <2>7, ClientSide, ControlStep
       DEF flags, counters
<1>3. QED
  BY <1>1, <1>2

LEMMA StepClientWrite ==
  ASSUME IInv, NEW n \in 1..Chunk, ClientWrite(n)
  PROVE  Threads' /\ Closing' /\ \A t \in Side : Direction(t)'
<1>1. /\ writer["client"] = "write" /\ CanSend("client") /\ n \in Takable("client")
      /\ credit' = [credit EXCEPT !["client"] = @ - n]
      /\ sent' = [sent EXCEPT !["client"] = @ + n]
      /\ Put("client", [type |-> "data", from |-> sent["client"], to |-> sent["client"] + n])
      /\ UNCHANGED <<body, flags, allowance, received, copied, threads, credits, outcome>>
  BY DEF ClientWrite
<1>2. /\ n \in Nat /\ 0 < n /\ n <= Chunk /\ n <= credit["client"]
      /\ n <= body["client"] - sent["client"]
  BY <1>1, ClientSide, TakableBound DEF IInv
<1>3. /\ credit["client"] \in Nat /\ sent["client"] \in Nat /\ body["client"] \in Nat
      /\ Window \in Nat
  BY ClientSide, StreamAssumption DEF IInv, Typed, TypeOK
<1>4. /\ credit'["client"] = credit["client"] - n /\ sent'["client"] = sent["client"] + n
      /\ \A t \in Side : t # "client" => credit'[t] = credit[t] /\ sent'[t] = sent[t]
  BY <1>1, ClientSide DEF IInv, Typed, TypeOK
<1>5. /\ sent'["client"] \in Nat /\ sent["client"] <= sent'["client"]
      /\ sent'["client"] <= body["client"]
  BY <1>2, <1>3, <1>4
<1>6. PICK f \in Frame :
        f = [type |-> "data", from |-> sent["client"], to |-> sent["client"] + n]
  <2>1. sent["client"] + n \in Nat
    BY <1>2, <1>3
  <2>2. QED
    BY <1>3, <2>1 DEF Frame
<1>7. f.type = "data" /\ f.from = sent["client"] /\ f.to = sent["client"] + n
  BY <1>6
<1>8. Threads'
  BY <1>1, <1>4, AgentSide DEF IInv, Threads, threads
<1>9. Closing'
  BY <1>1, <1>6, <1>7, ClientSide, ErrorsKept DEF IInv, Closing, outcome, Open
<1>10. Flushed("client") = sent["client"] /\ Flushed("client")' = sent'["client"]
  BY DEF Flushed
<1>11. WireFrame("client", f)'
  BY <1>2, <1>3, <1>4, <1>7 DEF WireFrame, Size
<1>12. Base("client")' = Base("client")
  BY <1>2, <1>3, <1>4 DEF Base
<1>13. \A t \in Side : t # "client" => /\ writer'[t] = writer[t]
                                       /\ Flushed(t)' = Flushed(t)
  BY <1>1, <1>4 DEF threads, Flushed
<1>14. Phase(writer["client"]) = "during" /\ Phase(writer'["client"]) = "during"
  BY <1>1 DEF Phase, threads
<1>15. ~closed
  BY <1>1, ClientSide, OpenUnlessClosed
<1>16. f.from = Flushed("client") /\ f.to = Flushed("client")'
  BY <1>4, <1>7, <1>10
<1>17. QED
  BY <1>1, <1>4, <1>5, <1>6, <1>7, <1>8, <1>9, <1>11, <1>12, <1>13, <1>14, <1>15, <1>16,
     ClientSide, PutStep DEF flags, threads

LEMMA StepClientCopy ==
  ASSUME IInv, NEW n \in 1..Window, ClientCopy(n)
  PROVE  Threads' /\ Closing' /\ \A t \in Side : Direction(t)'
<1>1. /\ CanSend("client") /\ n \in 1..Buffered("client")
      /\ copied' = [copied EXCEPT !["client"] = @ + n]
      /\ allowance' = [allowance EXCEPT !["client"] = @ + n]
      /\ credits' = [credits EXCEPT !["client"] =
                       Append(@, [from |-> copied["client"], to |-> copied["client"] + n])]
      /\ UNCHANGED <<body, flags, credit, sent, received, threads, frames, outcome>>
  BY DEF ClientCopy
<1>2. /\ copied["client"] \in Nat /\ received["client"] \in Nat /\ n \in Nat /\ 0 < n
      /\ copied["client"] <= received["client"] /\ credits \in [Side -> Seq(Credit)]
  <2>1. /\ copied["client"] \in Nat /\ received["client"] \in Nat
        /\ credits \in [Side -> Seq(Credit)]
    BY ClientSide DEF IInv, Typed, TypeOK
  <2>2. n \in Nat /\ 0 < n
    BY StreamAssumption
  <2>3. copied["client"] <= received["client"]
    BY AgentSide DEF IInv, Direction, Counts, Peer
  <2>4. QED
    BY <2>1, <2>2, <2>3
<1>3. n <= Buffered("client")
  <2>1. Buffered("client") \in Nat
    BY <1>2 DEF Buffered
  <2>2. QED
    BY <1>1, <2>1
<1>4. PICK c \in Credit : c = [from |-> copied["client"], to |-> copied["client"] + n]
  <2>1. copied["client"] + n \in Nat
    BY <1>2
  <2>2. QED
    BY <1>2, <2>1 DEF Credit
<1>5. /\ copied'["client"] = copied["client"] + n
      /\ allowance'["client"] = allowance["client"] + n
      /\ copied'["agent"] = copied["agent"] /\ allowance'["agent"] = allowance["agent"]
      /\ credits'["client"] = Append(credits["client"], c)
      /\ credits'["agent"] = credits["agent"]
  BY <1>1, <1>4, AgentSide, ClientSide DEF IInv, Typed, TypeOK
<1>6. Threads'
  BY <1>1, <1>5 DEF IInv, Threads, threads
<1>7. Closing'
  BY <1>1, ErrorsKept DEF IInv, Closing, outcome, Open
<1>8. /\ \A t \in Side : Flushed(t)' = Flushed(t) /\ Base(t)' = Base(t)
      /\ Due("agent")' = Due("agent") /\ Due("client")' = 0 /\ Due("client") = 0
  BY <1>1 DEF Flushed, Base, Due, threads
<1>9. Peer("agent") = "client" /\ Peer("client") = "agent"
  BY DEF Peer
<1>10. Direction("client")'
  BY <1>1, <1>5, <1>8, <1>9, ClientSide, DirectionKept DEF flags, threads, outcome, Phase
<1>11. Returned("agent")'
  <2>1. /\ c.from = copied["client"] - Due("client") /\ c.from < c.to
        /\ c.to = copied'["client"] - Due("client")' /\ c.to = copied'["client"]
        /\ copied["client"] <= copied'["client"] /\ copied'["client"] \in Nat
    BY <1>2, <1>4, <1>5, <1>8
  <2>2. ~closed
    BY <1>1, ClientSide, OpenUnlessClosed
  <2>3. QED
    BY <1>5, <1>8, <1>9, <2>1, <2>2, AgentSide, CreditPut
<1>12. Counts("agent")'
  BY <1>1, <1>2, <1>3, <1>5, <1>9, ClientSide, CopyCounts
<1>13. Wire("agent")' /\ Order("agent")'
  <2>1. sent["agent"] <= sent["agent"] /\ sent["agent"] \in Nat
    BY AgentSide DEF IInv, Typed, TypeOK
  <2>2. QED
    BY <1>1, <1>8, <2>1, AgentSide, WireKept, OrderKept DEF flags, threads, outcome, Phase
<1>14. QED
  BY <1>6, <1>7, <1>10, <1>11, <1>12, <1>13 DEF Side, Direction

LEMMA StepClientQuiet ==
  ASSUME IInv, ClientStop \/ ClientComplete \/ ClientAbort
  PROVE  Threads' /\ Closing' /\ \A t \in Side : Direction(t)'
<1>1. UNCHANGED <<body, flags, counters, reader, claim, owed, wires, refused>>
  BY DEF ClientStop, ClientComplete, ClientAbort, threads, wires, outcome
<1>2. /\ writer'["agent"] = writer["agent"] /\ writer'["client"] \in {writer["client"], "done"}
  BY ClientSide, AgentSide
     DEF ClientStop, ClientComplete, ClientAbort, threads, WriterGoes, IInv, Typed, TypeOK
<1>3. Threads'
  BY <1>1, <1>2 DEF IInv, Threads, counters
<1>4. \A t \in Side : Phase(writer'[t]) \in {Phase(writer[t]), "after"}
  BY <1>2 DEF Phase, Side
<1>5. (closed => closed') /\ Closing'
  <2>1. CASE ClientStop
    BY <1>1, <2>1, ErrorsKept DEF ClientStop, IInv, Closing, wires, outcome, Open
  <2>2. ASSUME NEW why \in {"complete", "aborted"}, Finish("client", why), Open("client")
        PROVE  (closed => closed') /\ Closing'
    <3>1. closed' /\ status'["client"] = why /\ status'["agent"] = status["agent"]
      BY <2>2, ClientSide, AgentSide, FinishFacts
    <3>2. QED
      BY <1>1, <2>2, <3>1, ErrorsKept DEF IInv, Closing, wires
  <2>3. QED
    BY <2>1, <2>2 DEF ClientComplete, ClientAbort
<1>6. QED
  BY <1>1, <1>3, <1>4, <1>5, QuietStep DEF flags, counters, wires

---------------------------------------------------------------------------
(* The invariant                                                           *)

LEMMA IInvInit == Init => IInv
<1> SUFFICES ASSUME Init PROVE IInv
  OBVIOUS
<1>1. Typed
  BY TypedInit
<1>2. Window \in Nat /\ Chunk \in Nat /\ body \in [Side -> Nat]
  BY StreamAssumption DEF Init
<1>3. Threads
  BY <1>2, AgentSide, ClientSide DEF Init, Threads
<1>4. Closing
  BY AgentSide DEF Init, Closing, Open
<1>5. ASSUME NEW s \in Side PROVE Direction(s)
  <2>1. Peer(s) \in Side
    BY PeerFacts
  <2>2. /\ frames[s] = <<>> /\ credits[Peer(s)] = <<>> /\ sent[s] = 0
        /\ received[Peer(s)] = 0 /\ copied[Peer(s)] = 0 /\ body[s] \in Nat
        /\ credit[s] = Window /\ allowance[Peer(s)] = Window
        /\ ~controlled[Peer(s)] /\ ~ended[Peer(s)]
        /\ writer[s] \in {"idle", "head"} /\ Flushed(s) = 0 /\ Due(Peer(s)) = 0
    BY <1>2, <2>1 DEF Init, Flushed, Due
  <2>3. Base(s) = 0
    BY <1>2, <2>2 DEF Base
  <2>4. Linked(<<>>, 0) /\ EndOf(<<>>, 0) = 0
    BY DEF Linked, EndOf
  <2>5. QED
    BY <1>2, <2>2, <2>3, <2>4 DEF Direction, Counts, Wire, Returned, Order
<1>6. QED
  BY <1>1, <1>3, <1>4, <1>5 DEF IInv

LEMMA IInvStep == IInv /\ [Next]_vars => IInv'
<1> SUFFICES ASSUME IInv, [Next]_vars PROVE IInv'
  OBVIOUS
<1>1. Typed'
  BY TypedStep DEF IInv
<1>2. CASE UNCHANGED vars
  <2>1. Threads'
    BY <1>2 DEF vars, threads, counters, IInv, Threads
  <2>2. Closing'
    BY <1>2, ErrorsKept DEF vars, wires, outcome, IInv, Closing, Open
  <2>3. \A t \in Side : Direction(t)'
    BY <1>2, QuietStep DEF vars, flags, counters, threads, wires, outcome
  <2>4. QED
    BY <1>1, <2>1, <2>2, <2>3 DEF IInv
<1>3. CASE Next
  <2>1. Threads' /\ Closing' /\ \A t \in Side : Direction(t)'
    BY <1>3, StepReceive, StepAgentQuiet, StepAgentFail, StepAgentControl, StepAgentTake,
       StepAgentSend, StepAgentCopy, StepAgentCredit, StepClientControl, StepClientWrite,
       StepClientCopy, StepClientQuiet
       DEF Next, AgentWriter, AgentReader, ClientWriter, ClientReader
  <2>2. QED
    BY <1>1, <2>1 DEF IInv
<1>4. QED
  BY <1>2, <1>3

LEMMA IInvAlways == Spec => []IInv
  BY IInvInit, IInvStep, PTL DEF Spec

---------------------------------------------------------------------------
(* The refinement                                                          *)

\* A stream that is over stays over for the reason it had.
LEMMA StatusKept ==
  ASSUME IInv, [Next]_vars, NEW s \in Side, ~Open(s)
  PROVE  status'[s] = status[s]
<1>1. ASSUME NEW t \in Side, NEW why, Finish(t, why)
      PROVE  status'[s] = status[s]
  BY <1>1, FinishFacts
<1>2. CASE UNCHANGED status
  BY <1>2
<1>3. \/ UNCHANGED status
      \/ \E t \in Side : \E why \in {"lost", "failed", "complete", "aborted"} : Finish(t, why)
  BY AgentSide, ClientSide
     DEF Next, vars, outcome, Receive, ReceiveHead, ReceiveData, ReceiveEnd, ReceiveError,
         ReceiveCredit, OnClose, Refuse, AgentWriter, AgentReader, AgentServe, AgentFail,
         AgentHead, AgentTake, AgentSend, AgentStall, AgentWake, AgentStop, AgentEnd,
         AgentCopy, AgentCredit, AgentEOF, AgentReadWait, AgentReadWake, AgentQuitsReading,
         ClientWriter, ClientReader, ClientStart, ClientWrite, ClientEnd, ClientStop,
         ClientCopy, ClientComplete, ClientAbort
<1>4. QED
  BY <1>1, <1>2, <1>3

\* The names the mappings give to the outcome and the giving up of a body.
RequestOutcome == IF reader = "eof" THEN "complete"
                  ELSE IF reader = "stopped" \/ ~Open("agent") THEN "cut" ELSE "open"

RequestAbandoned ==
  reader = "stopped" \/ status["client"] \in {"complete", "aborted"} \/ AgentFailed

ResponseOutcome == IF status["client"] = "complete" THEN "complete"
                   ELSE IF ~Open("client") THEN "cut" ELSE "open"

ResponseAbandoned == status["client"] = "aborted" \/ AgentFailed

LEMMA CutAbandoned ==
  ASSUME IInv
  PROVE  /\ RequestOutcome = "cut" => RequestAbandoned
         /\ ResponseOutcome = "cut" => ResponseAbandoned
  BY AgentSide, ClientSide
     DEF RequestOutcome, RequestAbandoned, ResponseOutcome, ResponseAbandoned, AgentFailed,
         IInv, Closing, Open

\* A step neither writes nor reads nor completes the request's body.
LEMMA RequestQuiet ==
  ASSUME IInv, IInv', [Next]_vars,
         body'["client"] = body["client"], sent'["client"] = sent["client"],
         copied'["agent"] = copied["agent"],
         reader' = "eof" <=> reader = "eof", reader = "stopped" => reader' = "stopped"
  PROVE  [Request!Next]_(Request!vars)
<1>1. /\ RequestOutcome = "cut" => RequestAbandoned
      /\ RequestOutcome' = "cut" => RequestAbandoned'
  <2>1. RequestOutcome = "cut" => RequestAbandoned
    BY CutAbandoned
  <2>2. RequestOutcome' = "cut" => RequestAbandoned'
    BY AgentSide, ClientSide
       DEF RequestOutcome, RequestAbandoned, AgentFailed, IInv, Closing, Open
  <2>3. QED
    BY <2>1, <2>2
<1>2. refused = {} /\ refused' = {}
  BY DEF IInv, Closing
<1>3. \A s \in Side : status[s] # "open" => status'[s] = status[s]
  BY StatusKept DEF Open
<1>4. RequestAbandoned => RequestAbandoned'
  BY <1>2, <1>3, AgentSide, ClientSide DEF RequestAbandoned, AgentFailed
<1>5. /\ RequestOutcome' = "complete" <=> RequestOutcome = "complete"
      /\ RequestOutcome = "cut" => RequestOutcome' = "cut"
      /\ RequestOutcome \in {"open", "cut", "complete"}
      /\ RequestOutcome' \in {"open", "cut", "complete"}
  BY <1>3, AgentSide DEF RequestOutcome, Open
<1>6. RequestAbandoned \in BOOLEAN /\ RequestAbandoned' \in BOOLEAN
  BY DEF RequestAbandoned, AgentFailed
<1>7. CASE RequestAbandoned'
  <2>1. Request!Abandon
    BY <1>5, <1>7 DEF Request!Abandon, RequestOutcome, RequestAbandoned
  <2>2. QED
    BY <2>1 DEF Request!Next
<1>8. CASE ~RequestAbandoned'
  <2>1. RequestOutcome' = RequestOutcome /\ RequestAbandoned' = RequestAbandoned
    BY <1>1, <1>4, <1>5, <1>6, <1>8
  <2>2. QED
    BY <2>1 DEF Request!vars, RequestOutcome, RequestAbandoned
<1>9. QED
  BY <1>7, <1>8

LEMMA ResponseQuiet ==
  ASSUME IInv, IInv', [Next]_vars,
         body'["agent"] = body["agent"], sent'["agent"] = sent["agent"],
         copied'["client"] = copied["client"],
         status'["client"] = "complete" => status["client"] = "complete"
  PROVE  [Response!Next]_(Response!vars)
<1>1. /\ ResponseOutcome = "cut" => ResponseAbandoned
      /\ ResponseOutcome' = "cut" => ResponseAbandoned'
  <2>1. ResponseOutcome = "cut" => ResponseAbandoned
    BY CutAbandoned
  <2>2. ResponseOutcome' = "cut" => ResponseAbandoned'
    BY AgentSide, ClientSide
       DEF ResponseOutcome, ResponseAbandoned, AgentFailed, IInv, Closing, Open
  <2>3. QED
    BY <2>1, <2>2
<1>2. refused = {} /\ refused' = {}
  BY DEF IInv, Closing
<1>3. \A s \in Side : status[s] # "open" => status'[s] = status[s]
  BY StatusKept DEF Open
<1>4. ResponseAbandoned => ResponseAbandoned'
  BY <1>2, <1>3, AgentSide, ClientSide DEF ResponseAbandoned, AgentFailed
<1>5. /\ ResponseOutcome' = "complete" <=> ResponseOutcome = "complete"
      /\ ResponseOutcome = "cut" => ResponseOutcome' = "cut"
      /\ ResponseOutcome \in {"open", "cut", "complete"}
      /\ ResponseOutcome' \in {"open", "cut", "complete"}
  BY <1>3, ClientSide DEF ResponseOutcome, Open
<1>6. ResponseAbandoned \in BOOLEAN /\ ResponseAbandoned' \in BOOLEAN
  BY DEF ResponseAbandoned, AgentFailed
<1>7. CASE ResponseAbandoned'
  <2>1. Response!Abandon
    BY <1>5, <1>7 DEF Response!Abandon, ResponseOutcome, ResponseAbandoned
  <2>2. QED
    BY <2>1 DEF Response!Next
<1>8. CASE ~ResponseAbandoned'
  <2>1. ResponseOutcome' = ResponseOutcome /\ ResponseAbandoned' = ResponseAbandoned
    BY <1>1, <1>4, <1>5, <1>6, <1>8
  <2>2. QED
    BY <2>1 DEF Response!vars, ResponseOutcome, ResponseAbandoned
<1>9. QED
  BY <1>7, <1>8


\* Every step but four leaves the body, the bytes written and the bytes read alone.
LEMMA BodiesKept == [Next]_vars => body' = body
  BY DEF Next, vars, flags, counters, threads, tokens, wires, outcome, Receive, ReceiveHead,
         ReceiveData, ReceiveEnd, ReceiveError, ReceiveCredit, OnClose, Refuse, AgentWriter,
         AgentReader, AgentServe, AgentFail, AgentHead, AgentTake, AgentSend, AgentStall,
         AgentWake, AgentStop, AgentEnd, AgentCopy, AgentCredit, AgentEOF, AgentReadWait,
         AgentReadWake, AgentQuitsReading, ClientWriter, ClientReader, ClientStart, ClientWrite,
         ClientEnd, ClientStop, ClientCopy, ClientComplete, ClientAbort

LEMMA SentKept ==
  ASSUME [Next]_vars
  PROVE  \/ \E n \in 1..Chunk : AgentTake(n)
         \/ \E n \in 1..Chunk : ClientWrite(n)
         \/ sent' = sent
  BY DEF Next, vars, flags, counters, threads, tokens, wires, outcome, Receive, ReceiveHead,
         ReceiveData, ReceiveEnd, ReceiveError, ReceiveCredit, OnClose, Refuse, AgentWriter,
         AgentReader, AgentServe, AgentFail, AgentHead, AgentSend, AgentStall,
         AgentWake, AgentStop, AgentEnd, AgentCopy, AgentCredit, AgentEOF, AgentReadWait,
         AgentReadWake, AgentQuitsReading, ClientWriter, ClientReader, ClientStart,
         ClientEnd, ClientStop, ClientCopy, ClientComplete, ClientAbort

LEMMA CopiedKept ==
  ASSUME [Next]_vars
  PROVE  \/ \E n \in 1..Chunk : AgentCopy(n)
         \/ \E n \in 1..Window : ClientCopy(n)
         \/ copied' = copied
  BY DEF Next, vars, flags, counters, threads, tokens, wires, outcome, Receive, ReceiveHead,
         ReceiveData, ReceiveEnd, ReceiveError, ReceiveCredit, OnClose, Refuse, AgentWriter,
         AgentReader, AgentServe, AgentFail, AgentHead, AgentTake, AgentSend, AgentStall,
         AgentWake, AgentStop, AgentEnd, AgentCredit, AgentEOF, AgentReadWait,
         AgentReadWake, AgentQuitsReading, ClientWriter, ClientReader, ClientStart, ClientWrite,
         ClientEnd, ClientStop, ClientComplete, ClientAbort

\* The agent's reader comes to an end once, and only AgentEOF takes it to the body's end.
LEMMA ReaderKept ==
  ASSUME IInv, [Next]_vars
  PROVE  \/ AgentEOF
         \/ (reader' = "eof" <=> reader = "eof") /\ (reader = "stopped" => reader' = "stopped")
<1>1. writer["agent"] = "idle" => reader = "idle"
  BY DEF IInv, Threads
<1>2. CASE AgentServe
  BY <1>1, <1>2 DEF AgentServe
<1>3. CASE ~AgentServe /\ ~AgentReader
  <2>1. reader' = reader
    BY <1>3
       DEF Next, vars, flags, counters, threads, tokens, wires, outcome, Receive, ReceiveHead,
           ReceiveData, ReceiveEnd, ReceiveError, ReceiveCredit, OnClose, Refuse, AgentWriter,
           AgentFail, AgentHead, AgentTake, AgentSend, AgentStall,
           AgentWake, AgentStop, AgentEnd, ClientWriter, ClientReader, ClientStart, ClientWrite,
           ClientEnd, ClientStop, ClientCopy, ClientComplete, ClientAbort
  <2>2. QED
    BY <2>1
<1>4. CASE AgentReader
  BY <1>4 DEF AgentReader, AgentCopy, AgentCredit, AgentReadWait, AgentReadWake,
              AgentQuitsReading
<1>5. QED
  BY <1>2, <1>3, <1>4

LEMMA CompleteKept ==
  ASSUME IInv, [Next]_vars, status'["client"] = "complete"
  PROVE  ClientComplete \/ status["client"] = "complete"
<1>1. ASSUME NEW t \in Side, NEW why, Finish(t, why), why # "complete"
      PROVE  status["client"] = "complete"
  BY <1>1, ClientSide, FinishFacts
<1>2. \/ ClientComplete
      \/ UNCHANGED status
      \/ \E t \in Side : \E why \in {"lost", "failed", "aborted"} : Finish(t, why)
  BY AgentSide, ClientSide
     DEF Next, vars, outcome, Receive, ReceiveHead, ReceiveData, ReceiveEnd, ReceiveError,
         ReceiveCredit, OnClose, Refuse, AgentWriter, AgentReader, AgentServe, AgentFail,
         AgentHead, AgentTake, AgentSend, AgentStall, AgentWake, AgentStop, AgentEnd,
         AgentCopy, AgentCredit, AgentEOF, AgentReadWait, AgentReadWake, AgentQuitsReading,
         ClientWriter, ClientReader, ClientStart, ClientWrite, ClientEnd, ClientStop,
         ClientCopy, ClientAbort
<1>3. QED
  BY <1>1, <1>2

\* A window bounds what is written and not yet read.
LEMMA WriteBound ==
  ASSUME IInv, NEW s \in Side, NEW n \in 1..Chunk, n \in Takable(s)
  PROVE  /\ sent[s] + n \in (sent[s] + 1)..body[s]
         /\ sent[s] + n - copied[Peer(s)] <= Window
<1>1. n \in Nat /\ 0 < n /\ n <= credit[s] /\ n <= body[s] - sent[s]
  BY TakableBound DEF IInv
<1>2. Peer(s) \in Side
  BY PeerFacts
<1>3. /\ sent[s] \in Nat /\ body[s] \in Nat /\ credit[s] \in Nat /\ copied[Peer(s)] \in Nat
      /\ Window \in Nat
  BY <1>2, StreamAssumption DEF IInv, Typed, TypeOK
<1>4. credit[s] + sent[s] - Window <= copied[Peer(s)]
  BY DEF IInv, Direction, Returned, Base
<1>5. QED
  BY <1>1, <1>3, <1>4

LEMMA RequestStep ==
  ASSUME IInv, IInv', [Next]_vars
  PROVE  [Request!Next]_(Request!vars)
<1>1. body' = body
  BY BodiesKept
<1>2. ASSUME NEW n \in 1..Chunk, ClientWrite(n) PROVE Request!Write
  <2>1. n \in Takable("client") /\ sent'["client"] = sent["client"] + n
    BY <1>2, ClientSide DEF ClientWrite, IInv, Typed, TypeOK
  <2>2. /\ sent["client"] + n \in (sent["client"] + 1)..body["client"]
        /\ sent["client"] + n - copied["agent"] <= Window
    BY <2>1, ClientSide, WriteBound DEF Peer
  <2>3. UNCHANGED <<body, copied, reader, status, refused>>
    BY <1>2 DEF ClientWrite, threads, outcome
  <2>4. /\ sent'["client"] \in (sent["client"] + 1)..body["client"]
        /\ sent'["client"] - copied["agent"] <= Window
    <3>1. /\ sent["client"] \in Nat /\ body["client"] \in Nat /\ copied["agent"] \in Nat
          /\ Chunk \in Nat /\ Window \in Nat
      BY AgentSide, ClientSide, StreamAssumption DEF IInv, Typed, TypeOK
    <3>2. n \in Nat
      BY <1>2, <3>1
    <3>3. sent'["client"] \in Nat
      BY <2>1, <3>1, <3>2
    <3>4. sent'["client"] - copied["agent"] <= Window
      BY <2>1, <2>2, <3>1, <3>2
    <3>5. QED
      BY <2>1, <2>2, <3>1, <3>2, <3>3, <3>4
  <2>5. QED
    BY <2>3, <2>4 DEF Request!Write, Open, AgentFailed
<1>3. ASSUME NEW n \in 1..Chunk, AgentCopy(n) PROVE Request!Read
  <2>1. /\ reader = "read" /\ reader' = "credit" /\ Open("agent")
        /\ n \in 1..Least(Chunk, Buffered("agent"))
        /\ copied'["agent"] = copied["agent"] + n
        /\ UNCHANGED <<body, sent, status, refused>>
    BY <1>3, AgentSide DEF AgentCopy, outcome, IInv, Typed, TypeOK
  <2>2. /\ copied["agent"] \in Nat /\ received["agent"] \in Nat /\ sent["client"] \in Nat
        /\ Chunk \in Nat
    BY AgentSide, ClientSide, StreamAssumption DEF IInv, Typed, TypeOK
  <2>3. /\ copied["agent"] <= received["agent"] /\ received["agent"] <= sent["client"]
    BY ClientSide DEF IInv, Direction, Counts, Peer
  <2>4. copied'["agent"] \in (copied["agent"] + 1)..sent["client"]
    BY <2>1, <2>2, <2>3 DEF Least, Buffered
  <2>5. QED
    BY <2>1, <2>4 DEF Request!Read, Open, AgentFailed
<1>4. ASSUME AgentEOF PROVE Request!Complete
  <2>1. /\ reader = "read" /\ reader' = "eof" /\ Open("agent") /\ Buffered("agent") = 0
        /\ ended["agent"] /\ UNCHANGED <<body, sent, copied, status, refused>>
    BY <1>4 DEF AgentEOF, counters, outcome
  <2>2. received["agent"] = body["client"]
    BY <2>1, ClientSide DEF IInv, Direction, Order, Peer
  <2>3. copied["agent"] \in Nat /\ received["agent"] \in Nat
    BY AgentSide DEF IInv, Typed, TypeOK
  <2>4. copied["agent"] = body["client"]
    BY <2>1, <2>2, <2>3 DEF Buffered
  <2>5. QED
    BY <2>1, <2>4 DEF Request!Complete, Open, AgentFailed
<1>5. CASE /\ \A n \in 1..Chunk : ~ClientWrite(n) /\ ~AgentCopy(n)
           /\ ~AgentEOF
  <2>1. sent'["client"] = sent["client"]
    <3>1. ASSUME NEW n \in 1..Chunk, AgentTake(n) PROVE sent'["client"] = sent["client"]
      BY <3>1, ClientSide DEF AgentTake, IInv, Typed, TypeOK
    <3>2. QED
      BY <1>5, <3>1, SentKept
  <2>2. copied'["agent"] = copied["agent"]
    <3>1. ASSUME NEW n \in 1..Window, ClientCopy(n) PROVE copied'["agent"] = copied["agent"]
      BY <3>1, AgentSide DEF ClientCopy, IInv, Typed, TypeOK
    <3>2. QED
      BY <1>5, <3>1, CopiedKept
  <2>3. (reader' = "eof" <=> reader = "eof") /\ (reader = "stopped" => reader' = "stopped")
    BY <1>5, ReaderKept
  <2>4. QED
    BY <1>1, <2>1, <2>2, <2>3, RequestQuiet
<1>6. QED
  BY <1>2, <1>3, <1>4, <1>5 DEF Request!Next

LEMMA ResponseStep ==
  ASSUME IInv, IInv', [Next]_vars
  PROVE  [Response!Next]_(Response!vars)
<1>1. body' = body
  BY BodiesKept
<1>2. ASSUME NEW n \in 1..Chunk, AgentTake(n) PROVE Response!Write
  <2>1. n \in Takable("agent") /\ sent'["agent"] = sent["agent"] + n
    BY <1>2, AgentSide DEF AgentTake, IInv, Typed, TypeOK
  <2>2. /\ sent["agent"] + n \in (sent["agent"] + 1)..body["agent"]
        /\ sent["agent"] + n - copied["client"] <= Window
    BY <2>1, AgentSide, WriteBound DEF Peer
  <2>3. UNCHANGED <<body, copied, status, refused>>
    BY <1>2 DEF AgentTake, outcome
  <2>4. /\ sent'["agent"] \in (sent["agent"] + 1)..body["agent"]
        /\ sent'["agent"] - copied["client"] <= Window
    <3>1. /\ sent["agent"] \in Nat /\ body["agent"] \in Nat /\ copied["client"] \in Nat
          /\ Chunk \in Nat /\ Window \in Nat
      BY AgentSide, ClientSide, StreamAssumption DEF IInv, Typed, TypeOK
    <3>2. n \in Nat
      BY <1>2, <3>1
    <3>3. sent'["agent"] \in Nat
      BY <2>1, <3>1, <3>2
    <3>4. sent'["agent"] - copied["client"] <= Window
      BY <2>1, <2>2, <3>1, <3>2
    <3>5. QED
      BY <2>1, <2>2, <3>1, <3>2, <3>3, <3>4
  <2>5. QED
    BY <2>3, <2>4 DEF Response!Write, Open, AgentFailed
<1>3. ASSUME NEW n \in 1..Window, ClientCopy(n) PROVE Response!Read
  <2>1. /\ Open("client") /\ n \in 1..Buffered("client")
        /\ copied'["client"] = copied["client"] + n
        /\ UNCHANGED <<body, sent, status, refused>>
    BY <1>3, ClientSide DEF ClientCopy, CanSend, outcome, IInv, Typed, TypeOK
  <2>2. copied["client"] \in Nat /\ received["client"] \in Nat /\ sent["agent"] \in Nat
    BY AgentSide, ClientSide DEF IInv, Typed, TypeOK
  <2>3. copied["client"] <= received["client"] /\ received["client"] <= sent["agent"]
    BY AgentSide DEF IInv, Direction, Counts, Peer
  <2>4. copied'["client"] \in (copied["client"] + 1)..sent["agent"]
    BY <2>1, <2>2, <2>3 DEF Buffered
  <2>5. QED
    BY <2>1, <2>4 DEF Response!Read, Open, AgentFailed
<1>4. ASSUME ClientComplete PROVE Response!Complete
  <2>1. /\ Open("client") /\ Buffered("client") = 0 /\ ended["client"]
        /\ Finish("client", "complete") /\ UNCHANGED <<body, sent, copied, refused>>
    BY <1>4 DEF ClientComplete, counters
  <2>2. status'["client"] = "complete" /\ status'["agent"] = status["agent"]
    BY <2>1, ClientSide, AgentSide, FinishFacts
  <2>3. received["client"] = body["agent"]
    BY <2>1, AgentSide DEF IInv, Direction, Order, Peer
  <2>4. copied["client"] \in Nat /\ received["client"] \in Nat
    BY ClientSide DEF IInv, Typed, TypeOK
  <2>5. copied["client"] = body["agent"]
    BY <2>1, <2>3, <2>4 DEF Buffered
  <2>6. QED
    BY <2>1, <2>2, <2>5 DEF Response!Complete, Open, AgentFailed
<1>5. CASE /\ \A n \in 1..Chunk : ~AgentTake(n)
           /\ \A n \in 1..Window : ~ClientCopy(n)
           /\ ~ClientComplete
  <2>1. sent'["agent"] = sent["agent"]
    <3>1. ASSUME NEW n \in 1..Chunk, ClientWrite(n) PROVE sent'["agent"] = sent["agent"]
      BY <3>1, AgentSide DEF ClientWrite, IInv, Typed, TypeOK
    <3>2. QED
      BY <1>5, <3>1, SentKept
  <2>2. copied'["client"] = copied["client"]
    <3>1. ASSUME NEW n \in 1..Chunk, AgentCopy(n) PROVE copied'["client"] = copied["client"]
      BY <3>1, ClientSide DEF AgentCopy, IInv, Typed, TypeOK
    <3>2. QED
      BY <1>5, <3>1, CopiedKept
  <2>3. status'["client"] = "complete" => status["client"] = "complete"
    BY <1>5, CompleteKept
  <2>4. QED
    BY <1>1, <2>1, <2>2, <2>3, ResponseQuiet
<1>6. QED
  BY <1>2, <1>3, <1>4, <1>5 DEF Response!Next

LEMMA RequestInit == Init => Request!Init
<1> SUFFICES ASSUME Init PROVE Request!Init
  OBVIOUS
<1>1. body["client"] \in Nat
  BY ClientSide, StreamAssumption DEF Init
<1>2. QED
  BY <1>1, AgentSide, ClientSide DEF Init, Request!Init, Open, AgentFailed

LEMMA ResponseInit == Init => Response!Init
<1> SUFFICES ASSUME Init PROVE Response!Init
  OBVIOUS
<1>1. body["agent"] \in Nat
  BY AgentSide, StreamAssumption DEF Init
<1>2. QED
  BY <1>1, AgentSide, ClientSide DEF Init, Response!Init, Open, AgentFailed

\* Both directions of every request implement a byte pipe, whatever the window, the frames
\* and the bodies: at most a window is under way, a body that is over was read to its end, it
\* is cut only after an end gave it up, and no side ever refuses a frame of the other one.
THEOREM PipesImplemented == Spec => Pipes
<1>1. IInv /\ IInv' /\ [Next]_vars => [Request!Next]_(Request!vars)
  BY RequestStep
<1>2. IInv /\ IInv' /\ [Next]_vars => [Response!Next]_(Response!vars)
  BY ResponseStep
<1>3. QED
  BY <1>1, <1>2, RequestInit, ResponseInit, IInvAlways, PTL
     DEF Spec, Pipes, Request!Spec, Response!Spec
=====
