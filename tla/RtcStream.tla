----------------------------- MODULE RtcStream -----------------------------
(***************************************************************************)
(* One HTTP request carried by a WebRTC data channel: the agent's byte     *)
(* stream (AYLink.Agent/internal/transport/rtc), which serves it, and the  *)
(* client's (channel.ts of the web client; RtcByteStream.kt of the mobile  *)
(* app follows the same rules).  Each side may send one window of bytes    *)
(* ahead of what the consumer at the other end has read; reading returns   *)
(* credit.  A frame the rules do not allow ends the request, so the two    *)
(* implementations, which count in different places, must agree.           *)
(*                                                                         *)
(* Bytes are counted, not represented: a frame is the range [from, to) of  *)
(* the body it carries, a credit the range it gives back, and the bytes a  *)
(* side has buffered are those from copied to received.  The channel is    *)
(* reliable and ordered; credits have a queue of their own here because    *)
(* they touch no state that the other frames touch.                        *)
(***************************************************************************)
EXTENDS Naturals, Sequences

CONSTANTS
  Window,      \* WindowBytes
  Chunk,       \* ChunkBytes
  Bodies       \* the lengths of the two bodies, request and response

Side == {"client", "agent"}

ASSUME StreamAssumption ==
  /\ Window \in Nat \ {0}
  /\ Chunk \in Nat \ {0}
  /\ Bodies \subseteq [Side -> Nat]

VARIABLES
  body,        \* the length of the body each side has to send
  status,      \* "open", or why the stream of a side is over
  controlled,  \* a side has seen the request, or the response
  ended,       \* a side has seen the end of the other's body
  credit,      \* bytes a side may still send
  allowance,   \* bytes a side may still be sent
  sent,        \* bytes for which a side has used credit
  received,    \* bytes a side has been sent
  copied,      \* bytes the consumer at a side has read
  writer,      \* what the writer of a side does next
  reader,      \* what the agent's reader does next
  claim,       \* bytes of the frame the agent's writer is about to send
  owed,        \* bytes of the credit the agent's reader is about to return
  creditReady, \* the agent's creditReady holds a token
  inputReady,  \* the agent's inputReady holds a token
  frames,      \* the frames a side has sent, on their way
  credits,     \* the credits a side has returned, on their way
  closed,      \* one side has closed the channel
  refused      \* the sides that have met a protocol error

flags    == <<controlled, ended>>
counters == <<credit, allowance, sent, received, copied>>
threads  == <<writer, reader, claim, owed>>
tokens   == <<creditReady, inputReady>>
wires    == <<frames, credits>>
outcome  == <<status, closed, refused>>
vars == <<body, flags, counters, threads, tokens, wires, outcome>>

Peer(s) == IF s = "client" THEN "agent" ELSE "client"

Least(a, b) == IF a < b THEN a ELSE b

Open(s) == status[s] = "open"

\* The channel takes what s sends.
CanSend(s) == Open(s) /\ ~closed

Frame == [type : {"request", "response", "data", "end", "error"}, from : Nat, to : Nat]

Credit == [from : Nat, to : Nat]

Size(f) == f.to - f.from

\* The bytes s has put into frames.
Flushed(s) == IF s = "agent" THEN sent[s] - claim ELSE sent[s]

\* A control frame stands between the bytes sent before and after it.
Control(s, type) == [type |-> type, from |-> Flushed(s), to |-> Flushed(s)]

Put(s, frame) == frames' = [frames EXCEPT ![s] = Append(@, frame)]

WriterGoes(s, label) == writer' = [writer EXCEPT ![s] = label]

Init ==
  /\ body \in Bodies
  /\ status      = [s \in Side |-> "open"]
  /\ controlled  = [s \in Side |-> FALSE]
  /\ ended       = [s \in Side |-> FALSE]
  /\ credit      = [s \in Side |-> Window]
  /\ allowance   = [s \in Side |-> Window]
  /\ sent        = [s \in Side |-> 0]
  /\ received    = [s \in Side |-> 0]
  /\ copied      = [s \in Side |-> 0]
  /\ writer      = [s \in Side |-> IF s = "client" THEN "head" ELSE "idle"]
  /\ reader      = "idle"
  /\ claim       = 0
  /\ owed        = 0
  /\ creditReady = FALSE
  /\ inputReady  = FALSE
  /\ frames      = [s \in Side |-> <<>>]
  /\ credits     = [s \in Side |-> <<>>]
  /\ closed      = FALSE
  /\ refused     = {}

---------------------------------------------------------------------------
(* The end of a stream                                                     *)

\* The stream of s is over (once), and s closes the channel.
Finish(s, why) ==
  /\ status' = [status EXCEPT ![s] = IF @ = "open" THEN why ELSE @]
  /\ closed' = TRUE

\* A protocol error.  The agent's Fail tells the client before it closes; the
\* client just closes.
Refuse(s) ==
  /\ refused' = refused \cup {s}
  /\ Finish(s, "failed")
  /\ IF s = "agent" /\ ~closed THEN Put(s, Control(s, "error")) ELSE UNCHANGED frames
  /\ UNCHANGED <<body, flags, counters, threads, tokens, credits>>

\* The channel's close reaches a side.  Frames on their way to it are lost.
OnClose(s) ==
  /\ closed
  /\ Open(s)
  /\ Finish(s, "lost")
  /\ UNCHANGED <<body, flags, counters, threads, tokens, wires, refused>>

---------------------------------------------------------------------------
(* Receiving                                                               *)

Incoming(s) == Head(frames[Peer(s)])

Arrives(s, type) ==
  /\ Open(s)
  /\ frames[Peer(s)] # <<>>
  /\ Incoming(s).type = type

Consume(s) == frames' = [frames EXCEPT ![Peer(s)] = Tail(@)]

\* The request at the agent, the response at the client.
ReceiveHead(s) ==
  /\ Arrives(s, IF s = "agent" THEN "request" ELSE "response")
  /\ IF controlled[s]
     THEN Refuse(s)
     ELSE /\ controlled' = [controlled EXCEPT ![s] = TRUE]
          /\ Consume(s)
          /\ UNCHANGED <<body, ended, counters, threads, tokens, credits, outcome>>

\* Only the client asks that the response has come first.
DataAllowed(s) ==
  /\ s = "client" => controlled[s]
  /\ ~ended[s]
  /\ 0 < Size(Incoming(s))
  /\ Size(Incoming(s)) <= Chunk
  /\ Size(Incoming(s)) <= allowance[s]

ReceiveData(s) ==
  /\ Arrives(s, "data")
  /\ IF DataAllowed(s)
     THEN /\ allowance'  = [allowance EXCEPT ![s] = @ - Size(Incoming(s))]
          /\ received'   = [received EXCEPT ![s] = @ + Size(Incoming(s))]
          /\ inputReady' = (inputReady \/ s = "agent")
          /\ Consume(s)
          /\ UNCHANGED <<body, flags, credit, sent, copied, threads, creditReady,
                         credits, outcome>>
     ELSE Refuse(s)

ReceiveEnd(s) ==
  /\ Arrives(s, "end")
  /\ IF ended[s] \/ (s = "client" /\ ~controlled[s])
     THEN Refuse(s)
     ELSE /\ ended' = [ended EXCEPT ![s] = TRUE]
          /\ inputReady' = (inputReady \/ s = "agent")
          /\ Consume(s)
          /\ UNCHANGED <<body, controlled, counters, threads, creditReady, credits,
                         outcome>>

\* Only the agent sends errors.
ReceiveError(s) ==
  /\ Arrives(s, "error")
  /\ Finish(s, "failed")
  /\ Consume(s)
  /\ UNCHANGED <<body, flags, counters, threads, tokens, credits, refused>>

\* Mutated: the waiting writer is not told of the credit.
ReceiveCredit_NoToken(s) ==
  /\ Open(s)
  /\ credits[Peer(s)] # <<>>
  /\ LET n == Size(Head(credits[Peer(s)]))
     IN IF 0 < n /\ n <= Window - credit[s]
        THEN /\ credit'  = [credit EXCEPT ![s] = @ + n]
             /\ credits' = [credits EXCEPT ![Peer(s)] = Tail(@)]
             /\ UNCHANGED <<body, flags, allowance, sent, received, copied, threads,
                            tokens, frames, outcome>>
        ELSE Refuse(s)

ReceiveCredit(s) ==
  /\ Open(s)
  /\ credits[Peer(s)] # <<>>
  /\ LET n == Size(Head(credits[Peer(s)]))
     IN IF 0 < n /\ n <= Window - credit[s]
        THEN /\ credit'      = [credit EXCEPT ![s] = @ + n]
             /\ creditReady' = (creditReady \/ s = "agent")
             /\ credits'     = [credits EXCEPT ![Peer(s)] = Tail(@)]
             /\ UNCHANGED <<body, flags, allowance, sent, received, copied, threads,
                            inputReady, frames, outcome>>
        ELSE Refuse(s)

Receive(s) ==
  \/ ReceiveHead(s)
  \/ ReceiveData(s)
  \/ ReceiveEnd(s)
  \/ ReceiveError(s)
  \/ ReceiveCredit(s)
  \/ OnClose(s)

---------------------------------------------------------------------------
(* The agent: ServeHTTP runs the handler on the stream; Stream.Write        *)

\* The request has come: the handler may read its body and write a response.
AgentServe ==
  /\ writer["agent"] = "idle"
  /\ Open("agent")
  /\ controlled["agent"]
  /\ WriterGoes("agent", "head")
  /\ reader' = "read"
  /\ UNCHANGED <<body, flags, counters, claim, owed, tokens, wires, outcome>>

\* The handler, the URL or a send fails.
AgentFail ==
  /\ writer["agent"] \in {"head", "write"}
  /\ Open("agent")
  /\ Finish("agent", "failed")
  /\ IF closed THEN UNCHANGED frames ELSE Put("agent", Control("agent", "error"))
  /\ WriterGoes("agent", "done")
  /\ UNCHANGED <<body, flags, counters, reader, claim, owed, tokens, credits, refused>>

AgentHead ==
  /\ writer["agent"] = "head"
  /\ CanSend("agent")
  /\ Put("agent", Control("agent", "response"))
  /\ WriterGoes("agent", "write")
  /\ UNCHANGED <<body, flags, counters, reader, claim, owed, tokens, credits, outcome>>

\* How many bytes a writer may put into its next frame.
Takable(s) == {n \in 1..Least(Chunk, credit[s]) : n <= body[s] - sent[s]}

\* Credit is taken under mu, the frame is sent under sendMu after it.
AgentTake(n) ==
  /\ writer["agent"] = "write"
  /\ Open("agent")
  /\ n \in Takable("agent")
  /\ credit' = [credit EXCEPT !["agent"] = @ - n]
  /\ sent'   = [sent EXCEPT !["agent"] = @ + n]
  /\ claim'  = n
  /\ WriterGoes("agent", "send")
  /\ UNCHANGED <<body, flags, allowance, received, copied, reader, owed, tokens,
                 wires, outcome>>

AgentSend ==
  /\ writer["agent"] = "send"
  /\ claim' = 0
  /\ IF closed
     THEN /\ Finish("agent", "failed")
          /\ WriterGoes("agent", "done")
          /\ UNCHANGED frames
     ELSE /\ Put("agent", [type |-> "data", from |-> Flushed("agent"), to |-> sent["agent"]])
          /\ WriterGoes("agent", "write")
          /\ UNCHANGED <<status, closed>>
  /\ UNCHANGED <<body, flags, counters, reader, owed, tokens, credits, refused>>

\* No credit left: wait on creditReady.
AgentStall ==
  /\ writer["agent"] = "write"
  /\ Open("agent")
  /\ credit["agent"] = 0
  /\ sent["agent"] < body["agent"]
  /\ WriterGoes("agent", "wait")
  /\ UNCHANGED <<body, flags, counters, reader, claim, owed, tokens, wires, outcome>>

AgentWake ==
  /\ writer["agent"] = "wait"
  /\ creditReady
  /\ creditReady' = FALSE
  /\ WriterGoes("agent", "write")
  /\ UNCHANGED <<body, flags, counters, reader, claim, owed, inputReady, wires, outcome>>

\* The context is done: Control, SendControl or Write returns its cause.
AgentStop ==
  /\ writer["agent"] \in {"idle", "head", "write", "wait"}
  /\ ~Open("agent")
  /\ WriterGoes("agent", "done")
  /\ UNCHANGED <<body, flags, counters, reader, claim, owed, tokens, wires, outcome>>

\* The response is complete; closing the channel is left to the client.
AgentEnd ==
  /\ writer["agent"] = "write"
  /\ CanSend("agent")
  /\ sent["agent"] = body["agent"]
  /\ Put("agent", Control("agent", "end"))
  /\ WriterGoes("agent", "done")
  /\ UNCHANGED <<body, flags, counters, reader, claim, owed, tokens, credits, outcome>>

---------------------------------------------------------------------------
(* The agent: Stream.Read, called by the handler                           *)

Buffered(s) == received[s] - copied[s]

\* Mutated: the bytes read are not allowed again.
AgentCopy_NoAllowance(n) ==
  /\ reader = "read"
  /\ Open("agent")
  /\ n \in 1..Least(Chunk, Buffered("agent"))
  /\ copied' = [copied EXCEPT !["agent"] = @ + n]
  /\ owed'   = n
  /\ reader' = "credit"
  /\ UNCHANGED <<body, flags, credit, sent, received, allowance, writer, claim,
                 tokens, wires, outcome>>

\* Bytes go to the handler; the allowance grows before the credit is sent.
AgentCopy(n) ==
  /\ reader = "read"
  /\ Open("agent")
  /\ n \in 1..Least(Chunk, Buffered("agent"))
  /\ copied'    = [copied EXCEPT !["agent"] = @ + n]
  /\ allowance' = [allowance EXCEPT !["agent"] = @ + n]
  /\ owed'      = n
  /\ reader'    = "credit"
  /\ UNCHANGED <<body, flags, credit, sent, received, writer, claim, tokens, wires,
                 outcome>>

AgentCredit ==
  /\ reader = "credit"
  /\ owed' = 0
  /\ IF CanSend("agent")
     THEN /\ credits' = [credits EXCEPT !["agent"] =
                           Append(@, [from |-> copied["agent"] - owed,
                                      to   |-> copied["agent"]])]
          /\ reader' = "read"
     ELSE UNCHANGED credits /\ reader' = "stopped"
  /\ UNCHANGED <<body, flags, counters, writer, claim, tokens, frames, outcome>>

AgentEOF ==
  /\ reader = "read"
  /\ Open("agent")
  /\ Buffered("agent") = 0
  /\ ended["agent"]
  /\ reader' = "eof"
  /\ UNCHANGED <<body, flags, counters, writer, claim, owed, tokens, wires, outcome>>

AgentReadWait ==
  /\ reader = "read"
  /\ Open("agent")
  /\ Buffered("agent") = 0
  /\ ~ended["agent"]
  /\ reader' = "wait"
  /\ UNCHANGED <<body, flags, counters, writer, claim, owed, tokens, wires, outcome>>

AgentReadWake ==
  /\ reader = "wait"
  /\ inputReady
  /\ inputReady' = FALSE
  /\ reader' = "read"
  /\ UNCHANGED <<body, flags, counters, writer, claim, owed, creditReady, wires, outcome>>

\* The handler has read enough, or the context is done.
AgentQuitsReading ==
  /\ reader = "read" \/ (reader = "wait" /\ ~Open("agent"))
  /\ reader' = "stopped"
  /\ UNCHANGED <<body, flags, counters, writer, claim, owed, tokens, wires, outcome>>

---------------------------------------------------------------------------
(* The client: every operation holds the stream's lock                     *)

ClientStart ==
  /\ writer["client"] = "head"
  /\ CanSend("client")
  /\ Put("client", Control("client", "request"))
  /\ WriterGoes("client", "write")
  /\ UNCHANGED <<body, flags, counters, reader, claim, owed, tokens, credits, outcome>>

\* Blocked without credit; every change of the stream wakes the writer.
ClientWrite(n) ==
  /\ writer["client"] = "write"
  /\ CanSend("client")
  /\ ~ended["client"]
  /\ n \in Takable("client")
  /\ credit' = [credit EXCEPT !["client"] = @ - n]
  /\ sent'   = [sent EXCEPT !["client"] = @ + n]
  /\ Put("client", [type |-> "data", from |-> sent["client"], to |-> sent["client"] + n])
  /\ UNCHANGED <<body, flags, allowance, received, copied, threads, tokens, credits,
                 outcome>>

ClientEnd ==
  /\ writer["client"] = "write"
  /\ CanSend("client")
  /\ ~ended["client"]
  /\ sent["client"] = body["client"]
  /\ Put("client", Control("client", "end"))
  /\ WriterGoes("client", "done")
  /\ UNCHANGED <<body, flags, counters, reader, claim, owed, tokens, credits, outcome>>

\* The response ended, or the stream is over: the rest of the body is not sent.
ClientStop ==
  /\ writer["client"] \in {"head", "write"}
  /\ ended["client"] \/ ~Open("client")
  /\ WriterGoes("client", "done")
  /\ UNCHANGED <<body, flags, counters, reader, claim, owed, tokens, wires, outcome>>

\* The app reads the response's body, across frames (channel.ts: frame by frame).
ClientCopy(n) ==
  /\ controlled["client"]
  /\ CanSend("client")
  /\ n \in 1..Buffered("client")
  /\ copied'    = [copied EXCEPT !["client"] = @ + n]
  /\ allowance' = [allowance EXCEPT !["client"] = @ + n]
  /\ credits'   = [credits EXCEPT !["client"] =
                     Append(@, [from |-> copied["client"], to |-> copied["client"] + n])]
  /\ UNCHANGED <<body, flags, credit, sent, received, threads, tokens, frames, outcome>>

\* All of the response is read: the client closes the channel.
ClientComplete ==
  /\ controlled["client"]
  /\ Open("client")
  /\ ended["client"]
  /\ Buffered("client") = 0
  /\ Finish("client", "complete")
  /\ UNCHANGED <<body, flags, counters, threads, tokens, wires, refused>>

\* The app cancels, or a timeout of the client expires.
ClientAbort ==
  /\ Open("client")
  /\ Finish("client", "aborted")
  /\ UNCHANGED <<body, flags, counters, threads, tokens, wires, refused>>

---------------------------------------------------------------------------
AgentWriter ==
  \/ AgentServe
  \/ AgentHead
  \/ \E n \in 1..Chunk : AgentTake(n)
  \/ AgentSend
  \/ AgentStall
  \/ AgentWake
  \/ AgentStop
  \/ AgentEnd

AgentReader ==
  \/ \E n \in 1..Chunk : AgentCopy(n)
  \/ AgentCredit
  \/ AgentEOF
  \/ AgentReadWait
  \/ AgentReadWake
  \/ AgentQuitsReading

ClientWriter ==
  ClientStart \/ (\E n \in 1..Chunk : ClientWrite(n)) \/ ClientEnd \/ ClientStop

ClientReader == (\E n \in 1..Window : ClientCopy(n)) \/ ClientComplete

Next ==
  \/ \E s \in Side : Receive(s)
  \/ AgentWriter
  \/ AgentReader
  \/ AgentFail
  \/ ClientWriter
  \/ ClientReader
  \/ ClientAbort

\* The channel delivers, goroutines and coroutines run, the handler goes on
\* reading or writing, and the app goes on reading the response.
Fairness ==
  /\ \A s \in Side : WF_vars(Receive(s))
  /\ WF_vars(AgentWriter)
  /\ WF_vars(AgentReader)
  /\ WF_vars(ClientWriter)
  /\ WF_vars(ClientReader)

Spec == Init /\ [][Next]_vars

FairSpec == Spec /\ Fairness

---------------------------------------------------------------------------
(* Properties                                                              *)

Statuses == {"open", "complete", "aborted", "failed", "lost"}

\* Every variable has its type; no counter of bytes is ever negative.
TypeOK ==
  /\ body \in [Side -> Nat]
  /\ status \in [Side -> Statuses]
  /\ controlled \in [Side -> BOOLEAN]
  /\ ended \in [Side -> BOOLEAN]
  /\ credit \in [Side -> Nat]
  /\ allowance \in [Side -> Nat]
  /\ sent \in [Side -> Nat]
  /\ received \in [Side -> Nat]
  /\ copied \in [Side -> Nat]
  /\ writer \in [Side -> {"idle", "head", "write", "send", "wait", "done"}]
  /\ reader \in {"idle", "read", "credit", "wait", "eof", "stopped"}
  /\ claim \in Nat
  /\ owed \in Nat
  /\ creditReady \in BOOLEAN
  /\ inputReady \in BOOLEAN
  /\ frames \in [Side -> Seq(Frame)]
  /\ credits \in [Side -> Seq(Credit)]
  /\ closed \in BOOLEAN
  /\ refused \subseteq Side

\* The agent gave up because its handler or a send failed, not over a frame it refused.
AgentFailed == status["agent"] = "failed" /\ refused = {}

\* The request's body on its way to the handler: it reads to the end, or it stops.
Request == INSTANCE BytePipe WITH
  size      <- body["client"],
  written   <- sent["client"],
  read      <- copied["agent"],
  outcome   <- IF reader = "eof" THEN "complete"
               ELSE IF reader = "stopped" \/ ~Open("agent") THEN "cut" ELSE "open",
  abandoned <- reader = "stopped" \/ status["client"] \in {"complete", "aborted"} \/ AgentFailed

\* The response's body on its way to the app.
Response == INSTANCE BytePipe WITH
  size      <- body["agent"],
  written   <- sent["agent"],
  read      <- copied["client"],
  outcome   <- IF status["client"] = "complete" THEN "complete"
               ELSE IF ~Open("client") THEN "cut" ELSE "open",
  abandoned <- status["client"] = "aborted" \/ AgentFailed

\* Both directions keep the promise of a byte pipe: a slow reader bounds what is under way,
\* nobody takes a truncated body for a whole one, the channel is not closed while the end of
\* the response is in transit (http.go:44), and the two ends, which count the same windows in
\* different places, never refuse each other's frames.
Pipes == Request!Spec /\ Response!Spec

\* Every request comes to an end at both sides and leaves no goroutine or
\* coroutine behind that waits for credit or for data.
RequestEnds ==
  <>(/\ \A s \in Side : ~Open(s) /\ writer[s] = "done"
     /\ reader \in {"idle", "eof", "stopped"})
=============================================================================
