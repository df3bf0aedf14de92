------------------------ MODULE ScrcpyRuntimeProofs ------------------------
(***************************************************************************)
(* Proofs about a scrcpy runtime: about each of its three parts, and then  *)
(* about the three together.                                               *)
(*                                                                         *)
(* The clipboard (ClipboardRpc): no waiter's channel is closed twice, and  *)
(* none stays in the maps, for any number of calls and any device.  The    *)
(* invariant adds to both what they rest on: a call that is not registered *)
(* yet is in nobody's hands, an answer is put into a channel that is then  *)
(* closed, and the closer runs once.                                       *)
(*                                                                         *)
(* The control queue (the instance Queue of ControlQueue) and the video    *)
(* fan-out (the instance Fanout of VideoFanout) are proved about as they   *)
(* are instantiated here, each under its own specification.                *)
(*                                                                         *)
(* The runtime as a whole: what is shown of a part holds in it, since      *)
(* whatever the other parts do is for it nothing, or the close of the      *)
(* runtime.                                                                *)
(***************************************************************************)
EXTENDS MCScrcpyRuntime, FiniteSetTheorems, SequenceTheorems, TLAPS

---------------------------------------------------------------------------
(* The clipboard: types                                                    *)

LEMMA ReturnType ==
  ASSUME TypeOK, NEW c \in Calls, NEW r \in Texts \cup {Ack, Empty, Failed}, Return(c, r)
  PROVE  /\ pc' \in [Calls -> {"idle", "register", "send", "await", "save", "done"}]
         /\ wanted' \in [Calls -> Texts \cup {None}]
         /\ result' \in [Calls -> Texts \cup {None, Ack, Empty, Failed}]
BY DEF TypeOK, Return

LEMMA GotoType ==
  ASSUME TypeOK, NEW c \in Calls, NEW w \in {"register", "send", "await", "save"}, Goto(c, w)
  PROVE  /\ pc' \in [Calls -> {"idle", "register", "send", "await", "save", "done"}]
         /\ wanted' \in [Calls -> Texts \cup {None}]
         /\ result' \in [Calls -> Texts \cup {None, Ack, Empty, Failed}]
BY DEF TypeOK, Goto

LEMMA GiveUpType ==
  ASSUME TypeOK, NEW c \in Calls, GiveUp(c)
  PROVE  TypeOK'
<1> DEFINE r == IF wanted[c] = None /\ latest # None THEN latest ELSE Failed
<1>1. r \in Texts \cup {Ack, Empty, Failed}
  BY DEF TypeOK
<1>2. Return(c, r)
  BY DEF GiveUp
<1> HIDE DEF r
<1>3. /\ pc' \in [Calls -> {"idle", "register", "send", "await", "save", "done"}]
      /\ wanted' \in [Calls -> Texts \cup {None}]
      /\ result' \in [Calls -> Texts \cup {None, Ack, Empty, Failed}]
  BY <1>1, <1>2, ReturnType
<1>4. waiting' \subseteq Calls /\ closes' \in [Calls -> Nat]
  BY DEF TypeOK, GiveUp, RemoveWaiter
<1>5. UNCHANGED <<slot, latest, handing, answer, reader, done, closer, closing, requests,
          messages, clipboard, copies>>
  BY DEF GiveUp, RemoveWaiter, reading, shutdown, device
<1> QED BY <1>3, <1>4, <1>5 DEF TypeOK

\* The head of a sequence of replies is a reply, its tail such a sequence.
LEMMA Received1 ==
  ASSUME NEW S, NEW s \in Seq(S), s # <<>>
  PROVE  Head(s) \in S /\ Tail(s) \in Seq(S)
BY HeadTailProperties

LEMMA TypeStep == TypeOK /\ [Next]_vars => TypeOK'
<1> SUFFICES ASSUME TypeOK, [Next]_vars PROVE TypeOK'
  OBVIOUS
<1>1. ASSUME NEW c \in Calls, ReadCached(c) PROVE TypeOK'
  <2>1. latest \in Texts \cup {Ack, Empty, Failed}
    BY <1>1 DEF TypeOK, ReadCached
  <2> QED BY <1>1, <2>1, ReturnType DEF TypeOK, ReadCached, channels, reading, shutdown, device
<1>2. ASSUME NEW c \in Calls, ReadMisses(c) PROVE TypeOK'
  BY <1>2, GotoType DEF TypeOK, ReadMisses, channels, reading, shutdown, device
<1>3. ASSUME NEW c \in Calls, NEW t \in Texts, Write(c, t) PROVE TypeOK'
  BY <1>3 DEF TypeOK, Write, channels, reading, shutdown, device
<1>4. ASSUME NEW c \in Calls, Register(c) PROVE TypeOK'
  BY <1>4, GotoType DEF TypeOK, Register, channels, reading, shutdown, device
<1>5. ASSUME NEW c \in Calls, SendRequest(c) PROVE TypeOK'
  <2>1. [call |-> c, text |-> wanted[c]] \in Request
    BY DEF TypeOK, Request
  <2>2. requests' \in Seq(Request)
    BY <1>5, <2>1, AppendProperties DEF TypeOK, SendRequest
  <2> QED BY <1>5, <2>2, GotoType DEF TypeOK, SendRequest, channels, reading, shutdown
<1>6. ASSUME NEW c \in Calls, SendFails(c) PROVE TypeOK'
  BY <1>6, GiveUpType DEF SendFails
<1>7. ASSUME NEW c \in Calls, CallClosed(c) PROVE TypeOK'
  BY <1>7, GiveUpType DEF CallClosed
<1>8. ASSUME NEW c \in Calls, TimesOut(c) PROVE TypeOK'
  BY <1>8, GiveUpType DEF TimesOut
<1>9. ASSUME NEW c \in Calls, ReadAnswered(c) PROVE TypeOK'
  <2>1. Received(c) \in Texts \cup {Ack, Empty, Failed}
    BY DEF TypeOK, Received
  <2>2. slot' \in [Calls -> Texts \cup {None, Ack}]
    BY <1>9 DEF TypeOK, ReadAnswered
  <2> QED BY <1>9, <2>1, <2>2, ReturnType DEF TypeOK, ReadAnswered, reading, shutdown, device
<1>10. ASSUME NEW c \in Calls, WriteAnswered(c) PROVE TypeOK'
  <2>1. slot' \in [Calls -> Texts \cup {None, Ack}]
    BY <1>10 DEF TypeOK, WriteAnswered
  <2> QED BY <1>10, <2>1, GotoType DEF TypeOK, WriteAnswered, reading, shutdown, device
<1>11. ASSUME NEW c \in Calls, Save(c) PROVE TypeOK'
  <2>1. pc[c] = "save" /\ Return(c, Ack) /\ latest' = wanted[c]
    BY <1>11 DEF Save
  <2>2. latest' \in Texts \cup {None}
    BY <2>1 DEF TypeOK
  <2> QED BY <1>11, <2>1, <2>2, ReturnType DEF TypeOK, Save, channels, reading, shutdown, device
<1>12. ASSUME NEW c \in Calls, Notify(c) PROVE TypeOK'
  BY <1>12 DEF TypeOK, Notify, calls, shutdown, device
<1>13. ASSUME NEW c \in Calls, CloseWakes(c) PROVE TypeOK'
  BY <1>13 DEF TypeOK, CloseWakes, calls, reading, device
<1>14. ASSUME ReadText PROVE TypeOK'
  <2>1. Head(messages) \in Reply /\ messages' \in Seq(Reply)
    BY <1>14, Received1 DEF TypeOK, ReadText
  <2>2. Head(messages).value \in Texts
    BY <1>14, <2>1, ClipboardAssumption DEF ReadText, Reply
  <2> QED BY <1>14, <2>1, <2>2 DEF TypeOK, ReadText, calls, channels, shutdown
<1>15. ASSUME ReadAck PROVE TypeOK'
  <2>1. messages' \in Seq(Reply)
    BY <1>15, Received1 DEF TypeOK, ReadAck
  <2> QED BY <1>15, <2>1 DEF TypeOK, ReadAck, Acked, calls, channels, shutdown
<1>16. ASSUME ReaderStops PROVE TypeOK'
  BY <1>16 DEF TypeOK, ReaderStops, calls, channels, shutdown, device
<1>17. ASSUME CloseRuntime PROVE TypeOK'
  BY <1>17 DEF TypeOK, CloseRuntime, calls, channels, reading, device
<1>18. ASSUME CloseTakes PROVE TypeOK'
  BY <1>18 DEF TypeOK, CloseTakes, calls, channels, reading, device
<1>19. ASSUME DeviceServes PROVE TypeOK'
  <2>1. Head(requests) \in Request /\ requests' \in Seq(Request)
    BY <1>19, Received1 DEF TypeOK, DeviceServes
  <2>3. messages \in Seq(Reply) /\ clipboard \in Texts
    BY DEF TypeOK
  <2>2. messages' \in Seq(Reply) /\ clipboard' \in Texts
    <3>1. CASE Head(requests).text = None
      <4>1. [call |-> None, value |-> clipboard] \in Reply
        BY DEF TypeOK, Reply
      <4>2. messages' = Append(messages, [call |-> None, value |-> clipboard])
            /\ clipboard' = clipboard
        BY <1>19, <3>1 DEF DeviceServes
      <4> QED BY <4>1, <4>2, <2>3, AppendProperties
    <3>2. CASE Head(requests).text # None
      <4>1. [call |-> Head(requests).call, value |-> Ack] \in Reply
            /\ Head(requests).text \in Texts
        BY <2>1, <3>2 DEF Request, Reply
      <4>2. /\ messages' = Append(messages, [call |-> Head(requests).call, value |-> Ack])
            /\ clipboard' = Head(requests).text
        BY <1>19, <3>2 DEF DeviceServes
      <4> QED BY <4>1, <4>2, <2>3, AppendProperties
    <3> QED BY <3>1, <3>2
  <2> QED BY <1>19, <2>1, <2>2 DEF TypeOK, DeviceServes, calls, channels, reading, shutdown
<1>20. ASSUME NEW t \in Texts, UserCopies(t) PROVE TypeOK'
  <2>1. [call |-> None, value |-> t] \in Reply
    BY DEF Reply
  <2>2. messages' \in Seq(Reply)
    BY <1>20, <2>1, AppendProperties DEF TypeOK, UserCopies
  <2>3. copies' \in 0..MaxCopies
    BY <1>20, ClipboardAssumption DEF TypeOK, UserCopies
  <2> QED BY <1>20, <2>2, <2>3 DEF TypeOK, UserCopies, calls, channels, reading, shutdown
<1>21. ASSUME UNCHANGED vars PROVE TypeOK'
  BY <1>21 DEF TypeOK, vars, calls, channels, reading, shutdown, device
<1> QED
  BY <1>1, <1>2, <1>3, <1>4, <1>5, <1>6, <1>7, <1>8, <1>9, <1>10, <1>11, <1>12, <1>13, <1>14,
     <1>15, <1>16, <1>17, <1>18, <1>19, <1>20, <1>21
  DEF Next, Call, Step

\* Every variable keeps its type, for any calls, texts and device.
THEOREM TypeCorrect == Spec => []TypeOK
<1>1. Init => TypeOK
  <2> SUFFICES ASSUME Init PROVE TypeOK
    OBVIOUS
  <2>1. copies \in 0..MaxCopies /\ closes \in [Calls -> Nat]
    BY ClipboardAssumption DEF Init
  <2>2. requests \in Seq(Request) /\ messages \in Seq(Reply)
    BY EmptySeq DEF Init
  <2> QED BY <2>1, <2>2 DEF Init, TypeOK
<1> QED BY <1>1, TypeStep, PTL DEF Spec

---------------------------------------------------------------------------
(* The clipboard: who closes a channel                                     *)

Early(c) == pc[c] \in {"idle", "register"}

Fresh ==
  \A c \in Calls :
    Early(c) => closes[c] = 0 /\ c \notin waiting /\ c \notin handing /\ c \notin closing

AnsweredClosed == \A c \in Calls : slot[c] # None => closes[c] > 0

\* closeAllSubscribers runs once.
ClosesOnce == closer \in {"open", "take"} => closing = {}

IInv == TypeOK /\ Fresh /\ AnsweredClosed /\ ClosesOnce /\ ClosedOnce /\ NoStrayWaiter

\* A call that gives up closes its channel if it was still in the map.
LEMMA GiveUpKeeps ==
  ASSUME IInv, NEW c \in Calls, pc[c] \in {"send", "await"}, GiveUp(c), TypeOK'
  PROVE  IInv'
<1>1. /\ waiting' = waiting \ {c}
      /\ closes' = [closes EXCEPT ![c] = IF c \in waiting THEN @ + 1 ELSE @]
      /\ pc' = [pc EXCEPT ![c] = "done"]
      /\ UNCHANGED <<slot, handing, closer, closing, done>>
  BY DEF GiveUp, RemoveWaiter, Return, reading, shutdown
<1>2. Fresh'
  BY <1>1 DEF IInv, TypeOK, Fresh, Early
<1>3. ClosedOnce'
  BY <1>1 DEF IInv, TypeOK, ClosedOnce
<1>4. NoStrayWaiter'
  BY <1>1 DEF IInv, TypeOK, NoStrayWaiter
<1>5. AnsweredClosed' /\ ClosesOnce'
  BY <1>1 DEF IInv, TypeOK, AnsweredClosed, ClosesOnce
<1> QED BY <1>2, <1>3, <1>4, <1>5 DEF IInv

\* A call goes on; nothing changes hands.
LEMMA MoveKeeps ==
  ASSUME IInv, TypeOK', NEW c \in Calls,
         NEW w \in {"register", "send", "await", "save", "done"},
         pc' = [pc EXCEPT ![c] = w],
         UNCHANGED <<waiting, closes, handing, closing, closer>>,
         slot' = slot \/ slot' = [slot EXCEPT ![c] = None],
         w = "register" => Early(c),
         w \in {"register", "save", "done"} => c \notin waiting
  PROVE  IInv'
<1>1. Fresh'
  BY DEF IInv, TypeOK, Fresh, Early
<1>2. ClosedOnce'
  BY DEF IInv, TypeOK, ClosedOnce
<1>3. NoStrayWaiter'
  BY DEF IInv, TypeOK, NoStrayWaiter
<1>4. AnsweredClosed' /\ ClosesOnce'
  BY DEF IInv, TypeOK, AnsweredClosed, ClosesOnce
<1> QED BY <1>1, <1>2, <1>3, <1>4 DEF IInv

\* What holds an answer, or is closed, has left the maps.
LEMMA AnsweredIsOut ==
  ASSUME IInv, NEW c \in Calls, slot[c] # None \/ closes[c] > 0
  PROVE  c \notin waiting
BY DEF IInv, TypeOK, AnsweredClosed, ClosedOnce

LEMMA IInvStep == IInv /\ [Next]_vars => IInv'
<1> SUFFICES ASSUME IInv, [Next]_vars PROVE IInv'
  OBVIOUS
<1>0. TypeOK' /\ TypeOK
  BY TypeStep DEF IInv
<1>1. ASSUME NEW c \in Calls, ReadCached(c) \/ ReadMisses(c) \/ (\E t \in Texts : Write(c, t))
      PROVE  IInv'
  <2>1. Early(c) /\ c \notin waiting
    BY <1>1 DEF IInv, Fresh, Early, ReadCached, ReadMisses, Write
  <2>2. PICK w \in {"register", "done"} :
          pc' = [pc EXCEPT ![c] = w]
          /\ UNCHANGED <<waiting, closes, handing, closing, closer, slot>>
    BY <1>1 DEF ReadCached, ReadMisses, Write, Return, Goto, channels, reading, shutdown
  <2> QED BY <1>0, <2>1, <2>2, MoveKeeps
<1>2. ASSUME NEW c \in Calls, Register(c) PROVE IInv'
  <2>1. /\ Early(c)
        /\ pc' = [pc EXCEPT ![c] = "send"]
        /\ waiting' = waiting \cup {c}
        /\ UNCHANGED <<closes, slot, handing, closing, closer>>
    BY <1>2 DEF Register, Goto, Early, channels, reading, shutdown
  <2>2. Fresh'
    BY <1>0, <2>1 DEF IInv, TypeOK, Fresh, Early
  <2>3. ClosedOnce'
    BY <1>0, <2>1 DEF IInv, TypeOK, Fresh, ClosedOnce
  <2>4. NoStrayWaiter'
    BY <1>0, <2>1 DEF IInv, TypeOK, NoStrayWaiter
  <2>5. AnsweredClosed' /\ ClosesOnce'
    BY <1>0, <2>1 DEF IInv, TypeOK, AnsweredClosed, ClosesOnce
  <2> QED BY <1>0, <2>2, <2>3, <2>4, <2>5 DEF IInv
<1>3. ASSUME NEW c \in Calls, SendRequest(c) PROVE IInv'
  <2>1. pc' = [pc EXCEPT ![c] = "await"]
        /\ UNCHANGED <<waiting, closes, handing, closing, closer, slot>>
    BY <1>3 DEF SendRequest, Goto, channels, reading, shutdown
  <2> QED BY <1>0, <2>1, MoveKeeps
<1>4. ASSUME NEW c \in Calls, SendFails(c) \/ CallClosed(c) \/ TimesOut(c) PROVE IInv'
  BY <1>0, <1>4, GiveUpKeeps DEF SendFails, CallClosed, TimesOut
<1>5. ASSUME NEW c \in Calls, ReadAnswered(c) \/ WriteAnswered(c) PROVE IInv'
  <2>1. c \notin waiting
    BY <1>5, AnsweredIsOut DEF ReadAnswered, WriteAnswered
  <2>2. PICK w \in {"save", "done"} :
          /\ pc' = [pc EXCEPT ![c] = w]
          /\ slot' = [slot EXCEPT ![c] = None]
          /\ UNCHANGED <<waiting, closes, handing, closing, closer>>
    BY <1>5 DEF ReadAnswered, WriteAnswered, Return, Goto, reading, shutdown
  <2> QED BY <1>0, <2>1, <2>2, MoveKeeps
<1>6. ASSUME NEW c \in Calls, Save(c) PROVE IInv'
  <2>1. c \notin waiting
    BY <1>6 DEF IInv, NoStrayWaiter, Save
  <2>2. pc' = [pc EXCEPT ![c] = "done"]
        /\ UNCHANGED <<waiting, closes, handing, closing, closer, slot>>
    BY <1>6 DEF Save, Return, channels, reading, shutdown
  <2> QED BY <1>0, <2>1, <2>2, MoveKeeps
<1>7. ASSUME NEW S \in SUBSET waiting, handing = {}, handing' = S, waiting' = waiting \ S,
             UNCHANGED <<pc, slot, closes, closing, closer>>
      PROVE  IInv'
  <2>1. Fresh' /\ NoStrayWaiter'
    BY <1>0, <1>7 DEF IInv, TypeOK, Fresh, Early, NoStrayWaiter
  <2>2. ClosedOnce'
    BY <1>0, <1>7 DEF IInv, TypeOK, ClosedOnce
  <2>3. AnsweredClosed' /\ ClosesOnce'
    BY <1>7 DEF IInv, AnsweredClosed, ClosesOnce
  <2> QED BY <1>0, <2>1, <2>2, <2>3 DEF IInv
<1>8. ASSUME ReadText PROVE IInv'
  <2> DEFINE S == {c \in waiting : wanted[c] = None}
  <2>1. S \in SUBSET waiting /\ waiting' = waiting \ S
    BY <1>8 DEF ReadText
  <2>2. handing = {} /\ handing' = S /\ UNCHANGED <<pc, slot, closes, closing, closer>>
    BY <1>8 DEF ReadText, calls, channels, shutdown
  <2> QED BY <1>7, <2>1, <2>2
<1>9. ASSUME ReadAck PROVE IInv'
  <2> DEFINE S == Acked(Head(messages).call)
  <2>1. S \in SUBSET waiting /\ waiting' = waiting \ S
    BY <1>9 DEF ReadAck, Acked
  <2>2. handing = {} /\ handing' = S /\ UNCHANGED <<pc, slot, closes, closing, closer>>
    BY <1>9 DEF ReadAck, calls, channels, shutdown
  <2> QED BY <1>7, <2>1, <2>2
<1>10. ASSUME NEW c \in Calls, Notify(c) PROVE IInv'
  <2>1. /\ c \in handing
        /\ handing' = handing \ {c}
        /\ slot' = [slot EXCEPT ![c] = answer]
        /\ closes' = [closes EXCEPT ![c] = @ + 1]
        /\ UNCHANGED <<pc, waiting, closing, closer>>
    BY <1>10 DEF Notify, calls, shutdown
  <2>2. Fresh' /\ NoStrayWaiter'
    BY <1>0, <2>1 DEF IInv, TypeOK, Fresh, Early, NoStrayWaiter
  <2>3. ClosedOnce'
    BY <1>0, <2>1 DEF IInv, TypeOK, ClosedOnce
  <2>4. AnsweredClosed' /\ ClosesOnce'
    BY <1>0, <2>1 DEF IInv, TypeOK, AnsweredClosed, ClosesOnce
  <2> QED BY <1>0, <2>2, <2>3, <2>4 DEF IInv
<1>11. ASSUME NEW c \in Calls, CloseWakes(c) PROVE IInv'
  <2>1. /\ c \in closing
        /\ closing' = closing \ {c}
        /\ closes' = [closes EXCEPT ![c] = @ + 1]
        /\ UNCHANGED <<pc, slot, waiting, handing, closer>>
    BY <1>11 DEF CloseWakes, calls, reading
  <2>2. Fresh' /\ NoStrayWaiter'
    BY <1>0, <2>1 DEF IInv, TypeOK, Fresh, Early, NoStrayWaiter
  <2>3. ClosedOnce'
    BY <1>0, <2>1 DEF IInv, TypeOK, ClosedOnce
  <2>4. AnsweredClosed' /\ ClosesOnce'
    BY <1>0, <2>1 DEF IInv, TypeOK, AnsweredClosed, ClosesOnce
  <2> QED BY <1>0, <2>2, <2>3, <2>4 DEF IInv
<1>12. ASSUME CloseTakes PROVE IInv'
  <2>1. /\ closer = "take" /\ closer' = "wake"
        /\ closing' = waiting /\ waiting' = {}
        /\ UNCHANGED <<pc, slot, closes, handing>>
    BY <1>12 DEF CloseTakes, calls, channels, reading
  <2>2. Fresh' /\ NoStrayWaiter'
    BY <1>0, <2>1 DEF IInv, TypeOK, Fresh, Early, NoStrayWaiter
  <2>3. ClosedOnce'
    BY <1>0, <2>1 DEF IInv, TypeOK, ClosedOnce, ClosesOnce
  <2>4. AnsweredClosed' /\ ClosesOnce'
    BY <2>1 DEF IInv, AnsweredClosed, ClosesOnce
  <2> QED BY <1>0, <2>2, <2>3, <2>4 DEF IInv
<1>13. ASSUME CloseRuntime PROVE IInv'
  <2>1. closer = "open" /\ UNCHANGED <<pc, slot, closes, waiting, handing, closing>>
    BY <1>0, <1>13 DEF TypeOK, CloseRuntime, calls, channels, reading
  <2>2. Fresh' /\ NoStrayWaiter' /\ ClosedOnce' /\ AnsweredClosed' /\ ClosesOnce'
    BY <2>1 DEF IInv, Fresh, Early, NoStrayWaiter, ClosedOnce, AnsweredClosed, ClosesOnce
  <2> QED BY <1>0, <2>2 DEF IInv
<1>14. ASSUME UNCHANGED <<pc, slot, closes, waiting, handing, closing, closer>> PROVE IInv'
  BY <1>0, <1>14
  DEF IInv, Fresh, Early, NoStrayWaiter, ClosedOnce, AnsweredClosed, ClosesOnce
<1>15. ASSUME ReaderStops \/ DeviceServes \/ (\E t \in Texts : UserCopies(t)) \/ UNCHANGED vars
       PROVE  IInv'
  BY <1>14, <1>15
  DEF ReaderStops, DeviceServes, UserCopies, vars, calls, channels, reading, shutdown
<1> QED
  BY <1>1, <1>2, <1>3, <1>4, <1>5, <1>6, <1>8, <1>9, <1>10, <1>11, <1>12, <1>13, <1>15
  DEF Next, Call, Step

LEMMA Invariant == Spec => []IInv
<1>1. Init /\ TypeOK => IInv
  BY DEF Init, IInv, Fresh, Early, AnsweredClosed, ClosesOnce, ClosedOnce, NoStrayWaiter
<1> QED BY <1>1, IInvStep, TypeCorrect, PTL DEF Spec

\* dispatchClipboardText, dispatchClipboardAck, removeClipboardWaiter,
\* removeClipboardAckWaiter and closeAllSubscribers together close no channel
\* twice and forget none, however many calls there are: a waiter in the maps
\* belongs to a call that still waits.
THEOREM AllWaitersAccounted == Spec => []WaitersAccounted
<1>1. IInv => WaitersAccounted
  BY DEF IInv, WaitersAccounted
<1> QED BY <1>1, Invariant, PTL

---------------------------------------------------------------------------
(* The control queue: how often a message occurs in a sequence             *)

LEMMA AppendFacts ==
  ASSUME NEW T, NEW s \in Seq(T), NEW e \in T
  PROVE  /\ Append(s, e) \in Seq(T)
         /\ DOMAIN s = 1..Len(s) /\ Len(s) \in Nat
         /\ Len(Append(s, e)) = Len(s) + 1
         /\ DOMAIN Append(s, e) = 1..(Len(s) + 1)
         /\ \A i \in 1..Len(s) : Append(s, e)[i] = s[i]
         /\ Append(s, e)[Len(s) + 1] = e
  OBVIOUS

LEMMA TailFacts ==
  ASSUME NEW T, NEW s \in Seq(T), s # <<>>
  PROVE  /\ Head(s) \in T /\ Head(s) = s[1]
         /\ Tail(s) \in Seq(T)
         /\ DOMAIN s = 1..Len(s) /\ Len(s) \in Nat /\ 0 < Len(s)
         /\ Len(Tail(s)) = Len(s) - 1
         /\ DOMAIN Tail(s) = 1..(Len(s) - 1)
         /\ \A i \in 1..(Len(s) - 1) : Tail(s)[i] = s[i + 1]
  OBVIOUS

LEMMA EntryFacts ==
  ASSUME NEW T, NEW s \in Seq(T), NEW i \in DOMAIN s
  PROVE  s[i] \in T
  OBVIOUS

\* Counting is the same in the instance as here.
LEMMA OccurrencesAre ==
  ASSUME NEW m, NEW s
  PROVE  Queue!Occurrences(m, s) = Cardinality({i \in DOMAIN s : s[i] = m})
BY DEF Queue!Occurrences, Queue!Cardinality, Cardinality

LEMMA OccurrencesType ==
  ASSUME NEW T, NEW s \in Seq(T), NEW m
  PROVE  IsFiniteSet({i \in DOMAIN s : s[i] = m}) /\ Queue!Occurrences(m, s) \in Nat
<1>1. DOMAIN s = 1..Len(s) /\ Len(s) \in Nat
  OBVIOUS
<1>2. IsFiniteSet(DOMAIN s)
  BY <1>1, FS_Interval
<1>3. IsFiniteSet({i \in DOMAIN s : s[i] = m})
  BY <1>2, FS_Subset
<1>4. QED
  BY <1>3, FS_CardinalityType, OccurrencesAre

LEMMA OccurrencesEmpty == ASSUME NEW m PROVE Queue!Occurrences(m, <<>>) = 0
<1>1. {i \in DOMAIN <<>> : <<>>[i] = m} = {}
  OBVIOUS
<1>2. QED
  BY <1>1, FS_EmptySet, OccurrencesAre

LEMMA OccurrencesAppend ==
  ASSUME NEW T, NEW s \in Seq(T), NEW e \in T, NEW m
  PROVE  Queue!Occurrences(m, Append(s, e)) = Queue!Occurrences(m, s) + (IF e = m THEN 1 ELSE 0)
<1> DEFINE before == {i \in DOMAIN s : s[i] = m}
           after == {i \in DOMAIN Append(s, e) : Append(s, e)[i] = m}
<1>1. IsFiniteSet(before) /\ Cardinality(before) \in Nat
  BY OccurrencesType, OccurrencesAre
<1>2. Len(s) + 1 \notin before
  BY AppendFacts
<1>3. after = before \cup (IF e = m THEN {Len(s) + 1} ELSE {})
  <2>1. ASSUME NEW i PROVE i \in after <=> i \in before \/ (e = m /\ i = Len(s) + 1)
    BY AppendFacts
  <2>2. QED
    BY <2>1
<1>4. CASE e = m
  BY <1>1, <1>2, <1>3, <1>4, FS_AddElement, OccurrencesAre
<1>5. CASE e # m
  <2>1. after = before
    BY <1>3, <1>5
  <2>2. Cardinality(after) = Cardinality(before) + 0
    <3> HIDE DEF before, after
    <3>1. QED
      BY <1>1, <2>1
  <2>3. QED
    BY <1>5, <2>2, OccurrencesAre
<1>6. QED
  BY <1>4, <1>5

\* Each place of the tail is one of the sequence, moved by one.
LEMMA OccurrencesTail ==
  ASSUME NEW T, NEW s \in Seq(T), s # <<>>, NEW m
  PROVE  Queue!Occurrences(m, s) = Queue!Occurrences(m, Tail(s)) + (IF Head(s) = m THEN 1 ELSE 0)
<1> DEFINE whole == {i \in DOMAIN s : s[i] = m}
           rest == {i \in DOMAIN Tail(s) : Tail(s)[i] = m}
           moved == {i \in whole : i # 1}
           f == [i \in rest |-> i + 1]
<1>1. IsFiniteSet(rest) /\ Cardinality(rest) \in Nat
  <2>1. Tail(s) \in Seq(T)
    BY TailFacts
  <2>2. QED
    BY <2>1, OccurrencesType, OccurrencesAre
<1>2. f \in Bijection(rest, moved)
  <2>1. \A i \in rest : i \in Nat /\ i + 1 \in moved
    BY TailFacts
  <2>2. f \in [rest -> moved]
    BY <2>1
  <2>3. f \in Injection(rest, moved)
    BY <2>1, <2>2 DEF Injection, IsInjective
  <2>4. ASSUME NEW j \in moved PROVE \E i \in rest : f[i] = j
    <3>1. j \in 2..Len(s) /\ s[j] = m
      BY TailFacts
    <3>2. j - 1 \in rest /\ f[j - 1] = j
      BY <3>1, TailFacts
    <3>3. QED
      BY <3>2
  <2>5. QED
    BY <2>2, <2>3, <2>4 DEF Bijection, Surjection
<1>3. IsFiniteSet(moved) /\ Cardinality(moved) = Cardinality(rest)
  <2>1. PICK R : R = rest
    OBVIOUS
  <2>2. PICK M : M = moved
    OBVIOUS
  <2>3. ExistsBijection(R, M)
    BY <1>2, <2>1, <2>2 DEF ExistsBijection
  <2>4. IsFiniteSet(R)
    BY <1>1, <2>1
  <2>5. IsFiniteSet(M) /\ Cardinality(M) = Cardinality(R)
    BY <2>3, <2>4, FS_Bijection
  <2>6. QED
    BY <2>1, <2>2, <2>5
<1>4. whole = moved \cup (IF Head(s) = m THEN {1} ELSE {})
  BY TailFacts
<1>5. CASE Head(s) = m
  <2>1. 1 \notin moved
    OBVIOUS
  <2>2. Cardinality(whole) = Cardinality(moved) + 1
    BY <1>3, <1>4, <1>5, <2>1, FS_AddElement
  <2>3. QED
    BY <1>3, <1>5, <2>2, OccurrencesAre
<1>6. CASE Head(s) # m
  <2>1. whole = moved
    BY <1>4, <1>6
  <2>2. Cardinality(whole) = Cardinality(rest) + 0
    <3> HIDE DEF whole, rest, moved
    <3>1. QED
      BY <1>1, <1>3, <2>1
  <2>3. QED
    BY <1>6, <2>2, OccurrencesAre
<1>7. QED
  BY <1>5, <1>6

---------------------------------------------------------------------------
(* The control queue: its inductive invariant                              *)

QueueTypeOK ==
  /\ sender \in {"idle", "drain", "requeue", "put", "wait"}
  /\ pending \in Seq(Queue!Message)
  /\ remaining \in Seq(Queue!Message)
  /\ queue \in Seq(Queue!Message)
  /\ writer \in {"take", "write", "stopped"}
  /\ payload \in Queue!Message \cup {Queue!Nothing}
  /\ writer = "take" => payload = Queue!Nothing
  /\ writer = "write" => payload # Queue!Nothing
  /\ done \in BOOLEAN
  /\ accepted \in Seq(Queue!Message)
  /\ written \in Seq(Queue!Message)

\* What a call has still to queue: a message, or a release and the message after it.  A
\* pointer that is down is not about to go down.
FreshDown(m) == m.kind = "down" => ~(m.pointer \subseteq active)

Released(m) == [m EXCEPT !.kind = "up"]

Calling ==
  \/ sender = "idle" /\ pending = <<>>
  \/ sender # "idle" /\ \E m \in Queue!Message : pending = <<m>> /\ FreshDown(m)
  \/ /\ sender \in {"put", "wait"}
     /\ \E m \in Queue!Message : m.kind = "down" /\ pending = <<Released(m), m>>

\* Of the droppable messages of a kind there is one at most.
Single(s) ==
  \A i, j \in DOMAIN s : Queue!Droppable(s[i]) /\ Queue!SameKind(s[i], s[j]) => i = j

Apart(s, t) ==
  \A i \in DOMAIN s : \A j \in DOMAIN t : Queue!Droppable(s[i]) => ~Queue!SameKind(s[i], t[j])

NoneLike(m, s) == \A i \in DOMAIN s : ~Queue!SameKind(m, s[i])

\* The drain leaves nothing of the kind of the next message, and what it took out is put
\* back before that message.
Draining ==
  /\ Single(queue) /\ Single(remaining) /\ Apart(queue, remaining)
  /\ sender \in {"drain", "requeue"} =>
       Queue!Droppable(Head(pending)) /\ NoneLike(Head(pending), remaining)
  /\ sender \notin {"drain", "requeue"} => remaining = <<>>
  /\ sender \in {"requeue", "put", "wait"} /\ Queue!Droppable(Head(pending)) =>
       NoneLike(Head(pending), queue)

\* A pointer that went down and was not released since is remembered.
DownsRemembered ==
  \A i \in DOMAIN accepted : accepted[i].kind = "down" =>
    \/ accepted[i].pointer \subseteq active
    \/ \E k \in DOMAIN accepted : i < k /\ accepted[k] = Released(accepted[i])

QueueIInv ==
  /\ QueueTypeOK /\ Calling /\ Draining
  /\ Queue!MessagesConserved /\ DownsRemembered /\ Queue!DownsReleased

---------------------------------------------------------------------------
(* The control queue: the messages of a call                               *)

\* What a pending message is, and what is left after it.
LEMMA PendingFacts ==
  ASSUME QueueTypeOK, Calling, sender # "idle"
  PROVE  /\ pending # <<>> /\ Head(pending) \in Queue!Message
         /\ FreshDown(Head(pending))
         /\ \/ Tail(pending) = <<>>
            \/ /\ sender \in {"put", "wait"}
               /\ \E m \in Queue!Message :
                    m.kind = "down" /\ Head(pending) = Released(m) /\ Tail(pending) = <<m>>
<1>1. CASE \E m \in Queue!Message : pending = <<m>> /\ FreshDown(m)
  BY <1>1
<1>2. CASE /\ sender \in {"put", "wait"}
           /\ \E m \in Queue!Message : m.kind = "down" /\ pending = <<Released(m), m>>
  <2>1. PICK m \in Queue!Message : m.kind = "down" /\ pending = <<Released(m), m>>
    BY <1>2
  <2>2. Head(pending) = Released(m) /\ Tail(pending) = <<m>> /\ pending # <<>>
    BY <2>1
  <2>3. Released(m).kind = "up" /\ Head(pending) \in Queue!Message
    <3>1. Released(m).kind = "up"
      BY DEF Released
    <3>2. PICK p \in Pointers : m = Queue!Touch("down", p)
      BY <2>1 DEF Queue!Message, Queue!Touch
    <3>3. Released(m) = Queue!Touch("up", p)
      BY <3>2 DEF Released, Queue!Touch
    <3>4. Released(m) \in Queue!Message
      BY <3>3 DEF Queue!Message
    <3>5. QED
      BY <2>2, <3>1, <3>4
  <2>4. QED
    BY <1>2, <2>1, <2>2, <2>3 DEF FreshDown
<1>3. QED
  BY <1>1, <1>2 DEF Calling

LEMMA MessageFacts ==
  ASSUME NEW m \in Queue!Message
  PROVE  /\ m.kind \in {"down", "move", "up", "resize", "key"}
         /\ m.kind \in {"down", "move", "up"} => \E p \in Pointers : m = Queue!Touch(m.kind, p)
         /\ m.kind \in {"resize", "key"} => m.pointer = {}
         /\ m # Queue!Nothing
<1>1. CASE m \in {Queue!Touch(kind, p) : kind \in {"down", "move", "up"}, p \in Pointers}
  <2>1. PICK kind \in {"down", "move", "up"}, p \in Pointers : m = Queue!Touch(kind, p)
    BY <1>1
  <2>2. m.kind = kind /\ "kind" \in DOMAIN m
    BY <2>1 DEF Queue!Touch
  <2>3. QED
    BY <2>1, <2>2 DEF Queue!Nothing
<1>2. CASE m \in [kind : {"resize", "key"}, pointer : {{}}]
  <2>1. "kind" \in DOMAIN m /\ m.kind \in {"resize", "key"} /\ m.pointer = {}
    BY <1>2
  <2>2. QED
    BY <2>1 DEF Queue!Nothing
<1>3. QED
  BY <1>1, <1>2 DEF Queue!Message

\* The release of a pointer that went down.
LEMMA ReleasedFacts ==
  ASSUME NEW m \in Queue!Message, m.kind = "down"
  PROVE  /\ Released(m) \in Queue!Message /\ Released(m).kind = "up"
         /\ Released(m).pointer = m.pointer
         /\ \A n \in Queue!Message : n.kind = "down" /\ n.pointer = m.pointer => n = m
         /\ \A n \in Queue!Message : n.kind = "up" /\ n.pointer = m.pointer => n = Released(m)
         /\ \E p \in Pointers : m.pointer = {p}
<1>1. PICK p \in Pointers : m = Queue!Touch("down", p)
  BY MessageFacts
<1>2. Released(m) = Queue!Touch("up", p)
  BY <1>1 DEF Released, Queue!Touch
<1>3. ASSUME NEW n \in Queue!Message, n.kind \in {"down", "up"}, n.pointer = m.pointer
      PROVE  n = Queue!Touch(n.kind, p)
  <2>1. PICK q \in Pointers : n = Queue!Touch(n.kind, q)
    BY <1>3, MessageFacts
  <2>2. n.pointer = {q} /\ m.pointer = {p}
    BY <1>1, <2>1 DEF Queue!Touch
  <2>3. QED
    BY <1>3, <2>1, <2>2
<1>4. Queue!Touch("up", p) \in Queue!Message
  BY DEF Queue!Message
<1>5. m.pointer = {p} /\ Queue!Touch("up", p).kind = "up" /\ Queue!Touch("up", p).pointer = {p}
  BY <1>1 DEF Queue!Touch
<1>6. QED
  BY <1>1, <1>2, <1>3, <1>4, <1>5

---------------------------------------------------------------------------
(* The control queue: what each part of the invariant asks of a step       *)

\* Taking the first message away, or adding one at the end.
LEMMA SingleFacts ==
  ASSUME NEW s \in Seq(Queue!Message), Single(s)
  PROVE  /\ s # <<>> => Single(Tail(s))
         /\ \A m \in Queue!Message :
              (Queue!Droppable(m) => NoneLike(m, s)) => Single(Append(s, m))
<1>1. ASSUME s # <<>> PROVE Single(Tail(s))
  <2>1. ASSUME NEW i \in DOMAIN Tail(s), NEW j \in DOMAIN Tail(s),
               Queue!Droppable(Tail(s)[i]), Queue!SameKind(Tail(s)[i], Tail(s)[j])
        PROVE  i = j
    <3>1. /\ i + 1 \in DOMAIN s /\ j + 1 \in DOMAIN s /\ i \in Nat /\ j \in Nat
          /\ Tail(s)[i] = s[i + 1] /\ Tail(s)[j] = s[j + 1]
      BY <1>1, TailFacts
    <3>2. i + 1 = j + 1
      BY <2>1, <3>1 DEF Single
    <3>3. QED
      BY <3>1, <3>2
  <2>2. QED
    BY <2>1 DEF Single
<1>2. ASSUME NEW m \in Queue!Message, Queue!Droppable(m) => NoneLike(m, s)
      PROVE  Single(Append(s, m))
  <2>1. ASSUME NEW i \in DOMAIN Append(s, m), NEW j \in DOMAIN Append(s, m),
               Queue!Droppable(Append(s, m)[i]), Queue!SameKind(Append(s, m)[i], Append(s, m)[j])
        PROVE  i = j
    <3>1. ASSUME NEW k \in DOMAIN Append(s, m)
          PROVE  \/ k \in DOMAIN s /\ Append(s, m)[k] = s[k]
                 \/ k = Len(s) + 1 /\ Append(s, m)[k] = m
      BY AppendFacts
    <3>2. QED
      BY <1>2, <2>1, <3>1 DEF Single, NoneLike, Queue!SameKind, Queue!Droppable
  <2>2. QED
    BY <2>1 DEF Single
<1>3. QED
  BY <1>1, <1>2

LEMMA ApartFacts ==
  ASSUME NEW s \in Seq(Queue!Message), NEW t \in Seq(Queue!Message), Apart(s, t), Single(s),
         Single(t)
  PROVE  /\ s # <<>> => /\ Apart(Tail(s), t)
                        /\ Apart(Tail(s), Append(t, Head(s)))
         /\ t # <<>> => Apart(Append(s, Head(t)), Tail(t))
<1>1. ASSUME s # <<>> PROVE Apart(Tail(s), t) /\ Apart(Tail(s), Append(t, Head(s)))
  <2>1. ASSUME NEW i \in DOMAIN Tail(s)
        PROVE  i \in Nat /\ 0 < i /\ i + 1 \in DOMAIN s /\ Tail(s)[i] = s[i + 1]
    BY <1>1, TailFacts
  <2>2. Apart(Tail(s), t)
    BY <2>1 DEF Apart
  <2>3. 1 \in DOMAIN s /\ Head(s) = s[1] /\ Head(s) \in Queue!Message
    BY <1>1, TailFacts
  <2>4. ASSUME NEW i \in DOMAIN Tail(s), Queue!Droppable(Tail(s)[i])
        PROVE  ~Queue!SameKind(Tail(s)[i], Head(s))
    <3>1. i + 1 # 1
      BY <2>1
    <3>2. QED
      BY <2>1, <2>3, <2>4, <3>1 DEF Single
  <2>5. ASSUME NEW j \in DOMAIN Append(t, Head(s))
        PROVE  \/ j \in DOMAIN t /\ Append(t, Head(s))[j] = t[j]
               \/ Append(t, Head(s))[j] = Head(s)
    BY <2>3, AppendFacts
  <2>6. Apart(Tail(s), Append(t, Head(s)))
    BY <2>2, <2>4, <2>5 DEF Apart
  <2>7. QED
    BY <2>2, <2>6
<1>2. ASSUME t # <<>> PROVE Apart(Append(s, Head(t)), Tail(t))
  <2>1. ASSUME NEW j \in DOMAIN Tail(t)
        PROVE  j \in Nat /\ 0 < j /\ j + 1 \in DOMAIN t /\ Tail(t)[j] = t[j + 1]
    BY <1>2, TailFacts
  <2>2. 1 \in DOMAIN t /\ Head(t) = t[1] /\ Head(t) \in Queue!Message
    BY <1>2, TailFacts
  <2>3. ASSUME NEW i \in DOMAIN Append(s, Head(t))
        PROVE  \/ i \in DOMAIN s /\ Append(s, Head(t))[i] = s[i]
               \/ Append(s, Head(t))[i] = Head(t)
    BY <2>2, AppendFacts
  <2>4. ASSUME NEW j \in DOMAIN Tail(t), Queue!Droppable(Head(t))
        PROVE  ~Queue!SameKind(Head(t), Tail(t)[j])
    <3>1. j + 1 # 1
      BY <2>1
    <3>2. QED
      BY <2>1, <2>2, <2>4, <3>1 DEF Single
  <2>5. QED
    BY <2>1, <2>3, <2>4 DEF Apart
<1>3. QED
  BY <1>1, <1>2

LEMMA NoneLikeFacts ==
  ASSUME NEW s \in Seq(Queue!Message), NEW m, NoneLike(m, s)
  PROVE  /\ s # <<>> => ~Queue!SameKind(m, Head(s)) /\ NoneLike(m, Tail(s))
         /\ \A n \in Queue!Message : ~Queue!SameKind(m, n) => NoneLike(m, Append(s, n))
<1>1. ASSUME s # <<>> PROVE ~Queue!SameKind(m, Head(s)) /\ NoneLike(m, Tail(s))
  <2>1. ASSUME NEW i \in DOMAIN Tail(s) PROVE i + 1 \in DOMAIN s /\ Tail(s)[i] = s[i + 1]
    BY <1>1, TailFacts
  <2>2. 1 \in DOMAIN s /\ Head(s) = s[1]
    BY <1>1, TailFacts
  <2>3. QED
    BY <2>1, <2>2 DEF NoneLike
<1>2. ASSUME NEW n \in Queue!Message, ~Queue!SameKind(m, n) PROVE NoneLike(m, Append(s, n))
  <2>1. ASSUME NEW i \in DOMAIN Append(s, n)
        PROVE  (i \in DOMAIN s /\ Append(s, n)[i] = s[i]) \/ Append(s, n)[i] = n
    BY AppendFacts
  <2>2. QED
    BY <1>2, <2>1 DEF NoneLike
<1>3. QED
  BY <1>1, <1>2

---------------------------------------------------------------------------
(* The control queue: the steps of SendControl                             *)

\* A message is put at the end of the queue, remembered, and kept in the history.
LEMMA EnqueueKeeps ==
  ASSUME QueueIInv, sender \in {"put", "wait"}, Queue!Enqueue
  PROVE  QueueIInv'
<1> DEFINE m == Head(pending)
<1>1. /\ m \in Queue!Message /\ FreshDown(m)
      /\ \/ Tail(pending) = <<>>
         \/ \E n \in Queue!Message : n.kind = "down" /\ m = Released(n) /\ Tail(pending) = <<n>>
  BY PendingFacts DEF QueueIInv
<1>2. /\ queue' = Append(queue, m)
      /\ accepted' = IF Queue!Droppable(m) THEN accepted ELSE Append(accepted, m)
      /\ active' = IF m.kind \in {"down", "move"} THEN active \cup m.pointer
                   ELSE IF m.kind = "up" THEN active \ m.pointer ELSE active
      /\ pending' = Tail(pending)
      /\ sender' = IF Tail(pending) = <<>> THEN "idle" ELSE Queue!FirstStep(Head(Tail(pending)))
      /\ UNCHANGED <<remaining, writer, payload, done, written>>
  BY DEF Queue!Enqueue, Queue!Proceed, Queue!Remember, Queue!writing
<1>3. \/ pending' = <<>> /\ sender' = "idle"
      \/ /\ sender' = "put"
         /\ \E n \in Queue!Message : n.kind = "down" /\ m = Released(n) /\ pending' = <<n>>
  <2>1. CASE Tail(pending) = <<>>
    BY <1>2, <2>1
  <2>2. ASSUME NEW n \in Queue!Message, n.kind = "down", m = Released(n), Tail(pending) = <<n>>
        PROVE  sender' = "put" /\ pending' = <<n>>
    <3>1. Head(<<n>>) = n /\ <<n>> # <<>>
      OBVIOUS
    <3>2. sender' = Queue!FirstStep(n) /\ pending' = <<n>>
      BY <1>2, <2>2, <3>1
    <3>3. QED
      BY <2>2, <3>2 DEF Queue!FirstStep, Queue!Droppable
  <2>3. QED
    BY <1>1, <2>1, <2>2
<1>4. /\ sender' \in {"idle", "put"} /\ pending' \in Seq(Queue!Message)
      /\ sender' # "idle" => ~Queue!Droppable(Head(pending'))
  <2>1. ASSUME NEW n \in Queue!Message, n.kind = "down", pending' = <<n>>
        PROVE  pending' \in Seq(Queue!Message) /\ ~Queue!Droppable(Head(pending'))
    BY <2>1 DEF Queue!Droppable
  <2>2. <<>> \in Seq(Queue!Message)
    OBVIOUS
  <2>3. QED
    BY <1>3, <2>1, <2>2
<1> HIDE DEF m
<1>5. QueueTypeOK' /\ Calling'
  <2>1. queue' \in Seq(Queue!Message) /\ accepted' \in Seq(Queue!Message)
    BY <1>1, <1>2, AppendFacts DEF QueueIInv, QueueTypeOK
  <2>2. QueueTypeOK'
    BY <1>2, <1>4, <2>1 DEF QueueIInv, QueueTypeOK
  <2>3. ASSUME NEW n \in Queue!Message, n.kind = "down", m = Released(n)
        PROVE  FreshDown(n)'
    <3>1. m.kind = "up" /\ m.pointer = n.pointer /\ \E p \in Pointers : n.pointer = {p}
      BY <2>3, ReleasedFacts
    <3>2. QED
      BY <1>2, <3>1 DEF FreshDown
  <2>4. Calling'
    BY <1>3, <2>3 DEF Calling
  <2>5. QED
    BY <2>2, <2>4
<1>6. Draining'
  <2>1. remaining = <<>> /\ remaining' = <<>>
    BY <1>2 DEF QueueIInv, Draining
  <2>2. Single(queue')
    <3>1. Queue!Droppable(m) => NoneLike(m, queue)
      BY DEF QueueIInv, Draining, m
    <3>2. QED
      BY <1>1, <1>2, <3>1, SingleFacts DEF QueueIInv, QueueTypeOK, Draining
  <2>3. Single(<<>>) /\ Apart(queue', <<>>)
    BY DEF Single, Apart
  <2>4. QED
    BY <1>4, <2>1, <2>2, <2>3 DEF Draining
<1>7. Queue!MessagesConserved'
  <2>1. ASSUME NEW n \in Queue!Message, ~Queue!Droppable(n)
        PROVE  /\ Queue!Occurrences(n, queue') =
                    Queue!Occurrences(n, queue) + (IF m = n THEN 1 ELSE 0)
               /\ Queue!Occurrences(n, accepted') =
                    Queue!Occurrences(n, accepted) + (IF m = n THEN 1 ELSE 0)
    <3>1. Queue!Occurrences(n, queue') = Queue!Occurrences(n, queue) + (IF m = n THEN 1 ELSE 0)
      BY <1>1, <1>2, OccurrencesAppend DEF QueueIInv, QueueTypeOK
    <3>2. CASE Queue!Droppable(m)
      <4>1. m # n /\ accepted' = accepted /\ Queue!Occurrences(n, accepted) \in Nat
        BY <1>2, <2>1, <3>2, OccurrencesType DEF QueueIInv, QueueTypeOK
      <4>2. QED
        BY <3>1, <4>1
    <3>3. CASE ~Queue!Droppable(m)
      BY <1>1, <1>2, <3>1, <3>3, OccurrencesAppend DEF QueueIInv, QueueTypeOK
    <3>4. QED
      BY <3>2, <3>3
  <2>2. ASSUME NEW n \in Queue!Message
        PROVE  /\ Queue!Occurrences(n, queue) \in Nat /\ Queue!Occurrences(n, written) \in Nat
               /\ Queue!Occurrences(n, remaining) \in Nat
               /\ Queue!Occurrences(n, accepted) \in Nat
    BY OccurrencesType DEF QueueIInv, QueueTypeOK
  <2>3. UNCHANGED <<remaining, payload, written>>
    BY <1>2
  <2>4. QED
    <3>1. SUFFICES ASSUME NEW n \in Queue!Message, ~Queue!Droppable(n)
                   PROVE  Queue!Occurrences(n, accepted') =
                            Queue!Occurrences(n, written) + Queue!Occurrences(n, queue')
                              + Queue!Occurrences(n, remaining) + (IF payload = n THEN 1 ELSE 0)
      BY <2>3 DEF Queue!MessagesConserved
    <3>2. Queue!Occurrences(n, accepted) =
            Queue!Occurrences(n, written) + Queue!Occurrences(n, queue) +
                Queue!Occurrences(n, remaining)
              + (IF payload = n THEN 1 ELSE 0)
      BY <3>1 DEF QueueIInv, Queue!MessagesConserved
    <3>3. QED
      BY <2>1, <2>2, <3>1, <3>2
<1>8. DownsRemembered' /\ Queue!DownsReleased'
  <2>1. CASE Queue!Droppable(m)
    BY <1>1, <1>2, <2>1 DEF QueueIInv, DownsRemembered, Queue!DownsReleased, Queue!Droppable
  <2>2. CASE ~Queue!Droppable(m)
    <3>1. /\ accepted' = Append(accepted, m) /\ DOMAIN accepted = 1..Len(accepted)
          /\ Len(accepted) \in Nat /\ DOMAIN accepted' = 1..(Len(accepted) + 1)
          /\ \A i \in DOMAIN accepted : accepted'[i] = accepted[i]
          /\ accepted'[Len(accepted) + 1] = m
      BY <1>1, <1>2, <2>2, AppendFacts DEF QueueIInv, QueueTypeOK
    <3>2. ASSUME NEW i \in DOMAIN accepted, accepted[i].kind = "down"
          PROVE  \/ accepted[i].pointer \subseteq active'
                 \/ \E k \in DOMAIN accepted' : i < k /\ accepted'[k] = Released(accepted[i])
      <4>1. accepted[i] \in Queue!Message
        BY EntryFacts DEF QueueIInv, QueueTypeOK
      <4>2. CASE \E k \in DOMAIN accepted : i < k /\ accepted[k] = Released(accepted[i])
        BY <3>1, <4>2
      <4>3. CASE accepted[i].pointer \subseteq active
        <5>1. CASE m.kind = "up" /\ m.pointer = accepted[i].pointer
          <6>1. m = Released(accepted[i])
            BY <1>1, <3>2, <4>1, <5>1, ReleasedFacts
          <6>2. i < Len(accepted) + 1 /\ Len(accepted) + 1 \in DOMAIN accepted'
            BY <3>1
          <6>3. QED
            BY <3>1, <6>1, <6>2
        <5>2. CASE m.kind = "up" /\ m.pointer # accepted[i].pointer
          <6>1. PICK p \in Pointers : accepted[i].pointer = {p}
            BY <3>2, <4>1, ReleasedFacts
          <6>2. PICK q \in Pointers : m = Queue!Touch("up", q)
            BY <1>1, <5>2, MessageFacts
          <6>3. m.pointer = {q}
            BY <6>2 DEF Queue!Touch
          <6>4. QED
            BY <1>2, <4>3, <5>2, <6>1, <6>3
        <5>3. CASE m.kind # "up"
          BY <1>2, <4>3, <5>3
        <5>4. QED
          BY <5>1, <5>2, <5>3
      <4>4. QED
        BY <3>2, <4>2, <4>3 DEF QueueIInv, DownsRemembered
    <3>3. m.kind = "down" => m.pointer \subseteq active'
      BY <1>2
    <3>4. DownsRemembered'
      BY <3>1, <3>2, <3>3 DEF DownsRemembered
    <3>5. ASSUME NEW i \in DOMAIN accepted, m.kind = "down", accepted[i] = m
          PROVE  \E k \in i..(Len(accepted) + 1) : accepted'[k] = Released(m)
      <4>1. ~(m.pointer \subseteq active)
        BY <1>1, <3>5 DEF FreshDown
      <4>2. PICK k \in DOMAIN accepted : i < k /\ accepted[k] = Released(m)
        BY <3>5, <4>1 DEF QueueIInv, DownsRemembered
      <4>3. QED
        BY <3>1, <4>2
    <3>6. Queue!DownsReleased'
      <4>1. ASSUME NEW i \in DOMAIN accepted', NEW j \in DOMAIN accepted', i < j,
                   accepted'[i].kind = "down", accepted'[j] = accepted'[i]
            PROVE  \E k \in i..j : accepted'[k] = Released(accepted'[i])
        <5>1. i \in DOMAIN accepted /\ accepted'[i] = accepted[i]
          BY <3>1, <4>1
        <5>2. CASE j \in DOMAIN accepted
          <6>1. \E k \in i..j : accepted[k] = Released(accepted[i])
            BY <3>1, <4>1, <5>1, <5>2 DEF QueueIInv, Queue!DownsReleased, Released
          <6>2. i..j \subseteq DOMAIN accepted
            BY <3>1, <5>1, <5>2
          <6>3. QED
            BY <3>1, <5>1, <6>1, <6>2
        <5>3. CASE j = Len(accepted) + 1
          BY <3>1, <3>5, <4>1, <5>1, <5>3
        <5>4. QED
          BY <3>1, <5>2, <5>3
      <4>2. QED
        BY <4>1 DEF Queue!DownsReleased, Released
    <3>7. QED
      BY <3>4, <3>6
  <2>3. QED
    BY <2>1, <2>2
<1>9. QED
  BY <1>5, <1>6, <1>7, <1>8 DEF QueueIInv

\* Where nothing is queued that must be kept, and no pointer is forgotten.
LEMMA DownsFrame ==
  ASSUME QueueIInv, accepted' = accepted, active \subseteq active'
  PROVE  DownsRemembered' /\ Queue!DownsReleased'
BY DEF QueueIInv, DownsRemembered, Queue!DownsReleased

LEMMA CountsFacts ==
  ASSUME QueueIInv, NEW m \in Queue!Message
  PROVE  /\ Queue!Occurrences(m, accepted) \in Nat /\ Queue!Occurrences(m, written) \in Nat
         /\ Queue!Occurrences(m, queue) \in Nat /\ Queue!Occurrences(m, remaining) \in Nat
         /\ ~Queue!Droppable(m) =>
              Queue!Occurrences(m, accepted) =
                Queue!Occurrences(m, written) + Queue!Occurrences(m, queue) +
                    Queue!Occurrences(m, remaining)
                  + (IF payload = m THEN 1 ELSE 0)
BY OccurrencesType DEF QueueIInv, QueueTypeOK, Queue!MessagesConserved

LEMMA SendControlKeeps ==
  ASSUME QueueIInv, NEW m \in Queue!Message, Queue!SendControl(m)
  PROVE  QueueIInv'
<1>1. /\ sender = "idle" /\ pending = <<>> /\ remaining = <<>>
      /\ pending' = Queue!Screened(m) /\ sender' = Queue!FirstStep(Head(Queue!Screened(m)))
      /\ UNCHANGED <<remaining, active, queue, writer, payload, done, accepted, written>>
  BY DEF Queue!SendControl, QueueIInv, Calling, Draining, Queue!writing
<1>2. \/ /\ pending' = <<m>> /\ FreshDown(m)
         /\ sender' = IF Queue!Droppable(m) THEN "drain" ELSE "put"
      \/ /\ m.kind = "down" /\ pending' = <<Released(m), m>> /\ sender' = "put"
  <2>1. CASE m.kind = "down" /\ m.pointer \subseteq active
    <3>1. Queue!Screened(m) = <<Released(m), m>> /\ Head(Queue!Screened(m)) = Released(m)
      BY <2>1 DEF Queue!Screened, Released
    <3>2. Released(m).kind = "up"
      BY <2>1, ReleasedFacts
    <3>3. QED
      BY <1>1, <2>1, <3>1, <3>2 DEF Queue!FirstStep, Queue!Droppable
  <2>2. CASE ~(m.kind = "down" /\ m.pointer \subseteq active)
    <3>1. Queue!Screened(m) = <<m>> /\ Head(Queue!Screened(m)) = m
      BY <2>2 DEF Queue!Screened
    <3>2. QED
      BY <1>1, <2>2, <3>1 DEF Queue!FirstStep, FreshDown
  <2>3. QED
    BY <2>1, <2>2
<1>3. /\ pending' \in Seq(Queue!Message)
      /\ sender' = (IF Queue!Droppable(Head(pending')) THEN "drain" ELSE "put")
  <2>1. CASE pending' = <<m>> /\ sender' = IF Queue!Droppable(m) THEN "drain" ELSE "put"
    BY <2>1
  <2>2. CASE m.kind = "down" /\ pending' = <<Released(m), m>> /\ sender' = "put"
    <3>1. Released(m) \in Queue!Message /\ ~Queue!Droppable(Released(m))
      BY <2>2, ReleasedFacts DEF Queue!Droppable
    <3>2. Head(pending') = Released(m) /\ pending' \in Seq(Queue!Message)
      BY <2>2, <3>1
    <3>3. QED
      BY <2>2, <3>1, <3>2
  <2>3. QED
    BY <1>2, <2>1, <2>2
<1>4. QueueTypeOK'
  BY <1>1, <1>3 DEF QueueIInv, QueueTypeOK
<1>5. FreshDown(m) => FreshDown(m)'
  BY <1>1 DEF FreshDown
<1>6. Calling'
  BY <1>2, <1>5 DEF Calling
<1>7. Draining'
  <2>1. NoneLike(Head(pending'), remaining')
    BY <1>1 DEF NoneLike
  <2>2. Single(queue') /\ Single(remaining') /\ Apart(queue', remaining')
    BY <1>1 DEF QueueIInv, Draining
  <2>3. QED
    BY <1>1, <1>3, <2>1, <2>2 DEF Draining
<1>8. Queue!MessagesConserved'
  BY <1>1 DEF QueueIInv, Queue!MessagesConserved
<1>9. QED
  BY <1>1, <1>4, <1>6, <1>7, <1>8, DownsFrame DEF QueueIInv

LEMMA DrainKeeps ==
  ASSUME QueueIInv, Queue!Drain
  PROVE  QueueIInv'
<1> DEFINE next == Head(pending)
           first == Head(queue)
<1>1. /\ sender = "drain" /\ queue # <<>> /\ queue' = Tail(queue)
      /\ remaining' = IF Queue!SameKind(first, next) THEN remaining ELSE Append(remaining, first)
      /\ UNCHANGED <<sender, pending, active, writer, payload, done, accepted, written>>
  BY DEF Queue!Drain, Queue!writing
<1>2. /\ first \in Queue!Message /\ queue' \in Seq(Queue!Message)
      /\ remaining' \in Seq(Queue!Message)
      /\ queue \in Seq(Queue!Message) /\ remaining \in Seq(Queue!Message)
  BY <1>1, TailFacts, AppendFacts DEF QueueIInv, QueueTypeOK
<1>3. Queue!Droppable(next) /\ NoneLike(next, remaining)
  BY <1>1 DEF QueueIInv, Draining
<1>4. Single(queue) /\ Single(remaining) /\ Apart(queue, remaining)
  BY DEF QueueIInv, Draining
<1> HIDE DEF next
<1>5. QueueTypeOK' /\ Calling'
  BY <1>1, <1>2 DEF QueueIInv, QueueTypeOK, Calling, FreshDown
<1>6. Draining'
  <2>1. Single(queue') /\ Apart(queue', remaining) /\ Apart(queue', Append(remaining, first))
    BY <1>1, <1>2, <1>4, SingleFacts, ApartFacts
  <2>2. Queue!Droppable(first) => NoneLike(first, remaining)
    <3>1. 1 \in DOMAIN queue /\ first = queue[1]
      BY <1>1, <1>2, TailFacts
    <3>2. QED
      BY <1>4, <3>1 DEF Apart, NoneLike
  <2>3. Single(Append(remaining, first))
    BY <1>2, <1>4, <2>2, SingleFacts
  <2>4. ~Queue!SameKind(first, next) => NoneLike(next, Append(remaining, first))
    BY <1>2, <1>3, NoneLikeFacts DEF Queue!SameKind
  <2>5. NoneLike(next, remaining')
    BY <1>1, <1>3, <2>4
  <2>6. Single(remaining') /\ Apart(queue', remaining')
    BY <1>1, <1>4, <2>1, <2>3
  <2>7. QED
    BY <1>1, <1>3, <2>1, <2>5, <2>6 DEF Draining, next
<1>7. Queue!MessagesConserved'
  <2>1. SUFFICES ASSUME NEW m \in Queue!Message, ~Queue!Droppable(m)
                 PROVE  Queue!Occurrences(m, accepted) =
                          Queue!Occurrences(m, written) + Queue!Occurrences(m, queue')
                            + Queue!Occurrences(m, remaining') + (IF payload = m THEN 1 ELSE 0)
    BY <1>1 DEF Queue!MessagesConserved
  <2>2. Queue!Occurrences(m, queue) = Queue!Occurrences(m, queue') + (IF first = m THEN 1 ELSE 0)
    BY <1>1, <1>2, OccurrencesTail
  <2>3. Queue!Occurrences(m, remaining') =
            Queue!Occurrences(m, remaining) + (IF first = m THEN 1 ELSE 0)
    <3>1. Queue!Occurrences(m, remaining) \in Nat
      BY CountsFacts
    <3>2. CASE Queue!SameKind(first, next)
      <4>1. first # m
        BY <1>3, <2>1, <3>2 DEF Queue!SameKind, Queue!Droppable
      <4>2. remaining' = remaining
        BY <1>1, <3>2
      <4>3. QED
        BY <3>1, <4>1, <4>2
    <3>3. CASE ~Queue!SameKind(first, next)
      BY <1>1, <1>2, <3>3, OccurrencesAppend
    <3>4. QED
      BY <3>2, <3>3
  <2>4. Queue!Occurrences(m, queue') \in Nat
    BY <1>2, OccurrencesType
  <2>5. QED
    <3> HIDE DEF first
    <3>1. QED
      BY <2>1, <2>2, <2>3, <2>4, CountsFacts
<1>8. QED
  BY <1>1, <1>5, <1>6, <1>7, DownsFrame DEF QueueIInv

\* The sender goes on to its next step without a change of the queue.
LEMMA SenderGoesOn ==
  ASSUME QueueIInv, Queue!Drained \/ Queue!Requeued \/ Queue!PutWaits
  PROVE  QueueIInv'
<1>1. /\ UNCHANGED <<pending, remaining, active, queue, writer, payload, done, accepted, written>>
      /\ \/ sender = "drain" /\ queue = <<>> /\ sender' = "requeue"
         \/ sender = "requeue" /\ remaining = <<>> /\ sender' = "put"
         \/ sender = "put" /\ ~Queue!Droppable(Head(pending)) /\ sender' = "wait"
  BY DEF Queue!Drained, Queue!Requeued, Queue!PutWaits, Queue!writing
<1>2. QueueTypeOK'
  BY <1>1 DEF QueueIInv, QueueTypeOK
<1>3. Calling'
  BY <1>1 DEF QueueIInv, Calling, FreshDown
<1>4. Draining'
  <2>1. NoneLike(Head(pending), <<>>)
    BY DEF NoneLike
  <2>2. QED
    BY <1>1, <2>1 DEF QueueIInv, Draining
<1>5. Queue!MessagesConserved'
  BY <1>1 DEF QueueIInv, Queue!MessagesConserved
<1>6. QED
  BY <1>1, <1>2, <1>3, <1>4, <1>5, DownsFrame DEF QueueIInv

LEMMA RequeueKeeps ==
  ASSUME QueueIInv, Queue!Requeue
  PROVE  QueueIInv'
<1> DEFINE next == Head(pending)
           first == Head(remaining)
<1>1. /\ sender = "requeue" /\ remaining # <<>>
      /\ queue' = Append(queue, first) /\ remaining' = Tail(remaining)
      /\ UNCHANGED <<sender, pending, active, writer, payload, done, accepted, written>>
  BY DEF Queue!Requeue, Queue!writing
<1>2. /\ first \in Queue!Message /\ queue' \in Seq(Queue!Message)
      /\ remaining' \in Seq(Queue!Message)
      /\ queue \in Seq(Queue!Message) /\ remaining \in Seq(Queue!Message)
  BY <1>1, TailFacts, AppendFacts DEF QueueIInv, QueueTypeOK
<1>3. Queue!Droppable(next) /\ NoneLike(next, remaining) /\ NoneLike(next, queue)
  BY <1>1 DEF QueueIInv, Draining
<1>4. Single(queue) /\ Single(remaining) /\ Apart(queue, remaining)
  BY DEF QueueIInv, Draining
<1> HIDE DEF next
<1>5. QueueTypeOK' /\ Calling'
  BY <1>1, <1>2 DEF QueueIInv, QueueTypeOK, Calling, FreshDown
<1>6. Draining'
  <2>1. Queue!Droppable(first) => NoneLike(first, queue)
    <3>1. 1 \in DOMAIN remaining /\ first = remaining[1]
      BY <1>1, <1>2, TailFacts
    <3>2. ASSUME NEW i \in DOMAIN queue, Queue!Droppable(first), Queue!SameKind(first, queue[i])
          PROVE  FALSE
      <4>1. Queue!Droppable(queue[i]) /\ Queue!SameKind(queue[i], remaining[1])
        BY <3>1, <3>2 DEF Queue!Droppable, Queue!SameKind
      <4>2. QED
        BY <1>4, <3>1, <4>1 DEF Apart
    <3>3. QED
      BY <3>2 DEF NoneLike
  <2>2. Single(queue')
    BY <1>1, <1>2, <1>4, <2>1, SingleFacts
  <2>3. Single(remaining') /\ Apart(queue', remaining')
    BY <1>1, <1>2, <1>4, SingleFacts, ApartFacts
  <2>4. ~Queue!SameKind(next, first) /\ NoneLike(next, remaining')
    BY <1>1, <1>2, <1>3, NoneLikeFacts
  <2>5. NoneLike(next, queue')
    BY <1>1, <1>2, <1>3, <2>4, NoneLikeFacts
  <2>6. QED
    BY <1>1, <1>3, <2>2, <2>3, <2>4, <2>5 DEF Draining, next
<1>7. Queue!MessagesConserved'
  <2>1. SUFFICES ASSUME NEW m \in Queue!Message, ~Queue!Droppable(m)
                 PROVE  Queue!Occurrences(m, accepted) =
                          Queue!Occurrences(m, written) + Queue!Occurrences(m, queue')
                            + Queue!Occurrences(m, remaining') + (IF payload = m THEN 1 ELSE 0)
    BY <1>1 DEF Queue!MessagesConserved
  <2>2. Queue!Occurrences(m, remaining) =
            Queue!Occurrences(m, remaining') + (IF first = m THEN 1 ELSE 0)
    BY <1>1, <1>2, OccurrencesTail
  <2>3. Queue!Occurrences(m, queue') = Queue!Occurrences(m, queue) + (IF first = m THEN 1 ELSE 0)
    BY <1>1, <1>2, OccurrencesAppend
  <2>4. Queue!Occurrences(m, remaining') \in Nat
    BY <1>2, OccurrencesType
  <2>5. QED
    <3> HIDE DEF first
    <3>1. QED
      BY <2>1, <2>2, <2>3, <2>4, CountsFacts
<1>8. QED
  BY <1>1, <1>5, <1>6, <1>7, DownsFrame DEF QueueIInv

\* What is droppable is the only message of its call.
LEMMA PutDroppedKeeps ==
  ASSUME QueueIInv, Queue!PutDropped
  PROVE  QueueIInv'
<1> DEFINE m == Head(pending)
<1>1. /\ sender = "put" /\ Queue!Droppable(m)
      /\ pending' = Tail(pending)
      /\ sender' = IF Tail(pending) = <<>> THEN "idle" ELSE Queue!FirstStep(Head(Tail(pending)))
      /\ active' = IF m.kind \in {"down", "move"} THEN active \cup m.pointer
                   ELSE IF m.kind = "up" THEN active \ m.pointer ELSE active
      /\ UNCHANGED <<remaining, queue, writer, payload, done, accepted, written>>
  BY DEF Queue!PutDropped, Queue!Proceed, Queue!Remember, Queue!writing
<1>2. Tail(pending) = <<>>
  <2>1. ASSUME NEW n \in Queue!Message, n.kind = "down", m = Released(n) PROVE FALSE
    BY <1>1, <2>1, ReleasedFacts DEF Queue!Droppable
  <2>2. QED
    BY <1>1, <2>1, PendingFacts DEF QueueIInv
<1>3. pending' = <<>> /\ sender' = "idle" /\ active \subseteq active'
  BY <1>1, <1>2 DEF Queue!Droppable
<1> HIDE DEF m
<1>4. QueueTypeOK' /\ Calling'
  <2>1. <<>> \in Seq(Queue!Message)
    OBVIOUS
  <2>2. QED
    BY <1>1, <1>3, <2>1 DEF QueueIInv, QueueTypeOK, Calling
<1>5. Draining'
  BY <1>1, <1>3 DEF QueueIInv, Draining
<1>6. Queue!MessagesConserved'
  BY <1>1 DEF QueueIInv, Queue!MessagesConserved
<1>7. QED
  BY <1>1, <1>3, <1>4, <1>5, <1>6, DownsFrame DEF QueueIInv

LEMMA FailKeeps ==
  ASSUME QueueIInv, sender \in {"put", "wait"}, Queue!Fail
  PROVE  QueueIInv'
<1>1. /\ pending' = <<>> /\ sender' = "idle"
      /\ UNCHANGED <<remaining, active, queue, writer, payload, done, accepted, written>>
  BY DEF Queue!Fail, Queue!writing
<1>2. QueueTypeOK' /\ Calling'
  <2>1. <<>> \in Seq(Queue!Message)
    OBVIOUS
  <2>2. QED
    BY <1>1, <2>1 DEF QueueIInv, QueueTypeOK, Calling
<1>3. Draining'
  BY <1>1 DEF QueueIInv, Draining
<1>4. Queue!MessagesConserved'
  BY <1>1 DEF QueueIInv, Queue!MessagesConserved
<1>5. QED
  BY <1>1, <1>2, <1>3, <1>4, DownsFrame DEF QueueIInv

---------------------------------------------------------------------------
(* The control queue: the steps of the writer                              *)

LEMMA WriterTakesKeeps ==
  ASSUME QueueIInv, Queue!WriterTakes
  PROVE  QueueIInv'
<1> DEFINE first == Head(queue)
<1>1. /\ writer = "take" /\ queue # <<>> /\ payload' = first /\ queue' = Tail(queue)
      /\ writer' = "write"
      /\ UNCHANGED <<sender, pending, remaining, active, done, accepted, written>>
  BY DEF Queue!WriterTakes, Queue!sending
<1>2. /\ first \in Queue!Message /\ queue \in Seq(Queue!Message) /\ queue' \in Seq(Queue!Message)
      /\ first # Queue!Nothing /\ payload = Queue!Nothing
  BY <1>1, TailFacts, MessageFacts DEF QueueIInv, QueueTypeOK
<1>3. QueueTypeOK' /\ Calling'
  BY <1>1, <1>2 DEF QueueIInv, QueueTypeOK, Calling, FreshDown
<1>4. Draining'
  <2>1. Single(queue') /\ Apart(queue', remaining)
    BY <1>1, <1>2, SingleFacts, ApartFacts DEF QueueIInv, QueueTypeOK, Draining
  <2>2. NoneLike(Head(pending), queue) => NoneLike(Head(pending), queue')
    BY <1>1, <1>2, NoneLikeFacts
  <2>3. QED
    BY <1>1, <2>1, <2>2 DEF QueueIInv, Draining
<1>5. Queue!MessagesConserved'
  <2>1. SUFFICES ASSUME NEW m \in Queue!Message, ~Queue!Droppable(m)
                 PROVE  Queue!Occurrences(m, accepted) =
                          Queue!Occurrences(m, written) + Queue!Occurrences(m, queue')
                            + Queue!Occurrences(m, remaining) + (IF first = m THEN 1 ELSE 0)
    BY <1>1 DEF Queue!MessagesConserved
  <2>2. Queue!Occurrences(m, queue) = Queue!Occurrences(m, queue') + (IF first = m THEN 1 ELSE 0)
    BY <1>1, <1>2, OccurrencesTail
  <2>3. payload # m
    BY <1>2, MessageFacts
  <2>4. Queue!Occurrences(m, queue') \in Nat
    BY <1>2, OccurrencesType
  <2>5. QED
    <3> HIDE DEF first
    <3>1. QED
      BY <2>1, <2>2, <2>3, <2>4, CountsFacts
<1>6. QED
  BY <1>1, <1>3, <1>4, <1>5, DownsFrame DEF QueueIInv

LEMMA WriterWritesKeeps ==
  ASSUME QueueIInv, Queue!WriterWrites
  PROVE  QueueIInv'
<1>1. /\ writer = "write"
      /\ written' = IF Queue!Droppable(payload) THEN written ELSE Append(written, payload)
      /\ payload' = Queue!Nothing /\ writer' = "take"
      /\ UNCHANGED <<sender, pending, remaining, active, queue, done, accepted>>
  BY DEF Queue!WriterWrites, Queue!sending
<1>2. payload \in Queue!Message /\ written \in Seq(Queue!Message)
      /\ written' \in Seq(Queue!Message)
  BY <1>1, AppendFacts DEF QueueIInv, QueueTypeOK
<1>3. QueueTypeOK' /\ Calling'
  BY <1>1, <1>2 DEF QueueIInv, QueueTypeOK, Calling, FreshDown
<1>4. Draining'
  BY <1>1 DEF QueueIInv, Draining
<1>5. Queue!MessagesConserved'
  <2>1. SUFFICES ASSUME NEW m \in Queue!Message, ~Queue!Droppable(m)
                 PROVE  Queue!Occurrences(m, accepted) =
                          Queue!Occurrences(m, written') + Queue!Occurrences(m, queue)
                            + Queue!Occurrences(m, remaining) +
                                (IF Queue!Nothing = m THEN 1 ELSE 0)
    BY <1>1 DEF Queue!MessagesConserved
  <2>2. Queue!Nothing # m
    BY MessageFacts
  <2>3. Queue!Occurrences(m, written') =
            Queue!Occurrences(m, written) + (IF payload = m THEN 1 ELSE 0)
    <3>1. Queue!Occurrences(m, written) \in Nat
      BY CountsFacts
    <3>2. CASE Queue!Droppable(payload)
      <4>1. payload # m /\ written' = written
        BY <1>1, <2>1, <3>2
      <4>2. QED
        BY <3>1, <4>1
    <3>3. CASE ~Queue!Droppable(payload)
      BY <1>1, <1>2, <3>3, OccurrencesAppend
    <3>4. QED
      BY <3>2, <3>3
  <2>4. QED
    BY <2>1, <2>2, <2>3, CountsFacts
<1>6. QED
  BY <1>1, <1>3, <1>4, <1>5, DownsFrame DEF QueueIInv

\* The end of the writer, or of the runtime, and a move that is not queued.
LEMMA EndsKeep ==
  ASSUME QueueIInv,
         \/ Queue!WriterFails \/ Queue!WriterStops \/ Queue!Close
         \/ \E m \in Queue!Message : Queue!DropMove(m)
         \/ UNCHANGED Queue!vars
  PROVE  QueueIInv'
<1>1. /\ UNCHANGED <<sender, pending, remaining, active, queue, payload, accepted, written>>
      /\ writer' \in {writer, "stopped"} /\ done' \in {done, TRUE}
  BY DEF Queue!WriterFails, Queue!WriterStops, Queue!Close, Queue!DropMove, Queue!vars,
         Queue!sending, Queue!writing
<1>2. done' \in BOOLEAN
  BY <1>1 DEF QueueIInv, QueueTypeOK
<1>3. QueueTypeOK' /\ Calling'
  BY <1>1, <1>2 DEF QueueIInv, QueueTypeOK, Calling, FreshDown
<1>4. Draining'
  BY <1>1 DEF QueueIInv, Draining
<1>5. Queue!MessagesConserved'
  BY <1>1 DEF QueueIInv, Queue!MessagesConserved
<1>6. QED
  BY <1>1, <1>3, <1>4, <1>5, DownsFrame DEF QueueIInv

---------------------------------------------------------------------------
(* The control queue: its theorems                                         *)

LEMMA QueueIInvInit == ASSUME Queue!Init PROVE QueueIInv
<1>1. QueueTypeOK
  <2>1. <<>> \in Seq(Queue!Message)
    OBVIOUS
  <2>2. QED
    BY <2>1 DEF Queue!Init, QueueTypeOK
<1>2. Calling
  BY DEF Queue!Init, Calling
<1>3. Draining
  BY DEF Queue!Init, Draining, Single, Apart
<1>4. Queue!MessagesConserved
  <2>1. SUFFICES ASSUME NEW m \in Queue!Message
                 PROVE  Queue!Occurrences(m, <<>>) =
                            Queue!Occurrences(m, <<>>) + Queue!Occurrences(m, <<>>)
                          + Queue!Occurrences(m, <<>>) + (IF Queue!Nothing = m THEN 1 ELSE 0)
    BY DEF Queue!Init, Queue!MessagesConserved
  <2>2. Queue!Nothing # m
    BY MessageFacts
  <2>3. QED
    BY <2>2, OccurrencesEmpty
<1>5. DownsRemembered /\ Queue!DownsReleased
  BY DEF Queue!Init, DownsRemembered, Queue!DownsReleased
<1>6. QED
  BY <1>1, <1>2, <1>3, <1>4, <1>5 DEF QueueIInv

LEMMA QueueIInvStep == ASSUME QueueIInv, [Queue!Next]_(Queue!vars) PROVE QueueIInv'
<1>1. ASSUME NEW m \in Queue!Message, Queue!SendControl(m) PROVE QueueIInv'
  BY <1>1, SendControlKeeps
<1>2. CASE Queue!Drain
  BY <1>2, DrainKeeps
<1>3. CASE Queue!Drained \/ Queue!Requeued \/ Queue!PutWaits
  BY <1>3, SenderGoesOn
<1>4. CASE Queue!Requeue
  BY <1>4, RequeueKeeps
<1>5. CASE Queue!Put \/ Queue!WaitedPut
  BY <1>5, EnqueueKeeps DEF Queue!Put, Queue!WaitedPut
<1>6. CASE Queue!PutDropped
  BY <1>6, PutDroppedKeeps
<1>7. CASE Queue!WaitTimesOut \/ Queue!SenderClosed
  BY <1>7, FailKeeps DEF Queue!WaitTimesOut, Queue!SenderClosed
<1>8. CASE Queue!WriterTakes
  BY <1>8, WriterTakesKeeps
<1>9. CASE Queue!WriterWrites
  BY <1>9, WriterWritesKeeps
<1>10. CASE \/ Queue!WriterFails \/ Queue!WriterStops \/ Queue!Close
            \/ \E m \in Queue!Message : Queue!DropMove(m)
            \/ UNCHANGED Queue!vars
  BY <1>10, EndsKeep
<1>11. QED
  BY <1>1, <1>2, <1>3, <1>4, <1>5, <1>6, <1>7, <1>8, <1>9, <1>10
     DEF Queue!Next, Queue!Sender, Queue!Writer

LEMMA QueueIInvAlways == Queue!Spec => []QueueIInv
<1>1. Queue!Init => QueueIInv
  BY QueueIInvInit
<1>2. QueueIInv /\ [Queue!Next]_(Queue!vars) => QueueIInv'
  BY QueueIInvStep
<1>3. QED
  BY <1>1, <1>2, PTL DEF Queue!Spec

\* What SendControl has queued and must not lose is written once or still on its way, and of
\* the moves and resizes at most the latest is queued, whatever the writer takes while a
\* drain is under way.
THEOREM QueueAlwaysKept == Queue!Spec => []Queue!QueueKept
<1>1. QueueIInv => Queue!QueueKept
  BY DEF QueueIInv, Draining, Single, Queue!QueueKept, Queue!Coalesced
<1>2. QED
  BY <1>1, QueueIInvAlways, PTL

\* Between two downs of a pointer that SendControl has queued there is its release, also
\* when an earlier one was given up because the queue was congested.
THEOREM DownsAlwaysReleased == Queue!Spec => []Queue!DownsReleased
<1>1. QueueIInv => Queue!DownsReleased
  BY DEF QueueIInv
<1>2. QED
  BY <1>1, QueueIInvAlways, PTL

---------------------------------------------------------------------------
(* The fan-out: the places of a buffer                                     *)

\* Finite sets are the same in the instance as here.
LEMMA Sizes ==
  ASSUME NEW S
  PROVE  /\ Fanout!Cardinality(S) = Cardinality(S)
         /\ Fanout!IsFiniteSet(S) <=> IsFiniteSet(S)
BY DEF Fanout!Cardinality, Cardinality, Fanout!IsFiniteSet, IsFiniteSet

At(q, b, t, i) == t \in Subscribers /\ i \in DOMAIN q[t] /\ q[t][i].buffer = b

LEMMA PlaceFacts ==
  ASSUME NEW q, NEW b
  PROVE  /\ \A t, i : <<t, i>> \in Fanout!Places(q, b) <=> At(q, b, t, i)
         /\ \A x \in Fanout!Places(q, b) : x = <<x[1], x[2]>> /\ At(q, b, x[1], x[2])
<1>1. ASSUME NEW t, NEW i
      PROVE  <<t, i>> \in Fanout!Places(q, b) <=> At(q, b, t, i)
  BY DEF Fanout!Places, At
<1>2. ASSUME NEW x \in Fanout!Places(q, b) PROVE x = <<x[1], x[2]>>
  BY DEF Fanout!Places
<1>3. QED
  BY <1>1, <1>2

LEMMA SamePlaces ==
  ASSUME NEW q, NEW r, NEW b, \A t, i : At(r, b, t, i) <=> At(q, b, t, i)
  PROVE  Fanout!Places(r, b) = Fanout!Places(q, b)
<1>1. /\ \A t, i : <<t, i>> \in Fanout!Places(q, b) <=> At(q, b, t, i)
      /\ \A x \in Fanout!Places(q, b) : x = <<x[1], x[2]>>
  BY PlaceFacts
<1>2. /\ \A t, i : <<t, i>> \in Fanout!Places(r, b) <=> At(r, b, t, i)
      /\ \A x \in Fanout!Places(r, b) : x = <<x[1], x[2]>>
  BY PlaceFacts
<1>3. ASSUME NEW x PROVE x \in Fanout!Places(r, b) <=> x \in Fanout!Places(q, b)
  BY <1>1, <1>2
<1>4. QED
  BY <1>3

\* The channels after p was put into that of s, and after a packet was taken from it.
Put(q, s, p) == [q EXCEPT ![s] = Append(@, p)]
Taken(q, s) == [q EXCEPT ![s] = Tail(@)]

\* A packet at the end of a channel is one place more for its buffer.
LEMMA PlacesAppend ==
  ASSUME NEW q \in [Subscribers -> Seq(Fanout!Packet)], NEW s \in Subscribers,
         NEW p \in Fanout!Packet,
         NEW r, r = Put(q, s, p), NEW b, p.buffer = b,
         IsFiniteSet(Fanout!Places(q, b))
  PROVE  /\ IsFiniteSet(Fanout!Places(r, b))
         /\ Cardinality(Fanout!Places(r, b)) = Cardinality(Fanout!Places(q, b)) + 1
<1> DEFINE n == Len(q[s]) + 1
<1>1. /\ q[s] \in Seq(Fanout!Packet) /\ r[s] = Append(q[s], p)
      /\ \A t \in Subscribers : t # s => r[t] = q[t]
  BY DEF Put
<1>2. /\ DOMAIN q[s] = 1..Len(q[s]) /\ DOMAIN r[s] = 1..n /\ Len(q[s]) \in Nat
      /\ \A i \in DOMAIN q[s] : r[s][i] = q[s][i]
      /\ r[s][n] = p
  BY <1>1, AppendFacts
<1>3. DOMAIN r[s] = DOMAIN q[s] \cup {n} /\ n \notin DOMAIN q[s]
  BY <1>2
<1> HIDE DEF n
<1>5. <<s, n>> \notin Fanout!Places(q, b)
  <2>1. ~At(q, b, s, n)
    BY <1>3 DEF At
  <2>2. QED
    BY <2>1, PlaceFacts
<1>6. Fanout!Places(r, b) = Fanout!Places(q, b) \cup {<<s, n>>}
  <2>1. /\ \A t, i : <<t, i>> \in Fanout!Places(q, b) <=> At(q, b, t, i)
        /\ \A x \in Fanout!Places(q, b) : x = <<x[1], x[2]>>
    BY PlaceFacts
  <2>2. /\ \A t, i : <<t, i>> \in Fanout!Places(r, b) <=> At(r, b, t, i)
        /\ \A x \in Fanout!Places(r, b) : x = <<x[1], x[2]>>
    BY PlaceFacts
  <2>3. ASSUME NEW t, NEW i
        PROVE  <<t, i>> \in Fanout!Places(r, b) <=> <<t, i>> \in Fanout!Places(q, b)
               \/ (t = s /\ i = n)
    <3>1. At(r, b, t, i) <=> At(q, b, t, i) \/ (t = s /\ i = n)
      <4>1. CASE t = s
        BY <1>1, <1>2, <1>3, <4>1 DEF At
      <4>2. CASE t # s
        BY <1>1, <4>2 DEF At
      <4>3. QED
        BY <4>1, <4>2
    <3>2. <<t, i>> \in Fanout!Places(q, b) <=> At(q, b, t, i)
      BY <2>1
    <3>3. <<t, i>> \in Fanout!Places(r, b) <=> At(r, b, t, i)
      BY <2>2
    <3>4. QED
      BY <3>1, <3>2, <3>3
  <2>4. ASSUME NEW x \in Fanout!Places(r, b) PROVE x \in Fanout!Places(q, b) \/ x = <<s, n>>
    <3>1. x = <<x[1], x[2]>> /\ <<x[1], x[2]>> \in Fanout!Places(r, b)
      BY <2>2
    <3>2. <<x[1], x[2]>> \in Fanout!Places(q, b) \/ (x[1] = s /\ x[2] = n)
      BY <2>3, <3>1
    <3>3. QED
      BY <3>1, <3>2
  <2>5. ASSUME NEW x \in Fanout!Places(q, b) PROVE x \in Fanout!Places(r, b)
    <3>1. x = <<x[1], x[2]>> /\ <<x[1], x[2]>> \in Fanout!Places(q, b)
      BY <2>1
    <3>2. <<x[1], x[2]>> \in Fanout!Places(r, b)
      BY <2>3, <3>1
    <3>3. QED
      BY <3>1, <3>2
  <2>6. <<s, n>> \in Fanout!Places(r, b)
    BY <2>3
  <2>7. QED
    BY <2>4, <2>5, <2>6
<1>7. /\ IsFiniteSet(Fanout!Places(q, b) \cup {<<s, n>>})
      /\ Cardinality(Fanout!Places(q, b) \cup {<<s, n>>}) = Cardinality(Fanout!Places(q, b)) + 1
  BY <1>5, FS_AddElement
<1>8. QED
  BY <1>6, <1>7

LEMMA PlacesAppendOther ==
  ASSUME NEW q \in [Subscribers -> Seq(Fanout!Packet)], NEW s \in Subscribers,
         NEW p \in Fanout!Packet,
         NEW r, r = Put(q, s, p), NEW b, p.buffer # b
  PROVE  Fanout!Places(r, b) = Fanout!Places(q, b)
<1>1. /\ q[s] \in Seq(Fanout!Packet) /\ r[s] = Append(q[s], p)
      /\ \A t \in Subscribers : t # s => r[t] = q[t]
  BY DEF Put
<1>2. ASSUME NEW t, NEW i PROVE At(r, b, t, i) <=> At(q, b, t, i)
  <2>1. CASE t = s
    <3>1. PICK c : c = q[s]
      OBVIOUS
    <3>2. PICK d : d = r[s]
      OBVIOUS
    <3>3. c \in Seq(Fanout!Packet) /\ d = Append(c, p)
      BY <1>1, <3>1, <3>2
    <3>4. /\ DOMAIN c = 1..Len(c) /\ DOMAIN d = 1..(Len(c) + 1) /\ Len(c) \in Nat
          /\ d[Len(c) + 1] = p /\ \A k \in 1..Len(c) : d[k] = c[k]
      BY <3>3, AppendFacts
    <3>5. (i \in DOMAIN d /\ d[i].buffer = b) <=> (i \in DOMAIN c /\ c[i].buffer = b)
      BY <3>4
    <3>6. QED
      BY <2>1, <3>1, <3>2, <3>5 DEF At
  <2>2. CASE t # s
    BY <1>1, <2>2 DEF At
  <2>3. QED
    BY <2>1, <2>2
<1>3. QED
  BY <1>2, SamePlaces

\* The first packet of a channel is one place; the others move up by one.
LEMMA PlacesTail ==
  ASSUME NEW q \in [Subscribers -> Seq(Fanout!Packet)], NEW s \in Subscribers, q[s] # <<>>,
         NEW b, IsFiniteSet(Fanout!Places(q, b)),
         NEW r, r = Taken(q, s)
  PROVE  /\ IsFiniteSet(Fanout!Places(r, b))
         /\ Head(q[s]).buffer = b =>
              Cardinality(Fanout!Places(q, b)) = Cardinality(Fanout!Places(r, b)) + 1
         /\ Head(q[s]).buffer # b =>
              Cardinality(Fanout!Places(q, b)) = Cardinality(Fanout!Places(r, b))
<1> DEFINE first == <<s, 1>>
           others == Fanout!Places(q, b) \ {first}
           f == [x \in others |-> IF x[1] = s THEN <<s, x[2] - 1>> ELSE x]
<1>1. /\ q[s] \in Seq(Fanout!Packet) /\ r[s] = Tail(q[s])
      /\ \A t \in Subscribers : t # s => r[t] = q[t]
  BY DEF Taken
<1>2. /\ DOMAIN q[s] = 1..Len(q[s]) /\ DOMAIN r[s] = 1..(Len(q[s]) - 1)
      /\ Len(q[s]) \in Nat /\ 0 < Len(q[s]) /\ Head(q[s]) = q[s][1]
      /\ \A i \in 1..(Len(q[s]) - 1) : r[s][i] = q[s][i + 1]
  BY <1>1, TailFacts
<1>3. /\ IsFiniteSet(others) /\ Cardinality(others) \in Nat
      /\ Cardinality(Fanout!Places(q, b)) =
           Cardinality(others) + (IF Head(q[s]).buffer = b THEN 1 ELSE 0)
  <2>1. first \in Fanout!Places(q, b) <=> Head(q[s]).buffer = b
    <3>1. At(q, b, s, 1) <=> Head(q[s]).buffer = b
      BY <1>2 DEF At
    <3>2. QED
      BY <3>1, PlaceFacts
  <2>2. Cardinality(Fanout!Places(q, b)) \in Nat
    BY FS_CardinalityType
  <2>3. /\ IsFiniteSet(others)
        /\ Cardinality(others) =
             IF first \in Fanout!Places(q, b) THEN Cardinality(Fanout!Places(q, b)) - 1
             ELSE Cardinality(Fanout!Places(q, b))
    BY FS_RemoveElement
  <2>4. Cardinality(others) \in Nat
    BY <2>3, FS_CardinalityType
  <2>5. QED
    <3> HIDE DEF others, first
    <3>1. QED
      BY <2>1, <2>2, <2>3, <2>4
<1>4. ASSUME NEW t \in Subscribers, NEW i \in DOMAIN q[t], q[t][i].buffer = b, <<t, i>> # first
      PROVE  /\ t = s => i - 1 \in DOMAIN r[s] /\ r[s][i - 1].buffer = b
             /\ t # s => i \in DOMAIN r[t] /\ r[t][i].buffer = b
  BY <1>1, <1>2, <1>4
<1>5. ASSUME NEW x \in others
      PROVE  /\ x[1] \in Subscribers /\ x[2] \in DOMAIN q[x[1]] /\ q[x[1]][x[2]].buffer = b
             /\ x = <<x[1], x[2]>> /\ <<x[1], x[2]>> # first
             /\ x[1] = s => x[2] \in Nat
  <2>1. x = <<x[1], x[2]>> /\ At(q, b, x[1], x[2])
    BY PlaceFacts
  <2>2. <<x[1], x[2]>> # first
    BY <2>1
  <2>3. QED
    BY <1>2, <2>1, <2>2 DEF At
<1>6. f \in [others -> Fanout!Places(r, b)]
  <2>1. ASSUME NEW x \in others PROVE f[x] \in Fanout!Places(r, b)
    <3>1. /\ x[1] = s => x[2] - 1 \in DOMAIN r[s] /\ r[s][x[2] - 1].buffer = b
          /\ x[1] # s => x[2] \in DOMAIN r[x[1]] /\ r[x[1]][x[2]].buffer = b
      BY <1>4, <1>5
    <3>2. f[x] = IF x[1] = s THEN <<s, x[2] - 1>> ELSE <<x[1], x[2]>>
      BY <1>5
    <3>3. /\ x[1] = s => At(r, b, s, x[2] - 1)
          /\ x[1] # s => At(r, b, x[1], x[2])
      BY <1>5, <3>1 DEF At
    <3>4. QED
      BY <3>2, <3>3, PlaceFacts
  <2>2. QED
    BY <2>1
<1>7. ASSUME NEW x \in others, NEW y \in others, f[x] = f[y] PROVE x = y
  <2>1. /\ f[x] = IF x[1] = s THEN <<s, x[2] - 1>> ELSE <<x[1], x[2]>>
        /\ f[y] = IF y[1] = s THEN <<s, y[2] - 1>> ELSE <<y[1], y[2]>>
    BY <1>5
  <2>2. /\ x[1] = y[1]
        /\ x[1] = s => x[2] - 1 = y[2] - 1
        /\ x[1] # s => x[2] = y[2]
    BY <1>7, <2>1
  <2>3. x[2] = y[2]
    BY <1>5, <2>2
  <2>4. QED
    BY <1>5, <2>2, <2>3
<1>8. ASSUME NEW y \in Fanout!Places(r, b) PROVE \E x \in others : f[x] = y
  <2>1. /\ y[1] \in Subscribers /\ y[2] \in DOMAIN r[y[1]] /\ r[y[1]][y[2]].buffer = b
        /\ y = <<y[1], y[2]>>
    <3>1. y = <<y[1], y[2]>> /\ At(r, b, y[1], y[2])
      BY PlaceFacts
    <3>2. QED
      BY <3>1 DEF At
  <2>2. CASE y[1] = s
    <3>1. /\ y[2] \in Nat /\ 0 < y[2]
          /\ y[2] + 1 \in DOMAIN q[s] /\ q[s][y[2] + 1].buffer = b
      BY <1>2, <2>1, <2>2
    <3>2. <<s, y[2] + 1>> \in others
      <4>1. At(q, b, s, y[2] + 1) /\ <<s, y[2] + 1>> # first
        BY <3>1 DEF At
      <4>2. QED
        BY <4>1, PlaceFacts
    <3>3. f[<<s, y[2] + 1>>] = <<s, (y[2] + 1) - 1>>
      BY <3>2
    <3>4. (y[2] + 1) - 1 = y[2]
      BY <3>1
    <3>5. QED
      BY <2>1, <2>2, <3>2, <3>3, <3>4
  <2>3. CASE y[1] # s
    <3>1. y[2] \in DOMAIN q[y[1]] /\ q[y[1]][y[2]].buffer = b
      BY <1>1, <2>1, <2>3
    <3>2. <<y[1], y[2]>> \in Fanout!Places(q, b) /\ <<y[1], y[2]>> # first
      <4>1. At(q, b, y[1], y[2])
        BY <2>1, <3>1 DEF At
      <4>2. QED
        BY <2>3, <4>1, PlaceFacts
    <3>3. y \in others
      BY <2>1, <3>2
    <3>4. f[y] = y
      BY <2>3, <3>3
    <3>5. QED
      BY <3>3, <3>4
  <2>4. QED
    BY <2>2, <2>3
<1>9. f \in Bijection(others, Fanout!Places(r, b))
  <2>1. f \in Injection(others, Fanout!Places(r, b))
    <3> HIDE DEF f, others
    <3>1. QED
      BY <1>6, <1>7 DEF Injection, IsInjective
  <2>2. f \in Surjection(others, Fanout!Places(r, b))
    <3> HIDE DEF f, others
    <3>1. QED
      BY <1>6, <1>8 DEF Surjection
  <2>3. QED
    BY <2>1, <2>2 DEF Bijection
<1>10. IsFiniteSet(Fanout!Places(r, b)) /\ Cardinality(Fanout!Places(r, b)) = Cardinality(others)
  BY <1>3, <1>9, FS_Bijection DEF ExistsBijection
<1>11. QED
  BY <1>3, <1>10

---------------------------------------------------------------------------
(* The fan-out: its inductive invariant                                    *)

FanoutTypeOK ==
  /\ holder \in {"nobody", "offer", "replay"}
  /\ batch \in Seq(Fanout!Packet)
  /\ todo \subseteq Subscribers
  /\ step \in {"reserve", "clear", "send", "drop", "retry"}
  /\ generation \in Nat
  /\ subs \subseteq Subscribers
  /\ packets \in [Subscribers -> Seq(Fanout!Packet)]
  /\ chan \in [Subscribers -> {"none", "open", "removed", "draining", "drained"}]
  /\ hand \in [Subscribers -> Fanout!Packet \cup {None}]
  /\ afterConfig \in [Subscribers -> Nat]
  /\ held \in [Fanout!Buffers -> Nat]
  /\ returned \in [Fanout!Buffers -> Nat]
  /\ arrived \in 0..MaxPackets

\* A subscriber that is known has an open channel; one that is not open yet, or is drained,
\* holds nothing.
Channels ==
  /\ \A s \in subs : chan[s] = "open"
  /\ \A s \in Subscribers : chan[s] \in {"none", "drained"} => packets[s] = <<>>

\* Who holds videoMu serves known subscribers, the reader with its one packet, the replay
\* with copies.
Serving ==
  /\ holder = "nobody" => step = "send"
  /\ holder # "nobody" => target \in subs /\ todo \subseteq subs /\ batch # <<>>
  /\ holder = "offer" =>
       /\ Tail(batch) = <<>> /\ Head(batch).buffer \in 1..arrived
       /\ step \in {"send", "drop", "retry"}
  /\ holder = "replay" => step \in {"reserve", "clear", "send"}

\* The pair has its two places, and what the key frame follows is its configuration.
Replaying ==
  holder = "replay" =>
    \/ /\ batch = Fanout!KeyFramePair
       /\ step = "send" => Len(packets[target]) + 2 <= ChannelCap
    \/ /\ batch = <<Fanout!Copy("key")>> /\ step = "send"
       /\ Len(packets[target]) < ChannelCap
       /\ IF packets[target] = <<>> THEN afterConfig[target] = generation
          ELSE packets[target][Len(packets[target])] = Fanout!Copy("config")

\* For every buffer of the pool, also one that no packet has used yet.
Counted ==
  \A b \in Fanout!Buffers :
    /\ IsFiniteSet(Fanout!Places(packets, b))
    /\ held[b] = Fanout!References(b)
    /\ returned[b] = IF b <= arrived /\ Fanout!References(b) = 0 THEN 1 ELSE 0
    /\ b > arrived => Fanout!References(b) = 0

FanoutIInv == FanoutTypeOK /\ Channels /\ Serving /\ Replaying /\ Counted

---------------------------------------------------------------------------
(* The fan-out: how a step changes the counts                              *)

LEMMA ReferencesType ==
  ASSUME Fanout!FanoutAssumption, FanoutTypeOK, NEW b, IsFiniteSet(Fanout!Places(packets, b))
  PROVE  /\ Cardinality(Fanout!Places(packets, b)) \in Nat
         /\ IsFiniteSet(Fanout!Readers(b)) /\ Cardinality(Fanout!Readers(b)) \in Nat
         /\ IsFiniteSet(todo) /\ Cardinality(todo) \in Nat
         /\ Fanout!Awaiting(b) \in Nat /\ Fanout!References(b) \in Nat
<1>1. Cardinality(Fanout!Places(packets, b)) \in Nat
  BY FS_CardinalityType
<1>2. IsFiniteSet(Fanout!Readers(b)) /\ Cardinality(Fanout!Readers(b)) \in Nat
  <2>1. Fanout!Readers(b) \in SUBSET Subscribers
    BY DEF Fanout!Readers
  <2>2. QED
    BY <2>1, FS_Subset, FS_CardinalityType, Sizes DEF Fanout!FanoutAssumption
<1>3. IsFiniteSet(todo) /\ Cardinality(todo) \in Nat
  <2>1. todo \in SUBSET Subscribers
    BY DEF FanoutTypeOK
  <2>2. QED
    BY <2>1, FS_Subset, FS_CardinalityType, Sizes DEF Fanout!FanoutAssumption
<1>4. Fanout!Awaiting(b) \in Nat
  BY <1>3, Sizes DEF Fanout!Awaiting
<1>5. QED
  BY <1>1, <1>2, <1>3, <1>4, Sizes DEF Fanout!References

LEMMA CountedFrame ==
  ASSUME Counted, UNCHANGED <<held, returned, arrived>>,
         \A b \in Fanout!Buffers : IsFiniteSet(Fanout!Places(packets', b))
             /\ Fanout!References(b)' = Fanout!References(b)
  PROVE  Counted'
BY DEF Counted

\* Nothing that is counted changes.
LEMMA QuietFrame ==
  ASSUME Counted, UNCHANGED <<packets, hand, holder, batch, todo, held, returned, arrived>>
  PROVE  Counted'
BY Sizes DEF Counted, Fanout!References, Fanout!Readers, Fanout!Awaiting

LEMMA ReleaseFacts ==
  ASSUME FanoutTypeOK, NEW p \in Fanout!Packet, Fanout!Release(p)
  PROVE  /\ held' \in [Fanout!Buffers -> Nat] /\ returned' \in [Fanout!Buffers -> Nat]
         /\ \A b \in Fanout!Buffers :
              IF p.buffer = b /\ held[b] # 0
              THEN /\ held'[b] = held[b] - 1
                   /\ returned'[b] = IF held[b] = 1 THEN returned[b] + 1 ELSE returned[b]
              ELSE held'[b] = held[b] /\ returned'[b] = returned[b]
<1>1. CASE p.buffer = 0 \/ held[p.buffer] = 0
  <2>1. held' = held /\ returned' = returned
    BY <1>1 DEF Fanout!Release, Fanout!buffers
  <2>2. ASSUME NEW b \in Fanout!Buffers PROVE ~(p.buffer = b /\ held[b] # 0)
    BY <1>1 DEF Fanout!Buffers
  <2>3. QED
    BY <2>1, <2>2 DEF FanoutTypeOK
<1>2. CASE ~(p.buffer = 0 \/ held[p.buffer] = 0)
  <2>1. p.buffer \in Fanout!Buffers
    BY <1>2 DEF Fanout!Packet, Fanout!Buffers
  <2>2. /\ held' = [held EXCEPT ![p.buffer] = @ - 1]
        /\ returned' = [returned EXCEPT ![p.buffer] =
                          IF held[p.buffer] = 1 THEN @ + 1 ELSE @]
    BY <1>2 DEF Fanout!Release
  <2>3. /\ held \in [Fanout!Buffers -> Nat] /\ returned \in [Fanout!Buffers -> Nat]
        /\ held[p.buffer] \in Nat /\ held[p.buffer] # 0
    BY <1>2, <2>1 DEF FanoutTypeOK
  <2>4. held[p.buffer] - 1 \in Nat
    BY <2>3
  <2>5. QED
    BY <2>1, <2>2, <2>3, <2>4
<1>3. QED
  BY <1>1, <1>2

\* A release goes with the end of one reference.
LEMMA CountedRelease ==
  ASSUME FanoutTypeOK, Counted, NEW p \in Fanout!Packet, Fanout!Release(p), arrived' = arrived,
         \A b \in Fanout!Buffers :
           /\ IsFiniteSet(Fanout!Places(packets', b)) /\ Fanout!References(b)' \in Nat
           /\ Fanout!References(b) = Fanout!References(b)' + (IF p.buffer = b THEN 1 ELSE 0)
  PROVE  Counted'
<1>1. SUFFICES ASSUME NEW b \in Fanout!Buffers
               PROVE  /\ held'[b] = Fanout!References(b)'
                      /\ returned'[b] = IF b <= arrived /\ Fanout!References(b)' = 0 THEN 1 ELSE 0
                      /\ b > arrived => Fanout!References(b)' = 0
  BY DEF Counted
<1>2. /\ held[b] = Fanout!References(b)
      /\ returned[b] = IF b <= arrived /\ Fanout!References(b) = 0 THEN 1 ELSE 0
      /\ b > arrived => Fanout!References(b) = 0
  BY DEF Counted
<1>3. Fanout!References(b)' \in Nat
      /\ Fanout!References(b) = Fanout!References(b)' + (IF p.buffer = b THEN 1 ELSE 0)
  OBVIOUS
<1>4. b \in Nat /\ arrived \in Nat
  BY DEF FanoutTypeOK, Fanout!Buffers
<1>5. CASE p.buffer = b
  <2>1. Fanout!References(b) = Fanout!References(b)' + 1
    BY <1>3, <1>5
  <2>2. /\ held'[b] = held[b] - 1
        /\ returned'[b] = IF held[b] = 1 THEN returned[b] + 1 ELSE returned[b]
    BY <1>2, <1>3, <1>5, <2>1, ReleaseFacts
  <2>3. QED
    BY <1>2, <1>3, <1>4, <2>1, <2>2
<1>6. CASE p.buffer # b
  <2>1. Fanout!References(b) = Fanout!References(b)'
    BY <1>3, <1>6
  <2>2. held'[b] = held[b] /\ returned'[b] = returned[b]
    BY <1>6, ReleaseFacts
  <2>3. QED
    BY <1>2, <2>1, <2>2
<1>7. QED
  BY <1>5, <1>6

\* The first packet of a channel is taken from it.
LEMMA TakenFacts ==
  ASSUME Fanout!FanoutAssumption, FanoutTypeOK, Counted, NEW s \in Subscribers, packets[s] # <<>>,
         packets' = [packets EXCEPT ![s] = Tail(@)]
  PROVE  /\ Head(packets[s]) \in Fanout!Packet /\ packets' \in [Subscribers -> Seq(Fanout!Packet)]
         /\ Len(packets'[s]) = Len(packets[s]) - 1
         /\ \A b \in Fanout!Buffers :
              /\ IsFiniteSet(Fanout!Places(packets', b))
              /\ Cardinality(Fanout!Places(packets', b)) \in Nat
              /\ Head(packets[s]).buffer = b =>
                   Cardinality(Fanout!Places(packets, b)) =
                       Cardinality(Fanout!Places(packets', b)) + 1
              /\ Head(packets[s]).buffer # b =>
                   Cardinality(Fanout!Places(packets, b)) =
                       Cardinality(Fanout!Places(packets', b))
<1>1. packets \in [Subscribers -> Seq(Fanout!Packet)] /\ packets[s] \in Seq(Fanout!Packet)
  BY DEF FanoutTypeOK
<1>2. Head(packets[s]) \in Fanout!Packet /\ Tail(packets[s]) \in Seq(Fanout!Packet)
  BY <1>1, TailFacts
<1>3. packets' \in [Subscribers -> Seq(Fanout!Packet)] /\ packets'[s] = Tail(packets[s])
  BY <1>1, <1>2
<1>4. Len(packets'[s]) = Len(packets[s]) - 1
  BY <1>1, <1>3, TailFacts
<1>5. ASSUME NEW b \in Fanout!Buffers
      PROVE  /\ IsFiniteSet(Fanout!Places(packets', b))
             /\ Cardinality(Fanout!Places(packets', b)) \in Nat
             /\ Head(packets[s]).buffer = b =>
                  Cardinality(Fanout!Places(packets, b)) =
                      Cardinality(Fanout!Places(packets', b)) + 1
             /\ Head(packets[s]).buffer # b =>
                  Cardinality(Fanout!Places(packets, b)) = Cardinality(Fanout!Places(packets', b))
  <2>1. IsFiniteSet(Fanout!Places(packets, b))
    BY DEF Counted
  <2>2. /\ IsFiniteSet(Fanout!Places(packets', b))
        /\ Head(packets[s]).buffer = b =>
             Cardinality(Fanout!Places(packets, b)) = Cardinality(Fanout!Places(packets', b)) + 1
        /\ Head(packets[s]).buffer # b =>
             Cardinality(Fanout!Places(packets, b)) = Cardinality(Fanout!Places(packets', b))
    <3>1. PICK q : q = packets
      OBVIOUS
    <3>2. PICK r : r = packets'
      OBVIOUS
    <3>3. q \in [Subscribers -> Seq(Fanout!Packet)] /\ q[s] # <<>>
          /\ IsFiniteSet(Fanout!Places(q, b))
      BY <1>1, <2>1, <3>1
    <3>4. r = Taken(q, s)
      BY <3>1, <3>2 DEF Taken
    <3>5. /\ IsFiniteSet(Fanout!Places(r, b))
          /\ Head(q[s]).buffer = b =>
               Cardinality(Fanout!Places(q, b)) = Cardinality(Fanout!Places(r, b)) + 1
          /\ Head(q[s]).buffer # b =>
               Cardinality(Fanout!Places(q, b)) = Cardinality(Fanout!Places(r, b))
      BY <3>3, <3>4, PlacesTail
    <3>6. QED
      BY <3>1, <3>2, <3>5
  <2>3. QED
    BY <2>2, FS_CardinalityType
<1>6. QED
  BY <1>2, <1>3, <1>4, <1>5

\* A packet at the end of a channel, for any buffer.
LEMMA PlacesPut ==
  ASSUME NEW q \in [Subscribers -> Seq(Fanout!Packet)], NEW s \in Subscribers,
         NEW p \in Fanout!Packet,
         NEW r, r = Put(q, s, p), NEW b, IsFiniteSet(Fanout!Places(q, b))
  PROVE  /\ IsFiniteSet(Fanout!Places(r, b))
         /\ p.buffer = b =>
              Cardinality(Fanout!Places(r, b)) = Cardinality(Fanout!Places(q, b)) + 1
         /\ p.buffer # b => Cardinality(Fanout!Places(r, b)) = Cardinality(Fanout!Places(q, b))
<1>1. CASE p.buffer = b
  <2>1. IsFiniteSet(Fanout!Places(r, b))
        /\ Cardinality(Fanout!Places(r, b)) = Cardinality(Fanout!Places(q, b)) + 1
    BY <1>1, PlacesAppend
  <2>2. QED
    BY <1>1, <2>1
<1>2. CASE p.buffer # b
  <2>1. Fanout!Places(r, b) = Fanout!Places(q, b)
    BY <1>2, PlacesAppendOther
  <2>2. QED
    BY <1>2, <2>1
<1>3. QED
  BY <1>1, <1>2

LEMMA TakenAndReleased ==
  ASSUME Fanout!FanoutAssumption, FanoutTypeOK, Counted, NEW s \in Subscribers, packets[s] # <<>>,
         packets' = [packets EXCEPT ![s] = Tail(@)], Fanout!Release(Head(packets[s])),
         UNCHANGED <<hand, holder, batch, todo, arrived>>
  PROVE  Counted'
<1> DEFINE p == Head(packets[s])
<1>1. p \in Fanout!Packet
  BY TakenFacts
<1>2. ASSUME NEW b \in Fanout!Buffers
      PROVE  /\ IsFiniteSet(Fanout!Places(packets', b)) /\ Fanout!References(b)' \in Nat
             /\ Fanout!References(b) = Fanout!References(b)' + (IF p.buffer = b THEN 1 ELSE 0)
  <2>1. Fanout!Readers(b)' = Fanout!Readers(b) /\ Fanout!Awaiting(b)' = Fanout!Awaiting(b)
    BY Sizes DEF Fanout!Readers, Fanout!Awaiting
  <2>2. Cardinality(Fanout!Readers(b)) \in Nat /\ Fanout!Awaiting(b) \in Nat
    BY ReferencesType DEF Counted
  <2>3. /\ Fanout!References(b)' =
             Cardinality(Fanout!Places(packets', b)) + Cardinality(Fanout!Readers(b)) +
                 Fanout!Awaiting(b)
        /\ Fanout!References(b) =
             Cardinality(Fanout!Places(packets, b)) + Cardinality(Fanout!Readers(b)) +
                 Fanout!Awaiting(b)
    BY <2>1, Sizes DEF Fanout!References
  <2>4. /\ IsFiniteSet(Fanout!Places(packets', b))
        /\ Cardinality(Fanout!Places(packets', b)) \in Nat
        /\ p.buffer = b =>
             Cardinality(Fanout!Places(packets, b)) = Cardinality(Fanout!Places(packets', b)) + 1
        /\ p.buffer # b =>
             Cardinality(Fanout!Places(packets, b)) = Cardinality(Fanout!Places(packets', b))
    BY TakenFacts
  <2>5. QED
    <3> HIDE DEF p
    <3>1. QED
      BY <2>2, <2>3, <2>4
<1>3. QED
  BY <1>1, <1>2, CountedRelease

---------------------------------------------------------------------------
(* The fan-out: the steps of who holds videoMu                             *)

LEMMA CopyFacts ==
  ASSUME Fanout!FanoutAssumption, generation \in Nat
  PROVE  /\ \A kind \in {"config", "key"} :
              Fanout!Copy(kind) \in Fanout!Packet /\ Fanout!Copy(kind).buffer = 0
              /\ Fanout!Copy(kind).kind = kind
              /\ Fanout!Copy(kind).gen = generation
         /\ Fanout!KeyFramePair \in Seq(Fanout!Packet) /\ Fanout!KeyFramePair # <<>>
         /\ Head(Fanout!KeyFramePair) = Fanout!Copy("config")
         /\ Tail(Fanout!KeyFramePair) = <<Fanout!Copy("key")>>
         /\ <<Fanout!Copy("key")>> \in Seq(Fanout!Packet) /\ <<Fanout!Copy("key")>> # <<>>
         /\ Head(<<Fanout!Copy("key")>>) = Fanout!Copy("key")
         /\ Tail(<<Fanout!Copy("key")>>) = <<>>
         /\ Fanout!KeyFramePair # <<Fanout!Copy("key")>>
<1>1. \A kind \in {"config", "key"} :
        Fanout!Copy(kind) \in Fanout!Packet /\ Fanout!Copy(kind).buffer = 0
        /\ Fanout!Copy(kind).kind = kind
        /\ Fanout!Copy(kind).gen = generation
  BY DEF Fanout!Copy, Fanout!Packet, Fanout!FanoutAssumption
<1>2. Fanout!Copy("config") \in Fanout!Packet /\ Fanout!Copy("key") \in Fanout!Packet
  BY <1>1
<1>3. Fanout!KeyFramePair = <<Fanout!Copy("config"), Fanout!Copy("key")>>
  BY DEF Fanout!KeyFramePair
<1>4. /\ <<Fanout!Copy("config"), Fanout!Copy("key")>> \in Seq(Fanout!Packet)
      /\ Head(<<Fanout!Copy("config"), Fanout!Copy("key")>>) = Fanout!Copy("config")
      /\ Tail(<<Fanout!Copy("config"), Fanout!Copy("key")>>) = <<Fanout!Copy("key")>>
      /\ Len(<<Fanout!Copy("config"), Fanout!Copy("key")>>) = 2 /\ Len(<<Fanout!Copy("key")>>) = 1
      /\ <<Fanout!Copy("config"), Fanout!Copy("key")>> # <<>>
  BY <1>2
<1>5. /\ <<Fanout!Copy("key")>> \in Seq(Fanout!Packet) /\ <<Fanout!Copy("key")>> # <<>>
      /\ Head(<<Fanout!Copy("key")>>) = Fanout!Copy("key") /\ Tail(<<Fanout!Copy("key")>>) = <<>>
  BY <1>2
<1>6. QED
  BY <1>1, <1>3, <1>4, <1>5

\* What the target of who holds videoMu is.
LEMMA TargetFacts ==
  ASSUME Fanout!FanoutAssumption, FanoutIInv, holder # "nobody"
  PROVE  /\ target \in subs /\ target \in Subscribers /\ chan[target] = "open"
         /\ packets[target] \in Seq(Fanout!Packet) /\ Len(packets[target]) \in Nat
         /\ Head(batch) \in Fanout!Packet
         /\ holder = "offer" \/ holder = "replay"
         /\ holder = "replay" => Head(batch).buffer = 0
<1>1. target \in subs /\ target \in Subscribers /\ chan[target] = "open"
  BY DEF FanoutIInv, Serving, Channels, FanoutTypeOK
<1>2. packets[target] \in Seq(Fanout!Packet) /\ Len(packets[target]) \in Nat
  BY <1>1 DEF FanoutIInv, FanoutTypeOK
<1>3. Head(batch) \in Fanout!Packet
  BY TailFacts DEF FanoutIInv, Serving, FanoutTypeOK
<1>4. holder = "replay" => Head(batch).buffer = 0
  BY CopyFacts DEF FanoutIInv, Replaying, FanoutTypeOK
<1>5. QED
  BY <1>1, <1>2, <1>3, <1>4 DEF FanoutIInv, FanoutTypeOK

LEMMA StepGoesOn ==
  ASSUME Fanout!FanoutAssumption, FanoutIInv,
         Fanout!SendFull \/ Fanout!NothingQueued \/ Fanout!Reserve
         \/ (Fanout!Clear /\ packets[target] = <<>>)
  PROVE  FanoutIInv'
<1>1. /\ UNCHANGED <<holder, batch, todo, target, generation, keyFrame, subs, packets, chan, hand,
                     afterConfig, running, held, returned, arrived>>
      /\ \/ /\ holder # "nobody" /\ step = "send" /\ step' = "drop"
            /\ Len(packets[target]) = ChannelCap
         \/ step = "drop" /\ step' = "retry"
         \/ step = "reserve" /\ step' = IF Fanout!Crowded THEN "clear" ELSE "send"
         \/ step = "clear" /\ packets[target] = <<>> /\ step' = "send"
  BY DEF Fanout!SendFull, Fanout!NothingQueued, Fanout!Reserve, Fanout!Clear, Fanout!cache,
         Fanout!buffers, Fanout!bounds
<1>2. FanoutTypeOK' /\ Channels'
  BY <1>1 DEF FanoutIInv, FanoutTypeOK, Channels
<1>3. holder # "nobody"
  BY <1>1 DEF FanoutIInv, Serving
<1>4. packets[target] \in Seq(Fanout!Packet) /\ Len(packets[target]) \in Nat
      /\ ChannelCap \in Nat /\ ChannelCap >= 2
  BY <1>3, TargetFacts DEF Fanout!FanoutAssumption
<1>5. holder = "replay" =>
        /\ batch = Fanout!KeyFramePair
        /\ step' \in {"clear", "send"}
        /\ step' = "send" => Len(packets[target]) + 2 <= ChannelCap
  <2>1. SUFFICES ASSUME holder = "replay"
                 PROVE  /\ batch = Fanout!KeyFramePair
                        /\ step' \in {"clear", "send"}
                        /\ step' = "send" => Len(packets[target]) + 2 <= ChannelCap
    OBVIOUS
  <2>2. step \in {"reserve", "clear"}
    BY <1>1, <1>4, <2>1 DEF FanoutIInv, Serving, Replaying
  <2>3. batch = Fanout!KeyFramePair
    BY <2>1, <2>2 DEF FanoutIInv, Replaying
  <2>4. packets[target] = <<>> => Len(packets[target]) = 0
    BY <1>4
  <2>5. QED
    BY <1>1, <1>4, <2>2, <2>3, <2>4 DEF Fanout!Crowded
<1>6. holder = "offer" => step' \in {"send", "drop", "retry"}
  BY <1>1 DEF FanoutIInv, Serving
<1>7. Serving'
  BY <1>1, <1>3, <1>5, <1>6 DEF FanoutIInv, Serving
<1>8. Replaying'
  BY <1>1, <1>5 DEF Replaying, Fanout!KeyFramePair, Fanout!Copy
<1>9. Counted'
  BY <1>1, QuietFrame DEF FanoutIInv
<1>10. QED
  BY <1>2, <1>7, <1>8, <1>9 DEF FanoutIInv

LEMMA DropQueuedKeeps ==
  ASSUME Fanout!FanoutAssumption, FanoutIInv, Fanout!DropQueued
  PROVE  FanoutIInv'
<1>1. /\ step = "drop" /\ packets[target] # <<>> /\ Fanout!Release(Head(packets[target]))
      /\ packets' = [packets EXCEPT ![target] = Tail(@)]
      /\ step' \in {"drop", "retry"}
      /\ UNCHANGED <<holder, batch, todo, target, generation, subs, chan, hand, afterConfig,
           arrived>>
  BY DEF Fanout!DropQueued, Fanout!cache, Fanout!bounds
<1>2. holder = "offer" /\ target \in Subscribers /\ chan[target] = "open"
  <2>1. holder # "nobody" /\ holder # "replay"
    BY <1>1 DEF FanoutIInv, Serving
  <2>2. QED
    BY <2>1, TargetFacts
<1>3. Head(packets[target]) \in Fanout!Packet /\ packets' \in [Subscribers -> Seq(Fanout!Packet)]
  BY <1>1, <1>2, TakenFacts DEF FanoutIInv
<1>4. FanoutTypeOK'
  BY <1>1, <1>3, ReleaseFacts DEF FanoutIInv, FanoutTypeOK
<1>5. Channels'
  BY <1>1, <1>2 DEF FanoutIInv, Channels, FanoutTypeOK
<1>6. Serving'
  BY <1>1, <1>2 DEF FanoutIInv, Serving
<1>7. Replaying'
  BY <1>1, <1>2 DEF Replaying
<1>8. Counted'
  BY <1>1, <1>2, TakenAndReleased DEF FanoutIInv
<1>9. QED
  BY <1>4, <1>5, <1>6, <1>7, <1>8 DEF FanoutIInv

LEMMA ClearKeeps ==
  ASSUME Fanout!FanoutAssumption, FanoutIInv, Fanout!Clear
  PROVE  FanoutIInv'
<1>1. CASE packets[target] = <<>>
  BY <1>1, StepGoesOn
<1>2. CASE packets[target] # <<>>
  <2>1. /\ step = "clear" /\ Fanout!Release(Head(packets[target]))
        /\ packets' = [packets EXCEPT ![target] = Tail(@)]
        /\ UNCHANGED <<holder, batch, todo, target, step, generation, subs, chan, hand,
                       afterConfig, arrived>>
    BY <1>2 DEF Fanout!Clear, Fanout!cache, Fanout!bounds
  <2>2. holder = "replay" /\ target \in Subscribers /\ chan[target] = "open"
    <3>1. holder # "nobody" /\ holder # "offer"
      BY <2>1 DEF FanoutIInv, Serving
    <3>2. QED
      BY <3>1, TargetFacts
  <2>3. Head(packets[target]) \in Fanout!Packet
        /\ packets' \in [Subscribers -> Seq(Fanout!Packet)]
    BY <1>2, <2>1, <2>2, TakenFacts DEF FanoutIInv
  <2>4. FanoutTypeOK'
    BY <2>1, <2>3, ReleaseFacts DEF FanoutIInv, FanoutTypeOK
  <2>5. Channels'
    BY <2>1, <2>2 DEF FanoutIInv, Channels, FanoutTypeOK
  <2>6. Serving'
    BY <2>1, <2>2 DEF FanoutIInv, Serving
  <2>7. Replaying'
    BY <2>1, <2>2 DEF FanoutIInv, Replaying, Fanout!KeyFramePair, Fanout!Copy
  <2>8. Counted'
    BY <1>2, <2>1, <2>2, TakenAndReleased DEF FanoutIInv
  <2>9. QED
    BY <2>4, <2>5, <2>6, <2>7, <2>8 DEF FanoutIInv
<1>3. QED
  BY <1>1, <1>2

\* The packet is a place more, and one less that waits for it.
LEMMA SendKeeps ==
  ASSUME Fanout!FanoutAssumption, FanoutIInv, Fanout!Send
  PROVE  FanoutIInv'
<1> DEFINE p == Head(batch)
<1>1. /\ holder # "nobody" /\ step \in {"send", "retry"} /\ Len(packets[target]) < ChannelCap
      /\ packets' = [packets EXCEPT ![target] = Append(@, p)]
      /\ UNCHANGED <<generation, subs, chan, hand, afterConfig, held, returned, arrived>>
      /\ Fanout!Offered
  BY DEF Fanout!Send, Fanout!cache, Fanout!bounds, Fanout!buffers
<1>2. /\ target \in Subscribers /\ chan[target] = "open" /\ p \in Fanout!Packet
      /\ packets[target] \in Seq(Fanout!Packet) /\ Len(packets[target]) \in Nat
      /\ holder = "offer" \/ holder = "replay"
      /\ holder = "replay" => p.buffer = 0
  BY <1>1, TargetFacts
<1>3. /\ packets' \in [Subscribers -> Seq(Fanout!Packet)]
      /\ packets'[target] = Append(packets[target], p)
  <2>1. Append(packets[target], p) \in Seq(Fanout!Packet)
    BY <1>2, AppendFacts
  <2>2. QED
    BY <1>1, <1>2, <2>1 DEF FanoutIInv, FanoutTypeOK
<1>4. Channels'
  BY <1>1, <1>2 DEF FanoutIInv, Channels, FanoutTypeOK
<1>5. \/ /\ Tail(batch) # <<>> /\ batch' = Tail(batch) /\ step' = "send"
         /\ UNCHANGED <<holder, todo, target>>
      \/ /\ Tail(batch) = <<>> /\ todo = {} /\ todo' = {}
         /\ holder' = "nobody" /\ batch' = <<>> /\ step' = "send"
      \/ /\ Tail(batch) = <<>> /\ holder' = holder
         /\ \E s \in todo : target' = s /\ todo' = todo \ {s}
         /\ holder = "replay" => batch' = Fanout!KeyFramePair /\ step' = "reserve"
         /\ holder = "offer" => batch' = batch /\ step' = "send"
  BY <1>1, <1>2 DEF Fanout!Offered
<1>6. holder = "replay" =>
        \/ batch = Fanout!KeyFramePair /\ p = Fanout!Copy("config")
           /\ Tail(batch) = <<Fanout!Copy("key")>>
           /\ Len(packets[target]) + 2 <= ChannelCap
        \/ batch = <<Fanout!Copy("key")>> /\ p = Fanout!Copy("key") /\ Tail(batch) = <<>>
  <2>1. step = "retry" => holder # "replay"
    BY DEF FanoutIInv, Serving
  <2>2. QED
    BY <1>1, <2>1, CopyFacts DEF FanoutIInv, Replaying, FanoutTypeOK
<1>7. holder = "offer" => Tail(batch) = <<>> /\ p.buffer \in 1..arrived
  BY DEF FanoutIInv, Serving
<1>8. batch' \in Seq(Fanout!Packet)
  <2>1. <<>> \in Seq(Fanout!Packet)
    OBVIOUS
  <2>2. Tail(batch) # <<>> => Tail(batch) \in Seq(Fanout!Packet)
    BY <1>1, TailFacts DEF FanoutIInv, Serving, FanoutTypeOK
  <2>3. QED
    BY <1>2, <1>5, <2>1, <2>2, CopyFacts DEF FanoutIInv, FanoutTypeOK
<1>9. FanoutTypeOK'
  BY <1>1, <1>2, <1>3, <1>5, <1>8 DEF FanoutIInv, FanoutTypeOK
<1>10. holder' # "nobody" => batch' # <<>>
  BY <1>1, <1>2, <1>5, CopyFacts DEF FanoutIInv, Serving, FanoutTypeOK
<1>11. Serving'
  <2>1. holder' # "nobody" => target' \in subs' /\ todo' \subseteq subs'
    BY <1>1, <1>5 DEF FanoutIInv, Serving
  <2>2. holder' = "nobody" => step' = "send"
    BY <1>1, <1>5
  <2>3. holder' = "offer" =>
          /\ Tail(batch') = <<>> /\ Head(batch').buffer \in 1..arrived'
          /\ step' \in {"send", "drop", "retry"}
    BY <1>1, <1>2, <1>5, <1>7
  <2>4. holder' = "replay" => step' \in {"reserve", "clear", "send"}
    BY <1>1, <1>2, <1>5
  <2>5. QED
    BY <1>10, <2>1, <2>2, <2>3, <2>4 DEF Serving
<1>12. Replaying'
  <2>1. /\ Fanout!KeyFramePair' = Fanout!KeyFramePair /\ Fanout!Copy("key")' = Fanout!Copy("key")
        /\ Fanout!Copy("config")' = Fanout!Copy("config")
    BY <1>1 DEF Fanout!KeyFramePair, Fanout!Copy
  <2>2. SUFFICES ASSUME holder' = "replay"
                 PROVE  \/ batch' = Fanout!KeyFramePair /\ step' # "send"
                        \/ /\ batch' = <<Fanout!Copy("key")>> /\ step' = "send"
                           /\ Len(packets'[target']) < ChannelCap
                           /\ packets'[target'] # <<>>
                           /\ packets'[target'][Len(packets'[target'])] = Fanout!Copy("config")
    BY <2>1 DEF Replaying
  <2>3. holder = "replay"
    BY <1>1, <1>5, <2>2
  <2>4. CASE Tail(batch) = <<>>
    BY <1>5, <2>2, <2>3, <2>4
  <2>5. CASE Tail(batch) # <<>>
    <3>1. /\ p = Fanout!Copy("config") /\ batch' = <<Fanout!Copy("key")>> /\ step' = "send"
          /\ target' = target /\ Len(packets[target]) + 2 <= ChannelCap
      BY <1>5, <1>6, <2>3, <2>5
    <3>2. /\ Len(packets'[target]) = Len(packets[target]) + 1
          /\ packets'[target][Len(packets[target]) + 1] = p
          /\ packets'[target] # <<>>
      BY <1>2, <1>3, AppendFacts
    <3>3. QED
      BY <1>2, <3>1, <3>2 DEF Fanout!FanoutAssumption
  <2>6. QED
    BY <2>4, <2>5
<1>13. Counted'
  <2>1. SUFFICES ASSUME NEW b \in Fanout!Buffers
                 PROVE  IsFiniteSet(Fanout!Places(packets', b))
                        /\ Fanout!References(b)' = Fanout!References(b)
    BY <1>1, CountedFrame DEF FanoutIInv
  <2>2. IsFiniteSet(Fanout!Places(packets, b)) /\ b # 0
    BY DEF FanoutIInv, Counted, Fanout!Buffers
  <2>3. /\ Cardinality(Fanout!Places(packets, b)) \in Nat
        /\ Cardinality(Fanout!Readers(b)) \in Nat
        /\ IsFiniteSet(todo) /\ Cardinality(todo) \in Nat
    BY <2>2, ReferencesType DEF FanoutIInv
  <2>4. /\ IsFiniteSet(Fanout!Places(packets', b))
        /\ p.buffer = b =>
             Cardinality(Fanout!Places(packets', b)) = Cardinality(Fanout!Places(packets, b)) + 1
        /\ p.buffer # b =>
             Cardinality(Fanout!Places(packets', b)) = Cardinality(Fanout!Places(packets, b))
    <3>1. /\ packets \in [Subscribers -> Seq(Fanout!Packet)] /\ target \in Subscribers
          /\ p \in Fanout!Packet
          /\ packets' = [packets EXCEPT ![target] = Append(@, p)]
      BY <1>1, <1>2 DEF FanoutIInv, FanoutTypeOK
    <3> HIDE DEF p
    <3>2. PICK q : q = packets
      OBVIOUS
    <3>3. PICK r : r = packets'
      OBVIOUS
    <3>4. PICK e \in Fanout!Packet : e = p
      BY <3>1
    <3>5. q \in [Subscribers -> Seq(Fanout!Packet)] /\ IsFiniteSet(Fanout!Places(q, b))
      BY <2>2, <3>1, <3>2
    <3>6. r = Put(q, target, e) /\ target \in Subscribers
      BY <3>1, <3>2, <3>3, <3>4 DEF Put
    <3>7. /\ IsFiniteSet(Fanout!Places(r, b))
          /\ e.buffer = b =>
               Cardinality(Fanout!Places(r, b)) = Cardinality(Fanout!Places(q, b)) + 1
          /\ e.buffer # b => Cardinality(Fanout!Places(r, b)) = Cardinality(Fanout!Places(q, b))
      BY <3>5, <3>6, PlacesPut
    <3>8. QED
      BY <3>2, <3>3, <3>4, <3>7
  <2>5. Fanout!Readers(b)' = Fanout!Readers(b)
    BY <1>1 DEF Fanout!Readers
  <2>6. CASE p.buffer # b \/ holder = "replay"
    <3>1. Fanout!Awaiting(b) = 0 /\ Fanout!Awaiting(b)' = 0
      BY <1>2, <1>5, <1>7, <2>6, Sizes DEF Fanout!Awaiting
    <3>2. p.buffer # b
      BY <1>2, <2>2, <2>6
    <3>3. QED
      BY <2>3, <2>4, <2>5, <3>1, <3>2, Sizes DEF Fanout!References
  <2>7. CASE p.buffer = b /\ holder = "offer"
    <3>1. Fanout!Awaiting(b) = 1 + Cardinality(todo)
      BY <2>7, Sizes DEF Fanout!Awaiting
    <3>2. Fanout!Awaiting(b)' = Cardinality(todo)
      <4>1. CASE todo = {} /\ holder' = "nobody"
        BY <4>1, FS_EmptySet, Sizes DEF Fanout!Awaiting
      <4>2. ASSUME NEW s \in todo, todo' = todo \ {s}, holder' = "offer", batch' = batch
            PROVE  Fanout!Awaiting(b)' = Cardinality(todo)
        <5>1. Cardinality(todo') = Cardinality(todo) - 1
          BY <2>3, <4>2, FS_RemoveElement
        <5>2. Fanout!Awaiting(b)' = 1 + Cardinality(todo')
          BY <2>7, <4>2, Sizes DEF Fanout!Awaiting
        <5>3. QED
          BY <2>3, <5>1, <5>2
      <4>3. QED
        BY <1>5, <1>7, <2>7, <4>1, <4>2
    <3> HIDE DEF p
    <3>3. QED
      BY <2>3, <2>4, <2>5, <2>7, <3>1, <3>2, Sizes DEF Fanout!References
  <2>8. QED
    BY <1>2, <2>6, <2>7
<1>14. QED
  BY <1>4, <1>9, <1>11, <1>12, <1>13 DEF FanoutIInv

---------------------------------------------------------------------------
(* The fan-out: the steps that begin an offer or a replay                  *)

LEMMA ReplayKeeps ==
  ASSUME Fanout!FanoutAssumption, FanoutIInv, Fanout!Replay
  PROVE  FanoutIInv'
<1>1. /\ holder = "nobody" /\ holder' = "replay" /\ step' = "reserve"
      /\ batch' = Fanout!KeyFramePair
      /\ \E s \in subs : target' = s /\ todo' = subs \ {s}
      /\ UNCHANGED <<generation, keyFrame, subs, packets, chan, hand, afterConfig,
                     held, returned, arrived>>
  BY DEF Fanout!Replay, Fanout!Lock, Fanout!cache, Fanout!buffers
<1>2. Fanout!KeyFramePair \in Seq(Fanout!Packet) /\ Fanout!KeyFramePair # <<>>
  BY CopyFacts DEF FanoutIInv, FanoutTypeOK
<1>3. FanoutTypeOK' /\ Channels' /\ Serving'
  BY <1>1, <1>2 DEF FanoutIInv, FanoutTypeOK, Channels, Serving
<1>4. Replaying'
  BY <1>1 DEF Replaying, Fanout!KeyFramePair, Fanout!Copy
<1>5. Counted'
  BY <1>1, Sizes DEF FanoutIInv, Counted, Fanout!References, Fanout!Readers, Fanout!Awaiting
<1>6. QED
  BY <1>3, <1>4, <1>5 DEF FanoutIInv

LEMMA ArriveKeeps ==
  ASSUME Fanout!FanoutAssumption, FanoutIInv, NEW kind \in {"config", "key", "delta"},
         Fanout!Arrive(kind)
  PROVE  FanoutIInv'
<1> DEFINE n == arrived + 1
           packet == [kind |-> kind, gen |-> Fanout!Generation(kind), buffer |-> n]
<1>1. /\ holder = "nobody" /\ arrived < MaxPackets /\ arrived' = n
      /\ \/ /\ returned' = [returned EXCEPT ![n] = 1]
            /\ UNCHANGED <<held, holder, batch, todo, target, step>>
         \/ /\ held' = [held EXCEPT ![n] = Cardinality(subs)]
            /\ holder' = "offer" /\ step' = "send" /\ batch' = <<packet>>
            /\ \E s \in subs : target' = s /\ todo' = subs \ {s}
            /\ UNCHANGED returned
      /\ generation' \in {generation, Fanout!Generation(kind)}
      /\ UNCHANGED <<subs, packets, chan, hand, afterConfig>>
  BY Sizes DEF Fanout!Arrive, Fanout!Lock
<1>2. n \in Fanout!Buffers /\ arrived \in Nat /\ n \in Nat /\ MaxPackets \in Nat /\ n > arrived
  BY <1>1 DEF FanoutIInv, FanoutTypeOK, Fanout!Buffers, Fanout!FanoutAssumption
<1>3. Fanout!Generation(kind) \in Nat
  BY DEF FanoutIInv, FanoutTypeOK, Fanout!Generation
<1>4. packet \in Fanout!Packet
  BY <1>2, <1>3 DEF Fanout!Packet, Fanout!Buffers
<1>5. <<packet>> \in Seq(Fanout!Packet) /\ Tail(<<packet>>) = <<>> /\ Head(<<packet>>) = packet
      /\ <<packet>> # <<>> /\ packet.buffer = n
  BY <1>4
<1>6. IsFiniteSet(subs) /\ Cardinality(subs) \in Nat
  <2>1. subs \in SUBSET Subscribers
    BY DEF FanoutIInv, FanoutTypeOK
  <2>2. QED
    BY <2>1, FS_Subset, FS_CardinalityType, Sizes DEF Fanout!FanoutAssumption
<1>7. /\ n \in 1..n /\ n \in 0..MaxPackets
      /\ \A b \in Fanout!Buffers : b # n => (b <= n <=> b <= arrived) /\ (b > n => b > arrived)
  BY <1>1, <1>2 DEF Fanout!Buffers
<1> HIDE DEF packet, n
<1>8. FanoutTypeOK'
  <2>1. /\ held' \in [Fanout!Buffers -> Nat] /\ returned' \in [Fanout!Buffers -> Nat]
        /\ generation' \in Nat
    BY <1>1, <1>2, <1>3, <1>6 DEF FanoutIInv, FanoutTypeOK
  <2>2. /\ holder' \in {"nobody", "offer", "replay"} /\ batch' \in Seq(Fanout!Packet)
        /\ todo' \subseteq Subscribers
        /\ step' \in {"reserve", "clear", "send", "drop", "retry"}
    BY <1>1, <1>5 DEF FanoutIInv, FanoutTypeOK
  <2>3. QED
    BY <1>1, <1>7, <2>1, <2>2 DEF FanoutIInv, FanoutTypeOK
<1>9. Channels'
  BY <1>1 DEF FanoutIInv, Channels
<1>10. Serving' /\ Replaying'
  BY <1>1, <1>5, <1>7 DEF FanoutIInv, Serving, Replaying
<1>11. Counted'
  <2>1. SUFFICES ASSUME NEW b \in Fanout!Buffers
                 PROVE  /\ IsFiniteSet(Fanout!Places(packets, b))
                        /\ held'[b] = Fanout!References(b)'
                        /\ returned'[b] = IF b <= n /\ Fanout!References(b)' = 0 THEN 1 ELSE 0
                        /\ b > n => Fanout!References(b)' = 0
    BY <1>1 DEF Counted
  <2>2. /\ IsFiniteSet(Fanout!Places(packets, b))
        /\ held[b] = Fanout!References(b)
        /\ returned[b] = IF b <= arrived /\ Fanout!References(b) = 0 THEN 1 ELSE 0
        /\ b > arrived => Fanout!References(b) = 0
    BY DEF FanoutIInv, Counted
  <2>3. /\ Cardinality(Fanout!Places(packets, b)) \in Nat
        /\ Cardinality(Fanout!Readers(b)) \in Nat
        /\ Fanout!Awaiting(b) = 0
        /\ Fanout!References(b) =
             Cardinality(Fanout!Places(packets, b)) + Cardinality(Fanout!Readers(b))
    <3>1. Cardinality(Fanout!Places(packets, b)) \in Nat /\ Cardinality(Fanout!Readers(b)) \in Nat
      BY <2>2, ReferencesType DEF FanoutIInv
    <3>2. Fanout!Awaiting(b) = 0
      BY <1>1, Sizes DEF Fanout!Awaiting
    <3>3. QED
      BY <3>1, <3>2, Sizes DEF Fanout!References
  <2>4. Fanout!References(b)' =
            Cardinality(Fanout!Places(packets, b)) + Cardinality(Fanout!Readers(b)) +
                Fanout!Awaiting(b)'
    <3>1. Fanout!Readers(b)' = Fanout!Readers(b)
      BY <1>1 DEF Fanout!Readers
    <3>2. QED
      BY <1>1, <3>1, Sizes DEF Fanout!References
  <2>5. CASE b # n
    <3>1. Fanout!Awaiting(b)' = 0
      BY <1>1, <1>5, <2>5, Sizes DEF Fanout!Awaiting
    <3>2. Fanout!References(b)' = Fanout!References(b)
      BY <2>3, <2>4, <3>1
    <3>3. held'[b] = held[b] /\ returned'[b] = returned[b]
      BY <1>1, <2>5 DEF FanoutIInv, FanoutTypeOK
    <3>4. QED
      BY <1>7, <2>2, <2>5, <3>2, <3>3
  <2>6. CASE b = n
    <3>1. Fanout!References(b) = 0 /\ Fanout!References(b)' = Fanout!Awaiting(b)'
      <4>1. Fanout!References(b) = 0 /\ Fanout!Awaiting(b)' \in Nat
        <5>1. Fanout!Awaiting(b)' \in Nat
          <6>1. todo' \in SUBSET Subscribers
            BY <1>8 DEF FanoutTypeOK
          <6>2. IsFiniteSet(todo') /\ Cardinality(todo') \in Nat
            BY <6>1, FS_Subset, FS_CardinalityType, Sizes DEF Fanout!FanoutAssumption
          <6>3. QED
            BY <6>2, Sizes DEF Fanout!Awaiting
        <5>2. QED
          BY <1>2, <2>2, <2>6, <5>1
      <4>2. QED
        BY <2>3, <2>4, <4>1
    <3>2. held[b] = 0 /\ returned[b] = 0 /\ ~(b <= arrived) /\ b <= n /\ ~(b > n)
      BY <1>2, <2>2, <2>6, <3>1
    <3>3. CASE returned' = [returned EXCEPT ![n] = 1] /\ UNCHANGED <<held, holder>>
      <4>1. Fanout!Awaiting(b)' = 0
        BY <1>1, <3>3, Sizes DEF Fanout!Awaiting
      <4>2. returned'[b] = 1 /\ held'[b] = 0
        BY <2>6, <3>2, <3>3 DEF FanoutIInv, FanoutTypeOK
      <4>3. QED
        BY <2>2, <3>1, <3>2, <4>1, <4>2
    <3>4. CASE /\ held' = [held EXCEPT ![n] = Cardinality(subs)]
               /\ holder' = "offer" /\ batch' = <<packet>>
               /\ \E s \in subs : target' = s /\ todo' = subs \ {s}
               /\ UNCHANGED returned
      <4>1. PICK s \in subs : todo' = subs \ {s}
        BY <3>4
      <4>2. Cardinality(todo') = Cardinality(subs) - 1 /\ Cardinality(subs) # 0
        BY <1>6, <4>1, FS_RemoveElement, FS_EmptySet
      <4>3. Fanout!Awaiting(b)' = 1 + Cardinality(todo')
        BY <1>5, <2>6, <3>4, Sizes DEF Fanout!Awaiting
      <4>4. Fanout!Awaiting(b)' = Cardinality(subs)
        BY <1>6, <4>2, <4>3
      <4>5. held'[b] = Cardinality(subs) /\ returned'[b] = 0
        BY <2>6, <3>2, <3>4 DEF FanoutIInv, FanoutTypeOK
      <4>6. QED
        BY <2>2, <3>1, <3>2, <4>2, <4>4, <4>5
    <3>5. QED
      BY <1>1, <3>3, <3>4
  <2>7. QED
    BY <2>5, <2>6
<1>12. QED
  BY <1>8, <1>9, <1>10, <1>11 DEF FanoutIInv

---------------------------------------------------------------------------
(* The fan-out: the steps of the subscribers, and the close                *)

\* The channel starts with copies, which nobody releases.
LEMMA SubscribeKeeps ==
  ASSUME Fanout!FanoutAssumption, FanoutIInv, NEW s \in Subscribers, Fanout!Subscribe(s)
  PROVE  FanoutIInv'
<1>1. /\ chan[s] = "none" /\ holder = "nobody"
      /\ subs' = subs \cup {s} /\ chan' = [chan EXCEPT ![s] = "open"]
      /\ packets' = [packets EXCEPT ![s] = Fanout!Warm]
      /\ UNCHANGED <<holder, batch, todo, target, step, generation, hand, afterConfig,
                     held, returned, arrived>>
      /\ running' = [running EXCEPT ![s] = TRUE]
  BY DEF Fanout!Subscribe, Fanout!offering, Fanout!cache, Fanout!buffers, Fanout!bounds
<1>2. Fanout!Warm \in Seq(Fanout!Packet)
      /\ \A i \in DOMAIN Fanout!Warm : Fanout!Warm[i].buffer = 0
  <2> DEFINE A == IF generation > 0 THEN <<Fanout!Copy("config")>> ELSE <<>>
             B == IF generation > 0 /\ keyFrame = generation THEN <<Fanout!Copy("key")>> ELSE <<>>
  <2>1. \A kind \in {"config", "key"} : Fanout!Copy(kind) \in Fanout!Packet
            /\ Fanout!Copy(kind).buffer = 0
    BY CopyFacts DEF FanoutIInv, FanoutTypeOK
  <2>2. A \in Seq(Fanout!Packet) /\ \A i \in DOMAIN A : A[i].buffer = 0
    BY <2>1
  <2>3. B \in Seq(Fanout!Packet) /\ \A i \in DOMAIN B : B[i].buffer = 0
    BY <2>1
  <2>4. Fanout!Warm = A \o B
    BY DEF Fanout!Warm
  <2> HIDE DEF A, B
  <2>5. A \o B \in Seq(Fanout!Packet)
    BY <2>2, <2>3
  <2>6. ASSUME NEW i \in DOMAIN (A \o B) PROVE (A \o B)[i].buffer = 0
    <3>1. /\ Len(A) \in Nat /\ Len(B) \in Nat /\ i \in 1..(Len(A) + Len(B))
          /\ DOMAIN A = 1..Len(A) /\ DOMAIN B = 1..Len(B)
      BY <2>2, <2>3
    <3>2. CASE i <= Len(A)
      <4>1. i \in DOMAIN A /\ (A \o B)[i] = A[i]
        BY <2>2, <2>3, <3>1, <3>2
      <4>2. QED
        BY <2>2, <4>1
    <3>3. CASE ~(i <= Len(A))
      <4>1. i - Len(A) \in DOMAIN B /\ (A \o B)[i] = B[i - Len(A)]
        BY <2>2, <2>3, <3>1, <3>3
      <4>2. QED
        BY <2>3, <4>1
    <3>4. QED
      BY <3>2, <3>3
  <2>7. QED
    BY <2>4, <2>5, <2>6
<1>3. packets[s] = <<>>
  BY <1>1 DEF FanoutIInv, Channels
<1>4. FanoutTypeOK'
  BY <1>1, <1>2 DEF FanoutIInv, FanoutTypeOK
<1>5. Channels'
  BY <1>1 DEF FanoutIInv, Channels, FanoutTypeOK
<1>6. Serving' /\ Replaying'
  BY <1>1 DEF FanoutIInv, Serving, Replaying
<1>7. Counted'
  <2>1. ASSUME NEW b \in Fanout!Buffers
        PROVE  IsFiniteSet(Fanout!Places(packets', b))
               /\ Fanout!References(b)' = Fanout!References(b)
    <3>1. b # 0
      BY DEF Fanout!Buffers
    <3>2. packets \in [Subscribers -> Seq(Fanout!Packet)]
      BY DEF FanoutIInv, FanoutTypeOK
    <3>3. Fanout!Places(packets', b) = Fanout!Places(packets, b)
      <4>1. ASSUME NEW t, NEW i PROVE At(packets', b, t, i) <=> At(packets, b, t, i)
        <5>1. CASE t = s
          <6>1. packets'[s] = Fanout!Warm
            BY <1>1, <3>2
          <6>2. ~At(packets', b, t, i) /\ ~At(packets, b, t, i)
            BY <1>2, <1>3, <3>1, <5>1, <6>1 DEF At
          <6>3. QED
            BY <6>2
        <5>2. CASE t # s
          <6>1. t \in Subscribers => packets'[t] = packets[t]
            BY <1>1, <3>2, <5>2
          <6>2. QED
            BY <6>1 DEF At
        <5>3. QED
          BY <5>1, <5>2
      <4>2. QED
        BY <4>1, SamePlaces
    <3>4. Fanout!Readers(b)' = Fanout!Readers(b) /\ Fanout!Awaiting(b)' = Fanout!Awaiting(b)
      BY <1>1, Sizes DEF Fanout!Readers, Fanout!Awaiting
    <3>5. QED
      BY <3>3, <3>4, Sizes DEF Fanout!References, FanoutIInv, Counted
  <2>2. QED
    BY <1>1, <2>1, CountedFrame DEF FanoutIInv
<1>8. QED
  BY <1>4, <1>5, <1>6, <1>7 DEF FanoutIInv

\* The packet goes from the channel to the subscriber.
LEMMA TakeKeeps ==
  ASSUME Fanout!FanoutAssumption, FanoutIInv, NEW s \in Subscribers, Fanout!Take(s)
  PROVE  FanoutIInv'
<1> DEFINE p == Head(packets[s])
<1>1. /\ hand[s] = None /\ packets[s] # <<>>
      /\ hand' = [hand EXCEPT ![s] = p]
      /\ afterConfig' = [afterConfig EXCEPT ![s] = IF p.kind = "config" THEN p.gen ELSE 0]
      /\ packets' = [packets EXCEPT ![s] = Tail(@)]
      /\ UNCHANGED <<holder, batch, todo, target, step, generation, subs, chan, running,
                     held, returned, arrived>>
  BY DEF Fanout!Take, Fanout!offering, Fanout!cache, Fanout!buffers, Fanout!bounds
<1>2. p \in Fanout!Packet /\ packets' \in [Subscribers -> Seq(Fanout!Packet)]
      /\ packets[s] \in Seq(Fanout!Packet)
  BY <1>1, TakenFacts DEF FanoutIInv, FanoutTypeOK
<1>3. p.gen \in Nat /\ p # None
  BY <1>2 DEF Fanout!Packet, Fanout!FanoutAssumption
<1> HIDE DEF p
<1>4. FanoutTypeOK'
  BY <1>1, <1>2, <1>3 DEF FanoutIInv, FanoutTypeOK
<1>5. Channels'
  BY <1>1 DEF FanoutIInv, Channels, FanoutTypeOK
<1>6. Serving'
  BY <1>1 DEF FanoutIInv, Serving
<1>7. Replaying'
  <2>1. SUFFICES ASSUME holder = "replay" PROVE Replaying'
    BY <1>1 DEF Replaying
  <2>2. Fanout!KeyFramePair' = Fanout!KeyFramePair /\ Fanout!Copy("key")' = Fanout!Copy("key")
        /\ Fanout!Copy("config")' = Fanout!Copy("config")
    BY <1>1 DEF Fanout!KeyFramePair, Fanout!Copy
  <2>3. target \in Subscribers
    BY <2>1, TargetFacts
  <2>4. CASE s # target
    <3>1. packets'[target] = packets[target] /\ afterConfig'[target] = afterConfig[target]
      BY <1>1, <2>3, <2>4 DEF FanoutIInv, FanoutTypeOK
    <3>2. QED
      BY <1>1, <2>1, <2>2, <3>1 DEF FanoutIInv, Replaying
  <2>5. CASE s = target
    <3>1. /\ packets'[s] = Tail(packets[s]) /\ Len(packets[s]) \in Nat /\ 0 < Len(packets[s])
          /\ Len(Tail(packets[s])) = Len(packets[s]) - 1
          /\ p = packets[s][1]
          /\ \A i \in 1..(Len(packets[s]) - 1) : Tail(packets[s])[i] = packets[s][i + 1]
      BY <1>1, <1>2, TailFacts DEF FanoutIInv, FanoutTypeOK, p
    <3>2. ChannelCap \in Nat
      BY DEF Fanout!FanoutAssumption
    <3>3. CASE batch = Fanout!KeyFramePair
               /\ (step = "send" => Len(packets[target]) + 2 <= ChannelCap)
      <4>1. Len(packets'[s]) \in Nat /\ Len(packets'[s]) + 1 = Len(packets[s])
        BY <3>1
      <4>2. step = "send" => Len(packets'[s]) + 2 <= ChannelCap
        BY <2>5, <3>2, <3>3, <4>1
      <4>3. QED
        BY <1>1, <2>2, <2>5, <3>3, <4>2 DEF Replaying
    <3>4. CASE /\ batch = <<Fanout!Copy("key")>> /\ step = "send"
               /\ Len(packets[target]) < ChannelCap
               /\ IF packets[target] = <<>> THEN afterConfig[target] = generation
                  ELSE packets[target][Len(packets[target])] = Fanout!Copy("config")
      <4>1. packets[s][Len(packets[s])] = Fanout!Copy("config")
        BY <1>1, <2>5, <3>4
      <4>2. Len(packets'[s]) < ChannelCap
        BY <2>5, <3>1, <3>2, <3>4
      <4>3. CASE Len(packets[s]) = 1
        <5>1. p = Fanout!Copy("config") /\ p.kind = "config" /\ p.gen = generation
          BY <3>1, <4>1, <4>3, CopyFacts DEF FanoutIInv, FanoutTypeOK
        <5>2. afterConfig'[s] = generation
          BY <1>1, <5>1 DEF FanoutIInv, FanoutTypeOK
        <5>3. packets'[s] = <<>>
          BY <1>2, <3>1, <4>3
        <5>4. QED
          BY <1>1, <2>2, <2>5, <3>4, <4>2, <5>2, <5>3 DEF Replaying
      <4>4. CASE Len(packets[s]) # 1
        <5> DEFINE k == Len(packets[s])
        <5>0. k \in Nat /\ 0 < k /\ k # 1 /\ Len(packets'[s]) = k - 1
          BY <3>1, <4>4
        <5> HIDE DEF k
        <5>a. k - 1 \in 1..(k - 1) /\ (k - 1) + 1 = k
          BY <5>0
        <5>1. Len(packets'[s]) \in 1..(Len(packets[s]) - 1)
              /\ Len(packets'[s]) + 1 = Len(packets[s])
          BY <5>0, <5>a DEF k
        <5>2. packets'[s][Len(packets'[s])] = Fanout!Copy("config")
          BY <3>1, <4>1, <5>1
        <5>3. packets'[s] # <<>>
          <6>1. Len(packets'[s]) # 0
            BY <5>1
          <6>2. Len(<<>>) = 0
            OBVIOUS
          <6>3. QED
            BY <6>1, <6>2
        <5>4. QED
          BY <1>1, <2>2, <2>5, <3>4, <4>2, <5>2, <5>3 DEF Replaying
      <4>5. QED
        BY <4>3, <4>4
    <3>5. QED
      BY <2>1, <3>3, <3>4 DEF FanoutIInv, Replaying
  <2>6. QED
    BY <2>4, <2>5
<1>8. Counted'
  <2>1. ASSUME NEW b \in Fanout!Buffers
        PROVE  IsFiniteSet(Fanout!Places(packets', b))
               /\ Fanout!References(b)' = Fanout!References(b)
    <3>1. Fanout!Awaiting(b)' = Fanout!Awaiting(b)
      BY <1>1, Sizes DEF Fanout!Awaiting
    <3>2. /\ Cardinality(Fanout!Places(packets, b)) \in Nat /\ IsFiniteSet(Fanout!Readers(b))
          /\ Cardinality(Fanout!Readers(b)) \in Nat /\ Fanout!Awaiting(b) \in Nat
      BY ReferencesType DEF FanoutIInv, Counted
    <3>3. /\ IsFiniteSet(Fanout!Places(packets', b))
          /\ Cardinality(Fanout!Places(packets', b)) \in Nat
          /\ p.buffer = b =>
               Cardinality(Fanout!Places(packets, b)) =
                   Cardinality(Fanout!Places(packets', b)) + 1
          /\ p.buffer # b =>
               Cardinality(Fanout!Places(packets, b)) = Cardinality(Fanout!Places(packets', b))
      BY <1>1, TakenFacts DEF FanoutIInv, p
    <3>4. CASE p.buffer = b
      <4>1. Fanout!Readers(b)' = Fanout!Readers(b) \cup {s} /\ s \notin Fanout!Readers(b)
        BY <1>1, <1>3, <3>4 DEF FanoutIInv, FanoutTypeOK, Fanout!Readers
      <4>2. Cardinality(Fanout!Readers(b)') = Cardinality(Fanout!Readers(b)) + 1
        BY <3>2, <4>1, FS_AddElement
      <4>3. QED
        BY <3>1, <3>2, <3>3, <3>4, <4>2, Sizes DEF Fanout!References
    <3>5. CASE p.buffer # b
      <4>1. Fanout!Readers(b)' = Fanout!Readers(b)
        BY <1>1, <1>3, <3>5 DEF FanoutIInv, FanoutTypeOK, Fanout!Readers
      <4>2. QED
        BY <3>1, <3>2, <3>3, <3>5, <4>1, Sizes DEF Fanout!References
    <3>6. QED
      BY <3>4, <3>5
  <2>2. QED
    BY <1>1, <2>1, CountedFrame DEF FanoutIInv
<1>9. QED
  BY <1>4, <1>5, <1>6, <1>7, <1>8 DEF FanoutIInv

LEMMA HandledKeeps ==
  ASSUME Fanout!FanoutAssumption, FanoutIInv, NEW s \in Subscribers, Fanout!Handled(s)
  PROVE  FanoutIInv'
<1> DEFINE p == hand[s]
<1>1. /\ p # None /\ Fanout!Release(p) /\ hand' = [hand EXCEPT ![s] = None]
      /\ UNCHANGED <<holder, batch, todo, target, step, generation, subs, packets, chan,
           afterConfig,
                     running, arrived>>
  BY DEF Fanout!Handled, Fanout!offering, Fanout!cache, Fanout!bounds
<1>2. p \in Fanout!Packet
  BY <1>1 DEF FanoutIInv, FanoutTypeOK
<1> HIDE DEF p
<1>3. FanoutTypeOK'
  BY <1>1, <1>2, ReleaseFacts DEF FanoutIInv, FanoutTypeOK
<1>4. Channels' /\ Serving'
  BY <1>1 DEF FanoutIInv, Channels, Serving
<1>5. Replaying'
  BY <1>1 DEF FanoutIInv, Replaying, Fanout!KeyFramePair, Fanout!Copy
<1>6. Counted'
  <2>1. ASSUME NEW b \in Fanout!Buffers
        PROVE  /\ IsFiniteSet(Fanout!Places(packets', b)) /\ Fanout!References(b)' \in Nat
               /\ Fanout!References(b) = Fanout!References(b)' + (IF p.buffer = b THEN 1 ELSE 0)
    <3>1. Fanout!Awaiting(b)' = Fanout!Awaiting(b)
          /\ Fanout!Places(packets', b) = Fanout!Places(packets, b)
      BY <1>1, Sizes DEF Fanout!Awaiting
    <3>2. /\ IsFiniteSet(Fanout!Places(packets, b))
          /\ Cardinality(Fanout!Places(packets, b)) \in Nat /\ IsFiniteSet(Fanout!Readers(b))
          /\ Cardinality(Fanout!Readers(b)) \in Nat /\ Fanout!Awaiting(b) \in Nat
      BY ReferencesType DEF FanoutIInv, Counted
    <3>3. Fanout!Readers(b)' = Fanout!Readers(b) \ {s}
          /\ (s \in Fanout!Readers(b) <=> p.buffer = b)
      BY <1>1 DEF FanoutIInv, FanoutTypeOK, Fanout!Readers, p
    <3>4. /\ IsFiniteSet(Fanout!Readers(b)')
          /\ Cardinality(Fanout!Readers(b)') =
               IF s \in Fanout!Readers(b) THEN Cardinality(Fanout!Readers(b)) - 1
               ELSE Cardinality(Fanout!Readers(b))
      BY <3>2, <3>3, FS_RemoveElement
    <3>5. Cardinality(Fanout!Readers(b)') \in Nat
      BY <3>4, FS_CardinalityType
    <3>6. /\ Fanout!References(b)' =
               Cardinality(Fanout!Places(packets, b)) + Cardinality(Fanout!Readers(b)') +
                   Fanout!Awaiting(b)
          /\ Fanout!References(b) =
               Cardinality(Fanout!Places(packets, b)) + Cardinality(Fanout!Readers(b)) +
                   Fanout!Awaiting(b)
      BY <3>1, Sizes DEF Fanout!References
    <3>7. QED
      BY <3>1, <3>2, <3>3, <3>4, <3>5, <3>6
  <2>2. QED
    BY <1>1, <1>2, <2>1, CountedRelease DEF FanoutIInv
<1>7. QED
  BY <1>3, <1>4, <1>5, <1>6 DEF FanoutIInv

\* A channel that is closed is not one that is served.
LEMMA DrainChannelKeeps ==
  ASSUME Fanout!FanoutAssumption, FanoutIInv, NEW s \in Subscribers, Fanout!DrainChannel(s),
         packets[s] # <<>>
  PROVE  FanoutIInv'
<1>1. /\ chan[s] = "draining" /\ Fanout!Release(Head(packets[s]))
      /\ packets' = [packets EXCEPT ![s] = Tail(@)]
      /\ UNCHANGED <<holder, batch, todo, target, step, generation, subs, chan, hand, afterConfig,
                     running, arrived>>
  BY DEF Fanout!DrainChannel, Fanout!offering, Fanout!cache, Fanout!bounds
<1>2. Head(packets[s]) \in Fanout!Packet /\ packets' \in [Subscribers -> Seq(Fanout!Packet)]
  BY <1>1, TakenFacts DEF FanoutIInv
<1>3. FanoutTypeOK'
  BY <1>1, <1>2, ReleaseFacts DEF FanoutIInv, FanoutTypeOK
<1>4. Channels' /\ Serving'
  BY <1>1 DEF FanoutIInv, Channels, Serving, FanoutTypeOK
<1>5. Replaying'
  <2>1. holder = "replay" => packets'[target] = packets[target]
    BY <1>1, TargetFacts DEF FanoutIInv, FanoutTypeOK
  <2>2. QED
    BY <1>1, <2>1 DEF FanoutIInv, Replaying, Fanout!KeyFramePair, Fanout!Copy
<1>6. Counted'
  BY <1>1, TakenAndReleased DEF FanoutIInv
<1>7. QED
  BY <1>3, <1>4, <1>5, <1>6 DEF FanoutIInv

LEMMA ChannelsChange ==
  ASSUME FanoutIInv,
         \/ \E s \in Subscribers : Fanout!Unsubscribe(s) \/ Fanout!CloseChannel(s)
                               \/ (Fanout!DrainChannel(s) /\ packets[s] = <<>>)
         \/ Fanout!CloseRuntime \/ Fanout!CloseAll \/ UNCHANGED Fanout!vars
  PROVE  FanoutIInv'
<1>1. /\ UNCHANGED <<holder, batch, todo, target, step, generation, packets, hand, afterConfig,
                     held, returned, arrived>>
      /\ subs' = subs \/ holder = "nobody"
      /\ \/ \E s \in Subscribers :
              \/ /\ subs' = subs \ {s}
                 /\ chan' = [chan EXCEPT ![s] = IF s \in subs THEN "removed" ELSE @]
              \/ subs' = subs /\ chan[s] = "removed" /\ chan' = [chan EXCEPT ![s] = "draining"]
              \/ /\ subs' = subs /\ chan[s] = "draining" /\ packets[s] = <<>>
                 /\ chan' = [chan EXCEPT ![s] = "drained"]
         \/ subs' = subs /\ chan' = chan
         \/ subs' = {}
            /\ chan' = [s \in Subscribers |-> IF s \in subs THEN "removed" ELSE chan[s]]
  BY DEF Fanout!Unsubscribe, Fanout!CloseChannel, Fanout!DrainChannel, Fanout!CloseRuntime,
         Fanout!CloseAll, Fanout!vars, Fanout!offering, Fanout!cache, Fanout!buffers,
         Fanout!bounds
<1>2. FanoutTypeOK'
  BY <1>1 DEF FanoutIInv, FanoutTypeOK
<1>3. Channels'
  BY <1>1 DEF FanoutIInv, FanoutTypeOK, Channels
<1>4. Serving'
  BY <1>1 DEF FanoutIInv, Serving
<1>5. Replaying'
  BY <1>1 DEF FanoutIInv, Replaying, Fanout!KeyFramePair, Fanout!Copy
<1>6. Counted'
  BY <1>1, QuietFrame DEF FanoutIInv
<1>7. QED
  BY <1>2, <1>3, <1>4, <1>5, <1>6 DEF FanoutIInv

---------------------------------------------------------------------------
(* The fan-out: its theorems                                               *)

LEMMA FanoutIInvInit == ASSUME Fanout!FanoutAssumption, Fanout!Init PROVE FanoutIInv
<1>1. FanoutTypeOK
  <2>1. <<>> \in Seq(Fanout!Packet)
    OBVIOUS
  <2>2. QED
    BY <2>1 DEF Fanout!Init, FanoutTypeOK, Fanout!FanoutAssumption
<1>2. Channels /\ Serving /\ Replaying
  BY DEF Fanout!Init, Channels, Serving, Replaying
<1>3. Counted
  <2>1. ASSUME NEW b \in Fanout!Buffers
        PROVE  IsFiniteSet(Fanout!Places(packets, b)) /\ Fanout!References(b) = 0
    <3>1. ASSUME NEW x \in Fanout!Places(packets, b) PROVE FALSE
      <4>1. x[1] \in Subscribers /\ x[2] \in DOMAIN packets[x[1]]
        BY PlaceFacts DEF At
      <4>2. packets[x[1]] = <<>>
        BY <4>1 DEF Fanout!Init
      <4>3. QED
        BY <4>1, <4>2
    <3>2. Fanout!Places(packets, b) = {}
      BY <3>1
    <3>3. Fanout!Readers(b) = {} /\ Fanout!Awaiting(b) = 0
      BY Sizes DEF Fanout!Init, Fanout!Readers, Fanout!Awaiting
    <3>4. QED
      BY <3>2, <3>3, FS_EmptySet, Sizes DEF Fanout!References
  <2>2. \A b \in Fanout!Buffers : held[b] = 0 /\ returned[b] = 0 /\ ~(b <= arrived)
    BY DEF Fanout!Init, Fanout!Buffers, Fanout!FanoutAssumption
  <2>3. QED
    BY <2>1, <2>2 DEF Counted
<1>4. QED
  BY <1>1, <1>2, <1>3 DEF FanoutIInv

LEMMA FanoutIInvStep ==
  ASSUME Fanout!FanoutAssumption, FanoutIInv, [Fanout!Next]_(Fanout!vars)
  PROVE  FanoutIInv'
<1>1. CASE Fanout!Send
  BY <1>1, SendKeeps
<1>2. CASE Fanout!SendFull \/ Fanout!NothingQueued \/ Fanout!Reserve
  BY <1>2, StepGoesOn
<1>3. CASE Fanout!DropQueued
  BY <1>3, DropQueuedKeeps
<1>4. CASE Fanout!Clear
  BY <1>4, ClearKeeps
<1>5. ASSUME NEW kind \in {"config", "key", "delta"}, Fanout!Arrive(kind) PROVE FanoutIInv'
  BY <1>5, ArriveKeeps
<1>6. CASE Fanout!Replay
  BY <1>6, ReplayKeeps
<1>7. CASE Fanout!CloseRuntime \/ Fanout!CloseAll \/ UNCHANGED Fanout!vars
  BY <1>7, ChannelsChange
<1>8. ASSUME NEW s \in Subscribers, Fanout!Subscribe(s) PROVE FanoutIInv'
  BY <1>8, SubscribeKeeps
<1>9. ASSUME NEW s \in Subscribers, Fanout!Take(s) PROVE FanoutIInv'
  BY <1>9, TakeKeeps
<1>10. ASSUME NEW s \in Subscribers, Fanout!Handled(s) PROVE FanoutIInv'
  BY <1>10, HandledKeeps
<1>11. ASSUME NEW s \in Subscribers, Fanout!Unsubscribe(s) \/ Fanout!CloseChannel(s)
       PROVE  FanoutIInv'
  BY <1>11, ChannelsChange
<1>12. ASSUME NEW s \in Subscribers, Fanout!DrainChannel(s) PROVE FanoutIInv'
  <2>1. CASE packets[s] = <<>>
    BY <1>12, <2>1, ChannelsChange
  <2>2. CASE packets[s] # <<>>
    BY <1>12, <2>2, DrainChannelKeeps
  <2>3. QED
    BY <2>1, <2>2
<1>13. QED
  BY <1>1, <1>2, <1>3, <1>4, <1>5, <1>6, <1>7, <1>8, <1>9, <1>10, <1>11, <1>12
     DEF Fanout!Next, Fanout!Producer

LEMMA FanoutIInvAlways == ASSUME Fanout!FanoutAssumption PROVE Fanout!Spec => []FanoutIInv
<1>1. Fanout!Init => FanoutIInv
  BY FanoutIInvInit
<1>2. FanoutIInv /\ [Fanout!Next]_(Fanout!vars) => FanoutIInv'
  BY FanoutIInvStep
<1>3. QED
  BY <1>1, <1>2, PTL DEF Fanout!Spec

\* The buffer of a packet goes back to the pool once, exactly when no channel, no subscriber
\* and no offer refers to it any more, and no packet is sent on a channel that may be closed,
\* for any number of subscribers however they come, go and lag behind.
THEOREM BuffersAlwaysCounted ==
  ASSUME Fanout!FanoutAssumption
  PROVE  Fanout!Spec => [](Fanout!BuffersCounted /\ Fanout!ChannelsSafe)
<1>1. ASSUME FanoutIInv PROVE Fanout!BuffersCounted
  <2>1. ASSUME NEW b \in 1..arrived
        PROVE  /\ held[b] = Fanout!References(b)
               /\ returned[b] = IF Fanout!References(b) = 0 THEN 1 ELSE 0
    <3>1. b \in Fanout!Buffers /\ b <= arrived
      BY <1>1 DEF FanoutIInv, FanoutTypeOK, Fanout!Buffers, Fanout!FanoutAssumption
    <3>2. QED
      BY <1>1, <3>1 DEF FanoutIInv, Counted
  <2>2. QED
    BY <2>1 DEF Fanout!BuffersCounted
<1>2. FanoutIInv => Fanout!ChannelsSafe
  BY DEF FanoutIInv, Serving, Channels, Fanout!ChannelsSafe
<1>3. QED
  BY <1>1, <1>2, FanoutIInvAlways, PTL

\* Who replays goes on to the next subscriber only with the key frame, for which there is
\* room, directly behind its configuration, or at the head of an emptied channel when the
\* subscriber has just taken the configuration.
LEMMA ReplayStep ==
  ASSUME Fanout!FanoutAssumption, FanoutIInv, Fanout!Next, NEW s \in Subscribers,
         holder = "replay", target = s, target' # s
  PROVE  Fanout!AfterItsConfig(s)'
<1>1. Fanout!Send
  BY DEF Fanout!Next, Fanout!Producer, Fanout!SendFull, Fanout!NothingQueued, Fanout!Reserve,
         Fanout!Clear, Fanout!DropQueued, Fanout!Arrive, Fanout!Replay, Fanout!CloseRuntime,
         Fanout!CloseAll, Fanout!Subscribe, Fanout!Take, Fanout!Handled, Fanout!Unsubscribe,
         Fanout!CloseChannel, Fanout!DrainChannel, Fanout!offering
<1>2. /\ packets' = [packets EXCEPT ![s] = Append(@, Head(batch))]
      /\ UNCHANGED <<generation, afterConfig>>
      /\ Len(packets[s]) < ChannelCap /\ Fanout!Offered
  BY <1>1 DEF Fanout!Send, Fanout!cache
<1>3. Tail(batch) = <<>>
  BY <1>2 DEF Fanout!Offered
<1>4. batch = <<Fanout!Copy("key")>> /\ Head(batch) \in Fanout!Packet
  <2>1. batch # Fanout!KeyFramePair
    BY <1>3, CopyFacts DEF FanoutIInv, FanoutTypeOK
  <2>2. QED
    BY <2>1, TargetFacts DEF FanoutIInv, Replaying
<1>5. IF packets[s] = <<>> THEN afterConfig[s] = generation
      ELSE packets[s][Len(packets[s])] = Fanout!Copy("config")
  BY <1>4, CopyFacts DEF FanoutIInv, Replaying, FanoutTypeOK
<1> DEFINE n == Len(packets[s])
           p == Head(batch)
<1>6. /\ packets[s] \in Seq(Fanout!Packet) /\ n \in Nat
      /\ packets'[s] = Append(packets[s], p)
  BY <1>2 DEF FanoutIInv, FanoutTypeOK
<1>7. /\ Len(packets'[s]) = n + 1
      /\ \A i \in 1..n : packets'[s][i] = packets[s][i]
  BY <1>4, <1>6, AppendFacts
<1>8. Fanout!Copy("config")' = Fanout!Copy("config")
  BY <1>2 DEF Fanout!Copy
<1>9. CASE packets[s] = <<>>
  <2>1. n = 0
    BY <1>9
  <2>2. ~(Len(packets'[s]) > 1)
    BY <1>7, <2>1
  <2>3. QED
    BY <1>2, <1>5, <1>9, <2>2 DEF Fanout!AfterItsConfig
<1>10. CASE packets[s] # <<>>
  <2>1. 0 < n
    BY <1>6, <1>10, TailFacts
  <2>2. n \in 1..n /\ (n + 1) - 1 = n /\ n + 1 > 1
    BY <1>6, <2>1
  <2>3. packets'[s][n] = Fanout!Copy("config")
    BY <1>5, <1>7, <1>10, <2>2
  <2> HIDE DEF n
  <2>4. Len(packets'[s]) > 1 /\ packets'[s][Len(packets'[s]) - 1] = Fanout!Copy("config")
    BY <1>7, <2>2, <2>3
  <2>5. QED
    BY <1>8, <2>4 DEF Fanout!AfterItsConfig
<1>11. QED
  BY <1>9, <1>10

\* A key frame that is replayed directly follows its configuration at every subscriber,
\* also while the subscriber empties its channel.
THEOREM ReplayAlwaysIntact ==
  ASSUME Fanout!FanoutAssumption
  PROVE  Fanout!Spec => Fanout!ReplayIntact
<1>1. ASSUME FanoutIInv, [Fanout!Next]_(Fanout!vars)
      PROVE  [\A s \in Subscribers :
                holder = "replay" /\ target = s
                /\ target' # s => Fanout!AfterItsConfig(s)']_(Fanout!vars)
  BY <1>1, ReplayStep
<1>2. QED
  BY <1>1, FanoutIInvAlways, PTL DEF Fanout!Spec, Fanout!ReplayIntact

---------------------------------------------------------------------------
(* The runtime as a whole                                                  *)

\* All that a part does to what it shares with the others: it closes the runtime once.
Closes == ~done /\ done' = TRUE

LEMMA ClipboardShares == Next => Closes \/ UNCHANGED done
<1>1. ASSUME NEW c \in Calls, Step(c) \/ Call(c) PROVE UNCHANGED done
  BY <1>1
  DEF Step, Call, ReadCached, ReadMisses, Write, Register, SendRequest, SendFails, CallClosed,
      TimesOut, GiveUp, ReadAnswered, WriteAnswered, Save, shutdown
<1>2. CASE CloseRuntime
  BY <1>2 DEF CloseRuntime, Closes
<1>3. QED
  BY <1>1, <1>2
  DEF Next, ReadText, ReadAck, Notify, ReaderStops, CloseTakes, CloseWakes, DeviceServes,
      UserCopies, shutdown

LEMMA QueueShares == Queue!Next => Closes \/ UNCHANGED done
BY DEF Queue!Next, Queue!SendControl, Queue!DropMove, Queue!Sender, Queue!Drain, Queue!Drained,
       Queue!Requeue, Queue!Requeued, Queue!Put, Queue!Enqueue, Queue!PutDropped, Queue!PutWaits,
       Queue!WaitedPut, Queue!WaitTimesOut, Queue!SenderClosed, Queue!Fail, Queue!Writer,
       Queue!WriterTakes, Queue!WriterWrites, Queue!WriterStops, Queue!WriterFails, Queue!Close,
       Closes

LEMMA FanoutShares == Fanout!Next => Closes \/ UNCHANGED done
BY DEF Fanout!Next, Fanout!Producer, Fanout!Send, Fanout!SendFull, Fanout!DropQueued,
       Fanout!NothingQueued, Fanout!Reserve, Fanout!Clear, Fanout!Arrive, Fanout!Replay,
       Fanout!CloseRuntime, Fanout!CloseAll, Fanout!Subscribe, Fanout!Take, Fanout!Handled,
       Fanout!Unsubscribe, Fanout!CloseChannel, Fanout!DrainChannel, Closes

\* Every behaviour of the runtime is one of its control queue ...
LEMMA RuntimeQueue == RuntimeSpec => Queue!Spec
<1>1. ASSUME UNCHANGED control, Closes \/ UNCHANGED done PROVE [Queue!Next]_(Queue!vars)
  BY <1>1
  DEF control, Closes, Queue!Next, Queue!Close, Queue!vars, Queue!sending, Queue!writing
<1>2. [RuntimeNext]_<<tour, vars, control, fanout>> => [Queue!Next]_(Queue!vars)
  <2>1. UNCHANGED <<vars, control>> => UNCHANGED control /\ UNCHANGED done
    BY DEF vars, shutdown
  <2>2. QED
    BY <1>1, <2>1, ClipboardShares, FanoutShares DEF RuntimeNext
<1>3. RuntimeInit => Queue!Init
  BY DEF RuntimeInit
<1>4. QED
  BY <1>2, <1>3, PTL DEF RuntimeSpec, Queue!Spec

\* ... and one of its fan-out.
LEMMA RuntimeFanout == RuntimeSpec => Fanout!Spec
<1>1. ASSUME UNCHANGED fanout, Closes \/ UNCHANGED done PROVE [Fanout!Next]_(Fanout!vars)
  BY <1>1
  DEF fanout, Closes, Fanout!Next, Fanout!CloseRuntime, Fanout!vars, Fanout!offering,
      Fanout!cache, Fanout!buffers, Fanout!bounds
<1>2. [RuntimeNext]_<<tour, vars, control, fanout>> => [Fanout!Next]_(Fanout!vars)
  <2>1. UNCHANGED <<vars, fanout>> => UNCHANGED fanout /\ UNCHANGED done
    BY DEF vars, shutdown
  <2>2. QED
    BY <1>1, <2>1, ClipboardShares, QueueShares DEF RuntimeNext
<1>3. RuntimeInit => Fanout!Init
  BY DEF RuntimeInit
<1>4. QED
  BY <1>2, <1>3, PTL DEF RuntimeSpec, Fanout!Spec

\* What SendControl of a runtime has queued and must not lose is written once or still on
\* its way, and of the moves and resizes at most the latest is queued, whatever the writer
\* takes while a drain is under way and whenever the runtime is closed.
THEOREM RuntimeQueueKept == RuntimeSpec => []QueueKept
<1>1. Queue!Spec => []QueueKept
  BY QueueAlwaysKept DEF QueueKept
<1>2. QED
  BY <1>1, RuntimeQueue

\* Between two downs of a pointer that SendControl of a runtime has queued there is its
\* release, also when an earlier one was given up because the queue was congested.
THEOREM RuntimeDownsReleased == RuntimeSpec => []DownsReleased
<1>1. Queue!Spec => []DownsReleased
  BY DownsAlwaysReleased DEF DownsReleased
<1>2. QED
  BY <1>1, RuntimeQueue

\* A video packet's buffer of a runtime goes back to the pool once, when nobody reads it any
\* more, and no packet is offered to a channel that may be closed.
THEOREM RuntimeBuffersCounted == RuntimeSpec => []BuffersCounted
<1>1. Fanout!Spec => []BuffersCounted
  BY FanoutBounded, BuffersAlwaysCounted DEF BuffersCounted
<1>2. QED
  BY <1>1, RuntimeFanout

\* A key frame that a runtime replays directly follows its configuration at every subscriber.
THEOREM RuntimeReplayIntact == RuntimeSpec => ReplayIntact
<1>1. Fanout!Spec => ReplayIntact
  BY FanoutBounded, ReplayAlwaysIntact DEF ReplayIntact
<1>2. QED
  BY <1>1, RuntimeFanout
=============================================================================
