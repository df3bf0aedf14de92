------------------------------ MODULE BytePipe ------------------------------
(***************************************************************************)
(* What a byte stream over a data channel promises for one direction: the  *)
(* bytes of a body come out in order, at most a window of them is under    *)
(* way (stream.go:12), whoever is told that the body is over has read all  *)
(* of it, and it is cut short only after one of the ends gave it up.       *)
(* RtcStream implements two of these, the request and the response.        *)
(***************************************************************************)
EXTENDS Naturals

CONSTANT Window

VARIABLES
  size,        \* of the body
  written,     \* bytes the writer has handed over
  read,        \* bytes the reader has got
  outcome,     \* for the reader: "open", "complete" or "cut"
  abandoned    \* an end has given the body up

vars == <<size, written, read, outcome, abandoned>>

Init ==
  /\ size \in Nat
  /\ written = 0 /\ read = 0
  /\ outcome = "open"
  /\ abandoned = FALSE

Write ==
  /\ written' \in (written + 1)..size
  /\ written' - read <= Window
  /\ UNCHANGED <<size, read, outcome, abandoned>>

Read ==
  /\ outcome = "open"
  /\ read' \in (read + 1)..written
  /\ UNCHANGED <<size, written, outcome, abandoned>>

Complete ==
  /\ outcome = "open"
  /\ read = size
  /\ outcome' = "complete"
  /\ UNCHANGED <<size, written, read, abandoned>>

\* An end gives up; the other one may learn it now or later.
Abandon ==
  /\ abandoned' = TRUE
  /\ outcome' \in {outcome} \cup (IF outcome = "open" THEN {"cut"} ELSE {})
  /\ UNCHANGED <<size, written, read>>

Next == Write \/ Read \/ Complete \/ Abandon

Spec == Init /\ [][Next]_vars
=============================================================================
