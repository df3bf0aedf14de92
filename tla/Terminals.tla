------------------------------ MODULE Terminals ------------------------------
(***************************************************************************)
(* The terminal view (useTerminalWorkspace.ts) and its connections         *)
(* (deviceTransport/terminal.ts): a tab for each device, with a terminal   *)
(* that is made when the tab is shown and goes when the view is left.      *)
(***************************************************************************)
EXTENDS Transfers, WorkspaceTabs

VARIABLE terms

\* "made": the devices that have an entry of runtimes.
InitTerms(T) ==
  terms = [tabs |-> T, made |-> {}, status |-> [d \in Dev |-> "idle"]]

\* The connection of the terminal of d: an operation that is not aborted.
Connects(o, d) == o.kind = "terminal" /\ o.dev = d /\ ~o.aborted

HasConnection(d) == \E o \in ops : Connects(o, d)

\* What onclose makes of the status of a tab.
ClosedStatus(status, connected) ==
  IF connected /\ status # "error" THEN "disconnected" ELSE status

\* close, and the abort that goes with it.
CloseConnections(D) ==
  {IF o.kind = "terminal" /\ o.dev \in D THEN Aborts(o) ELSE o : o \in ops}

\* clearRuntime for the tabs of D.
Cleared(T, D) ==
  [T EXCEPT !.made = @ \ D,
            !.status = [d \in Dev |-> IF d \in D THEN ClosedStatus(@[d], HasConnection(d)) ELSE @[d]]]

\* ensureSessionForTab for the active tab: its terminal is made if there is none.
\* O are the operations.
Ensured(T, O) ==
  LET d == T.tabs.active
  IN  IF d = NoDevice \/ d \in T.made
      THEN terms' = T /\ Now(pool, O)
      ELSE /\ terms' = [T EXCEPT !.made = @ \cup {d}, !.status[d] = "connecting"]
           /\ Now(pool, O \cup {Operation(NextId(O), "terminal", d, 1)})

\* The view is shown, after it was left if it is the one that is shown.
TermsShown(d) ==
  LET T == IF d = NoDevice THEN terms
           ELSE [terms EXCEPT !.tabs = TabOpened(@, d), !.status[d] = "idle"]
  IN  Ensured(T, ops)

\* Mutated: leaving the view keeps the terminals.
TermsHidden_Kept == UNCHANGED terms /\ Now(pool, ops)

\* onDeactivated
TermsHidden ==
  /\ terms' = Cleared(terms, terms.made)
  /\ Now(pool, CloseConnections(terms.made))

TermsActivateTab ==
  \E d \in TabDevices(terms.tabs) \ {terms.tabs.active} :
    /\ Move /\ shown = "terminal"
    /\ Ensured([terms EXCEPT !.tabs = TabActivated(@, d)], ops)
    /\ UNCHANGED <<account, shown>>

TermsCloseTab ==
  \E d \in TabDevices(terms.tabs) :
    /\ Move /\ shown = "terminal"
    /\ LET D == {d} \cap terms.made
           T == [Cleared(terms, D) EXCEPT !.tabs = TabClosed(@, d), !.status[d] = "idle"]
       IN  IF d = terms.tabs.active THEN Ensured(T, CloseConnections(D))
           ELSE terms' = T /\ Now(pool, CloseConnections(D))
    /\ UNCHANGED <<account, shown>>

TermsActs == TermsActivateTab \/ TermsCloseTab

------------------------------------------------------------------------------
(* The connections.                                                        *)

\* onopen: the answer is there, or the socket is open.
TerminalOpens ==
  \E o \in ops :
    /\ o.kind = "terminal" /\ o.phase = "sending" /\ ~o.aborted /\ Carried(o)
    /\ Now(pool, Instead(o, [o EXCEPT !.phase = "reading"])) /\ UNCHANGED terms

\* A message of the agent: it is ready, or an error that leaves the connection open.
TerminalMessage ==
  \E o \in ops, status \in {"connected", "error"} :
    /\ o.kind = "terminal" /\ o.phase = "reading" /\ ~o.aborted /\ Carried(o)
    /\ terms' = [terms EXCEPT !.status[o.dev] = status] /\ UNCHANGED <<pool, ops>>

\* The connection ends, on an error or because the agent ended it.
TerminalCloses ==
  \E o \in ops, failed \in BOOLEAN :
    /\ o.kind = "terminal" /\ ~o.aborted /\ o.phase \in {"auth", "sending", "reading"}
    /\ failed \/ o.phase = "reading"
    /\ Now(pool, ops \ {o})
    /\ terms' = [terms EXCEPT !.status[o.dev] =
                   IF failed THEN "error" ELSE ClosedStatus(@, TRUE)]

\* The attempt it waited for was given up when the account changed.
TerminalRefused ==
  \E o \in ops :
    /\ o.kind = "terminal" /\ ~o.aborted /\ o.phase = "aborting"
    /\ Now(pool, ops \ {o}) /\ terms' = [terms EXCEPT !.status[o.dev] = "error"]

\* A connection that was closed hears of it: nothing of it is left.
TerminalAborts ==
  \E o \in ops : /\ o.kind = "terminal" /\ o.aborted /\ o.phase = "aborting"
                 /\ Now(pool, ops \ {o}) /\ UNCHANGED terms

TerminalSteps == /\ TerminalOpens \/ TerminalMessage \/ TerminalCloses
                 /\ UNCHANGED <<account, shown, moves>>

TerminalResumes == /\ TerminalRefused \/ TerminalAborts
                   /\ UNCHANGED <<account, shown, moves>>

------------------------------------------------------------------------------
(* Properties.                                                             *)

\* A terminal belongs to a tab, and there is none while another view is shown; a
\* connection without its terminal is closed and at most about to notice; and a tab that
\* says it is connected has a connection that is open, whoever closed the one it had
\* (onDeactivated, closeTab; clearRuntime closes before it takes the handlers off).
TerminalsOwned ==
  /\ terms.made \subseteq TabDevices(terms.tabs)
  /\ shown # "terminal" => terms.made = {}
  /\ \A o \in ops : o.kind = "terminal" =>
       IF o.aborted THEN o.phase \in {"auth", "aborting"}
       ELSE o.dev \in terms.made /\ (\A k \in ops : Connects(k, o.dev) => k = o)
  /\ \A d \in Dev : terms.status[d] = "connected" =>
       \E o \in ops : Connects(o, d) /\ o.phase = "reading"
==============================================================================
