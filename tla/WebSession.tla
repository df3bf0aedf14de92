----------------------------- MODULE WebSession -----------------------------
(***************************************************************************)
(* The sign-in session of the web client in several browser tabs, against  *)
(* the agent's token service: services/auth.ts, the retry on 401 of        *)
(* core/http/client.ts, the guard of router/index.ts and the rotation of   *)
(* refresh tokens.                                                         *)
(*                                                                         *)
(* A sign-in or a refresh issues a pair of an access and a refresh token,  *)
(* numbered from 1; 0 stands for no tokens.  All tabs share what is in the *)
(* browser's storage; each has a copy in memory and is told of changes by  *)
(* a storage event.  Of the tabs outside Tab the model has what they write *)
(* to the storage (Elsewhere).  A tab runs JavaScript to the end of its    *)
(* microtasks before it takes the next event, answer or command.           *)
(***************************************************************************)
EXTENDS Naturals, Sequences

CONSTANTS
  Tab,         \* the tabs of the browser followed in detail
  Caller,      \* those of them whose page sends commands
  Account,     \* who may sign in
  None,        \* no user
  MaxPairs,    \* bound: pairs issued
  Ageing       \* bound: the pairs whose tokens get old

ASSUME SessionAssumption ==
  /\ None \notin Account
  /\ Caller \subseteq Tab
  /\ MaxPairs \in Nat
  /\ Ageing \subseteq 1..MaxPairs

\* The two chains of promises of a tab that call the agent: a command of the
\* page, and restoreSession, which asks who the user is.
Fiber == (Tab \X {"restore"}) \cup (Caller \X {"call"})

Kind == {"plain", "logout", "logoutAll", "me"}

\* What a fiber asks: with the access token of which pair, whether again, and for
\* a logout the pair whose refresh token it names.
Fresh == [kind |-> "plain", token |-> 0, retried |-> FALSE, captured |-> 0]

VARIABLES
  store,       \* the session in the browser's storage
  mem,         \* the session in the memory of a tab
  event,       \* a storage event is on its way to a tab
  page,        \* the page a tab shows
  refreshing,  \* the refresh of a tab that is under way
  pc,          \* what a fiber does next
  request,     \* the request it makes
  owner,       \* whom each pair was issued to
  stale,       \* the pairs whose access token has expired or will at once
  rejected,    \* the pairs whose access token the agent refuses
  ended,       \* the pairs whose refresh token has expired
  spent        \* the pairs whose refresh token is revoked

session == <<store, mem, event>>
server  == <<owner, stale, rejected, ended, spent>>
vars == <<session, page, refreshing, pc, request, server>>

Pair == 0..MaxPairs

Nobody == [pair |-> 0, user |-> None]

Quiet == [phase |-> "none", pair |-> 0]

\* "dropped": idle, and the last caller got a 401 without the agent's answer to
\* it (client.ts:143 promises it).
Final == {"idle", "dropped"}

\* Continuations that run before the tab looks at anything else.
Micro == {"begin", "ensured", "refused", "refreshed", "unrefreshed"}

Init ==
  /\ store = Nobody
  /\ mem = [t \in Tab |-> Nobody]
  /\ event = [t \in Tab |-> FALSE]
  /\ page = [t \in Tab |-> "login"]
  /\ refreshing = [t \in Tab |-> Quiet]
  /\ pc = [f \in Fiber |-> "idle"]
  /\ request = [f \in Fiber |-> Fresh]
  /\ owner = <<>>
  /\ stale = {} /\ rejected = {} /\ ended = {} /\ spent = {}

---------------------------------------------------------------------------
(* Session, memory and storage                                             *)

\* What hydrateSessionFromStorage makes of the storage: an identity without
\* tokens is cleared, there too.
Settled(s) == IF s.pair = 0 THEN Nobody ELSE s

\* persistSession, clearSession or hydrateSessionFromStorage: afterwards memory
\* and storage hold the same, and the other tabs hear of a change.
Persist(t, s) ==
  /\ mem' = [mem EXCEPT ![t] = s]
  /\ store' = s
  /\ event' = [u \in Tab |-> event[u] \/ (u # t /\ s # store)]

ClearSession(t) == Persist(t, Nobody)

ApplyAuthResponse(t, pair) == Persist(t, [pair |-> pair, user |-> owner'[pair]])

HasUsableAccess(s) == s.pair # 0 /\ s.pair \notin stale

HasUsableRefresh(s) == s.pair # 0 /\ s.pair \notin ended

\* All microtasks have run.
AtRest == \A f \in Fiber : pc[f] \notin Micro

Goes(f, label) == pc' = [pc EXCEPT ![f] = label]

\* The fiber's request is over.
Forget(f) == request' = [request EXCEPT ![f] = Fresh]

Again(f) == request' = [request EXCEPT ![f].retried = TRUE] /\ Goes(f, "begin")

Token(f) == request[f].token

StorageEvent(t) ==
  /\ event[t]
  /\ mem' = [mem EXCEPT ![t] = Settled(store)]
  /\ store' = Settled(store)
  /\ event' = [u \in Tab |-> u # t /\ (event[u] \/ store # Settled(store))]
  /\ UNCHANGED <<page, refreshing, pc, request, server>>

---------------------------------------------------------------------------
(* Refreshing: one refresh at a time in a tab, shared by all who need it   *)

JoinRefresh(t, s) ==
  refreshing' = [refreshing EXCEPT ![t] =
                   IF @ = Quiet THEN [phase |-> "asked", pair |-> s.pair] ELSE @]

\* refreshAccessToken, for a fiber that then waits at label, or goes on at
\* failed because there is nothing to refresh with.
RefreshAccessToken(f, label, failed) ==
  LET s == Settled(store)
  IN IF HasUsableRefresh(s)
     THEN Persist(f[1], s) /\ JoinRefresh(f[1], s) /\ Goes(f, label)
     ELSE ClearSession(f[1]) /\ Goes(f, failed) /\ UNCHANGED refreshing

\* The agent reads the refresh token and revokes it in two steps.
ServeRefreshRead(t) ==
  /\ refreshing[t].phase = "asked"
  /\ refreshing' = [refreshing EXCEPT ![t].phase =
                      IF refreshing[t].pair \in spent \cup ended THEN "denied" ELSE "read"]
  /\ UNCHANGED <<session, page, pc, request, server>>

ServeRefreshGrant(t) ==
  /\ refreshing[t].phase = "read"
  /\ Len(owner) < MaxPairs
  /\ owner' = Append(owner, owner[refreshing[t].pair])
  /\ spent' = spent \cup {refreshing[t].pair}
  /\ refreshing' = [refreshing EXCEPT ![t] = [phase |-> "granted", pair |-> Len(owner) + 1]]
  /\ UNCHANGED <<session, page, pc, request, stale, rejected, ended>>

\* The request is lost, or its answer, or the agent fails.
RefreshLost(t) ==
  /\ refreshing[t].phase \in {"asked", "read", "granted"}
  /\ refreshing' = [refreshing EXCEPT ![t].phase = "denied"]
  /\ UNCHANGED <<session, page, pc, request, server>>

\* Mutated: a request refused with 401 is not told of a refresh that failed.
Resumed_OnlyGranted(label, ok) ==
  CASE label = "ensuring"   -> IF ok THEN "ensured" ELSE "refused"
    [] label = "renewing" /\ ok -> "refreshed"
    [] label = "restoring"  -> "idle"
    [] OTHER                -> label

\* Where a fiber that waits for the refresh goes on.
Resumed(label, ok) ==
  CASE label = "ensuring"   -> IF ok THEN "ensured" ELSE "refused"
    [] label = "renewing"   -> IF ok THEN "refreshed" ELSE "unrefreshed"
    [] label = "restoring"  -> "idle"
    [] OTHER                -> label

\* The page after a restore: the router's guard lets the tab in or sends it to
\* the login page.
Guarded(ok) == IF ok THEN "open" ELSE "login"

RefreshAnswered(t) ==
  /\ refreshing[t].phase \in {"granted", "denied"}
  /\ UNCHANGED server
  /\ LET ok == refreshing[t].phase = "granted"
     IN /\ IF ok THEN ApplyAuthResponse(t, refreshing[t].pair) ELSE ClearSession(t)
        /\ pc' = [f \in Fiber |-> IF f[1] = t THEN Resumed(pc[f], ok) ELSE pc[f]]
        /\ page' = [page EXCEPT ![t] =
                      IF pc[<<t, "restore">>] = "restoring" THEN Guarded(ok) ELSE @]
  /\ refreshing' = [refreshing EXCEPT ![t] = Quiet]
  /\ request' = [f \in Fiber |-> IF f[1] = t /\ pc'[f] \in Final THEN Fresh ELSE request[f]]

---------------------------------------------------------------------------
(* One request: sendApiRequestUsingTransport                               *)

Send(f, pair) == request' = [request EXCEPT ![f].token = pair] /\ Goes(f, "sent")

\* ensureFreshAccessToken.
Begin(f) ==
  /\ pc[f] = "begin"
  /\ LET s == Settled(store)
     IN IF HasUsableAccess(s)
        THEN Persist(f[1], s) /\ Send(f, s.pair) /\ UNCHANGED refreshing
        ELSE RefreshAccessToken(f, "ensuring", "refused") /\ UNCHANGED request
  /\ UNCHANGED <<page, server>>

Ensured(f) ==
  /\ pc[f] = "ensured"
  /\ LET s == IF mem[f[1]].pair = 0 THEN Settled(store) ELSE mem[f[1]]
     IN /\ IF mem[f[1]].pair = 0 THEN Persist(f[1], s) ELSE UNCHANGED session
        /\ Send(f, s.pair)
  /\ UNCHANGED <<page, refreshing, server>>

\* The agent answers, or nothing comes back.  Logout deletes the access token it
\* came with and revokes the refresh token it names; logout-all all of a user's.
Serve(f) ==
  /\ pc[f] = "sent"
  /\ LET known == Token(f) # 0 /\ Token(f) \notin rejected
         mine  == {i \in DOMAIN owner : owner[i] = owner[Token(f)]}
         \* The pairs whose access, and whose refresh token is revoked.
         gone  == CASE ~known -> <<{}, {}>>
                    [] request[f].kind = "logout" -> <<{Token(f)}, {request[f].captured}>>
                    [] request[f].kind = "logoutAll" -> <<mine, mine>>
                    [] OTHER -> <<{}, {}>>
     IN /\ Goes(f, IF known THEN "answered" ELSE "answered401")
        /\ rejected' = rejected \cup gone[1]
        /\ spent' = spent \cup gone[2]
  /\ UNCHANGED <<session, page, refreshing, request, owner, stale, ended>>

RequestLost(f) ==
  /\ pc[f] = "sent"
  /\ Goes(f, "lost")
  /\ UNCHANGED <<session, page, refreshing, request, server>>

\* unauthorizedHandler pushes the login page; its guard turns back whoever the
\* tab takes for signed in.
Redirect(t, s) == page' = [page EXCEPT ![t] = IF s.user # None THEN @ ELSE "login"]

MayRetry(f) == request[f].kind \in {"plain", "me"} /\ ~request[f].retried

\* Mutated: the request is repeated without renewing the token.
Retry_Blindly(f) ==
  /\ pc[f] = "answered401"
  /\ MayRetry(f)
  /\ Again(f)
  /\ UNCHANGED <<session, refreshing, page, server>>

\* The 401 is the first and the token may be renewed, or already was.
Retry(f) ==
  /\ pc[f] = "answered401"
  /\ MayRetry(f)
  /\ IF Token(f) # 0 /\ Token(f) # mem[f[1]].pair
     THEN Again(f) /\ UNCHANGED <<session, refreshing>>
     ELSE RefreshAccessToken(f, "renewing", "unrefreshed") /\ UNCHANGED request
  /\ UNCHANGED <<page, server>>

Refreshed(f) ==
  /\ pc[f] = "refreshed"
  /\ Again(f)
  /\ UNCHANGED <<session, page, refreshing, server>>

\* The end of a command.  Logout clears the session whatever happened, logout-all
\* unless it threw.
EndCall(f, outcome) ==
  /\ f[2] = "call"
  /\ Goes(f, outcome)
  /\ Forget(f)
  /\ IF \/ request[f].kind = "logout"
        \/ request[f].kind = "logoutAll" /\ pc[f] # "lost"
     THEN ClearSession(f[1])
     ELSE UNCHANGED session
  /\ UNCHANGED <<refreshing, server>>

\* fetchMe has failed: restoreSession tries the refresh token.
RestoreByRefresh(f) ==
  /\ f[2] = "restore"
  /\ IF HasUsableRefresh(mem[f[1]])
     THEN RefreshAccessToken(f, "restoring", "idle")
     ELSE ClearSession(f[1]) /\ Goes(f, "idle") /\ UNCHANGED refreshing
  /\ page' = [page EXCEPT ![f[1]] = IF pc'[f] = "idle" THEN Guarded(FALSE) ELSE @]
  /\ Forget(f)
  /\ UNCHANGED server

Unrefreshed(f) ==
  /\ pc[f] = "unrefreshed"
  /\ LET s == Settled(store)
     IN IF Token(f) # 0 /\ Token(f) # s.pair
        THEN /\ Persist(f[1], s)
             /\ Again(f)
             /\ UNCHANGED <<page, refreshing, server>>
        ELSE IF f[2] = "call"
        THEN /\ Persist(f[1], s)
             /\ Redirect(f[1], s)
             /\ Goes(f, "idle")
             /\ Forget(f)
             /\ UNCHANGED <<refreshing, server>>
        ELSE RestoreByRefresh(f)

\* ensureFreshAccessToken said no: the caller gets a 401 without a body.
Refused(f) ==
  /\ pc[f] = "refused"
  /\ \/ /\ EndCall(f, IF request[f].retried THEN "dropped" ELSE "idle")
        /\ IF request[f].kind = "plain" THEN Redirect(f[1], mem[f[1]]) ELSE UNCHANGED page
     \/ RestoreByRefresh(f)

\* A response, an exception, or a 401 that is not tried again, for the caller.
Answered(f) ==
  /\ \/ pc[f] \in {"answered", "lost"}
     \/ pc[f] = "answered401" /\ ~MayRetry(f)
  /\ \/ EndCall(f, "idle") /\ UNCHANGED page
     \/ pc[f] # "answered" /\ RestoreByRefresh(f)

\* fetchMe: the user the answer names joins the tokens the tab has by now.
MeLoaded(f) ==
  /\ f[2] = "restore"
  /\ pc[f] = "answered"
  /\ Persist(f[1], [mem[f[1]] EXCEPT !.user = owner[Token(f)]])
  /\ Goes(f, "idle")
  /\ Forget(f)
  /\ page' = [page EXCEPT ![f[1]] = Guarded(TRUE)]
  /\ UNCHANGED <<refreshing, server>>

---------------------------------------------------------------------------
(* What the user, the clock and the administrator do                       *)

\* A command of the page, or logging out: the refresh token is noted first.
Call(t, k) ==
  LET f == <<t, "call">>
  IN /\ pc[f] \in Final
        /\ page[t] = "open"
     /\ k \in {"logout", "logoutAll"} => mem[t].pair # 0
     /\ Goes(f, "begin")
     /\ request' = [request EXCEPT ![f] = [Fresh EXCEPT
                       !.kind = k,
                       !.captured = IF k = "logout" THEN mem[t].pair ELSE 0]]
     /\ UNCHANGED <<session, page, refreshing, server>>

\* A navigation, or the start of the app: restoreSession decides.
Restore(t) ==
  LET f == <<t, "restore">>
      s == Settled(store)
  IN /\ pc[f] \in Final
        /\ IF HasUsableAccess(s)
        THEN /\ Persist(t, s)
             /\ Goes(f, "begin")
             /\ request' = [request EXCEPT ![f].kind = "me"]
             /\ UNCHANGED refreshing
        ELSE RefreshAccessToken(f, "restoring", "idle") /\ UNCHANGED request
     /\ page' = [page EXCEPT ![t] = IF pc'[f] = "idle" THEN Guarded(FALSE) ELSE @]
     /\ UNCHANGED server

\* The answer to a login: applyAuthResponse.
Login(t, a) ==
  /\ page[t] = "login"
  /\ Len(owner) < MaxPairs
  /\ owner' = Append(owner, a)
  /\ ApplyAuthResponse(t, Len(owner) + 1)
  /\ UNCHANGED <<page, refreshing, pc, request, stale, rejected, ended, spent>>

\* The tabs renew an access token before the agent refuses it for its age.
Age(i) ==
  /\ \/ i \notin stale /\ stale' = stale \cup {i} /\ UNCHANGED ended
     \/ i \in stale \ ended /\ ended' = ended \cup {i} /\ UNCHANGED stale
  /\ UNCHANGED <<session, page, refreshing, pc, request, owner, rejected, spent>>

\* An administrator resets the password or locks the account.
RevokeSessions(a) ==
  /\ LET its == {i \in DOMAIN owner : owner[i] = a}
     IN /\ ~(its \subseteq spent \cap rejected)
        /\ rejected' = rejected \cup its
        /\ spent' = spent \cup its
  /\ UNCHANGED <<session, page, refreshing, pc, request, owner, stale, ended>>

\* What the browser's other tabs do with the storage.
Elsewhere(s) ==
  /\ s # store
  /\ store' = s
  /\ event' = [t \in Tab |-> TRUE]
  /\ UNCHANGED <<mem, page, refreshing, pc, request, stale, rejected, ended>>

\* Another tab signs in, or renews the session: the tokens are new.
NewElsewhere(a) ==
  /\ Len(owner) < MaxPairs
  /\ owner' = Append(owner, a)
  /\ \/ UNCHANGED spent
     \/ HasUsableRefresh(store) /\ store.user = a /\ store.pair \notin spent
        /\ spent' = spent \cup {store.pair}
  /\ Elsewhere([pair |-> Len(owner) + 1, user |-> a])

\* Another tab signs out, or puts back the session it has in memory, as this one
\* still does, when the answer to its fetchMe comes.
OldElsewhere ==
  /\ \/ Elsewhere(Nobody)
     \/ \E t \in Tab : mem[t].pair \in 1..(store.pair - 1) /\ Elsewhere(mem[t])
  /\ UNCHANGED <<owner, spent>>

---------------------------------------------------------------------------
Continue(f) == Begin(f) \/ Ensured(f) \/ Refused(f) \/ Refreshed(f) \/ Unrefreshed(f)

Receive(f) == Retry(f) \/ Answered(f) \/ MeLoaded(f)

ServeRefresh(t) == ServeRefreshRead(t) \/ ServeRefreshGrant(t) \/ RefreshLost(t)

Event ==
  \/ \E t \in Tab : StorageEvent(t) \/ ServeRefresh(t) \/ RefreshAnswered(t) \/ Restore(t)
  \/ \E f \in Fiber : Serve(f) \/ RequestLost(f) \/ Receive(f)
  \/ \E t \in Caller, k \in Kind \ {"me"} : Call(t, k)
  \/ \E t \in Tab, a \in Account : Login(t, a)
  \/ \E i \in Ageing \cap DOMAIN owner : Age(i)
  \/ \E a \in Account : RevokeSessions(a) \/ NewElsewhere(a)
  \/ OldElsewhere

Next ==
  \/ \E f \in Fiber : Continue(f)
  \/ AtRest /\ Event

Spec == Init /\ [][Next]_vars

\* Promises settle, the network answers or fails, and the event loop of a tab, a
\* queue, gets to every answer although others come in between.
Fairness ==
  /\ \A f \in Fiber : WF_vars(Continue(f)) /\ SF_vars(Receive(f)) /\ WF_vars(Serve(f) \/ RequestLost(f))
  /\ \A t \in Tab : WF_vars(ServeRefresh(t)) /\ SF_vars(RefreshAnswered(t))

FairSpec == Spec /\ Fairness

---------------------------------------------------------------------------
(* Properties                                                              *)

\* A refused request is repeated only while its tab holds another access token
\* than the one the agent has refused, whatever was refreshed, signed out or
\* signed in meanwhile, in this tab or in another.
RetryOtherToken ==
  [][\A f \in Fiber : (pc'[f] = "begin" /\ request'[f].retried)
       => pc[f] = "begin" \/ Token(f) # mem'[f[1]].pair]_vars

\* Every command and every navigation gets its answer, whatever is refused, lost
\* or renewed meanwhile, by this tab or by another.
CallsEnd == \A f \in Fiber : pc[f] \notin Final ~> pc[f] \in Final
=============================================================================
