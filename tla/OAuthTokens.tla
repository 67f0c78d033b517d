---------------------------- MODULE OAuthTokens ----------------------------
(***************************************************************************)
(* The OAuth connections of one user: connecting, disconnecting and the    *)
(* refresh of access tokens in hubspot.service.ts,                         *)
(* google-calendar.service.ts and oauth-token-refresh.service.ts.          *)
(*                                                                         *)
(* Every await of the database or of a provider lets other requests run;   *)
(* what stands between two awaits runs alone, the test and the setting of  *)
(* a lock included.  A token is known by the grant it came from: what the  *)
(* user consented to once, at one provider.                                *)
(*                                                                         *)
(* Nothing keeps the user from connecting or disconnecting while a refresh *)
(* that read the tokens before is under way; what it then writes, by user  *)
(* id alone, is told apart by overtaken and late.                          *)
(***************************************************************************)
EXTENDS Naturals, FiniteSets

CONSTANTS
    Requests,          \* request slots: how many handlers may be in flight at once
    Providers,         \* HubSpot and Google Calendar
    ForgetsRejected,   \* those whose rejected token is deleted: Google Calendar
    Grants,            \* what the user consents to, each once
    MaxRetries,        \* how often a call that is answered 429 is tried again
    None

ASSUME ProviderAssumption == ForgetsRejected \subseteq Providers
ASSUME RetryAssumption == MaxRetries \in Nat
ASSUME NoneAssumption == None \notin Requests \cup Providers \cup Grants

VARIABLES
    connection,   \* the token columns of the user row, for each provider
    lock,         \* refreshLocks: the request whose refresh is pending
    req,          \* what each handler in flight remembers
    granted,      \* the grants that were given
    alive,        \* those of them the provider still honours
    choice,       \* history: the grant the user connected last, None if disconnected
    overtaken,    \* history: the refreshes during which the user connected or disconnected
    late          \* history: the providers an overtaken refresh has written since

providerVars == <<granted, alive>>
historyVars == <<choice, overtaken, late>>
vars == <<connection, lock, req, granted, alive, choice, overtaken, late>>

Columns == [access  : Grants \cup {None},
            refresh : Grants \cup {None},
            due     : BOOLEAN]     \* the access token expires within the margin

Row(access, refresh, due) == [access |-> access, refresh |-> refresh, due |-> due]

Disconnected == Row(None, None, FALSE)

RefreshOps == {"fetch", "accepted", "rejected"}

Op == {"idle", "callback", "disconnect", "revoke", "read", "wait", "call"}
      \cup RefreshOps

Request == [op : Op, provider : Providers \cup {None},
            grant : Grants \cup {None}, tries : 0..MaxRetries]

Memory(op, provider, grant, tries) ==
    [op |-> op, provider |-> provider, grant |-> grant, tries |-> tries]

Idle == Memory("idle", None, None, 0)

\* A refresh token is only stored beside an access token.
TypeOK ==
    /\ connection \in [Providers -> Columns]
    /\ \A p \in Providers : connection[p].refresh # None => connection[p].access # None
    /\ lock \in [Providers -> Requests \cup {None}]
    /\ req \in [Requests -> Request]
    /\ granted \subseteq Grants
    /\ alive \subseteq granted
    /\ choice \in [Providers -> Grants \cup {None}]
    /\ overtaken \subseteq Requests
    /\ late \subseteq Providers

Init ==
    /\ connection = [p \in Providers |-> Disconnected]
    /\ lock = [p \in Providers |-> None]
    /\ req = [r \in Requests |-> Idle]
    /\ granted = {}
    /\ alive = {}
    /\ choice = [p \in Providers |-> None]
    /\ overtaken = {}
    /\ late = {}

-----------------------------------------------------------------------------

Remember(r, memory) == req' = [req EXCEPT ![r] = memory]

Store(p, row) == connection' = [connection EXCEPT ![p] = row]

\* From the read of the row to the write of the tokens.
Refreshing(r, p) == req[r].op \in {"read"} \cup RefreshOps /\ req[r].provider = p

\* The user connects or disconnects, whatever refreshes are under way.
Choose(p, grant) ==
    /\ choice' = [choice EXCEPT ![p] = grant]
    /\ overtaken' = overtaken \cup {r \in Requests : Refreshing(r, p)}
    /\ late' = late \ {p}

\* The pending promise settles: the lock is deleted, the request that holds it
\* and those that wait for it go on with the same outcome.
Settle(r, memory) ==
    LET p == req[r].provider
    IN  /\ lock' = [lock EXCEPT ![p] = None]
        /\ req' = [s \in Requests |->
                     IF s = r \/ (req[s].op = "wait" /\ req[s].provider = p)
                     THEN memory ELSE req[s]]

-----------------------------------------------------------------------------
(* Connecting and disconnecting *)

\* handleCallback exchanges the code for tokens ...
ExchangeCode(r, p) ==
    /\ req[r].op = "idle"
    /\ \E g \in Grants \ granted :
         /\ granted' = granted \cup {g}
         /\ alive' = alive \cup {g}
         /\ Remember(r, Memory("callback", p, g, 0))
    /\ UNCHANGED <<connection, lock, historyVars>>

\* Mutant: a refresh token that is left out does not replace the stored one.
StoreCallback_KeepsRefresh(r) ==
    LET p == req[r].provider
        g == req[r].grant
    IN  /\ req[r].op = "callback"
        /\ \/ Store(p, Row(g, g, FALSE))
           \/ p \in ForgetsRejected /\ Store(p, Row(g, connection[p].refresh, FALSE))
        /\ Choose(p, g)
        /\ Remember(r, Idle)
        /\ UNCHANGED <<lock, providerVars>>

\* ... and stores them; Google may leave out the refresh token.
StoreCallback(r) ==
    LET p == req[r].provider
        g == req[r].grant
    IN  /\ req[r].op = "callback"
        /\ \/ Store(p, Row(g, g, FALSE))
           \/ p \in ForgetsRejected /\ Store(p, Row(g, None, FALSE))
        /\ Choose(p, g)
        /\ Remember(r, Idle)
        /\ UNCHANGED <<lock, providerVars>>

\* The refresh token is read before it is deleted.
ReadDisconnect(r, p) ==
    /\ req[r].op = "idle"
    /\ Remember(r, Memory("disconnect", p, connection[p].refresh, 0))
    /\ UNCHANGED <<connection, lock, providerVars, historyVars>>

StoreDisconnect(r) ==
    LET p == req[r].provider
        g == req[r].grant
    IN  /\ req[r].op = "disconnect"
        /\ Store(p, Disconnected)
        /\ Choose(p, None)
        /\ Remember(r, IF g = None THEN Idle ELSE Memory("revoke", p, g, 0))
        /\ UNCHANGED <<lock, providerVars>>

\* The revocation that nobody waits for reaches the provider.
Revoke(r) ==
    /\ req[r].op = "revoke"
    /\ alive' = alive \ {req[r].grant}
    /\ Remember(r, Idle)
    /\ UNCHANGED <<connection, lock, granted, historyVars>>

-----------------------------------------------------------------------------
(* Valid tokens *)

\* getValidToken reads the user row.  A token that is not due is used as it is.
ReadUser(r, p) ==
    LET row == connection[p]
    IN  /\ req[r].op = "idle"
        /\ row.access # None
        /\ \/ ~row.due /\ Remember(r, Memory("call", p, row.access, 0))
           \/ row.due /\ row.refresh # None
              /\ Remember(r, Memory("read", p, row.refresh, 0))
        /\ overtaken' = overtaken \ {r}
        /\ UNCHANGED <<connection, lock, providerVars, choice, late>>

\* Mutant: a second refresh is let through, the first one keeps the lock.
Refresh_Second(r) ==
    LET p == req[r].provider
    IN  /\ req[r].op = "read"
        /\ lock' = IF lock[p] = None THEN [lock EXCEPT ![p] = r] ELSE lock
        /\ Remember(r, Memory("fetch", p, req[r].grant, 0))
        /\ UNCHANGED <<connection, providerVars, historyVars>>

\* OAuthTokenRefreshService.refresh: join the pending refresh, or start one with
\* the token that was read.
Refresh(r) ==
    LET p == req[r].provider
    IN  /\ req[r].op = "read"
        /\ \/ /\ lock[p] # None
              /\ Remember(r, Memory("wait", p, None, 0))
              /\ UNCHANGED lock
           \/ /\ lock[p] = None
              /\ lock' = [lock EXCEPT ![p] = r]
              /\ Remember(r, Memory("fetch", p, req[r].grant, 0))
        /\ UNCHANGED <<connection, providerVars, historyVars>>

\* The provider answers: it honours the grant or not.
TokenAnswer(r) ==
    LET g == req[r].grant
    IN  /\ req[r].op = "fetch"
        /\ Remember(r, Memory(IF g \in alive THEN "accepted" ELSE "rejected",
                              req[r].provider, g, 0))
        /\ UNCHANGED <<connection, lock, providerVars, historyVars>>

\* onSuccess: both tokens are stored; Google may leave out the refresh token,
\* and then the stored one stays.
StoreRefreshed(r) ==
    LET p == req[r].provider
        g == req[r].grant
    IN  /\ req[r].op = "accepted"
        /\ \/ Store(p, Row(g, g, FALSE))
           \/ p \in ForgetsRejected /\ Store(p, Row(g, connection[p].refresh, FALSE))
        /\ Settle(r, Memory("call", p, g, 0))
        /\ late' = IF r \in overtaken THEN late \cup {p} ELSE late
        /\ UNCHANGED <<providerVars, choice, overtaken>>

\* Mutant: the rejected token stays.
HandleRejected_Kept(r) ==
    /\ req[r].op = "rejected"
    /\ Settle(r, Idle)
    /\ UNCHANGED <<connection, providerVars, historyVars>>

\* Mutant: only the access token is forgotten.
HandleRejected_AccessOnly(r) ==
    LET p == req[r].provider
    IN  /\ req[r].op = "rejected"
        /\ Store(p, Row(None, connection[p].refresh, FALSE))
        /\ Settle(r, Idle)
        /\ UNCHANGED <<providerVars, historyVars>>

\* onFailure: Google Calendar forgets the tokens, both throw.
HandleRejected(r) ==
    LET p == req[r].provider
    IN  /\ req[r].op = "rejected"
        /\ \/ p \in ForgetsRejected /\ Store(p, Disconnected)
           \/ p \notin ForgetsRejected /\ UNCHANGED connection
        /\ Settle(r, Idle)
        /\ UNCHANGED <<providerVars, historyVars>>

\* Mutant: the lock is deleted only when the refresh succeeds.
RefreshFails_Locked(r) ==
    /\ req[r].op \in RefreshOps
    /\ Remember(r, Idle)
    /\ UNCHANGED <<connection, lock, providerVars, historyVars>>

\* No answer, another error, or the row could not be written.
RefreshFails(r) ==
    /\ req[r].op \in RefreshOps
    /\ Settle(r, Idle)
    /\ UNCHANGED <<connection, providerVars, historyVars>>

\* The provider's API answers, whatever it answers.
CallAnswered(r) ==
    /\ req[r].op = "call"
    /\ Remember(r, Idle)
    /\ UNCHANGED <<connection, lock, providerVars, historyVars>>

\* Mutant: the attempts are not counted.
TooManyRequests_Uncounted(r) ==
    /\ req[r].op = "call"
    /\ Remember(r, Memory("call", req[r].provider, req[r].grant, 1 - req[r].tries))
    /\ UNCHANGED <<connection, lock, providerVars, historyVars>>

\* fetchWithRetry: 429 is answered by another attempt, the last one excepted.
TooManyRequests(r) ==
    /\ req[r].op = "call"
    /\ req[r].tries < MaxRetries
    /\ Remember(r, Memory("call", req[r].provider, req[r].grant, req[r].tries + 1))
    /\ UNCHANGED <<connection, lock, providerVars, historyVars>>

-----------------------------------------------------------------------------
(* The surroundings *)

\* Time brings the stored access token within the margin of its expiry.
TokenDue(p) ==
    /\ connection[p].access # None
    /\ ~connection[p].due
    /\ Store(p, Row(connection[p].access, connection[p].refresh, TRUE))
    /\ UNCHANGED <<lock, req, providerVars, historyVars>>

\* The user withdraws a consent at the provider.
Withdraw(g) ==
    /\ g \in alive
    /\ alive' = alive \ {g}
    /\ UNCHANGED <<connection, lock, req, granted, historyVars>>

\* Connecting, disconnecting or reading fails, or the revocation is lost.
Fail(r) ==
    /\ req[r].op \in {"callback", "disconnect", "revoke", "read"}
    /\ Remember(r, Idle)
    /\ UNCHANGED <<connection, lock, providerVars, historyVars>>

\* The process stops: handlers and locks are gone, the rows stay.
Restart ==
    /\ req' = [r \in Requests |-> Idle]
    /\ lock' = [p \in Providers |-> None]
    /\ UNCHANGED <<connection, providerVars, historyVars>>

Continue(r) ==
    \/ StoreCallback(r) \/ StoreDisconnect(r) \/ Revoke(r)
    \/ Refresh(r) \/ TokenAnswer(r) \/ StoreRefreshed(r) \/ HandleRejected(r)
    \/ RefreshFails(r) \/ CallAnswered(r) \/ TooManyRequests(r)
    \/ Fail(r)

Next ==
    \/ \E r \in Requests :
         \/ \E p \in Providers : ExchangeCode(r, p) \/ ReadDisconnect(r, p) \/ ReadUser(r, p)
         \/ Continue(r)
    \/ \E p \in Providers : TokenDue(p)
    \/ \E g \in Grants : Withdraw(g)
    \/ Restart

Spec == Init /\ [][Next]_vars

\* Node runs whatever is ready, and a call is answered or times out.  The
\* handling of a rejection is not cut short each time by a restart or a write
\* that fails.
Fairness ==
    \A r \in Requests :
        /\ WF_vars(Continue(r))
        /\ \A p \in ForgetsRejected : SF_vars(HandleRejected(r) /\ req[r].provider = p)

FairSpec == Spec /\ Fairness

-----------------------------------------------------------------------------
(* Properties *)

\* One refresh per user and provider is on its way, and the lock is held by
\* exactly that one: it is never left behind, however the refresh ends
\* (refreshLocks and its finally).
LockHeldByRefresh ==
    \A r \in Requests, p \in Providers :
        lock[p] = r <=> (req[r].op \in RefreshOps /\ req[r].provider = p)

\* Neither a refresh nor whatever else runs beside it gives the user tokens of a
\* connection other than the one chosen last, and none once disconnected, unless
\* an overtaken refresh wrote them: that one brings back the old connection, and
\* those who read it carry it on, until the user connects or disconnects again
\* (refresh, handleCallback and disconnect).
StoredIsChosen ==
    \A p \in Providers \ late :
        /\ connection[p].access \in {choice[p], None}
        /\ connection[p].refresh \in {choice[p], None}

\* Every request ends, those that wait for another one's refresh and those that
\* are told to slow down included (refresh, fetchWithRetry).
RequestsEnd == \A r \in Requests : req[r].op # "idle" ~> req[r].op = "idle"

\* Google Calendar does not retry the same dead token forever: a grant that is
\* no longer honoured is rejected finitely often (the comment in onFailure).
DeadGrantNotRetriedForever ==
    \A g \in Grants :
        \/ []<>(g \in alive)
        \/ <>[](\A r \in Requests :
                  ~(/\ req[r].op = "rejected" /\ req[r].grant = g
                    /\ req[r].provider \in ForgetsRejected))

=============================================================================
