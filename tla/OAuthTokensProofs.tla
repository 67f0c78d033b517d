------------------------- MODULE OAuthTokensProofs -------------------------
(***************************************************************************)
(* What holds of OAuthTokens for every number of handlers, providers and   *)
(* grants.                                                                 *)
(***************************************************************************)
EXTENDS OAuthTokens, TLAPS

(* What rows and memories hold. *)
LEMMA RowFields ==
  ASSUME NEW a \in Grants \cup {None}, NEW f \in Grants \cup {None}, NEW d \in BOOLEAN
  PROVE  /\ Row(a, f, d) \in Columns
         /\ Row(a, f, d).access = a
         /\ Row(a, f, d).refresh = f
  BY DEF Row, Columns

LEMMA MemoryFields ==
  ASSUME NEW op, NEW p, NEW g, NEW n
  PROVE  /\ Memory(op, p, g, n).op = op
         /\ Memory(op, p, g, n).provider = p
         /\ Memory(op, p, g, n).grant = g
         /\ Memory(op, p, g, n).tries = n
  BY DEF Memory

LEMMA MemoryType ==
  ASSUME NEW op \in Op, NEW p \in Providers \cup {None},
         NEW g \in Grants \cup {None}, NEW n \in 0..MaxRetries
  PROVE  Memory(op, p, g, n) \in Request
  BY DEF Memory, Request

(* A handler that is about a token knows whose, and the provider. *)
WellFormed(q) ==
  /\ q \in Request
  /\ q.op # "idle" => q.provider \in Providers
  /\ q.op \in {"callback", "revoke", "read", "call"} \cup RefreshOps => q.grant \in Grants

LEMMA IdleForm == WellFormed(Idle) /\ Idle.op = "idle" /\ Idle.provider = None
<1>1. 0 \in 0..MaxRetries
  BY RetryAssumption
<1>2. Idle \in Request
  BY <1>1, MemoryType DEF Idle, Op
<1> QED
  BY <1>2, MemoryFields DEF Idle, WellFormed, RefreshOps

LEMMA BusyForm ==
  ASSUME NEW op \in Op, NEW p \in Providers, NEW g \in Grants \cup {None},
         NEW n \in 0..MaxRetries, g \in Grants \/ op \in {"disconnect", "wait"}
  PROVE  WellFormed(Memory(op, p, g, n))
<1>1. Memory(op, p, g, n) \in Request
  BY MemoryType
<1> QED
  BY <1>1, MemoryFields DEF WellFormed, RefreshOps

TypeInv == TypeOK /\ \A r \in Requests : WellFormed(req[r])

LEMMA Facts ==
  ASSUME TypeInv, NEW r \in Requests
  PROVE  /\ req[r] \in Request /\ req[r].op \in Op
         /\ req[r].grant \in Grants \cup {None} /\ req[r].tries \in 0..MaxRetries
         /\ req[r].op # "idle" => req[r].provider \in Providers
         /\ req[r].op \in {"callback", "revoke", "read", "call"} \cup RefreshOps =>
               req[r].grant \in Grants
  BY DEF TypeInv, WellFormed, Request

LEMMA Remembered ==
  ASSUME TypeInv, NEW r \in Requests, NEW q, WellFormed(q), Remember(r, q)
  PROVE  /\ req' \in [Requests -> Request]
         /\ \A s \in Requests : WellFormed(req'[s])
  BY DEF Remember, TypeInv, TypeOK, WellFormed

LEMMA Settled ==
  ASSUME TypeInv, NEW r \in Requests, NEW q, WellFormed(q), Settle(r, q)
  PROVE  /\ req' \in [Requests -> Request]
         /\ \A s \in Requests : WellFormed(req'[s])
         /\ lock' \in [Providers -> Requests \cup {None}]
  BY DEF Settle, TypeInv, TypeOK, WellFormed

(* A row is stored with an access token beside its refresh token, or without any. *)
LEMMA RowStored ==
  ASSUME TypeInv, NEW p \in Providers, NEW a \in Grants \cup {None},
         NEW f \in Grants \cup {None}, NEW d \in BOOLEAN, f # None => a # None,
         Store(p, Row(a, f, d))
  PROVE  /\ connection' \in [Providers -> Columns]
         /\ \A o \in Providers : connection'[o].refresh # None => connection'[o].access # None
<1>1. Row(a, f, d) \in Columns /\ Row(a, f, d).access = a /\ Row(a, f, d).refresh = f
  BY RowFields
<1>2. Row(a, f, d).refresh # None => Row(a, f, d).access # None
  BY <1>1
<1> QED
  BY <1>1, <1>2 DEF Store, TypeInv, TypeOK

(* What the histories tell of. *)
LEMMA HistoryStep ==
  ASSUME TypeInv, [Next]_vars
  PROVE  overtaken' \subseteq Requests /\ late' \subseteq Providers
<1>o. overtaken \subseteq Requests /\ late \subseteq Providers
  BY DEF TypeInv, TypeOK
<1>1. \/ overtaken' = overtaken
      \/ \E r \in Requests : overtaken' = overtaken \ {r}
      \/ \E p : overtaken' = overtaken \cup {r \in Requests : Refreshing(r, p)}
  BY DEF Next, vars, historyVars, Continue, ExchangeCode, ReadDisconnect, ReadUser, StoreCallback,
     StoreDisconnect, Choose, Revoke, Refresh, TokenAnswer, StoreRefreshed, HandleRejected,
     RefreshFails, CallAnswered, TooManyRequests, Fail, TokenDue, Withdraw, Restart
<1>2. \/ late' = late
      \/ \E p : late' = late \ {p}
      \/ \E r \in Requests : late' = late \cup {req[r].provider} /\ req[r].op = "accepted"
  BY DEF Next, vars, historyVars, Continue, ExchangeCode, ReadDisconnect, ReadUser, StoreCallback,
     StoreDisconnect, Choose, Revoke, Refresh, TokenAnswer, StoreRefreshed, HandleRejected,
     RefreshFails, CallAnswered, TooManyRequests, Fail, TokenDue, Withdraw, Restart
<1>3. overtaken' \subseteq Requests
  BY <1>o, <1>1
<1>4. late' \subseteq Providers
  <2>1. \A r \in Requests : req[r].op = "accepted" => req[r].provider \in Providers
    BY Facts
  <2> QED
    BY <1>o, <1>2, <2>1
<1> QED
  BY <1>3, <1>4

LEMMA TypeStep == TypeInv /\ [Next]_vars => TypeInv'
<1> DEFINE RestOK ==
      /\ connection \in [Providers -> Columns]
      /\ \A p \in Providers : connection[p].refresh # None => connection[p].access # None
      /\ lock \in [Providers -> Requests \cup {None}]
      /\ req \in [Requests -> Request]
      /\ granted \subseteq Grants
      /\ alive \subseteq granted
      /\ choice \in [Providers -> Grants \cup {None}]
      /\ \A r \in Requests : WellFormed(req[r])
<1>h. ASSUME TypeInv, [Next]_vars PROVE overtaken' \subseteq Requests /\ late' \subseteq Providers
  BY <1>h, HistoryStep
<1> SUFFICES ASSUME TypeInv, [Next]_vars PROVE RestOK'
  BY <1>h DEF TypeInv, TypeOK
<1> USE DEF providerVars, historyVars
<1>o. TypeOK
  BY DEF TypeInv
<1>z. 0 \in 0..MaxRetries
  BY RetryAssumption
<1>n. None \notin Grants
  BY NoneAssumption
<1>c. ASSUME NEW p \in Providers
      PROVE  /\ connection[p].access \in Grants \cup {None}
             /\ connection[p].refresh \in Grants \cup {None}
             /\ connection[p].due \in BOOLEAN
             /\ connection[p].refresh # None => connection[p].access # None
  BY <1>o DEF TypeOK, Columns
(* Handlers that only remember. *)
<1>m. ASSUME NEW r \in Requests, NEW q, WellFormed(q), Remember(r, q),
             UNCHANGED <<connection, lock, choice>>,
             granted' \subseteq Grants, alive' \subseteq granted'
      PROVE  RestOK'
  BY <1>m, Remembered DEF TypeInv, TypeOK
<1>1. CASE UNCHANGED vars
  BY <1>1 DEF vars, TypeInv, TypeOK, WellFormed
<1>2. ASSUME NEW r \in Requests, NEW p \in Providers, ExchangeCode(r, p) PROVE RestOK'
  <2>1. PICK g \in Grants : /\ granted' = granted \cup {g}
                            /\ alive' = alive \cup {g}
                            /\ Remember(r, Memory("callback", p, g, 0))
    BY <1>2 DEF ExchangeCode
  <2>2. WellFormed(Memory("callback", p, g, 0))
    BY <1>z, BusyForm DEF Op
  <2> QED
    BY <1>2, <2>1, <2>2, <1>m, <1>o DEF ExchangeCode, TypeOK
<1>3. ASSUME NEW r \in Requests, NEW p \in Providers, ReadDisconnect(r, p) PROVE RestOK'
  <2>1. WellFormed(Memory("disconnect", p, connection[p].refresh, 0))
    BY <1>z, <1>c, BusyForm DEF Op
  <2> QED
    BY <1>3, <2>1, <1>m, <1>o DEF ReadDisconnect, TypeOK
<1>4. ASSUME NEW r \in Requests, NEW p \in Providers, ReadUser(r, p) PROVE RestOK'
  <2>1. \/ /\ connection[p].access # None
           /\ Remember(r, Memory("call", p, connection[p].access, 0))
        \/ /\ connection[p].refresh # None
           /\ Remember(r, Memory("read", p, connection[p].refresh, 0))
    BY <1>4 DEF ReadUser
  <2>2. CASE /\ connection[p].access # None
             /\ Remember(r, Memory("call", p, connection[p].access, 0))
    <3>1. WellFormed(Memory("call", p, connection[p].access, 0))
      BY <2>2, <1>z, <1>c, BusyForm DEF Op
    <3> QED
      BY <1>4, <2>2, <3>1, <1>m, <1>o DEF ReadUser, TypeOK
  <2>3. CASE /\ connection[p].refresh # None
             /\ Remember(r, Memory("read", p, connection[p].refresh, 0))
    <3>1. WellFormed(Memory("read", p, connection[p].refresh, 0))
      BY <2>3, <1>z, <1>c, BusyForm DEF Op
    <3> QED
      BY <1>4, <2>3, <3>1, <1>m, <1>o DEF ReadUser, TypeOK
  <2> QED
    BY <2>1, <2>2, <2>3
<1>5. ASSUME NEW r \in Requests, Continue(r) PROVE RestOK'
  <2>s. ASSUME req[r].op \in {"callback", "revoke", "read", "call"} \cup RefreshOps
        PROVE  req[r].grant \in Grants /\ req[r].provider \in Providers
    <3>1. req[r].op # "idle"
      BY <2>s DEF RefreshOps
    <3> QED
      BY <2>s, <3>1, Facts
  <2>1. CASE StoreCallback(r)
    <3> DEFINE p == req[r].provider
               g == req[r].grant
    <3>1. g \in Grants /\ p \in Providers
      BY <2>1, <2>s DEF StoreCallback
    <3>2. Store(p, Row(g, g, FALSE)) \/ Store(p, Row(g, None, FALSE))
      BY <2>1 DEF StoreCallback
    <3>3. /\ connection' \in [Providers -> Columns]
          /\ \A o \in Providers : connection'[o].refresh # None => connection'[o].access # None
      BY <3>1, <3>2, RowStored
    <3>4. choice' \in [Providers -> Grants \cup {None}]
      BY <2>1, <3>1, <1>o DEF StoreCallback, Choose, TypeOK
    <3>5. req' \in [Requests -> Request] /\ \A s \in Requests : WellFormed(req'[s])
      BY <2>1, Remembered, IdleForm DEF StoreCallback
    <3> QED
      BY <2>1, <3>3, <3>4, <3>5 DEF StoreCallback, TypeInv, TypeOK
  <2>2. CASE StoreDisconnect(r)
    <3> DEFINE p == req[r].provider
               g == req[r].grant
    <3>1. p \in Providers /\ g \in Grants \cup {None}
      BY <2>2, Facts DEF StoreDisconnect
    <3>2. Store(p, Row(None, None, FALSE))
      BY <2>2 DEF StoreDisconnect, Disconnected
    <3>3. /\ connection' \in [Providers -> Columns]
          /\ \A o \in Providers : connection'[o].refresh # None => connection'[o].access # None
      BY <3>1, <3>2, RowStored
    <3>4. choice' \in [Providers -> Grants \cup {None}]
      BY <2>2, <3>1, <1>o DEF StoreDisconnect, Choose, TypeOK
    <3>5. CASE g = None
      BY <2>2, <3>3, <3>4, <3>5, Remembered, IdleForm DEF StoreDisconnect, TypeInv, TypeOK
    <3>6. CASE g # None
      <4>1. WellFormed(Memory("revoke", p, g, 0))
        BY <3>1, <3>6, <1>z, BusyForm DEF Op
      <4>2. Remember(r, Memory("revoke", p, g, 0))
        BY <2>2, <3>6 DEF StoreDisconnect
      <4> QED
        BY <2>2, <3>3, <3>4, <4>1, <4>2, Remembered DEF StoreDisconnect, TypeInv, TypeOK
    <3> QED
      BY <3>5, <3>6
  <2>3. CASE Revoke(r) \/ CallAnswered(r) \/ Fail(r)
    <3>1. /\ Remember(r, Idle) /\ UNCHANGED <<connection, lock, choice>>
          /\ granted' = granted /\ alive' \subseteq alive
      BY <2>3 DEF Revoke, CallAnswered, Fail
    <3>2. granted' \subseteq Grants /\ alive' \subseteq granted'
      BY <3>1, <1>o DEF TypeOK
    <3> QED
      BY <3>1, <3>2, <1>m, IdleForm
  <2>4. CASE Refresh(r)
    <3> DEFINE p == req[r].provider
    <3>1. req[r].grant \in Grants /\ p \in Providers
      BY <2>4, <2>s DEF Refresh
    <3>2. WellFormed(Memory("wait", p, None, 0)) /\ WellFormed(Memory("fetch", p, req[r].grant, 0))
      BY <3>1, <1>z, BusyForm DEF Op, RefreshOps
    <3>3. req' \in [Requests -> Request] /\ \A s \in Requests : WellFormed(req'[s])
      BY <2>4, <3>2, Remembered DEF Refresh
    <3>4. lock' \in [Providers -> Requests \cup {None}]
      BY <2>4, <3>1, <1>o DEF Refresh, TypeOK
    <3> QED
      BY <2>4, <3>3, <3>4 DEF Refresh, TypeInv, TypeOK
  <2>5. CASE TokenAnswer(r)
    <3>1. req[r].grant \in Grants /\ req[r].provider \in Providers
      BY <2>5, <2>s DEF TokenAnswer, RefreshOps
    <3>2. PICK op \in {"accepted", "rejected"} :
             Remember(r, Memory(op, req[r].provider, req[r].grant, 0))
      BY <2>5 DEF TokenAnswer
    <3>3. WellFormed(Memory(op, req[r].provider, req[r].grant, 0))
      BY <3>1, <1>z, BusyForm DEF Op, RefreshOps
    <3> QED
      BY <2>5, <3>2, <3>3, <1>m, <1>o DEF TokenAnswer, TypeOK
  <2>6. CASE StoreRefreshed(r)
    <3> DEFINE p == req[r].provider
               g == req[r].grant
    <3>1. g \in Grants /\ p \in Providers
      BY <2>6, <2>s DEF StoreRefreshed, RefreshOps
    <3>2. Store(p, Row(g, g, FALSE)) \/ Store(p, Row(g, connection[p].refresh, FALSE))
      BY <2>6 DEF StoreRefreshed
    <3>3. /\ connection' \in [Providers -> Columns]
          /\ \A o \in Providers : connection'[o].refresh # None => connection'[o].access # None
      BY <3>1, <3>2, <1>c, <1>n, RowStored
    <3>4. WellFormed(Memory("call", p, g, 0))
      BY <3>1, <1>z, BusyForm DEF Op
    <3> QED
      BY <2>6, <3>3, <3>4, Settled DEF StoreRefreshed, TypeInv, TypeOK
  <2>7. CASE HandleRejected(r)
    <3>1. req[r].provider \in Providers
      BY <2>7, <2>s DEF HandleRejected, RefreshOps
    <3>2. Store(req[r].provider, Row(None, None, FALSE)) \/ UNCHANGED connection
      BY <2>7 DEF HandleRejected, Disconnected
    <3>3. /\ connection' \in [Providers -> Columns]
          /\ \A o \in Providers : connection'[o].refresh # None => connection'[o].access # None
      BY <3>1, <3>2, <1>o, RowStored DEF TypeOK
    <3> QED
      BY <2>7, <3>3, Settled, IdleForm DEF HandleRejected, TypeInv, TypeOK
  <2>8. CASE RefreshFails(r)
    BY <2>8, Settled, IdleForm DEF RefreshFails, TypeInv, TypeOK
  <2>9. CASE TooManyRequests(r)
    <3>1. req[r].grant \in Grants /\ req[r].provider \in Providers
      BY <2>9, <2>s DEF TooManyRequests
    <3>2. req[r].tries + 1 \in 0..MaxRetries
      BY <2>9, Facts, RetryAssumption DEF TooManyRequests
    <3>3. WellFormed(Memory("call", req[r].provider, req[r].grant, req[r].tries + 1))
      BY <3>1, <3>2, BusyForm DEF Op
    <3> QED
      BY <2>9, <3>3, <1>m, <1>o DEF TooManyRequests, TypeOK
  <2> QED
    BY <1>5, <2>1, <2>2, <2>3, <2>4, <2>5, <2>6, <2>7, <2>8, <2>9 DEF Continue
<1>6. ASSUME NEW p \in Providers, TokenDue(p) PROVE RestOK'
  <2>1. /\ connection' \in [Providers -> Columns]
        /\ \A o \in Providers : connection'[o].refresh # None => connection'[o].access # None
    BY <1>6, <1>c, RowStored DEF TokenDue
  <2> QED
    BY <1>6, <2>1 DEF TokenDue, TypeInv, TypeOK, WellFormed
<1>7. ASSUME NEW g \in Grants, Withdraw(g) PROVE RestOK'
  BY <1>7 DEF Withdraw, TypeInv, TypeOK, WellFormed
<1>8. CASE Restart
  BY <1>8, IdleForm DEF Restart, TypeInv, TypeOK, WellFormed
<1> QED
  BY <1>1, <1>2, <1>3, <1>4, <1>5, <1>6, <1>7, <1>8 DEF Next

LEMMA TypeStart == Init => TypeInv
<1> SUFFICES ASSUME Init PROVE TypeInv
  OBVIOUS
<1>1. Disconnected \in Columns /\ Disconnected.refresh = None
  BY RowFields DEF Disconnected
<1>2. connection \in [Providers -> Columns] /\ \A p \in Providers : connection[p] = Disconnected
  BY <1>1 DEF Init
<1>3. req \in [Requests -> Request] /\ \A r \in Requests : WellFormed(req[r])
  BY IdleForm DEF Init, WellFormed
<1> QED
  BY <1>1, <1>2, <1>3 DEF Init, TypeInv, TypeOK

(* Every variable keeps its type, and no refresh token is stored without an
   access token. *)
THEOREM TokenTypes == Spec => []TypeOK
<1>1. TypeInv => TypeOK
  BY DEF TypeInv
<1> QED
  BY <1>1, TypeStart, TypeStep, PTL DEF Spec

-----------------------------------------------------------------------------
(* The refresh lock *)

LockInv == TypeInv /\ LockHeldByRefresh

(* Settling ends the refresh that holds the lock, and no other. *)
LEMMA SettleLock ==
  ASSUME LockInv, NEW r \in Requests, req[r].op \in RefreshOps,
         NEW q, q.op \notin RefreshOps, Settle(r, q)
  PROVE  LockHeldByRefresh'
<1> DEFINE p == req[r].provider
<1>1. p \in Providers /\ lock[p] = r
  <2>1. req[r].op # "idle"
    BY DEF RefreshOps
  <2> QED
    BY <2>1, Facts DEF LockInv, LockHeldByRefresh
<1>2. /\ lock' = [lock EXCEPT ![p] = None]
      /\ req' = [s \in Requests |->
                    IF s = r \/ (req[s].op = "wait" /\ req[s].provider = p) THEN q ELSE req[s]]
  BY DEF Settle
<1>3. ASSUME NEW s \in Requests, NEW o \in Providers
      PROVE  lock'[o] = s <=> (req'[s].op \in RefreshOps /\ req'[s].provider = o)
  <2>1. lock[o] = s <=> (req[s].op \in RefreshOps /\ req[s].provider = o)
    BY DEF LockInv, LockHeldByRefresh
  <2>2. lock'[o] = IF o = p THEN None ELSE lock[o]
    BY <1>1, <1>2 DEF LockInv, TypeInv, TypeOK
  <2>3. s # None
    BY NoneAssumption
  <2>4. CASE s = r \/ (req[s].op = "wait" /\ req[s].provider = p)
    <3>1. req'[s] = q
      BY <1>2, <2>4
    <3>2. lock'[o] # s
      BY <2>1, <2>2, <2>3, <2>4, <1>1 DEF RefreshOps
    <3> QED
      BY <3>1, <3>2
  <2>5. CASE ~(s = r \/ (req[s].op = "wait" /\ req[s].provider = p))
    <3>1. req'[s] = req[s]
      BY <1>2, <2>5
    <3>2. o = p => lock[o] # s
      BY <1>1, <2>5
    <3> QED
      BY <3>1, <3>2, <2>1, <2>2, <2>3
  <2> QED
    BY <2>4, <2>5
<1> QED
  BY <1>3 DEF LockHeldByRefresh

LEMMA LockStep == LockInv /\ [Next]_vars => LockInv'
<1> SUFFICES ASSUME LockInv, [Next]_vars PROVE LockHeldByRefresh'
  BY TypeStep DEF LockInv
<1>o. TypeOK
  BY DEF LockInv, TypeInv
(* Handlers that hold no lock and take none. *)
<1>m. ASSUME NEW r \in Requests, NEW q, q.op \notin RefreshOps, req[r].op \notin RefreshOps,
             Remember(r, q), UNCHANGED lock
      PROVE  LockHeldByRefresh'
  BY <1>m, <1>o DEF Remember, LockInv, LockHeldByRefresh, TypeOK
<1>i. Idle.op \notin RefreshOps
  BY IdleForm DEF RefreshOps
<1>1. CASE UNCHANGED <<req, lock>>
  BY <1>1 DEF LockInv, LockHeldByRefresh
<1>2. ASSUME NEW r \in Requests, NEW p \in Providers,
             ExchangeCode(r, p) \/ ReadDisconnect(r, p) \/ ReadUser(r, p)
      PROVE  LockHeldByRefresh'
  <2>1. \E op \in {"callback", "disconnect", "call", "read"} : \E g : Remember(r, Memory(op, p, g, 0))
    BY <1>2 DEF ExchangeCode, ReadDisconnect, ReadUser
  <2>2. PICK op, g : op \in {"callback", "disconnect", "call", "read"} /\ Remember(r, Memory(op, p, g, 0))
    BY <2>1
  <2>3. Memory(op, p, g, 0).op \notin RefreshOps
    BY <2>2, MemoryFields DEF RefreshOps
  <2>4. req[r].op \notin RefreshOps /\ UNCHANGED lock
    BY <1>2 DEF ExchangeCode, ReadDisconnect, ReadUser, RefreshOps
  <2> QED
    BY <2>2, <2>3, <2>4, <1>m
<1>3. ASSUME NEW r \in Requests, Continue(r) PROVE LockHeldByRefresh'
  <2>1. CASE \/ StoreCallback(r) \/ StoreDisconnect(r) \/ Revoke(r) \/ CallAnswered(r)
             \/ TooManyRequests(r) \/ Fail(r)
    <3>1. req[r].op \notin RefreshOps /\ UNCHANGED lock
      BY <2>1 DEF StoreCallback, StoreDisconnect, Revoke, CallAnswered, TooManyRequests, Fail,
         RefreshOps
    <3>2. \/ Remember(r, Idle)
          \/ \E op \in {"revoke", "call"} : \E p, g, n : Remember(r, Memory(op, p, g, n))
      BY <2>1 DEF StoreCallback, StoreDisconnect, Revoke, CallAnswered, TooManyRequests, Fail
    <3>3. CASE Remember(r, Idle)
      BY <3>1, <3>3, <1>m, <1>i
    <3>4. CASE \E op \in {"revoke", "call"} : \E p, g, n : Remember(r, Memory(op, p, g, n))
      <4>1. PICK op, p, g, n : op \in {"revoke", "call"} /\ Remember(r, Memory(op, p, g, n))
        BY <3>4
      <4>2. Memory(op, p, g, n).op \notin RefreshOps
        BY <4>1, MemoryFields DEF RefreshOps
      <4> QED
        BY <3>1, <4>1, <4>2, <1>m
    <3> QED
      BY <3>2, <3>3, <3>4
  <2>2. CASE Refresh(r)
    <3> DEFINE p == req[r].provider
    <3>1. req[r].op = "read" /\ p \in Providers
      BY <2>2, Facts DEF Refresh, LockInv
    <3>2. CASE lock[p] # None
      <4>1. Remember(r, Memory("wait", p, None, 0)) /\ UNCHANGED lock
        BY <2>2, <3>2 DEF Refresh
      <4>2. Memory("wait", p, None, 0).op \notin RefreshOps
        BY MemoryFields DEF RefreshOps
      <4> QED
        BY <4>1, <4>2, <3>1, <1>m DEF RefreshOps
    <3>3. CASE lock[p] = None
      <4>1. /\ lock' = [lock EXCEPT ![p] = r]
            /\ Remember(r, Memory("fetch", p, req[r].grant, 0))
        BY <2>2, <3>3 DEF Refresh
      <4>2. req'[r].op \in RefreshOps /\ req'[r].provider = p
        BY <4>1, <1>o, MemoryFields DEF Remember, TypeOK, RefreshOps
      <4>3. \A s \in Requests \ {r} : req'[s] = req[s]
        BY <4>1, <1>o DEF Remember, TypeOK
      <4>4. /\ lock'[p] = r
            /\ \A o \in Providers \ {p} : lock'[o] = lock[o]
        BY <4>1, <3>1, <1>o DEF TypeOK
      <4>5. ASSUME NEW s \in Requests, NEW o \in Providers
            PROVE  lock'[o] = s <=> (req'[s].op \in RefreshOps /\ req'[s].provider = o)
        <5>1. lock[o] = s <=> (req[s].op \in RefreshOps /\ req[s].provider = o)
          BY DEF LockInv, LockHeldByRefresh
        <5>2. s # None
          BY NoneAssumption
        <5>3. r = s => lock[o] # s
          BY <5>1, <3>1 DEF RefreshOps
        <5> QED
          BY <5>1, <5>2, <5>3, <4>2, <4>3, <4>4, <3>3
      <4> QED
        BY <4>5 DEF LockHeldByRefresh
    <3> QED
      BY <3>2, <3>3
  <2>3. CASE TokenAnswer(r)
    <3>1. PICK op \in {"accepted", "rejected"} :
             Remember(r, Memory(op, req[r].provider, req[r].grant, 0))
      BY <2>3 DEF TokenAnswer
    <3>2. /\ req'[r].op \in RefreshOps /\ req'[r].provider = req[r].provider
          /\ \A s \in Requests \ {r} : req'[s] = req[s]
      BY <3>1, <1>o, MemoryFields DEF Remember, TypeOK, RefreshOps
    <3>3. req[r].op \in RefreshOps /\ lock' = lock
      BY <2>3 DEF TokenAnswer, RefreshOps
    <3> QED
      BY <3>2, <3>3 DEF LockInv, LockHeldByRefresh
  <2>4. CASE StoreRefreshed(r) \/ HandleRejected(r) \/ RefreshFails(r)
    <3>1. /\ req[r].op \in RefreshOps
          /\ \/ Settle(r, Idle)
             \/ \E p, g : Settle(r, Memory("call", p, g, 0))
      BY <2>4 DEF StoreRefreshed, HandleRejected, RefreshFails, RefreshOps
    <3>2. ASSUME NEW p, NEW g PROVE Memory("call", p, g, 0).op \notin RefreshOps
      BY MemoryFields DEF RefreshOps
    <3> QED
      BY <3>1, <3>2, <1>i, SettleLock
  <2> QED
    BY <1>3, <2>1, <2>2, <2>3, <2>4 DEF Continue
<1>4. CASE (\E p \in Providers : TokenDue(p)) \/ (\E g \in Grants : Withdraw(g)) \/ UNCHANGED vars
  BY <1>4, <1>1 DEF TokenDue, Withdraw, vars
<1>5. CASE Restart
  <2>1. ASSUME NEW s \in Requests, NEW o \in Providers
        PROVE  lock'[o] # s /\ req'[s].op \notin RefreshOps
    BY <1>5, <1>i, NoneAssumption DEF Restart
  <2> QED
    BY <2>1 DEF LockHeldByRefresh
<1> QED
  BY <1>2, <1>3, <1>4, <1>5 DEF Next

(* One refresh per user and provider is on its way, and the lock is held by
   exactly that one. *)
THEOREM LockIsHeld == Spec => []LockHeldByRefresh
<1>1. Init => LockInv
  <2> SUFFICES ASSUME Init PROVE LockHeldByRefresh
    BY TypeStart DEF LockInv
  <2>1. ASSUME NEW s \in Requests, NEW o \in Providers
        PROVE  lock[o] # s /\ req[s].op \notin RefreshOps
    BY IdleForm, NoneAssumption DEF Init, RefreshOps
  <2> QED
    BY <2>1 DEF LockHeldByRefresh
<1>2. LockInv => LockHeldByRefresh
  BY DEF LockInv
<1> QED
  BY <1>1, <1>2, LockStep, PTL DEF Spec

-----------------------------------------------------------------------------
(* What is stored, in every interleaving *)

(* A refresh is under way that nothing has overtaken, with tokens that no
   overtaken one wrote. *)
InTime(r) ==
  /\ req[r].op \in {"read"} \cup RefreshOps
  /\ r \notin overtaken
  /\ req[r].provider \notin late

(* Such a refresh is for the connection the user chose last. *)
ChosenInv ==
  /\ TypeInv
  /\ StoredIsChosen
  /\ \A r \in Requests : InTime(r) => req[r].grant = choice[req[r].provider]

(* A row that is stored for the connection that was chosen, or late. *)
LEMMA ChosenStored ==
  ASSUME TypeInv, StoredIsChosen, NEW p \in Providers, NEW a \in Grants \cup {None},
         NEW f \in Grants \cup {None}, NEW d \in BOOLEAN, Store(p, Row(a, f, d)),
         choice' \in [Providers -> Grants \cup {None}],
         p \in late' \/ (a \in {choice'[p], None} /\ f \in {choice'[p], None}),
         \A o \in Providers \ {p} : choice'[o] = choice[o] /\ (o \in late => o \in late')
  PROVE  StoredIsChosen'
<1>1. Row(a, f, d).access = a /\ Row(a, f, d).refresh = f
  BY RowFields
<1>2. /\ connection'[p] = Row(a, f, d)
      /\ \A o \in Providers \ {p} : connection'[o] = connection[o]
  BY DEF Store, TypeInv, TypeOK
<1> QED
  BY <1>1, <1>2 DEF StoredIsChosen

LEMMA ChosenStep == ChosenInv /\ [Next]_vars => ChosenInv'
<1> SUFFICES ASSUME ChosenInv, [Next]_vars PROVE ChosenInv'
  OBVIOUS
<1> USE DEF historyVars
<1>t. TypeInv'
  BY TypeStep DEF ChosenInv
<1>o. TypeInv /\ TypeOK
  BY DEF ChosenInv, TypeInv
<1>n. None \notin Grants /\ None \notin Providers
  BY NoneAssumption
<1>0. CASE UNCHANGED vars
  BY <1>0, <1>t DEF ChosenInv, InTime, StoredIsChosen, vars
<1> SUFFICES ASSUME Next PROVE ChosenInv'
  BY <1>0
<1>r. ASSUME NEW r \in Requests, NEW q, Remember(r, q)
      PROVE  req'[r] = q /\ \A s \in Requests \ {r} : req'[s] = req[s]
  BY <1>r, <1>o DEF Remember, TypeOK
(* Handlers that only remember. *)
<1>m. ASSUME NEW r \in Requests, NEW q, Remember(r, q), UNCHANGED <<connection, choice, late>>,
             \A s \in Requests \ {r} : s \in overtaken => s \in overtaken',
             (q.op \in {"read"} \cup RefreshOps /\ r \notin overtaken' /\ q.provider \notin late)
                => q.grant = choice[q.provider]
      PROVE  ChosenInv'
  <2>1. StoredIsChosen'
    BY <1>m DEF ChosenInv, StoredIsChosen
  <2>2. ASSUME NEW s \in Requests, InTime(s)'
        PROVE  req'[s].grant = choice'[req'[s].provider]
    <3>1. CASE s = r
      BY <1>m, <1>r, <2>2, <3>1 DEF InTime
    <3>2. CASE s # r
      <4>1. req'[s] = req[s]
        BY <1>m, <1>r, <3>2
      <4>2. InTime(s)
        BY <1>m, <2>2, <3>2, <4>1 DEF InTime
      <4> QED
        BY <1>m, <4>1, <4>2 DEF ChosenInv
    <3> QED
      BY <3>1, <3>2
  <2> QED
    BY <2>1, <2>2, <1>t DEF ChosenInv
(* A refresh that ends lets others go on that are no refresh. *)
<1>s. ASSUME NEW r \in Requests, NEW q, Settle(r, q), choice' = choice, overtaken' = overtaken,
             late \subseteq late', StoredIsChosen', q.op \notin {"read"} \cup RefreshOps
      PROVE  ChosenInv'
  <2>1. \A s \in Requests : req'[s] \in {q, req[s]}
    BY <1>s DEF Settle
  <2>2. ASSUME NEW s \in Requests, InTime(s)'
        PROVE  req'[s].grant = choice'[req'[s].provider]
    <3>1. req'[s] = req[s] /\ InTime(s)
      BY <1>s, <2>1, <2>2 DEF InTime
    <3> QED
      BY <1>s, <3>1 DEF ChosenInv
  <2> QED
    BY <2>2, <1>s, <1>t DEF ChosenInv
<1>i. Idle.op \notin {"read"} \cup RefreshOps
  BY IdleForm DEF RefreshOps
(* The user connects or disconnects. *)
<1>c. ASSUME NEW r \in Requests, req[r].op \in {"callback", "disconnect"},
             NEW q, Remember(r, q), q.op \notin {"read"} \cup RefreshOps, StoredIsChosen',
             NEW g, Choose(req[r].provider, g)
      PROVE  ChosenInv'
  <2>1. req[r].provider \in Providers
    BY <1>c, <1>o, Facts
  <2>2. ASSUME NEW s \in Requests, InTime(s)'
        PROVE  req'[s].grant = choice'[req'[s].provider]
    <3>1. s # r /\ req'[s] = req[s] /\ req[s].op \in {"read"} \cup RefreshOps
      BY <1>c, <2>2, <1>r DEF InTime
    <3>2. req[s].provider \in Providers
      BY <3>1, <1>o, Facts DEF RefreshOps
    <3>3. req[s].provider # req[r].provider /\ s \notin overtaken
      BY <1>c, <2>2, <3>1 DEF Choose, Refreshing, InTime
    <3>4. choice'[req[s].provider] = choice[req[s].provider]
      BY <1>c, <3>2, <3>3, <1>o DEF Choose, TypeOK
    <3>5. req[s].provider \notin late
      BY <1>c, <2>2, <3>1, <3>3 DEF Choose, InTime
    <3>6. InTime(s)
      BY <3>1, <3>3, <3>5 DEF InTime
    <3> QED
      BY <3>1, <3>4, <3>6 DEF ChosenInv
  <2> QED
    BY <2>2, <1>c, <1>t DEF ChosenInv
<1>1. ASSUME NEW r \in Requests, NEW p \in Providers,
             ExchangeCode(r, p) \/ ReadDisconnect(r, p) \/ ReadUser(r, p)
      PROVE  ChosenInv'
  <2>1. /\ UNCHANGED <<connection, choice, late>>
        /\ \A s \in Requests \ {r} : s \in overtaken => s \in overtaken'
        /\ \/ \E op \in {"callback", "disconnect", "call"} : \E g : Remember(r, Memory(op, p, g, 0))
           \/ /\ connection[p].refresh # None
              /\ Remember(r, Memory("read", p, connection[p].refresh, 0))
    BY <1>1 DEF ExchangeCode, ReadDisconnect, ReadUser
  <2>2. CASE \E op \in {"callback", "disconnect", "call"} : \E g : Remember(r, Memory(op, p, g, 0))
    <3>1. PICK op, g : op \in {"callback", "disconnect", "call"} /\ Remember(r, Memory(op, p, g, 0))
      BY <2>2
    <3>2. Memory(op, p, g, 0).op \notin {"read"} \cup RefreshOps
      BY <3>1, MemoryFields DEF RefreshOps
    <3> QED
      BY <2>1, <3>1, <3>2, <1>m
  <2>3. CASE /\ connection[p].refresh # None
             /\ Remember(r, Memory("read", p, connection[p].refresh, 0))
    <3>1. p \notin late => connection[p].refresh = choice[p]
      BY <2>3 DEF ChosenInv, StoredIsChosen
    <3> QED
      BY <2>1, <2>3, <3>1, <1>m, MemoryFields
  <2> QED
    BY <2>1, <2>2, <2>3
<1>2. ASSUME NEW r \in Requests, Continue(r) PROVE ChosenInv'
  <2>1. CASE StoreCallback(r)
    <3> DEFINE p == req[r].provider
               g == req[r].grant
    <3>1. req[r].op = "callback" /\ Choose(p, g) /\ Remember(r, Idle)
      BY <2>1 DEF StoreCallback
    <3>2. g \in Grants /\ p \in Providers
      BY <3>1, <1>o, Facts
    <3>3. Store(p, Row(g, g, FALSE)) \/ Store(p, Row(g, None, FALSE))
      BY <2>1 DEF StoreCallback
    <3>4. /\ choice' \in [Providers -> Grants \cup {None}]
          /\ choice'[p] = g
          /\ \A o \in Providers \ {p} : choice'[o] = choice[o] /\ (o \in late => o \in late')
      BY <3>1, <3>2, <1>o DEF Choose, TypeOK
    <3>5. StoredIsChosen'
      BY <3>2, <3>3, <3>4, <1>o, ChosenStored DEF ChosenInv
    <3> QED
      BY <3>1, <3>5, <1>c, <1>i
  <2>2. CASE StoreDisconnect(r)
    <3> DEFINE p == req[r].provider
    <3>1. req[r].op = "disconnect" /\ Choose(p, None) /\ Store(p, Row(None, None, FALSE))
      BY <2>2 DEF StoreDisconnect, Disconnected
    <3>2. p \in Providers
      BY <3>1, <1>o, Facts
    <3>3. /\ choice' \in [Providers -> Grants \cup {None}]
          /\ \A o \in Providers \ {p} : choice'[o] = choice[o] /\ (o \in late => o \in late')
      BY <3>1, <3>2, <1>o DEF Choose, TypeOK
    <3>4. StoredIsChosen'
      BY <3>1, <3>2, <3>3, <1>o, ChosenStored DEF ChosenInv
    <3>5. Memory("revoke", p, req[r].grant, 0).op \notin {"read"} \cup RefreshOps
      BY MemoryFields DEF RefreshOps
    <3>6. Remember(r, Idle) \/ Remember(r, Memory("revoke", p, req[r].grant, 0))
      BY <2>2 DEF StoreDisconnect
    <3> QED
      BY <3>1, <3>4, <3>5, <3>6, <1>c, <1>i
  <2>3. CASE Revoke(r) \/ CallAnswered(r) \/ Fail(r)
    <3>1. Remember(r, Idle) /\ UNCHANGED <<connection, choice, late>> /\ overtaken' = overtaken
      BY <2>3 DEF Revoke, CallAnswered, Fail
    <3> QED
      BY <3>1, <1>m, <1>i
  <2>4. CASE Refresh(r) \/ TokenAnswer(r)
    <3> DEFINE p == req[r].provider
               g == req[r].grant
    <3>1. /\ req[r].op \in {"read"} \cup RefreshOps
          /\ UNCHANGED <<connection, choice, late>> /\ overtaken' = overtaken
          /\ \/ Remember(r, Memory("wait", p, None, 0))
             \/ \E op : Remember(r, Memory(op, p, g, 0))
      BY <2>4 DEF Refresh, TokenAnswer, RefreshOps
    <3>2. r \notin overtaken /\ p \notin late => g = choice[p]
      BY <3>1 DEF ChosenInv, InTime
    <3>3. Memory("wait", p, None, 0).op \notin {"read"} \cup RefreshOps
      BY MemoryFields DEF RefreshOps
    <3>4. CASE Remember(r, Memory("wait", p, None, 0))
      BY <3>1, <3>3, <3>4, <1>m
    <3>5. CASE \E op : Remember(r, Memory(op, p, g, 0))
      BY <3>1, <3>2, <3>5, <1>m, MemoryFields
    <3> QED
      BY <3>1, <3>4, <3>5
  <2>5. CASE StoreRefreshed(r)
    <3> DEFINE p == req[r].provider
               g == req[r].grant
    <3>1. /\ req[r].op \in RefreshOps /\ choice' = choice /\ overtaken' = overtaken
          /\ Settle(r, Memory("call", p, g, 0))
          /\ late' = IF r \in overtaken THEN late \cup {p} ELSE late
      BY <2>5 DEF StoreRefreshed, RefreshOps
    <3>2. g \in Grants /\ p \in Providers /\ connection[p].refresh \in Grants \cup {None}
      BY <3>1, <1>o, Facts DEF RefreshOps, TypeOK, Columns
    <3>3. p \in late' \/ (g = choice[p] /\ connection[p].refresh \in {choice[p], None})
      BY <3>1, <3>2 DEF ChosenInv, InTime, StoredIsChosen
    <3>4. Store(p, Row(g, g, FALSE)) \/ Store(p, Row(g, connection[p].refresh, FALSE))
      BY <2>5 DEF StoreRefreshed
    <3>5. StoredIsChosen'
      BY <3>1, <3>2, <3>3, <3>4, <1>o, ChosenStored DEF ChosenInv, TypeOK
    <3>6. Memory("call", p, g, 0).op \notin {"read"} \cup RefreshOps
      BY MemoryFields DEF RefreshOps
    <3> QED
      BY <3>1, <3>5, <3>6, <1>s
  <2>6. CASE HandleRejected(r) \/ RefreshFails(r)
    <3> DEFINE p == req[r].provider
    <3>1. /\ req[r].op \in RefreshOps /\ choice' = choice /\ overtaken' = overtaken
          /\ late' = late /\ Settle(r, Idle)
          /\ Store(p, Row(None, None, FALSE)) \/ UNCHANGED connection
      BY <2>6 DEF HandleRejected, RefreshFails, RefreshOps, Disconnected
    <3>2. p \in Providers
      BY <3>1, <1>o, Facts DEF RefreshOps
    <3>3. StoredIsChosen'
      <4>1. CASE UNCHANGED connection
        BY <3>1, <4>1 DEF ChosenInv, StoredIsChosen
      <4>2. CASE Store(p, Row(None, None, FALSE))
        BY <3>1, <3>2, <4>2, <1>o, ChosenStored DEF ChosenInv, TypeOK
      <4> QED
        BY <3>1, <4>1, <4>2
    <3> QED
      BY <3>1, <3>3, <1>s, <1>i
  <2>7. CASE TooManyRequests(r)
    <3>1. /\ Remember(r, Memory("call", req[r].provider, req[r].grant, req[r].tries + 1))
          /\ UNCHANGED <<connection, choice, late>> /\ overtaken' = overtaken
      BY <2>7 DEF TooManyRequests
    <3>2. Memory("call", req[r].provider, req[r].grant, req[r].tries + 1).op
             \notin {"read"} \cup RefreshOps
      BY MemoryFields DEF RefreshOps
    <3> QED
      BY <3>1, <3>2, <1>m
  <2> QED
    BY <1>2, <2>1, <2>2, <2>3, <2>4, <2>5, <2>6, <2>7 DEF Continue
<1>3. ASSUME NEW p \in Providers, TokenDue(p) PROVE ChosenInv'
  <2>1. /\ choice' = choice /\ req' = req /\ overtaken' = overtaken /\ late' = late
        /\ Store(p, Row(connection[p].access, connection[p].refresh, TRUE))
    BY <1>3 DEF TokenDue
  <2>2. /\ connection[p].access \in Grants \cup {None}
        /\ connection[p].refresh \in Grants \cup {None}
    BY <1>o DEF TypeOK, Columns
  <2>3. StoredIsChosen'
    BY <2>1, <2>2, <1>o, ChosenStored DEF ChosenInv, StoredIsChosen, TypeOK
  <2> QED
    BY <2>1, <2>3, <1>t DEF ChosenInv, InTime
<1>4. ASSUME NEW g \in Grants, Withdraw(g) PROVE ChosenInv'
  BY <1>4, <1>t DEF Withdraw, ChosenInv, InTime, StoredIsChosen
<1>5. CASE Restart
  BY <1>5, <1>t, <1>i DEF Restart, ChosenInv, InTime, StoredIsChosen
<1> QED
  BY <1>1, <1>2, <1>3, <1>4, <1>5 DEF Next

(* Whatever connecting, disconnecting and refreshes overlap, what is stored is
   of the connection the user chose last, unless a refresh wrote it during which
   the user connected or disconnected. *)
THEOREM ChosenIsStored == Spec => []StoredIsChosen
<1>1. Init => ChosenInv
  <2> SUFFICES ASSUME Init PROVE ChosenInv
    OBVIOUS
  <2>1. \A r \in Requests : req[r].op = "idle"
    BY IdleForm DEF Init
  <2>2. Disconnected.access = None /\ Disconnected.refresh = None
    BY RowFields DEF Disconnected
  <2>3. StoredIsChosen
    BY <2>2 DEF Init, StoredIsChosen
  <2> QED
    BY <2>1, <2>3, TypeStart DEF ChosenInv, InTime, RefreshOps
<1>2. ChosenInv => StoredIsChosen
  BY DEF ChosenInv
<1> QED
  BY <1>1, <1>2, ChosenStep, PTL DEF Spec
=============================================================================
