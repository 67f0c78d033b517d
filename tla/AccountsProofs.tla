--------------------------- MODULE AccountsProofs ---------------------------
(***************************************************************************)
(* What holds of Accounts for every number of handlers, browsers, tokens   *)
(* and codes.                                                              *)
(***************************************************************************)
EXTENDS Accounts, FiniteSetTheorems, TLAPS

Items == Codes \cup Secrets \cup ResetTokens \cup {None}

(* What a handler's memory holds. *)
LEMMA MemoryFields ==
  ASSUME NEW op, NEW browser, NEW token, NEW item
  PROVE  /\ Memory(op, browser, token, item).op = op
         /\ Memory(op, browser, token, item).browser = browser
         /\ Memory(op, browser, token, item).token = token
         /\ Memory(op, browser, token, item).item = item
  BY DEF Memory

LEMMA MemoryType ==
  ASSUME NEW op \in Op, NEW browser \in Browsers \cup {None},
         NEW token \in Tokens \cup {None}, NEW item \in Items
  PROVE  Memory(op, browser, token, item) \in Request
  BY DEF Memory, Request, Items

LEMMA OpType ==
  /\ SettingsOps \subseteq Op
  /\ ResetOps \subseteq Op
  /\ SessionOps \subseteq Op
  /\ {"idle", "reset", "resetDone"} \subseteq Op
  BY DEF Op

LEMMA IdleType == Idle \in Request
<1>1. "idle" \in Op /\ None \in Items
  BY DEF Op, Items
<1> QED
  BY <1>1, MemoryType DEF Idle

LEMMA RequestFields ==
  ASSUME TypeOK, NEW r \in Requests
  PROVE  /\ req[r] \in Request
         /\ req[r].op \in Op
         /\ req[r].browser \in Browsers \cup {None}
         /\ req[r].token \in Tokens \cup {None}
         /\ req[r].item \in Items
  BY DEF TypeOK, Request, Items

-----------------------------------------------------------------------------
(* Types *)

(* A handler that signs in or ends a session answers a browser, the others do
   not; and what it carries is what its operation needs. *)
WellFormed(q) ==
  /\ q \in Request
  /\ q.op \in SessionOps \cup {"reencrypt"} => q.browser \in Browsers
  /\ q.op \notin SessionOps \cup {"reencrypt"} => q.browser = None
  /\ q.op = "code" => q.item \in Codes
  /\ q.op \in {"verify", "reencrypt"} => q.item \in Secrets

TypeInv == TypeOK /\ \A r \in Requests : WellFormed(req[r])

LEMMA IdleWellFormed == WellFormed(Idle)
<1>1. Idle.op = "idle" /\ Idle.browser = None
  BY MemoryFields DEF Idle
<1> QED
  BY <1>1, IdleType DEF WellFormed, SessionOps

(* A memory for a browser, with any item the operation may carry. *)
LEMMA SessionForm ==
  ASSUME NEW op \in SessionOps \cup {"reencrypt"}, NEW b \in Browsers,
         NEW t \in Tokens \cup {None}, NEW x \in Items,
         op = "code" => x \in Codes, op \in {"verify", "reencrypt"} => x \in Secrets
  PROVE  WellFormed(Memory(op, b, t, x))
<1>1. op \in Op
  BY DEF Op, SettingsOps
<1>2. Memory(op, b, t, x) \in Request
  BY <1>1, MemoryType
<1> QED
  BY <1>2, MemoryFields DEF WellFormed

LEMMA OtherForm ==
  ASSUME NEW op \in Op \ (SessionOps \cup {"reencrypt"}), NEW x \in Items
  PROVE  WellFormed(Memory(op, None, None, x))
<1>1. Memory(op, None, None, x) \in Request
  BY MemoryType
<1>2. op # "code" /\ op \notin {"verify", "reencrypt"}
  BY DEF SessionOps
<1> QED
  BY <1>1, <1>2, MemoryFields DEF WellFormed

(* Storing a well-formed memory keeps all of them so. *)
LEMMA RememberForm ==
  ASSUME TypeInv, NEW r \in Requests, NEW q, WellFormed(q), Remember(r, q)
  PROVE  /\ req' \in [Requests -> Request]
         /\ \A s \in Requests : WellFormed(req'[s])
  BY DEF Remember, WellFormed, TypeInv, TypeOK

LEMMA Finished ==
  ASSUME TypeInv, NEW r \in Requests, Remember(r, Idle)
  PROVE  /\ req' \in [Requests -> Request]
         /\ \A s \in Requests : WellFormed(req'[s])
  BY IdleWellFormed, RememberForm

(* What Send stores. *)
LEMMA SendForm ==
  ASSUME TypeInv, NEW r \in Requests, NEW b \in Browsers,
         NEW op \in SessionOps \cup {"reencrypt"},
         NEW t \in Tokens \cup {None}, NEW x \in Items,
         op = "code" => x \in Codes, op \in {"verify", "reencrypt"} => x \in Secrets,
         Send(r, b, op, t, x)
  PROVE  /\ req' \in [Requests -> Request]
         /\ \A s \in Requests : WellFormed(req'[s])
         /\ excused' \subseteq Browsers
<1>1. WellFormed(Memory(op, b, t, x))
  BY SessionForm
<1>2. Remember(r, Memory(op, b, t, x)) /\ excused' \subseteq Browsers
  BY DEF Send, TypeInv, TypeOK
<1> QED
  BY <1>1, <1>2, RememberForm

LEMMA TypeStep == TypeInv /\ [Next]_vars => TypeInv'
<1> SUFFICES ASSUME TypeInv, [Next]_vars PROVE TypeInv'
  OBVIOUS
<1> USE DEF sessionVars, codeVars, secretVars
<1>t. TypeOK
  BY DEF TypeInv
<1>n. None \in Items /\ None \in Tokens \cup {None}
  BY DEF Items
<1>1. CASE UNCHANGED vars
  BY <1>1 DEF vars, TypeInv, TypeOK, WellFormed
<1>2. ASSUME NEW r \in Requests, NEW b \in Browsers, SignIn(r, b) PROVE TypeInv'
  <2>1. CASE Login(r, b)
    BY <2>1, <1>n, SendForm DEF Login, TypeInv, TypeOK, SessionOps
  <2>2. CASE GoogleCallback(r, b)
    BY <2>2, <1>n, SendForm DEF GoogleCallback, TypeInv, TypeOK, SessionOps
  <2>3. CASE VerifyTwoFactor(r, b)
    <3>1. twoFactorSecret \in Secrets /\ twoFactorSecret \in Items
      BY <2>3, <1>t DEF VerifyTwoFactor, TypeOK, Items
    <3>2. Send(r, b, "verify", None, twoFactorSecret)
      BY <2>3 DEF VerifyTwoFactor
    <3> QED
      BY <2>3, <3>1, <3>2, <1>n, SendForm DEF VerifyTwoFactor, TypeInv, TypeOK, SessionOps
  <2>4. CASE MatchBackupCode(r, b)
    <3>1. PICK c \in backupCodes \ usedCodes : Send(r, b, "code", None, c)
      BY <2>4 DEF MatchBackupCode
    <3>2. c \in Codes /\ c \in Items
      BY <1>t DEF TypeOK, Items
    <3> QED
      BY <2>4, <3>1, <3>2, <1>n, SendForm DEF MatchBackupCode, TypeInv, TypeOK, SessionOps
  <2> QED
    BY <1>2, <2>1, <2>2, <2>3, <2>4 DEF SignIn
<1>3. ASSUME NEW r \in Requests, NEW b \in Browsers, FindRefreshToken(r, b) PROVE TypeInv'
  <2>1. cookie[b] \in Tokens
    BY <1>3, <1>t DEF FindRefreshToken, TypeOK
  <2>2. PICK op \in {"rotate", "replayed"} : Send(r, b, op, cookie[b], None)
    BY <1>3 DEF FindRefreshToken
  <2> QED
    BY <1>3, <2>1, <2>2, <1>n, SendForm DEF FindRefreshToken, TypeInv, TypeOK, SessionOps
<1>e. ASSUME NEW r \in Requests, NEW q, WellFormed(q), DeleteUserRefreshTokens(r, q)
      PROVE  TypeInv'
  BY <1>e, RememberForm DEF DeleteUserRefreshTokens, TypeInv, TypeOK
<1>4. ASSUME NEW r \in Requests, NEW b \in Browsers, EndSession(r, b) PROVE TypeInv'
  <2>1. WellFormed(Memory("answer", b, None, None)) /\ WellFormed(Memory("deleteUser", b, None, None))
    BY <1>n, SessionForm DEF SessionOps
  <2> QED
    BY <1>4, <2>1, <1>e DEF EndSession, Logout, DeleteAccount
<1>o. ASSUME NEW op \in Op \ (SessionOps \cup {"reencrypt"}), NEW x \in Items, NEW r \in Requests,
             Remember(r, Memory(op, None, None, x))
      PROVE  req' \in [Requests -> Request] /\ \A s \in Requests : WellFormed(req'[s])
  BY <1>o, OtherForm, RememberForm
<1>5. ASSUME NEW r \in Requests, BeginSettings(r) PROVE TypeInv'
  <2>1. PICK op \in {"enable", "regenerate", "disable"} : Remember(r, Memory(op, None, None, None))
    BY <1>5 DEF BeginSettings
  <2> QED
    BY <1>5, <2>1, <1>n, <1>o DEF BeginSettings, TypeInv, TypeOK, Op, SettingsOps, SessionOps
<1>6. ASSUME NEW r \in Requests, RequestPasswordReset(r) PROVE TypeInv'
  BY <1>6, <1>n, <1>o DEF RequestPasswordReset, TypeInv, TypeOK, Op, ResetOps, SessionOps
<1>7. ASSUME NEW r \in Requests, FindResetToken(r) PROVE TypeInv'
  <2>1. PICK p \in resetTokens : Remember(r, Memory("reset", None, None, p))
    BY <1>7 DEF FindResetToken
  <2>2. p \in Items
    BY <1>t DEF TypeOK, Items
  <2> QED
    BY <1>7, <2>1, <2>2, <1>o DEF FindResetToken, TypeInv, TypeOK, Op, SessionOps
<1>8. ASSUME NEW r \in Requests, Continue(r) PROVE TypeInv'
  <2>b. ASSUME req[r].op \in SessionOps \cup {"reencrypt"}
        PROVE  req[r].browser \in Browsers /\ req[r].token \in Tokens \cup {None}
               /\ req[r].item \in Items
    BY <2>b, <1>t, RequestFields DEF TypeInv, WellFormed
  <2>f. ASSUME NEW op \in SessionOps \ {"code", "verify"}, NEW t \in Tokens \cup {None},
               req[r].op \in SessionOps \cup {"reencrypt"},
               Remember(r, Memory(op, req[r].browser, t, None))
        PROVE  req' \in [Requests -> Request] /\ \A s \in Requests : WellFormed(req'[s])
    <3>1. op \notin {"verify", "reencrypt", "code"} /\ op \in SessionOps \cup {"reencrypt"}
      BY DEF SessionOps
    <3>2. req[r].browser \in Browsers
      BY <2>b, <2>f
    <3>3. WellFormed(Memory(op, req[r].browser, t, None))
      BY <3>1, <3>2, <1>n, SessionForm
    <3> QED
      BY <3>3, <2>f, RememberForm
  <2>0. CASE IsTwoFactorSecretEncrypted(r)
    <3>1. /\ req[r].browser \in Browsers
          /\ req[r].item \in Secrets /\ req[r].item \in Items
      BY <2>0, <2>b DEF IsTwoFactorSecretEncrypted, TypeInv, WellFormed, SessionOps
    <3>2. WellFormed(Memory("reencrypt", req[r].browser, None, req[r].item))
      BY <3>1, SessionForm
    <3>3. WellFormed(Memory("issue", req[r].browser, None, None))
      BY <3>1, <1>n, SessionForm DEF SessionOps
    <3>4. PICK q : WellFormed(q) /\ Remember(r, q)
      BY <2>0, <3>2, <3>3 DEF IsTwoFactorSecretEncrypted
    <3> QED
      BY <2>0, <3>4, RememberForm DEF IsTwoFactorSecretEncrypted, TypeInv, TypeOK
  <2>1. CASE Reencrypt(r)
    <3>1. req[r].item \in Secrets
      BY <2>1 DEF Reencrypt, TypeInv, WellFormed
    <3>2. Remember(r, Memory("issue", req[r].browser, None, None))
          /\ req[r].op \in SessionOps \cup {"reencrypt"}
      BY <2>1 DEF Reencrypt
    <3>3. req' \in [Requests -> Request] /\ \A s \in Requests : WellFormed(req'[s])
      BY <3>2, <2>f, <1>n DEF SessionOps
    <3> QED
      BY <2>1, <3>1, <3>3 DEF Reencrypt, TypeInv, TypeOK
  <2>2. CASE ConsumeBackupCode(r)
    <3>1. req[r].op = "code" /\ req[r].item \in Codes
      BY <2>2 DEF ConsumeBackupCode, TypeInv, WellFormed
    <3>2. \/ Remember(r, Idle)
          \/ Remember(r, Memory("issue", req[r].browser, None, None))
      BY <2>2 DEF ConsumeBackupCode
    <3>3. req' \in [Requests -> Request] /\ \A s \in Requests : WellFormed(req'[s])
      BY <3>1, <3>2, <2>f, <1>n, Finished DEF SessionOps
    <3>4. usedCodes' \subseteq backupCodes /\ opened' \in [Codes -> Nat]
      BY <2>2, <3>1, <1>t DEF ConsumeBackupCode, TypeOK
    <3> QED
      BY <2>2, <3>3, <3>4 DEF ConsumeBackupCode, TypeInv, TypeOK
  <2>3. CASE StoreRefreshToken(r)
    <3>1. PICK t \in FreshTokens : /\ refreshTokens' = refreshTokens \cup {t}
                                   /\ Remember(r, Memory("answer", req[r].browser, t, None))
      BY <2>3 DEF StoreRefreshToken
    <3>2. t \in Tokens /\ req[r].op \in SessionOps
      BY <2>3 DEF FreshTokens, StoreRefreshToken, SessionOps
    <3>3. req' \in [Requests -> Request] /\ \A s \in Requests : WellFormed(req'[s])
      BY <3>1, <3>2, <2>f DEF SessionOps
    <3> QED
      BY <2>3, <3>1, <3>2, <3>3 DEF StoreRefreshToken, TypeInv, TypeOK
  <2>4. CASE Answer(r)
    <3>1. req[r].browser \in Browsers /\ req[r].token \in Tokens \cup {None}
      BY <2>4, <2>b DEF Answer, SessionOps
    <3> QED
      BY <2>4, <3>1, Finished DEF Answer, TypeInv, TypeOK
  <2>5. CASE DeleteRefreshToken(r)
    <3>1. req' \in [Requests -> Request] /\ \A s \in Requests : WellFormed(req'[s])
      BY <2>5, <2>f, <1>n DEF DeleteRefreshToken, SessionOps
    <3> QED
      BY <2>5, <3>1 DEF DeleteRefreshToken, TypeInv, TypeOK
  <2>6. CASE RevokeAll(r)
    BY <2>6, <1>e, IdleWellFormed DEF RevokeAll
  <2>7. CASE DeleteUser(r)
    <3>1. req' \in [Requests -> Request] /\ \A s \in Requests : WellFormed(req'[s])
      BY <2>7, <2>f, <1>n DEF DeleteUser, SessionOps
    <3> QED
      BY <2>7, <3>1 DEF DeleteUser, TypeInv, TypeOK
  <2>8. CASE DeleteBackupCodes(r)
    <3>1. AfterClear[req[r].op] \in {"enableCodes", "newCodes", "switchOff"}
      BY <2>8 DEF DeleteBackupCodes, AfterClear
    <3>2. AfterClear[req[r].op] \in Op \ (SessionOps \cup {"reencrypt"})
      BY <3>1 DEF Op, SettingsOps, SessionOps
    <3> QED
      BY <2>8, <3>2, <1>n, <1>o DEF DeleteBackupCodes, TypeInv, TypeOK
  <2>9. CASE CreateBackupCodes(r)
    <3>1. PICK c \in Fresh(Codes, backupCodes) : /\ backupCodes' = backupCodes \cup {c}
                                                 /\ opened' = [opened EXCEPT ![c] = 0]
      BY <2>9 DEF CreateBackupCodes
    <3>2. c \in Codes
      BY DEF Fresh
    <3>3. Remember(r, Idle) \/ Remember(r, Memory("switchOn", None, None, None))
      BY <2>9 DEF CreateBackupCodes
    <3>4. "switchOn" \in Op \ (SessionOps \cup {"reencrypt"})
      BY DEF Op, SettingsOps, SessionOps
    <3>5. req' \in [Requests -> Request] /\ \A s \in Requests : WellFormed(req'[s])
      BY <3>3, <3>4, <1>n, <1>o, Finished
    <3> QED
      BY <2>9, <3>1, <3>2, <3>5 DEF CreateBackupCodes, TypeInv, TypeOK
  <2>10. CASE EnableTwoFactor(r)
    BY <2>10, Finished DEF EnableTwoFactor, TypeInv, TypeOK
  <2>11. CASE DisableTwoFactor(r)
    BY <2>11, Finished DEF DisableTwoFactor, TypeInv, TypeOK
  <2>12. CASE DeleteUserResetTokens(r)
    BY <2>12, <1>n, <1>o DEF DeleteUserResetTokens, TypeInv, TypeOK, Op, ResetOps, SessionOps
  <2>13. CASE CreateResetToken(r)
    BY <2>13, Finished DEF CreateResetToken, Fresh, TypeInv, TypeOK
  <2>14. CASE UpdatePassword(r)
    BY <2>14, <1>t, <1>o, RequestFields DEF UpdatePassword, TypeInv, TypeOK, Op, SessionOps
  <2>15. CASE DeleteResetToken(r)
    BY <2>15, Finished DEF DeleteResetToken, TypeInv, TypeOK
  <2>16. CASE Fail(r)
    <3>1. excused' \subseteq Browsers
      BY <2>16, <1>t, RequestFields DEF Fail, TypeOK
    <3> QED
      BY <2>16, <3>1, Finished DEF Fail, TypeInv, TypeOK
  <2> QED
    BY <1>8, <2>0, <2>1, <2>2, <2>3, <2>4, <2>5, <2>6, <2>7, <2>8, <2>9, <2>10, <2>11,
       <2>12, <2>13, <2>14, <2>15, <2>16 DEF Continue
<1>9. CASE SetupTwoFactor
  BY <1>9 DEF SetupTwoFactor, Fresh, TypeInv, TypeOK, WellFormed
<1>10. CASE PurgeExpiredResetTokens
  BY <1>10 DEF PurgeExpiredResetTokens, TypeInv, TypeOK, WellFormed
<1> QED
  BY <1>1, <1>2, <1>3, <1>4, <1>5, <1>6, <1>7, <1>8, <1>9, <1>10 DEF Next

LEMMA TypeStart == Init => TypeInv
<1> SUFFICES ASSUME Init PROVE TypeInv
  OBVIOUS
<1>1. req \in [Requests -> Request] /\ \A r \in Requests : WellFormed(req[r])
  BY IdleType, IdleWellFormed DEF Init
<1> QED
  BY <1>1 DEF Init, TypeInv, TypeOK

(* Every variable keeps its type, however the handlers interleave. *)
THEOREM AccountTypes == Spec => []TypeOK
<1>1. TypeInv => TypeOK
  BY DEF TypeInv
<1> QED
  BY <1>1, TypeStart, TypeStep, PTL DEF Spec

-----------------------------------------------------------------------------
(* Backup codes *)

(* A code that can still be used has opened nothing. *)
CodesInv ==
  /\ TypeInv
  /\ \A c \in Codes : opened[c] <= 1
  /\ \A c \in backupCodes \ usedCodes : opened[c] = 0

LEMMA CodesStep == CodesInv /\ [Next]_vars => CodesInv'
<1> SUFFICES ASSUME CodesInv, [Next]_vars PROVE CodesInv'
  OBVIOUS
<1>t. TypeInv'
  BY TypeStep DEF CodesInv
<1>o. TypeOK
  BY DEF CodesInv, TypeInv
<1>u. CASE UNCHANGED codeVars
  BY <1>u, <1>t DEF CodesInv, codeVars
<1>1. ASSUME NEW r \in Requests, ConsumeBackupCode(r) PROVE CodesInv'
  <2> DEFINE c == req[r].item
  <2>1. CASE c \in backupCodes \ usedCodes
    <3>1. /\ usedCodes' = usedCodes \cup {c}
          /\ backupCodes' = backupCodes
          /\ opened' = [opened EXCEPT ![c] = opened[c] + 1]
      BY <1>1, <2>1 DEF ConsumeBackupCode
    <3>2. opened[c] = 0 /\ c \in Codes
      BY <2>1, <1>o DEF CodesInv, TypeOK
    <3> QED
      BY <3>1, <3>2, <1>t, <1>o DEF CodesInv, TypeOK
  <2>2. CASE c \notin backupCodes \ usedCodes
    BY <1>1, <2>2, <1>t DEF ConsumeBackupCode, CodesInv
  <2> QED
    BY <2>1, <2>2
<1>2. ASSUME NEW r \in Requests, DeleteBackupCodes(r) PROVE CodesInv'
  BY <1>2, <1>t DEF DeleteBackupCodes, CodesInv
<1>3. ASSUME NEW r \in Requests, CreateBackupCodes(r) PROVE CodesInv'
  <2>1. PICK c \in Fresh(Codes, backupCodes) : /\ backupCodes' = backupCodes \cup {c}
                                               /\ opened' = [opened EXCEPT ![c] = 0]
    BY <1>3 DEF CreateBackupCodes
  <2>2. c \in Codes /\ usedCodes' = usedCodes
    BY <1>3 DEF Fresh, CreateBackupCodes
  <2> QED
    BY <2>1, <2>2, <1>t, <1>o DEF CodesInv, TypeOK
<1>4. ASSUME NEW r \in Requests, DeleteUser(r) PROVE CodesInv'
  BY <1>4, <1>t DEF DeleteUser, CodesInv
<1>5. ASSUME NEW r \in Requests, Continue(r) PROVE CodesInv'
  <2>1. CASE UNCHANGED codeVars
    BY <2>1, <1>u
  <2>2. CASE ~UNCHANGED codeVars
    <3>1. ConsumeBackupCode(r) \/ DeleteBackupCodes(r) \/ CreateBackupCodes(r) \/ DeleteUser(r)
      BY <1>5, <2>2 DEF Continue, IsTwoFactorSecretEncrypted, Reencrypt, StoreRefreshToken,
         Answer, DeleteRefreshToken, RevokeAll, DeleteUserRefreshTokens, EnableTwoFactor, DisableTwoFactor,
         DeleteUserResetTokens, CreateResetToken, UpdatePassword, DeleteResetToken, Fail
    <3> QED
      BY <3>1, <1>1, <1>2, <1>3, <1>4
  <2> QED
    BY <2>1, <2>2
<1>6. CASE ~\E r \in Requests : Continue(r)
  <2>1. UNCHANGED codeVars
    BY <1>6 DEF Next, SignIn, Login, GoogleCallback, VerifyTwoFactor, MatchBackupCode,
       FindRefreshToken, EndSession, Logout, DeleteAccount, DeleteUserRefreshTokens,
       BeginSettings, RequestPasswordReset, FindResetToken, SetupTwoFactor,
       PurgeExpiredResetTokens, vars
  <2> QED
    BY <2>1, <1>u
<1> QED
  BY <1>5, <1>6

(* A backup code opens at most one session, whichever logins present it at
   once and however its batch is replaced meanwhile: the code that a handler
   remembers is not the one that a later batch stands for. *)
THEOREM CodeIsUsedOnce == Spec => []CodeOpensOneSession
<1>1. Init => CodesInv
  BY TypeStart DEF Init, CodesInv
<1>2. CodesInv => CodeOpensOneSession
  BY DEF CodesInv, CodeOpensOneSession
<1> QED
  BY <1>1, <1>2, CodesStep, PTL DEF Spec

-----------------------------------------------------------------------------
(* Two-factor settings, while their handlers do not overlap *)

AtMostOne(S) == S = {} \/ \E x \in S : S = {x}

(* What the handler that is under way may rely on. *)
SettingsInv ==
  /\ TypeInv
  /\ NoContention
  /\ twoFactorEnabled => account /\ twoFactorSecret # None
  /\ AtMostOne(backupCodes)
  /\ AtMostOne(resetTokens)
  /\ \A r \in Requests :
       /\ req[r].op \in {"enable", "enableCodes", "switchOn"} /\ account =>
             twoFactorSecret # None
       /\ req[r].op \in {"enableCodes", "newCodes"} => backupCodes = {}
       /\ req[r].op = "createReset" => resetTokens = {}

(* Nothing is lost by a handler that takes a step without entering one of the
   operations that rely on something. *)
Relies == {"enable", "enableCodes", "switchOn", "newCodes", "createReset"}

LEMMA QuietStep ==
  ASSUME SettingsInv, TypeInv', NoContention', UNCHANGED <<secretVars, backupCodes, resetTokens, account>>,
         \A r \in Requests : req'[r] = req[r] \/ req'[r].op \notin Relies
  PROVE  SettingsInv'
  BY DEF SettingsInv, AtMostOne, secretVars, Relies

LEMMA SettingsStep == SettingsInv /\ [Next /\ NoContention']_vars => SettingsInv'
<1> SUFFICES ASSUME SettingsInv, [Next /\ NoContention']_vars PROVE SettingsInv'
  OBVIOUS
<1>t. TypeInv'
  BY TypeStep DEF SettingsInv
<1>o. TypeOK
  BY DEF SettingsInv, TypeInv
<1>0. CASE UNCHANGED vars
  BY <1>0 DEF SettingsInv, TypeInv, TypeOK, WellFormed, NoContention, AtMostOne, vars,
     sessionVars, codeVars, secretVars
<1> SUFFICES ASSUME Next, NoContention' PROVE SettingsInv'
  BY <1>0
<1>m. ASSUME NEW r \in Requests, NEW q, Remember(r, q)
      PROVE  req'[r] = q /\ \A s \in Requests \ {r} : req'[s] = req[s]
  BY <1>m, <1>o DEF Remember, TypeOK
<1>q. ASSUME UNCHANGED <<secretVars, backupCodes, resetTokens, account>>,
             NEW r \in Requests, NEW q, q.op \notin Relies, Remember(r, q)
      PROVE  SettingsInv'
  BY <1>q, <1>m, <1>t, QuietStep
<1>i. Idle.op = "idle"
  BY MemoryFields DEF Idle
<1> USE DEF sessionVars, codeVars
<1>1. ASSUME NEW r \in Requests, NEW b \in Browsers, SignIn(r, b) \/ FindRefreshToken(r, b)
      PROVE  SettingsInv'
  <2>1. UNCHANGED <<secretVars, backupCodes, resetTokens, account>>
    BY <1>1 DEF SignIn, Login, GoogleCallback, VerifyTwoFactor, MatchBackupCode, FindRefreshToken
  <2>2. \E op, t, x : op \in {"issue", "verify", "code", "rotate", "replayed"} /\
           Remember(r, Memory(op, b, t, x))
    BY <1>1 DEF SignIn, Login, GoogleCallback, VerifyTwoFactor, MatchBackupCode,
                FindRefreshToken, Send
  <2>3. PICK op, t, x : op \in {"issue", "verify", "code", "rotate", "replayed"} /\
           Remember(r, Memory(op, b, t, x))
    BY <2>2
  <2>4. Memory(op, b, t, x).op \notin Relies
    BY <2>3, MemoryFields DEF Relies
  <2> QED
    BY <2>1, <2>3, <2>4, <1>q
<1>2. ASSUME NEW r \in Requests, NEW b \in Browsers, EndSession(r, b) PROVE SettingsInv'
  <2>1. UNCHANGED <<secretVars, backupCodes, resetTokens, account>>
    BY <1>2 DEF EndSession, Logout, DeleteAccount, DeleteUserRefreshTokens
  <2>2. PICK op \in {"answer", "deleteUser"} : Remember(r, Memory(op, b, None, None))
    BY <1>2 DEF EndSession, Logout, DeleteAccount, DeleteUserRefreshTokens
  <2>3. Memory(op, b, None, None).op \notin Relies
    BY MemoryFields DEF Relies
  <2> QED
    BY <2>1, <2>2, <2>3, <1>q
<1>3. ASSUME NEW r \in Requests, BeginSettings(r) PROVE SettingsInv'
  <2>1. PICK op \in {"enable", "regenerate", "disable"} :
           /\ Remember(r, Memory(op, None, None, None))
           /\ op = "enable" => twoFactorSecret # None
    BY <1>3 DEF BeginSettings
  <2>2. req'[r].op = op /\ \A s \in Requests \ {r} : req'[s] = req[s]
    BY <2>1, <1>m, MemoryFields
  <2> QED
    BY <1>3, <2>1, <2>2, <1>t DEF BeginSettings, SettingsInv, AtMostOne, secretVars
<1>4. ASSUME NEW r \in Requests, RequestPasswordReset(r) \/ FindResetToken(r) PROVE SettingsInv'
  <2>1. UNCHANGED <<secretVars, backupCodes, resetTokens, account>>
    BY <1>4 DEF RequestPasswordReset, FindResetToken
  <2>2. \E op, p : op \in {"clearResets", "reset"} /\ Remember(r, Memory(op, None, None, p))
    BY <1>4 DEF RequestPasswordReset, FindResetToken
  <2>3. PICK op, p : op \in {"clearResets", "reset"} /\ Remember(r, Memory(op, None, None, p))
    BY <2>2
  <2>4. Memory(op, None, None, p).op \notin Relies
    BY <2>3, MemoryFields DEF Relies
  <2> QED
    BY <2>1, <2>3, <2>4, <1>q
<1>5. ASSUME NEW r \in Requests, Continue(r) PROVE SettingsInv'
  <2>1. CASE \/ IsTwoFactorSecretEncrypted(r)
             \/ ConsumeBackupCode(r) \/ StoreRefreshToken(r) \/ Answer(r)
             \/ DeleteRefreshToken(r) \/ RevokeAll(r) \/ UpdatePassword(r) \/ Fail(r)
    <3>1. UNCHANGED <<secretVars, backupCodes, resetTokens, account>>
      BY <2>1 DEF IsTwoFactorSecretEncrypted, ConsumeBackupCode, StoreRefreshToken, Answer,
         DeleteRefreshToken, RevokeAll, DeleteUserRefreshTokens, UpdatePassword, Fail
    <3>2. \/ Remember(r, Idle)
          \/ \E op, b, t, x : op \in {"issue", "reencrypt", "answer", "reissue", "resetDone"} /\
               Remember(r, Memory(op, b, t, x))
      BY <2>1 DEF IsTwoFactorSecretEncrypted, ConsumeBackupCode, StoreRefreshToken, Answer,
         DeleteRefreshToken, RevokeAll, DeleteUserRefreshTokens, UpdatePassword, Fail
    <3>3. CASE Remember(r, Idle)
      BY <3>1, <3>3, <1>q, <1>i DEF Relies
    <3>4. CASE \E op, b, t, x : op \in {"issue", "reencrypt", "answer", "reissue", "resetDone"} /\
                  Remember(r, Memory(op, b, t, x))
      <4>1. PICK op, b, t, x : op \in {"issue", "reencrypt", "answer", "reissue", "resetDone"} /\
                  Remember(r, Memory(op, b, t, x))
        BY <3>4
      <4>2. Memory(op, b, t, x).op \notin Relies
        BY <4>1, MemoryFields DEF Relies
      <4> QED
        BY <3>1, <4>1, <4>2, <1>q
    <3> QED
      BY <3>2, <3>3, <3>4
  <2>2. CASE Reencrypt(r)
    <3>1. req[r].op = "reencrypt" /\ req[r].item \in Secrets /\ req[r].item # None
      BY <2>2, NoneAssumption DEF Reencrypt, SettingsInv, TypeInv, WellFormed
    <3>2. req'[r].op = "issue" /\ \A s \in Requests \ {r} : req'[s] = req[s]
      BY <2>2, <1>m, MemoryFields DEF Reencrypt
    <3> QED
      BY <2>2, <3>1, <3>2, <1>t DEF Reencrypt, SettingsInv, AtMostOne
  <2>3. CASE DeleteUser(r)
    <3>1. req'[r].op = "answer" /\ \A s \in Requests \ {r} : req'[s] = req[s]
      BY <2>3, <1>m, MemoryFields DEF DeleteUser
    <3> QED
      BY <2>3, <3>1, <1>t DEF DeleteUser, SettingsInv, AtMostOne
  <2>4. CASE DeleteBackupCodes(r)
    <3>1. /\ req'[r].op = AfterClear[req[r].op]
          /\ \A s \in Requests \ {r} : req'[s] = req[s]
      BY <2>4, <1>m, MemoryFields DEF DeleteBackupCodes
    <3>2. /\ req'[r].op \in {"enableCodes", "newCodes", "switchOff"}
          /\ req'[r].op = "enableCodes" => req[r].op = "enable"
      BY <2>4, <3>1 DEF DeleteBackupCodes, AfterClear
    <3> QED
      BY <2>4, <3>1, <3>2, <1>t DEF DeleteBackupCodes, SettingsInv, AtMostOne, secretVars
  <2>5. CASE CreateBackupCodes(r)
    <3>1. PICK c : backupCodes' = backupCodes \cup {c}
      BY <2>5 DEF CreateBackupCodes
    <3>2. /\ req[r].op \in {"enableCodes", "newCodes"}
          /\ \A s \in Requests \ {r} : req'[s] = req[s]
          /\ \/ req'[r].op = "switchOn" /\ req[r].op = "enableCodes"
             \/ req'[r].op = "idle"
      BY <2>5, <1>m, <1>i, MemoryFields DEF CreateBackupCodes
    <3>3. backupCodes = {}
      BY <3>2 DEF SettingsInv
    <3>4. backupCodes' = {c}
      BY <3>1, <3>3
    <3>5. \A s \in Requests \ {r} : req'[s].op \notin SettingsOps
      BY <3>2 DEF SettingsInv, NoContention, SettingsOps
    <3>6. AtMostOne(backupCodes)'
      BY <3>4 DEF AtMostOne
    <3> QED
      BY <2>5, <3>2, <3>5, <3>6, <1>t DEF CreateBackupCodes, SettingsInv, SettingsOps, AtMostOne, secretVars
  <2>6. CASE EnableTwoFactor(r)
    <3>1. req'[r].op = "idle" /\ \A s \in Requests \ {r} : req'[s] = req[s]
      BY <2>6, <1>m, <1>i DEF EnableTwoFactor
    <3>2. twoFactorSecret # None
      BY <2>6 DEF EnableTwoFactor, SettingsInv
    <3> QED
      BY <2>6, <3>1, <3>2, <1>t DEF EnableTwoFactor, SettingsInv, AtMostOne
  <2>7. CASE DisableTwoFactor(r)
    <3>1. req'[r].op = "idle" /\ \A s \in Requests \ {r} : req'[s] = req[s]
      BY <2>7, <1>m, <1>i DEF DisableTwoFactor
    <3>2. \A s \in Requests \ {r} : req'[s].op \notin SettingsOps
      BY <2>7, <3>1 DEF DisableTwoFactor, SettingsInv, NoContention, SettingsOps
    <3> QED
      BY <2>7, <3>1, <3>2, <1>t DEF DisableTwoFactor, SettingsInv, SettingsOps, AtMostOne
  <2>8. CASE DeleteUserResetTokens(r)
    <3>1. req'[r].op = "createReset" /\ \A s \in Requests \ {r} : req'[s] = req[s]
      BY <2>8, <1>m, MemoryFields DEF DeleteUserResetTokens
    <3> QED
      BY <2>8, <3>1, <1>t DEF DeleteUserResetTokens, SettingsInv, AtMostOne, secretVars
  <2>9. CASE CreateResetToken(r)
    <3>1. PICK p : resetTokens' = resetTokens \cup {p}
      BY <2>9 DEF CreateResetToken
    <3>2. /\ req[r].op = "createReset" /\ req'[r].op = "idle"
          /\ \A s \in Requests \ {r} : req'[s] = req[s]
      BY <2>9, <1>m, <1>i DEF CreateResetToken
    <3>3. resetTokens = {}
      BY <3>2 DEF SettingsInv
    <3>4. AtMostOne(resetTokens)'
      BY <3>1, <3>3 DEF AtMostOne
    <3>5. \A s \in Requests \ {r} : req'[s].op # "createReset"
      BY <3>2 DEF SettingsInv, NoContention, ResetOps
    <3> QED
      BY <2>9, <3>2, <3>4, <3>5, <1>t DEF CreateResetToken, SettingsInv, AtMostOne, secretVars
  <2>10. CASE DeleteResetToken(r)
    <3>1. req'[r].op = "idle" /\ \A s \in Requests \ {r} : req'[s] = req[s]
      BY <2>10, <1>m, <1>i DEF DeleteResetToken
    <3>2. resetTokens' \subseteq resetTokens
      BY <2>10 DEF DeleteResetToken
    <3>3. AtMostOne(resetTokens)'
      BY <3>2 DEF SettingsInv, AtMostOne
    <3> QED
      BY <2>10, <3>1, <3>2, <3>3, <1>t DEF DeleteResetToken, SettingsInv, AtMostOne, secretVars
  <2> QED
    BY <1>5, <2>1, <2>2, <2>3, <2>4, <2>5, <2>6, <2>7, <2>8, <2>9, <2>10 DEF Continue
<1>6. CASE SetupTwoFactor
  <2>1. twoFactorSecret' # None
    BY <1>6, NoneAssumption DEF SetupTwoFactor, Fresh
  <2> QED
    BY <1>6, <2>1, <1>t DEF SetupTwoFactor, SettingsInv, AtMostOne
<1>7. CASE PurgeExpiredResetTokens
  <2>1. resetTokens' \subseteq resetTokens
    BY <1>7 DEF PurgeExpiredResetTokens
  <2>2. AtMostOne(resetTokens)'
    BY <2>1 DEF SettingsInv, AtMostOne
  <2> QED
    BY <1>7, <2>1, <2>2, <1>t DEF PurgeExpiredResetTokens, SettingsInv, AtMostOne, secretVars
<1> QED
  BY <1>1, <1>2, <1>3, <1>4, <1>5, <1>6, <1>7 DEF Next

(* Initially a two-factor account has a secret, and nobody is under way. *)
LEMMA SettingsStart == Init => SettingsInv
<1> SUFFICES ASSUME Init PROVE SettingsInv
  OBVIOUS
<1>1. \A r \in Requests : req[r].op = "idle"
  BY MemoryFields DEF Init, Idle
<1>2. NoContention
  BY <1>1 DEF NoContention, SettingsOps, ResetOps
<1>3. twoFactorEnabled => account /\ twoFactorSecret # None
  BY NoneAssumption DEF Init
<1> QED
  BY <1>1, <1>2, <1>3, TypeStart DEF Init, SettingsInv, AtMostOne

LEMMA SettingsHold == ApartSpec => []SettingsInv
  BY SettingsStart, SettingsStep, PTL DEF ApartSpec

(* Two-factor login always has a secret to check codes against: the secret that
   the handler that switches it on has read may be replaced meanwhile, but not
   be deleted. *)
THEOREM SecretIsThere == ApartSpec => []EnabledHasSecret
<1>1. SettingsInv => EnabledHasSecret
  BY DEF SettingsInv, EnabledHasSecret
<1> QED
  BY <1>1, SettingsHold, PTL

(* A new batch of backup codes and a new reset token replace all earlier ones,
   though deleting and creating are two statements. *)
THEOREM OneGenerationAtATime == ApartSpec => []OneGeneration
<1>1. ASSUME NEW S, AtMostOne(S) PROVE Cardinality(S) <= 1
  <2>1. CASE S = {}
    BY <2>1, FS_EmptySet
  <2>2. CASE \E x \in S : S = {x}
    <3>1. PICK x \in S : S = {x}
      BY <2>2
    <3>2. Cardinality({x}) = 1
      BY FS_Singleton
    <3> QED
      BY <3>1, <3>2
  <2> QED
    BY <1>1, <2>1, <2>2 DEF AtMostOne
<1>2. SettingsInv => OneGeneration
  BY <1>1 DEF SettingsInv, OneGeneration
<1> QED
  BY <1>2, SettingsHold, PTL

-----------------------------------------------------------------------------
(* Refresh tokens *)

(* A token is known to one browser only: in its cookie, or in a request or an
   answer that is on its way. *)
TokensApart ==
  /\ \A b, d \in Browsers : cookie[b] = cookie[d] /\ cookie[b] # None => b = d
  /\ \A r \in Requests, b \in Browsers :
        req[r].token = cookie[b] /\ cookie[b] # None => req[r].browser = b
  /\ \A r, s \in Requests :
        req[r].token = req[s].token /\ req[r].token # None => req[r].browser = req[s].browser

(* What one browser may rely on that sent its requests one by one and got every
   answer: its cookie is stored, unless the answer that brings the next one is
   still to come. *)
InOrder(b) ==
  /\ \A r, s \in Requests : req[r].browser = b /\ req[s].browser = b => r = s
  /\ \/ cookie[b] \in refreshTokens \cup {None}
     \/ \E r \in Requests : req[r].browser = b /\ req[r].op \in {"reissue", "answer"}
  /\ \A r \in Requests : req[r].browser = b =>
        /\ req[r].op # "replayed"
        /\ req[r].op = "answer" => req[r].token \in refreshTokens \cup {None}

AlarmInv == TypeInv /\ TokensApart /\ \A b \in Browsers \ excused : InOrder(b)

(* A handler that goes on without a token, for the same browser or for none. *)
LEMMA ApartStep ==
  ASSUME TypeInv, TokensApart, NEW r \in Requests, NEW q, Remember(r, q), cookie' = cookie,
         q.token # None =>
            /\ \A b \in Browsers : cookie[b] = q.token => b = q.browser
            /\ \A s \in Requests \ {r} : req[s].token = q.token => req[s].browser = q.browser
  PROVE  TokensApart'
<1>1. req'[r] = q /\ \A s \in Requests \ {r} : req'[s] = req[s]
  BY DEF Remember, TypeInv, TypeOK
<1> QED
  BY <1>1 DEF TokensApart

LEMMA AlarmStep == AlarmInv /\ [Next]_vars => AlarmInv'
<1> SUFFICES ASSUME AlarmInv, [Next]_vars PROVE AlarmInv'
  OBVIOUS
<1>t. TypeInv'
  BY TypeStep DEF AlarmInv
<1>o. TypeInv /\ TypeOK
  BY DEF AlarmInv, TypeInv
<1>b. None \notin Browsers
  BY NoneAssumption
<1>m. ASSUME NEW r \in Requests, NEW q, Remember(r, q)
      PROVE  req'[r] = q /\ \A s \in Requests \ {r} : req'[s] = req[s]
  BY <1>m, <1>o DEF Remember, TypeOK
<1>i. Idle.op = "idle" /\ Idle.token = None /\ Idle.browser = None
  BY MemoryFields DEF Idle
<1> USE DEF sessionVars, codeVars, secretVars
<1>0. CASE UNCHANGED <<req, cookie, refreshTokens, excused>>
  BY <1>0, <1>t DEF AlarmInv, TokensApart, InOrder
(* A handler goes on or ends, without a token. *)
<1>c. ASSUME NEW r \in Requests, NEW q, Remember(r, q), req[r].op \notin {"reissue", "answer"},
             q.browser \in {None, req[r].browser}, q.token = None,
             q.op \notin {"replayed", "answer"},
             UNCHANGED <<cookie, refreshTokens, excused>>
      PROVE  AlarmInv'
  <2>1. req'[r] = q /\ \A s \in Requests \ {r} : req'[s] = req[s]
    BY <1>c, <1>m
  <2>2. TokensApart'
    BY <1>c, <1>o, ApartStep DEF AlarmInv
  <2>3. ASSUME NEW b \in Browsers \ excused' PROVE InOrder(b)'
    BY <2>1, <2>3, <1>c, <1>b DEF AlarmInv, InOrder
  <2> QED
    BY <1>t, <2>2, <2>3 DEF AlarmInv
(* All sessions end: every browser has reason to hold a dead token. *)
<1>e. ASSUME NEW r \in Requests, NEW q, Remember(r, q), q.token = None,
             cookie' = cookie, excused' = Browsers
      PROVE  AlarmInv'
  BY <1>e, <1>t, <1>o, ApartStep DEF AlarmInv
(* Sending a request. *)
<1>n. ASSUME NEW r \in Requests, NEW b \in Browsers, NEW op \in SessionOps \cup {"reencrypt"},
             NEW t, NEW x, Send(r, b, op, t, x),
             op \notin {"reissue", "answer"},
             t # None => t = cookie[b], op = "replayed" => cookie[b] \notin refreshTokens \cup {None},
             UNCHANGED <<cookie, refreshTokens>>
      PROVE  AlarmInv'
  <2>1. Remember(r, Memory(op, b, t, x)) /\ req[r].op = "idle"
    BY <1>n DEF Send
  <2>2. /\ req'[r].op = op /\ req'[r].browser = b /\ req'[r].token = t
        /\ \A s \in Requests \ {r} : req'[s] = req[s]
    BY <2>1, <1>m, MemoryFields
  <2>3. req[r].browser = None
    BY <2>1, <1>o DEF TypeInv, WellFormed, SessionOps
  <2>4. TokensApart'
    <3>1. /\ Memory(op, b, t, x).token = t
          /\ Memory(op, b, t, x).browser = b
      BY MemoryFields
    <3>2. t # None => /\ \A d \in Browsers : cookie[d] = t => d = b
                      /\ \A s \in Requests \ {r} : req[s].token = t => req[s].browser = b
      BY <1>n DEF AlarmInv, TokensApart
    <3> QED
      BY <3>1, <3>2, <2>1, <1>o, <1>n, ApartStep DEF AlarmInv
  <2>5. ASSUME NEW d \in Browsers \ excused', d # b PROVE InOrder(d)'
    <3>1. d \notin excused
      BY <1>n, <2>5 DEF Send
    <3> QED
      BY <3>1, <2>2, <2>3, <2>5, <1>n, <1>b DEF AlarmInv, InOrder
  <2>6. ASSUME b \notin excused' PROVE InOrder(b)'
    <3>1. b \notin excused /\ ~Busy(r, b)
      BY <1>n, <2>6 DEF Send
    <3>2. \A s \in Requests : req[s].browser # b
      BY <3>1, <2>3, <1>b DEF Busy
    <3>3. cookie[b] \in refreshTokens \cup {None}
      BY <3>1, <3>2 DEF AlarmInv, InOrder
    <3> QED
      BY <3>2, <3>3, <2>2, <1>n DEF InOrder
  <2> QED
    BY <1>t, <2>4, <2>5, <2>6 DEF AlarmInv
<1>1. ASSUME NEW r \in Requests, NEW b \in Browsers, SignIn(r, b) PROVE AlarmInv'
  <2>1. \E op, x : op \in {"issue", "verify", "code"} /\ Send(r, b, op, None, x)
    BY <1>1 DEF SignIn, Login, GoogleCallback, VerifyTwoFactor, MatchBackupCode
  <2>2. PICK op, x : op \in {"issue", "verify", "code"} /\ Send(r, b, op, None, x)
    BY <2>1
  <2>3. UNCHANGED <<cookie, refreshTokens>>
    BY <1>1 DEF SignIn, Login, GoogleCallback, VerifyTwoFactor, MatchBackupCode
  <2>4. op \in SessionOps \cup {"reencrypt"} /\ op \notin {"reissue", "answer", "replayed"}
    BY <2>2 DEF SessionOps
  <2> QED
    BY <2>2, <2>3, <2>4, <1>n
<1>2. ASSUME NEW r \in Requests, NEW b \in Browsers, FindRefreshToken(r, b) PROVE AlarmInv'
  <2>1. PICK op \in {"rotate", "replayed"} :
           /\ Send(r, b, op, cookie[b], None)
           /\ op = "replayed" => cookie[b] \notin refreshTokens \cup {None}
    BY <1>2 DEF FindRefreshToken
  <2>2. UNCHANGED <<cookie, refreshTokens>>
    BY <1>2 DEF FindRefreshToken
  <2>3. op \in SessionOps \cup {"reencrypt"} /\ op \notin {"reissue", "answer"}
    BY DEF SessionOps
  <2> QED
    BY <2>1, <2>2, <2>3, <1>n
<1>3. ASSUME NEW r \in Requests, NEW b \in Browsers, EndSession(r, b) PROVE AlarmInv'
  <2>1. PICK op \in {"answer", "deleteUser"} :
           DeleteUserRefreshTokens(r, Memory(op, b, None, None))
    BY <1>3 DEF EndSession, Logout, DeleteAccount
  <2> QED
    BY <2>1, <1>e, MemoryFields DEF DeleteUserRefreshTokens
<1>4. ASSUME NEW r \in Requests,
             BeginSettings(r) \/ RequestPasswordReset(r) \/ FindResetToken(r)
      PROVE  AlarmInv'
  <2>1. \E op, x : op \in {"enable", "regenerate", "disable", "clearResets", "reset"} /\
           Remember(r, Memory(op, None, None, x))
    BY <1>4 DEF BeginSettings, RequestPasswordReset, FindResetToken
  <2>2. PICK op, x : op \in {"enable", "regenerate", "disable", "clearResets", "reset"} /\
           Remember(r, Memory(op, None, None, x))
    BY <2>1
  <2>3. req[r].op = "idle" /\ UNCHANGED <<cookie, refreshTokens, excused>>
    BY <2>2, <1>4 DEF BeginSettings, RequestPasswordReset, FindResetToken
  <2> QED
    BY <2>2, <2>3, <1>c, MemoryFields
<1>5. ASSUME NEW r \in Requests, Continue(r) PROVE AlarmInv'
  <2>1. CASE \/ DeleteBackupCodes(r) \/ CreateBackupCodes(r) \/ EnableTwoFactor(r)
             \/ DisableTwoFactor(r) \/ DeleteUserResetTokens(r) \/ CreateResetToken(r)
             \/ UpdatePassword(r) \/ DeleteResetToken(r)
    <3>1. /\ req[r].op \notin {"reissue", "answer"}
          /\ UNCHANGED <<cookie, refreshTokens, excused>>
      BY <2>1 DEF DeleteBackupCodes, CreateBackupCodes, EnableTwoFactor, DisableTwoFactor,
         DeleteUserResetTokens, CreateResetToken, UpdatePassword, DeleteResetToken, AfterClear
    <3>2. \/ Remember(r, Idle)
          \/ \E op, x : /\ op \notin {"replayed", "answer"}
                       /\ Remember(r, Memory(op, None, None, x))
      BY <2>1 DEF DeleteBackupCodes, CreateBackupCodes, EnableTwoFactor, DisableTwoFactor,
         DeleteUserResetTokens, CreateResetToken, UpdatePassword, DeleteResetToken, AfterClear
    <3>3. CASE Remember(r, Idle)
      BY <3>1, <3>3, <1>c, <1>i
    <3>4. CASE \E op, x : /\ op \notin {"replayed", "answer"}
                         /\ Remember(r, Memory(op, None, None, x))
      BY <3>1, <3>4, <1>c, MemoryFields
    <3> QED
      BY <3>2, <3>3, <3>4
  <2>2. CASE IsTwoFactorSecretEncrypted(r) \/ Reencrypt(r) \/ ConsumeBackupCode(r)
    <3>1. /\ req[r].op \notin {"reissue", "answer"}
          /\ UNCHANGED <<cookie, refreshTokens, excused>>
          /\ \/ Remember(r, Idle)
             \/ \E x : \E op \in {"issue", "reencrypt"} :
                   Remember(r, Memory(op, req[r].browser, None, x))
      BY <2>2 DEF IsTwoFactorSecretEncrypted, Reencrypt, ConsumeBackupCode
    <3>2. CASE Remember(r, Idle)
      BY <3>1, <3>2, <1>c, <1>i
    <3>3. CASE \E x : \E op \in {"issue", "reencrypt"} :
                  Remember(r, Memory(op, req[r].browser, None, x))
      BY <3>1, <3>3, <1>c, MemoryFields
    <3> QED
      BY <3>1, <3>2, <3>3
  <2>3. CASE StoreRefreshToken(r)
    <3> PICK b \in Browsers : b = req[r].browser
      BY <2>3, <1>o DEF StoreRefreshToken, TypeInv, WellFormed, SessionOps
    <3>1. PICK t \in FreshTokens : /\ refreshTokens' = refreshTokens \cup {t}
                                   /\ Remember(r, Memory("answer", b, t, None))
      BY <2>3 DEF StoreRefreshToken
    <3>2. /\ req'[r].op = "answer" /\ req'[r].browser = b /\ req'[r].token = t
          /\ \A s \in Requests \ {r} : req'[s] = req[s]
      BY <3>1, <1>m, MemoryFields
    <3>3. /\ \A d \in Browsers : cookie[d] # t
          /\ \A s \in Requests : req[s].token # t
          /\ cookie' = cookie
      BY <2>3 DEF FreshTokens, StoreRefreshToken
    <3>4. TokensApart'
      <4>1. Memory("answer", b, t, None).token = t
        BY MemoryFields
      <4> QED
        BY <4>1, <3>1, <3>3, <1>o, ApartStep DEF AlarmInv
    <3>5. ASSUME NEW d \in Browsers \ excused', d # b PROVE InOrder(d)'
      <4>1. d \notin excused
        BY <2>3, <3>5 DEF StoreRefreshToken
      <4> QED
        BY <4>1, <3>1, <3>2, <3>3, <3>5 DEF AlarmInv, InOrder
    <3>6. ASSUME b \in Browsers \ excused' PROVE InOrder(b)'
      <4>1. \A s \in Requests : req[s].browser = b => s = r
        <5>1. CASE b \in excused
          <6>1. ~Busy(r, b)
            BY <2>3, <3>6, <5>1 DEF StoreRefreshToken
          <6> QED
            BY <6>1 DEF Busy
        <5>2. CASE b \notin excused
          BY <3>6, <5>2 DEF AlarmInv, InOrder
        <5> QED
          BY <5>1, <5>2
      <4> QED
        BY <4>1, <3>1, <3>2 DEF InOrder
    <3> QED
      BY <1>t, <3>4, <3>5, <3>6 DEF AlarmInv
  <2>4. CASE Answer(r)
    <3> PICK b \in Browsers : b = req[r].browser
      BY <2>4, <1>o DEF Answer, TypeInv, WellFormed, SessionOps
    <3> PICK t : t = req[r].token
      OBVIOUS
    <3>1. /\ req[r].op = "answer" /\ Remember(r, Idle)
          /\ cookie' = [cookie EXCEPT ![b] = t]
          /\ refreshTokens' = refreshTokens /\ excused' = excused
      BY <2>4 DEF Answer
    <3>3. /\ req'[r] = Idle
          /\ \A s \in Requests \ {r} : req'[s] = req[s]
      BY <3>1, <1>m
    <3>4. cookie'[b] = t /\ \A d \in Browsers \ {b} : cookie'[d] = cookie[d]
      BY <3>1, <1>o DEF TypeOK
    <3>5. TokensApart'
      <4>1. ASSUME NEW d \in Browsers, NEW c \in Browsers, cookie'[d] = cookie'[c],
                   cookie'[d] # None
            PROVE  d = c
        BY <4>1, <3>4 DEF AlarmInv, TokensApart
      <4>2. ASSUME NEW s \in Requests, NEW d \in Browsers, req'[s].token = cookie'[d],
                   cookie'[d] # None
            PROVE  req'[s].browser = d
        <5>1. s # r /\ req'[s] = req[s]
          BY <4>2, <3>3, <1>i
        <5> QED
          BY <4>2, <5>1, <3>4 DEF AlarmInv, TokensApart
      <4>3. ASSUME NEW s \in Requests, NEW u \in Requests, req'[s].token = req'[u].token,
                   req'[s].token # None
            PROVE  req'[s].browser = req'[u].browser
        BY <4>3, <3>3, <1>i DEF AlarmInv, TokensApart
      <4> QED
        BY <4>1, <4>2, <4>3 DEF TokensApart
    <3>6. ASSUME NEW d \in Browsers \ excused', d # b PROVE InOrder(d)'
      BY <3>1, <3>3, <3>4, <3>6, <1>i, <1>b DEF AlarmInv, InOrder
    <3>7. ASSUME b \notin excused' PROVE InOrder(b)'
      <4>1. InOrder(b)
        BY <3>1, <3>7 DEF AlarmInv
      <4>2. t \in refreshTokens \cup {None}
        BY <3>1, <4>1 DEF InOrder
      <4> QED
        BY <4>1, <4>2, <3>1, <3>3, <3>4, <1>i, <1>b DEF InOrder
    <3> QED
      BY <1>t, <3>5, <3>6, <3>7 DEF AlarmInv
  <2>5. CASE DeleteRefreshToken(r)
    <3> PICK b \in Browsers : b = req[r].browser
      BY <2>5, <1>o DEF DeleteRefreshToken, TypeInv, WellFormed, SessionOps
    <3> PICK t : t = req[r].token
      OBVIOUS
    <3>1. /\ req[r].op = "rotate" /\ refreshTokens' = refreshTokens \ {t}
          /\ Remember(r, Memory("reissue", b, None, None))
          /\ cookie' = cookie /\ excused' = excused
      BY <2>5 DEF DeleteRefreshToken
    <3>2. /\ req'[r].op = "reissue" /\ req'[r].browser = b /\ req'[r].token = None
          /\ \A s \in Requests \ {r} : req'[s] = req[s]
      BY <3>1, <1>m, MemoryFields
    <3>3. TokensApart'
      BY <3>1, <1>o, ApartStep, MemoryFields DEF AlarmInv
    <3>n. None \notin Tokens
      BY NoneAssumption
    <3>4. ASSUME NEW d \in Browsers \ excused', d # b PROVE InOrder(d)'
      <4>1. InOrder(d)
        BY <3>1, <3>4 DEF AlarmInv
      <4>2. cookie[d] = t => t = None
        BY <3>4 DEF AlarmInv, TokensApart
      <4>3. \A s \in Requests : req[s].browser = d /\ req[s].token = t => t = None
        BY <3>4 DEF AlarmInv, TokensApart
      <4>4. \A r1, s \in Requests : req'[r1].browser = d /\ req'[s].browser = d => r1 = s
        BY <4>1, <3>2, <3>4 DEF InOrder
      <4>5. \/ cookie'[d] \in refreshTokens' \cup {None}
            \/ \E s \in Requests : req'[s].browser = d /\ req'[s].op \in {"reissue", "answer"}
        BY <4>1, <4>2, <3>1, <3>2, <3>4 DEF InOrder
      <4>6. \A s \in Requests : req'[s].browser = d =>
               /\ req'[s].op # "replayed"
               /\ req'[s].op = "answer" => req'[s].token \in refreshTokens' \cup {None}
        BY <4>1, <4>3, <3>1, <3>2, <3>4 DEF InOrder
      <4> QED
        BY <4>4, <4>5, <4>6 DEF InOrder
    <3>5. ASSUME b \in Browsers \ excused' PROVE InOrder(b)'
      <4>1. InOrder(b)
        BY <3>1, <3>5 DEF AlarmInv
      <4>2. \A s \in Requests : req'[s].browser = b => s = r
        BY <4>1, <3>2 DEF InOrder
      <4> QED
        BY <4>2, <3>2 DEF InOrder
    <3> QED
      BY <1>t, <3>3, <3>4, <3>5 DEF AlarmInv
  <2>6. CASE RevokeAll(r)
    BY <2>6, <1>e, <1>i DEF RevokeAll, DeleteUserRefreshTokens
  <2>7. CASE DeleteUser(r)
    BY <2>7, <1>e, MemoryFields DEF DeleteUser
  <2>8. CASE Fail(r)
    <3>1. /\ Remember(r, Idle) /\ UNCHANGED <<cookie, refreshTokens>>
          /\ excused' = excused \cup ({req[r].browser} \ {None})
      BY <2>8 DEF Fail
    <3>2. req'[r] = Idle /\ \A s \in Requests \ {r} : req'[s] = req[s]
      BY <3>1, <1>m
    <3>3. TokensApart'
      BY <3>1, <1>o, <1>i, ApartStep DEF AlarmInv
    <3>4. ASSUME NEW d \in Browsers \ excused' PROVE InOrder(d)'
      <4>1. d \notin excused /\ req[r].browser # d
        BY <3>1, <3>4, <1>b
      <4> QED
        BY <4>1, <3>1, <3>2, <1>i, <1>b DEF AlarmInv, InOrder
    <3> QED
      BY <1>t, <3>3, <3>4 DEF AlarmInv
  <2> QED
    BY <1>5, <2>1, <2>2, <2>3, <2>4, <2>5, <2>6, <2>7, <2>8 DEF Continue
<1>6. CASE SetupTwoFactor \/ PurgeExpiredResetTokens
  BY <1>6, <1>0 DEF SetupTwoFactor, PurgeExpiredResetTokens
<1>7. CASE UNCHANGED vars
  BY <1>7, <1>0 DEF vars
<1> QED
  BY <1>1, <1>2, <1>3, <1>4, <1>5, <1>6, <1>7 DEF Next

LEMMA AlarmStart == Init => AlarmInv
<1> SUFFICES ASSUME Init PROVE AlarmInv
  OBVIOUS
<1>1. \A r \in Requests :
         req[r].op = "idle" /\ req[r].token = None /\ req[r].browser = None
  BY MemoryFields DEF Init, Idle
<1>2. \A b \in Browsers : cookie[b] = None /\ b # None
  BY NoneAssumption DEF Init
<1> QED
  BY <1>1, <1>2, TypeStart DEF AlarmInv, TokensApart, InOrder

(* A refresh treats a token as replayed only if the browser has reason to hold a
   dead one: two of its requests overlapped, an answer was lost, or somebody
   ended its sessions. *)
THEOREM NoFalseAlarms == Spec => []NoFalseAlarm
<1>1. AlarmInv => NoFalseAlarm
  <2> SUFFICES ASSUME AlarmInv, NEW r \in Requests, req[r].op = "replayed"
               PROVE  req[r].browser \in excused
    BY DEF NoFalseAlarm
  <2>1. req[r].browser \in Browsers
    BY DEF AlarmInv, TypeInv, WellFormed, SessionOps
  <2> QED
    BY <2>1 DEF AlarmInv, InOrder
<1> QED
  BY <1>1, AlarmStart, AlarmStep, PTL DEF Spec
=============================================================================
