------------------------------ MODULE Accounts ------------------------------
(***************************************************************************)
(* The sessions and the two-factor settings of one account:                *)
(* auth.service.ts on top of prisma8-auth.repository.ts, and the browsers  *)
(* that hold its refresh cookies.                                          *)
(*                                                                         *)
(* Every await of a repository call lets other requests run, so a handler  *)
(* is one action per statement it sends; req holds what it remembers in    *)
(* between.  Checks that end a handler without a change of state (a wrong  *)
(* password or code, a signature or a token that expired) are left out:    *)
(* they are requests that never were.  Hashing is left out too: a token is *)
(* found by what identifies it.                                            *)
(*                                                                         *)
(* The eight codes of a batch are created and deleted together and used    *)
(* one by one, so one code stands for its batch.                           *)
(***************************************************************************)
EXTENDS Naturals, FiniteSets

CONSTANTS
    Requests,     \* request slots: how many handlers may be in flight at once
    Browsers,     \* cookie jars
    Tokens,       \* refresh tokens
    Codes,        \* backup codes, one for each batch
    Secrets,      \* TOTP secrets
    ResetTokens,  \* password reset tokens
    None

VARIABLES
    account,          \* whether the user row exists
    refreshTokens,    \* the stored refresh tokens
    cookie,           \* the refresh token each browser holds
    twoFactorEnabled,
    twoFactorSecret,
    plaintext,        \* whether the secret is stored as it was before encryption
    backupCodes,      \* the stored backup codes
    usedCodes,        \* those of them with usedAt set
    resetTokens,      \* the stored password reset tokens
    req,              \* what each handler in flight remembers
    opened,           \* history: the sessions opened with each backup code
    excused           \* history: browsers that have reason to hold a dead token

sessionVars == <<refreshTokens, cookie, excused>>
codeVars == <<backupCodes, usedCodes, opened>>
secretVars == <<twoFactorEnabled, twoFactorSecret, plaintext>>
vars == <<account, sessionVars, codeVars, secretVars, resetTokens, req>>

\* Handlers that change the two-factor settings in several statements.
SettingsOps == {"enable", "enableCodes", "switchOn", "regenerate", "newCodes",
                "disable", "switchOff", "reencrypt"}

ResetOps == {"clearResets", "createReset"}

SessionOps == {"rotate", "replayed", "reissue", "verify", "code", "issue", "answer",
               "deleteUser"}

Op == {"idle", "reset", "resetDone"} \cup SettingsOps \cup ResetOps \cup SessionOps

Request == [op      : Op,
            browser : Browsers \cup {None},  \* where the answer goes
            token   : Tokens \cup {None},    \* the token read or issued
            item    : Codes \cup Secrets \cup ResetTokens \cup {None}]

Memory(op, browser, token, item) ==
    [op |-> op, browser |-> browser, token |-> token, item |-> item]

Idle == Memory("idle", None, None, None)

ASSUME NoneAssumption ==
    None \notin Browsers \cup Tokens \cup Codes \cup Secrets \cup ResetTokens

TypeOK ==
    /\ account \in BOOLEAN
    /\ refreshTokens \subseteq Tokens
    /\ cookie \in [Browsers -> Tokens \cup {None}]
    /\ twoFactorEnabled \in BOOLEAN
    /\ twoFactorSecret \in Secrets \cup {None}
    /\ plaintext \in BOOLEAN
    /\ backupCodes \subseteq Codes
    /\ usedCodes \subseteq backupCodes
    /\ resetTokens \subseteq ResetTokens
    /\ req \in [Requests -> Request]
    /\ opened \in [Codes -> Nat]
    /\ excused \subseteq Browsers

\* An account without two-factor, or one whose secret dates from before secrets
\* were encrypted.
Init ==
    /\ account = TRUE
    /\ refreshTokens = {}
    /\ cookie = [b \in Browsers |-> None]
    /\ \/ twoFactorEnabled = FALSE /\ twoFactorSecret = None /\ plaintext = FALSE
       \/ twoFactorEnabled = TRUE /\ twoFactorSecret \in Secrets /\ plaintext = TRUE
    /\ backupCodes = {}
    /\ usedCodes = {}
    /\ resetTokens = {}
    /\ req = [r \in Requests |-> Idle]
    /\ opened = [c \in Codes |-> 0]
    /\ excused = {}

-----------------------------------------------------------------------------

Remember(r, memory) == req' = [req EXCEPT ![r] = memory]

\* Ids nobody holds stand for new random values.
FreshTokens ==
    {t \in Tokens \ refreshTokens :
        /\ \A b \in Browsers : cookie[b] # t
        /\ \A r \in Requests : req[r].token # t}

Fresh(values, stored) ==
    {v \in values \ stored : \A r \in Requests : req[r].item # v}

\* Browser b has another request on its way.
Busy(r, b) == \E s \in Requests \ {r} : req[s].browser = b

\* A browser that sends two requests at once cannot tell which cookie it ends
\* up with.
Send(r, b, op, token, item) ==
    /\ req[r].op = "idle"
    /\ Remember(r, Memory(op, b, token, item))
    /\ excused' = IF Busy(r, b) THEN excused \cup {b} ELSE excused

-----------------------------------------------------------------------------
(* Signing in *)

\* The password was right and no second factor is asked for.
Login(r, b) ==
    /\ account
    /\ ~twoFactorEnabled
    /\ Send(r, b, "issue", None, None)
    /\ UNCHANGED <<account, refreshTokens, cookie, codeVars, secretVars, resetTokens>>

GoogleCallback(r, b) ==
    /\ account
    /\ Send(r, b, "issue", None, None)
    /\ UNCHANGED <<account, refreshTokens, cookie, codeVars, secretVars, resetTokens>>

\* The code is that of the secret that is read ...
VerifyTwoFactor(r, b) ==
    /\ account
    /\ twoFactorSecret # None
    /\ Send(r, b, "verify", None, twoFactorSecret)
    /\ UNCHANGED <<account, refreshTokens, cookie, codeVars, secretVars, resetTokens>>

\* ... and that is stored again if the row, read once more, has no encrypted one.
IsTwoFactorSecretEncrypted(r) ==
    /\ req[r].op = "verify"
    /\ IF twoFactorSecret # None /\ ~plaintext
       THEN Remember(r, Memory("issue", req[r].browser, None, None))
       ELSE Remember(r, Memory("reencrypt", req[r].browser, None, req[r].item))
    /\ UNCHANGED <<account, sessionVars, codeVars, secretVars, resetTokens>>

Reencrypt(r) ==
    /\ account
    /\ req[r].op = "reencrypt"
    /\ twoFactorSecret' = req[r].item
    /\ plaintext' = FALSE
    /\ Remember(r, Memory("issue", req[r].browser, None, None))
    /\ UNCHANGED <<account, sessionVars, codeVars, twoFactorEnabled, resetTokens>>

\* findMatchingBackupCode: the unused codes are read first ...
MatchBackupCode(r, b) ==
    /\ account
    /\ \E c \in backupCodes \ usedCodes : Send(r, b, "code", None, c)
    /\ UNCHANGED <<account, refreshTokens, cookie, codeVars, secretVars, resetTokens>>

\* Mutant: the code is marked by its id alone.
ConsumeBackupCode_ById(r) ==
    LET c == req[r].item
    IN  /\ req[r].op = "code"
        /\ usedCodes' = usedCodes \cup {c}
        /\ opened' = [opened EXCEPT ![c] = opened[c] + 1]
        /\ Remember(r, Memory("issue", req[r].browser, None, None))
        /\ UNCHANGED <<account, sessionVars, backupCodes, secretVars, resetTokens>>

\* ... and the one that matches is marked, if it still is unused.
ConsumeBackupCode(r) ==
    LET c == req[r].item
    IN  /\ req[r].op = "code"
        /\ \/ /\ c \in backupCodes \ usedCodes
              /\ usedCodes' = usedCodes \cup {c}
              /\ opened' = [opened EXCEPT ![c] = opened[c] + 1]
              /\ Remember(r, Memory("issue", req[r].browser, None, None))
           \/ /\ c \notin backupCodes \ usedCodes
              /\ Remember(r, Idle)
              /\ UNCHANGED <<usedCodes, opened>>
        /\ UNCHANGED <<account, sessionVars, backupCodes, secretVars, resetTokens>>

\* issueTokens: the new token is stored before the answer carries it.  The row
\* needs its user.  A browser that has just signed in has no excuse any more.
StoreRefreshToken(r) ==
    /\ account
    /\ req[r].op \in {"issue", "reissue"}
    /\ \E t \in FreshTokens :
         /\ refreshTokens' = refreshTokens \cup {t}
         /\ Remember(r, Memory("answer", req[r].browser, t, None))
    /\ excused' = IF req[r].op = "issue" /\ ~Busy(r, req[r].browser)
                  THEN excused \ {req[r].browser} ELSE excused
    /\ UNCHANGED <<account, cookie, codeVars, secretVars, resetTokens>>

\* The browser receives the answer: a new cookie, or none.
Answer(r) ==
    /\ req[r].op = "answer"
    /\ cookie' = [cookie EXCEPT ![req[r].browser] = req[r].token]
    /\ Remember(r, Idle)
    /\ UNCHANGED <<account, refreshTokens, excused, codeVars, secretVars, resetTokens>>

-----------------------------------------------------------------------------
(* Refreshing and ending sessions *)

FindRefreshToken(r, b) ==
    /\ cookie[b] # None
    /\ Send(r, b, IF cookie[b] \in refreshTokens THEN "rotate" ELSE "replayed",
            cookie[b], None)
    /\ UNCHANGED <<account, refreshTokens, cookie, codeVars, secretVars, resetTokens>>

\* Mutant: rotation deletes the tokens of every browser.
DeleteRefreshToken_All(r) ==
    /\ req[r].op = "rotate"
    /\ refreshTokens' = {}
    /\ Remember(r, Memory("reissue", req[r].browser, None, None))
    /\ UNCHANGED <<account, cookie, excused, codeVars, secretVars, resetTokens>>

\* The number of rows deleted is not looked at.
DeleteRefreshToken(r) ==
    /\ req[r].op = "rotate"
    /\ refreshTokens' = refreshTokens \ {req[r].token}
    /\ Remember(r, Memory("reissue", req[r].browser, None, None))
    /\ UNCHANGED <<account, cookie, excused, codeVars, secretVars, resetTokens>>

\* deleteUserRefreshTokens: every browser may now hold a dead token.
DeleteUserRefreshTokens(r, memory) ==
    /\ refreshTokens' = {}
    /\ excused' = Browsers
    /\ Remember(r, memory)
    /\ UNCHANGED <<account, cookie, codeVars, secretVars, resetTokens>>

\* The stored token is missing: every session ends.
RevokeAll(r) ==
    /\ req[r].op = "replayed"
    /\ DeleteUserRefreshTokens(r, Idle)

Logout(r, b) ==
    /\ req[r].op = "idle"
    /\ cookie[b] # None
    /\ DeleteUserRefreshTokens(r, Memory("answer", b, None, None))

DeleteAccount(r, b) ==
    /\ account
    /\ req[r].op = "idle"
    /\ cookie[b] # None
    /\ DeleteUserRefreshTokens(r, Memory("deleteUser", b, None, None))

\* The user row goes, and the rows that reference it with it.
DeleteUser(r) ==
    /\ req[r].op = "deleteUser"
    /\ account' = FALSE
    /\ refreshTokens' = {}
    /\ excused' = Browsers
    /\ twoFactorEnabled' = FALSE
    /\ twoFactorSecret' = None
    /\ plaintext' = FALSE
    /\ backupCodes' = {}
    /\ usedCodes' = {}
    /\ resetTokens' = {}
    /\ Remember(r, Memory("answer", req[r].browser, None, None))
    /\ UNCHANGED <<cookie, opened>>

-----------------------------------------------------------------------------
(* Two-factor settings *)

SetupTwoFactor ==
    /\ account
    /\ twoFactorSecret' \in Fresh(Secrets, {twoFactorSecret})
    /\ plaintext' = FALSE
    /\ UNCHANGED <<account, sessionVars, codeVars, twoFactorEnabled, resetTokens, req>>

\* enableTwoFactor, disableTwoFactor and regenerateBackupCodes read the secret
\* and check a code against it, adminDisableTwoFactor reads nothing.
BeginSettings(r) ==
    /\ account
    /\ req[r].op = "idle"
    /\ \/ twoFactorSecret # None /\ Remember(r, Memory("enable", None, None, None))
       \/ twoFactorSecret # None /\ Remember(r, Memory("regenerate", None, None, None))
       \/ Remember(r, Memory("disable", None, None, None))
    /\ UNCHANGED <<account, sessionVars, codeVars, secretVars, resetTokens>>

AfterClear == [enable |-> "enableCodes", regenerate |-> "newCodes",
               disable |-> "switchOff"]

\* Mutant: only the used codes are deleted.
DeleteBackupCodes_Used(r) ==
    /\ req[r].op \in DOMAIN AfterClear
    /\ backupCodes' = backupCodes \ usedCodes
    /\ usedCodes' = {}
    /\ Remember(r, Memory(AfterClear[req[r].op], None, None, None))
    /\ UNCHANGED <<account, sessionVars, opened, secretVars, resetTokens>>

DeleteBackupCodes(r) ==
    /\ req[r].op \in DOMAIN AfterClear
    /\ backupCodes' = {}
    /\ usedCodes' = {}
    /\ Remember(r, Memory(AfterClear[req[r].op], None, None, None))
    /\ UNCHANGED <<account, sessionVars, opened, secretVars, resetTokens>>

CreateBackupCodes(r) ==
    /\ account
    /\ req[r].op \in {"enableCodes", "newCodes"}
    /\ \E c \in Fresh(Codes, backupCodes) :
         /\ backupCodes' = backupCodes \cup {c}
         /\ opened' = [opened EXCEPT ![c] = 0]
    /\ Remember(r, IF req[r].op = "enableCodes" THEN Memory("switchOn", None, None, None)
                                                ELSE Idle)
    /\ UNCHANGED <<account, sessionVars, usedCodes, secretVars, resetTokens>>

EnableTwoFactor(r) ==
    /\ account
    /\ req[r].op = "switchOn"
    /\ twoFactorEnabled' = TRUE
    /\ Remember(r, Idle)
    /\ UNCHANGED <<account, sessionVars, codeVars, twoFactorSecret, plaintext, resetTokens>>

\* Mutant: the secret goes, the flag stays.
DisableTwoFactor_SecretOnly(r) ==
    /\ account
    /\ req[r].op = "switchOff"
    /\ twoFactorSecret' = None
    /\ plaintext' = FALSE
    /\ Remember(r, Idle)
    /\ UNCHANGED <<account, sessionVars, codeVars, twoFactorEnabled, resetTokens>>

\* One update of the row: the flag and the secret go together.
DisableTwoFactor(r) ==
    /\ account
    /\ req[r].op = "switchOff"
    /\ twoFactorEnabled' = FALSE
    /\ twoFactorSecret' = None
    /\ plaintext' = FALSE
    /\ Remember(r, Idle)
    /\ UNCHANGED <<account, sessionVars, codeVars, resetTokens>>

-----------------------------------------------------------------------------
(* Password resets *)

RequestPasswordReset(r) ==
    /\ account
    /\ req[r].op = "idle"
    /\ Remember(r, Memory("clearResets", None, None, None))
    /\ UNCHANGED <<account, sessionVars, codeVars, secretVars, resetTokens>>

DeleteUserResetTokens(r) ==
    /\ req[r].op = "clearResets"
    /\ resetTokens' = {}
    /\ Remember(r, Memory("createReset", None, None, None))
    /\ UNCHANGED <<account, sessionVars, codeVars, secretVars>>

CreateResetToken(r) ==
    /\ account
    /\ req[r].op = "createReset"
    /\ \E p \in Fresh(ResetTokens, resetTokens) : resetTokens' = resetTokens \cup {p}
    /\ Remember(r, Idle)
    /\ UNCHANGED <<account, sessionVars, codeVars, secretVars>>

FindResetToken(r) ==
    /\ req[r].op = "idle"
    /\ \E p \in resetTokens : Remember(r, Memory("reset", None, None, p))
    /\ UNCHANGED <<account, sessionVars, codeVars, secretVars, resetTokens>>

\* The password is written, and then the token deleted.
UpdatePassword(r) ==
    /\ account
    /\ req[r].op = "reset"
    /\ Remember(r, Memory("resetDone", None, None, req[r].item))
    /\ UNCHANGED <<account, sessionVars, codeVars, secretVars, resetTokens>>

DeleteResetToken(r) ==
    /\ req[r].op = "resetDone"
    /\ resetTokens' = resetTokens \ {req[r].item}
    /\ Remember(r, Idle)
    /\ UNCHANGED <<account, sessionVars, codeVars, secretVars>>

\* The nightly purge of tokens older than an hour.
PurgeExpiredResetTokens ==
    /\ \E kept \in SUBSET resetTokens : kept # resetTokens /\ resetTokens' = kept
    /\ UNCHANGED <<account, sessionVars, codeVars, secretVars, req>>

-----------------------------------------------------------------------------

\* A statement fails, the process dies, or the answer is lost.
Fail(r) ==
    /\ req[r].op # "idle"
    /\ excused' = excused \cup ({req[r].browser} \ {None})
    /\ Remember(r, Idle)
    /\ UNCHANGED <<account, refreshTokens, cookie, codeVars, secretVars, resetTokens>>

SignIn(r, b) == Login(r, b) \/ GoogleCallback(r, b) \/ VerifyTwoFactor(r, b)
                \/ MatchBackupCode(r, b)

EndSession(r, b) == Logout(r, b) \/ DeleteAccount(r, b)

Continue(r) ==
    \/ IsTwoFactorSecretEncrypted(r) \/ Reencrypt(r)
    \/ ConsumeBackupCode(r) \/ StoreRefreshToken(r) \/ Answer(r)
    \/ DeleteRefreshToken(r) \/ RevokeAll(r) \/ DeleteUser(r)
    \/ DeleteBackupCodes(r) \/ CreateBackupCodes(r)
    \/ EnableTwoFactor(r) \/ DisableTwoFactor(r)
    \/ DeleteUserResetTokens(r) \/ CreateResetToken(r)
    \/ UpdatePassword(r) \/ DeleteResetToken(r)
    \/ Fail(r)

Next ==
    \/ \E r \in Requests :
         \/ \E b \in Browsers : SignIn(r, b) \/ FindRefreshToken(r, b) \/ EndSession(r, b)
         \/ BeginSettings(r) \/ RequestPasswordReset(r) \/ FindResetToken(r)
         \/ Continue(r)
    \/ SetupTwoFactor
    \/ PurgeExpiredResetTokens

Spec == Init /\ [][Next]_vars

-----------------------------------------------------------------------------
(* When handlers get in each other's way *)

\* One handler at a time changes the two-factor settings, and one requests a
\* password reset.
NoContention ==
    \A r, s \in Requests : r # s =>
        /\ ~(req[r].op \in SettingsOps /\ req[s].op \in SettingsOps)
        /\ ~(req[r].op \in ResetOps /\ req[s].op \in ResetOps)

ApartSpec == Init /\ [][Next /\ NoContention']_vars

-----------------------------------------------------------------------------
(* Properties *)

\* A backup code opens at most one session, whichever logins present it at
\* once, and however its batch is replaced meanwhile (findMatchingBackupCode).
CodeOpensOneSession == \A c \in Codes : opened[c] <= 1

\* A browser that sends one request after the other and gets every answer never
\* presents a token that is not stored, so a refresh treats it as replayed only
\* if its session was ended by somebody (refresh, the comment on a missing
\* record).
NoFalseAlarm ==
    \A r \in Requests : req[r].op = "replayed" => req[r].browser \in excused

\* Two-factor login always has a secret to check codes against, wherever the
\* handlers that set it up, switch it on and switch it off stop
\* (enableTwoFactor reads the secret and sets the flag three statements later).
EnabledHasSecret == twoFactorEnabled => twoFactorSecret # None

\* A new batch of backup codes and a new reset token replace all earlier ones,
\* though deleting and creating are two statements.
OneGeneration == Cardinality(backupCodes) <= 1 /\ Cardinality(resetTokens) <= 1

=============================================================================
