------------------------------ MODULE AdminAuth ------------------------------
(***************************************************************************)
(* Accounts of administrators: sign-up, password and Google login, refresh *)
(* token rotation, password reset and email verification.                  *)
(* src/internal/admin/handler/auth_handler.go runs each request as a       *)
(* sequence of statements of src/internal/storage/admin_auth_repo.go; some *)
(* of them form one PostgreSQL transaction.  A request here stops between  *)
(* two statements, so that transactions of different requests interleave   *)
(* under READ COMMITTED: a statement sees what is committed when it        *)
(* starts, waits for the row locks of other transactions, looks at a row   *)
(* again once it has its lock, and the writes of a transaction take effect *)
(* when it commits.  Wrong passwords and the locking of accounts are in    *)
(* module Throttling.                                                      *)
(***************************************************************************)
EXTENDS Naturals, FiniteSets

CONSTANTS
    Users,              \* accounts, each with its own username and email
    Requests,           \* HTTP requests in progress at the same time
    Passwords,
    Tokens,             \* hashes of password reset and verification tokens
    RefreshTokens,      \* hashes of refresh tokens
    None

ASSUME NoneAssumption == None \notin Passwords \cup Users \cup Tokens \cup RefreshTokens
ASSUME TokensAssumption == Tokens \cap RefreshTokens = {}
ASSUME RowsAssumption == Users \cap (Tokens \cup RefreshTokens) = {}

VARIABLES
    user,       \* table admin_users
    tok,        \* tables password_reset_tokens and email_verification_tokens
    refresh,    \* table refresh_tokens, with the session a token belongs to
    mailed,     \* tokens whose mail has been delivered
    req         \* requests in progress

vars == <<user, tok, refresh, mailed, req>>

Kinds == {"reset", "verify"}

Account == [exists : BOOLEAN, password : Passwords \cup {None}, google : BOOLEAN,
            verified : BOOLEAN]

NoAccount == [exists |-> FALSE, password |-> None, google |-> FALSE,
              verified |-> FALSE]

\* "expired" is an unused token (or a refresh token that is not revoked) past
\* its expires_at: only the statements that compare expires_at can tell.
Token == [kind : Kinds, user : Users \cup {None},
          state : {"absent", "unused", "expired", "used"}]

\* session is the token of the login that a chain of rotations goes back to.  A
\* row that was pruned is refused like a revoked one and counts as such.
Refresh == [user : Users \cup {None}, session : RefreshTokens \cup {None},
            state : {"absent", "live", "expired", "revoked"}]

Rows == Users \cup Tokens \cup RefreshTokens

\* Row locks: "X" is SELECT ... FOR UPDATE, "N" an UPDATE that leaves the key
\* alone, "S" the key share of a foreign key check.
Lock == [row : Rows, mode : {"X", "N", "S"}]

Request ==
    [op : {"none", "mail", "forgot", "resend", "reset", "verify", "login", "refresh"},
     pc : {"idle", "lockUser", "supersede", "sweep", "commit", "mail", "drop",
           "claim", "updateUser", "link", "create", "success", "issue",
           "rotate", "insert"},
     user : Users \cup {None},
     tok  : Tokens \cup RefreshTokens \cup {None},
     pw   : Passwords \cup {None},      \* new password of a reset
     seen : SUBSET (Tokens \cup RefreshTokens),  \* rows its UPDATE found
     todo : SUBSET (Tokens \cup RefreshTokens),  \* those not reached yet
     next : Tokens \cup RefreshTokens \cup {None},
     held : SUBSET Lock]                \* row locks of its transaction

Idle == [op |-> "none", pc |-> "idle", user |-> None, tok |-> None, pw |-> None,
         seen |-> {}, todo |-> {}, next |-> None, held |-> {}]

Init ==
    /\ user = [u \in Users |-> NoAccount]
    /\ tok = [t \in Tokens |-> [kind |-> "verify", user |-> None, state |-> "absent"]]
    /\ refresh = [t \in RefreshTokens |->
                    [user |-> None, session |-> None, state |-> "absent"]]
    /\ mailed = {}
    /\ req = [r \in Requests |-> Idle]

Unspent(t) == tok[t].state \in {"unused", "expired"}

Unrevoked(t) == refresh[t].state \in {"live", "expired"}

-----------------------------------------------------------------------------
(* Row locks of PostgreSQL *)

Conflict(m, n) == m = "X" \/ n = "X" \/ (m = "N" /\ n = "N")

\* What the current statement of a request locks.
Want(q) ==
    CASE q.pc = "lockUser" -> [row |-> q.user, mode |-> "X"]
      [] q.pc \in {"updateUser", "link", "success"} ->
            [row |-> q.user, mode |-> "N"]
      [] q.pc \in {"claim", "drop", "rotate"} -> [row |-> q.tok, mode |-> "N"]
      [] q.pc = "sweep" -> [row |-> q.next, mode |-> "N"]
      [] q.pc \in {"issue", "insert"} -> [row |-> q.user, mode |-> "S"]
      [] OTHER -> [row |-> None, mode |-> "S"]

WaitsFor(r, s) ==
    /\ r # s
    /\ \E l \in req[s].held : /\ l.row = Want(req[r]).row
                              /\ Conflict(l.mode, Want(req[r]).mode)

Granted(r) == ~ \E s \in Requests : WaitsFor(r, s)

\* r is on a cycle of requests that wait for each other.
Deadlocked(r) ==
    \E D \in SUBSET Requests :
        /\ r \in D
        /\ \A s \in D : /\ \E q \in D : WaitsFor(s, q)
                        /\ \E q \in D : WaitsFor(q, s)

\* The request goes on with its next statement, or has been answered.
Go(r, q) == req' = [req EXCEPT ![r] = q]

Answered(r) == Go(r, Idle)

At(r, pc) == req[r].pc = pc

\* Names of tokens that no row or request can be told apart by: a used token is
\* refused like one that was never issued.
FreeNames == {t \in Tokens : /\ tok[t].state \in {"absent", "used"}
                             /\ \A r \in Requests : t \notin req[r].seen \cup {req[r].tok}}

\* Bound: a request that will insert a token starts only while a name is left.
TokensLeft ==
    Cardinality({r \in Requests : req[r].op \in {"forgot", "resend"}})
      < Cardinality(FreeNames)

RefreshTokensLeft ==
    Cardinality({r \in Requests : req[r].op \in {"login", "refresh"}})
      < Cardinality({t \in RefreshTokens : refresh[t].state = "absent"})

-----------------------------------------------------------------------------
(* Sign-up and the transactions that replace a token *)

\* SignupTx inserts the account, its project and its first token at once.  A
\* username, email or company slug that is taken undoes all of it.
SignupTx(u, p, t) ==
    /\ ~ user[u].exists
    /\ user' = [user EXCEPT ![u] = [NoAccount EXCEPT !.exists = TRUE, !.password = p]]
    /\ tok' = [tok EXCEPT ![t] = [kind |-> "verify", user |-> u, state |-> "unused"]]

Signup(r, u, p, t) ==
    /\ At(r, "idle") /\ TokensLeft
    /\ t \in FreeNames
    /\ SignupTx(u, p, t)
    /\ mailed' = mailed \ {t}
    /\ Go(r, [Idle EXCEPT !.op = "mail", !.pc = "mail", !.tok = t])
    /\ UNCHANGED refresh

ForgotPassword(r, u) ==
    /\ At(r, "idle") /\ TokensLeft
    /\ user[u].exists /\ user[u].password # None
    /\ Go(r, [Idle EXCEPT !.op = "forgot", !.pc = "lockUser", !.user = u])
    /\ UNCHANGED <<user, tok, refresh, mailed>>

ResendVerification(r, u) ==
    /\ At(r, "idle") /\ TokensLeft
    /\ user[u].exists /\ ~ user[u].verified
    /\ Go(r, [Idle EXCEPT !.op = "resend", !.pc = "lockUser", !.user = u])
    /\ UNCHANGED <<user, tok, refresh, mailed>>

\* Mutant: the transaction does not lock the user.
LockUser_Not(r) ==
    /\ At(r, "lockUser")
    /\ Go(r, [req[r] EXCEPT !.pc = "supersede"])
    /\ UNCHANGED <<user, tok, refresh, mailed>>

\* SELECT id FROM admin_users WHERE id = $1 FOR UPDATE
LockUser(r) ==
    /\ At(r, "lockUser") /\ Granted(r)
    /\ Go(r, [req[r] EXCEPT !.pc = "supersede", !.held = {Want(req[r])}])
    /\ UNCHANGED <<user, tok, refresh, mailed>>

\* Rows that match the WHERE clause of the UPDATE over a user's tokens.
Matching(q) ==
    IF q.op = "reset"
    THEN {t \in RefreshTokens : refresh[t].user = q.user /\ Unrevoked(t)}
    ELSE {t \in Tokens : /\ tok[t].user = q.user /\ Unspent(t)
                         /\ tok[t].kind = IF q.op = "forgot" THEN "reset" ELSE "verify"
                         /\ \A l \in q.held : l.row # t}

\* The UPDATE reaches the next of the rows S, in the order of the table.
Sweep(r, q, S) ==
    \/ S = {} /\ Go(r, [q EXCEPT !.pc = "commit", !.todo = {}, !.next = None])
    \/ \E t \in S : Go(r, [q EXCEPT !.pc = "sweep", !.todo = S, !.next = t])

UpdateTokens(r) ==
    /\ At(r, "supersede")
    /\ LET S == Matching(req[r]) IN Sweep(r, [req[r] EXCEPT !.seen = S], S)
    /\ UNCHANGED <<user, tok, refresh, mailed>>

\* Mutant: FOR UPDATE SKIP LOCKED passes over rows other transactions hold.
SweepRow_SkipsLocked(r) ==
    LET q == req[r]
        matches == IF q.op = "reset" THEN Unrevoked(q.next) ELSE Unspent(q.next)
    IN  /\ At(r, "sweep")
        /\ Sweep(r, IF matches /\ Granted(r)
                    THEN [q EXCEPT !.held = @ \cup {Want(q)}] ELSE q,
                    q.todo \ {q.next})
        /\ UNCHANGED <<user, tok, refresh, mailed>>

SweepRow(r) ==
    LET q == req[r]
        matches == IF q.op = "reset" THEN Unrevoked(q.next) ELSE Unspent(q.next)
    IN  /\ At(r, "sweep") /\ Granted(r)
        /\ Sweep(r, IF matches THEN [q EXCEPT !.held = @ \cup {Want(q)}] ELSE q,
                    q.todo \ {q.next})
        /\ UNCHANGED <<user, tok, refresh, mailed>>

\* The token rows a transaction has updated become used when it commits.
Spent(q) == {t \in Tokens : \E l \in q.held : l.row = t}

\* INSERT of the new token and COMMIT.
InsertToken(r, kind, t) ==
    /\ At(r, "commit")
    /\ t \in FreeNames
    /\ tok' = [x \in Tokens |->
                 IF x = t THEN [kind |-> kind, user |-> req[r].user, state |-> "unused"]
                 ELSE IF x \in Spent(req[r]) THEN [tok[x] EXCEPT !.state = "used"]
                 ELSE tok[x]]
    /\ Go(r, [Idle EXCEPT !.op = "mail", !.pc = "mail", !.tok = t])
    /\ mailed' = mailed \ {t}
    /\ UNCHANGED <<user, refresh>>

ReplacePasswordResetTokenTx(r) ==
    req[r].op = "forgot" /\ \E t \in Tokens : InsertToken(r, "reset", t)

ReplaceEmailVerificationTokenTx(r) ==
    req[r].op = "resend" /\ \E t \in Tokens : InsertToken(r, "verify", t)

SendMail(r) ==
    /\ At(r, "mail")
    /\ mailed' = mailed \cup {req[r].tok}
    /\ Answered(r)
    /\ UNCHANGED <<user, tok, refresh>>

SendFails(r) ==
    /\ At(r, "mail")
    /\ Go(r, [req[r] EXCEPT !.pc = "drop"])
    /\ UNCHANGED <<user, tok, refresh, mailed>>

\* invalidateFailedToken and invalidateFailedVerificationToken
InvalidateFailedToken(r) ==
    /\ At(r, "drop") /\ Granted(r)
    /\ tok' = IF Unspent(req[r].tok)
              THEN [tok EXCEPT ![req[r].tok].state = "used"] ELSE tok
    /\ Answered(r)
    /\ UNCHANGED <<user, refresh, mailed>>

-----------------------------------------------------------------------------
(* Password reset and email verification *)

\* FindValidPasswordResetToken, and the new password must differ.
ResetPassword(r, t, p) ==
    /\ At(r, "idle")
    /\ t \in mailed /\ tok[t].kind = "reset" /\ tok[t].state = "unused"
    /\ user[tok[t].user].password # p
    /\ Go(r, [Idle EXCEPT !.op = "reset", !.pc = "claim", !.user = tok[t].user,
                          !.tok = t, !.pw = p])
    /\ UNCHANGED <<user, tok, refresh, mailed>>

VerifyEmail(r, t) ==
    /\ At(r, "idle")
    /\ t \in mailed /\ tok[t].kind = "verify"
    /\ Go(r, [Idle EXCEPT !.op = "verify", !.pc = "claim", !.user = tok[t].user,
                          !.tok = t])
    /\ UNCHANGED <<user, tok, refresh, mailed>>

\* Mutant: the UPDATE does not ask for used_at IS NULL again.
ClaimToken_Unchecked(r) ==
    LET q == req[r] IN
    /\ At(r, "claim") /\ Granted(r)
    /\ Go(r, [q EXCEPT !.pc = "updateUser", !.held = {Want(q)}])
    /\ UNCHANGED <<user, tok, refresh, mailed>>

\* UPDATE ... SET used_at WHERE used_at IS NULL AND expires_at > NOW()
ClaimToken(r) ==
    LET q == req[r] IN
    /\ At(r, "claim")
    /\ \/ /\ tok[q.tok].state = "unused" /\ Granted(r)
          /\ Go(r, [q EXCEPT !.pc = "updateUser", !.held = {Want(q)}])
       \/ /\ tok[q.tok].state # "unused"
          /\ Answered(r)
    /\ UNCHANGED <<user, tok, refresh, mailed>>

\* Mutant: the user is locked FOR UPDATE, as the other transactions do.
UpdateUser_ForUpdate(r) ==
    /\ At(r, "updateUser") /\ Granted(r)
    /\ Go(r, [req[r] EXCEPT !.pc = "supersede",
                            !.held = @ \cup {[row |-> req[r].user, mode |-> "X"]}])
    /\ UNCHANGED <<user, tok, refresh, mailed>>

UpdateUser(r) ==
    /\ At(r, "updateUser") /\ Granted(r)
    /\ Go(r, [req[r] EXCEPT !.pc = "supersede", !.held = @ \cup {Want(req[r])}])
    /\ UNCHANGED <<user, tok, refresh, mailed>>

SpendTokens(q) == [x \in Tokens |-> IF x \in Spent(q)
                                    THEN [tok[x] EXCEPT !.state = "used"] ELSE tok[x]]

VerifyEmailTx(r) ==
    /\ req[r].op = "verify" /\ At(r, "commit")
    /\ user' = [user EXCEPT ![req[r].user].verified = TRUE]
    /\ tok' = SpendTokens(req[r])
    /\ Answered(r)
    /\ UNCHANGED <<refresh, mailed>>

ResetPasswordTx(r) ==
    LET q == req[r] IN
    /\ q.op = "reset" /\ At(r, "commit")
    /\ user' = [user EXCEPT ![q.user].password = q.pw]
    /\ tok' = SpendTokens(q)
    /\ refresh' = [x \in RefreshTokens |->
                     IF \E l \in q.held : l.row = x
                     THEN [refresh[x] EXCEPT !.state = "revoked"] ELSE refresh[x]]
    /\ Answered(r)
    /\ UNCHANGED mailed

-----------------------------------------------------------------------------
(* Login *)

\* Reads the account, compares the password and goes on with what it has read.
Login(r, u, p) ==
    LET a == user[u] IN
    /\ At(r, "idle") /\ RefreshTokensLeft
    /\ a.exists /\ a.password = p /\ a.verified
    /\ Go(r, [Idle EXCEPT !.op = "login", !.pc = "success", !.user = u])
    /\ UNCHANGED <<user, tok, refresh, mailed>>

\* Writes columns of the row that only module Throttling looks at.
UpdateAdminLoginSuccess(r) ==
    /\ At(r, "success") /\ Granted(r)
    /\ Go(r, [req[r] EXCEPT !.pc = "issue"])
    /\ UNCHANGED <<user, tok, refresh, mailed>>

\* issueTokensForUser: every login starts a session of its own.
CreateRefreshToken(r) ==
    /\ At(r, "issue") /\ Granted(r)
    /\ \E t \in RefreshTokens :
         /\ refresh[t].state = "absent"
         /\ refresh' = [refresh EXCEPT ![t] = [user |-> req[r].user, session |-> t,
                                               state |-> "live"]]
    /\ Answered(r)
    /\ UNCHANGED <<user, tok, mailed>>

-----------------------------------------------------------------------------
(* Google login: resolveGoogleUser reads first and acts on what it found *)

GoogleCallback(r, u) ==
    /\ At(r, "idle") /\ RefreshTokensLeft
    /\ Go(r, [Idle EXCEPT !.op = "login", !.user = u,
              !.pc = CASE user[u].google -> "success"
                       [] user[u].exists /\ ~ user[u].google -> "link"
                       [] OTHER -> "create"])
    /\ UNCHANGED <<user, tok, refresh, mailed>>

LinkGoogleAccount(r) ==
    /\ At(r, "link") /\ Granted(r)
    /\ user' = [user EXCEPT ![req[r].user].google = TRUE, ![req[r].user].verified = TRUE]
    /\ Go(r, [req[r] EXCEPT !.pc = "success"])
    /\ UNCHANGED <<tok, refresh, mailed>>

\* ON CONFLICT (email) DO NOTHING: an account made meanwhile ends the request.
GoogleSignupTx(r) ==
    LET u == req[r].user IN
    /\ At(r, "create")
    /\ \/ /\ ~ user[u].exists
          /\ user' = [user EXCEPT ![u] = [NoAccount EXCEPT !.exists = TRUE,
                                            !.google = TRUE, !.verified = TRUE]]
          /\ Go(r, [req[r] EXCEPT !.pc = "success"])
       \/ /\ user[u].exists
          /\ Answered(r)
          /\ UNCHANGED user
    /\ UNCHANGED <<tok, refresh, mailed>>

-----------------------------------------------------------------------------
(* Refresh tokens *)

RefreshSession(r, t) ==
    /\ At(r, "idle") /\ RefreshTokensLeft
    /\ refresh[t].state = "live"
    /\ Go(r, [Idle EXCEPT !.op = "refresh", !.pc = "rotate", !.user = refresh[t].user,
                          !.tok = t])
    /\ UNCHANGED <<user, tok, refresh, mailed>>

\* The first UPDATE of RotateRefreshToken must change exactly one row.
RevokeOld(r) ==
    LET q == req[r] IN
    /\ At(r, "rotate")
    /\ \/ /\ Unrevoked(q.tok) /\ Granted(r)
          /\ Go(r, [q EXCEPT !.pc = "insert", !.held = {Want(q)}])
       \/ /\ ~ Unrevoked(q.tok)
          /\ Answered(r)
    /\ UNCHANGED <<user, tok, refresh, mailed>>

\* Mutant: the old token stays valid.
RotateRefreshToken_KeepsOld(r) ==
    LET q == req[r] IN
    /\ At(r, "insert") /\ Granted(r)
    /\ \E t \in RefreshTokens :
         /\ refresh[t].state = "absent"
         /\ refresh' = [refresh EXCEPT
               ![t] = [user |-> q.user, session |-> refresh[q.tok].session,
                       state |-> "live"]]
    /\ Answered(r)
    /\ UNCHANGED <<user, tok, mailed>>

RotateRefreshToken(r) ==
    LET q == req[r] IN
    /\ At(r, "insert") /\ Granted(r)
    /\ \E t \in RefreshTokens :
         /\ refresh[t].state = "absent"
         /\ refresh' = [refresh EXCEPT
               ![q.tok].state = "revoked",
               ![t] = [user |-> q.user, session |-> refresh[q.tok].session,
                       state |-> "live"]]
    /\ Answered(r)
    /\ UNCHANGED <<user, tok, mailed>>

Locked(x) == \E r \in Requests : \E l \in req[r].held : l.row = x

\* Logout is one UPDATE, which waits for the row like the others.
RevokeRefreshToken(t) ==
    /\ Unrevoked(t) /\ ~ Locked(t)
    /\ refresh' = [refresh EXCEPT ![t].state = "revoked"]
    /\ UNCHANGED <<user, tok, mailed, req>>

PruneExpiredTokens(t) ==
    /\ refresh[t].state = "expired" /\ ~ Locked(t)
    /\ refresh' = [refresh EXCEPT ![t].state = "revoked"]
    /\ UNCHANGED <<user, tok, mailed, req>>

-----------------------------------------------------------------------------
(* Time, failures and the database's own deadlock detection *)

RefreshTokenExpires(t) ==
    /\ refresh[t].state = "live"
    /\ refresh' = [refresh EXCEPT ![t].state = "expired"]
    /\ UNCHANGED <<user, tok, mailed, req>>

TokenExpires(t) ==
    /\ tok[t].state = "unused"
    /\ tok' = [tok EXCEPT ![t].state = "expired"]
    /\ UNCHANGED <<user, refresh, mailed, req>>

\* defer tx.Rollback(): whatever ends a request early, its locks are released
\* and nothing of its transaction is kept.
Rollback(r) ==
    /\ Answered(r)
    /\ UNCHANGED <<user, tok, refresh, mailed>>

\* The client goes away, a statement fails or the process dies.
Cancelled(r) == ~ At(r, "idle") /\ Rollback(r)

DeadlockVictim(r) == Deadlocked(r) /\ Rollback(r)

-----------------------------------------------------------------------------
Step(r) ==
    \/ LockUser(r) \/ UpdateTokens(r) \/ SweepRow(r)
    \/ ReplacePasswordResetTokenTx(r) \/ ReplaceEmailVerificationTokenTx(r)
    \/ SendMail(r) \/ SendFails(r) \/ InvalidateFailedToken(r)
    \/ ClaimToken(r) \/ UpdateUser(r) \/ VerifyEmailTx(r) \/ ResetPasswordTx(r)
    \/ UpdateAdminLoginSuccess(r) \/ CreateRefreshToken(r)
    \/ LinkGoogleAccount(r) \/ GoogleSignupTx(r)
    \/ RevokeOld(r) \/ RotateRefreshToken(r)

Begin(r) ==
    \/ \E u \in Users : \/ ForgotPassword(r, u) \/ ResendVerification(r, u)
                        \/ GoogleCallback(r, u)
                        \/ \E p \in Passwords : \/ Login(r, u, p)
                                                \/ \E t \in Tokens : Signup(r, u, p, t)
    \/ \E t \in Tokens : \/ VerifyEmail(r, t)
                         \/ \E p \in Passwords : ResetPassword(r, t, p)
    \/ \E t \in RefreshTokens : RefreshSession(r, t)

Background ==
    \/ \E t \in RefreshTokens : \/ RevokeRefreshToken(t) \/ PruneExpiredTokens(t)
                                \/ RefreshTokenExpires(t)
    \/ \E t \in Tokens : TokenExpires(t)

Next ==
    \/ \E r \in Requests : Begin(r) \/ Step(r) \/ Cancelled(r) \/ DeadlockVictim(r)
    \/ Background

Spec == Init /\ [][Next]_vars

-----------------------------------------------------------------------------
(* Properties *)

\* Rows and requests are well formed, and only a request in a transaction holds
\* row locks.
TypeOK ==
    /\ user \in [Users -> Account]
    /\ tok \in [Tokens -> Token]
    /\ refresh \in [RefreshTokens -> Refresh]
    /\ mailed \subseteq Tokens
    /\ req \in [Requests -> Request]
    /\ \A r \in Requests : req[r].held # {} =>
         req[r].pc \in {"supersede", "sweep", "commit", "updateUser", "insert"}

\* However many refreshes, logouts and password resets overlap, a session that
\* began with one login has at most one refresh token that is not revoked:
\* RotateRefreshToken lets only one of two requests with the same cookie win.
OneTokenPerSession ==
    \A s, t \in RefreshTokens :
        Unrevoked(s) /\ Unrevoked(t) /\ refresh[s].session = refresh[t].session => s = t

\* A user never has two unused tokens of a kind, although requests for a new
\* one, verifications and resets overlap: the transactions that replace a token
\* keep this up by locking the user, before the unique index of migration 0025
\* (there is none for verification tokens) would have to refuse an INSERT.
OneUnspentToken ==
    \A s, t \in Tokens :
        /\ Unspent(s) /\ Unspent(t)
        /\ tok[s].user = tok[t].user /\ tok[s].kind = tok[t].kind
        => s = t

\* An existing account gets another password, or becomes verified, only in a
\* step that spends a mailed token of its own, or by linking a Google account:
\* two requests with the same link cannot both succeed.
CredentialsNeedToken ==
    [][\A u \in Users : user[u].exists =>
         /\ user'[u].password # user[u].password =>
              \E t \in mailed : /\ tok[t].kind = "reset" /\ tok[t].user = u
                                /\ Unspent(t) /\ tok'[t].state = "used"
         /\ user'[u].verified # user[u].verified =>
              \/ user'[u].google
              \/ \E t \in mailed : /\ tok[t].kind = "verify" /\ tok[t].user = u
                                   /\ Unspent(t) /\ tok'[t].state = "used"]_vars

\* When ResetPasswordTx commits, no refresh token its UPDATE has seen is left
\* valid, even one that was being rotated while the UPDATE waited for its row.
ResetEndsSessions ==
    [][\A r \in Requests : ResetPasswordTx(r) =>
         \A t \in req[r].seen : refresh'[t].state = "revoked"]_vars

\* Verification and reset lock a token and then the user, the transactions that
\* replace a token lock in the other order, so those can deadlock; logins and
\* refreshes never do, in spite of the foreign keys and of the rows a reset
\* revokes.
SessionsNeverDeadlock ==
    \A r \in Requests :
        Deadlocked(r) => req[r].op \in {"forgot", "resend", "reset", "verify"}

-----------------------------------------------------------------------------
(* What refresh tokens promise: module Sessions *)

\* The token a session goes on with.
CurrentToken(s) ==
    LET T == {t \in RefreshTokens : refresh[t].session = s /\ Unrevoked(t)}
    IN  IF T = {} THEN None ELSE CHOOSE t \in T : TRUE

Abstract == INSTANCE Sessions WITH
    Ids <- RefreshTokens,
    issued <- {t \in RefreshTokens : refresh[t].state # "absent"},
    current <- [s \in RefreshTokens |-> CurrentToken(s)]

\* The statements of login, refresh, logout, reset and pruning implement
\* sessions that rotate atomically and never come back once they have ended.
ImplementsSessions == Abstract!Spec

=============================================================================
