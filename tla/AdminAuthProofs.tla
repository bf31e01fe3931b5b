--------------------------- MODULE AdminAuthProofs ---------------------------
(***************************************************************************)
(* Admin accounts, for any number of accounts, requests and tokens.  At    *)
(* most one token of a session is not revoked, and AdminAuth implements    *)
(* Sessions; a user has at most one unspent mailed token of a kind, an     *)
(* account changes only with such a token, a reset ends the sessions it has *)
(* seen, and logins and refreshes never deadlock.                          *)
(*                                                                         *)
(* The argument is about row locks.  A transaction that is going to revoke a *)
(* refresh token holds the lock of its row, nobody else holds that lock, and *)
(* until the transaction ends nobody else revokes the token (IInv).  So the *)
(* token RotateRefreshToken replaces is still the one its session goes on  *)
(* with when the new one is inserted.  A transaction that issues a mailed  *)
(* token has its user's row for itself, and locks every unspent token of the *)
(* user before it commits; one that redeems a token holds the token's lock *)
(* until it has spent it (TInv).                                           *)
(***************************************************************************)
EXTENDS AdminAuth, TLAPS

----------------------------------------------------------------------------
(* The inductive invariant *)

\* Tokens that were mailed belong to somebody, and a session began with a token.
RowInv ==
    /\ \A t \in mailed : tok[t].user \in Users
    /\ \A t \in RefreshTokens :
         IF refresh[t].state = "absent" THEN refresh[t].session = None
         ELSE /\ refresh[t].session \in RefreshTokens
              /\ refresh[refresh[t].session].state # "absent"

\* What a request has at hand for its next statement.
PcOk(q) ==
    /\ q.pc \in {"lockUser", "supersede", "sweep", "commit", "claim", "updateUser"} =>
          q.user \in Users
    /\ q.pc \in {"claim", "mail", "drop"} => q.tok \in Tokens
    /\ q.pc \in {"mail", "drop"} => tok[q.tok].user \in Users
    /\ q.pc = "rotate" => q.tok \in RefreshTokens
    /\ q.pc = "insert" => q.tok \in RefreshTokens /\ \E l \in q.held : l.row = q.tok
    /\ q.pc = "sweep" => q.next \in q.todo
    /\ q.todo \subseteq IF q.op = "reset" THEN RefreshTokens ELSE Tokens
    /\ q.held # {} => q.pc \in {"supersede", "sweep", "commit", "updateUser", "insert"}

PcInv == \A r \in Requests : PcOk(req[r])

\* The lock of a refresh token has one holder, and keeps the token from being revoked.
LockInv ==
    \A r \in Requests : \A l \in req[r].held : l.row \in RefreshTokens =>
        /\ l.mode = "N"
        /\ Unrevoked(l.row)
        /\ \A s \in Requests \ {r} : \A m \in req[s].held : m.row # l.row

IInv == TypeOK /\ RowInv /\ PcInv /\ LockInv /\ OneTokenPerSession

Tables ==
    /\ user \in [Users -> Account]
    /\ tok \in [Tokens -> Token]
    /\ refresh \in [RefreshTokens -> Refresh]
    /\ mailed \subseteq Tokens

----------------------------------------------------------------------------
(* Steps of one request *)

\* A request that goes on keeps the invariant of the requests if its own next statement
\* and locks are in order and the locks of the others still protect their tokens.
LEMMA Moves ==
    ASSUME IInv, NEW r \in Requests, NEW q \in Request, Go(r, q), Tables',
           \A t \in Tokens : tok[t].user \in Users => tok'[t].user \in Users,
           \A s \in Requests \ {r} : \A l \in req[s].held :
               l.row \in RefreshTokens => Unrevoked(l.row)',
           \A l \in q.held : l.row \in RefreshTokens =>
               /\ l.mode = "N"
               /\ Unrevoked(l.row)'
               /\ \A s \in Requests \ {r} : \A m \in req[s].held : m.row # l.row,
           PcOk(q)'
    PROVE  TypeOK' /\ PcInv' /\ LockInv'
<1>1. /\ req \in [Requests -> Request]
      /\ req' = [req EXCEPT ![r] = q]
  BY Zenon DEF IInv, TypeOK, Go
<1>2. /\ req' \in [Requests -> Request]
      /\ req'[r] = q
      /\ \A s \in Requests \ {r} : req'[s] = req[s]
  BY Zenon, <1>1
<1>3. PcInv'
  <2> SUFFICES ASSUME NEW s \in Requests
               PROVE  PcOk(req[s])'
    BY Zenon DEF PcInv
  <2>1. CASE s = r
    BY Zenon, <2>1, <1>2 DEF PcOk
  <2>2. CASE s # r
    <3>1. req'[s] = req[s] /\ PcOk(req[s])
      BY Zenon, <2>2, <1>2 DEF IInv, PcInv
    <3> QED  BY Zenon, <3>1 DEF PcOk
  <2> QED  BY Zenon, <2>1, <2>2
<1>4. LockInv'
  <2> SUFFICES ASSUME NEW s \in Requests, NEW l \in req'[s].held, l.row \in RefreshTokens
               PROVE  /\ l.mode = "N"
                      /\ Unrevoked(l.row)'
                      /\ \A p \in Requests \ {s} : \A m \in req'[p].held : m.row # l.row
    BY Zenon DEF LockInv
  <2>1. CASE s = r
    BY Zenon, <2>1, <1>2
  <2>2. CASE s # r
    <3>1. /\ l \in req[s].held
          /\ l.mode = "N"
          /\ \A p \in Requests \ {s} : \A m \in req[p].held : m.row # l.row
      BY Zenon, <2>2, <1>2 DEF IInv, LockInv
    <3>2. Unrevoked(l.row)'
      BY Zenon, <3>1, <2>2
    <3>3. \A m \in q.held : m.row # l.row
      BY Zenon, <3>1, <2>2
    <3> QED  BY Zenon, <3>1, <3>2, <3>3, <1>2
  <2> QED  BY Zenon, <2>1, <2>2
<1>5. \A s \in Requests : req'[s].held # {} =>
        req'[s].pc \in {"supersede", "sweep", "commit", "updateUser", "insert"}
  BY Zenon, <1>3 DEF PcInv, PcOk
<1> QED  BY Zenon, <1>2, <1>3, <1>4, <1>5 DEF TypeOK, Tables

\* The same for a step that leaves refresh tokens alone and takes no lock of one.
LEMMA QuietMoves ==
    ASSUME IInv, NEW r \in Requests, NEW q \in Request, Go(r, q), Tables',
           UNCHANGED refresh,
           \A t \in Tokens : tok[t].user \in Users => tok'[t].user \in Users,
           \A l \in q.held : l.row \in RefreshTokens => l \in req[r].held,
           PcOk(q)'
    PROVE  TypeOK' /\ PcInv' /\ LockInv' /\ OneTokenPerSession'
<1>1. \A s \in Requests : \A l \in req[s].held : l.row \in RefreshTokens => Unrevoked(l.row)'
  BY Zenon DEF IInv, LockInv, Unrevoked
<1>2. \A l \in q.held : l.row \in RefreshTokens =>
        /\ l.mode = "N"
        /\ Unrevoked(l.row)'
        /\ \A s \in Requests \ {r} : \A m \in req[s].held : m.row # l.row
  BY Zenon, <1>1 DEF IInv, LockInv
<1>3. OneTokenPerSession'
  BY SMTT(30) DEF IInv, OneTokenPerSession, Unrevoked
<1> QED  BY Zenon, <1>1, <1>2, <1>3, Moves

\* A request that is over holds nothing and needs nothing.
LEMMA IdleOk == Idle \in Request /\ Idle.held = {} /\ Idle.pc = "idle" /\ PcOk(Idle) /\ PcOk(Idle)'
BY Zenon DEF Idle, Request, PcOk

\* A request that is answered, or rolled back, gives up its locks.
LEMMA AnsweredQuietly ==
    ASSUME IInv, NEW r \in Requests, Answered(r), Tables', UNCHANGED refresh,
           \A t \in Tokens : tok[t].user \in Users => tok'[t].user \in Users
    PROVE  TypeOK' /\ PcInv' /\ LockInv' /\ OneTokenPerSession'
BY Zenon, IdleOk, QuietMoves DEF Answered

\* Requests that begin have read what they need and hold no lock.
LEMMA BeginKeeps ==
    ASSUME IInv, NEW r \in Requests, Begin(r)
    PROVE  IInv'
<1> USE NoneAssumption
<1>0. Tables /\ RowInv
  BY Zenon DEF IInv, TypeOK, Tables
<1>1. ASSUME NEW u \in Users, ForgotPassword(r, u)
      PROVE  IInv'
  <2> DEFINE q == [Idle EXCEPT !.op = "forgot", !.pc = "lockUser", !.user = u]
  <2>1. Go(r, q) /\ UNCHANGED <<user, tok, refresh, mailed>>
    BY Zenon, <1>1 DEF ForgotPassword
  <2>2. q \in Request /\ q.held = {} /\ PcOk(q)'
    BY Zenon DEF Idle, Request, PcOk
  <2>3. Tables' /\ RowInv'
    BY Zenon, <1>0, <2>1 DEF Tables, RowInv
  <2> QED  BY Zenon, <2>1, <2>2, <2>3, QuietMoves DEF IInv
<1>2. ASSUME NEW u \in Users, ResendVerification(r, u)
      PROVE  IInv'
  <2> DEFINE q == [Idle EXCEPT !.op = "resend", !.pc = "lockUser", !.user = u]
  <2>1. Go(r, q) /\ UNCHANGED <<user, tok, refresh, mailed>>
    BY Zenon, <1>2 DEF ResendVerification
  <2>2. q \in Request /\ q.held = {} /\ PcOk(q)'
    BY Zenon DEF Idle, Request, PcOk
  <2>3. Tables' /\ RowInv'
    BY Zenon, <1>0, <2>1 DEF Tables, RowInv
  <2> QED  BY Zenon, <2>1, <2>2, <2>3, QuietMoves DEF IInv
<1>3. ASSUME NEW u \in Users, GoogleCallback(r, u)
      PROVE  IInv'
  <2>1. PICK pc \in {"success", "link", "create"} :
           Go(r, [Idle EXCEPT !.op = "login", !.user = u, !.pc = pc])
    BY Zenon, <1>3 DEF GoogleCallback
  <2> DEFINE q == [Idle EXCEPT !.op = "login", !.user = u, !.pc = pc]
  <2>2. Go(r, q) /\ UNCHANGED <<user, tok, refresh, mailed>>
    BY Zenon, <1>3, <2>1 DEF GoogleCallback
  <2>3. q \in Request /\ q.held = {} /\ PcOk(q)'
    BY Zenon DEF Idle, Request, PcOk
  <2>4. Tables' /\ RowInv'
    BY Zenon, <1>0, <2>2 DEF Tables, RowInv
  <2> QED  BY Zenon, <2>2, <2>3, <2>4, QuietMoves DEF IInv
<1>4. ASSUME NEW u \in Users, NEW p \in Passwords, Login(r, u, p)
      PROVE  IInv'
  <2> DEFINE q == [Idle EXCEPT !.op = "login", !.pc = "success", !.user = u]
  <2>1. Go(r, q) /\ UNCHANGED <<user, tok, refresh, mailed>>
    BY Zenon, <1>4 DEF Login
  <2>2. q \in Request /\ q.held = {} /\ PcOk(q)'
    BY Zenon DEF Idle, Request, PcOk
  <2>3. Tables' /\ RowInv'
    BY Zenon, <1>0, <2>1 DEF Tables, RowInv
  <2> QED  BY Zenon, <2>1, <2>2, <2>3, QuietMoves DEF IInv
<1>5. ASSUME NEW u \in Users, NEW p \in Passwords, NEW t \in Tokens, Signup(r, u, p, t)
      PROVE  IInv'
  <2> DEFINE q == [Idle EXCEPT !.op = "mail", !.pc = "mail", !.tok = t]
  <2>1. /\ Go(r, q)
        /\ UNCHANGED refresh
        /\ mailed' = mailed \ {t}
        /\ user' = [user EXCEPT ![u] = [NoAccount EXCEPT !.exists = TRUE, !.password = p]]
        /\ tok' = [tok EXCEPT ![t] = [kind |-> "verify", user |-> u, state |-> "unused"]]
    BY Zenon, <1>5 DEF Signup, SignupTx
  <2>2. [kind |-> "verify", user |-> u, state |-> "unused"] \in Token
    BY Zenon DEF Token, Kinds
  <2>3. [NoAccount EXCEPT !.exists = TRUE, !.password = p] \in Account
    BY Zenon DEF NoAccount, Account
  <2>4. /\ Tables'
        /\ tok'[t].state = "unused" /\ tok'[t].user = u
        /\ \A x \in Tokens \ {t} : tok'[x] = tok[x]
    BY Zenon, <1>0, <2>1, <2>2, <2>3 DEF Tables
  <2>5. q \in Request /\ q.held = {} /\ PcOk(q)'
    BY Zenon, <2>4 DEF Idle, Request, PcOk
  <2>6. RowInv'
    BY Zenon, <1>0, <2>1, <2>4 DEF RowInv, Tables
  <2> QED  BY Zenon, <2>1, <2>4, <2>5, <2>6, QuietMoves DEF IInv
<1>6. ASSUME NEW t \in Tokens, VerifyEmail(r, t)
      PROVE  IInv'
  <2>p. PICK u \in Users : u = tok[t].user
    BY Zenon, <1>0, <1>6 DEF VerifyEmail, RowInv
  <2> DEFINE q == [Idle EXCEPT !.op = "verify", !.pc = "claim", !.user = u, !.tok = t]
  <2>1. Go(r, q) /\ UNCHANGED <<user, tok, refresh, mailed>>
    BY Zenon, <1>6, <2>p DEF VerifyEmail
  <2>3. q \in Request /\ q.held = {} /\ PcOk(q)'
    BY Zenon DEF Idle, Request, PcOk
  <2>4. Tables' /\ RowInv'
    BY Zenon, <1>0, <2>1 DEF Tables, RowInv
  <2> QED  BY Zenon, <2>1, <2>3, <2>4, QuietMoves DEF IInv
<1>7. ASSUME NEW t \in Tokens, NEW p \in Passwords, ResetPassword(r, t, p)
      PROVE  IInv'
  <2>p. PICK u \in Users : u = tok[t].user
    BY Zenon, <1>0, <1>7 DEF ResetPassword, RowInv
  <2> DEFINE q == [Idle EXCEPT !.op = "reset", !.pc = "claim", !.user = u,
                               !.tok = t, !.pw = p]
  <2>1. Go(r, q) /\ UNCHANGED <<user, tok, refresh, mailed>>
    BY Zenon, <1>7, <2>p DEF ResetPassword
  <2>3. q \in Request /\ q.held = {} /\ PcOk(q)'
    BY Zenon DEF Idle, Request, PcOk
  <2>4. Tables' /\ RowInv'
    BY Zenon, <1>0, <2>1 DEF Tables, RowInv
  <2> QED  BY Zenon, <2>1, <2>3, <2>4, QuietMoves DEF IInv
<1>8. ASSUME NEW t \in RefreshTokens, RefreshSession(r, t)
      PROVE  IInv'
  <2>p. PICK u \in Users \cup {None} : u = refresh[t].user
    BY Zenon, <1>0 DEF Tables, Refresh
  <2> DEFINE q == [Idle EXCEPT !.op = "refresh", !.pc = "rotate", !.user = u, !.tok = t]
  <2>1. Go(r, q) /\ UNCHANGED <<user, tok, refresh, mailed>>
    BY Zenon, <1>8, <2>p DEF RefreshSession
  <2>3. q \in Request /\ q.held = {} /\ PcOk(q)'
    BY Zenon DEF Idle, Request, PcOk
  <2>4. Tables' /\ RowInv'
    BY Zenon, <1>0, <2>1 DEF Tables, RowInv
  <2> QED  BY Zenon, <2>1, <2>3, <2>4, QuietMoves DEF IInv
<1> QED  BY Zenon, <1>1, <1>2, <1>3, <1>4, <1>5, <1>6, <1>7, <1>8 DEF Begin

----------------------------------------------------------------------------
(* Statements that take locks *)

\* The lock a statement gets on the row of a refresh token is nobody else's.
LEMMA GrantedAlone ==
    ASSUME IInv, NEW r \in Requests, Granted(r),
           NEW t \in RefreshTokens, Want(req[r]) = [row |-> t, mode |-> "N"]
    PROVE  \A s \in Requests \ {r} : \A m \in req[s].held : m.row # t
<1> SUFFICES ASSUME NEW s \in Requests \ {r}, NEW m \in req[s].held, m.row = t
             PROVE  FALSE
  BY Zenon
<1>1. m.mode = "N"
  BY Zenon DEF IInv, LockInv
<1>2. WaitsFor(r, s)
  BY <1>1 DEF WaitsFor, Conflict
<1> QED  BY Zenon, <1>2 DEF Granted

\* A request that goes on with another statement and other locks.
With(old, pc, h) == [old EXCEPT !.pc = pc, !.held = h]

\* With changes the statement and the locks, and nothing else.
LEMMA WithIs ==
    ASSUME NEW old \in Request, NEW h \in SUBSET Lock,
           NEW pc \in {"supersede", "updateUser", "insert", "issue", "success", "drop"}
    PROVE  /\ With(old, pc, h) \in Request
           /\ With(old, pc, h).pc = pc /\ With(old, pc, h).held = h
           /\ With(old, pc, h).op = old.op /\ With(old, pc, h).user = old.user
           /\ With(old, pc, h).tok = old.tok /\ With(old, pc, h).todo = old.todo
           /\ With(old, pc, h).seen = old.seen
<1>1. PICK q : q = With(old, pc, h)
  BY Zenon
<1>2. q = [old EXCEPT !.pc = pc, !.held = h]
  BY Zenon, <1>1 DEF With
<1>3. /\ q \in Request
      /\ q.pc = pc /\ q.held = h
      /\ q.op = old.op /\ q.user = old.user
      /\ q.tok = old.tok /\ q.todo = old.todo /\ q.seen = old.seen
  BY Zenon, <1>2 DEF Request
<1> QED  BY Zenon, <1>1, <1>3

\* Statements that take a row lock: SELECT ... FOR UPDATE and single UPDATEs.
LEMMA TakeKeeps ==
    ASSUME IInv, NEW r \in Requests,
           LockUser(r) \/ ClaimToken(r) \/ UpdateUser(r) \/ RevokeOld(r)
    PROVE  IInv'
<1> USE NoneAssumption, TokensAssumption, RowsAssumption
<1>p. PICK old \in Request : old = req[r]
  BY Zenon DEF IInv, TypeOK
<1>0. /\ Tables /\ RowInv /\ PcOk(old)
      /\ UNCHANGED <<user, tok, refresh, mailed>>
  BY Zenon, <1>p DEF IInv, TypeOK, Tables, PcInv, LockUser, ClaimToken, UpdateUser, RevokeOld
<1>1. Tables' /\ RowInv'
  BY Zenon, <1>0 DEF Tables, RowInv
<1>2. CASE Answered(r)
  BY Zenon, <1>0, <1>1, <1>2, AnsweredQuietly DEF IInv
<1>3. CASE LockUser(r)
  <2> DEFINE q == With(old, "supersede", {Want(old)})
  <2>1. Go(r, q) /\ old.pc = "lockUser"
    BY Zenon, <1>3, <1>p DEF LockUser, At, With
  <2>2. Want(old) = [row |-> old.user, mode |-> "X"] /\ old.user \in Users
    BY Zenon, <1>0, <2>1 DEF Want, PcOk
  <2>3. Want(old) \in Lock /\ Want(old).row \notin RefreshTokens
    BY <2>2 DEF Lock, Rows
  <2>a. {Want(old)} \in SUBSET Lock
    BY Zenon, <1>p, <2>3 DEF Request
  <2>b. /\ q \in Request /\ q.held = {Want(old)}
        /\ q.pc = "supersede" /\ q.op = old.op /\ q.user = old.user /\ q.tok = old.tok
        /\ q.todo = old.todo
    BY SMTT(30), <1>p, <2>a, WithIs
  <2>4. PcOk(q)'
    BY Zenon, <1>0, <2>2, <2>b DEF PcOk
  <2> QED  BY Zenon, <1>p, <1>0, <1>1, <2>1, <2>3, <2>b, <2>4, QuietMoves DEF IInv
<1>4. CASE ClaimToken(r) /\ ~Answered(r)
  <2> DEFINE q == With(old, "updateUser", {Want(old)})
  <2>1. Go(r, q) /\ old.pc = "claim"
    BY Zenon, <1>4, <1>p DEF ClaimToken, At, With
  <2>2. Want(old) = [row |-> old.tok, mode |-> "N"] /\ old.tok \in Tokens /\ old.user \in Users
    BY Zenon, <1>0, <2>1 DEF Want, PcOk
  <2>3. Want(old) \in Lock /\ Want(old).row \notin RefreshTokens
    BY <2>2 DEF Lock, Rows
  <2>a. {Want(old)} \in SUBSET Lock
    BY Zenon, <1>p, <2>3 DEF Request
  <2>b. /\ q \in Request /\ q.held = {Want(old)}
        /\ q.pc = "updateUser" /\ q.op = old.op /\ q.user = old.user /\ q.tok = old.tok
        /\ q.todo = old.todo
    BY SMTT(30), <1>p, <2>a, WithIs
  <2>4. PcOk(q)'
    BY SMTT(30), <1>0, <2>2, <2>3, <2>b DEF PcOk
  <2> QED  BY SMTT(30), <1>p, <1>0, <1>1, <2>1, <2>3, <2>b, <2>4, QuietMoves DEF IInv
<1>5. CASE UpdateUser(r)
  <2> DEFINE q == With(old, "supersede", old.held \cup {Want(old)})
  <2>1. Go(r, q) /\ old.pc = "updateUser"
    BY Zenon, <1>5, <1>p DEF UpdateUser, At, With
  <2>2. Want(old) = [row |-> old.user, mode |-> "N"] /\ old.user \in Users
    BY Zenon, <1>0, <2>1 DEF Want, PcOk
  <2>3. Want(old) \in Lock /\ Want(old).row \notin RefreshTokens
    BY <2>2 DEF Lock, Rows
  <2>a. old.held \cup {Want(old)} \in SUBSET Lock
    BY Zenon, <1>p, <2>3 DEF Request
  <2>b. /\ q \in Request /\ q.held = old.held \cup {Want(old)}
        /\ q.pc = "supersede" /\ q.op = old.op /\ q.user = old.user /\ q.tok = old.tok
        /\ q.todo = old.todo
    BY <1>p, <2>a, WithIs
  <2>4. PcOk(q)'
    BY Zenon, <1>0, <2>2, <2>b DEF PcOk
  <2> QED  BY Zenon, <1>p, <1>0, <1>1, <2>1, <2>3, <2>b, <2>4, QuietMoves DEF IInv
<1>6. CASE RevokeOld(r) /\ ~Answered(r)
  <2> DEFINE q == With(old, "insert", {Want(old)})
  <2>1. Go(r, q) /\ old.pc = "rotate" /\ Unrevoked(old.tok) /\ Granted(r)
    BY Zenon, <1>6, <1>p DEF RevokeOld, At, With
  <2>2. Want(old) = [row |-> old.tok, mode |-> "N"] /\ old.tok \in RefreshTokens
    BY Zenon, <1>0, <2>1 DEF Want, PcOk
  <2>3. Want(old) \in Lock /\ Want(old).row = old.tok /\ Want(old).mode = "N"
    BY <2>2 DEF Lock, Rows
  <2>a. {Want(old)} \in SUBSET Lock
    BY Zenon, <1>p, <2>3 DEF Request
  <2>b. /\ q \in Request /\ q.held = {Want(old)}
        /\ q.pc = "insert" /\ q.op = old.op /\ q.user = old.user /\ q.tok = old.tok
        /\ q.todo = old.todo
    BY SMTT(30), <1>p, <2>a, WithIs
  <2>4. PcOk(q)'
    BY Zenon, <1>0, <2>2, <2>3, <2>b DEF PcOk
  <2>5. \A s \in Requests \ {r} : \A m \in req[s].held : m.row # old.tok
    BY Zenon, <2>1, <2>2, <1>p, GrantedAlone
  <2>6. \A t : Unrevoked(t) <=> Unrevoked(t)'
    BY Zenon, <1>0 DEF Unrevoked
  <2>7. \A s \in Requests : \A l \in req[s].held :
          l.row \in RefreshTokens => Unrevoked(l.row)'
    BY Zenon, <2>6 DEF IInv, LockInv
  <2>8. OneTokenPerSession'
    BY Zenon, <1>0 DEF IInv, OneTokenPerSession, Unrevoked
  <2>9. TypeOK' /\ PcInv' /\ LockInv'
    BY Zenon, <1>0, <1>1, <2>1, <2>3, <2>b, <2>4, <2>5, <2>6, <2>7, Moves
  <2> QED  BY Zenon, <1>1, <2>8, <2>9 DEF IInv
<1> QED  BY Zenon, <1>2, <1>3, <1>4, <1>5, <1>6

\* A request whose UPDATE is at row t of the rows S, or done with them.
Swept(old, pc, seen, S, t, h) ==
    [[old EXCEPT !.seen = seen, !.held = h] EXCEPT !.pc = pc, !.todo = S, !.next = t]

\* Swept changes what the UPDATE is at, and nothing else.
LEMMA SweptIs ==
    ASSUME NEW old \in Request, NEW pc \in {"sweep", "commit"}, NEW h \in SUBSET Lock,
           NEW seen \in SUBSET (Tokens \cup RefreshTokens),
           NEW S \in SUBSET (Tokens \cup RefreshTokens),
           NEW t \in Tokens \cup RefreshTokens \cup {None}
    PROVE  /\ Swept(old, pc, seen, S, t, h) \in Request
           /\ Swept(old, pc, seen, S, t, h).pc = pc
           /\ Swept(old, pc, seen, S, t, h).held = h
           /\ Swept(old, pc, seen, S, t, h).op = old.op
           /\ Swept(old, pc, seen, S, t, h).user = old.user
           /\ Swept(old, pc, seen, S, t, h).todo = S
           /\ Swept(old, pc, seen, S, t, h).next = t
           /\ Swept(old, pc, seen, S, t, h).tok = old.tok
           /\ Swept(old, pc, seen, S, t, h).seen = seen
<1>1. PICK q : q = Swept(old, pc, seen, S, t, h)
  BY Zenon
<1>2. PICK p : p = [old EXCEPT !.seen = seen, !.held = h]
  BY Zenon
<1>3. /\ p \in Request /\ p.held = h /\ p.op = old.op /\ p.user = old.user
      /\ p.tok = old.tok /\ p.seen = seen
  BY Zenon, <1>2 DEF Request
<1>4. q = [p EXCEPT !.pc = pc, !.todo = S, !.next = t]
  BY Zenon, <1>1, <1>2 DEF Swept
<1>5. /\ q \in Request /\ q.pc = pc /\ q.held = h
      /\ q.op = old.op /\ q.user = old.user /\ q.todo = S /\ q.next = t
      /\ q.tok = old.tok /\ q.seen = seen
  BY ZenonT(40), <1>3, <1>4 DEF Request
<1> QED  BY Zenon, <1>1, <1>5

\* The locks h are the request's own and protect their tokens.
Protected(r, h) ==
    \A l \in h : l.row \in RefreshTokens =>
        /\ l.mode = "N"
        /\ Unrevoked(l.row)
        /\ \A s \in Requests \ {r} : \A m \in req[s].held : m.row # l.row

\* An UPDATE of several rows keeps the invariant as long as its locks protect them.
LEMMA SweptKeeps ==
    ASSUME IInv, NEW r \in Requests, NEW old \in Request, NEW pc \in {"sweep", "commit"},
           NEW seen \in SUBSET (Tokens \cup RefreshTokens),
           NEW S \in SUBSET IF old.op = "reset" THEN RefreshTokens ELSE Tokens,
           NEW t \in Tokens \cup RefreshTokens \cup {None}, NEW h \in SUBSET Lock,
           Go(r, Swept(old, pc, seen, S, t, h)), UNCHANGED <<user, tok, refresh, mailed>>,
           pc = "sweep" => t \in S, Protected(r, h), old.user \in Users
    PROVE  IInv'
<1> DEFINE q == Swept(old, pc, seen, S, t, h)
<1>1. Tables' /\ RowInv'
  BY Zenon DEF IInv, TypeOK, Tables, RowInv
<1>2. \A x : Unrevoked(x) <=> Unrevoked(x)'
  BY Zenon DEF Unrevoked
<1>3. \A s \in Requests : \A l \in req[s].held : l.row \in RefreshTokens => Unrevoked(l.row)'
  BY Zenon, <1>2 DEF IInv, LockInv
<1>4. OneTokenPerSession'
  BY Zenon DEF IInv, OneTokenPerSession, Unrevoked
<1>5. S \in SUBSET (Tokens \cup RefreshTokens)
  BY Zenon
<1>6. /\ q \in Request /\ q.pc = pc /\ q.held = h
      /\ q.op = old.op /\ q.user = old.user /\ q.todo = S /\ q.next = t
  BY SMTT(30), <1>5, SweptIs
<1>7. PcOk(q)'
  BY Zenon, <1>6 DEF PcOk
<1>8. TypeOK' /\ PcInv' /\ LockInv'
  BY Zenon, <1>1, <1>2, <1>3, <1>6, <1>7, Moves DEF Protected
<1> QED  BY Zenon, <1>1, <1>4, <1>8 DEF IInv

\* The UPDATE over the tokens of a user locks row after row.
LEMMA SweepKeeps ==
    ASSUME IInv, NEW r \in Requests, UpdateTokens(r) \/ SweepRow(r)
    PROVE  IInv'
<1> USE NoneAssumption, TokensAssumption, RowsAssumption
<1>p. PICK old \in Request : old = req[r]
  BY Zenon DEF IInv, TypeOK
<1>0. PcOk(old) /\ old.user \in Users /\ UNCHANGED <<user, tok, refresh, mailed>>
  BY Zenon, <1>p DEF IInv, PcInv, PcOk, At, UpdateTokens, SweepRow
<1>1. Protected(r, old.held)
  BY Zenon, <1>p DEF IInv, LockInv, Protected
<1>2. old.held \in SUBSET Lock /\ old.seen \in SUBSET (Tokens \cup RefreshTokens)
  BY SMTT(30), <1>p DEF Request
<1> DEFINE Domain == IF old.op = "reset" THEN RefreshTokens ELSE Tokens
<1>3. CASE UpdateTokens(r)
  <2>p. PICK S \in SUBSET Domain : S = Matching(old)
    BY Zenon DEF Matching
  <2>1. Sweep(r, [old EXCEPT !.seen = S], S)
    BY Zenon, <1>p, <1>3, <2>p DEF UpdateTokens
  <2>2. [old EXCEPT !.seen = S] = [old EXCEPT !.seen = S, !.held = old.held]
    BY Zenon, <1>p DEF Request
  <2>3. S \in SUBSET (Tokens \cup RefreshTokens)
    BY Zenon
  <2>4. CASE Go(r, Swept(old, "commit", S, {}, None, old.held))
    BY Zenon, <1>p, <1>0, <1>1, <1>2, <2>3, <2>4, SweptKeeps
  <2>5. ASSUME NEW t \in S, Go(r, Swept(old, "sweep", S, S, t, old.held))
        PROVE  IInv'
    BY SMTT(30), <1>p, <1>0, <1>1, <1>2, <2>3, <2>5, SweptKeeps
  <2> QED  BY Zenon, <2>1, <2>2, <2>4, <2>5 DEF Sweep, Swept
<1>4. CASE SweepRow(r)
  <2> DEFINE matches == IF old.op = "reset" THEN Unrevoked(old.next) ELSE Unspent(old.next)
  <2>1. old.pc = "sweep" /\ Granted(r) /\ old.next \in old.todo /\ old.todo \in SUBSET Domain
    BY Zenon, <1>p, <1>0, <1>4 DEF SweepRow, At, PcOk
  <2>2. Want(old) = [row |-> old.next, mode |-> "N"] /\ old.next \in Domain
    BY Zenon, <2>1 DEF Want
  <2>3. Want(old) \in Lock /\ Want(old).row = old.next /\ Want(old).mode = "N"
    BY <2>2 DEF Lock, Rows
  <2>p. PICK h : h = IF matches THEN old.held \cup {Want(old)} ELSE old.held
    BY Zenon
  <2>4. Sweep(r, [old EXCEPT !.held = h], old.todo \ {old.next})
    <3>1. Sweep(r, IF matches THEN [old EXCEPT !.held = @ \cup {Want(old)}] ELSE old,
                   old.todo \ {old.next})
      BY Zenon, <1>p, <1>4 DEF SweepRow
    <3>2. old = [old EXCEPT !.held = old.held]
      BY Zenon, <1>p DEF Request
    <3> QED  BY SMTT(30), <2>p, <3>1, <3>2
  <2>5. [old EXCEPT !.held = h] = [old EXCEPT !.seen = old.seen, !.held = h]
    BY Zenon, <1>p DEF Request
  <2>6. old.next \in RefreshTokens /\ matches =>
           /\ Unrevoked(old.next)
           /\ \A s \in Requests \ {r} : \A m \in req[s].held : m.row # old.next
    BY Zenon, <1>p, <2>1, <2>2, GrantedAlone
  <2>7. h \in SUBSET Lock /\ old.todo \ {old.next} \in SUBSET Domain
    BY Zenon, <1>2, <2>1, <2>3, <2>p
  <2>8. Protected(r, h)
    BY Zenon, <1>1, <2>3, <2>6, <2>p DEF Protected
  <2>9. CASE Go(r, Swept(old, "commit", old.seen, {}, None, h))
    BY Zenon, <1>p, <1>0, <1>2, <2>7, <2>8, <2>9, SweptKeeps
  <2>10. ASSUME NEW t \in old.todo \ {old.next},
                Go(r, Swept(old, "sweep", old.seen, old.todo \ {old.next}, t, h))
         PROVE  IInv'
    BY <1>p, <1>0, <1>2, <2>1, <2>7, <2>8, <2>10, SweptKeeps
  <2> QED  BY Zenon, <2>4, <2>5, <2>9, <2>10 DEF Sweep, Swept
<1> QED  BY Zenon, <1>3, <1>4

----------------------------------------------------------------------------
(* Statements and commits that leave refresh tokens alone *)

\* Logins and sign-ups touch accounts only.
LEMMA PlainKeeps ==
    ASSUME IInv, NEW r \in Requests,
           \/ SendFails(r) \/ UpdateAdminLoginSuccess(r)
           \/ LinkGoogleAccount(r) \/ GoogleSignupTx(r)
    PROVE  IInv'
<1>p. PICK old \in Request : old = req[r]
  BY Zenon DEF IInv, TypeOK
<1>0. Tables /\ RowInv /\ PcOk(old)
  BY Zenon, <1>p DEF IInv, TypeOK, Tables, PcInv
<1>1. old.held \in SUBSET Lock /\ (old.pc \in {"mail", "success", "link", "create"} => old.held = {})
  BY SMTT(30), <1>p, <1>0 DEF PcOk, Request
<1>2. ASSUME NEW pc \in {"issue", "success", "drop"}, Go(r, With(old, pc, old.held)), old.held = {},
             pc = "drop" => old.tok \in Tokens /\ tok[old.tok].user \in Users,
             UNCHANGED <<tok, refresh, mailed>>, user' \in [Users -> Account]
      PROVE  IInv'
  <2> DEFINE q == With(old, pc, old.held)
  <2>1. /\ q \in Request /\ q.pc = pc /\ q.held = {}
        /\ q.op = old.op /\ q.user = old.user /\ q.tok = old.tok /\ q.todo = old.todo
    BY SMTT(30), <1>p, <1>1, <1>2, WithIs
  <2>2. PcOk(q)'
    BY SMTT(30), <1>0, <1>2, <2>1 DEF PcOk
  <2>3. Tables' /\ RowInv'
    BY Zenon, <1>0, <1>2 DEF Tables, RowInv
  <2> QED  BY SMTT(30), <1>2, <2>1, <2>2, <2>3, QuietMoves DEF IInv
<1>3. \A pc : [old EXCEPT !.pc = pc] = With(old, pc, old.held)
  BY Zenon, <1>p DEF Request, With
<1>4. CASE SendFails(r)
  BY Zenon, <1>p, <1>0, <1>1, <1>2, <1>3, <1>4 DEF SendFails, At, PcOk, Tables
<1>5. CASE UpdateAdminLoginSuccess(r)
  BY Zenon, <1>p, <1>0, <1>1, <1>2, <1>3, <1>5 DEF UpdateAdminLoginSuccess, At, Tables
<1>6. CASE LinkGoogleAccount(r)
  <2>1. user' \in [Users -> Account]
    BY ZenonT(40), <1>0, <1>6 DEF LinkGoogleAccount, Tables, Account
  <2> QED  BY Zenon, <1>p, <1>1, <1>2, <1>3, <1>6, <2>1 DEF LinkGoogleAccount, At
<1>7. CASE GoogleSignupTx(r)
  <2>1. user' \in [Users -> Account]
    <3>1. [NoAccount EXCEPT !.exists = TRUE, !.google = TRUE, !.verified = TRUE] \in Account
      BY Zenon DEF NoAccount, Account
    <3> QED  BY Zenon, <1>0, <1>7, <3>1 DEF GoogleSignupTx, Tables
  <2>2. Tables' /\ RowInv' /\ UNCHANGED <<tok, refresh, mailed>>
    BY Zenon, <1>0, <1>7, <2>1 DEF GoogleSignupTx, Tables, RowInv
  <2>3. CASE Answered(r)
    BY Zenon, <2>2, <2>3, AnsweredQuietly DEF IInv
  <2>4. CASE ~Answered(r)
    BY Zenon, <1>p, <1>1, <1>2, <1>3, <1>7, <2>1, <2>4 DEF GoogleSignupTx, At
  <2> QED  BY Zenon, <2>3, <2>4
<1> QED  BY SMTT(30), <1>4, <1>5, <1>6, <1>7

\* What commits make of the tables: tokens stay issued.
LEMMA CommitKeeps ==
    ASSUME IInv, NEW r \in Requests,
           \/ ReplacePasswordResetTokenTx(r) \/ ReplaceEmailVerificationTokenTx(r)
           \/ SendMail(r) \/ InvalidateFailedToken(r) \/ VerifyEmailTx(r)
    PROVE  IInv'
<1> USE NoneAssumption
<1>p. PICK old \in Request : old = req[r]
  BY Zenon DEF IInv, TypeOK
<1>0. Tables /\ RowInv /\ PcOk(old)
  BY Zenon, <1>p DEF IInv, TypeOK, Tables, PcInv
<1>1. ASSUME NEW kind \in Kinds, NEW t \in Tokens, InsertToken(r, kind, t)
      PROVE  IInv'
  <2> DEFINE q == [Idle EXCEPT !.op = "mail", !.pc = "mail", !.tok = t]
  <2>1. /\ Go(r, q)
        /\ mailed' = mailed \ {t}
        /\ UNCHANGED <<user, refresh>>
    BY Zenon, <1>1 DEF InsertToken
  <2>3. old.user \in Users
    BY Zenon, <1>p, <1>0, <1>1 DEF InsertToken, At, PcOk
  <2>2. /\ tok' \in [Tokens -> Token]
        /\ tok'[t].user = old.user
        /\ \A x \in Tokens \ {t} : tok'[x].user = tok[x].user
    <3>1. tok' = [x \in Tokens |->
                 IF x = t THEN [kind |-> kind, user |-> old.user, state |-> "unused"]
                 ELSE IF x \in Spent(old) THEN [tok[x] EXCEPT !.state = "used"]
                 ELSE tok[x]]
      BY Zenon, <1>p, <1>1 DEF InsertToken
    <3>2. \A x \in Tokens : [tok[x] EXCEPT !.state = "used"] \in Token
            /\ [tok[x] EXCEPT !.state = "used"].user = tok[x].user
      BY Zenon, <1>0 DEF Tables, Token
    <3>3. [kind |-> kind, user |-> old.user, state |-> "unused"] \in Token
      BY Zenon, <1>1, <2>3 DEF Token
    <3> QED  BY Zenon, <1>0, <3>1, <3>2, <3>3 DEF Tables
  <2>4. Tables' /\ RowInv'
    BY Zenon, <1>0, <2>1, <2>2 DEF Tables, RowInv
  <2>5. /\ q \in Request /\ q.op = "mail" /\ q.pc = "mail" /\ q.tok = t
        /\ q.todo = {} /\ q.held = {}
    BY Zenon DEF Idle, Request
  <2>6. PcOk(q)'
    BY Zenon, <2>2, <2>3, <2>5 DEF PcOk
  <2> QED  BY Zenon, <2>1, <2>2, <2>3, <2>4, <2>5, <2>6, QuietMoves DEF IInv
<1>2. CASE SendMail(r)
  <2>1. /\ Answered(r) /\ UNCHANGED <<user, tok, refresh>>
        /\ mailed' = mailed \cup {old.tok} /\ old.tok \in Tokens /\ tok[old.tok].user \in Users
    BY Zenon, <1>p, <1>0, <1>2 DEF SendMail, At, PcOk
  <2>2. Tables' /\ RowInv'
    BY Zenon, <1>0, <2>1 DEF Tables, RowInv
  <2> QED  BY Zenon, <2>1, <2>2, AnsweredQuietly DEF IInv
<1>3. ASSUME NEW T \in SUBSET Tokens, Answered(r), UNCHANGED <<refresh, mailed>>,
             user' \in [Users -> Account],
             tok' = [x \in Tokens |-> IF x \in T THEN [tok[x] EXCEPT !.state = "used"] ELSE tok[x]]
      PROVE  IInv'
  <2>1. \A x \in Tokens : [tok[x] EXCEPT !.state = "used"] \in Token
          /\ [tok[x] EXCEPT !.state = "used"].user = tok[x].user
    BY <1>0 DEF Tables, Token
  <2>2. tok' \in [Tokens -> Token] /\ \A x \in Tokens : tok'[x].user = tok[x].user
    BY Zenon, <1>0, <1>3, <2>1 DEF Tables
  <2>3. Tables' /\ RowInv'
    BY Zenon, <1>0, <1>3, <2>2 DEF Tables, RowInv
  <2> QED  BY Zenon, <1>3, <2>2, <2>3, AnsweredQuietly DEF IInv
<1>4. CASE InvalidateFailedToken(r)
  <2>1. /\ Answered(r) /\ UNCHANGED <<user, refresh, mailed>>
        /\ old.tok \in Tokens
        /\ tok' \in {tok, [tok EXCEPT ![old.tok].state = "used"]}
    BY Zenon, <1>p, <1>0, <1>4 DEF InvalidateFailedToken, At, PcOk
  <2>2. user' \in [Users -> Account]
    BY Zenon, <1>0, <2>1 DEF Tables
  <2>3. CASE tok' = tok
    <3>1. Tables' /\ RowInv'
      BY Zenon, <1>0, <2>1, <2>3 DEF Tables, RowInv
    <3> QED  BY Zenon, <2>1, <2>3, <3>1, AnsweredQuietly DEF IInv
  <2>4. CASE tok' = [tok EXCEPT ![old.tok].state = "used"]
    <3>1. PICK T \in SUBSET Tokens : T = {old.tok}
      BY Zenon, <2>1
    <3>2. tok' = [x \in Tokens |->
                    IF x \in T THEN [tok[x] EXCEPT !.state = "used"] ELSE tok[x]]
      BY Zenon, <1>0, <2>1, <2>4, <3>1 DEF Tables
    <3>3. Answered(r) /\ UNCHANGED <<refresh, mailed>>
      BY Zenon, <2>1
    <3> QED  BY SMTT(30), <1>3, <2>2, <3>2, <3>3
  <2> QED  BY Zenon, <2>1, <2>3, <2>4
<1>5. CASE VerifyEmailTx(r)
  <2>1. user' \in [Users -> Account]
    BY ZenonT(40), <1>0, <1>5 DEF VerifyEmailTx, Tables, Account
  <2>2. Spent(old) \in SUBSET Tokens
    BY Zenon DEF Spent
  <2> QED  BY Zenon, <1>p, <1>3, <1>5, <2>1, <2>2 DEF VerifyEmailTx, SpendTokens
<1> QED  BY Zenon, <1>1, <1>2, <1>4, <1>5
         DEF ReplacePasswordResetTokenTx, ReplaceEmailVerificationTokenTx, Kinds

----------------------------------------------------------------------------
(* Steps that change refresh tokens *)

\* Sessions end, or tokens expire: no token is issued and none becomes valid.
Shrinks ==
    \A t \in RefreshTokens :
        /\ refresh'[t].session = refresh[t].session
        /\ (refresh'[t].state = "absent") <=> (refresh[t].state = "absent")
        /\ Unrevoked(t)' => Unrevoked(t)

\* A login issues t for a new session.
Opens(t) ==
    /\ refresh[t].state = "absent"
    /\ \E u \in Users \cup {None} :
         refresh' = [refresh EXCEPT ![t] = [user |-> u, session |-> t, state |-> "live"]]

\* A refresh issues t in place of old.
Replaces(old, t) ==
    /\ Unrevoked(old)
    /\ refresh[t].state = "absent"
    /\ \E u \in Users \cup {None} :
         refresh' = [refresh EXCEPT
               ![old].state = "revoked",
               ![t] = [user |-> u, session |-> refresh[old].session, state |-> "live"]]

\* The rows of refresh_tokens after a login.
LEMMA OpensRows ==
    ASSUME IInv, NEW t \in RefreshTokens, Opens(t)
    PROVE  /\ refresh' \in [RefreshTokens -> Refresh]
           /\ refresh'[t].session = t /\ refresh'[t].state = "live"
           /\ \A x \in RefreshTokens \ {t} : refresh'[x] = refresh[x] /\ refresh[x].session # t
<1>p. PICK u \in Users \cup {None} :
        refresh' = [refresh EXCEPT ![t] = [user |-> u, session |-> t, state |-> "live"]]
  BY Zenon DEF Opens
<1>1. [user |-> u, session |-> t, state |-> "live"] \in Refresh
  BY Zenon, <1>p DEF Refresh
<1>2. refresh \in [RefreshTokens -> Refresh] /\ refresh[t].state = "absent"
  BY Zenon DEF IInv, TypeOK, Opens
<1>3. \A x \in RefreshTokens : refresh[x].session # t
  BY Zenon, <1>2, NoneAssumption DEF IInv, RowInv
<1> QED  BY Zenon, <1>p, <1>1, <1>2, <1>3

\* The rows of refresh_tokens after a rotation.
LEMMA ReplacesRows ==
    ASSUME IInv, NEW old \in RefreshTokens, NEW t \in RefreshTokens, Replaces(old, t)
    PROVE  /\ old # t
           /\ refresh' \in [RefreshTokens -> Refresh]
           /\ refresh'[t].session = refresh[old].session /\ refresh'[t].state = "live"
           /\ refresh'[old].session = refresh[old].session /\ refresh'[old].state = "revoked"
           /\ \A x \in RefreshTokens \ {t, old} : refresh'[x] = refresh[x]
<1>p. PICK u \in Users \cup {None} :
        refresh' = [refresh EXCEPT
               ![old].state = "revoked",
               ![t] = [user |-> u, session |-> refresh[old].session, state |-> "live"]]
  BY Zenon DEF Replaces
<1>1. refresh \in [RefreshTokens -> Refresh] /\ old # t
  BY Zenon DEF IInv, TypeOK, Replaces, Unrevoked
<1>2. PICK a : a = [user |-> u, session |-> refresh[old].session, state |-> "live"]
  BY Zenon
<1>3. PICK b : b = [refresh[old] EXCEPT !.state = "revoked"]
  BY Zenon
<1>4. a \in Refresh /\ a.session = refresh[old].session /\ a.state = "live"
  BY Zenon, <1>p, <1>1, <1>2 DEF Refresh
<1>5. b \in Refresh /\ b.session = refresh[old].session /\ b.state = "revoked"
  BY Zenon, <1>1, <1>3 DEF Refresh
<1>6. refresh' = [[refresh EXCEPT ![old] = b] EXCEPT ![t] = a]
  BY Zenon, <1>p, <1>1, <1>2, <1>3
<1> QED  BY Zenon, <1>1, <1>4, <1>5, <1>6

\* None of the three breaks the invariant of the rows.
LEMMA RowsKeep ==
    ASSUME IInv, UNCHANGED <<mailed>>, \A x \in Tokens : tok'[x].user = tok[x].user,
           \/ Shrinks
           \/ \E t \in RefreshTokens : Opens(t)
           \/ \E o, t \in RefreshTokens : Replaces(o, t)
    PROVE  RowInv' /\ OneTokenPerSession'
<1> USE NoneAssumption
<1>0. RowInv /\ OneTokenPerSession /\ mailed \subseteq Tokens
  BY Zenon DEF IInv, TypeOK
<1>1. CASE Shrinks
  BY <1>0, <1>1 DEF Shrinks, RowInv, OneTokenPerSession
<1>2. ASSUME NEW t \in RefreshTokens, Opens(t)
      PROVE  RowInv' /\ OneTokenPerSession'
  <2>1. /\ refresh'[t].session = t /\ refresh'[t].state = "live"
        /\ \A x \in RefreshTokens \ {t} : refresh'[x] = refresh[x] /\ refresh[x].session # t
    BY Zenon, <1>2, OpensRows
  <2>2. RowInv'
    BY Zenon, <1>0, <2>1 DEF RowInv
  <2>3. OneTokenPerSession'
    BY <1>0, <2>1 DEF OneTokenPerSession, Unrevoked
  <2> QED  BY Zenon, <2>2, <2>3
<1>3. ASSUME NEW o \in RefreshTokens, NEW t \in RefreshTokens, Replaces(o, t)
      PROVE  RowInv' /\ OneTokenPerSession'
  <2>1. /\ o # t
        /\ refresh'[t].session = refresh[o].session /\ refresh'[t].state = "live"
        /\ refresh'[o].session = refresh[o].session /\ refresh'[o].state = "revoked"
        /\ \A x \in RefreshTokens \ {t, o} : refresh'[x] = refresh[x]
    BY Zenon, <1>3, ReplacesRows
  <2>2. refresh[t].state = "absent" /\ Unrevoked(o) /\ refresh[o].state # "absent"
    BY Zenon, <1>3 DEF Replaces, Unrevoked
  <2>3. \A x \in RefreshTokens : refresh[x].state # "absent" => refresh'[x].state # "absent"
    BY SMTT(30), <2>1, <2>2
  <2>4. RowInv'
    BY <1>0, <2>1, <2>2, <2>3 DEF RowInv
  <2>5. \A x \in RefreshTokens : Unrevoked(x)' =>
          \/ x = t
          \/ x # o /\ Unrevoked(x) /\ refresh'[x] = refresh[x]
    BY Zenon, <2>1 DEF Unrevoked
  <2>6. \A x \in RefreshTokens \ {o} : Unrevoked(x) => refresh[x].session # refresh[o].session
    BY SMTT(30), <1>0, <2>2 DEF OneTokenPerSession
  <2>7. OneTokenPerSession'
    BY <1>0, <2>1, <2>5, <2>6 DEF OneTokenPerSession
  <2> QED  BY Zenon, <2>4, <2>7
<1> QED  BY Zenon, <1>1, <1>2, <1>3

\* What a step makes of the refresh tokens.
Change ==
    \/ UNCHANGED refresh
    \/ Shrinks
    \/ \E t \in RefreshTokens : Opens(t)
    \/ \E o, t \in RefreshTokens : Replaces(o, t)

\* A login opens a session with its first token.
LEMMA CreateKeeps ==
    ASSUME IInv, NEW r \in Requests, CreateRefreshToken(r)
    PROVE  IInv' /\ Change
<1>p. PICK t \in RefreshTokens :
        /\ refresh[t].state = "absent"
        /\ refresh' = [refresh EXCEPT ![t] = [user |-> req[r].user, session |-> t,
                                               state |-> "live"]]
  BY Zenon DEF CreateRefreshToken
<1>1. Answered(r) /\ UNCHANGED <<user, tok, mailed>>
  BY Zenon DEF CreateRefreshToken
<1>2. req[r].user \in Users \cup {None}
  BY Zenon DEF IInv, TypeOK, Request
<1>3. Opens(t)
  BY Zenon, <1>p, <1>2 DEF Opens
<1>4. RowInv' /\ OneTokenPerSession'
  BY Zenon, <1>1, <1>3, RowsKeep
<1>5. /\ refresh' \in [RefreshTokens -> Refresh]
      /\ \A x \in RefreshTokens \ {t} : refresh'[x] = refresh[x]
  BY Zenon, <1>3, OpensRows
<1>6. Tables'
  BY Zenon, <1>1, <1>5 DEF IInv, TypeOK, Tables
<1>7. \A s \in Requests \ {r} : \A l \in req[s].held :
        l.row \in RefreshTokens => Unrevoked(l.row)'
  BY SMTT(30), <1>p, <1>5 DEF IInv, LockInv, Unrevoked
<1>8. TypeOK' /\ PcInv' /\ LockInv'
  BY SMTT(30), <1>1, <1>6, <1>7, IdleOk, Moves DEF Answered
<1> QED  BY Zenon, <1>3, <1>4, <1>8 DEF IInv, Change

\* The token that is replaced is still valid: its row has been locked since RevokeOld.
LEMMA RotateKeeps ==
    ASSUME IInv, NEW r \in Requests, RotateRefreshToken(r)
    PROVE  IInv' /\ Change
<1>p. PICK old \in Request : old = req[r]
  BY Zenon DEF IInv, TypeOK
<1>q. PICK t \in RefreshTokens :
        /\ refresh[t].state = "absent"
        /\ refresh' = [refresh EXCEPT
               ![old.tok].state = "revoked",
               ![t] = [user |-> old.user, session |-> refresh[old.tok].session,
                       state |-> "live"]]
  BY Zenon, <1>p DEF RotateRefreshToken
<1>1. Answered(r) /\ UNCHANGED <<user, tok, mailed>> /\ old.pc = "insert"
  BY Zenon, <1>p DEF RotateRefreshToken, At
<1>2. PcOk(old)
  BY Zenon, <1>p DEF IInv, PcInv
<1>3. old.tok \in RefreshTokens /\ \E l \in old.held : l.row = old.tok
  BY Zenon, <1>1, <1>2 DEF PcOk
<1>4. /\ Unrevoked(old.tok)
      /\ \A s \in Requests \ {r} : \A m \in req[s].held : m.row # old.tok
  BY <1>p, <1>3 DEF IInv, LockInv
<1>5. old.user \in Users \cup {None}
  BY Zenon, <1>p DEF Request
<1>6. Replaces(old.tok, t)
  BY Zenon, <1>q, <1>4, <1>5 DEF Replaces
<1>7. RowInv' /\ OneTokenPerSession'
  BY Zenon, <1>1, <1>3, <1>6, RowsKeep
<1>8. /\ refresh' \in [RefreshTokens -> Refresh]
      /\ \A x \in RefreshTokens \ {t, old.tok} : refresh'[x] = refresh[x]
  BY Zenon, <1>3, <1>6, ReplacesRows
<1>9. Tables'
  BY Zenon, <1>1, <1>8 DEF IInv, TypeOK, Tables
<1>10. \A s \in Requests \ {r} : \A l \in req[s].held :
        l.row \in RefreshTokens => Unrevoked(l.row)'
  BY <1>q, <1>4, <1>8 DEF IInv, LockInv, Unrevoked
<1>11. TypeOK' /\ PcInv' /\ LockInv'
  BY Zenon, <1>1, <1>9, <1>10, IdleOk, Moves DEF Answered
<1> QED  BY SMTT(30), <1>3, <1>6, <1>7, <1>11 DEF IInv, Change

\* The tokens a reset revokes are locked by it, so no rotation is under way for them.
LEMMA ResetKeeps ==
    ASSUME IInv, NEW r \in Requests, ResetPasswordTx(r)
    PROVE  IInv' /\ Change
<1>p. PICK old \in Request : old = req[r]
  BY Zenon DEF IInv, TypeOK
<1>q. PICK R \in SUBSET RefreshTokens :
        R = {x \in RefreshTokens : \E l \in old.held : l.row = x}
  BY Zenon
<1>0. Tables
  BY Zenon DEF IInv, TypeOK, Tables
<1>1. /\ Answered(r) /\ UNCHANGED mailed
      /\ user' = [user EXCEPT ![old.user].password = old.pw]
      /\ tok' = SpendTokens(old)
      /\ refresh' = [x \in RefreshTokens |->
                       IF x \in R THEN [refresh[x] EXCEPT !.state = "revoked"] ELSE refresh[x]]
  BY Zenon, <1>p, <1>q DEF ResetPasswordTx
<1>2. /\ \A x \in R : Unrevoked(x)
      /\ \A s \in Requests \ {r} : \A m \in req[s].held : m.row \notin R
  BY Zenon, <1>p, <1>q DEF IInv, LockInv
<1>3. \A x \in RefreshTokens : /\ [refresh[x] EXCEPT !.state = "revoked"] \in Refresh
                               /\ [refresh[x] EXCEPT !.state = "revoked"].session = refresh[x].session
                               /\ [refresh[x] EXCEPT !.state = "revoked"].state = "revoked"
  BY Zenon, <1>0 DEF Tables, Refresh
<1>4. /\ refresh' \in [RefreshTokens -> Refresh]
      /\ \A x \in R : refresh'[x].session = refresh[x].session /\ refresh'[x].state = "revoked"
      /\ \A x \in RefreshTokens \ R : refresh'[x] = refresh[x]
  BY Zenon, <1>0, <1>1, <1>3 DEF Tables
<1>5. Shrinks
  BY Zenon, <1>2, <1>4 DEF Shrinks, Unrevoked
<1>6. \A x \in Tokens : /\ [tok[x] EXCEPT !.state = "used"] \in Token
                        /\ [tok[x] EXCEPT !.state = "used"].user = tok[x].user
  BY Zenon, <1>0 DEF Tables, Token
<1>7. tok' \in [Tokens -> Token] /\ \A x \in Tokens : tok'[x].user = tok[x].user
  BY Zenon, <1>0, <1>1, <1>6 DEF Tables, SpendTokens
<1>8. user' \in [Users -> Account]
  <2>1. old.pw \in Passwords \cup {None}
    BY Zenon, <1>p DEF Request
  <2>2. \A u \in Users : [user[u] EXCEPT !.password = old.pw] \in Account
    BY Zenon, <1>0, <2>1 DEF Tables, Account
  <2> QED  BY Zenon, <1>0, <1>1, <2>2 DEF Tables
<1>9. Tables'
  BY Zenon, <1>0, <1>1, <1>4, <1>7, <1>8 DEF Tables
<1>10. RowInv' /\ OneTokenPerSession'
  BY Zenon, <1>1, <1>5, <1>7, RowsKeep
<1>11. \A s \in Requests \ {r} : \A l \in req[s].held :
        l.row \in RefreshTokens => Unrevoked(l.row)'
  BY Zenon, <1>2, <1>4 DEF IInv, LockInv, Unrevoked
<1>12. TypeOK' /\ PcInv' /\ LockInv'
  BY Zenon, <1>1, <1>7, <1>9, <1>11, IdleOk, Moves DEF Answered
<1> QED  BY Zenon, <1>5, <1>10, <1>12 DEF IInv, Change

\* Logout, pruning and time: rows that a transaction has locked are not revoked.
LEMMA BackgroundKeeps ==
    ASSUME IInv, Background
    PROVE  IInv' /\ Change
<1>0. Tables
  BY Zenon DEF IInv, TypeOK, Tables
<1>1. ASSUME UNCHANGED <<user, mailed, req>>, tok' \in [Tokens -> Token],
             \A x \in Tokens : tok'[x].user = tok[x].user,
             refresh' \in [RefreshTokens -> Refresh], Shrinks,
             \A x \in RefreshTokens : Unrevoked(x) /\ Locked(x) => Unrevoked(x)'
      PROVE  IInv' /\ Change
  <2>1. RowInv' /\ OneTokenPerSession'
    BY Zenon, <1>1, RowsKeep
  <2>2. TypeOK'
    BY SMTT(30), <1>1 DEF IInv, TypeOK
  <2>3. PcInv'
    <3> SUFFICES ASSUME NEW r \in Requests
                 PROVE  PcOk(req[r])'
      BY SMTT(30) DEF PcInv
    <3>1. PcOk(req[r]) /\ req'[r] = req[r]
      BY Zenon, <1>1 DEF IInv, PcInv
    <3> QED  BY Zenon, <1>1, <3>1 DEF PcOk
  <2>4. LockInv'
    BY <1>1 DEF IInv, LockInv, Locked
  <2> QED  BY Zenon, <1>1, <2>1, <2>2, <2>3, <2>4 DEF IInv, Change
<1>2. ASSUME NEW t \in RefreshTokens, NEW st \in {"expired", "revoked"},
             refresh' = [refresh EXCEPT ![t].state = st], UNCHANGED <<user, tok, mailed, req>>,
             Unrevoked(t), st = "revoked" => ~Locked(t)
      PROVE  IInv' /\ Change
  <2>1. PICK a : a = [refresh[t] EXCEPT !.state = st]
    BY Zenon
  <2>2. a \in Refresh /\ a.session = refresh[t].session /\ a.state = st
    BY Zenon, <1>0, <1>2, <2>1 DEF Tables, Refresh
  <2>3. refresh' = [refresh EXCEPT ![t] = a]
    BY Zenon, <1>2, <2>1
  <2>4. /\ refresh' \in [RefreshTokens -> Refresh]
        /\ refresh'[t].session = refresh[t].session /\ refresh'[t].state = st
        /\ \A x \in RefreshTokens \ {t} : refresh'[x] = refresh[x]
    BY Zenon, <1>0, <2>2, <2>3 DEF Tables
  <2>5. Shrinks
    BY Zenon, <1>2, <2>4 DEF Shrinks, Unrevoked
  <2>6. \A x \in RefreshTokens : Unrevoked(x) /\ Locked(x) => Unrevoked(x)'
    BY Zenon, <1>2, <2>4 DEF Unrevoked
  <2> QED  BY Zenon, <1>0, <1>1, <1>2, <2>4, <2>5, <2>6 DEF Tables
<1>3. ASSUME NEW t \in Tokens, TokenExpires(t)
      PROVE  IInv' /\ Change
  <2>1. tok' \in [Tokens -> Token] /\ \A x \in Tokens : tok'[x].user = tok[x].user
    BY Zenon, <1>0, <1>3 DEF TokenExpires, Tables, Token
  <2>2. Shrinks /\ \A x \in RefreshTokens : Unrevoked(x) => Unrevoked(x)'
    BY Zenon, <1>3 DEF TokenExpires, Shrinks, Unrevoked
  <2> QED  BY Zenon, <1>0, <1>1, <1>3, <2>1, <2>2 DEF TokenExpires, Tables
<1>4. ASSUME NEW t \in RefreshTokens, RevokeRefreshToken(t)
      PROVE  IInv' /\ Change
  BY Zenon, <1>2, <1>4 DEF RevokeRefreshToken
<1>5. ASSUME NEW t \in RefreshTokens, PruneExpiredTokens(t)
      PROVE  IInv' /\ Change
  BY Zenon, <1>2, <1>5 DEF PruneExpiredTokens, Unrevoked
<1>6. ASSUME NEW t \in RefreshTokens, RefreshTokenExpires(t)
      PROVE  IInv' /\ Change
  BY Zenon, <1>2, <1>6 DEF RefreshTokenExpires, Unrevoked
<1> QED  BY Zenon, <1>3, <1>4, <1>5, <1>6 DEF Background

----------------------------------------------------------------------------
(* The theorems *)

\* Before the first account there is no token and no lock.
LEMMA InitHolds == Init => IInv
<1> SUFFICES ASSUME Init
             PROVE  IInv
  BY Zenon
<1>1. TypeOK
  <2>1. user \in [Users -> Account]
    BY Zenon DEF Init, NoAccount, Account
  <2>2. tok \in [Tokens -> Token]
    BY Zenon DEF Init, Token, Kinds
  <2>3. refresh \in [RefreshTokens -> Refresh]
    BY SMTT(30) DEF Init, Refresh
  <2> QED  BY Zenon, <2>1, <2>2, <2>3, IdleOk DEF Init, TypeOK
<1>2. RowInv /\ LockInv /\ OneTokenPerSession
  BY SMTT(30), IdleOk DEF Init, RowInv, LockInv, OneTokenPerSession, Unrevoked
<1>3. PcInv
  BY Zenon, IdleOk DEF Init, PcInv
<1> QED  BY Zenon, <1>1, <1>2, <1>3 DEF IInv

\* Every step keeps the invariant and changes refresh tokens in one of four ways.
LEMMA NextKeeps == IInv /\ [Next]_vars => IInv' /\ Change
<1> SUFFICES ASSUME IInv, [Next]_vars
             PROVE  IInv' /\ Change
  BY Zenon
<1>1. CASE UNCHANGED vars
  <2>1. TypeOK' /\ RowInv' /\ LockInv' /\ OneTokenPerSession' /\ Change
    BY SMTT(30), <1>1 DEF vars, IInv, TypeOK, RowInv, LockInv, OneTokenPerSession, Unrevoked, Change
  <2>2. PcInv'
    BY ZenonT(40), <1>1 DEF vars, IInv, PcInv, PcOk
  <2> QED  BY SMTT(30), <2>1, <2>2 DEF IInv
<1>2. ASSUME NEW r \in Requests, Begin(r)
      PROVE  IInv' /\ Change
  <2>1. UNCHANGED refresh
    BY Zenon, <1>2 DEF Begin, ForgotPassword, ResendVerification, GoogleCallback, Login, Signup,
                VerifyEmail, ResetPassword, RefreshSession
  <2> QED  BY Zenon, <1>2, <2>1, BeginKeeps DEF Change
<1>3. ASSUME NEW r \in Requests, Rollback(r)
      PROVE  IInv' /\ Change
  <2>1. Answered(r) /\ UNCHANGED <<user, tok, refresh, mailed>>
    BY SMTT(30), <1>3 DEF Rollback
  <2>2. Tables' /\ RowInv'
    BY Zenon, <2>1 DEF IInv, TypeOK, Tables, RowInv
  <2> QED  BY Zenon, <2>1, <2>2, AnsweredQuietly DEF IInv, Change
<1>4. ASSUME NEW r \in Requests, Step(r)
      PROVE  IInv' /\ Change
  <2>1. CASE LockUser(r) \/ ClaimToken(r) \/ UpdateUser(r) \/ RevokeOld(r)
    BY Zenon, <2>1, TakeKeeps DEF Change, LockUser, ClaimToken, UpdateUser, RevokeOld
  <2>2. CASE UpdateTokens(r) \/ SweepRow(r)
    BY SMTT(30), <2>2, SweepKeeps DEF Change, UpdateTokens, SweepRow
  <2>3. CASE \/ SendFails(r) \/ UpdateAdminLoginSuccess(r)
             \/ LinkGoogleAccount(r) \/ GoogleSignupTx(r)
    BY ZenonT(40), <2>3, PlainKeeps
       DEF Change, SendFails, UpdateAdminLoginSuccess, LinkGoogleAccount, GoogleSignupTx
  <2>4. CASE \/ ReplacePasswordResetTokenTx(r) \/ ReplaceEmailVerificationTokenTx(r)
             \/ SendMail(r) \/ InvalidateFailedToken(r) \/ VerifyEmailTx(r)
    BY Zenon, <2>4, CommitKeeps
       DEF Change, ReplacePasswordResetTokenTx, ReplaceEmailVerificationTokenTx, InsertToken,
           SendMail, InvalidateFailedToken, VerifyEmailTx
  <2> QED  BY SMTT(30), <1>4, <2>1, <2>2, <2>3, <2>4, CreateKeeps, RotateKeeps, ResetKeeps DEF Step
<1> QED  BY Zenon, <1>1, <1>2, <1>3, <1>4, BackgroundKeeps DEF Next, Cancelled, DeadlockVictim

\* The invariant holds in every reachable state.
LEMMA Invariance == Spec => []IInv
BY InitHolds, NextKeeps, PTL DEF Spec

\* Accounts, tokens and requests are well formed in every reachable state, and only a
\* request inside a transaction holds row locks (the BeginTx ... Commit of AdminAuthRepo).
THEOREM TypeCorrect == Spec => []TypeOK
<1>1. IInv => TypeOK
  BY Zenon DEF IInv
<1> QED  BY <1>1, Invariance, PTL

\* However many refreshes, logouts and resets overlap, a session has at most one refresh
\* token that is not revoked: RotateRefreshToken lets one of them win.
THEOREM SessionsHaveOneToken == Spec => []OneTokenPerSession
<1>1. IInv => OneTokenPerSession
  BY SMTT(30) DEF IInv
<1> QED  BY <1>1, Invariance, PTL

----------------------------------------------------------------------------
(* Refinement of Sessions *)

\* The tokens session s could go on with.
Valid(s) == {t \in RefreshTokens : refresh[t].session = s /\ Unrevoked(t)}

OneOf(T) == IF T = {} THEN None ELSE CHOOSE t \in T : TRUE

\* CurrentToken depends on the valid tokens only, before a step and after it.
LEMMA CurrentIs ==
    /\ \A s : CurrentToken(s) = OneOf(Valid(s))
    /\ \A s : CurrentToken(s)' = OneOf(Valid(s)')
BY Zenon DEF CurrentToken, Valid, OneOf

\* With one valid token at most, that token is the current one.
LEMMA CurrentOf ==
    ASSUME NEW s
    PROVE  /\ \A t : Valid(s) = {t} => CurrentToken(s) = t
           /\ \A t : Valid(s)' = {t} => CurrentToken(s)' = t
           /\ Valid(s)' = {} => CurrentToken(s)' = None
           /\ Valid(s)' = Valid(s) => CurrentToken(s)' = CurrentToken(s)
<1>1. \A t : OneOf({t}) = t
  BY Zenon DEF OneOf
<1>2. OneOf({}) = None
  BY Zenon DEF OneOf
<1>3. CurrentToken(s) = OneOf(Valid(s)) /\ CurrentToken(s)' = OneOf(Valid(s)')
  BY Zenon, CurrentIs
<1> QED  BY Zenon, <1>1, <1>2, <1>3

\* The refinement mapping.
Issued == {t \in RefreshTokens : refresh[t].state # "absent"}

Current == [s \in RefreshTokens |-> CurrentToken(s)]

\* A step of AdminAuth is a login, a refresh or the end of sessions in Sessions, or
\* leaves the sessions alone.
LEMMA StepImplements ==
    ASSUME IInv, Change
    PROVE  [Abstract!Next]_<<Issued, Current>>
<1>0. RowInv /\ OneTokenPerSession /\ refresh \in [RefreshTokens -> Refresh]
  BY Zenon DEF IInv, TypeOK
<1>1. CASE UNCHANGED refresh
  <2>1. Issued' = Issued
    BY Zenon, <1>1 DEF Issued
  <2>2. \A s : Valid(s)' = Valid(s)
    BY Zenon, <1>1 DEF Valid, Unrevoked
  <2>3. Current' = Current
    BY Zenon, <2>2, CurrentOf DEF Current
  <2> QED  BY Zenon, <2>1, <2>3
<1>2. CASE Shrinks
  <2>1. Issued' = Issued
    BY Zenon, <1>2 DEF Issued, Shrinks
  <2>2. ASSUME NEW s \in RefreshTokens
        PROVE  CurrentToken(s)' \in {CurrentToken(s), None}
    <3>1. Valid(s)' \subseteq Valid(s)
      BY Zenon, <1>2 DEF Shrinks, Valid
    <3>2. \A x, y \in Valid(s) : x = y
      BY Zenon, <1>0 DEF Valid, OneTokenPerSession
    <3>3. Valid(s)' = {} \/ Valid(s)' = Valid(s)
      BY Zenon, <3>1, <3>2
    <3> QED  BY Zenon, <3>3, CurrentOf
  <2>3. \A s \in RefreshTokens : CurrentToken(s)' \in RefreshTokens \cup {None}
    BY Zenon, <1>2, CurrentIs DEF Valid, OneOf
  <2>4. Current' \in [RefreshTokens -> RefreshTokens \cup {None}]
    BY Zenon, <2>3 DEF Current
  <2>5. \A s \in RefreshTokens : Current'[s] \in {Current[s], None}
    BY Zenon, <2>2 DEF Current
  <2>6. Abstract!End
    BY Zenon, <2>1, <2>4, <2>5 DEF Abstract!End, Issued, Current
  <2> QED  BY Zenon, <2>6 DEF Abstract!Next
<1>3. ASSUME NEW t \in RefreshTokens, Opens(t)
      PROVE  Abstract!Open(t)
  <2>1. /\ refresh[t].state = "absent"
        /\ refresh'[t].session = t /\ refresh'[t].state = "live"
        /\ \A x \in RefreshTokens \ {t} : refresh'[x] = refresh[x] /\ refresh[x].session # t
    BY Zenon, <1>3, OpensRows DEF Opens
  <2>2. t \notin Issued /\ Issued' = Issued \cup {t}
    BY Zenon, <2>1 DEF Issued
  <2>3. Valid(t)' = {t}
    BY Zenon, <2>1 DEF Valid, Unrevoked
  <2>4. \A s \in RefreshTokens \ {t} : Valid(s)' = Valid(s)
    BY Zenon, <2>1 DEF Valid, Unrevoked
  <2>5. Current' = [Current EXCEPT ![t] = t]
    BY Zenon, <2>3, <2>4, CurrentOf DEF Current
  <2> QED  BY Zenon, <2>2, <2>5 DEF Abstract!Open, Issued, Current
<1>4. ASSUME NEW o \in RefreshTokens, NEW t \in RefreshTokens, Replaces(o, t)
      PROVE  Abstract!Rotate(refresh[o].session, t) /\ refresh[o].session \in RefreshTokens
  <2>1. /\ o # t /\ Unrevoked(o) /\ refresh[t].state = "absent"
        /\ refresh'[t].session = refresh[o].session /\ refresh'[t].state = "live"
        /\ refresh'[o].session = refresh[o].session /\ refresh'[o].state = "revoked"
        /\ \A x \in RefreshTokens \ {t, o} : refresh'[x] = refresh[x]
    BY Zenon, <1>4, ReplacesRows DEF Replaces
  <2>p. PICK s \in RefreshTokens : s = refresh[o].session
    BY Zenon, <1>0, <2>1 DEF RowInv, Unrevoked
  <2>2. t \notin Issued /\ Issued' = Issued \cup {t}
    BY Zenon, <2>1 DEF Issued, Unrevoked
  <2>3. Valid(s) = {o}
    BY Zenon, <1>0, <2>1, <2>p DEF Valid, OneTokenPerSession
  <2>4. Valid(s)' = {t}
    <3>1. \A x \in Valid(s) : x = o
      BY Zenon, <2>3
    <3>2. \A x \in RefreshTokens \ {t, o} : ~(refresh[x].session = s /\ Unrevoked(x))
      BY Zenon, <3>1 DEF Valid
    <3> QED  BY <2>1, <2>p, <3>2 DEF Valid, Unrevoked
  <2>5. \A x \in RefreshTokens \ {s} : Valid(x)' = Valid(x)
    <3>1. refresh[t].session = None
      BY Zenon, <1>0, <2>1 DEF RowInv
    <3> QED  BY SMTT(30), <2>1, <2>p, <3>1, NoneAssumption DEF Valid, Unrevoked
  <2>6. Current[s] = o /\ o # None
    BY Zenon, <2>3, CurrentOf, NoneAssumption DEF Current
  <2>7. Current' = [Current EXCEPT ![s] = t]
    BY Zenon, <2>4, <2>5, CurrentOf DEF Current
  <2> QED  BY Zenon, <2>p, <2>2, <2>6, <2>7 DEF Abstract!Rotate, Issued, Current
<1> QED  BY Zenon, <1>1, <1>2, <1>3, <1>4 DEF Change, Abstract!Next

\* AdminAuth implements Sessions: the statements of login, refresh, logout, reset and
\* pruning, interleaved in any way, give sessions that rotate atomically and never come
\* back once they have ended (RotateRefreshToken, RevokeRefreshToken, ResetPasswordTx).
THEOREM SessionsImplemented == Spec => ImplementsSessions
<1>1. Init => Abstract!Init
  <2> SUFFICES ASSUME Init
               PROVE  Abstract!Init
    BY Zenon
  <2>1. Issued = {}
    BY Zenon DEF Init, Issued
  <2>2. \A s : Valid(s) = {}
    BY Zenon DEF Init, Valid, Unrevoked
  <2>3. Current = [s \in RefreshTokens |-> None]
    BY Zenon, <2>2, CurrentIs DEF Current, OneOf
  <2> QED  BY Zenon, <2>1, <2>3 DEF Abstract!Init, Issued, Current
<1>2. IInv /\ [Next]_vars => [Abstract!Next]_<<Issued, Current>>
  BY Zenon, NextKeeps, StepImplements
<1> QED  BY <1>1, <1>2, Invariance, PTL DEF Spec, ImplementsSessions, Abstract!Spec, Issued, Current


----------------------------------------------------------------------------
(* Mailed tokens and row locks: the invariant *)

\* Request q holds a lock on row x.
Has(q, x) == \E l \in q.held : l.row = x

\* The kind of token an operation is about.
KindOf(op) == IF op \in {"forgot", "reset"} THEN "reset" ELSE "verify"

\* A transaction that replaces a token has the user for itself, and every unspent token of
\* the user is one it has locked or is still going to reach.
Replacer(q) ==
    q.op \in {"forgot", "resend"} =>
        /\ q.pc \in {"lockUser", "supersede", "sweep", "commit"}
        /\ q.user \in Users /\ user[q.user].exists
        /\ q.pc # "lockUser" => [row |-> q.user, mode |-> "X"] \in q.held
        /\ q.pc \in {"sweep", "commit"} =>
             \A t \in Tokens :
                /\ Unspent(t) /\ tok[t].user = q.user /\ tok[t].kind = KindOf(q.op)
                => t \in q.todo \/ Has(q, t)

\* One that redeems a token holds the token, and then its user.
Redeemer(q) ==
    q.op \in {"reset", "verify"} =>
        /\ q.pc \in {"claim", "updateUser", "supersede", "sweep", "commit"}
        /\ q.tok \in mailed /\ tok[q.tok].user = q.user /\ tok[q.tok].kind = KindOf(q.op)
        /\ q.pc # "claim" => Has(q, q.tok)
        /\ q.pc \in {"supersede", "sweep", "commit"} => [row |-> q.user, mode |-> "N"] \in q.held
        /\ \A l \in q.held : l.mode = "N"

\* The sessions a reset has seen are its user's, and each is locked, revoked or still to come.
Revoker(q) ==
    q.op = "reset" /\ q.pc \in {"sweep", "commit"} =>
        /\ q.todo \subseteq q.seen
        /\ \A t \in q.seen :
             /\ t \in RefreshTokens /\ refresh[t].state # "absent" /\ refresh[t].user = q.user
             /\ t \in q.todo \/ Has(q, t) \/ ~ Unrevoked(t)

\* A refresh holds at most the token it replaces, and the other requests hold nothing.
Rotator(q) ==
    /\ q.op = "refresh" =>
         /\ q.pc \in {"rotate", "insert"}
         /\ q.tok \in RefreshTokens /\ refresh[q.tok].state # "absent"
         /\ refresh[q.tok].user = q.user
         /\ \A l \in q.held : l.row = q.tok /\ q.pc = "insert"
    /\ q.op \in {"none", "mail", "login"} =>
         /\ q.pc \in {"idle", "mail", "drop", "link", "create", "success", "issue"}
         /\ q.held = {}

\* The lock of a mailed token keeps it from being spent by others.
Holder(q) ==
    /\ q.pc = "commit" => q.todo = {}
    /\ \A l \in q.held : l.row \in Tokens => l.mode = "N" /\ Unspent(l.row)

ReqOk(q) == Replacer(q) /\ Redeemer(q) /\ Revoker(q) /\ Rotator(q) /\ Holder(q)

\* Locks of different transactions on the same row do not conflict.
Compatible ==
    \A r, s \in Requests : r # s =>
        \A l \in req[r].held : \A m \in req[s].held :
            l.row = m.row => ~ Conflict(l.mode, m.mode)

\* A token that is not spent was issued to an account.
HasAccount == \A t \in Tokens : Unspent(t) => tok[t].user \in Users /\ user[tok[t].user].exists

TInv ==
    /\ \A r \in Requests : ReqOk(req[r])
    /\ Compatible /\ HasAccount /\ OneUnspentToken

----------------------------------------------------------------------------
(* What the other requests R see of a step *)

Replacing(q) == q.op \in {"forgot", "resend"} /\ q.pc # "lockUser"

\* Sessions stay with their user and do not come back.
RefreshKept ==
    \A t \in RefreshTokens : refresh[t].state # "absent" =>
        /\ refresh'[t].state # "absent" /\ refresh'[t].user = refresh[t].user
        /\ Unrevoked(t)' => Unrevoked(t)

Env(R) ==
    /\ \A u \in Users : user[u].exists => user'[u].exists
    /\ \A t \in Tokens : t \notin FreeNames =>
         /\ tok'[t].user = tok[t].user /\ tok'[t].kind = tok[t].kind
         /\ t \in mailed => t \in mailed'
    /\ \A t \in Tokens : Unspent(t)' =>
         Unspent(t) \/ \A s \in R : Replacing(req[s]) => req[s].user # tok'[t].user
    /\ \A s \in R : \A l \in req[s].held : l.row \in Tokens => Unspent(l.row)'
    /\ RefreshKept

\* No token is issued.
Spends ==
    \A t \in Tokens : Unspent(t)' =>
        Unspent(t) /\ tok'[t].user = tok[t].user /\ tok'[t].kind = tok[t].kind

\* What a request relies on stays true while others go on.
LEMMA OthersKept ==
    ASSUME IInv, TInv, NEW R \in SUBSET Requests, Env(R), NEW s \in R
    PROVE  \A q : q = req[s] => ReqOk(q)'
<1> SUFFICES ASSUME NEW q, q = req[s]
             PROVE  ReqOk(q)'
  BY Zenon
<1>1. ReqOk(q) /\ s \in Requests /\ q \in Request
  BY Zenon DEF TInv, IInv, TypeOK
<1>2. \A t \in Tokens : Unspent(t) => t \notin FreeNames
  BY Zenon DEF Unspent, FreeNames
<1>3. q.tok \notin FreeNames
  BY Zenon, <1>1 DEF FreeNames
<1>4. Replacer(q)'
  <2> SUFFICES ASSUME q.op \in {"forgot", "resend"}
               PROVE  Replacer(q)'
    BY Zenon DEF Replacer
  <2>1. /\ q.pc \in {"lockUser", "supersede", "sweep", "commit"}
        /\ q.user \in Users /\ user'[q.user].exists
        /\ q.pc # "lockUser" => [row |-> q.user, mode |-> "X"] \in q.held
    BY Zenon, <1>1 DEF ReqOk, Replacer, Env
  <2>2. ASSUME q.pc \in {"sweep", "commit"}, NEW t \in Tokens,
               Unspent(t)', tok'[t].user = q.user, tok'[t].kind = KindOf(q.op)
        PROVE  t \in q.todo \/ Has(q, t)
    <3>1. Replacing(q)
      BY Zenon, <2>2 DEF Replacing
    <3>2. Unspent(t)
      BY Zenon, <2>2, <3>1 DEF Env
    <3>3. tok[t].user = q.user /\ tok[t].kind = KindOf(q.op)
      BY Zenon, <1>2, <2>2, <3>2 DEF Env
    <3>. QED
      BY Zenon, <1>1, <2>2, <3>2, <3>3 DEF ReqOk, Replacer
  <2>. QED
    BY Zenon, <2>1, <2>2 DEF Replacer, Has
<1>5. Redeemer(q)'
  <2> SUFFICES ASSUME q.op \in {"reset", "verify"}
               PROVE  Redeemer(q)'
    BY Zenon DEF Redeemer
  <2>1. Redeemer(q) /\ q.tok \in mailed /\ q.tok \in Tokens
    BY Zenon, <1>1 DEF ReqOk, Redeemer, IInv, TypeOK
  <2>2. /\ tok'[q.tok].user = tok[q.tok].user /\ tok'[q.tok].kind = tok[q.tok].kind
        /\ q.tok \in mailed'
    BY Zenon, <1>3, <2>1 DEF Env
  <2>. QED
    BY Zenon, <2>1, <2>2 DEF Redeemer, Has
<1>6. Revoker(q)' 
  <2> SUFFICES ASSUME q.op = "reset", q.pc \in {"sweep", "commit"}
               PROVE  Revoker(q)'
    BY Zenon DEF Revoker
  <2>1. Revoker(q)
    BY Zenon, <1>1 DEF ReqOk
  <2>. QED
    BY Zenon, <2>1 DEF Revoker, Env, RefreshKept, Has
<1>7. Rotator(q)'
  BY Zenon, <1>1 DEF ReqOk, Rotator, Env, RefreshKept
<1>8. Holder(q)'
  BY Zenon, <1>1 DEF ReqOk, Holder, Env
<1>. QED
  BY Zenon, <1>4, <1>5, <1>6, <1>7, <1>8 DEF ReqOk

\* A lock that is granted agrees with those of the others.
LEMMA GrantedAgrees ==
    ASSUME NEW r \in Requests, NEW s \in Requests, r # s, Granted(r), NEW m \in req[s].held,
           m.row = Want(req[r]).row
    PROVE  ~ Conflict(m.mode, Want(req[r]).mode)
BY Zenon DEF Granted, WaitsFor

\* The lock of a token has one holder.
LEMMA TokenAlone ==
    ASSUME TInv, NEW r \in Requests, NEW s \in Requests, r # s, NEW t \in Tokens, Has(req[r], t)
    PROVE  ~ Has(req[s], t)
<1> SUFFICES ASSUME NEW l \in req[r].held, l.row = t, NEW m \in req[s].held, m.row = t
             PROVE  FALSE
  BY Zenon DEF Has
<1>1. l.mode = "N" /\ m.mode = "N"
  BY Zenon DEF TInv, ReqOk, Holder
<1>2. ~ Conflict(l.mode, m.mode)
  BY Zenon DEF TInv, Compatible
<1>. QED
  BY Zenon, <1>1, <1>2 DEF Conflict

\* Spending tokens, and creating accounts, leaves no user with more tokens than before.
LEMMA SpendsKeeps ==
    ASSUME IInv, TInv, Spends, \A u \in Users : user[u].exists => user'[u].exists
    PROVE  HasAccount' /\ OneUnspentToken'
<1>1. HasAccount'
  <2> SUFFICES ASSUME NEW t \in Tokens, Unspent(t)'
               PROVE  tok'[t].user \in Users /\ user'[tok'[t].user].exists
    BY Zenon DEF HasAccount
  <2>. QED
    BY Zenon DEF Spends, TInv, HasAccount
<1>2. OneUnspentToken'
  <2> SUFFICES ASSUME NEW s \in Tokens, NEW t \in Tokens, Unspent(s)', Unspent(t)',
                      tok'[s].user = tok'[t].user, tok'[s].kind = tok'[t].kind
               PROVE  s = t
    BY Zenon DEF OneUnspentToken
  <2>1. /\ Unspent(s) /\ tok'[s].user = tok[s].user /\ tok'[s].kind = tok[s].kind
        /\ Unspent(t) /\ tok'[t].user = tok[t].user /\ tok'[t].kind = tok[t].kind
    BY Zenon DEF Spends
  <2>2. tok[s].user = tok[t].user /\ tok[s].kind = tok[t].kind
    BY Zenon, <2>1
  <2>. QED
    BY Zenon, <2>1, <2>2 DEF TInv, OneUnspentToken
<1>. QED
  BY Zenon, <1>1, <1>2

\* A request that goes on, with the locks it had and perhaps the one it was granted.
LEMMA RequestMoves ==
    ASSUME IInv, TInv, NEW r \in Requests, NEW q \in Request, Go(r, q), Env(Requests \ {r}),
           ReqOk(q)', \A l \in q.held : l \in req[r].held \/ (l = Want(req[r]) /\ Granted(r))
    PROVE  (\A s \in Requests : ReqOk(req[s])') /\ Compatible'
<1>1. req'[r] = q /\ \A s \in Requests \ {r} : req'[s] = req[s]
  BY Zenon DEF Go, IInv, TypeOK
<1>2. ASSUME NEW s \in Requests
      PROVE  ReqOk(req[s])'
  <2>1. PICK p : p = req'[s]
    BY Zenon
  <2>2. ReqOk(p)'
    <3>1. CASE s = r
      BY Zenon, <1>1, <2>1, <3>1
    <3>2. CASE s # r
      BY Zenon, <1>1, <2>1, <3>2, OthersKept
    <3>. QED
      BY Zenon, <3>1, <3>2
  <2>. QED
    BY Zenon, <2>1, <2>2 DEF ReqOk, Replacer, Redeemer, Revoker, Rotator, Holder, Has
<1>3. ASSUME NEW s \in Requests \ {r}, NEW l \in q.held, NEW m \in req[s].held, l.row = m.row
      PROVE  ~ Conflict(l.mode, m.mode) /\ ~ Conflict(m.mode, l.mode)
  <2>1. CASE l \in req[r].held
    BY Zenon, <1>3, <2>1 DEF TInv, Compatible
  <2>2. CASE l = Want(req[r]) /\ Granted(r)
    <3>1. ~ Conflict(m.mode, l.mode)
      BY Zenon, <1>3, <2>2, GrantedAgrees
    <3>. QED
      BY Zenon, <3>1 DEF Conflict
  <2>. QED
    BY Zenon, <2>1, <2>2
<1>4. Compatible'
  <2> SUFFICES ASSUME NEW a \in Requests, NEW b \in Requests, a # b,
                      NEW l \in req'[a].held, NEW m \in req'[b].held, l.row = m.row
               PROVE  ~ Conflict(l.mode, m.mode)
    BY Zenon DEF Compatible
  <2>1. CASE a = r
    BY Zenon, <1>1, <1>3, <2>1
  <2>2. CASE b = r
    BY Zenon, <1>1, <1>3, <2>2
  <2>3. CASE a # r /\ b # r
    BY Zenon, <1>1, <2>3 DEF TInv, Compatible
  <2>. QED
    BY Zenon, <2>1, <2>2, <2>3
<1>. QED
  BY Zenon, <1>2, <1>4

\* A step that leaves the tables alone.
LEMMA QuietTokens ==
    ASSUME IInv, TInv, NEW r \in Requests, NEW q \in Request, Go(r, q),
           UNCHANGED <<user, tok, refresh, mailed>>, ReqOk(q),
           \A l \in q.held : l \in req[r].held \/ (l = Want(req[r]) /\ Granted(r))
    PROVE  TInv'
<1>1. Env(Requests \ {r})
  <2>1. \A s \in Requests : \A l \in req[s].held : l.row \in Tokens => Unspent(l.row)
    BY Zenon DEF TInv, ReqOk, Holder
  <2>. QED
    BY Zenon, <2>1 DEF Env, RefreshKept, Unspent, Unrevoked
<1>2. Spends
  BY Zenon DEF Spends, Unspent
<1>3. ReqOk(q)'
  BY Zenon DEF ReqOk, Replacer, Redeemer, Revoker, Rotator, Holder, Has, Unspent, Unrevoked
<1>4. (\A s \in Requests : ReqOk(req[s])') /\ Compatible'
  BY Zenon, <1>1, <1>3, RequestMoves
<1>5. HasAccount' /\ OneUnspentToken'
  BY Zenon, <1>2, SpendsKeeps
<1>. QED
  BY Zenon, <1>4, <1>5 DEF TInv

\* A request outside of any transaction.
Plain(q) ==
    /\ q.op \in {"none", "mail", "login"} /\ q.held = {}
    /\ q.pc \in {"idle", "mail", "drop", "link", "create", "success", "issue"}

\* It relies on nothing.
LEMMA PlainRelies == ASSUME NEW q, Plain(q) PROVE ReqOk(q) /\ ReqOk(q)'
<1>1. ReqOk(q)
  BY Zenon DEF Plain, ReqOk, Replacer, Redeemer, Revoker, Rotator, Holder
<1>2. ReqOk(q)'
  BY Zenon DEF Plain, ReqOk, Replacer, Redeemer, Revoker, Rotator, Holder
<1>. QED
  BY Zenon, <1>1, <1>2

\* A request that is over does not.
LEMMA IdleRelies == ASSUME NEW q, q = Idle PROVE q \in Request /\ q.held = {} /\ ReqOk(q) /\ ReqOk(q)'
<1>1. Plain(q)
  BY Zenon DEF Plain, Idle
<1>. QED
  BY Zenon, <1>1, PlainRelies, IdleOk

\* The end of a request.
LEMMA AnsweredTokens ==
    ASSUME IInv, TInv, NEW r \in Requests, Answered(r), Env(Requests \ {r}), Spends
    PROVE  TInv'
<1>1. PICK q : q = Idle
  BY Zenon
<1>2. q \in Request /\ q.held = {} /\ ReqOk(q)'
  BY Zenon, <1>1, IdleRelies
<1>3. (\A s \in Requests : ReqOk(req[s])') /\ Compatible'
  BY Zenon, <1>1, <1>2, RequestMoves DEF Answered
<1>4. HasAccount' /\ OneUnspentToken'
  BY Zenon, SpendsKeeps DEF Env
<1>. QED
  BY Zenon, <1>3, <1>4 DEF TInv

\* The operation a statement belongs to.
LEMMA OpOf ==
    ASSUME NEW q \in Request, ReqOk(q)
    PROVE  /\ q.pc = "lockUser" => q.op \in {"forgot", "resend"}
           /\ q.pc \in {"claim", "updateUser"} => q.op \in {"reset", "verify"}
           /\ q.pc \in {"supersede", "sweep", "commit"} =>
                q.op \in {"forgot", "resend", "reset", "verify"}
           /\ q.pc \in {"idle", "mail", "drop", "link", "create", "success", "issue"} =>
                q.op \in {"none", "mail", "login"} /\ q.held = {}
           /\ q.pc \in {"rotate", "insert"} => q.op = "refresh"
<1>1. q.op \in {"none", "mail", "forgot", "resend", "reset", "verify", "login", "refresh"}
  BY Zenon DEF Request
<1>2. /\ q.op \in {"forgot", "resend"} => q.pc \in {"lockUser", "supersede", "sweep", "commit"}
      /\ q.op \in {"reset", "verify"} =>
           q.pc \in {"claim", "updateUser", "supersede", "sweep", "commit"}
      /\ q.op = "refresh" => q.pc \in {"rotate", "insert"}
      /\ q.op \in {"none", "mail", "login"} =>
           /\ q.pc \in {"idle", "mail", "drop", "link", "create", "success", "issue"}
           /\ q.held = {}
  BY Zenon DEF ReqOk, Replacer, Redeemer, Rotator
<1>. QED
  BY Zenon, <1>1, <1>2

----------------------------------------------------------------------------
(* The steps *)

\* Requests that begin, other than sign-ups.
LEMMA BeginTokens ==
    ASSUME IInv, TInv, NEW r \in Requests, Begin(r),
           \A u \in Users : \A p \in Passwords : \A t \in Tokens : ~ Signup(r, u, p, t)
    PROVE  TInv'
<1>0. Tables /\ RowInv
  BY Zenon DEF IInv, TypeOK, Tables
<1>1. ASSUME NEW u \in Users, ForgotPassword(r, u) \/ ResendVerification(r, u)
      PROVE  TInv'
  <2>1. PICK op \in {"forgot", "resend"} :
           Go(r, [Idle EXCEPT !.op = op, !.pc = "lockUser", !.user = u])
    BY Zenon, <1>1 DEF ForgotPassword, ResendVerification
  <2>2. PICK q : q = [Idle EXCEPT !.op = op, !.pc = "lockUser", !.user = u]
    BY Zenon
  <2>3. /\ q \in Request /\ q.held = {} /\ q.pc = "lockUser" /\ q.op = op /\ q.user = u
    BY Zenon, <2>2 DEF Idle, Request
  <2>4. user[u].exists /\ UNCHANGED <<user, tok, refresh, mailed>>
    BY Zenon, <1>1 DEF ForgotPassword, ResendVerification
  <2>5. Replacer(q) /\ Redeemer(q) /\ Revoker(q) /\ Rotator(q) /\ Holder(q)
    BY Zenon, <2>3, <2>4 DEF Replacer, Redeemer, Revoker, Rotator, Holder
  <2>. QED
    BY Zenon, <2>1, <2>2, <2>3, <2>4, <2>5, QuietTokens DEF ReqOk
<1>2. ASSUME NEW u \in Users,
             GoogleCallback(r, u) \/ \E p \in Passwords : Login(r, u, p)
      PROVE  TInv'
  <2>1. PICK pc \in {"success", "link", "create"} :
           Go(r, [Idle EXCEPT !.op = "login", !.user = u, !.pc = pc])
    <3>1. CASE GoogleCallback(r, u)
      BY Zenon, <3>1 DEF GoogleCallback
    <3>2. CASE \E p \in Passwords : Login(r, u, p)
      <4>1. Go(r, [Idle EXCEPT !.op = "login", !.pc = "success", !.user = u])
        BY Zenon, <3>2 DEF Login
      <4>2. [Idle EXCEPT !.op = "login", !.pc = "success", !.user = u]
              = [Idle EXCEPT !.op = "login", !.user = u, !.pc = "success"]
        BY Zenon DEF Idle
      <4>. QED
        BY Zenon, <4>1, <4>2
    <3>. QED
      BY Zenon, <1>2, <3>1, <3>2
  <2>2. PICK q : q = [Idle EXCEPT !.op = "login", !.user = u, !.pc = pc]
    BY Zenon
  <2>3. q \in Request /\ q.held = {} /\ q.pc = pc /\ q.op = "login"
    BY Zenon, <2>2 DEF Idle, Request
  <2>4. UNCHANGED <<user, tok, refresh, mailed>>
    BY Zenon, <1>2 DEF GoogleCallback, Login
  <2>5. ReqOk(q)
    BY Zenon, <2>3, PlainRelies DEF Plain
  <2>. QED
    BY Zenon, <2>1, <2>2, <2>3, <2>4, <2>5, QuietTokens
<1>3. ASSUME NEW t \in Tokens, VerifyEmail(r, t)
      PROVE  TInv'
  <2>1. PICK u \in Users : u = tok[t].user
    BY Zenon, <1>0, <1>3 DEF VerifyEmail, RowInv
  <2>2. PICK q : q = [Idle EXCEPT !.op = "verify", !.pc = "claim", !.user = u, !.tok = t]
    BY Zenon
  <2>3. /\ q \in Request /\ q.held = {} /\ q.pc = "claim" /\ q.op = "verify"
        /\ q.user = u /\ q.tok = t
    BY Zenon, <2>2 DEF Idle, Request
  <2>4. /\ Go(r, q) /\ t \in mailed /\ tok[t].kind = "verify"
        /\ UNCHANGED <<user, tok, refresh, mailed>>
    BY Zenon, <1>3, <2>1, <2>2 DEF VerifyEmail
  <2>5. Replacer(q) /\ Redeemer(q) /\ Revoker(q) /\ Rotator(q) /\ Holder(q)
    BY Zenon, <2>1, <2>3, <2>4 DEF Replacer, Redeemer, Revoker, Rotator, Holder, KindOf
  <2>. QED
    BY Zenon, <2>3, <2>4, <2>5, QuietTokens DEF ReqOk
<1>4. ASSUME NEW t \in Tokens, NEW p \in Passwords, ResetPassword(r, t, p)
      PROVE  TInv'
  <2>1. PICK u \in Users : u = tok[t].user
    BY Zenon, <1>0, <1>4 DEF ResetPassword, RowInv
  <2>2. PICK q : q = [Idle EXCEPT !.op = "reset", !.pc = "claim", !.user = u,
                                  !.tok = t, !.pw = p]
    BY Zenon
  <2>3. /\ q \in Request /\ q.held = {} /\ q.pc = "claim" /\ q.op = "reset"
        /\ q.user = u /\ q.tok = t
    BY Zenon, <2>2 DEF Idle, Request
  <2>4. /\ Go(r, q) /\ t \in mailed /\ tok[t].kind = "reset"
        /\ UNCHANGED <<user, tok, refresh, mailed>>
    BY Zenon, <1>4, <2>1, <2>2 DEF ResetPassword
  <2>5. Replacer(q) /\ Redeemer(q) /\ Revoker(q) /\ Rotator(q) /\ Holder(q)
    BY Zenon, <2>1, <2>3, <2>4 DEF Replacer, Redeemer, Revoker, Rotator, Holder, KindOf
  <2>. QED
    BY Zenon, <2>3, <2>4, <2>5, QuietTokens DEF ReqOk
<1>5. ASSUME NEW t \in RefreshTokens, RefreshSession(r, t)
      PROVE  TInv'
  <2>1. PICK u \in Users \cup {None} : u = refresh[t].user
    BY Zenon, <1>0 DEF Tables, Refresh
  <2>2. PICK q : q = [Idle EXCEPT !.op = "refresh", !.pc = "rotate", !.user = u, !.tok = t]
    BY Zenon
  <2>3. /\ q \in Request /\ q.held = {} /\ q.pc = "rotate" /\ q.op = "refresh"
        /\ q.user = u /\ q.tok = t
    BY Zenon, <2>2 DEF Idle, Request
  <2>4. /\ Go(r, q) /\ refresh[t].state # "absent"
        /\ UNCHANGED <<user, tok, refresh, mailed>>
    BY Zenon, <1>5, <2>1, <2>2 DEF RefreshSession
  <2>5. Replacer(q) /\ Redeemer(q) /\ Revoker(q) /\ Rotator(q) /\ Holder(q)
    BY Zenon, <2>1, <2>3, <2>4 DEF Replacer, Redeemer, Revoker, Rotator, Holder
  <2>. QED
    BY Zenon, <2>3, <2>4, <2>5, QuietTokens DEF ReqOk
<1>. QED
  BY Zenon, <1>1, <1>2, <1>3, <1>4, <1>5 DEF Begin

\* Statements that take one lock.
LEMMA TakeTokens ==
    ASSUME IInv, TInv, NEW r \in Requests,
           LockUser(r) \/ ClaimToken(r) \/ UpdateUser(r) \/ RevokeOld(r)
    PROVE  TInv'
<1>p. PICK old \in Request : old = req[r]
  BY Zenon DEF IInv, TypeOK
<1>0. /\ PcOk(old) /\ ReqOk(old) /\ old.held \in SUBSET Lock
      /\ UNCHANGED <<user, tok, refresh, mailed>>
  BY Zenon, <1>p DEF IInv, PcInv, TInv, LockUser, ClaimToken, UpdateUser, RevokeOld, Request
<1>1. CASE Answered(r)
  <2>1. PICK q : q = Idle
    BY Zenon
  <2>2. q \in Request /\ q.held = {} /\ ReqOk(q)
    BY Zenon, <2>1, IdleRelies
  <2>. QED
    BY Zenon, <1>0, <1>1, <2>1, <2>2, QuietTokens DEF Answered
<1>3. CASE LockUser(r)
  <2>1. Go(r, With(old, "supersede", {Want(old)})) /\ old.pc = "lockUser" /\ Granted(r)
    BY Zenon, <1>3, <1>p DEF LockUser, At, With
  <2>2. /\ Want(old) = [row |-> old.user, mode |-> "X"] /\ old.user \in Users
        /\ old.op \in {"forgot", "resend"} /\ user[old.user].exists
    BY Zenon, <1>0, <2>1, OpOf DEF Want, ReqOk, Replacer
  <2>3. Want(old) \in Lock /\ Want(old).row \notin Tokens
    BY <2>2, RowsAssumption DEF Lock, Rows
  <2>q. PICK q \in Request :
          /\ q = With(old, "supersede", {Want(old)}) /\ q.pc = "supersede" /\ q.held = {Want(old)}
          /\ q.op = old.op /\ q.user = old.user /\ q.tok = old.tok /\ q.todo = old.todo
    BY <2>3, WithIs
  <2>4. ReqOk(q)
    BY Zenon, <2>2, <2>3, <2>q DEF ReqOk, Replacer, Redeemer, Revoker, Rotator, Holder
  <2>. QED
    BY Zenon, <1>p, <1>0, <2>1, <2>q, <2>4, QuietTokens
<1>4. CASE ClaimToken(r) /\ ~ Answered(r)
  <2>1. /\ Go(r, With(old, "updateUser", {Want(old)})) /\ old.pc = "claim" /\ Granted(r)
        /\ tok[old.tok].state = "unused"
    BY Zenon, <1>4, <1>p DEF ClaimToken, At, With
  <2>2. /\ Want(old) = [row |-> old.tok, mode |-> "N"] /\ old.tok \in Tokens
        /\ old.op \in {"reset", "verify"} /\ Redeemer(old)
    BY Zenon, <1>0, <2>1, OpOf DEF Want, ReqOk, PcOk
  <2>3. Want(old) \in Lock /\ Want(old).row = old.tok /\ Want(old).mode = "N" /\ Unspent(old.tok)
    BY <2>1, <2>2 DEF Lock, Rows, Unspent
  <2>q. PICK q \in Request :
          /\ q = With(old, "updateUser", {Want(old)}) /\ q.pc = "updateUser" /\ q.held = {Want(old)}
          /\ q.op = old.op /\ q.user = old.user /\ q.tok = old.tok /\ q.todo = old.todo
    BY <2>3, WithIs
  <2>4. ReqOk(q)
    BY Zenon, <2>2, <2>3, <2>q DEF ReqOk, Replacer, Redeemer, Revoker, Rotator, Holder, Has
  <2>. QED
    BY Zenon, <1>p, <1>0, <2>1, <2>q, <2>4, QuietTokens
<1>5. CASE UpdateUser(r)
  <2>1. Go(r, With(old, "supersede", old.held \cup {Want(old)})) /\ old.pc = "updateUser"
        /\ Granted(r)
    BY Zenon, <1>5, <1>p DEF UpdateUser, At, With
  <2>2. /\ Want(old) = [row |-> old.user, mode |-> "N"] /\ old.user \in Users
        /\ old.op \in {"reset", "verify"} /\ Redeemer(old) /\ Holder(old)
    BY Zenon, <1>0, <2>1, OpOf DEF Want, ReqOk, PcOk
  <2>3. Want(old) \in Lock /\ Want(old).row \notin Tokens /\ Want(old).mode = "N"
    BY <2>2, RowsAssumption DEF Lock, Rows
  <2>h. old.held \cup {Want(old)} \in SUBSET Lock
    BY Zenon, <1>0, <2>3
  <2>q. PICK q \in Request :
          /\ q = With(old, "supersede", old.held \cup {Want(old)}) /\ q.pc = "supersede"
          /\ q.held = old.held \cup {Want(old)}
          /\ q.op = old.op /\ q.user = old.user /\ q.tok = old.tok /\ q.todo = old.todo
    BY <2>h, WithIs
  <2>4. ReqOk(q)
    <3>1. Redeemer(q)
      BY Zenon, <2>1, <2>2, <2>3, <2>q DEF Redeemer, Has
    <3>2. Holder(q)
      BY Zenon, <2>1, <2>2, <2>3, <2>q DEF Holder
    <3>3. Replacer(q) /\ Revoker(q) /\ Rotator(q)
      BY Zenon, <2>2, <2>q DEF Replacer, Revoker, Rotator
    <3>. QED
      BY Zenon, <3>1, <3>2, <3>3 DEF ReqOk
  <2>. QED
    BY Zenon, <1>p, <1>0, <2>1, <2>q, <2>4, QuietTokens
<1>6. CASE RevokeOld(r) /\ ~ Answered(r)
  <2>1. Go(r, With(old, "insert", {Want(old)})) /\ old.pc = "rotate" /\ Granted(r)
    BY Zenon, <1>6, <1>p DEF RevokeOld, At, With
  <2>2. /\ Want(old) = [row |-> old.tok, mode |-> "N"] /\ old.tok \in RefreshTokens
        /\ old.op = "refresh" /\ Rotator(old)
    BY Zenon, <1>0, <2>1, OpOf DEF Want, ReqOk, PcOk
  <2>3. Want(old) \in Lock /\ Want(old).row = old.tok /\ old.tok \notin Tokens
    BY <2>2, TokensAssumption DEF Lock, Rows
  <2>q. PICK q \in Request :
          /\ q = With(old, "insert", {Want(old)}) /\ q.pc = "insert" /\ q.held = {Want(old)}
          /\ q.op = old.op /\ q.user = old.user /\ q.tok = old.tok /\ q.todo = old.todo
    BY <2>3, WithIs
  <2>4. ReqOk(q)
    BY Zenon, <2>2, <2>3, <2>q DEF ReqOk, Replacer, Redeemer, Revoker, Rotator, Holder
  <2>. QED
    BY Zenon, <1>p, <1>0, <2>1, <2>q, <2>4, QuietTokens
<1>. QED
  BY Zenon, <1>1, <1>3, <1>4, <1>5, <1>6

\* Every row the UPDATE has to change is in S or locked by h.
Covers(old, seen, S, h) ==
    /\ old.op \in {"forgot", "resend"} =>
         \A x \in Tokens :
            /\ Unspent(x) /\ tok[x].user = old.user /\ tok[x].kind = KindOf(old.op)
            => x \in S \/ \E l \in h : l.row = x
    /\ old.op = "reset" =>
         /\ S \subseteq seen
         /\ \A x \in seen :
              /\ x \in RefreshTokens /\ refresh[x].state # "absent" /\ refresh[x].user = old.user
              /\ x \in S \/ (\E l \in h : l.row = x) \/ ~ Unrevoked(x)

\* An UPDATE that goes on covers the same rows.
LEMMA SweptTokens ==
    ASSUME IInv, TInv, NEW r \in Requests, NEW old \in Request, old = req[r],
           old.pc \in {"supersede", "sweep"}, NEW pc \in {"sweep", "commit"},
           NEW seen \in SUBSET (Tokens \cup RefreshTokens),
           NEW S \in SUBSET (Tokens \cup RefreshTokens),
           NEW t \in Tokens \cup RefreshTokens \cup {None}, NEW h \in SUBSET Lock,
           Go(r, Swept(old, pc, seen, S, t, h)), UNCHANGED <<user, tok, refresh, mailed>>,
           old.held \subseteq h,
           \A l \in h : \/ l \in old.held
                        \/ /\ l = Want(old) /\ Granted(r) /\ l.mode = "N"
                           /\ l.row \in Tokens => Unspent(l.row),
           pc = "commit" => S = {}, Covers(old, seen, S, h)
    PROVE  TInv'
<1>0. ReqOk(old) /\ old.op \in {"forgot", "resend", "reset", "verify"}
  BY Zenon, OpOf DEF TInv
<1>1. PICK q : q = Swept(old, pc, seen, S, t, h)
  BY Zenon
<1>2. /\ q \in Request /\ q.pc = pc /\ q.held = h /\ q.op = old.op /\ q.user = old.user
      /\ q.todo = S /\ q.tok = old.tok /\ q.seen = seen
  BY SMTT(30), <1>1, SweptIs
<1>3. Replacer(q)
  <2> SUFFICES ASSUME q.op \in {"forgot", "resend"}
               PROVE  Replacer(q)
    BY Zenon DEF Replacer
  <2>1. /\ q.user \in Users /\ user[q.user].exists
        /\ [row |-> q.user, mode |-> "X"] \in q.held
    BY Zenon, <1>0, <1>2 DEF ReqOk, Replacer
  <2>2. ASSUME NEW x \in Tokens, Unspent(x), tok[x].user = q.user, tok[x].kind = KindOf(q.op)
        PROVE  x \in q.todo \/ Has(q, x)
    BY Zenon, <1>2, <2>2 DEF Covers, Has
  <2>. QED
    BY Zenon, <1>2, <2>1, <2>2 DEF Replacer
<1>4. Redeemer(q)
  <2> SUFFICES ASSUME q.op \in {"reset", "verify"}
               PROVE  Redeemer(q)
    BY Zenon DEF Redeemer
  <2>1. /\ q.tok \in mailed /\ tok[q.tok].user = q.user /\ tok[q.tok].kind = KindOf(q.op)
        /\ Has(old, q.tok)
        /\ [row |-> q.user, mode |-> "N"] \in old.held
        /\ \A l \in old.held : l.mode = "N"
    BY Zenon, <1>0, <1>2 DEF ReqOk, Redeemer
  <2>2. Has(q, q.tok) /\ [row |-> q.user, mode |-> "N"] \in q.held
    BY Zenon, <1>2, <2>1 DEF Has
  <2>3. \A l \in q.held : l.mode = "N"
    BY Zenon, <1>2, <2>1
  <2>. QED
    BY Zenon, <1>2, <2>1, <2>2, <2>3 DEF Redeemer
<1>5. Revoker(q)
  BY Zenon, <1>2 DEF Revoker, Covers, Has
<1>6. Rotator(q)
  BY Zenon, <1>0, <1>2 DEF Rotator
<1>7. Holder(q)
  <2>1. \A l \in old.held : l.row \in Tokens => l.mode = "N" /\ Unspent(l.row)
    BY Zenon, <1>0 DEF ReqOk, Holder
  <2>. QED
    BY Zenon, <1>2, <2>1 DEF Holder
<1>8. ReqOk(q)
  BY Zenon, <1>3, <1>4, <1>5, <1>6, <1>7 DEF ReqOk
<1>. QED
  BY Zenon, <1>1, <1>2, <1>8, QuietTokens

\* The UPDATE sees every unspent token, or every session, of its user that others do not
\* create meanwhile, and looks again at each row once it has the lock.
LEMMA SweepTokens ==
    ASSUME IInv, TInv, NEW r \in Requests, UpdateTokens(r) \/ SweepRow(r)
    PROVE  TInv'
<1>p. PICK old \in Request : old = req[r]
  BY Zenon DEF IInv, TypeOK
<1>0. /\ PcOk(old) /\ ReqOk(old) /\ UNCHANGED <<user, tok, refresh, mailed>>
      /\ old.pc \in {"supersede", "sweep"}
  BY Zenon, <1>p DEF IInv, PcInv, TInv, At, UpdateTokens, SweepRow
<1>1. old.op \in {"forgot", "resend", "reset", "verify"}
  BY Zenon, <1>0, OpOf
<1>2. old.held \in SUBSET Lock /\ old.seen \in SUBSET (Tokens \cup RefreshTokens)
  BY SMTT(30), <1>p DEF Request
<1>3. CASE UpdateTokens(r)
  <2>p. PICK S : S = Matching(old)
    BY Zenon
  <2>1. Sweep(r, [old EXCEPT !.seen = S], S)
    BY Zenon, <1>p, <1>3, <2>p DEF UpdateTokens
  <2>2. [old EXCEPT !.seen = S] = [old EXCEPT !.seen = S, !.held = old.held]
    BY Zenon, <1>p DEF Request
  <2>3. S \in SUBSET (Tokens \cup RefreshTokens)
    BY Zenon, <2>p DEF Matching
  <2>4. Covers(old, S, S, old.held)
    <3>1. ASSUME old.op \in {"forgot", "resend"}, NEW x \in Tokens,
                 Unspent(x), tok[x].user = old.user, tok[x].kind = KindOf(old.op)
          PROVE  x \in S \/ \E l \in old.held : l.row = x
      BY Zenon, <2>p, <3>1 DEF Matching, KindOf
    <3>2. ASSUME old.op = "reset", NEW x \in S
          PROVE  x \in RefreshTokens /\ refresh[x].state # "absent" /\ refresh[x].user = old.user
      BY Zenon, <2>p, <3>2 DEF Matching, Unrevoked
    <3>. QED
      BY Zenon, <3>1, <3>2 DEF Covers
  <2>5. CASE S = {} /\ Go(r, Swept(old, "commit", S, {}, None, old.held))
    BY Zenon, <1>p, <1>0, <1>2, <2>3, <2>4, <2>5, SweptTokens
  <2>6. ASSUME NEW t \in S, Go(r, Swept(old, "sweep", S, S, t, old.held))
        PROVE  TInv'
    <3>1. t \in Tokens \cup RefreshTokens \cup {None}
      BY Zenon, <2>3
    <3>2. "sweep" # "commit"
      BY Zenon
    <3>. QED
      BY Zenon, <1>p, <1>0, <1>2, <2>3, <2>4, <2>6, <3>1, <3>2, SweptTokens
  <2>. QED
    BY Zenon, <2>1, <2>2, <2>5, <2>6 DEF Sweep, Swept
<1>4. CASE SweepRow(r)
  <2> DEFINE matches == IF old.op = "reset" THEN Unrevoked(old.next) ELSE Unspent(old.next)
  <2>1. old.pc = "sweep" /\ Granted(r) /\ old.next \in old.todo
    BY Zenon, <1>p, <1>0, <1>4 DEF SweepRow, At, PcOk
  <2>d. /\ old.op = "reset" => old.next \in RefreshTokens /\ old.todo \in SUBSET RefreshTokens
        /\ old.op # "reset" => old.next \in Tokens /\ old.todo \in SUBSET Tokens
    BY Zenon, <1>0, <2>1 DEF PcOk
  <2>2. Want(old) = [row |-> old.next, mode |-> "N"]
    BY Zenon, <2>1 DEF Want
  <2>3. Want(old) \in Lock /\ Want(old).row = old.next /\ Want(old).mode = "N"
    BY <2>2, <2>d DEF Lock, Rows
  <2>p. PICK h : h = IF matches THEN old.held \cup {Want(old)} ELSE old.held
    BY Zenon
  <2>s. PICK S : S = old.todo \ {old.next}
    BY Zenon
  <2>4. Sweep(r, [old EXCEPT !.held = h], S)
    <3>1. Sweep(r, IF matches THEN [old EXCEPT !.held = @ \cup {Want(old)}] ELSE old, S)
      BY Zenon, <1>p, <1>4, <2>s DEF SweepRow
    <3>2. old = [old EXCEPT !.held = old.held]
      BY Zenon, <1>p DEF Request
    <3>. QED
      BY SMTT(30), <2>p, <3>1, <3>2
  <2>5. [old EXCEPT !.held = h] = [old EXCEPT !.seen = old.seen, !.held = h]
    BY Zenon, <1>p DEF Request
  <2>6. old.held \subseteq h /\ h \in SUBSET Lock /\ S \in SUBSET (Tokens \cup RefreshTokens)
    BY Zenon, <1>2, <2>3, <2>d, <2>p, <2>s
  <2>7. \A l \in h : \/ l \in old.held
                     \/ /\ l = Want(old) /\ Granted(r) /\ l.mode = "N"
                        /\ l.row \in Tokens => Unspent(l.row)
    BY Zenon, <2>1, <2>3, <2>d, <2>p, TokensAssumption
  <2>8. Covers(old, old.seen, S, h)
    <3>1. ASSUME old.op \in {"forgot", "resend"}, NEW x \in Tokens,
                 Unspent(x), tok[x].user = old.user, tok[x].kind = KindOf(old.op)
          PROVE  x \in S \/ \E l \in h : l.row = x
      <4>1. x \in old.todo \/ \E l \in old.held : l.row = x
        BY Zenon, <1>0, <2>1, <3>1 DEF ReqOk, Replacer, Has
      <4>2. CASE x = old.next
        <5>1. matches
          BY Zenon, <3>1, <4>2
        <5>. QED
          BY Zenon, <2>3, <2>p, <4>2, <5>1
      <4>3. CASE x # old.next
        BY Zenon, <2>6, <2>s, <4>1, <4>3
      <4>. QED
        BY Zenon, <4>2, <4>3
    <3>2. ASSUME old.op = "reset"
          PROVE  /\ S \subseteq old.seen
                 /\ \A x \in old.seen :
                      /\ x \in RefreshTokens /\ refresh[x].state # "absent"
                      /\ refresh[x].user = old.user
                      /\ x \in S \/ (\E l \in h : l.row = x) \/ ~ Unrevoked(x)
      <4>1. Revoker(old) /\ old.pc \in {"sweep", "commit"}
        BY Zenon, <1>0, <2>1 DEF ReqOk
      <4>2. ASSUME NEW x \in old.seen
            PROVE  x \in S \/ (\E l \in h : l.row = x) \/ ~ Unrevoked(x)
        <5>1. x \in old.todo \/ (\E l \in old.held : l.row = x) \/ ~ Unrevoked(x)
          BY Zenon, <3>2, <4>1, <4>2 DEF Revoker, Has
        <5>2. CASE x = old.next /\ Unrevoked(x)
          BY Zenon, <2>3, <2>p, <3>2, <5>2
        <5>. QED
          BY Zenon, <2>6, <2>s, <5>1, <5>2
      <4>3. S \subseteq old.seen
        BY Zenon, <2>s, <3>2, <4>1 DEF Revoker
      <4>. QED
        BY Zenon, <3>2, <4>1, <4>2, <4>3 DEF Revoker
    <3>. QED
      BY Zenon, <3>1, <3>2 DEF Covers
  <2>9. CASE S = {} /\ Go(r, Swept(old, "commit", old.seen, {}, None, h))
    BY Zenon, <1>p, <1>0, <1>2, <2>6, <2>7, <2>8, <2>9, SweptTokens
  <2>10. ASSUME NEW t \in S, Go(r, Swept(old, "sweep", old.seen, S, t, h))
         PROVE  TInv'
    <3>1. t \in Tokens \cup RefreshTokens \cup {None} /\ "sweep" # "commit"
      BY Zenon, <2>6
    <3>. QED
      BY Zenon, <1>p, <1>0, <1>2, <2>6, <2>7, <2>8, <2>10, <3>1, SweptTokens
  <2>. QED
    BY Zenon, <2>4, <2>5, <2>9, <2>10 DEF Sweep, Swept
<1>. QED
  BY Zenon, <1>3, <1>4

\* Statements outside of transactions, and transactions that only touch accounts.
LEMMA PlainTokens ==
    ASSUME IInv, TInv, NEW r \in Requests,
           \/ SendFails(r) \/ UpdateAdminLoginSuccess(r)
           \/ LinkGoogleAccount(r) \/ GoogleSignupTx(r)
    PROVE  TInv'
<1>p. PICK old \in Request : old = req[r]
  BY Zenon DEF IInv, TypeOK
<1>0. ReqOk(old) /\ UNCHANGED <<tok, refresh, mailed>>
  BY Zenon, <1>p DEF TInv, SendFails, UpdateAdminLoginSuccess, LinkGoogleAccount, GoogleSignupTx
<1>1. old.pc \in {"mail", "success", "link", "create"}
  BY Zenon, <1>p DEF SendFails, UpdateAdminLoginSuccess, LinkGoogleAccount, GoogleSignupTx, At
<1>2. old.op \in {"none", "mail", "login"} /\ old.held = {} /\ {} \in SUBSET Lock
  BY Zenon, <1>0, <1>1, OpOf
<1>3. \A u \in Users : user[u].exists => user'[u].exists
  <2>0. user \in [Users -> Account]
    BY Zenon DEF IInv, TypeOK
  <2>1. CASE SendFails(r) \/ UpdateAdminLoginSuccess(r)
    BY Zenon, <2>1 DEF SendFails, UpdateAdminLoginSuccess
  <2>2. CASE LinkGoogleAccount(r)
    <3> SUFFICES ASSUME NEW u \in Users, user[u].exists
                 PROVE  user'[u].exists
      BY Zenon
    <3>1. user' = [user EXCEPT ![old.user] = [user[old.user] EXCEPT !.google = TRUE, !.verified = TRUE]]
      BY Zenon, <1>p, <2>0, <2>2 DEF LinkGoogleAccount
    <3>2. user'[u] \in {user[u], [user[u] EXCEPT !.google = TRUE, !.verified = TRUE]}
      BY Zenon, <2>0, <3>1
    <3>3. [user[u] EXCEPT !.google = TRUE, !.verified = TRUE].exists = user[u].exists
      BY Zenon, <2>0 DEF Account
    <3>. QED
      BY Zenon, <3>2, <3>3
  <2>3. CASE GoogleSignupTx(r)
    BY Zenon, <1>p, <2>0, <2>3 DEF GoogleSignupTx
  <2>. QED
    BY Zenon, <2>1, <2>2, <2>3
<1>4. Env(Requests \ {r}) /\ Spends
  <2>1. \A s \in Requests : \A l \in req[s].held : l.row \in Tokens => Unspent(l.row)
    BY Zenon DEF TInv, ReqOk, Holder
  <2>. QED
    BY Zenon, <1>0, <1>3, <2>1 DEF Env, RefreshKept, Spends, Unspent, Unrevoked
<1>5. CASE Answered(r)
  BY Zenon, <1>4, <1>5, AnsweredTokens
<1>6. CASE ~ Answered(r)
  <2>1. PICK pc \in {"issue", "success", "drop"} : Go(r, [old EXCEPT !.pc = pc])
    BY Zenon, <1>p, <1>6 DEF SendFails, UpdateAdminLoginSuccess, LinkGoogleAccount, GoogleSignupTx
  <2>2. PICK q : q = [old EXCEPT !.pc = pc]
    BY Zenon
  <2>3. q \in Request /\ q.pc = pc /\ q.op = old.op /\ q.held = old.held
    BY Zenon, <2>2 DEF Request
  <2>4. ReqOk(q)'
    <3>1. Plain(q)
      BY Zenon, <1>2, <2>3 DEF Plain
    <3>. QED
      BY Zenon, <3>1, PlainRelies
  <2>5. (\A s \in Requests : ReqOk(req[s])') /\ Compatible'
    BY Zenon, <1>4, <1>p, <2>1, <2>2, <2>3, <2>4, RequestMoves
  <2>. QED
    BY Zenon, <1>3, <1>4, <2>5, SpendsKeeps DEF TInv
<1>. QED
  BY Zenon, <1>5, <1>6

\* Spending tokens that nobody else has locked.
LEMMA SpendEnv ==
    ASSUME IInv, TInv, NEW R \in SUBSET Requests, NEW T \in SUBSET Tokens, mailed \subseteq mailed',
           \A u \in Users : user[u].exists => user'[u].exists, RefreshKept,
           \A x \in Tokens : tok'[x].user = tok[x].user /\ tok'[x].kind = tok[x].kind,
           \A x \in T : ~ Unspent(x)',
           \A x \in Tokens \ T : Unspent(x)' <=> Unspent(x),
           \A x \in T : \A s \in R : ~ Has(req[s], x)
    PROVE  Env(R) /\ Spends
<1>1. \A x \in Tokens : Unspent(x)' => Unspent(x)
  BY Zenon
<1>2. \A s \in R : \A l \in req[s].held : l.row \in Tokens => Unspent(l.row)'
  <2> SUFFICES ASSUME NEW s \in R, NEW l \in req[s].held, l.row \in Tokens
               PROVE  Unspent(l.row)'
    BY Zenon
  <2>1. Unspent(l.row)
    BY Zenon DEF TInv, ReqOk, Holder
  <2>2. l.row \notin T
    BY Zenon DEF Has
  <2>. QED
    BY Zenon, <2>1, <2>2
<1>. QED
  BY Zenon, <1>1, <1>2 DEF Env, Spends

\* Rows that become used keep everything else.
LEMMA SpentRows ==
    ASSUME IInv, NEW T \in SUBSET Tokens,
           tok' = [x \in Tokens |-> IF x \in T THEN [tok[x] EXCEPT !.state = "used"] ELSE tok[x]]
    PROVE  /\ \A x \in Tokens : tok'[x].user = tok[x].user /\ tok'[x].kind = tok[x].kind
           /\ \A x \in T : tok'[x].state = "used" /\ ~ Unspent(x)'
           /\ \A x \in Tokens \ T : Unspent(x)' <=> Unspent(x)
<1>0. tok \in [Tokens -> Token]
  BY Zenon DEF IInv, TypeOK
<1>1. \A x \in Tokens : LET a == [tok[x] EXCEPT !.state = "used"]
                        IN  a.user = tok[x].user /\ a.kind = tok[x].kind /\ a.state = "used"
  BY Zenon, <1>0 DEF Token
<1>2. \A x \in T : tok'[x] = [tok[x] EXCEPT !.state = "used"]
  BY Zenon
<1>3. \A x \in Tokens \ T : tok'[x] = tok[x]
  BY Zenon
<1>4. \A x \in T : tok'[x].state = "used" /\ tok'[x].user = tok[x].user /\ tok'[x].kind = tok[x].kind
  BY Zenon, <1>1, <1>2
<1>5. \A x \in T : ~ Unspent(x)'
  BY Zenon, <1>4 DEF Unspent
<1>. QED
  BY Zenon, <1>3, <1>4, <1>5 DEF Unspent

\* Accounts are changed by commits and stay.
LEMMA AccountsStay ==
    ASSUME IInv, NEW u, NEW a, user' = [user EXCEPT ![u] = a],
           u \in Users => a.exists = user[u].exists
    PROVE  \A w \in Users : user[w].exists => user'[w].exists
<1>1. user \in [Users -> Account]
  BY Zenon DEF IInv, TypeOK
<1>. QED
  BY Zenon, <1>1

\* A transaction spends the rows it has locked.
LEMMA RedeemTokens ==
    ASSUME IInv, TInv, NEW r \in Requests, VerifyEmailTx(r) \/ ResetPasswordTx(r), RefreshKept
    PROVE  TInv'
<1>p. PICK old \in Request : old = req[r]
  BY Zenon DEF IInv, TypeOK
<1>1. /\ Answered(r) /\ tok' = SpendTokens(old) /\ UNCHANGED mailed
      /\ \/ user' = [user EXCEPT ![old.user] = [user[old.user] EXCEPT !.verified = TRUE]]
         \/ user' = [user EXCEPT ![old.user] = [user[old.user] EXCEPT !.password = old.pw]]
  BY Zenon, <1>p DEF VerifyEmailTx, ResetPasswordTx
<1>2. \A u \in Users : user[u].exists => user'[u].exists
  <2>0. user \in [Users -> Account]
    BY Zenon DEF IInv, TypeOK
  <2>1. old.user \in Users =>
          /\ [user[old.user] EXCEPT !.verified = TRUE].exists = user[old.user].exists
          /\ [user[old.user] EXCEPT !.password = old.pw].exists = user[old.user].exists
    BY Zenon, <2>0 DEF Account
  <2>. QED
    BY Zenon, <1>1, <2>1, AccountsStay
<1>3. PICK T \in SUBSET Tokens : T = Spent(old)
  BY Zenon DEF Spent
<1>4. tok' = [x \in Tokens |-> IF x \in T THEN [tok[x] EXCEPT !.state = "used"] ELSE tok[x]]
  BY Zenon, <1>1, <1>3 DEF SpendTokens, Spent
<1>5. \A x \in T : \A s \in Requests \ {r} : ~ Has(req[s], x)
  <2>1. \A x \in T : Has(req[r], x)
    BY Zenon, <1>p, <1>3 DEF Spent, Has
  <2>. QED
    BY Zenon, <2>1, TokenAlone
<1>6. /\ \A x \in Tokens : tok'[x].user = tok[x].user /\ tok'[x].kind = tok[x].kind
      /\ \A x \in T : ~ Unspent(x)'
      /\ \A x \in Tokens \ T : Unspent(x)' <=> Unspent(x)
  BY Zenon, <1>4, SpentRows
<1>7. Env(Requests \ {r}) /\ Spends
  BY Zenon, <1>1, <1>2, <1>5, <1>6, SpendEnv
<1>. QED
  BY Zenon, <1>1, <1>7, AnsweredTokens

\* Sessions have no part in what is known of tokens.
LEMMA SessionTokens ==
    ASSUME IInv, TInv, NEW r \in Requests, Answered(r), UNCHANGED <<user, tok>>, RefreshKept,
           mailed \subseteq mailed'
    PROVE  TInv'
<1>1. PICK T \in SUBSET Tokens : T = {}
  BY Zenon
<1>2. /\ \A x \in Tokens : tok'[x].user = tok[x].user /\ tok'[x].kind = tok[x].kind
      /\ \A x \in Tokens \ T : Unspent(x)' <=> Unspent(x)
  BY Zenon DEF Unspent
<1>3. Env(Requests \ {r}) /\ Spends
  BY Zenon, <1>1, <1>2, SpendEnv
<1>. QED
  BY Zenon, <1>3, AnsweredTokens

\* A mail is sent, or its token is withdrawn, which nobody else has locked.
LEMMA MailTokens ==
    ASSUME IInv, TInv, NEW r \in Requests, SendMail(r) \/ InvalidateFailedToken(r)
    PROVE  TInv'
<1>p. PICK old \in Request : old = req[r]
  BY Zenon DEF IInv, TypeOK
<1>0. PcOk(old) /\ tok \in [Tokens -> Token]
  BY Zenon, <1>p DEF IInv, TypeOK, PcInv
<1>1. Answered(r) /\ UNCHANGED <<user, refresh>> /\ mailed \subseteq mailed'
  BY Zenon DEF SendMail, InvalidateFailedToken
<1>2. RefreshKept
  BY Zenon, <1>1 DEF RefreshKept, Unrevoked
<1>3. CASE tok' = tok
  BY Zenon, <1>1, <1>2, <1>3, SessionTokens
<1>4. CASE tok' # tok
  <2>1. /\ old.pc = "drop" /\ Granted(r) /\ old.tok \in Tokens
        /\ tok' = [tok EXCEPT ![old.tok].state = "used"]
    BY Zenon, <1>p, <1>0, <1>4 DEF SendMail, InvalidateFailedToken, At, PcOk
  <2>2. PICK T \in SUBSET Tokens : T = {old.tok}
    BY Zenon, <2>1
  <2>3. tok' = [x \in Tokens |-> IF x \in T THEN [tok[x] EXCEPT !.state = "used"] ELSE tok[x]]
    BY Zenon, <1>0, <2>1, <2>2
  <2>4. ASSUME NEW s \in Requests \ {r}, Has(req[s], old.tok)
        PROVE  FALSE
    <3>1. PICK m \in req[s].held : m.row = old.tok
      BY Zenon, <2>4 DEF Has
    <3>2. m.mode = "N"
      BY Zenon, <2>1, <3>1 DEF TInv, ReqOk, Holder
    <3>3. Want(old) = [row |-> old.tok, mode |-> "N"]
      BY Zenon, <2>1 DEF Want
    <3>4. Want(req[r]).row = m.row /\ Want(req[r]).mode = "N"
      BY <1>p, <3>1, <3>3
    <3>5. ~ Conflict(m.mode, Want(req[r]).mode)
      BY Zenon, <2>1, <3>4, GrantedAgrees
    <3>. QED
      BY Zenon, <3>2, <3>4, <3>5 DEF Conflict
  <2>5. /\ \A x \in Tokens : tok'[x].user = tok[x].user /\ tok'[x].kind = tok[x].kind
        /\ \A x \in T : ~ Unspent(x)'
        /\ \A x \in Tokens \ T : Unspent(x)' <=> Unspent(x)
    BY Zenon, <2>3, SpentRows
  <2>6. Env(Requests \ {r}) /\ Spends
    BY Zenon, <1>1, <1>2, <2>2, <2>4, <2>5, SpendEnv
  <2>. QED
    BY Zenon, <1>1, <2>6, AnsweredTokens
<1>. QED
  BY Zenon, <1>3, <1>4

\* The token t is issued, and those of T are used up.
Issues(t, kind, u, T) ==
    tok' = [x \in Tokens |->
              IF x = t THEN [kind |-> kind, user |-> u, state |-> "unused"]
              ELSE IF x \in T THEN [tok[x] EXCEPT !.state = "used"] ELSE tok[x]]

\* The request goes on by sending t.
Mails(r, t) == Go(r, [Idle EXCEPT !.op = "mail", !.pc = "mail", !.tok = t])

\* No other request has locked a token of T or replaces one of u, who has no other unspent
\* token of the kind.
Alone(r, u, kind, T) ==
    /\ \A x \in T : \A s \in Requests \ {r} : ~ Has(req[s], x)
    /\ \A s \in Requests \ {r} : Replacing(req[s]) => req[s].user # u
    /\ \A x \in Tokens \ T : Unspent(x) /\ tok[x].user = u => tok[x].kind # kind

\* A new token t for the user u, who has no other unspent one of the kind.
LEMMA IssueTokens ==
    ASSUME IInv, TInv, NEW r \in Requests, NEW u \in Users, NEW kind, NEW t \in FreeNames,
           NEW T \in SUBSET Tokens, UNCHANGED refresh, mailed' = mailed \ {t},
           Issues(t, kind, u, T), Mails(r, t),
           \A w \in Users : user[w].exists => user'[w].exists,
           user'[u].exists, Alone(r, u, kind, T)
    PROVE  TInv'
<1>0. tok \in [Tokens -> Token] /\ t \in Tokens /\ ~ Unspent(t)
  BY Zenon DEF IInv, TypeOK, FreeNames, Unspent
<1>1. /\ tok'[t] = [kind |-> kind, user |-> u, state |-> "unused"]
      /\ \A x \in Tokens \ {t} :
           tok'[x] = IF x \in T THEN [tok[x] EXCEPT !.state = "used"] ELSE tok[x]
  BY Zenon, <1>0 DEF Issues
<1>2. tok'[t].kind = kind /\ tok'[t].user = u
  BY <1>1
<1>3. \A x \in Tokens : LET a == [tok[x] EXCEPT !.state = "used"]
                        IN  a.user = tok[x].user /\ a.kind = tok[x].kind /\ a.state = "used"
  BY Zenon, <1>0 DEF Token
<1>4. \A x \in Tokens \ {t} : tok'[x].user = tok[x].user /\ tok'[x].kind = tok[x].kind
  BY Zenon, <1>1, <1>3
<1>5. \A x \in Tokens \ {t} : x \in T => tok'[x].state = "used"
  BY Zenon, <1>1, <1>3
<1>6. \A x \in Tokens \ {t} : Unspent(x)' => Unspent(x) /\ x \notin T
  BY Zenon, <1>1, <1>5 DEF Unspent
<1>7. \A x \in Tokens \ {t} : Unspent(x) /\ x \notin T => Unspent(x)'
  BY Zenon, <1>1 DEF Unspent
<1>8. Env(Requests \ {r})
  <2>1. \A x \in Tokens : x \notin FreeNames =>
         /\ tok'[x].user = tok[x].user /\ tok'[x].kind = tok[x].kind
         /\ x \in mailed => x \in mailed'
    BY Zenon, <1>4
  <2>2. \A x \in Tokens : Unspent(x)' =>
          Unspent(x) \/ \A s \in Requests \ {r} : Replacing(req[s]) => req[s].user # tok'[x].user
    BY Zenon, <1>2, <1>6 DEF Alone
  <2>3. ASSUME NEW s \in Requests \ {r}, NEW l \in req[s].held, l.row \in Tokens
        PROVE  Unspent(l.row)'
    <3>1. Unspent(l.row)
      BY Zenon, <2>3 DEF TInv, ReqOk, Holder
    <3>2. l.row # t /\ l.row \notin T
      BY Zenon, <1>0, <2>3, <3>1 DEF Has, Alone
    <3>. QED
      BY Zenon, <1>7, <2>3, <3>1, <3>2
  <2>4. RefreshKept
    BY Zenon DEF RefreshKept, Unrevoked
  <2>. QED
    BY Zenon, <2>1, <2>2, <2>3, <2>4 DEF Env
<1>9. PICK q : q = [Idle EXCEPT !.op = "mail", !.pc = "mail", !.tok = t]
  BY Zenon
<1>10. q \in Request /\ q.held = {} /\ Plain(q)
  BY Zenon, <1>0, <1>9 DEF Plain, Idle, Request
<1>11. (\A s \in Requests : ReqOk(req[s])') /\ Compatible'
  <2>1. ReqOk(q)'
    BY Zenon, <1>10, PlainRelies
  <2>. QED
    BY Zenon, <1>8, <1>9, <1>10, <2>1, RequestMoves DEF Mails
<1>12. HasAccount'
  <2> SUFFICES ASSUME NEW x \in Tokens, Unspent(x)'
               PROVE  tok'[x].user \in Users /\ user'[tok'[x].user].exists
    BY Zenon DEF HasAccount
  <2>1. CASE x = t
    BY Zenon, <1>2, <2>1
  <2>2. CASE x # t
    BY Zenon, <1>4, <1>6, <2>2 DEF TInv, HasAccount
  <2>. QED
    BY Zenon, <2>1, <2>2
<1>13. OneUnspentToken'
  <2>1. ASSUME NEW x \in Tokens \ {t}, Unspent(x)', tok'[x].user = u, tok'[x].kind = kind
        PROVE  FALSE
    BY Zenon, <1>4, <1>6, <2>1 DEF Alone
  <2> SUFFICES ASSUME NEW x \in Tokens, NEW y \in Tokens, Unspent(x)', Unspent(y)',
                      tok'[x].user = tok'[y].user, tok'[x].kind = tok'[y].kind
               PROVE  x = y
    BY Zenon DEF OneUnspentToken
  <2>2. CASE x # t /\ y # t
    <3>1. Unspent(x) /\ Unspent(y) /\ tok[x].user = tok[y].user /\ tok[x].kind = tok[y].kind
      BY Zenon, <1>4, <1>6, <2>2
    <3>. QED
      BY Zenon, <3>1 DEF TInv, OneUnspentToken
  <2>. QED
    BY Zenon, <1>2, <2>1, <2>2
<1>. QED
  BY Zenon, <1>11, <1>12, <1>13 DEF TInv

\* A new account has no token yet.
LEMMA SignupTokens ==
    ASSUME IInv, TInv, NEW r \in Requests, NEW u \in Users, NEW p \in Passwords,
           NEW t \in Tokens, Signup(r, u, p, t)
    PROVE  TInv'
<1>0. user \in [Users -> Account] /\ tok \in [Tokens -> Token]
  BY Zenon DEF IInv, TypeOK
<1>1. /\ ~ user[u].exists /\ t \in FreeNames /\ UNCHANGED refresh /\ mailed' = mailed \ {t}
      /\ user' = [user EXCEPT ![u] = [NoAccount EXCEPT !.exists = TRUE, !.password = p]]
      /\ tok' = [tok EXCEPT ![t] = [kind |-> "verify", user |-> u, state |-> "unused"]]
      /\ Mails(r, t)
  BY Zenon DEF Signup, SignupTx, Mails
<1>2. PICK T \in SUBSET Tokens : T = {}
  BY Zenon
<1>3. Issues(t, "verify", u, T)
  BY Zenon, <1>0, <1>1, <1>2 DEF Issues
<1>4. [NoAccount EXCEPT !.exists = TRUE, !.password = p].exists = TRUE
  BY Zenon DEF NoAccount
<1>5. user'[u].exists /\ \A w \in Users : user[w].exists => user'[w].exists
  BY Zenon, <1>0, <1>1, <1>4
<1>6. \A s \in Requests : Replacing(req[s]) => req[s].user # u
  BY Zenon, <1>1 DEF Replacing, TInv, ReqOk, Replacer
<1>7. \A x \in Tokens : Unspent(x) => tok[x].user # u
  BY Zenon, <1>1 DEF TInv, HasAccount
<1>8. Alone(r, u, "verify", T)
  BY Zenon, <1>2, <1>6, <1>7 DEF Alone
<1>. QED
  BY Zenon, <1>1, <1>3, <1>5, <1>8, IssueTokens

\* INSERT of the new token: the user is locked, and the old ones are about to be used.
LEMMA ReplaceTokens ==
    ASSUME IInv, TInv, NEW r \in Requests,
           ReplacePasswordResetTokenTx(r) \/ ReplaceEmailVerificationTokenTx(r)
    PROVE  TInv'
<1>p. PICK old \in Request : old = req[r]
  BY Zenon DEF IInv, TypeOK
<1>k. PICK kind : kind = KindOf(old.op)
  BY Zenon
<1>1. PICK t \in Tokens : InsertToken(r, kind, t) /\ old.op \in {"forgot", "resend"}
  BY Zenon, <1>p, <1>k DEF ReplacePasswordResetTokenTx, ReplaceEmailVerificationTokenTx, KindOf
<1>2. /\ old.pc = "commit" /\ t \in FreeNames /\ UNCHANGED <<user, refresh>>
      /\ mailed' = mailed \ {t}
      /\ Mails(r, t)
  BY Zenon, <1>p, <1>1 DEF InsertToken, At, Mails
<1>3. PICK T \in SUBSET Tokens : T = Spent(old)
  BY Zenon DEF Spent
<1>4. Issues(t, kind, old.user, T)
  BY Zenon, <1>p, <1>1, <1>3 DEF InsertToken, Issues
<1>5. \A x \in Tokens : x \in T <=> Has(old, x)
  BY Zenon, <1>3 DEF Spent, Has
<1>6. \A x \in T : \A s \in Requests \ {r} : ~ Has(req[s], x)
  BY Zenon, <1>p, <1>5, TokenAlone
<1>7. Replacer(old) /\ old.todo = {}
  BY Zenon, <1>p, <1>2 DEF TInv, ReqOk, Holder
<1>8. old.user \in Users /\ user[old.user].exists /\ [row |-> old.user, mode |-> "X"] \in old.held
  BY Zenon, <1>1, <1>2, <1>7 DEF Replacer
<1>9. \A x \in Tokens \ T : Unspent(x) /\ tok[x].user = old.user => tok[x].kind # kind
  BY Zenon, <1>1, <1>2, <1>5, <1>7, <1>k DEF Replacer
<1>10. ASSUME NEW s \in Requests \ {r}, Replacing(req[s]), req[s].user = old.user
       PROVE  FALSE
  <2>1. [row |-> old.user, mode |-> "X"] \in req[s].held
    BY Zenon, <1>10 DEF TInv, ReqOk, Replacer, Replacing
  <2>2. ~ Conflict("X", "X")
    BY Zenon, <1>p, <1>8, <2>1 DEF TInv, Compatible
  <2>. QED
    BY Zenon, <2>2 DEF Conflict
<1>11. Alone(r, old.user, kind, T)
  BY Zenon, <1>6, <1>9, <1>10 DEF Alone
<1>. QED
  BY Zenon, <1>2, <1>4, <1>8, <1>11, IssueTokens

----------------------------------------------------------------------------
(* Steps that change sessions *)

\* Rows whose state alone changes belong to whom they did.
LEMMA StateRows ==
    ASSUME IInv, NEW R \in SUBSET RefreshTokens, NEW st \in {"expired", "revoked"},
           \A x \in R : refresh'[x] = [refresh[x] EXCEPT !.state = st],
           \A x \in RefreshTokens \ R : refresh[x].state = "absent" \/ refresh'[x] = refresh[x],
           st = "expired" => \A x \in R : Unrevoked(x)
    PROVE  RefreshKept /\ \A x \in R : refresh'[x].state = st
<1>0. refresh \in [RefreshTokens -> Refresh]
  BY Zenon DEF IInv, TypeOK
<1>1. \A x \in RefreshTokens : LET a == [refresh[x] EXCEPT !.state = st]
                               IN  a.user = refresh[x].user /\ a.state = st
  BY <1>0 DEF Refresh
<1>2. \A x \in R : refresh'[x].user = refresh[x].user /\ refresh'[x].state = st
  BY Zenon, <1>1
<1>3. \A x \in R : refresh'[x].state # "absent" /\ (Unrevoked(x)' => Unrevoked(x))
  BY Zenon, <1>2 DEF Unrevoked
<1>. QED
  BY Zenon, <1>2, <1>3 DEF RefreshKept, Unrevoked

\* Logins and refreshes issue tokens, a refresh revokes one.
LEMMA RotateTokens ==
    ASSUME IInv, TInv, NEW r \in Requests, CreateRefreshToken(r) \/ RotateRefreshToken(r)
    PROVE  TInv'
<1>p. PICK old \in Request : old = req[r]
  BY Zenon DEF IInv, TypeOK
<1>0. refresh \in [RefreshTokens -> Refresh] /\ PcOk(old) /\ LockInv
  BY Zenon, <1>p DEF IInv, TypeOK, PcInv
<1>1. Answered(r) /\ UNCHANGED <<user, tok, mailed>>
  BY Zenon DEF CreateRefreshToken, RotateRefreshToken
<1>2. CASE CreateRefreshToken(r)
  <2>1. PICK R \in SUBSET RefreshTokens : R = {}
    BY Zenon
  <2>2. \A x \in RefreshTokens : refresh[x].state = "absent" \/ refresh'[x] = refresh[x]
    BY Zenon, <1>0, <1>2 DEF CreateRefreshToken
  <2>3. RefreshKept
    BY Zenon, <2>2 DEF RefreshKept, Unrevoked
  <2>. QED
    BY Zenon, <1>1, <2>3, SessionTokens
<1>3. CASE RotateRefreshToken(r)
  <2>1. PICK t \in RefreshTokens :
          /\ refresh[t].state = "absent"
          /\ refresh' = [refresh EXCEPT
               ![old.tok].state = "revoked",
               ![t] = [user |-> old.user, session |-> refresh[old.tok].session,
                       state |-> "live"]]
    BY Zenon, <1>p, <1>3 DEF RotateRefreshToken
  <2>2. old.tok \in RefreshTokens /\ Unrevoked(old.tok)
    BY Zenon, <1>p, <1>0, <1>3 DEF RotateRefreshToken, At, PcOk, LockInv
  <2>3. old.tok # t
    BY Zenon, <2>1, <2>2 DEF Unrevoked
  <2>4. PICK R \in SUBSET RefreshTokens : R = {old.tok}
    BY Zenon, <2>2
  <2>5. \A x \in R : refresh'[x] = [refresh[x] EXCEPT !.state = "revoked"]
    BY Zenon, <1>0, <2>1, <2>2, <2>3, <2>4
  <2>6. \A x \in RefreshTokens \ R : refresh[x].state = "absent" \/ refresh'[x] = refresh[x]
    BY Zenon, <1>0, <2>1, <2>2, <2>3, <2>4
  <2>7. RefreshKept
    BY Zenon, <2>5, <2>6, StateRows
  <2>. QED
    BY Zenon, <1>1, <2>7, SessionTokens
<1>. QED
  BY Zenon, <1>2, <1>3

\* A reset revokes the sessions it has locked.
LEMMA ResetTokens ==
    ASSUME IInv, TInv, NEW r \in Requests, ResetPasswordTx(r)
    PROVE  /\ TInv'
           /\ \A x \in RefreshTokens : Has(req[r], x) => refresh'[x].state = "revoked"
           /\ \A x \in RefreshTokens : ~ Has(req[r], x) => refresh'[x] = refresh[x]
<1>1. PICK R \in SUBSET RefreshTokens : R = {x \in RefreshTokens : Has(req[r], x)}
  BY Zenon
<1>2. refresh' = [x \in RefreshTokens |->
                     IF \E l \in req[r].held : l.row = x
                     THEN [refresh[x] EXCEPT !.state = "revoked"] ELSE refresh[x]]
  BY Zenon DEF ResetPasswordTx
<1>3. /\ \A x \in R : refresh'[x] = [refresh[x] EXCEPT !.state = "revoked"]
      /\ \A x \in RefreshTokens \ R : refresh'[x] = refresh[x]
  BY Zenon, <1>1, <1>2 DEF Has
<1>4. RefreshKept /\ \A x \in R : refresh'[x].state = "revoked"
  BY Zenon, <1>3, StateRows
<1>. QED
  BY Zenon, <1>1, <1>3, <1>4, RedeemTokens

\* No request moves, and rows keep what the promises rest on.
LEMMA StillTokens ==
    ASSUME IInv, TInv, UNCHANGED <<user, mailed, req>>, RefreshKept,
           \A x \in Tokens : tok'[x].user = tok[x].user /\ tok'[x].kind = tok[x].kind,
           \A x \in Tokens : Unspent(x)' <=> Unspent(x)
    PROVE  TInv'
<1>1. PICK T \in SUBSET Tokens : T = {}
  BY Zenon
<1>2. Env(Requests) /\ Spends
  BY Zenon, <1>1, SpendEnv
<1>3. ASSUME NEW s \in Requests
      PROVE  ReqOk(req[s])'
  <2>1. PICK q : q = req[s]
    BY Zenon
  <2>2. ReqOk(q)' /\ req'[s] = q
    BY Zenon, <1>2, <2>1, OthersKept
  <2>. QED
    BY Zenon, <2>2 DEF ReqOk, Replacer, Redeemer, Revoker, Rotator, Holder, Has
<1>4. Compatible'
  BY Zenon DEF TInv, Compatible
<1>5. HasAccount' /\ OneUnspentToken'
  BY Zenon, <1>2, SpendsKeeps
<1>. QED
  BY Zenon, <1>3, <1>4, <1>5 DEF TInv

\* Time, logout and pruning.
LEMMA BackgroundTokens ==
    ASSUME IInv, TInv, Background
    PROVE  TInv'
<1>0. UNCHANGED <<user, mailed, req>>
  BY Zenon DEF Background, RevokeRefreshToken, PruneExpiredTokens, RefreshTokenExpires, TokenExpires
<1>1. ASSUME RefreshKept,
             \A x \in Tokens : tok'[x].user = tok[x].user /\ tok'[x].kind = tok[x].kind,
             \A x \in Tokens : Unspent(x)' <=> Unspent(x)
      PROVE  TInv'
  BY Zenon, <1>0, <1>1, StillTokens
<1>2. ASSUME NEW t \in Tokens, TokenExpires(t)
      PROVE  TInv'
  <2>1. tok \in [Tokens -> Token] /\ tok[t].state = "unused"
    BY Zenon, <1>2 DEF IInv, TypeOK, TokenExpires
  <2>2. PICK a : a = [tok[t] EXCEPT !.state = "expired"]
    BY Zenon
  <2>3. a.user = tok[t].user /\ a.kind = tok[t].kind /\ a.state = "expired"
    BY Zenon, <2>1, <2>2 DEF Token
  <2>4. tok'[t] = a /\ \A x \in Tokens \ {t} : tok'[x] = tok[x]
    BY Zenon, <1>2, <2>1, <2>2 DEF TokenExpires
  <2>5. \A x \in Tokens : tok'[x].user = tok[x].user /\ tok'[x].kind = tok[x].kind
    BY Zenon, <2>3, <2>4
  <2>6. \A x \in Tokens : Unspent(x)' <=> Unspent(x)
    BY Zenon, <2>1, <2>3, <2>4 DEF Unspent
  <2>7. RefreshKept
    BY Zenon, <1>2 DEF TokenExpires, RefreshKept, Unrevoked
  <2>. QED
    BY Zenon, <1>1, <2>5, <2>6, <2>7
<1>3. ASSUME NEW t \in RefreshTokens, NEW st \in {"expired", "revoked"}, UNCHANGED tok,
             refresh' = [refresh EXCEPT ![t].state = st], Unrevoked(t)
      PROVE  TInv'
  <2>1. PICK R \in SUBSET RefreshTokens : R = {t}
    BY Zenon
  <2>2. /\ \A x \in R : refresh'[x] = [refresh[x] EXCEPT !.state = st]
        /\ \A x \in RefreshTokens \ R : refresh'[x] = refresh[x]
    BY Zenon, <1>3, <2>1 DEF IInv, TypeOK
  <2>3. RefreshKept
    BY Zenon, <1>3, <2>1, <2>2, StateRows
  <2>. QED
    BY Zenon, <1>1, <1>3, <2>3 DEF Unspent
<1>4. ASSUME NEW t \in RefreshTokens,
             RevokeRefreshToken(t) \/ PruneExpiredTokens(t) \/ RefreshTokenExpires(t)
      PROVE  TInv'
  BY Zenon, <1>3, <1>4 DEF RevokeRefreshToken, PruneExpiredTokens, RefreshTokenExpires, Unrevoked
<1>. QED
  BY Zenon, <1>2, <1>4 DEF Background

----------------------------------------------------------------------------
(* The theorems about tokens *)

\* Before the first account there are no tokens.
LEMMA InitTokens == Init => TInv
<1> SUFFICES ASSUME Init
             PROVE  TInv
  BY Zenon
<1>1. \A t \in Tokens : ~ Unspent(t)
  BY Zenon DEF Init, Unspent
<1>2. ASSUME NEW r \in Requests
      PROVE  ReqOk(req[r]) /\ req[r].held = {}
  BY Zenon, <1>2, IdleRelies DEF Init
<1>. QED
  BY Zenon, <1>1, <1>2 DEF TInv, Compatible, HasAccount, OneUnspentToken

\* Every step keeps them.
LEMMA NextTokens == IInv /\ TInv /\ [Next]_vars => TInv'
<1> SUFFICES ASSUME IInv, TInv, [Next]_vars
             PROVE  TInv'
  BY Zenon
<1>1. ASSUME NEW r \in Requests, Begin(r)
      PROVE  TInv'
  BY Zenon, <1>1, BeginTokens, SignupTokens
<1>2. ASSUME NEW r \in Requests, Rollback(r)
      PROVE  TInv'
  <2>1. RefreshKept
    BY Zenon, <1>2 DEF Rollback, RefreshKept, Unrevoked
  <2>. QED
    BY Zenon, <1>2, <2>1, SessionTokens DEF Rollback
<1>3. ASSUME NEW r \in Requests, Step(r)
      PROVE  TInv'
  <2>1. CASE VerifyEmailTx(r)
    <3>1. RefreshKept
      BY Zenon, <2>1 DEF VerifyEmailTx, RefreshKept, Unrevoked
    <3>. QED
      BY Zenon, <2>1, <3>1, RedeemTokens
  <2>2. CASE LockUser(r) \/ ClaimToken(r) \/ UpdateUser(r) \/ RevokeOld(r)
    BY Zenon, <2>2, TakeTokens
  <2>3. CASE UpdateTokens(r) \/ SweepRow(r)
    BY Zenon, <2>3, SweepTokens
  <2>4. CASE \/ SendFails(r) \/ UpdateAdminLoginSuccess(r)
             \/ LinkGoogleAccount(r) \/ GoogleSignupTx(r)
    BY Zenon, <2>4, PlainTokens
  <2>5. CASE ReplacePasswordResetTokenTx(r) \/ ReplaceEmailVerificationTokenTx(r)
    BY Zenon, <2>5, ReplaceTokens
  <2>6. CASE SendMail(r) \/ InvalidateFailedToken(r)
    BY Zenon, <2>6, MailTokens
  <2>7. CASE CreateRefreshToken(r) \/ RotateRefreshToken(r)
    BY Zenon, <2>7, RotateTokens
  <2>8. CASE ResetPasswordTx(r)
    BY Zenon, <2>8, ResetTokens
  <2>. QED
    BY Zenon, <1>3, <2>1, <2>2, <2>3, <2>4, <2>5, <2>6, <2>7, <2>8 DEF Step
<1>4. CASE UNCHANGED vars
  <2>1. UNCHANGED <<user, mailed, req>> /\ RefreshKept
    BY Zenon, <1>4 DEF vars, RefreshKept, Unrevoked
  <2>. QED
    BY Zenon, <1>4, <2>1, StillTokens DEF vars, Unspent
<1>. QED
  BY Zenon, <1>1, <1>2, <1>3, <1>4, BackgroundTokens DEF Next, Cancelled, DeadlockVictim

\* They hold in every state.
LEMMA TokenInvariance == Spec => [](IInv /\ TInv)
<1>1. IInv /\ TInv /\ [Next]_vars => IInv' /\ TInv'
  BY Zenon, NextKeeps, NextTokens
<1>. QED
  BY <1>1, InitHolds, InitTokens, PTL DEF Spec

\* However requests for a new token, verifications, resets and signups overlap, a user
\* never has two unspent tokens of a kind: whoever issues one has the user for itself and
\* has locked, and spends, the old ones.
THEOREM TokensUnique == Spec => []OneUnspentToken
<1>1. TInv => OneUnspentToken
  BY Zenon DEF TInv
<1>. QED
  BY <1>1, TokenInvariance, PTL

\* What a commit of verification or reset finds and leaves.
LEMMA RedeemedToken ==
    ASSUME IInv, TInv, NEW r \in Requests, VerifyEmailTx(r) \/ ResetPasswordTx(r)
    PROVE  /\ req[r].tok \in mailed /\ tok[req[r].tok].user = req[r].user
           /\ tok[req[r].tok].kind = KindOf(req[r].op)
           /\ Unspent(req[r].tok) /\ tok'[req[r].tok].state = "used"
<1>p. PICK old \in Request : old = req[r]
  BY Zenon DEF IInv, TypeOK
<1>1. /\ old.op \in {"verify", "reset"} /\ old.pc = "commit" /\ tok' = SpendTokens(old)
  BY Zenon, <1>p DEF VerifyEmailTx, ResetPasswordTx, At
<1>2. ReqOk(old)
  BY Zenon, <1>p DEF TInv
<1>3. /\ old.tok \in mailed /\ tok[old.tok].user = old.user
      /\ tok[old.tok].kind = KindOf(old.op) /\ Has(old, old.tok)
  BY Zenon, <1>1, <1>2 DEF ReqOk, Redeemer
<1>4. old.tok \in Tokens
  BY Zenon, <1>3 DEF IInv, TypeOK
<1>5. Unspent(old.tok)
  BY Zenon, <1>2, <1>3, <1>4 DEF ReqOk, Holder, Has
<1>6. PICK T \in SUBSET Tokens : T = {x \in Tokens : \E l \in old.held : l.row = x}
  BY Zenon
<1>7. tok' = [x \in Tokens |-> IF x \in T THEN [tok[x] EXCEPT !.state = "used"] ELSE tok[x]]
  BY Zenon, <1>1, <1>6 DEF SpendTokens, Spent
<1>8. old.tok \in T
  BY Zenon, <1>3, <1>4, <1>6 DEF Has
<1>9. tok'[old.tok].state = "used"
  BY Zenon, <1>7, <1>8, SpentRows
<1>. QED
  BY Zenon, <1>p, <1>3, <1>5, <1>9

\* What may happen to the row of an existing account.
CredentialsKept(u) ==
    user[u].exists =>
         /\ user'[u].password # user[u].password =>
              \E t \in mailed : /\ tok[t].kind = "reset" /\ tok[t].user = u
                                /\ Unspent(t) /\ tok'[t].state = "used"
         /\ user'[u].verified # user[u].verified =>
              \/ user'[u].google
              \/ \E t \in mailed : /\ tok[t].kind = "verify" /\ tok[t].user = u
                                   /\ Unspent(t) /\ tok'[t].state = "used"

\* Verification and reset change what their token allows, in their own account.
LEMMA RedeemCredentials ==
    ASSUME IInv, TInv, NEW r \in Requests, VerifyEmailTx(r) \/ ResetPasswordTx(r), NEW u \in Users
    PROVE  CredentialsKept(u)
<1>p. PICK old \in Request : old = req[r]
  BY Zenon DEF IInv, TypeOK
<1>0. user \in [Users -> Account]
  BY Zenon DEF IInv, TypeOK
<1>1. /\ old.tok \in mailed /\ tok[old.tok].user = old.user /\ tok[old.tok].kind = KindOf(old.op)
      /\ Unspent(old.tok) /\ tok'[old.tok].state = "used"
  BY Zenon, <1>p, RedeemedToken
<1>2. CASE VerifyEmailTx(r)
  <2>1. old.op = "verify" /\ user' = [user EXCEPT ![old.user].verified = TRUE]
    BY Zenon, <1>p, <1>2 DEF VerifyEmailTx
  <2>2. /\ user'[u].password = user[u].password
        /\ user'[u].verified # user[u].verified => u = old.user
    BY Zenon, <1>0, <2>1 DEF Account
  <2>3. KindOf(old.op) = "verify"
    BY Zenon, <2>1 DEF KindOf
  <2>. QED
    BY Zenon, <1>1, <2>2, <2>3 DEF CredentialsKept
<1>3. CASE ResetPasswordTx(r)
  <2>1. old.op = "reset" /\ user' = [user EXCEPT ![old.user].password = old.pw]
    BY Zenon, <1>p, <1>3 DEF ResetPasswordTx
  <2>2. /\ user'[u].verified = user[u].verified
        /\ user'[u].password # user[u].password => u = old.user
    BY Zenon, <1>0, <2>1 DEF Account
  <2>3. KindOf(old.op) = "reset"
    BY Zenon, <2>1 DEF KindOf
  <2>. QED
    BY Zenon, <1>1, <2>2, <2>3 DEF CredentialsKept
<1>. QED
  BY Zenon, <1>2, <1>3

\* No other step touches an existing account, apart from linking a Google account.
LEMMA NextCredentials ==
    ASSUME IInv, TInv, [Next]_vars, NEW u \in Users
    PROVE  CredentialsKept(u)
<1>0. user \in [Users -> Account]
  BY Zenon DEF IInv, TypeOK
<1>1. ASSUME UNCHANGED user
      PROVE  CredentialsKept(u)
  BY Zenon, <1>1 DEF CredentialsKept
<1>2. ASSUME NEW r \in Requests, Begin(r)
      PROVE  CredentialsKept(u)
  <2>1. ASSUME NEW w \in Users, NEW p \in Passwords, NEW t \in Tokens, Signup(r, w, p, t)
        PROVE  CredentialsKept(u)
    BY Zenon, <1>0, <2>1 DEF Signup, SignupTx, CredentialsKept
  <2>. QED
    BY Zenon, <1>1, <1>2, <2>1 DEF Begin, ForgotPassword, ResendVerification, ResetPassword,
         VerifyEmail, Login, GoogleCallback, RefreshSession
<1>3. ASSUME NEW r \in Requests, GoogleSignupTx(r)
      PROVE  CredentialsKept(u)
  BY Zenon, <1>0, <1>1, <1>3 DEF GoogleSignupTx, CredentialsKept
<1>4. ASSUME NEW r \in Requests, LinkGoogleAccount(r)
      PROVE  CredentialsKept(u)
  <2>1. PICK w : w = req[r].user
    BY Zenon
  <2>2. user' = [user EXCEPT ![w].google = TRUE, ![w].verified = TRUE]
    BY Zenon, <1>4, <2>1 DEF LinkGoogleAccount
  <2>3. /\ user'[u].password = user[u].password
        /\ user'[u].verified # user[u].verified => user'[u].google
    BY Zenon, <1>0, <2>2 DEF Account
  <2>. QED
    BY Zenon, <2>3 DEF CredentialsKept
<1>5. ASSUME NEW r \in Requests, Step(r)
      PROVE  CredentialsKept(u)
  BY Zenon, <1>1, <1>3, <1>4, <1>5, RedeemCredentials
     DEF Step, LockUser, UpdateTokens, SweepRow, ReplacePasswordResetTokenTx,
         ReplaceEmailVerificationTokenTx, InsertToken, SendMail, SendFails,
         InvalidateFailedToken, ClaimToken, UpdateUser, UpdateAdminLoginSuccess, CreateRefreshToken, RevokeOld, RotateRefreshToken
<1>6. CASE Background
  BY Zenon, <1>1, <1>6 DEF Background, RevokeRefreshToken, PruneExpiredTokens,
       RefreshTokenExpires, TokenExpires
<1>7. ASSUME NEW r \in Requests, Rollback(r)
      PROVE  CredentialsKept(u)
  BY Zenon, <1>1, <1>7 DEF Rollback
<1>. QED
  BY Zenon, <1>1, <1>2, <1>5, <1>6, <1>7 DEF Next, Cancelled, DeadlockVictim, vars

\* An account's password changes, or it becomes verified, only with a mailed token of its own
\* that the same transaction spends, or by linking a Google account.
THEOREM CredentialsGuarded == Spec => CredentialsNeedToken
<1>1. IInv /\ TInv /\ [Next]_vars =>
        [\A u \in Users : user[u].exists =>
         /\ user'[u].password # user[u].password =>
              \E t \in mailed : /\ tok[t].kind = "reset" /\ tok[t].user = u
                                /\ Unspent(t) /\ tok'[t].state = "used"
         /\ user'[u].verified # user[u].verified =>
              \/ user'[u].google
              \/ \E t \in mailed : /\ tok[t].kind = "verify" /\ tok[t].user = u
                                   /\ Unspent(t) /\ tok'[t].state = "used"]_vars
  BY Zenon, NextCredentials DEF CredentialsKept
<1>. QED
  BY <1>1, TokenInvariance, PTL DEF Spec, CredentialsNeedToken

\* A reset that commits leaves no session valid that its UPDATE has seen: the ones it locked
\* are revoked with it, and those it passed over were revoked before it got there.
THEOREM ResetRevokes == Spec => ResetEndsSessions
<1>1. ASSUME IInv, TInv, NEW r \in Requests, ResetPasswordTx(r), NEW t \in req[r].seen
      PROVE  refresh'[t].state = "revoked"
  <2>1. /\ req[r].op = "reset" /\ req[r].pc = "commit" /\ ReqOk(req[r])
    BY Zenon, <1>1 DEF ResetPasswordTx, At, TInv
  <2>2. /\ t \in RefreshTokens /\ refresh[t].state # "absent"
        /\ t \in req[r].todo \/ Has(req[r], t) \/ ~ Unrevoked(t)
    BY Zenon, <1>1, <2>1 DEF ReqOk, Revoker
  <2>3. t \notin req[r].todo
    BY Zenon, <2>1 DEF ReqOk, Holder
  <2>4. refresh[t] \in Refresh
    BY Zenon, <1>1, <2>2 DEF IInv, TypeOK
  <2>5. ~ Unrevoked(t) => refresh[t].state = "revoked"
    BY Zenon, <2>2, <2>4 DEF Unrevoked, Refresh
  <2>. QED
    BY Zenon, <1>1, <2>2, <2>3, <2>5, ResetTokens
<1>2. IInv /\ TInv /\ [Next]_vars =>
        [\A r \in Requests : ResetPasswordTx(r) =>
         \A t \in req[r].seen : refresh'[t].state = "revoked"]_vars
  BY Zenon, <1>1
<1>. QED
  BY <1>2, TokenInvariance, PTL DEF Spec, ResetEndsSessions

\* Logins and refreshes are never on a cycle of waiting requests.  Only a refresh that inserts
\* its new token holds a lock, that of the old token; the reset that waits for it holds the
\* user, so the foreign key check of the refresh waits for nobody.
THEOREM SessionsGoOn == Spec => []SessionsNeverDeadlock
<1>1. ASSUME IInv, TInv, NEW r \in Requests, Deadlocked(r),
             req[r].op \notin {"forgot", "resend", "reset", "verify"}
      PROVE  FALSE
  <2>1. PICK D \in SUBSET Requests :
          /\ r \in D
          /\ \A s \in D : /\ \E q \in D : WaitsFor(s, q)
                          /\ \E q \in D : WaitsFor(q, s)
    BY Zenon, <1>1 DEF Deadlocked
  <2>2. PICK p \in D : WaitsFor(p, r)
    BY Zenon, <2>1
  <2>3. PICK s \in D : WaitsFor(r, s)
    BY Zenon, <2>1
  <2>4. PICK a \in Request : a = req[r]
    BY Zenon, <1>1 DEF IInv, TypeOK
  <2>5. PICK b \in Request : b = req[p]
    BY Zenon, <1>1 DEF IInv, TypeOK
  <2>6. ReqOk(a) /\ ReqOk(b) /\ PcOk(b)
    BY Zenon, <1>1, <2>4, <2>5 DEF TInv, IInv, PcInv
  <2>7. PICK l \in a.held : l.row = Want(b).row
    BY Zenon, <2>2, <2>4, <2>5 DEF WaitsFor
  <2>8. a.op = "refresh"
    BY Zenon, <1>1, <2>4, <2>6, <2>7 DEF ReqOk, Rotator, Request
  <2>9. /\ a.pc = "insert" /\ l.row = a.tok /\ a.tok \in RefreshTokens
        /\ refresh[a.tok].user = a.user
    BY Zenon, <2>6, <2>7, <2>8 DEF ReqOk, Rotator
  <2>10. b.held # {}
    BY Zenon, <2>1, <2>5 DEF WaitsFor
  <2>11. b.pc \in {"supersede", "sweep", "commit", "updateUser", "insert"}
    BY Zenon, <2>6, <2>10 DEF PcOk
  <2>12. b.pc = "sweep" /\ b.next = a.tok
    BY <2>7, <2>9, <2>11, NoneAssumption, RowsAssumption DEF Want, Request
  <2>13. b.op = "reset" /\ a.tok \in b.todo
    <3>1. b.next \in b.todo /\ b.todo \subseteq IF b.op = "reset" THEN RefreshTokens ELSE Tokens
      BY Zenon, <2>6, <2>12 DEF PcOk
    <3>. QED
      BY Zenon, <2>9, <2>12, <3>1, TokensAssumption
  <2>14. b.user = a.user
    BY Zenon, <2>6, <2>9, <2>12, <2>13 DEF ReqOk, Revoker
  <2>15. [row |-> b.user, mode |-> "N"] \in b.held /\ \A k \in b.held : k.mode = "N"
    BY Zenon, <2>6, <2>12, <2>13 DEF ReqOk, Redeemer
  <2>16. Want(a) = [row |-> a.user, mode |-> "S"]
    BY Zenon, <2>9 DEF Want
  <2>17. PICK m \in req[s].held : m.row = a.user /\ Conflict(m.mode, "S")
    BY <2>3, <2>4, <2>16 DEF WaitsFor
  <2>18. m.mode = "X"
    BY Zenon, <2>17 DEF Conflict
  <2>19. s # p
    BY Zenon, <2>5, <2>15, <2>18
  <2>20. PICK k \in b.held : k.row = a.user
    BY Zenon, <2>14, <2>15
  <2>21. ~ Conflict(k.mode, m.mode)
    BY Zenon, <1>1, <2>5, <2>17, <2>19, <2>20 DEF TInv, Compatible
  <2>. QED
    BY Zenon, <2>18, <2>21 DEF Conflict
<1>2. IInv /\ TInv => SessionsNeverDeadlock
  BY Zenon, <1>1 DEF SessionsNeverDeadlock
<1>. QED
  BY <1>2, TokenInvariance, PTL

=============================================================================
