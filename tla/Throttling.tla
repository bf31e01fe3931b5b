----------------------------- MODULE Throttling -----------------------------
(***************************************************************************)
(* What the code counts over time.  Before the admin API looks at a        *)
(* password, a login passes the per-IP limiter of the route                *)
(* (src/internal/ratelimit/memory_limiter.go) and the limiter of failures  *)
(* (src/internal/admin/middleware/rate_limit.go), and the account may be   *)
(* locked (src/internal/admin/handler/auth_handler.go); each is checked in *)
(* one step and updated in a later one.  The gateway limits requests with  *)
(* a sliding window in Redis and falls back to one in memory.              *)
(*                                                                         *)
(* Time is discrete, and a timestamp is modelled by its age, so that time  *)
(* goes on without a bound: what is past every window is not told apart.   *)
(***************************************************************************)
EXTENDS Naturals, Sequences, FiniteSets

CONSTANTS
    Requests,           \* logins handled at the same time
    Window,             \* length of the sliding windows: one minute
    LoginRPM,           \* logins per window and IP
    FailureLimit,       \* failures per window and IP
    MaxLoginFailures,   \* failures until an account is locked
    LockoutDuration,
    GatewayLimit,       \* requests per window of a client of the gateway
    MaxFaults           \* bound on failing statements and on restarts of the admin API

ASSUME PositiveAssumption ==
    {Window, LoginRPM, FailureLimit, MaxLoginFailures, LockoutDuration, GatewayLimit}
      \subseteq Nat \ {0}
ASSUME MaxFaultsAssumption == MaxFaults \in Nat \ {0}
ASSUME RequestsAssumption == IsFiniteSet(Requests) /\ Requests # {}

VARIABLES
    part,       \* the process looked at: "admin" or "gateway"
    logins,     \* MemoryLimiter of the login route: ages of the requests let through
    failures,   \* LoginRateLimiter: ages of failures of the IP
    account,    \* failed_login_attempts, and what is left until locked_until
    req,        \* logins in progress
    redis,      \* sorted set of a client in Redis
    fallback,   \* MemoryLimiter behind it
    faults,
    admitted,   \* history: ages of the logins let through
    guesses,    \* history: wrong passwords since the account was locked or logged into
    served      \* history: ages of the requests the gateway let through

vars == <<part, logins, failures, account, req, redis, fallback, faults, admitted, guesses, served>>

Idle == [pc |-> "idle", failed |-> 0]

Init ==
    /\ part \in {"admin", "gateway"}
    /\ logins = <<>> /\ failures = <<>> /\ redis = <<>> /\ fallback = <<>>
    /\ account = [failed |-> 0, lock |-> 0]
    /\ req = [r \in Requests |-> Idle]
    /\ faults = 0
    /\ admitted = <<>> /\ guesses = 0 /\ served = <<>>

\* Ages stop at Window + 1, past every window.
Older(s) == [i \in DOMAIN s |-> IF s[i] > Window THEN s[i] ELSE s[i] + 1]

\* Timestamps are kept in order.  The first entry that is at most n old, or the end.
First(s, n) ==
    CHOOSE i \in 1 .. Len(s) + 1 : /\ i <= Len(s) => s[i] <= n
                                   /\ \A j \in 1 .. i - 1 : s[j] > n

\* The entries from there on.
Since(s, n) == SubSeq(s, First(s, n), Len(s))

\* A tick of the clock.  Histories forget what no window reaches.
Tick ==
    /\ logins' = Older(logins) /\ failures' = Older(failures)
    /\ redis' = Older(redis) /\ fallback' = Older(fallback)
    /\ account' = [account EXCEPT !.lock = IF @ = 0 THEN 0 ELSE @ - 1]
    /\ admitted' = Since(Older(admitted), Window)
    /\ served' = Since(Older(served), Window)
    /\ UNCHANGED <<part, req, faults, guesses>>

Fault == faults < MaxFaults /\ faults' = faults + 1

----------------------------------------------------------------------------
(* The sliding windows *)

\* Mutant: a timestamp exactly one window old is dropped.
Trim_Early(s) == Since(s, Window - 1)

\* trim: what is before the cutoff goes, what is at the cutoff stays.
Trim(s) == Since(s, Window)

\* MemoryLimiter.CheckAndConsume: a request that is refused is not recorded.
Room(s, limit) == Len(Trim(s)) < limit

Consume(s, limit) == IF Room(s, limit) THEN Append(Trim(s), 0) ELSE Trim(s)

\* compact: what is at the cutoff goes as well.
Compact(s) == SelectSeq(s, LAMBDA a : a < Window)

\* ZREMRANGEBYSCORE up to the cutoff, included: the sorted set is ordered by timestamp.
ScriptTrim(s) == Since(s, Window - 1)

ScriptRoom(s, limit) == Len(ScriptTrim(s)) < limit

Script(s, limit) == IF ScriptRoom(s, limit) THEN Append(ScriptTrim(s), 0) ELSE ScriptTrim(s)

----------------------------------------------------------------------------
(* AuthHandler.Login *)

Go(r, pc) == req' = [req EXCEPT ![r] = [@ EXCEPT !.pc = pc]]

Gateway == <<part, redis, fallback, served>>

\* IPRateLimit
Arrive(r) ==
    /\ part = "admin" /\ req[r].pc = "idle"
    /\ logins' = Consume(logins, LoginRPM)
    /\ IF Room(logins, LoginRPM) THEN Go(r, "check") /\ admitted' = Append(admitted, 0)
       ELSE UNCHANGED <<req, admitted>>
    /\ UNCHANGED <<failures, account, faults, guesses, Gateway>>

TooManyFailures(s) == Len(Compact(s)) >= FailureLimit

CheckFailures(r) ==
    /\ req[r].pc = "check"
    /\ failures' = Compact(failures)
    /\ Go(r, IF TooManyFailures(failures) THEN "idle" ELSE "find")
    /\ UNCHANGED <<logins, account, faults, admitted, guesses, Gateway>>

\* Mutant: a locked account is not refused before its password is looked at.
Locked_Ignored == FALSE

Locked == account.lock > 0

\* The account is read, and the password compared with what was read.  A name that is
\* unknown or has no password is a failure of the IP only; the right password of an
\* account whose email is not verified changes nothing.
Find(r) ==
    /\ req[r].pc = "find"
    /\ \/ Go(r, "unknown") /\ UNCHANGED guesses
       \/ Locked /\ Go(r, "idle") /\ UNCHANGED guesses
       \/ /\ ~Locked
          /\ \/ /\ req' = [req EXCEPT ![r] = [pc |-> "wrong", failed |-> account.failed]]
                /\ guesses' = guesses + 1
             \/ Go(r, "right") /\ UNCHANGED guesses
             \/ Go(r, "idle") /\ UNCHANGED guesses
    /\ UNCHANGED <<logins, failures, account, faults, admitted, Gateway>>

\* Counts on the row, not from what was read; an error is ignored.  From
\* MaxLoginFailures on, counts are not told apart.
IncrementAdminLoginFailure(r) ==
    /\ req[r].pc = "wrong"
    /\ \/ /\ account' = [account EXCEPT !.failed = IF @ < MaxLoginFailures THEN @ + 1 ELSE @]
          /\ UNCHANGED faults
       \/ Fault /\ UNCHANGED account
    /\ Go(r, "record")
    /\ UNCHANGED <<logins, failures, admitted, guesses, Gateway>>

\* Mutant: the account is locked one failure later.
MustLock_OffByOne(failed) == failed >= MaxLoginFailures

MustLock(failed) == failed + 1 >= MaxLoginFailures

RecordFailure(r) ==
    /\ req[r].pc \in {"unknown", "record"}
    /\ failures' = Append(Compact(failures), 0)
    /\ IF req[r].pc = "record" /\ MustLock(req[r].failed) THEN Go(r, "lock")
       ELSE req' = [req EXCEPT ![r] = Idle]
    /\ UNCHANGED <<logins, account, faults, admitted, guesses, Gateway>>

LockedFor == LockoutDuration

\* Locks an account that another login has just locked once more; an error is ignored.
LockAdminUser(r) ==
    /\ req[r].pc = "lock"
    /\ \/ /\ account' = [account EXCEPT !.lock = LockedFor]
          /\ guesses' = 0
          /\ UNCHANGED faults
       \/ Fault /\ UNCHANGED <<account, guesses>>
    /\ req' = [req EXCEPT ![r] = Idle]
    /\ UNCHANGED <<logins, failures, admitted, Gateway>>

Reset(r) ==
    /\ req[r].pc = "right"
    /\ failures' = <<>>
    /\ Go(r, "success")
    /\ UNCHANGED <<logins, account, faults, admitted, guesses, Gateway>>

\* Unlocks the account too; the tokens that follow are in AdminAuth.
UpdateAdminLoginSuccess(r) ==
    /\ req[r].pc = "success"
    /\ \/ /\ account' = [failed |-> 0, lock |-> 0]
          /\ guesses' = 0
          /\ UNCHANGED faults
       \/ Fault /\ UNCHANGED <<account, guesses>>
    /\ req' = [req EXCEPT ![r] = Idle]
    /\ UNCHANGED <<logins, failures, admitted, Gateway>>

\* A password reset unlocks the account as well; AdminAuth has the rest of it.
ResetPasswordTx ==
    /\ part = "admin"
    /\ account' = [failed |-> 0, lock |-> 0]
    /\ guesses' = 0
    /\ UNCHANGED <<logins, failures, req, faults, admitted, Gateway>>

\* The limiter's goroutine.
Cleanup ==
    /\ part = "admin"
    /\ logins' = Trim(logins)
    /\ UNCHANGED <<failures, account, req, faults, admitted, guesses, Gateway>>

\* The admin process starts again: limiters and requests are gone, the row is not.
Restart ==
    /\ part = "admin"
    /\ Fault
    /\ logins' = <<>> /\ failures' = <<>> /\ admitted' = <<>>
    /\ req' = [r \in Requests |-> Idle]
    /\ UNCHANGED <<account, guesses, Gateway>>

----------------------------------------------------------------------------
(* RedisLimiter.CheckAndConsume *)

Admin == <<part, logins, failures, account, req, admitted, guesses>>

RedisAnswers ==
    /\ part = "gateway"
    /\ redis' = Script(redis, GatewayLimit)
    /\ served' = IF ScriptRoom(redis, GatewayLimit) THEN Append(served, 0) ELSE served
    /\ UNCHANGED <<fallback, faults, Admin>>

\* Mutant: without Redis a request is let through.
FallbackRoom_Open == TRUE

FallbackRoom == Room(fallback, GatewayLimit)

\* No answer in time: the script may have run all the same.  This may go on for ever.
RedisFails ==
    /\ part = "gateway"
    /\ faults' = IF faults < MaxFaults THEN faults + 1 ELSE faults
    /\ redis' \in {redis, Script(redis, GatewayLimit)}
    /\ fallback' = Consume(fallback, GatewayLimit)
    /\ served' = IF FallbackRoom THEN Append(served, 0) ELSE served
    /\ UNCHANGED Admin

----------------------------------------------------------------------------

Login(r) ==
    \/ Arrive(r) \/ CheckFailures(r) \/ Find(r) \/ IncrementAdminLoginFailure(r)
    \/ RecordFailure(r) \/ LockAdminUser(r) \/ Reset(r) \/ UpdateAdminLoginSuccess(r)

Next ==
    \/ Tick \/ ResetPasswordTx \/ Cleanup \/ Restart \/ RedisAnswers \/ RedisFails
    \/ \E r \in Requests : Login(r)

Spec == Init /\ [][Next]_vars

\* Time passes; nothing is assumed of requests.
FairSpec == Spec /\ WF_vars(Tick)

----------------------------------------------------------------------------
(* Properties *)

Ages == 0 .. Window + 1

TypeOK ==
    /\ part \in {"admin", "gateway"}
    /\ {logins, failures, redis, fallback, admitted, served} \subseteq Seq(Ages)
    /\ account \in [failed : 0 .. MaxLoginFailures, lock : 0 .. LockoutDuration]
    /\ req \in [Requests -> [pc : {"idle", "check", "find", "unknown", "wrong", "record", "lock",
                                   "right", "success"},
                             failed : 0 .. MaxLoginFailures]]
    /\ faults \in 0 .. MaxFaults /\ guesses \in Nat

Within(s, n) == Cardinality({i \in DOMAIN s : s[i] <= n})

\* MemoryLimiter.CheckAndConsume with the cleanup goroutine: in no window, both of its
\* ends included, are more logins let through than the limit.
LoginsBounded == Within(admitted, Window) <= LoginRPM

\* Login compares what it read before IncrementAdminLoginFailure: logins under way at the
\* same time overshoot maxLoginFailures, but by no more than what is under way when the
\* count gets there and again when the lock is written; a restart, or a statement whose
\* error is ignored, loses what is under way at most.
GuessesBounded ==
    LET n == Cardinality(Requests) IN guesses <= MaxLoginFailures + 2 * (n - 1) + n * faults

\* A request that is refused is not recorded, by the script and by both limiters in
\* memory, and Login looks at LockedUntil before the password: a client that goes on
\* asking is let through again, and an account does not stay locked.
RefusalsEnd ==
    /\ []<>(account.lock = 0)
    /\ []<>Room(logins, LoginRPM) /\ []<>~TooManyFailures(failures)
    /\ []<>ScriptRoom(redis, GatewayLimit) /\ []<>Room(fallback, GatewayLimit)

\* RedisLimiter: one window's limit holds while Redis answers; with answers missing, the
\* fallback adds at most its own limit, whether or not the script has run.
ServedBounded == Within(served, Window - 1) <= IF faults = 0 THEN GatewayLimit ELSE 2 * GatewayLimit

=============================================================================
