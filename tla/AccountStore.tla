---------------------------- MODULE AccountStore ----------------------------
(***************************************************************************)
(* ERServer/persist/AccountStore: registration, login with its per-address *)
(* rate limit and per-account lockout, and the session tokens.  Every call *)
(* runs on the host loop's thread, so calls do not overlap; what can       *)
(* happen inside one is that any of its statements fails, which leaves the *)
(* statements before it done, and that Commit reports a failure though the *)
(* transaction went through.                                               *)
(*                                                                         *)
(* A password is right, wrong or malformed; a row's hash is the PBKDF2     *)
(* cost it was made with.  Tokens are numbered in the order of their       *)
(* creation (RandomBytes never repeats one).  Times are host seconds.      *)
(***************************************************************************)
EXTENDS Naturals, FiniteSets

CONSTANTS Usernames,
          Ips,
          Costs,              \* PBKDF2 costs a restart may configure
          maxLoginFailures, lockoutSeconds, sessionTtlSeconds,
          IP_WINDOW_SECONDS, IP_WINDOW_MAX_ATTEMPTS,
          MAX_UNIX,           \* bound on the clock
          MAX_TOKENS          \* bound on the tokens made

VARIABLES Accounts,       \* the table: [subset of Usernames -> row]
          Wallets,        \* the accounts that have a wallet row
          Sessions,       \* the table: set of rows
          m_ipWindows,    \* [Ips -> [start, count]]
          pbkdf2Iterations, \* the configured cost
          nowUnix,
          tokensMade,
          guesses,        \* history, per username since its last good password:
                          \* wrong passwords compared (and counted by the UPDATE),
                          \* and when the first of them was
          passed          \* history: [Ips -> set of << time, n >> let through]

accountVars == << Accounts, Wallets, Sessions, m_ipWindows, pbkdf2Iterations, nowUnix,
                  tokensMade, guesses, passed >>

NoGuess == [made |-> 0, since |-> 0]

Init ==
    /\ Accounts = << >> /\ Wallets = {} /\ Sessions = {}
    /\ m_ipWindows = [ip \in Ips |-> [start |-> 0, count |-> 0]]
    /\ pbkdf2Iterations = CHOOSE c \in Costs : TRUE
    /\ nowUnix = IP_WINDOW_SECONDS /\ tokensMade = 0
    /\ guesses = [u \in Usernames |-> NoGuess]
    /\ passed = [ip \in Ips |-> {}]

\* What may fail in a call: getting a connection or the first SELECT, the UPDATE
\* of the account row, the transaction (any statement of it: it is rolled back);
\* "ambiguous" is a Commit that goes through and reports an error.
Faults == {"none", "read", "update", "transaction", "ambiguous"}

HashPassword(cost) == cost

-----------------------------------------------------------------------------
\* AuthResult Register(username, password, ...): a new name's account row and
\* wallet row are one transaction.  A taken name violates the unique index and
\* is rolled back, as is every failure: those calls change nothing.
Register(u, fault) ==
    /\ u \notin DOMAIN Accounts
    /\ fault \in {"none", "ambiguous"}
    /\ Accounts' = [v \in DOMAIN Accounts \cup {u} |->
                      IF v = u THEN [failures |-> 0, lockedUntil |-> 0, status |-> 0,
                                     hash |-> HashPassword(pbkdf2Iterations),
                                     Pbkdf2Iterations |-> pbkdf2Iterations]
                      ELSE Accounts[v]]
    /\ Wallets' = Wallets \cup {u}
    /\ UNCHANGED << Sessions, m_ipWindows, pbkdf2Iterations, nowUnix, tokensMade, guesses, passed >>

-----------------------------------------------------------------------------
\* bool CheckIpRateLimit(ip, now): the window after this attempt (the count,
\* of which only an excess matters, stops one past the limit).
CheckIpRateLimit(ip) ==
    IF nowUnix - m_ipWindows[ip].start >= IP_WINDOW_SECONDS
    THEN [start |-> nowUnix, count |-> 1]
    ELSE [m_ipWindows[ip] EXCEPT !.count = IF @ > IP_WINDOW_MAX_ATTEMPTS THEN @ ELSE @ + 1]

\* Every login with well-formed input is counted; it goes on when the window
\* has room.
RateLimited(ip) == CheckIpRateLimit(ip).count > IP_WINDOW_MAX_ATTEMPTS
CountAttempt(ip) ==
    /\ m_ipWindows' = [m_ipWindows EXCEPT ![ip] = CheckIpRateLimit(ip)]
    /\ passed' = IF RateLimited(ip) THEN passed
                 ELSE [passed EXCEPT ![ip] = @ \cup {<< nowUnix, Cardinality(@) >>}]

Locked(u) == Accounts[u].lockedUntil # 0 /\ Accounts[u].lockedUntil > nowUnix

\* A login goes on to compare the password unless it is over the limit, there
\* is no database, no such user, or the account is banned or locked.
Compares(u, ip, fault) ==
    /\ ~RateLimited(ip)
    /\ fault # "read"
    /\ u \in DOMAIN Accounts
    /\ Accounts[u].status = 0
    /\ ~Locked(u)

LoginRefused(u, ip, fault) ==
    /\ ~Compares(u, ip, fault)
    /\ CountAttempt(ip)
    /\ UNCHANGED << Accounts, Wallets, Sessions, pbkdf2Iterations, nowUnix, tokensMade, guesses >>

\* The candidate is hashed with the cost stored in the row.
Verify(u, right) == right /\ HashPassword(Accounts[u].Pbkdf2Iterations) = Accounts[u].hash

\* Mutant: the lock starts the count over.
FailureAtThresholdResets(row) ==
    IF row.failures + 1 >= maxLoginFailures
    THEN [row EXCEPT !.failures = 0, !.lockedUntil = nowUnix + lockoutSeconds]
    ELSE [row EXCEPT !.failures = @ + 1]

\* The UPDATE of a wrong password.  Failures are not reset when a lock runs out.
CountFailure(row) ==
    [row EXCEPT !.failures = @ + 1,
                !.lockedUntil = IF row.failures + 1 >= maxLoginFailures
                                THEN nowUnix + lockoutSeconds ELSE @]

\* The password does not match.  Whether the UPDATE works is not looked at.
LoginWrong(u, ip, right, fault) ==
    /\ Compares(u, ip, fault)
    /\ ~Verify(u, right)
    /\ CountAttempt(ip)
    /\ Accounts' = IF fault = "update" THEN Accounts
                   ELSE [Accounts EXCEPT ![u] = CountFailure(@)]
    /\ guesses' = IF fault = "update" THEN guesses
                  ELSE [guesses EXCEPT ![u] = [made  |-> @.made + 1,
                                               since |-> IF @.made = 0 THEN nowUnix ELSE @.since]]
    /\ UNCHANGED << Wallets, Sessions, pbkdf2Iterations, nowUnix, tokensMade >>

\* Every unrevoked session of the account is revoked.
RevokePrior(u) ==
    { IF s.account = u THEN [s EXCEPT !.revoked = TRUE] ELSE s : s \in Sessions }

\* It matches: failures and lock are reset (unless that UPDATE fails, which is
\* not looked at), then the old sessions are revoked and the new one inserted
\* in one transaction.
LoginRight(u, ip, right, fault) ==
    /\ Compares(u, ip, fault)
    /\ Verify(u, right)
    /\ CountAttempt(ip)
    /\ Accounts' = IF fault = "update" THEN Accounts
                   ELSE [Accounts EXCEPT ![u].failures = 0, ![u].lockedUntil = 0]
    /\ guesses' = [guesses EXCEPT ![u] = NoGuess]
    /\ IF fault = "transaction"
       THEN UNCHANGED << Sessions, tokensMade >>
       ELSE /\ tokensMade < MAX_TOKENS
            /\ tokensMade' = tokensMade + 1
            /\ Sessions' = RevokePrior(u) \cup
                 {[account |-> u, token |-> tokensMade', revoked |-> FALSE,
                   expiresAt |-> nowUnix + sessionTtlSeconds]}
    /\ UNCHANGED << Wallets, pbkdf2Iterations, nowUnix >>

Login(u, ip, right, fault) ==
    LoginRefused(u, ip, fault) \/ LoginWrong(u, ip, right, fault) \/ LoginRight(u, ip, right, fault)

-----------------------------------------------------------------------------
\* std::optional<SessionInfo> ValidateToken(token): the rows it finds.
ValidateToken(token) ==
    { s \in Sessions : s.token = token /\ ~s.revoked /\ s.expiresAt > nowUnix }

\* bool RevokeToken(token).
RevokeToken(token) ==
    /\ \E s \in Sessions : s.token = token /\ ~s.revoked
    /\ Sessions' = { IF s.token = token THEN [s EXCEPT !.revoked = TRUE] ELSE s : s \in Sessions }
    /\ UNCHANGED << Accounts, Wallets, m_ipWindows, pbkdf2Iterations, nowUnix, tokensMade, guesses, passed >>

\* An operator suspends an account in the database.
Suspend(u) ==
    /\ u \in DOMAIN Accounts /\ Accounts[u].status = 0
    /\ Accounts' = [Accounts EXCEPT ![u].status = 2]
    /\ UNCHANGED << Wallets, Sessions, m_ipWindows, pbkdf2Iterations, nowUnix, tokensMade, guesses, passed >>

\* The server restarts, possibly configured with another cost: the windows of
\* the limiter are forgotten, the tables are not.
Restart(cost) ==
    /\ pbkdf2Iterations' = cost /\ cost # pbkdf2Iterations
    /\ m_ipWindows' = [ip \in Ips |-> [start |-> 0, count |-> 0]]
    /\ passed' = [ip \in Ips |-> {}]
    /\ UNCHANGED << Accounts, Wallets, Sessions, nowUnix, tokensMade, guesses >>

ClockTicks ==
    /\ nowUnix < MAX_UNIX
    /\ nowUnix' = nowUnix + 1
    /\ UNCHANGED << Accounts, Wallets, Sessions, m_ipWindows, pbkdf2Iterations, tokensMade, guesses, passed >>

Next ==
    \/ \E u \in Usernames, fault \in Faults : Register(u, fault)
    \/ \E u \in Usernames, ip \in Ips, right \in BOOLEAN, fault \in Faults : Login(u, ip, right, fault)
    \/ \E token \in 1 .. tokensMade : RevokeToken(token)
    \/ \E u \in Usernames : Suspend(u)
    \/ \E cost \in Costs : Restart(cost)
    \/ ClockTicks

-----------------------------------------------------------------------------
(* A player has one live session however logins, failures of any of their  *)
(* statements and revocations follow one another, and it is the newest:    *)
(* once a newer token of the account exists an older one never validates   *)
(* again (AccountStore.cpp Login: revoke and insert in one transaction).   *)
OnlyNewestValidates ==
    \A s \in Sessions :
        ValidateToken(s.token) # {} =>
            \A t \in Sessions : t.account = s.account => t.token <= s.token

(* Every account has the wallet row that EconomyStore's write-through      *)
(* updates, whatever statement of Register failed.                         *)
AccountHasWallet == DOMAIN Accounts = Wallets

(* How many passwords can be tried against an account: maxLoginFailures,   *)
(* and one more for every lockout period that has passed since the first   *)
(* of them, whatever addresses they come from (a wrong password whose      *)
(* UPDATE the database refused is not counted).                            *)
GuessesBounded ==
    \A u \in Usernames :
        LET g == guesses[u]
        IN  g.made <= maxLoginFailures + ((nowUnix - g.since) \div lockoutSeconds)

(* The fixed window lets at most two windows' worth of attempts of an      *)
(* address through in any IP_WINDOW_SECONDS consecutive seconds.           *)
RateBounded ==
    \A ip \in Ips : \A t \in 0 .. nowUnix :
        Cardinality({ p \in passed[ip] : p[1] \in t .. t + IP_WINDOW_SECONDS - 1 })
            <= 2 * IP_WINDOW_MAX_ATTEMPTS

(* Raising the configured PBKDF2 cost locks nobody out: the right password *)
(* of every account keeps matching (the cost is stored with the hash).     *)
PasswordKeepsWorking == \A u \in DOMAIN Accounts : Verify(u, TRUE)

(* Through failing statements, commits reported as failed, restarts and    *)
(* the passing of time: one live session per account, no account without a *)
(* wallet, bounded guesses and attempts, and no password that stops        *)
(* working (Register, Login, ValidateToken).                               *)
AccountsInv ==
    OnlyNewestValidates /\ AccountHasWallet /\ GuessesBounded /\ RateBounded /\ PasswordKeepsWorking
=============================================================================
