-------------------------- MODULE DashboardAccess --------------------------
(***************************************************************************)
(* Who gets through to the dashboard of src/src/dashboard/server.js: the   *)
(* login page, the PIN and the middleware before every other /api route    *)
(* share one table of failed attempts per address, and the middleware      *)
(* counts the requests of an address per minute.                           *)
(***************************************************************************)
EXTENDS Integers

CONSTANTS Ip,           \* client addresses
          Local,        \* those that are the server's own
          MaxFailures,  \* AUTH_MAX_ATTEMPTS
          RateLimit     \* RATE_LIMIT

ASSUME AccessAssumption == Local \subseteq Ip /\ {MaxFailures, RateLimit} \subseteq Nat \ {0}

VARIABLES attempts,     \* authAttempts: failed attempts, 0 when there is no entry
          lock,         \* lockedUntil: "none", "ahead" or "past"
          window,       \* rateLimit: requests counted in the minute, 0 when over
          cookie,       \* what each browser holds: "none", "live" or "dead"
          tokenOld,     \* the generated token is past tokenExpiry
          ownToken,     \* config.dashboard.authToken is set
          wrong,        \* wrong tries since the last right one, or the last lock's end
          served        \* requests let through in the current minute

accessVars == <<attempts, lock, window, cookie, tokenOld, ownToken, wrong, served>>

AccessTypeOK ==
  /\ attempts \in [Ip -> Nat] /\ wrong \in [Ip -> Nat]
  /\ lock \in [Ip -> {"none", "ahead", "past"}]
  /\ window \in [Ip -> Nat] /\ served \in [Ip -> Nat]
  /\ cookie \in [Ip -> {"none", "live", "dead"}]
  /\ {tokenOld, ownToken} \subseteq BOOLEAN

Zero == [ip \in Ip |-> 0]

AccessInit ==
  /\ attempts = Zero /\ window = Zero /\ wrong = Zero /\ served = Zero
  /\ lock = [ip \in Ip |-> "none"] /\ cookie = [ip \in Ip |-> "none"]
  /\ tokenOld = FALSE /\ ownToken \in BOOLEAN

LockedOut(ip) == lock[ip] = "ahead"

\* authAttempts.delete(ip), after a right answer.
Forgiven(ip) ==
  /\ attempts' = [attempts EXCEPT ![ip] = 0] /\ wrong' = [wrong EXCEPT ![ip] = 0]
  /\ lock' = [lock EXCEPT ![ip] = "none"]

\* A wrong answer is counted, and locks at the limit; what the count is beyond
\* the limit makes no difference.
Counted(ip) ==
  /\ attempts' = [attempts EXCEPT ![ip] = IF @ < MaxFailures THEN @ + 1 ELSE @]
  /\ lock' = [lock EXCEPT ![ip] = IF attempts[ip] + 1 >= MaxFailures THEN "ahead" ELSE @]
  /\ wrong' = [wrong EXCEPT ![ip] = @ + 1]

\* POST /api/auth/login, which issues the session cookie.
Login(ip, right) ==
  /\ ~LockedOut(ip)
  /\ IF right THEN Forgiven(ip) /\ cookie' = [cookie EXCEPT ![ip] = "live"]
              ELSE Counted(ip) /\ cookie' = cookie
  /\ UNCHANGED <<window, tokenOld, ownToken, served>>

Logout(ip) ==
  /\ cookie[ip] # "none" /\ cookie' = [cookie EXCEPT ![ip] = "none"]
  /\ UNCHANGED <<attempts, lock, window, tokenOld, ownToken, wrong, served>>

\* POST /api/auth/verify-pin
VerifyPin(ip, right) ==
  /\ ~LockedOut(ip)
  /\ IF right THEN Forgiven(ip) ELSE Counted(ip)
  /\ UNCHANGED <<window, cookie, tokenOld, ownToken, served>>

\* resolveDashboardAuth: a live cookie, else the api token as a bearer, else
\* the session token in a browser's link.  The session token as a machine's
\* credential is refused.
Credential == {"api", "link", "session", "nothing"}
Resolved(ip, shown) == IF cookie[ip] = "live" THEN "cookie"
                       ELSE IF shown \in {"api", "link"} THEN shown ELSE "refused"

\* The requests of an address are counted once it is known to be allowed.
RateChecked(ip) ==
  IF window[ip] \in 1..RateLimit
  THEN /\ window' = [window EXCEPT ![ip] = @ + 1]
       /\ served' = [served EXCEPT ![ip] = IF window[ip] < RateLimit THEN @ + 1 ELSE @]
  ELSE IF window[ip] = 0
  THEN window' = [window EXCEPT ![ip] = 1] /\ served' = [served EXCEPT ![ip] = @ + 1]
  ELSE UNCHANGED <<window, served>>

\* The middleware.  The server's own addresses are neither counted nor locked,
\* and the generated token does not age for them.
Request(ip, shown) ==
  LET via == Resolved(ip, shown)
      aged == via # "cookie" /\ ip \notin Local /\ ~ownToken /\ tokenOld
  IN  /\ ip \in Local \/ ~LockedOut(ip)
      /\ cookie' = [cookie EXCEPT ![ip] = IF @ = "dead" THEN "none" ELSE @]
      /\ CASE via = "refused" ->
                /\ IF ip \in Local THEN UNCHANGED <<attempts, lock, wrong>> ELSE Counted(ip)
                /\ UNCHANGED <<window, served>>
           [] via # "refused" /\ aged -> UNCHANGED <<attempts, lock, wrong, window, served>>
           [] OTHER -> Forgiven(ip) /\ RateChecked(ip)
      /\ UNCHANGED <<tokenOld, ownToken>>

\* Two minutes of lock, one minute of counting, a day of cookie and token run out.
LockEnds(ip) ==
  /\ lock[ip] = "ahead" /\ lock' = [lock EXCEPT ![ip] = "past"]
  /\ wrong' = [wrong EXCEPT ![ip] = 0]
  /\ UNCHANGED <<attempts, window, cookie, tokenOld, ownToken, served>>
MinuteEnds(ip) ==
  /\ window[ip] > 0
  /\ window' = [window EXCEPT ![ip] = 0] /\ served' = [served EXCEPT ![ip] = 0]
  /\ UNCHANGED <<attempts, lock, cookie, tokenOld, ownToken, wrong>>
DayEnds ==
  /\ tokenOld' = TRUE
  /\ cookie' = [ip \in Ip |-> IF cookie[ip] = "live" THEN "dead" ELSE cookie[ip]]
  /\ UNCHANGED <<attempts, lock, window, ownToken, wrong, served>>

\* The clean-up timer drops the locks that have run out.
Cleanup ==
  /\ \E ip \in Ip : lock[ip] = "past"
  /\ attempts' = [ip \in Ip |-> IF lock[ip] = "past" THEN 0 ELSE attempts[ip]]
  /\ wrong' = [ip \in Ip |-> IF lock[ip] = "past" THEN 0 ELSE wrong[ip]]
  /\ lock' = [ip \in Ip |-> IF lock[ip] = "past" THEN "none" ELSE lock[ip]]
  /\ UNCHANGED <<window, cookie, tokenOld, ownToken, served>>

AccessNext ==
  \/ \E ip \in Ip : \/ \E right \in BOOLEAN : Login(ip, right) \/ VerifyPin(ip, right)
                    \/ Logout(ip) \/ LockEnds(ip) \/ MinuteEnds(ip)
                    \/ \E shown \in Credential : Request(ip, shown)
  \/ DayEnds \/ Cleanup

AccessSpec == AccessInit /\ [][AccessNext]_accessVars

-----------------------------------------------------------------------------
\* The three doors count together: between two right answers, or two locks, an
\* address gets at most the allowed number of wrong tries, and in one minute at
\* most the allowed number of requests (login, verify-pin, the middleware).
AccessIsBounded ==
  \A ip \in Ip : wrong[ip] <= MaxFailures /\ served[ip] <= RateLimit
=============================================================================
