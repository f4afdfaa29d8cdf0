---------------------------- MODULE CogneeLink ----------------------------
(***************************************************************************)
(* The memory manager's link to the Cognee server                          *)
(* (src/src/memory/manager.js): connecting and authenticating, the         *)
(* reconnect interval, and the ingests and searches that lose the link on  *)
(* a 401.                                                                  *)
(***************************************************************************)
EXTENDS Integers

CONSTANTS Attempt,      \* connection attempts that may be under way at once
          CogneeCall          \* ingests and searches under way

VARIABLES store,        \* what secrets.get gives: "values", or "promises"
          hasKey,       \* a cloud API key is stored
          tokenStored,  \* the stored token: "none", "valid", "expired"
          required,     \* the server asks for authentication
          reachable,    \* the server answers
          started,      \* connect(): "no", "first" attempt under way, "yes"
          closed,       \* disconnect() was called
          connected,    \* cogneeConnected
          sent,         \* what _cogneeHeaders sends
          timer,        \* _reconnectTimer: "null", "runs", or "cleared" and kept
          attempt,      \* each attempt's step
          call          \* each call: "none", or the header it was sent with

cogVars == <<store, hasKey, tokenStored, required, reachable, started, closed, connected,
             sent, timer, attempt, call>>
cogSetting == <<store, hasKey, required>>

Header == {"none", "key", "token", "promise"}

CogTypeOK ==
  /\ store \in {"values", "promises"} /\ hasKey \in BOOLEAN /\ required \in BOOLEAN
  /\ tokenStored \in {"none", "valid", "expired"}
  /\ reachable \in BOOLEAN /\ started \in {"no", "first", "yes"} /\ closed \in BOOLEAN
  /\ connected \in BOOLEAN /\ timer \in {"null", "runs", "cleared"} /\ sent \in Header
  /\ attempt \in [Attempt -> {"none", "health", "login", "settle"}]
  /\ call \in [CogneeCall -> Header \cup {"idle"}]

CogInit ==
  /\ store \in {"values", "promises"} /\ hasKey \in BOOLEAN /\ required \in BOOLEAN
  /\ tokenStored = "none" /\ reachable \in BOOLEAN
  /\ started = "no" /\ closed = FALSE /\ connected = FALSE /\ sent = "none"
  /\ timer = "null" /\ attempt = [a \in Attempt |-> "none"]
  /\ call = [c \in CogneeCall |-> "idle"]

\* What the server accepts.
Accepts(h) == \/ ~required \/ h = "key"
              \/ h = "token" /\ tokenStored = "valid"

-----------------------------------------------------------------------------
(* Connecting *)

\* _startReconnectLoop: unless there is an interval, cleared or not.
StartLoop == timer' = IF timer = "null" THEN "runs" ELSE timer

\* connect(): the first attempt, awaited.
CogneeConnects(a) ==
  /\ started = "no" /\ started' = "first"
  /\ attempt' = [attempt EXCEPT ![a] = "health"]
  /\ UNCHANGED <<cogSetting, tokenStored, reachable, closed, connected, sent, timer, call>>

\* The interval ticks, whether the last attempt has ended or not.
ReconnectTick(a) ==
  /\ timer = "runs" /\ attempt[a] = "none"
  /\ attempt' = [attempt EXCEPT ![a] = "health"]
  /\ UNCHANGED <<cogSetting, tokenStored, reachable, started, closed, connected, sent, timer, call>>

\* The health check fails: connect() starts the interval, a tick only logs.
HealthFails(a) ==
  /\ attempt[a] = "health" /\ ~reachable
  /\ attempt' = [attempt EXCEPT ![a] = "none"]
  /\ IF started = "first" THEN started' = "yes" /\ StartLoop ELSE UNCHANGED <<started, timer>>
  /\ UNCHANGED <<cogSetting, tokenStored, reachable, closed, connected, sent, call>>

\* The server is healthy: the key is read, else the token, which is tried at
\* once.  A store that gives promises always gives a key.
HealthOk(a) ==
  /\ attempt[a] = "health" /\ reachable
  /\ sent' = CASE store = "promises" -> "promise"
               [] store = "values" /\ hasKey -> "key"
               [] OTHER -> IF tokenStored = "none" \/ (tokenStored = "expired" /\ required)
                           THEN "none" ELSE "token"
  /\ attempt' = [attempt EXCEPT ![a] = IF sent' = "none" THEN "login" ELSE "settle"]
  /\ UNCHANGED <<cogSetting, tokenStored, reachable, started, closed, connected, timer, call>>

\* _cogneeLogin with the stored name and password; its token is stored.  A
\* failed login goes on without.
CogneeLogin(a) ==
  /\ attempt[a] = "login"
  /\ \/ reachable /\ sent' = "token" /\ tokenStored' = "valid"
     \/ UNCHANGED <<sent, tokenStored>>
  /\ attempt' = [attempt EXCEPT ![a] = "settle"]
  /\ UNCHANGED <<cogSetting, reachable, started, closed, connected, timer, call>>

\* Fault: the interval is cleared, but _reconnectTimer keeps it.
SettleKeepsTimer(a) ==
  /\ attempt[a] = "settle"
  /\ connected' = TRUE /\ started' = "yes"
  /\ timer' = IF timer = "runs" THEN "cleared" ELSE timer
  /\ attempt' = [attempt EXCEPT ![a] = "none"]
  /\ UNCHANGED <<cogSetting, tokenStored, reachable, closed, sent, call>>

\* The settings are read and pushed, whatever the server says; connected, and
\* the interval is stopped.
Settle(a) ==
  /\ attempt[a] = "settle"
  /\ connected' = TRUE /\ timer' = "null" /\ started' = "yes"
  /\ attempt' = [attempt EXCEPT ![a] = "none"]
  /\ UNCHANGED <<cogSetting, tokenStored, reachable, closed, sent, call>>

-----------------------------------------------------------------------------
(* Using the link *)

\* addMessage and graphQuery call the server while connected, with the headers
\* of that moment.
CallStarts(c) ==
  /\ connected /\ ~closed /\ call[c] = "idle" /\ call' = [call EXCEPT ![c] = sent]
  /\ UNCHANGED <<cogSetting, tokenStored, reachable, started, closed, connected, sent, timer, attempt>>

\* 401: disconnected, the token dropped, and the interval started if it is not
\* running.
CallRefused(c) ==
  /\ call[c] # "idle" /\ reachable /\ ~Accepts(call[c])
  /\ call' = [call EXCEPT ![c] = "idle"]
  /\ connected' = FALSE /\ StartLoop
  /\ sent' = IF sent = "token" THEN "none" ELSE sent
  /\ UNCHANGED <<cogSetting, tokenStored, reachable, started, closed, attempt>>

\* Any other answer, an error or the timeout: the link stands.
CallEnds(c) ==
  /\ call[c] # "idle" /\ (~reachable \/ Accepts(call[c]))
  /\ call' = [call EXCEPT ![c] = "idle"]
  /\ UNCHANGED <<cogSetting, tokenStored, reachable, started, closed, connected, sent, timer, attempt>>

\* disconnect(): the interval is cleared; an attempt under way goes on.
Disconnect ==
  /\ started = "yes" /\ ~closed /\ closed' = TRUE
  /\ timer' = IF timer = "runs" THEN "cleared" ELSE timer
  /\ UNCHANGED <<cogSetting, tokenStored, reachable, started, connected, sent, attempt, call>>

ServerChanges ==
  /\ \/ reachable' = ~reachable /\ UNCHANGED tokenStored
     \/ tokenStored = "valid" /\ tokenStored' = "expired" /\ UNCHANGED reachable
  /\ UNCHANGED <<cogSetting, started, closed, connected, sent, timer, attempt, call>>

CogNext ==
  \/ \E a \in Attempt : CogneeConnects(a) \/ ReconnectTick(a) \/ HealthFails(a) \/ HealthOk(a)
                        \/ CogneeLogin(a) \/ Settle(a)
  \/ \E c \in CogneeCall : CallStarts(c) \/ CallRefused(c) \/ CallEnds(c)
  \/ Disconnect \/ ServerChanges

\* The interval keeps ticking and every request is answered or times out.
CogFairness ==
  /\ \A a \in Attempt : WF_cogVars(CogneeConnects(a)) /\ WF_cogVars(ReconnectTick(a))
                        /\ WF_cogVars(HealthFails(a) \/ HealthOk(a))
                        /\ WF_cogVars(CogneeLogin(a)) /\ WF_cogVars(Settle(a))
  /\ \A c \in CogneeCall : WF_cogVars(CallRefused(c) \/ CallEnds(c))

CogSpec == CogInit /\ [][CogNext]_cogVars /\ CogFairness

-----------------------------------------------------------------------------
\* A lost link is on its way back: once connect() has tried and until
\* disconnect(), the link is up or the interval runs.  A refused call may fall
\* between any two steps of attempts that overlap, one of which stops the
\* interval.
LostLinkIsRetried == started = "yes" /\ ~closed => connected \/ timer = "runs"

\* While the server stays reachable and the manager open, the link comes back.
LinkReturns == <>[](reachable /\ ~closed) => []<>connected
=============================================================================
