--------------------------- MODULE TradingSwitch ---------------------------
(***************************************************************************)
(* The trading switch of src/src/dashboard/server.js: requests to          *)
(* /api/trading/config and /api/trading/confirm-enable, interleaved at     *)
(* each await.  The one-time code of an enable request is named after the  *)
(* request; the pending slot holds at most one.                            *)
(***************************************************************************)
EXTENDS Integers, FiniteSets

CONSTANTS Req,          \* requests the dashboard may receive
          NoReq,        \* no code is pending
          MaxConfirms   \* confirmations the rate limit lets through

ASSUME SwitchAssumption == NoReq \notin Req /\ MaxConfirms \in Nat

VARIABLES tradingEnabled,   \* trading_config.trading_enabled
          limitsBy,         \* the request that last wrote the limits
          pendingEnable,    \* pendingTradeEnable
          codeFresh,        \* the pending code has not expired
          reqAt,            \* where each request is
          confirms,         \* confirmations counted by the rate limit
          codesTold,        \* codes whose message the Telegram API accepted
          spent,            \* the times each code was accepted
          cancelled         \* ghost: codes that a disable found pending

switchVars == <<tradingEnabled, limitsBy, pendingEnable, codeFresh, reqAt, confirms,
                codesTold, spent, cancelled>>

SwitchStage == {"new", "limits", "sending", "disabling", "saving", "enabling", "done"}

SwitchTypeOK ==
  /\ tradingEnabled \in BOOLEAN /\ codeFresh \in BOOLEAN
  /\ {limitsBy, pendingEnable} \subseteq Req \cup {NoReq}
  /\ reqAt \in [Req -> SwitchStage]
  /\ confirms \in 0..MaxConfirms
  /\ codesTold \subseteq Req /\ cancelled \subseteq Req
  /\ spent \in [Req -> Nat]

SwitchInit ==
  /\ tradingEnabled \in BOOLEAN /\ limitsBy = NoReq
  /\ pendingEnable = NoReq /\ codeFresh = FALSE
  /\ reqAt = [r \in Req |-> "new"] /\ confirms = 0
  /\ codesTold = {} /\ spent = [r \in Req |-> 0] /\ cancelled = {}

Goes(r, from, to) == reqAt[r] = from /\ reqAt' = [reqAt EXCEPT ![r] = to]

\* writeConfig: nothing to write, written, or refused.  A refusal is retried as
\* an INSERT whose answer nobody reads, so the caller goes on as if written.
LimitsWritten(r) == limitsBy' \in {limitsBy, r}

\* POST /api/trading/config with trading_enabled true, the limits valid.
EnableRequested(r) ==
  /\ Goes(r, "new", "limits")
  /\ UNCHANGED <<tradingEnabled, limitsBy, pendingEnable, codeFresh, confirms, codesTold,
                 spent, cancelled>>

\* The limits are written, and the code is sent; or the write threw.
EnableSends(r) ==
  /\ \/ Goes(r, "limits", "sending") /\ LimitsWritten(r)
     \/ Goes(r, "limits", "done") /\ limitsBy' = limitsBy
  /\ UNCHANGED <<tradingEnabled, pendingEnable, codeFresh, confirms, codesTold, spent,
                 cancelled>>

\* Telegram has answered: the code takes the slot, whatever is in it; a send
\* that failed empties the slot.
CodeSent(r) ==
  /\ Goes(r, "sending", "done")
  /\ \/ pendingEnable' = r /\ codeFresh' = TRUE /\ codesTold' = codesTold \cup {r}
     \/ pendingEnable' = NoReq /\ UNCHANGED <<codeFresh, codesTold>>
  /\ UNCHANGED <<tradingEnabled, limitsBy, confirms, spent, cancelled>>

\* POST /api/trading/config with any other trading_enabled: the slot is emptied
\* before the write.
DisableRequested(r) ==
  /\ Goes(r, "new", "disabling")
  /\ pendingEnable' = NoReq
  /\ cancelled' = cancelled \cup ({pendingEnable} \ {NoReq})
  /\ UNCHANGED <<tradingEnabled, limitsBy, codeFresh, confirms, codesTold, spent>>

\* ... or without that field: the limits alone.
SaveRequested(r) ==
  /\ Goes(r, "new", "saving")
  /\ UNCHANGED <<tradingEnabled, limitsBy, pendingEnable, codeFresh, confirms, codesTold,
                 spent, cancelled>>

FieldsWritten(r) ==
  /\ \/ /\ Goes(r, "disabling", "done")
        /\ tradingEnabled' \in {tradingEnabled, FALSE} /\ LimitsWritten(r)
     \/ /\ Goes(r, "saving", "done")
        /\ LimitsWritten(r) /\ tradingEnabled' = tradingEnabled
  /\ UNCHANGED <<pendingEnable, codeFresh, confirms, codesTold, spent, cancelled>>

\* A limit out of range: refused before anything is written.
BadLimits(r) ==
  /\ Goes(r, "new", "done")
  /\ UNCHANGED <<tradingEnabled, limitsBy, pendingEnable, codeFresh, confirms, codesTold,
                 spent, cancelled>>

\* checkOtp: the pending code, in time.
CheckOtp(code) == pendingEnable # NoReq /\ codeFresh /\ code = pendingEnable

\* Fault: an accepted code keeps the slot.
ConfirmKeepsCode(r) ==
  /\ confirms < MaxConfirms /\ confirms' = confirms + 1
  /\ \E code \in codesTold \cup {NoReq} :
       IF CheckOtp(code)
       THEN Goes(r, "new", "enabling") /\ spent' = [spent EXCEPT ![code] = @ + 1]
       ELSE Goes(r, "new", "done") /\ UNCHANGED spent
  /\ UNCHANGED <<tradingEnabled, limitsBy, pendingEnable, codeFresh, codesTold, cancelled>>

\* POST /api/trading/confirm-enable: an accepted code is spent before the write.
ConfirmRequested(r) ==
  /\ confirms < MaxConfirms /\ confirms' = confirms + 1
  /\ \E code \in codesTold \cup {NoReq} :
       IF CheckOtp(code)
       THEN /\ Goes(r, "new", "enabling")
            /\ pendingEnable' = NoReq
            /\ spent' = [spent EXCEPT ![code] = @ + 1]
       ELSE Goes(r, "new", "done") /\ UNCHANGED <<pendingEnable, spent>>
  /\ UNCHANGED <<tradingEnabled, limitsBy, codeFresh, codesTold, cancelled>>

\* The switch is written, or the write failed and the answer says so.
EnableWritten(r) ==
  /\ Goes(r, "enabling", "done")
  /\ tradingEnabled' \in {tradingEnabled, TRUE}
  /\ UNCHANGED <<limitsBy, pendingEnable, codeFresh, confirms, codesTold, spent, cancelled>>

\* Five minutes go by; fifteen minutes go by.
CodeExpires ==
  /\ codeFresh /\ codeFresh' = FALSE
  /\ UNCHANGED <<tradingEnabled, limitsBy, pendingEnable, reqAt, confirms, codesTold, spent,
                 cancelled>>
ConfirmWindowEnds ==
  /\ confirms > 0 /\ confirms' = 0
  /\ UNCHANGED <<tradingEnabled, limitsBy, pendingEnable, codeFresh, reqAt, codesTold, spent,
                 cancelled>>

SwitchNext ==
  \/ \E r \in Req : \/ EnableRequested(r) \/ EnableSends(r) \/ CodeSent(r)
                    \/ DisableRequested(r) \/ SaveRequested(r) \/ FieldsWritten(r)
                    \/ BadLimits(r) \/ ConfirmRequested(r) \/ EnableWritten(r)
  \/ CodeExpires \/ ConfirmWindowEnds

SwitchSpec == SwitchInit /\ [][SwitchNext]_switchVars

-----------------------------------------------------------------------------
\* A code is good for one enable, and only a code that reached the owner is:
\* however confirmations, expiries and new requests interleave, the enables
\* under way never outnumber the codes spent, each spent once, and a code that
\* was pending when a disable came is neither pending nor spent.
OneEnablePerCode ==
  /\ \A r \in Req : spent[r] <= 1 /\ (spent[r] = 1 => r \in codesTold)
  /\ Cardinality({r \in Req : reqAt[r] = "enabling"})
       <= Cardinality({r \in Req : spent[r] = 1})
  /\ \A r \in cancelled : spent[r] = 0 /\ pendingEnable # r
=============================================================================
