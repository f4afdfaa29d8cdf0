---------------------------- MODULE RecoveryProofs ----------------------------
(***************************************************************************)
(* Theorems about what comes back after a failure and about what is        *)
(* stored: the Telegram channel's recovery (TelegramChannel), the AGEX hub *)
(* (Credentials), the Cognee server (CogneeLink), the requests to an MCP   *)
(* server (McpClient), the delivery queue (DeliveryQueue), the             *)
(* conversation and its index (ConversationMemory) and the knowledge store *)
(* (KnowledgeBase), each alone and as MCServices puts them together.       *)
(***************************************************************************)
EXTENDS MCServices, FiniteSetTheorems, SequenceTheorems, WellFoundedInduction, TLAPS

-----------------------------------------------------------------------------
(* One recovery at a time *)

\* The channel's turn is with one party: the runner that polls, the activation
\* that handles its failure or rebuilds it, the failure put aside, or the recovery
\* timer.  OneRecovery follows.  An activation that has rebuilt the runner has
\* given the turn away, and so have the frames that unwind; what they still do to
\* the lock is harmless because of this, not because of the lock.
HasTurn(t) == at[t] \in {"enter"} \cup (InRecovery \ {"committed"})

Places == InRecovery \cup {"idle", "enter", "unwind"}

OneTurnOf ==
  /\ \A r, s \in polling : r = s
  /\ \A t, u \in Task : HasTurn(t) /\ HasTurn(u) => t = u
  /\ polling # {} => ~pendingFailure /\ ~recoveryTimer /\ \A t \in Task : ~HasTurn(t)
  /\ pendingFailure => ~recoveryTimer /\ \A t \in Task : ~HasTurn(t)
  /\ recoveryTimer => \A t \in Task : ~HasTurn(t)

\* An active channel that was not told to stop has not lost the turn.
ActiveHasTurn ==
  (channelStatus = "active" /\ stopping = "no") =>
    runner \in polling \/ pendingFailure \/ \E t \in Task : HasTurn(t)

TurnInv ==
  /\ at \in [Task -> Places]
  /\ polling \subseteq Runner
  /\ pendingFailure \in BOOLEAN /\ recoveryTimer \in BOOLEAN
  /\ channelStatus = "starting" =>
       polling = {} /\ ~pendingFailure /\ ~recoveryTimer /\ \A t \in Task : at[t] = "idle"
  /\ OneTurnOf
  /\ ActiveHasTurn

\* A finally block ends the activation `t`, or hands control to the frame below,
\* and gives the turn to another only when a failure was put aside.
Ended(t) ==
  /\ at' \in [Task -> Places] /\ pendingFailure' = FALSE
  /\ \/ /\ ~pendingFailure \/ channelStatus' = "stopped"
        /\ at'[t] \in {"idle", "unwind"} /\ \A v \in Task \ {t} : at'[v] = at[v]
     \/ /\ pendingFailure /\ channelStatus' # "stopped"
        /\ \E u \in Task :
             /\ at'[u] = "enter"
             /\ \A v \in Task \ {u} : at'[v] = at[v] \/ (v = t /\ at'[v] \in {"idle", "unwind"})

LEMMA FinallyEnds ==
  ASSUME TurnInv, NEW t \in Task, NEW d, Finally(t, d)
  PROVE  Ended(t)
<1> DEFINE p == [at EXCEPT ![t] = IF d = 0 THEN "idle" ELSE "unwind"]
<1>1. /\ p \in [Task -> Places] /\ p[t] \in {"idle", "unwind"}
      /\ \A v \in Task \ {t} : p[v] = at[v]
  BY DEF TurnInv, Places
<1>2. DrainPendingFailure(p)
  BY DEF Finally
<1> HIDE DEF p
<1>3. pendingFailure \in BOOLEAN
  BY DEF TurnInv
<1>4. CASE pendingFailure /\ channelStatus' # "stopped"
  <2>1. PICK u \in Task : at' = [p EXCEPT ![u] = "enter"]
    BY <1>2, <1>4 DEF DrainPendingFailure
  <2>2. at' \in [Task -> Places] /\ at'[u] = "enter" /\ \A v \in Task \ {u} : at'[v] = p[v]
    BY <2>1, <1>1 DEF Places
  <2> QED BY <1>1, <1>2, <1>4, <2>2 DEF DrainPendingFailure, Ended
<1>5. CASE ~(pendingFailure /\ channelStatus' # "stopped")
  BY <1>1, <1>2, <1>3, <1>5 DEF DrainPendingFailure, Ended
<1> QED BY <1>4, <1>5

\* One that had the turn gives it up ...
LEMMA TurnGivenUp ==
  ASSUME TurnInv, NEW t \in Task, HasTurn(t), Ended(t),
         channelStatus' \notin {"starting", "active"} \/ ActiveHasTurn', channelStatus' # "starting",
         polling' \subseteq polling, recoveryTimer' \in BOOLEAN
  PROVE  TurnInv'
<1>1. ~pendingFailure /\ polling' = {} /\ \A v \in Task \ {t} : ~HasTurn(v)
  BY DEF TurnInv, OneTurnOf
<1>2. at' \in [Task -> Places] /\ pendingFailure' = FALSE /\ \A v \in Task : ~HasTurn(v)'
  BY <1>1 DEF Ended, HasTurn, InRecovery
<1> QED BY <1>1, <1>2 DEF TurnInv, OneTurnOf, ActiveHasTurn

\* ... and one that has given it up already leaves it where it is, or with the
\* failure put aside.
LEMMA TurnLeft ==
  ASSUME TurnInv, NEW t \in Task, at[t] \in {"committed", "unwind"}, Ended(t),
         UNCHANGED <<channelStatus, polling, recoveryTimer, runner, stopping>>
  PROVE  TurnInv'
<1>1. channelStatus # "starting" /\ ~HasTurn(t)
  BY DEF TurnInv, HasTurn, InRecovery
<1>2. CASE ~pendingFailure \/ channelStatus = "stopped"
  <2>1. \A v \in Task : HasTurn(v)' <=> HasTurn(v)
    BY <1>1, <1>2 DEF Ended, HasTurn, InRecovery
  <2> QED BY <1>1, <1>2, <2>1 DEF TurnInv, OneTurnOf, ActiveHasTurn, Ended
<1>3. CASE pendingFailure /\ channelStatus # "stopped"
  <2>1. ~recoveryTimer /\ polling = {} /\ \A v \in Task : ~HasTurn(v)
    BY <1>3 DEF TurnInv, OneTurnOf
  <2>2. PICK u \in Task : HasTurn(u)' /\ \A v \in Task \ {u} : ~HasTurn(v)'
    BY <1>3, <2>1 DEF Ended, HasTurn, InRecovery
  <2> QED BY <1>1, <2>1, <2>2 DEF TurnInv, OneTurnOf, ActiveHasTurn, Ended
<1> QED BY <1>2, <1>3 DEF TurnInv

\* The turn goes on from `t` to `t` at another place.
LEMMA TurnKept ==
  ASSUME TurnInv, NEW t \in Task, HasTurn(t), NEW s \in InRecovery \ {"committed"},
         at' = [at EXCEPT ![t] = s], polling' \subseteq polling, channelStatus' # "starting",
         UNCHANGED <<pendingFailure, recoveryTimer>>
  PROVE  TurnInv'
<1>1. /\ at' \in [Task -> Places] /\ HasTurn(t)'
      /\ \A v \in Task \ {t} : HasTurn(v)' <=> HasTurn(v)
  BY DEF TurnInv, HasTurn, InRecovery, Places
<1> QED BY <1>1 DEF TurnInv, OneTurnOf, ActiveHasTurn

LEMMA TurnStep ==
  ASSUME TurnInv, [ChannelNext]_channelVars
  PROVE  TurnInv'
<1>1. CASE ChannelStart
  <2>1. /\ polling = {} /\ ~pendingFailure /\ ~recoveryTimer /\ at \in [Task -> Places]
        /\ \A t \in Task : at[t] = "idle"
    BY <1>1 DEF ChannelStart, TurnInv
  <2>2. PICK r \in Runner : runner' = r /\ polling' = {r}
    BY <1>1, <2>1 DEF ChannelStart, Fresh
  <2>3. channelStatus' = "active" /\ UNCHANGED <<pendingFailure, recoveryTimer, at>>
    BY <1>1 DEF ChannelStart
  <2>4. \A t \in Task : ~HasTurn(t)'
    BY <2>1, <2>3 DEF HasTurn, InRecovery
  <2> QED BY <2>1, <2>2, <2>3, <2>4 DEF TurnInv, OneTurnOf, ActiveHasTurn
<1>2. ASSUME NEW r \in Runner, RunnerFails(r) PROVE TurnInv'
  <2>1. /\ ~pendingFailure /\ ~recoveryTimer /\ polling' = {} /\ channelStatus # "starting"
        /\ \A v \in Task : ~HasTurn(v)
    BY <1>2 DEF RunnerFails, TurnInv, OneTurnOf
  <2>2. PICK t \in Task : at' = [at EXCEPT ![t] = "enter"]
    BY <1>2 DEF RunnerFails, FreeTasks
  <2>3. at' \in [Task -> Places] /\ HasTurn(t)' /\ \A v \in Task \ {t} : ~HasTurn(v)'
    BY <2>1, <2>2 DEF TurnInv, HasTurn, InRecovery, Places
  <2>4. UNCHANGED <<channelStatus, pendingFailure, recoveryTimer>>
    BY <1>2 DEF RunnerFails
  <2> QED BY <2>1, <2>3, <2>4 DEF TurnInv, OneTurnOf, ActiveHasTurn
<1>3. CASE ChannelStop
  BY <1>3 DEF ChannelStop, ResolveBackoff, TurnInv, OneTurnOf, ActiveHasTurn, HasTurn, Places,
              InRecovery
<1>4. CASE ChannelStopped
  BY <1>4 DEF ChannelStopped, TurnInv, OneTurnOf, ActiveHasTurn, HasTurn
<1> DEFINE Past == channelStatus # "starting"
<1>5. ASSUME NEW t \in Task, HasTurn(t) \/ at[t] # "idle" PROVE Past
  BY <1>5 DEF TurnInv, HasTurn, InRecovery
<1>6. ASSUME NEW t \in Task, NEW d, NEW k, HasTurn(t), Classified(t, d, k),
             UNCHANGED <<runner, polling, stopping>>
      PROVE  TurnInv'
  <2>1. CASE Backoff(t, d)
    BY <1>6, <2>1, TurnKept DEF Backoff, InRecovery
  <2>2. CASE Degrade(t, d)
    <3>1. Ended(t)
      BY <1>6, <2>2, FinallyEnds DEF Degrade
    <3>2. channelStatus' = "degraded" /\ recoveryTimer' \in BOOLEAN
      BY <2>2 DEF Degrade, ScheduleRecovery
    <3> QED BY <1>6, <3>1, <3>2, TurnGivenUp
  <2> QED BY <1>6, <2>1, <2>2 DEF Classified
<1>7. ASSUME NEW t \in Task, OnRunnerFailure(t) PROVE TurnInv'
  <2>1. HasTurn(t) /\ Past
    BY <1>5, <1>7 DEF OnRunnerFailure, HasTurn
  <2>2. CASE \E k \in ErrorKinds : Classified(t, 0, k)
    BY <1>6, <1>7, <2>1, <2>2 DEF OnRunnerFailure
  <2>3. CASE /\ channelStatus = "stopped" \/ pendingFailure' = TRUE
             /\ at' = [at EXCEPT ![t] = "idle"]
             /\ UNCHANGED <<channelStatus, recoveryTimer, runner, polling, stopping>>
             /\ pendingFailure' \in {pendingFailure, TRUE}
    <3>1. /\ at' \in [Task -> Places] /\ at'[t] = "idle"
          /\ \A v \in Task \ {t} : at'[v] = at[v]
      BY <2>3 DEF TurnInv, Places
    <3>2. polling' = {} /\ ~recoveryTimer' /\ \A v \in Task : ~HasTurn(v)'
      BY <2>1, <2>3, <3>1 DEF TurnInv, OneTurnOf, HasTurn, InRecovery
    <3> QED BY <2>1, <2>3, <3>1, <3>2 DEF TurnInv, OneTurnOf, ActiveHasTurn
  <2> QED BY <1>7, <2>2, <2>3 DEF OnRunnerFailure
<1>8. ASSUME NEW t \in Task, ReinitBegins(t), HasTurn(t), UNCHANGED <<channelStatus, pendingFailure,
             recoveryTimer>>
      PROVE TurnInv'
  BY <1>5, <1>8, TurnKept DEF ReinitBegins, InRecovery
<1>9. ASSUME NEW t \in Task, Wake(t) PROVE TurnInv'
  <2>1. HasTurn(t) /\ Past
    BY <1>5, <1>9 DEF Wake, HasTurn, InRecovery
  <2>2. CASE channelStatus = "stopped"
    <3>1. Ended(t)
      BY <1>9, <2>2, FinallyEnds DEF Wake
    <3>2. channelStatus' = "stopped" /\ UNCHANGED <<polling, recoveryTimer>>
      BY <1>9, <2>2 DEF Wake
    <3>3. recoveryTimer \in BOOLEAN
      BY DEF TurnInv
    <3> QED BY <2>1, <3>1, <3>2, <3>3, TurnGivenUp
  <2>3. CASE channelStatus # "stopped"
    BY <1>8, <1>9, <2>1, <2>3 DEF Wake
  <2> QED BY <2>2, <2>3
<1>10. ASSUME NEW t \in Task, TornDown(t) PROVE TurnInv'
  BY <1>5, <1>10, TurnKept DEF TornDown, HasTurn, InRecovery
<1>11. ASSUME NEW t \in Task, Reinit(t) PROVE TurnInv'
  <2>1. HasTurn(t)
    BY <1>11 DEF Reinit, HasTurn, InRecovery
  <2>2. /\ polling = {} /\ ~pendingFailure /\ ~recoveryTimer
        /\ \A v \in Task \ {t} : ~HasTurn(v)
    BY <2>1 DEF TurnInv, OneTurnOf
  <2>3. at' \in [Task -> Places] /\ \A v \in Task : ~HasTurn(v)'
    BY <1>11, <2>2 DEF Reinit, TurnInv, HasTurn, InRecovery, Places
  <2>4. PICK r \in Runner : runner' = r /\ polling' = {r}
    BY <1>11, <2>2 DEF Reinit, Fresh
  <2> QED BY <1>11, <2>2, <2>3, <2>4 DEF Reinit, TurnInv, OneTurnOf, ActiveHasTurn
<1>12. ASSUME NEW t \in Task, ReinitFails(t) PROVE TurnInv'
  <2>1. HasTurn(t) /\ Past
    BY <1>5, <1>12 DEF ReinitFails, HasTurn, InRecovery
  <2>2. CASE \E k \in ErrorKinds : Classified(t, frames[t] + 1, k)
    BY <1>6, <1>12, <2>1, <2>2 DEF ReinitFails
  <2>3. ASSUME NEW d, Finally(t, d), channelStatus' \in {"degraded", "stopped"},
               recoveryTimer' \in BOOLEAN, UNCHANGED polling
        PROVE TurnInv'
    <3>1. Ended(t)
      BY <2>3, FinallyEnds
    <3> QED BY <2>1, <2>3, <3>1, TurnGivenUp
  <2>4. CASE channelStatus' = "degraded" /\ ScheduleRecovery(recoveries) /\ Finally(t, 0)
    BY <1>12, <2>3, <2>4 DEF ReinitFails, ScheduleRecovery
  <2>5. CASE channelStatus = "stopped" /\ UNCHANGED <<channelStatus, recoveryTimer>>
             /\ Finally(t, frames[t])
    BY <1>12, <2>3, <2>5 DEF ReinitFails, TurnInv
  <2> QED BY <1>12, <2>2, <2>4, <2>5 DEF ReinitFails
<1>13. ASSUME NEW t \in Task, Committed(t) \/ Unwind(t) PROVE TurnInv'
  <2>1. Finally(t, frames[t])
    BY <1>13 DEF Committed, Unwind
  <2>2. Ended(t)
    BY <2>1, FinallyEnds
  <2> QED BY <1>13, <2>2, TurnLeft DEF Committed, Unwind
<1>14. ASSUME NEW t \in Task, RecoveryTick(t) PROVE TurnInv'
  <2>1. /\ recoveryTimer /\ Past /\ polling = {} /\ ~pendingFailure
        /\ \A v \in Task : ~HasTurn(v)
    BY <1>14 DEF RecoveryTick, TurnInv, OneTurnOf
  <2>2. CASE UNCHANGED <<at, polling>> /\ recoveryTimer' \in BOOLEAN
    BY <1>14, <2>1, <2>2 DEF RecoveryTick, TurnInv, OneTurnOf, ActiveHasTurn, HasTurn
  <2>3. CASE ReinitBegins(t) /\ recoveryTimer' = FALSE
    <3>1. PICK s \in {"building", "tearing"} : at' = [at EXCEPT ![t] = s]
      BY <2>3 DEF ReinitBegins
    <3>2. /\ at' \in [Task -> Places] /\ HasTurn(t)'
          /\ \A v \in Task \ {t} : ~HasTurn(v)'
      BY <2>1, <3>1 DEF TurnInv, HasTurn, InRecovery, Places
    <3>3. polling' = {}
      BY <2>1, <2>3 DEF ReinitBegins
    <3>4. UNCHANGED <<channelStatus, pendingFailure>>
      BY <1>14 DEF RecoveryTick
    <3> QED BY <2>1, <2>3, <3>2, <3>3, <3>4 DEF TurnInv, OneTurnOf, ActiveHasTurn
  <2>4. ScheduleRecovery(recoveries) => recoveryTimer' \in BOOLEAN
    BY DEF ScheduleRecovery
  <2> QED BY <1>14, <2>2, <2>3, <2>4 DEF RecoveryTick
<1>15. CASE UNCHANGED channelVars
  BY <1>15 DEF channelVars, TurnInv, OneTurnOf, ActiveHasTurn, HasTurn
<1> QED
  BY <1>1, <1>2, <1>3, <1>4, <1>7, <1>9, <1>10, <1>11, <1>12, <1>13, <1>14, <1>15
  DEF ChannelNext, TaskStep

\* A set whose elements are all the same has at most one.
LEMMA AtMostOne ==
  ASSUME NEW S, \A x, y \in S : x = y
  PROVE  Cardinality(S) <= 1
<1>1. CASE S = {}
  BY <1>1, FS_EmptySet
<1>2. CASE \E x \in S : S = {x}
  BY <1>2, FS_Singleton
<1> QED BY <1>1, <1>2

\* For any number of activations and runners and any limits on the attempts: one
\* recovery is under way at a time, one runner polls, and an active channel is
\* not deaf.
THEOREM RecoversOneAtATime == ChannelSpec => []OneRecovery
<1>1. ChannelInit => TurnInv
  BY DEF ChannelInit, TurnInv, OneTurnOf, ActiveHasTurn, HasTurn, Places, InRecovery
<1>2. TurnInv => OneRecovery
  <2> SUFFICES ASSUME TurnInv PROVE OneRecovery
    OBVIOUS
  <2>1. Cardinality(polling) <= 1
    BY AtMostOne DEF TurnInv, OneTurnOf
  <2>2. Cardinality(Recovering) <= 1
    BY AtMostOne DEF TurnInv, OneTurnOf, HasTurn, Recovering
  <2>3. NeverDeaf
    BY DEF TurnInv, ActiveHasTurn, NeverDeaf, HasTurn
  <2> QED BY <2>1, <2>2, <2>3 DEF OneRecovery
<1>3. TurnInv /\ [ChannelNext]_channelVars => TurnInv'
  BY TurnStep
<1> QED BY <1>1, <1>2, <1>3, PTL DEF ChannelSpec

-----------------------------------------------------------------------------
(* The hub *)

\* What HubIsRetried rests on: the timer is not set before init() has returned,
\* and it is cleared only by the end.
HubInv ==
  /\ life \in [Process -> {"down", "boots", "up", "closed"}]
  /\ available \in [Process -> BOOLEAN] /\ hubTimer \in [Process -> {"null", "runs", "cleared"}]
  /\ \A p \in Process :
       /\ life[p] \in {"down", "boots"} => hubTimer[p] = "null"
       /\ life[p] = "up" => available[p] \/ hubTimer[p] = "runs"

LEMMA HubStep ==
  ASSUME HubInv, [CredNext]_credVars
  PROVE  HubInv'
<1> USE DEF HubInv
<1>1. ASSUME UNCHANGED <<life, available, hubTimer>> PROVE HubInv'
  BY <1>1
<1>2. ASSUME NEW p \in Process, NEW t \in Try, HubFails(p, t), life[p] # "down", UNCHANGED available
      PROVE HubInv'
  BY <1>2 DEF HubFails
<1>3. ASSUME NEW p \in Process, NEW t \in Try,
             LoadAgexSDK(p, t) \/ StartHubLite(p, t) \/ LoadAID(p, t)
      PROVE HubInv'
  BY <1>1, <1>2, <1>3 DEF LoadAgexSDK, StartHubLite, LoadAID, AtStep
<1>4. ASSUME NEW p \in Process, NEW t \in Try, HubConnects(p, t) PROVE HubInv'
  <2>1. CASE HubFails(p, t) /\ UNCHANGED available
    BY <1>2, <1>4, <2>1 DEF HubConnects, AtStep
  <2>2. CASE ~(HubFails(p, t) /\ UNCHANGED available)
    BY <1>4, <2>2 DEF HubConnects, AtStep
  <2> QED BY <2>1, <2>2
<1>5. ASSUME NEW p \in Process, NEW t \in Try, Init1(p, t) PROVE HubInv'
  BY <1>5 DEF Init1
<1>6. ASSUME NEW p \in Process, NEW t \in Try, HubTick(p, t) \/ Health(p, t) \/ CreateAID(p, t)
      PROVE HubInv'
  BY <1>1, <1>6 DEF HubTick, Health, CreateAID
<1>7. ASSUME NEW p \in Process, CredShutdown(p) PROVE HubInv'
  BY <1>7 DEF CredShutdown
<1>8. ASSUME NEW p \in Process, ProcessEnds(p) PROVE HubInv'
  BY <1>8 DEF ProcessEnds
<1>9. ASSUME NEW p \in Process, UseCredential(p) \/ \E has \in BOOLEAN : SetSecret(p, has)
      PROVE HubInv'
  BY <1>1, <1>9 DEF UseCredential, SetSecret
<1>10. CASE RemoteChanges
  BY <1>1, <1>10 DEF RemoteChanges
<1>11. CASE UNCHANGED credVars
  BY <1>1, <1>11 DEF credVars
<1> QED
  BY <1>3, <1>4, <1>5, <1>6, <1>7, <1>8, <1>9, <1>10, <1>11 DEF CredNext

LEMMA HubStart == CredInit => HubInv
  BY DEF CredInit, HubInv

LEMMA HubTrue == HubInv => HubIsRetried
  BY DEF HubInv, HubIsRetried

\* For any number of processes and of attempts that overlap, a manager that is up
\* is connected or tries again.
THEOREM HubComesBack == CredSpec => []HubIsRetried
<1>1. HubInv /\ [CredNext]_credVars => HubInv'
  BY HubStep
<1> QED BY <1>1, HubStart, HubTrue, PTL DEF CredSpec
-----------------------------------------------------------------------------
(* The Cognee link *)

\* What LostLinkIsRetried rests on: only disconnect() leaves a cleared interval
\* behind, which StartLoop would take for a running one.
LinkInv ==
  /\ started \in {"no", "first", "yes"} /\ timer \in {"null", "runs", "cleared"}
  /\ timer = "cleared" => closed
  /\ started = "yes" /\ ~closed => connected \/ timer = "runs"

LEMMA LinkStep == LinkInv /\ [CogNext]_cogVars => LinkInv'
<1> SUFFICES ASSUME LinkInv, [CogNext]_cogVars PROVE LinkInv'
  OBVIOUS
<1> USE DEF LinkInv
<1>1. ASSUME UNCHANGED <<started, closed, connected, timer>> PROVE LinkInv'
  BY <1>1
<1>2. ASSUME NEW a \in Attempt, CogneeConnects(a) PROVE LinkInv'
  BY <1>2 DEF CogneeConnects
<1>3. ASSUME NEW a \in Attempt, HealthFails(a) PROVE LinkInv'
  BY <1>3 DEF HealthFails, StartLoop
<1>4. ASSUME NEW a \in Attempt, Settle(a) PROVE LinkInv'
  BY <1>4 DEF Settle
<1>5. ASSUME NEW c \in CogneeCall, CallRefused(c) PROVE LinkInv'
  BY <1>5 DEF CallRefused, StartLoop
<1>6. CASE Disconnect
  BY <1>6 DEF Disconnect
<1>7. CASE \/ ServerChanges
           \/ \E a \in Attempt : ReconnectTick(a) \/ HealthOk(a) \/ CogneeLogin(a)
           \/ \E c \in CogneeCall : CallStarts(c) \/ CallEnds(c)
  BY <1>1, <1>7 DEF ServerChanges, ReconnectTick, HealthOk, CogneeLogin, CallStarts, CallEnds
<1>8. CASE UNCHANGED cogVars
  BY <1>1, <1>8 DEF cogVars
<1> QED
  BY <1>2, <1>3, <1>4, <1>5, <1>6, <1>7, <1>8 DEF CogNext

LEMMA LinkStart == CogInit => LinkInv
  BY DEF CogInit, LinkInv

LEMMA LinkTrue == LinkInv => LostLinkIsRetried
  BY DEF LinkInv, LostLinkIsRetried

\* For any number of attempts and calls that overlap, a lost link is on its way
\* back until disconnect().
THEOREM LinkIsRetried == CogSpec => []LostLinkIsRetried
<1> QED BY LinkStart, LinkStep, LinkTrue, PTL DEF CogSpec

-----------------------------------------------------------------------------
(* The requests to an MCP server *)

WaitInv ==
  /\ ask = [r \in RpcId |-> ask[r]]
  /\ askOutcome \in [RpcId -> {"waits", "ok", "error"}]
  /\ WaitersHaveTimers

LEMMA SendsKeep ==
  ASSUME WaitInv, NEW c, NEW r \in RpcId, NEW m, Sends(c, r, m)
  PROVE  WaitInv'
  BY DEF WaitInv, WaitersHaveTimers, Sends

LEMMA WaitStep == WaitInv /\ [McpNext]_mcpVars => WaitInv'
<1> SUFFICES ASSUME WaitInv, [McpNext]_mcpVars PROVE WaitInv'
  OBVIOUS
<1> USE DEF WaitInv, WaitersHaveTimers
<1>1. ASSUME UNCHANGED <<ask, pending, askOutcome>> PROVE WaitInv'
  BY <1>1
<1>2. ASSUME NEW r \in RpcId, Answered(r) PROVE WaitInv'
  BY <1>2 DEF Answered
<1>3. ASSUME NEW r \in RpcId, RequestTimesOut(r) PROVE WaitInv'
  BY <1>3 DEF RequestTimesOut
<1>4. ASSUME NEW r \in RpcId, CallReturns(r) PROVE WaitInv'
  BY <1>4 DEF CallReturns
<1>5. ASSUME NEW r \in RpcId, CallTool(r) PROVE WaitInv'
  BY <1>5, SendsKeep DEF CallTool
<1>6. ASSUME NEW c \in Client, NEW r \in RpcId, Opened(c, r) PROVE WaitInv'
  BY <1>6, SendsKeep DEF Opened
<1>7. ASSUME NEW c \in Client, NEW r \in RpcId, Handshake(c, r) PROVE WaitInv'
  BY <1>7 DEF Handshake
<1>8. CASE McpDisconnect
  BY <1>8 DEF McpDisconnect
<1>9. CASE \E c \in Client : ConnectServer(c) \/ OpenFails(c) \/ ServerEnds(c)
  BY <1>1, <1>9 DEF ConnectServer, OpenFails, ServerEnds, mcpCalls
<1>10. CASE UNCHANGED mcpVars
  BY <1>1, <1>10 DEF mcpVars
<1> QED
  BY <1>2, <1>3, <1>4, <1>5, <1>6, <1>7, <1>8, <1>9, <1>10 DEF McpNext

LEMMA WaitStart == McpInit => WaitInv
  BY DEF McpInit, WaitInv, WaitersHaveTimers

LEMMA WaitTrue == WaitInv => WaitersHaveTimers
  BY DEF WaitInv

\* For any clients and requests, a caller that waits has a timer that runs.
THEOREM NobodyWaitsForGood == McpSpec => []WaitersHaveTimers
<1> QED BY WaitStart, WaitStep, WaitTrue, PTL DEF McpSpec

-----------------------------------------------------------------------------
(* The delivery queue *)

RowInv ==
  /\ entry \in [Msg -> [status : {"none", "pending", "delivered", "failed"},
                        tries : Nat, due : BOOLEAN]]
  /\ RowsAreHonest

LEMMA RowStep == RowInv /\ [QueueNext]_queueVars => RowInv'
<1> SUFFICES ASSUME RowInv, [QueueNext]_queueVars PROVE RowInv'
  OBVIOUS
<1> USE QueueAssumption DEF RowInv, RowsAreHonest
<1>1. ASSUME entry' = entry, whole \subseteq whole' PROVE RowInv'
  BY <1>1
<1>2. ASSUME NEW m \in Msg, Enqueue(m) PROVE RowInv'
  BY <1>2 DEF Enqueue, NoRow
<1>3. ASSUME NEW m \in Msg, RowDue(m) PROVE RowInv'
  BY <1>3 DEF RowDue
<1>4. ASSUME NEW m, Delivered(m), whole' = whole \cup {m} PROVE RowInv'
  BY <1>4 DEF Delivered
<1>5. ASSUME NEW m, Failed(m), whole \subseteq whole' PROVE RowInv'
  <2>1. CASE m \notin Msg
    BY <1>5, <2>1 DEF Failed
  <2>2. CASE m \in Msg
    <3> DEFINE n == entry[m].tries + 1
    <3>0. n \in Nat
      BY <2>2
    <3>1. CASE n >= MaxTries
      <4>1. entry' = [entry EXCEPT ![m] = [@ EXCEPT !.tries = n, !.status = "failed"]]
        BY <1>5, <3>1 DEF Failed
      <4>2. entry'[m] = [entry[m] EXCEPT !.tries = n, !.status = "failed"]
        BY <2>2, <4>1
      <4>3. \A k \in Msg \ {m} : entry'[k] = entry[k]
        BY <4>1
      <4>4. entry'[m].status = "failed" /\ entry'[m].tries = n
        BY <2>2, <4>2
      <4>5. entry' \in [Msg -> [status : {"none", "pending", "delivered", "failed"},
                               tries : Nat, due : BOOLEAN]]
        BY <2>2, <3>0, <4>1
      <4>6. RowsAreHonest'
        BY <1>5, <3>1, <4>3, <4>4
      <4> QED BY <4>5, <4>6
    <3>2. CASE ~(n >= MaxTries)
      <4>1. entry' = [entry EXCEPT ![m] = [@ EXCEPT !.tries = n, !.due = FALSE]]
        BY <1>5, <3>2 DEF Failed
      <4>2. entry'[m] = [entry[m] EXCEPT !.tries = n, !.due = FALSE]
        BY <2>2, <4>1
      <4>3. \A k \in Msg \ {m} : entry'[k] = entry[k]
        BY <4>1
      <4>4. entry'[m].status = entry[m].status /\ entry'[m].tries = n
        BY <2>2, <4>2
      <4>5. entry' \in [Msg -> [status : {"none", "pending", "delivered", "failed"},
                               tries : Nat, due : BOOLEAN]]
        BY <2>2, <3>0, <4>1
      <4>6. entry[m].status = "failed" => n >= MaxTries
        BY <2>2, <3>0
      <4>7. RowsAreHonest'
        BY <1>5, <2>2, <3>0, <3>2, <4>3, <4>4, <4>6
      <4> QED BY <4>5, <4>7
    <3> QED BY <3>1, <3>2
  <2> QED BY <2>1, <2>2
<1>6. ASSUME NEW r \in Round, SendEnds(r) PROVE RowInv'
  BY <1>4, <1>5, <1>6 DEF SendEnds, SendSettles
<1>7. CASE QueueStop \/ QueueRestart \/ \E r \in Round : QueueTick(r)
  BY <1>1, <1>7 DEF QueueStop, QueueRestart, QueueTick
<1>8. CASE UNCHANGED queueVars
  BY <1>1, <1>8 DEF queueVars
<1> QED
  BY <1>2, <1>3, <1>6, <1>7, <1>8 DEF QueueNext

LEMMA RowStart == QueueInit => RowInv
  BY DEF QueueInit, RowInv, RowsAreHonest, NoRow

LEMMA RowTrue == RowInv => RowsAreHonest
  BY DEF RowInv

\* For any number of messages and of rounds that overlap, any limit on the tries
\* and any restarts, a row says what became of its message.
THEOREM RowsSayTheTruth == QueueSpec => []RowsAreHonest
<1> QED BY RowStart, RowStep, RowTrue, PTL DEF QueueSpec

-----------------------------------------------------------------------------
(* The conversation and its index *)

\* slice(-n): the last n, in order, or all there are.
LEMMA LastOfProperties ==
  ASSUME NEW S, NEW s \in Seq(S), NEW n \in Nat
  PROVE  /\ LastOf(s, n) \in Seq(S)
         /\ Len(LastOf(s, n)) = IF Len(s) > n THEN n ELSE Len(s)
         /\ \A i \in 1..Len(LastOf(s, n)) :
              LastOf(s, n)[i] = s[Len(s) - Len(LastOf(s, n)) + i]
<1>1. CASE Len(s) > n
  <2>1. Len(s) \in Nat /\ Len(s) - n + 1 \in Int /\ Len(s) - n + 1 <= Len(s) + 1
    BY <1>1
  <2>2. \A i \in Len(s) - n + 1 .. Len(s) : s[i] \in S
    BY <2>1, <1>1
  <2>3. /\ SubSeq(s, Len(s) - n + 1, Len(s)) \in Seq(S)
        /\ Len(SubSeq(s, Len(s) - n + 1, Len(s))) = n
        /\ \A i \in 1..n : SubSeq(s, Len(s) - n + 1, Len(s))[i] = s[Len(s) - n + 1 + i - 1]
    BY <2>1, <2>2, SubSeqProperties
  <2>4. LastOf(s, n) = SubSeq(s, Len(s) - n + 1, Len(s))
    BY <1>1 DEF LastOf
  <2> QED BY <1>1, <2>1, <2>3, <2>4
<1>2. CASE ~(Len(s) > n)
  BY <1>2 DEF LastOf
<1> QED BY <1>1, <1>2

\* Cutting after each message or once at the end comes to the same.
LEMMA LastOfAppend ==
  ASSUME NEW S, NEW s \in Seq(S), NEW m \in S, NEW n \in Nat \ {0}
  PROVE  LastOf(Append(LastOf(s, n), m), n) = LastOf(Append(s, m), n)
<1> DEFINE t == LastOf(s, n)
           a == Append(t, m)
           b == Append(s, m)
<1>1. /\ t \in Seq(S) /\ Len(t) = IF Len(s) > n THEN n ELSE Len(s)
      /\ \A i \in 1..Len(t) : t[i] = s[Len(s) - Len(t) + i]
  BY LastOfProperties
<1> HIDE DEF t
<1>2. /\ a \in Seq(S) /\ Len(a) = Len(t) + 1 /\ a[Len(t) + 1] = m
      /\ \A i \in 1..Len(t) : a[i] = t[i]
  BY <1>1, AppendProperties
<1>3. /\ b \in Seq(S) /\ Len(b) = Len(s) + 1 /\ b[Len(s) + 1] = m
      /\ \A i \in 1..Len(s) : b[i] = s[i]
  BY AppendProperties
<1> HIDE DEF a, b
<1>4. /\ LastOf(a, n) \in Seq(S) /\ LastOf(b, n) \in Seq(S)
      /\ Len(LastOf(a, n)) = IF Len(a) > n THEN n ELSE Len(a)
      /\ Len(LastOf(b, n)) = IF Len(b) > n THEN n ELSE Len(b)
      /\ \A i \in 1..Len(LastOf(a, n)) : LastOf(a, n)[i] = a[Len(a) - Len(LastOf(a, n)) + i]
      /\ \A i \in 1..Len(LastOf(b, n)) : LastOf(b, n)[i] = b[Len(b) - Len(LastOf(b, n)) + i]
  BY <1>2, <1>3, LastOfProperties
<1>5. Len(LastOf(a, n)) = Len(LastOf(b, n))
  BY <1>1, <1>2, <1>3, <1>4
<1>6. ASSUME NEW i \in 1..Len(LastOf(a, n)) PROVE LastOf(a, n)[i] = LastOf(b, n)[i]
  <2>1. /\ LastOf(a, n)[i] = a[Len(a) - Len(LastOf(a, n)) + i]
        /\ LastOf(b, n)[i] = b[Len(b) - Len(LastOf(a, n)) + i]
    BY <1>4, <1>5
  <2>2. CASE i = Len(LastOf(a, n))
    BY <1>2, <1>3, <1>1, <2>1, <2>2
  <2>3. CASE i < Len(LastOf(a, n))
    <3> DEFINE j == Len(a) - Len(LastOf(a, n)) + i
               k == Len(b) - Len(LastOf(a, n)) + i
    <3>0. Len(s) \in Nat /\ Len(t) \in Nat /\ Len(a) = Len(t) + 1 /\ Len(b) = Len(s) + 1
      BY <1>1, <1>2, <1>3
    <3>1. j \in 1..Len(t) /\ k \in 1..Len(s) /\ k = Len(s) - Len(t) + j
      <4>1. CASE Len(s) > n
        <5>1. Len(t) = n /\ Len(LastOf(a, n)) = n
          BY <1>1, <1>4, <3>0, <4>1
        <5> QED BY <2>3, <3>0, <4>1, <5>1
      <4>2. CASE Len(s) = n
        <5>1. Len(t) = n /\ Len(LastOf(a, n)) = n
          BY <1>1, <1>4, <3>0, <4>2
        <5> QED BY <2>3, <3>0, <4>2, <5>1
      <4>3. CASE Len(s) < n
        <5>1. Len(t) = Len(s) /\ Len(LastOf(a, n)) = Len(s) + 1
          BY <1>1, <1>4, <3>0, <4>3
        <5> QED BY <2>3, <3>0, <4>3, <5>1
      <4> QED BY <3>0, <4>1, <4>2, <4>3
    <3>2. a[j] = t[j] /\ b[k] = s[k]
      BY <1>2, <1>3, <3>1
    <3> QED BY <1>1, <2>1, <3>1, <3>2
  <2> QED BY <2>2, <2>3, <1>4
<1>7. LastOf(a, n) = LastOf(b, n)
  BY <1>4, <1>5, <1>6, SeqEqual
<1> QED BY <1>7 DEF a, b, t

\* The end of the end is the end of the whole.
LEMMA LastOfLast ==
  ASSUME NEW S, NEW s \in Seq(S), NEW n \in Nat, NEW k \in Nat, k <= Len(LastOf(s, n))
  PROVE  LastOf(LastOf(s, n), k) = LastOf(s, k)
<1> DEFINE t == LastOf(s, n)
<1>1. /\ t \in Seq(S) /\ Len(t) = IF Len(s) > n THEN n ELSE Len(s)
      /\ \A i \in 1..Len(t) : t[i] = s[Len(s) - Len(t) + i]
  BY LastOfProperties
<1>2. k <= Len(t)
  OBVIOUS
<1> HIDE DEF t
<1>3. /\ LastOf(t, k) \in Seq(S) /\ LastOf(s, k) \in Seq(S)
      /\ Len(LastOf(t, k)) = k /\ Len(LastOf(s, k)) = k
      /\ \A i \in 1..Len(LastOf(t, k)) : LastOf(t, k)[i] = t[Len(t) - Len(LastOf(t, k)) + i]
      /\ \A i \in 1..Len(LastOf(s, k)) : LastOf(s, k)[i] = s[Len(s) - Len(LastOf(s, k)) + i]
  <2>1. Len(t) \in Nat /\ Len(s) \in Nat /\ Len(t) <= Len(s)
    BY <1>1
  <2>2. Len(LastOf(t, k)) = IF Len(t) > k THEN k ELSE Len(t)
    BY <1>1, LastOfProperties
  <2>3. Len(LastOf(s, k)) = IF Len(s) > k THEN k ELSE Len(s)
    BY LastOfProperties
  <2>4. Len(LastOf(t, k)) = k /\ Len(LastOf(s, k)) = k
    BY <1>2, <2>1, <2>2, <2>3
  <2> QED BY <1>1, <2>4, LastOfProperties
<1>4. ASSUME NEW i \in 1..k PROVE LastOf(t, k)[i] = LastOf(s, k)[i]
  <2>0. Len(t) \in Nat /\ Len(s) \in Nat
    BY <1>1
  <2>1. Len(t) - k + i \in 1..Len(t) /\ Len(s) \in Nat
    BY <1>2, <2>0
  <2>2. t[Len(t) - k + i] = s[Len(s) - Len(t) + (Len(t) - k + i)]
    BY <1>1, <2>1
  <2>3. Len(s) - Len(t) + (Len(t) - k + i) = Len(s) - k + i
    BY <2>0
  <2> QED BY <1>3, <2>2, <2>3
<1>5. LastOf(t, k) = LastOf(s, k)
  BY <1>3, <1>4, SeqEqual
<1> QED BY <1>5 DEF t

\* recentEntries, on the times the invariant looks at.
LEMMA RecentIsRecent ==
  ASSUME NEW now \in {Hours, 2 * Hours - 1}
  PROVE  LET recent == RecentEntries({now - Hours - 1, now - Hours, now}, now, Hours)
         IN  recent \subseteq {now - Hours, now} /\ (backend = "json" => now - Hours \in recent)
<1>1. CASE backend = "json"
  BY <1>1 DEF RecentEntries, Hours
<1>2. CASE backend # "json" /\ now = 24
  <2>1. \A n \in Int : n < 0 => ~(n \div 24 > 0)
    OBVIOUS
  <2>2. 0 \div 24 = 0 /\ ~(24 - 24 - 1 > 0) /\ 24 - 24 - 1 \in Int /\ 24 - 24 - 1 < 0
    OBVIOUS
  <2> QED BY <1>2, <2>1, <2>2 DEF RecentEntries, Hours
<1>3. CASE backend # "json" /\ now = 47
  <2>1. 22 \div 24 = 0 /\ 23 \div 24 = 0
    OBVIOUS
  <2> QED BY <1>3, <2>1 DEF RecentEntries, Hours
<1> QED BY <1>1, <1>2, <1>3 DEF Hours

\* What MemoryIsTrue rests on: the index was said and is told once, and so is its
\* file; what is being embedded is in neither; a stopped index is empty and clean.
ConvInv ==
  /\ ConvTypeOK
  /\ rows = IF backend = "sqlite" THEN said ELSE LastOf(said, KeepMessages)
  /\ \A i, j \in DOMAIN docs : docs[i].of = docs[j].of => i = j
  /\ \A i, j \in DOMAIN saved : saved[i] = saved[j] => i = j
  /\ \A i \in DOMAIN docs : docs[i].of \in ToSet(said) /\ docs[i].of \notin embedding
  /\ \A i \in DOMAIN saved : saved[i] \in ToSet(said) /\ saved[i] \notin embedding
  /\ embedding \subseteq ToSet(said)
  /\ running /\ ~dirty => saved = Messages(docs)
  /\ ~running => embedding = {} /\ docs = <<>> /\ ~dirty
  /\ Len(docs) <= KeepDocs /\ Len(saved) <= KeepDocs

LEMMA ConvStart == ConvInit => ConvInv
<1> SUFFICES ASSUME ConvInit PROVE ConvInv
  OBVIOUS
<1> USE ConversationAssumption DEF ConvInit
<1>1. LastOf(said, KeepMessages) = <<>> /\ Messages(docs) = <<>>
  BY DEF LastOf, Messages
<1>2. ConvTypeOK
  <2>1. <<>> \in Seq(Message) /\ <<>> \in Seq([of : Message, embedded : BOOLEAN])
    BY EmptySeq
  <2> QED BY <2>1 DEF ConvTypeOK
<1> QED BY <1>1, <1>2 DEF ConvInv

\* Appending only adds to what was said.
LEMMA SaidGrows ==
  ASSUME NEW S, NEW s \in Seq(S), NEW m \in S
  PROVE  ToSet(Append(s, m)) = ToSet(s) \cup {m}
  BY AppendProperties DEF ToSet

LEMMA ConvStep == ASSUME ConvInv, [ConvNext]_convVars PROVE ConvInv'
<1> USE ConversationAssumption DEF ConvInv, ConvTypeOK
<1>1. ASSUME NEW m \in Message, AddMessage(m) PROVE ConvInv'
  <2>1. /\ said' = Append(said, m) /\ embedding' = embedding \cup {m} /\ m \notin ToSet(said)
        /\ UNCHANGED <<backend, docs, saved, dirty, running>> /\ running
    BY <1>1 DEF AddMessage, Contains, ToSet
  <2>2. said' \in Seq(Message) /\ ToSet(said') = ToSet(said) \cup {m}
    BY <2>1, SaidGrows, AppendProperties
  <2>3. rows' = IF backend = "sqlite" THEN said' ELSE LastOf(said', KeepMessages)
    BY <1>1, <2>1, LastOfAppend DEF AddMessage
  <2>4. rows' \in Seq(Message)
    BY <2>2, <2>3, LastOfProperties
  <2>5. Messages(docs)' = Messages(docs)
    BY <2>1 DEF Messages
  <2>6. ConvTypeOK'
    BY <2>1, <2>2, <2>4
  <2> QED BY <2>1, <2>2, <2>3, <2>5, <2>6
<1>2. ASSUME NEW m \in Message, NEW e \in BOOLEAN, AddDoc(m, e) PROVE ConvInv'
  <2> DEFINE d == [of |-> m, embedded |-> e]
             all == Append(docs, d)
             D == [of : Message, embedded : BOOLEAN]
  <2>1. /\ m \in embedding /\ embedding' = embedding \ {m} /\ docs' = LastOf(all, KeepDocs)
        /\ dirty' /\ running /\ UNCHANGED <<backend, said, rows, saved, running>>
    BY <1>2 DEF AddDoc
  <2>2. /\ all \in Seq(D) /\ Len(all) = Len(docs) + 1 /\ all[Len(docs) + 1] = d
        /\ \A i \in 1..Len(docs) : all[i] = docs[i]
    BY AppendProperties
  <2> HIDE DEF all
  <2>3. /\ docs' \in Seq(D) /\ Len(docs') = (IF Len(all) > KeepDocs THEN KeepDocs ELSE Len(all))
        /\ \A i \in 1..Len(docs') : docs'[i] = all[Len(all) - Len(docs') + i]
    BY <2>1, <2>2, LastOfProperties
  <2>4. /\ Len(docs') \in Nat /\ Len(all) \in Nat /\ Len(docs) \in Nat
        /\ Len(docs') <= Len(all) /\ Len(docs') <= KeepDocs
        /\ DOMAIN docs' = 1..Len(docs') /\ DOMAIN docs = 1..Len(docs)
    BY <2>2, <2>3
  <2>5. \A i \in 1..Len(all) :
          /\ all[i].of \in ToSet(said)
          /\ all[i].of \notin embedding'
          /\ \A j \in 1..Len(all) : all[i].of = all[j].of => i = j
    <3>1. \A i \in 1..Len(docs) : all[i].of # m
      BY <2>1, <2>2, <2>4
    <3>2. ASSUME NEW i \in 1..Len(all)
          PROVE  \/ i \in 1..Len(docs) /\ all[i] = docs[i]
                 \/ i = Len(docs) + 1 /\ all[i].of = m
      <4>1. CASE i = Len(docs) + 1
        BY <2>2, <4>1
      <4>2. CASE i # Len(docs) + 1
        <5>1. i \in 1..Len(docs)
          BY <2>2, <2>4, <4>2
        <5>2. \A k \in 1..Len(docs) : all[k] = docs[k]
          BY <2>2
        <5>3. all[i] = docs[i]
          BY <5>1, <5>2
        <5> QED BY <5>1, <5>3
      <4> QED BY <4>1, <4>2
    <3>3. \A i \in 1..Len(docs) : docs[i].of \in ToSet(said) /\ docs[i].of \notin embedding
      BY <2>4
    <3>4. \A i, j \in 1..Len(docs) : docs[i].of = docs[j].of => i = j
      BY <2>4
    <3>5. m \in ToSet(said)
      BY <2>1
    <3>6. ASSUME NEW i \in 1..Len(all) PROVE all[i].of \in ToSet(said) /\ all[i].of \notin embedding'
      BY <2>1, <3>2, <3>3, <3>5
    <3>7. ASSUME NEW i \in 1..Len(all), NEW j \in 1..Len(all), all[i].of = all[j].of PROVE i = j
      BY <3>1, <3>2, <3>4, <3>7
    <3> QED BY <3>6, <3>7
  <2>6. \A i, j \in DOMAIN docs' : docs'[i].of = docs'[j].of => i = j
    <3>1. \A i \in 1..Len(docs') : Len(all) - Len(docs') + i \in 1..Len(all)
      BY <2>4
    <3>2. ASSUME NEW i \in 1..Len(docs'), NEW j \in 1..Len(docs'), docs'[i].of = docs'[j].of
          PROVE  i = j
      <4> DEFINE a == Len(all) - Len(docs') + i
                 b == Len(all) - Len(docs') + j
      <4>1. a \in 1..Len(all) /\ b \in 1..Len(all) /\ docs'[i] = all[a] /\ docs'[j] = all[b]
        BY <2>3, <3>1
      <4>2. all[a].of = all[b].of
        BY <3>2, <4>1
      <4> HIDE DEF a, b
      <4>3. a = b
        BY <2>5, <4>1, <4>2
      <4> QED BY <2>4, <4>3 DEF a, b
    <3> QED BY <2>4, <3>2
  <2>7. \A i \in DOMAIN docs' : docs'[i].of \in ToSet(said) /\ docs'[i].of \notin embedding'
    <3>1. \A i \in 1..Len(docs') : Len(all) - Len(docs') + i \in 1..Len(all)
      BY <2>4
    <3> QED BY <2>3, <2>4, <2>5, <3>1
  <2>8. ConvTypeOK'
    BY <2>1, <2>3
  <2> QED BY <2>1, <2>4, <2>6, <2>7, <2>8
<1>3. ASSUME Flush PROVE ConvInv'
  <2>1. /\ saved' = Messages(docs) /\ running /\ ~dirty'
        /\ UNCHANGED <<backend, said, rows, embedding, docs, running>>
    BY <1>3 DEF Flush
  <2>2. /\ saved' \in Seq(Message) /\ DOMAIN saved' = DOMAIN docs /\ Len(saved') = Len(docs)
        /\ \A i \in DOMAIN docs : saved'[i] = docs[i].of
    <3>1. saved' = [i \in 1..Len(docs) |-> docs[i].of]
      BY <2>1 DEF Messages
    <3>2. \A i \in 1..Len(docs) : docs[i].of \in Message
      <4>1. \A i \in 1..Len(docs) : docs[i] \in [of : Message, embedded : BOOLEAN]
        BY ElementOfSeq
      <4> QED BY <4>1
    <3>3. saved' \in Seq(Message)
      BY <3>1, <3>2
    <3> QED BY <3>1, <3>3
  <2>3. saved' = Messages(docs')
    BY <2>1 DEF Messages
  <2>4. ConvTypeOK'
    BY <1>3, <2>1, <2>2 DEF Flush
  <2> QED BY <2>1, <2>2, <2>3, <2>4
<1>4. ASSUME ConvStop PROVE ConvInv'
  <2>1. <<>> \in Seq([of : Message, embedded : BOOLEAN])
    BY EmptySeq
  <2>2. ConvTypeOK'
    BY <1>4, <2>1 DEF ConvStop
  <2> QED BY <1>4, <2>2 DEF ConvStop
<1>5. ASSUME ConvConnect PROVE ConvInv'
  <2>1. /\ docs' = [i \in 1..Len(saved) |-> [of |-> saved[i], embedded |-> FALSE]]
        /\ running' /\ ~running /\ UNCHANGED <<backend, said, rows, embedding, saved, dirty>>
    BY <1>5 DEF ConvConnect
  <2>2. /\ docs' \in Seq([of : Message, embedded : BOOLEAN]) /\ Len(docs') = Len(saved)
        /\ DOMAIN docs' = DOMAIN saved /\ \A i \in DOMAIN saved : docs'[i].of = saved[i]
    BY <2>1
  <2>3. saved = Messages(docs')
    <3>1. saved = [i \in 1..Len(saved) |-> saved[i]]
      OBVIOUS
    <3> QED BY <2>1, <2>2, <3>1 DEF Messages
  <2>4. ConvTypeOK'
    BY <1>5, <2>1, <2>2 DEF ConvConnect
  <2> QED BY <2>1, <2>2, <2>3, <2>4
<1>6. CASE UNCHANGED convVars
  BY <1>6 DEF convVars, Messages
<1> QED BY <1>1, <1>2, <1>3, <1>4, <1>5, <1>6 DEF ConvNext

LEMMA ConvTrue == ConvInv => MemoryIsTrue
<1> SUFFICES ASSUME ConvInv PROVE MemoryIsTrue
  OBVIOUS
<1> USE ConversationAssumption DEF ConvInv, ConvTypeOK
<1>1. /\ DOMAIN Messages(docs) = DOMAIN docs /\ \A i \in DOMAIN docs : Messages(docs)[i] = docs[i].of
  BY DEF Messages
<1>2. IsInjective(Messages(docs))
  BY <1>1 DEF IsInjective
<1>3. /\ ToSet(Messages(docs)) \cap embedding = {}
      /\ ToSet(Messages(docs)) \cup ToSet(saved) \subseteq ToSet(said)
  BY <1>1 DEF ToSet
<1>4. docs # <<>> => VectorSearch(ToSet(said)) # {}
  <2>1. docs # <<>> => 1 \in DOMAIN docs
    OBVIOUS
  <2> QED BY <2>1 DEF VectorSearch
<1>5. \A n \in DOMAIN rows : GetHistory(n) = LastOf(said, n)
  <2> SUFFICES ASSUME NEW n \in DOMAIN rows PROVE LastOf(rows, n) = LastOf(said, n)
    BY DEF GetHistory
  <2>1. n \in Nat /\ n <= Len(rows)
    OBVIOUS
  <2> QED BY <2>1, LastOfLast
<1> QED BY <1>2, <1>3, <1>4, <1>5, RecentIsRecent DEF MemoryIsTrue

-----------------------------------------------------------------------------
(* What is known *)

\* The first of some positions is one of them, and none comes before it.
LEMMA FirstOf ==
  ASSUME NEW s \in SUBSET Nat, s # {}
  PROVE  First(s) \in s /\ \A j \in s : First(s) <= j
<1>1. s \in SUBSET Nat /\ s # {}
  OBVIOUS
<1>2. PICK i \in s : \A j \in s : ~(<<j, i>> \in OpToRel(<, Nat))
  <2>1. s \subseteq Nat
    BY <1>1
  <2>2. IsWellFoundedOn(OpToRel(<, Nat), Nat)
    BY NatLessThanWellFounded, Zenon
  <2> QED BY <1>1, <2>1, <2>2, WFMin, Zenon
<1>3. \A j \in s : j \in Nat /\ i \in Nat /\ ~(j < i)
  BY <1>1, <1>2 DEF OpToRel
<1>4. \A j \in s : i <= j
  BY <1>3
<1> QED BY <1>4 DEF First

\* The element that comes out, and what is left, in order.
LEMMA RemoveAtProperties ==
  ASSUME NEW S, NEW s \in Seq(S), NEW k \in 1..Len(s)
  PROVE  /\ RemoveAt(s, k) \in Seq(S) /\ Len(RemoveAt(s, k)) = Len(s) - 1
         /\ \A i \in 1..Len(s) - 1 : RemoveAt(s, k)[i] = IF i < k THEN s[i] ELSE s[i + 1]
<1> DEFINE a == SubSeq(s, 1, k - 1)
           b == SubSeq(s, k + 1, Len(s))
<1>1. Len(s) \in Nat /\ k - 1 \in Int /\ k + 1 \in Int /\ k \in Nat /\ 1 <= k /\ k <= Len(s)
  OBVIOUS
<1>2. /\ a \in Seq(S) /\ Len(a) = k - 1 /\ \A i \in 1..k - 1 : a[i] = s[i]
  <2>1. \A i \in 1..k - 1 : s[i] \in S
    BY <1>1
  <2> QED BY <1>1, <2>1, SubSeqProperties
<1>3. /\ b \in Seq(S) /\ Len(b) = Len(s) - k /\ \A i \in 1..Len(s) - k : b[i] = s[k + i]
  <2>1. \A i \in k + 1..Len(s) : s[i] \in S
    BY <1>1
  <2>2. /\ b \in Seq(S) /\ Len(b) = (IF k + 1 <= Len(s) THEN Len(s) - (k + 1) + 1 ELSE 0)
        /\ \A i \in 1..Len(s) - (k + 1) + 1 : b[i] = s[k + 1 + i - 1]
    BY <1>1, <2>1, SubSeqProperties
  <2> QED BY <1>1, <2>2
<1> HIDE DEF a, b
<1>4. /\ a \o b \in Seq(S) /\ Len(a \o b) = Len(a) + Len(b)
      /\ \A i \in 1..Len(a) + Len(b) : (a \o b)[i] = IF i <= Len(a) THEN a[i] ELSE b[i - Len(a)]
  BY <1>2, <1>3, ConcatProperties
<1>5. ASSUME NEW i \in 1..Len(s) - 1 PROVE (a \o b)[i] = IF i < k THEN s[i] ELSE s[i + 1]
  <2>1. CASE i < k
    BY <1>1, <1>2, <1>3, <1>4, <2>1
  <2>2. CASE ~(i < k)
    <3>1. i - (k - 1) \in 1..Len(s) - k /\ k + (i - (k - 1)) = i + 1
      BY <1>1, <2>2
    <3>2. (a \o b)[i] = b[i - (k - 1)]
      BY <1>1, <1>2, <1>3, <1>4, <2>2
    <3> QED BY <1>3, <2>2, <3>1, <3>2
  <2> QED BY <2>1, <2>2
<1>6. Len(a \o b) = Len(s) - 1
  BY <1>1, <1>2, <1>3, <1>4
<1>7. RemoveAt(s, k) = a \o b
  BY DEF a, b, RemoveAt
<1> QED BY <1>4, <1>5, <1>6, <1>7

LEMMA ContentIsSeq ==
  ASSUME NEW c \in Content
  PROVE  c \in Seq(Letter) /\ Len(c) \in 1..MaxLen
  BY KnowledgeAssumption DEF Content

\* How much of a content tells it apart.
Told(c) == IF Len(c) < PrefixLen THEN Len(c) ELSE PrefixLen

LEMMA PrefixProperties ==
  ASSUME NEW c \in Content
  PROVE  /\ Prefix(c) \in Seq(Letter) /\ Len(Prefix(c)) = Told(c)
         /\ Told(c) \in 1..Len(c) /\ Told(c) <= PrefixLen
         /\ \A i \in 1..Told(c) : Prefix(c)[i] = c[i]
<1>1. c \in Seq(Letter) /\ Len(c) \in Nat /\ Len(c) >= 1 /\ PrefixLen \in Nat /\ PrefixLen >= 1
  BY ContentIsSeq, KnowledgeAssumption
<1>2. Told(c) \in 1..Len(c) /\ Told(c) <= PrefixLen
  BY <1>1 DEF Told
<1>3. \A i \in 1..Told(c) : c[i] \in Letter
  BY <1>1, <1>2
<1>4. Prefix(c) = SubSeq(c, 1, Told(c))
  BY DEF Prefix, Told
<1>5. /\ SubSeq(c, 1, Told(c)) \in Seq(Letter) /\ Len(SubSeq(c, 1, Told(c))) = Told(c)
      /\ \A i \in 1..Told(c) : SubSeq(c, 1, Told(c))[i] = c[1 + i - 1]
  BY <1>2, <1>3, SubSeqProperties
<1> QED BY <1>2, <1>4, <1>5

\* What it is for e to start as c does, letter by letter.
BeginsAs(c, e) == Told(c) <= Len(e) /\ \A i \in 1..Told(c) : c[i] = e[i]

LEMMA StartsIsPrefix ==
  ASSUME NEW c \in Content, NEW e \in Content
  PROVE  IsPrefix(Prefix(c), e) <=> BeginsAs(c, e)
<1> DEFINE p == Prefix(c)
           n == Told(c)
<1>1. /\ p \in Seq(Letter) /\ Len(p) = n /\ n \in Nat /\ n >= 1 /\ \A i \in 1..n : p[i] = c[i]
  BY PrefixProperties, ContentIsSeq
<1>2. e \in Seq(Letter) /\ Len(e) \in Nat
  BY ContentIsSeq
<1> HIDE DEF p, n
<1>3. /\ SubSeq(p, 1, n) \in Seq(Letter) /\ Len(SubSeq(p, 1, n)) = n
      /\ \A i \in 1..n : SubSeq(p, 1, n)[i] = p[i]
  <2>1. \A i \in 1..n : p[i] \in Letter
    BY <1>1
  <2>2. \A i \in 1..n - 1 + 1 : SubSeq(p, 1, n)[i] = p[1 + i - 1]
    BY <1>1, <2>1, SubSeqProperties
  <2> QED BY <1>1, <2>1, <2>2, SubSeqProperties
<1>4. ASSUME n <= Len(e)
      PROVE  /\ SubSeq(e, 1, n) \in Seq(Letter) /\ Len(SubSeq(e, 1, n)) = n
             /\ \A i \in 1..n : SubSeq(e, 1, n)[i] = e[i]
  <2>1. \A i \in 1..n : e[i] \in Letter
    BY <1>1, <1>2, <1>4
  <2>2. \A i \in 1..n - 1 + 1 : SubSeq(e, 1, n)[i] = e[1 + i - 1]
    BY <1>1, <2>1, SubSeqProperties
  <2> QED BY <1>1, <2>1, <2>2, SubSeqProperties
<1>5. ASSUME n <= Len(e), \A i \in 1..n : c[i] = e[i]
      PROVE  SubSeq(p, 1, n) = SubSeq(e, 1, n)
  BY <1>1, <1>3, <1>4, <1>5, SeqEqual
<1>6. ASSUME n <= Len(e), SubSeq(p, 1, n) = SubSeq(e, 1, n), NEW i \in 1..n
      PROVE  c[i] = e[i]
  BY <1>1, <1>3, <1>4, <1>6
<1> QED BY <1>1, <1>5, <1>6 DEF IsPrefix, BeginsAs, p, n

LEMMA StartsSelf == ASSUME NEW c \in Content PROVE BeginsAs(c, c)
  BY PrefixProperties, ContentIsSeq DEF BeginsAs

\* What starts c starts whatever starts as c does.
LEMMA StartsThrough ==
  ASSUME NEW c \in Content, NEW d \in Content, NEW e \in Content, BeginsAs(d, c), BeginsAs(c, e)
  PROVE  BeginsAs(d, e)
<1>1. /\ Told(d) <= Told(c) /\ Told(d) \in Nat /\ Told(c) \in Nat /\ Told(c) <= Len(e)
      /\ Len(e) \in Nat
  <2>1. /\ Len(c) \in Nat /\ Len(d) \in Nat /\ Len(e) \in Nat /\ PrefixLen \in Nat
        /\ Told(d) <= Len(c) /\ Told(c) <= Len(e)
    BY ContentIsSeq, KnowledgeAssumption DEF BeginsAs
  <2> QED BY <2>1 DEF Told
<1> QED BY <1>1 DEF BeginsAs

\* A later entry never starts as an earlier one does: of two that do, the
\* later would have overwritten the earlier.
Apart == \A i, j \in DOMAIN entries : i < j => ~BeginsAs(entries[j], entries[i])

OneRowEach(es) ==
  \A i, j \in DOMAIN es : es[i].name = es[j].name /\ es[i].type = es[j].type => i = j
EndsKnown(es) == \A i \in DOMAIN edges : edges[i].from \in DOMAIN es /\ edges[i].to \in DOMAIN es
OneEdgeEach ==
  backing = "sqlite" =>
    \A i, j \in DOMAIN edges :
      edges[i].from = edges[j].from /\ edges[i].to = edges[j].to /\ edges[i].rel = edges[j].rel
      => i = j

KnowInv == /\ KnowTypeOK /\ Len(entries) <= MaxEntries /\ Apart
           /\ OneRowEach(entities) /\ EndsKnown(entities) /\ OneEdgeEach

LEMMA KnowStart == KnowInit => KnowInv
<1> SUFFICES ASSUME KnowInit PROVE KnowInv
  OBVIOUS
<1>1. /\ entries \in Seq(Content) /\ used \in Seq(Nat)
      /\ entities \in Seq([name : Name, type : Kind, mentions : Nat])
      /\ edges \in Seq([from : Nat, to : Nat, rel : Relation, strength : Nat])
  BY EmptySeq DEF KnowInit
<1>2. KnowTypeOK
  BY <1>1, KnowledgeAssumption DEF KnowTypeOK, KnowInit
<1> QED BY <1>2, KnowledgeAssumption
        DEF KnowInv, KnowInit, Apart, OneRowEach, EndsKnown, OneEdgeEach

\* A content that starts as no entry does may be added at the end.
LEMMA ApartAppend ==
  ASSUME NEW es \in Seq(Content), NEW c \in Content,
         \A i, j \in DOMAIN es : i < j => ~BeginsAs(es[j], es[i]),
         \A i \in DOMAIN es : ~BeginsAs(c, es[i])
  PROVE  \A i, j \in DOMAIN Append(es, c) : i < j => ~BeginsAs(Append(es, c)[j], Append(es, c)[i])
<1> DEFINE fs == Append(es, c)
<1>1. /\ Len(es) \in Nat /\ DOMAIN es = 1..Len(es) /\ DOMAIN fs = 1..Len(es) + 1
      /\ fs[Len(es) + 1] = c /\ \A i \in 1..Len(es) : fs[i] = es[i]
  BY AppendProperties
<1> HIDE DEF fs
<1>2. SUFFICES ASSUME NEW i \in DOMAIN fs, NEW j \in DOMAIN fs, i < j PROVE ~BeginsAs(fs[j], fs[i])
  BY DEF fs
<1>3. i \in DOMAIN es /\ fs[i] = es[i]
  BY <1>1, <1>2
<1>4. CASE j = Len(es) + 1
  BY <1>1, <1>3, <1>4
<1>5. CASE j # Len(es) + 1
  <2>1. j \in DOMAIN es /\ fs[j] = es[j]
    BY <1>1, <1>5
  <2> QED BY <1>2, <1>3, <2>1
<1> QED BY <1>4, <1>5

\* Without one of them, the others are still apart.
LEMMA ApartRemove ==
  ASSUME NEW es \in Seq(Content), NEW k \in 1..Len(es),
         \A i, j \in DOMAIN es : i < j => ~BeginsAs(es[j], es[i])
  PROVE  LET fs == RemoveAt(es, k) IN
         /\ \A i, j \in DOMAIN fs : i < j => ~BeginsAs(fs[j], fs[i])
         /\ \A i \in DOMAIN fs : \E j \in DOMAIN es : fs[i] = es[j]
<1> DEFINE fs == RemoveAt(es, k)
           src(i) == IF i < k THEN i ELSE i + 1
<1>1. /\ Len(es) \in Nat /\ DOMAIN es = 1..Len(es) /\ DOMAIN fs = 1..Len(es) - 1
      /\ \A i \in 1..Len(es) - 1 : fs[i] = IF i < k THEN es[i] ELSE es[i + 1]
  <2>1. /\ fs \in Seq(Content) /\ Len(fs) = Len(es) - 1
        /\ \A i \in 1..Len(es) - 1 : fs[i] = IF i < k THEN es[i] ELSE es[i + 1]
    BY RemoveAtProperties, Zenon
  <2> QED BY <2>1
<1> HIDE DEF fs
<1>2. \A i \in DOMAIN fs : src(i) \in DOMAIN es /\ fs[i] = es[src(i)]
  BY <1>1
<1>3. \A i, j \in DOMAIN fs : i < j => src(i) < src(j)
  BY <1>1
<1> HIDE DEF src
<1>4. \A i, j \in DOMAIN fs : i < j => ~BeginsAs(fs[j], fs[i])
  BY <1>2, <1>3
<1>5. \A i \in DOMAIN fs : \E j \in DOMAIN es : fs[i] = es[j]
  BY <1>2
<1> QED BY <1>4, <1>5 DEF fs

\* Who starts as c does, and the first of them.
LEMMA SameStartProperties ==
  ASSUME KnowTypeOK, NEW c \in Content
  PROVE  /\ \A i \in DOMAIN entries : i \in SameStart(c) <=> BeginsAs(c, entries[i])
         /\ SameStart(c) # {} => /\ First(SameStart(c)) \in SameStart(c)
                                 /\ \A j \in SameStart(c) : First(SameStart(c)) <= j
<1>1. entries \in Seq(Content) /\ DOMAIN entries = 1..Len(entries) /\ Len(entries) \in Nat
  BY DEF KnowTypeOK
<1>2. \A i \in DOMAIN entries : entries[i] \in Content
  BY <1>1
<1>3. SameStart(c) \in SUBSET Nat
  BY <1>1 DEF SameStart
<1>4. \A i \in DOMAIN entries : i \in SameStart(c) <=> BeginsAs(c, entries[i])
  BY <1>2, StartsIsPrefix DEF SameStart
<1> QED BY <1>3, <1>4, FirstOf

LEMMA EntryAdded ==
  ASSUME KnowInv, NEW c \in Content, AddEntry(c)
  PROVE  /\ entries' \in Seq(Content) /\ used' \in Seq(Nat) /\ Len(used') = Len(entries')
         /\ Len(entries') <= MaxEntries /\ Apart'
<1>1. /\ entries \in Seq(Content) /\ used \in Seq(Nat) /\ Len(used) = Len(entries)
      /\ Len(entries) \in Nat /\ Len(entries) <= MaxEntries /\ MaxEntries \in Nat \ {0}
      /\ DOMAIN entries = 1..Len(entries) /\ DOMAIN used = 1..Len(entries)
  BY KnowledgeAssumption DEF KnowInv, KnowTypeOK
<1>2. \A i, j \in DOMAIN entries : i < j => ~BeginsAs(entries[j], entries[i])
  BY DEF KnowInv, Apart
<1>3. \A i \in DOMAIN entries : entries[i] \in Content
  BY <1>1
<1>4. CASE SameStart(c) # {} /\ used' = used
           /\ entries' = [entries EXCEPT ![First(SameStart(c))] = c]
  <2> DEFINE k == First(SameStart(c))
  <2>1. k \in DOMAIN entries /\ BeginsAs(c, entries[k]) /\ \A j \in SameStart(c) : k <= j
    <3>1. k \in SameStart(c) /\ \A j \in SameStart(c) : k <= j
      BY <1>4, SameStartProperties DEF KnowInv
    <3> QED BY <3>1, SameStartProperties DEF KnowInv, SameStart
  <2>2. entries' = [entries EXCEPT ![k] = c] /\ used' = used
    BY <1>4
  <2> HIDE DEF k
  <2>3. entries' \in Seq(Content) /\ Len(entries') = Len(entries) /\ DOMAIN entries' = DOMAIN entries
    BY <1>1, <2>1, <2>2
  <2>4. entries'[k] = c /\ \A i \in DOMAIN entries : i # k => entries'[i] = entries[i]
    BY <1>1, <2>1, <2>2
  <2>5. ASSUME NEW i \in DOMAIN entries, NEW j \in DOMAIN entries, i < j
        PROVE  ~BeginsAs(entries'[j], entries'[i])
    <3>1. CASE j = k
      <4>1. i \notin SameStart(c)
        BY <1>1, <2>1, <2>5, <3>1
      <4>2. ~BeginsAs(c, entries[i]) /\ i # k
        BY <1>1, <2>5, <3>1, <4>1, SameStartProperties DEF KnowInv
      <4> QED BY <2>4, <3>1, <4>2
    <3>2. CASE i = k
      <4>1. ~BeginsAs(entries[j], entries[k]) /\ j # k /\ entries[j] \in Content
            /\ entries[k] \in Content
        BY <1>1, <1>2, <1>3, <2>5, <3>2
      <4>2. ~BeginsAs(entries[j], c)
        BY <2>1, <4>1, StartsThrough
      <4> QED BY <2>4, <3>2, <4>1, <4>2
    <3>3. CASE i # k /\ j # k
      BY <1>2, <2>4, <2>5, <3>3
    <3> QED BY <3>1, <3>2, <3>3
  <2> QED BY <1>1, <2>2, <2>3, <2>5 DEF Apart
<1>5. CASE SameStart(c) = {} /\ Len(entries) < MaxEntries
           /\ entries' = Append(entries, c) /\ used' = Append(used, 0)
  <2>1. entries' \in Seq(Content) /\ used' \in Seq(Nat) /\ Len(entries') = Len(entries) + 1
        /\ Len(used') = Len(entries) + 1
    BY <1>1, <1>5, AppendProperties
  <2>2. \A i \in DOMAIN entries : ~BeginsAs(c, entries[i])
    BY <1>5, SameStartProperties DEF KnowInv
  <2>3. \A i, j \in DOMAIN Append(entries, c) :
          i < j => ~BeginsAs(Append(entries, c)[j], Append(entries, c)[i])
    BY <1>1, <1>2, <2>2, ApartAppend
  <2>4. Apart'
    BY <1>5, <2>3 DEF Apart
  <2> QED BY <1>1, <1>5, <2>1, <2>4
<1>6. CASE /\ SameStart(c) = {} /\ Len(entries) >= MaxEntries
           /\ \E k \in Evictable : /\ entries' = Append(RemoveAt(entries, k), c)
                                   /\ used' = Append(RemoveAt(used, k), 0)
  <2>1. PICK k \in Evictable : /\ entries' = Append(RemoveAt(entries, k), c)
                               /\ used' = Append(RemoveAt(used, k), 0)
    BY <1>6
  <2>2. k \in 1..Len(entries)
    BY <1>1, <1>6 DEF Evictable
  <2> DEFINE es == RemoveAt(entries, k)
             us == RemoveAt(used, k)
  <2>3. es \in Seq(Content) /\ us \in Seq(Nat) /\ Len(es) = Len(entries) - 1
        /\ Len(us) = Len(entries) - 1
    <3>1. k \in 1..Len(used)
      BY <1>1, <2>2
    <3>2. es \in Seq(Content) /\ Len(es) = Len(entries) - 1
      BY <1>1, <2>2, RemoveAtProperties, Zenon
    <3>3. us \in Seq(Nat) /\ Len(us) = Len(used) - 1
      BY <1>1, <3>1, RemoveAtProperties, Zenon
    <3> QED BY <1>1, <3>2, <3>3
  <2>4. /\ \A i, j \in DOMAIN es : i < j => ~BeginsAs(es[j], es[i])
        /\ \A i \in DOMAIN es : \E j \in DOMAIN entries : es[i] = entries[j]
    BY <1>1, <1>2, <2>2, ApartRemove
  <2>5. entries' = Append(es, c) /\ used' = Append(us, 0)
    BY <2>1
  <2> HIDE DEF es, us
  <2>6. \A i \in DOMAIN entries : ~BeginsAs(c, entries[i])
    BY <1>6, SameStartProperties DEF KnowInv
  <2>7. \A i \in DOMAIN es : ~BeginsAs(c, es[i])
    BY <2>4, <2>6
  <2>8. \A i, j \in DOMAIN Append(es, c) : i < j => ~BeginsAs(Append(es, c)[j], Append(es, c)[i])
    BY <2>3, <2>4, <2>7, ApartAppend
  <2>9. Apart'
    BY <2>5, <2>8 DEF Apart
  <2>10. entries' \in Seq(Content) /\ used' \in Seq(Nat) /\ Len(entries') = Len(entries)
         /\ Len(used') = Len(entries)
    <3>1. /\ Append(es, c) \in Seq(Content) /\ Len(Append(es, c)) = Len(es) + 1
          /\ Append(us, 0) \in Seq(Nat) /\ Len(Append(us, 0)) = Len(us) + 1
      BY <2>3, AppendProperties
    <3>2. Len(es) + 1 = Len(entries) /\ Len(us) + 1 = Len(entries)
      BY <1>1, <2>3
    <3> QED BY <2>5, <3>1, <3>2
  <2> QED BY <1>1, <2>9, <2>10
<1> QED BY <1>4, <1>5, <1>6 DEF AddEntry

EntityRow == [name : Name, type : Kind, mentions : Nat]
EdgeRow == [from : Nat, to : Nat, rel : Relation, strength : Nat]

LEMMA KnownProperties ==
  ASSUME NEW es \in Seq(EntityRow), NEW n \in Name, NEW t \in Kind
  PROVE  /\ Known(es, n, t) \subseteq DOMAIN es
         /\ Known(es, n, t) # {} => First(Known(es, n, t)) \in Known(es, n, t)
         /\ Called(es, n) # {} => Found(es, n) \subseteq DOMAIN es
<1>1. /\ Called(es, n) \in SUBSET Nat /\ Called(es, n) \subseteq DOMAIN es
      /\ Known(es, n, t) \in SUBSET Nat /\ Known(es, n, t) \subseteq DOMAIN es
  BY DEF Known, Called
<1>2. Called(es, n) # {} => First(Called(es, n)) \in Called(es, n)
  BY <1>1, FirstOf
<1>3. Known(es, n, t) # {} => First(Known(es, n, t)) \in Known(es, n, t)
  BY <1>1, FirstOf
<1>4. Called(es, n) # {} => Found(es, n) \subseteq DOMAIN es
  BY <1>1, <1>2 DEF Found
<1> QED BY <1>1, <1>3, <1>4

\* An entity named again with its type keeps its row, another gets a row of its
\* own; no name loses its rows.
LEMMA Upserted ==
  ASSUME NEW es \in Seq(EntityRow), OneRowEach(es), NEW n \in Name, NEW t \in Kind
  PROVE  LET fs == Upsert(es, n, t) IN
         /\ fs \in Seq(EntityRow) /\ OneRowEach(fs) /\ DOMAIN es \subseteq DOMAIN fs
         /\ Known(fs, n, t) # {} /\ Called(fs, n) # {}
         /\ \A m \in Name : Called(es, m) \subseteq Called(fs, m)
         /\ \A m \in Name, u \in Kind : Known(es, m, u) \subseteq Known(fs, m, u)
<1> DEFINE fs == Upsert(es, n, t)
           k == First(Known(es, n, t))
           new == [name |-> n, type |-> t, mentions |-> 1]
<1>0. Len(es) \in Nat /\ DOMAIN es = 1..Len(es) /\ \A i \in DOMAIN es : es[i] \in EntityRow
  OBVIOUS
<1>1. CASE Known(es, n, t) = {}
  <2>1. fs = Append(es, new) /\ new \in EntityRow /\ new.name = n /\ new.type = t
    BY <1>1 DEF Upsert, EntityRow
  <2> HIDE DEF fs, new
  <2>2. /\ fs \in Seq(EntityRow) /\ DOMAIN fs = 1..Len(es) + 1 /\ fs[Len(es) + 1] = new
        /\ \A i \in 1..Len(es) : fs[i] = es[i]
    BY <1>0, <2>1, AppendProperties
  <2>3. \A i \in DOMAIN es : ~(es[i].name = n /\ es[i].type = t)
    BY <1>1 DEF Known, Called
  <2>4. ASSUME NEW i \in DOMAIN fs, NEW j \in DOMAIN fs,
               fs[i].name = fs[j].name, fs[i].type = fs[j].type
        PROVE  i = j
    <3>1. CASE i = Len(es) + 1 \/ j = Len(es) + 1
      BY <1>0, <2>1, <2>2, <2>3, <2>4, <3>1
    <3>2. CASE i # Len(es) + 1 /\ j # Len(es) + 1
      <4>1. i \in DOMAIN es /\ j \in DOMAIN es /\ es[i].name = es[j].name /\ es[i].type = es[j].type
        BY <1>0, <2>2, <2>4, <3>2
      <4> QED BY <4>1 DEF OneRowEach
    <3> QED BY <3>1, <3>2
  <2>5. Len(es) + 1 \in Known(fs, n, t) /\ Len(es) + 1 \in Called(fs, n)
    BY <1>0, <2>1, <2>2 DEF Known, Called
  <2>6. \A m \in Name : Called(es, m) \subseteq Called(fs, m)
    BY <1>0, <2>2 DEF Called
  <2>7. \A m \in Name, u \in Kind : Known(es, m, u) \subseteq Known(fs, m, u)
    BY <1>0, <2>2 DEF Known, Called
  <2>8. OneRowEach(fs)
    BY <2>4 DEF OneRowEach
  <2>9. DOMAIN es \subseteq DOMAIN fs
    BY <1>0, <2>2
  <2> QED BY <2>2, <2>5, <2>6, <2>7, <2>8, <2>9 DEF fs
<1>2. CASE Known(es, n, t) # {}
  <2>1. k \in DOMAIN es /\ k \in Known(es, n, t)
    BY <1>2, KnownProperties
  <2>2. fs = [es EXCEPT ![k].mentions = @ + 1]
    BY <1>2 DEF Upsert
  <2>3. k \in Called(es, n)
    BY <2>1 DEF Known
  <2> HIDE DEF fs, k
  <2>4. LET e == [es[k] EXCEPT !.mentions = @ + 1]
        IN  e \in EntityRow /\ e.name = es[k].name /\ e.type = es[k].type
    BY <1>0, <2>1 DEF EntityRow
  <2>5. /\ DOMAIN fs = DOMAIN es /\ fs[k] = [es[k] EXCEPT !.mentions = @ + 1]
        /\ \A i \in DOMAIN es : i # k => fs[i] = es[i]
    BY <2>1, <2>2
  <2>6. \A i \in DOMAIN es : fs[i] \in EntityRow /\ fs[i].name = es[i].name /\ fs[i].type = es[i].type
    BY <1>0, <2>4, <2>5
  <2>7. fs \in Seq(EntityRow)
    <3>1. fs = [i \in 1..Len(es) |-> fs[i]]
      BY <1>0, <2>2
    <3> QED BY <1>0, <2>6, <3>1
  <2>8. OneRowEach(fs)
    BY <2>5, <2>6 DEF OneRowEach
  <2>9. \A m \in Name : Called(es, m) = Called(fs, m)
    BY <2>5, <2>6 DEF Called
  <2>10. \A m \in Name, u \in Kind : Known(es, m, u) = Known(fs, m, u)
    BY <2>5, <2>6, <2>9 DEF Known, Called
  <2> QED BY <2>1, <2>3, <2>5, <2>7, <2>8, <2>9, <2>10 DEF fs
<1> QED BY <1>1, <1>2

\* An end of a relationship has a row after it, and no name loses its rows.
LEMMA Ensured ==
  ASSUME NEW es \in Seq(EntityRow), OneRowEach(es), NEW n \in Name
  PROVE  LET fs == Ensure(es, n) IN
         /\ fs \in Seq(EntityRow) /\ OneRowEach(fs) /\ DOMAIN es \subseteq DOMAIN fs
         /\ Called(fs, n) # {} /\ \A m \in Name : Called(es, m) \subseteq Called(fs, m)
         /\ \A m \in Name, u \in Kind : Known(es, m, u) \subseteq Known(fs, m, u)
<1>1. CASE Called(es, n) = {}
  <2>1. Ensure(es, n) = Upsert(es, n, "unknown") /\ "unknown" \in Kind
    BY <1>1, KnowledgeAssumption DEF Ensure
  <2> QED BY <2>1, Upserted
<1>2. CASE Called(es, n) # {}
  <2>1. Ensure(es, n) = es
    BY <1>2 DEF Ensure
  <2> QED BY <1>2, <2>1
<1> QED BY <1>1, <1>2

\* A known relationship keeps its row: none gets a second one.
LEMMA Related ==
  ASSUME KnowInv, NEW es \in Seq(EntityRow), DOMAIN entities \subseteq DOMAIN es,
         NEW a \in DOMAIN es, NEW b \in DOMAIN es, NEW r \in Relation, Relate(a, b, r),
         backing' = backing
  PROVE  /\ edges' \in Seq(EdgeRow) /\ OneEdgeEach'
         /\ \A i \in DOMAIN edges' : edges'[i].from \in DOMAIN es /\ edges'[i].to \in DOMAIN es
<1> DEFINE same == {i \in DOMAIN edges : edges[i].from = a /\ edges[i].to = b /\ edges[i].rel = r}
           new == [from |-> a, to |-> b, rel |-> r, strength |-> 2]
           k == First(same)
<1>1. edges \in Seq(EdgeRow)
  BY DEF KnowInv, KnowTypeOK, EdgeRow
<1>2. Len(edges) \in Nat /\ DOMAIN edges = 1..Len(edges) /\ \A i \in DOMAIN edges : edges[i] \in EdgeRow
  BY <1>1
<1>3. \A i \in DOMAIN edges : edges[i].from \in DOMAIN es /\ edges[i].to \in DOMAIN es
  BY DEF KnowInv, EndsKnown
<1>4. CASE backing = "sqlite" /\ same # {}
  <2>1. k \in DOMAIN edges
    <3>1. same \in SUBSET Nat
      BY <1>2
    <3> HIDE DEF same
    <3>2. k \in same
      BY <1>4, <3>1, FirstOf
    <3> QED BY <3>2 DEF same
  <2>2. edges' = [edges EXCEPT ![k].strength = @ + 1]
    BY <1>4 DEF Relate
  <2> HIDE DEF k
  <2>3. /\ DOMAIN edges' = DOMAIN edges /\ edges'[k] = [edges[k] EXCEPT !.strength = @ + 1]
        /\ \A i \in DOMAIN edges : i # k => edges'[i] = edges[i]
    BY <2>1, <2>2
  <2>4. LET e == [edges[k] EXCEPT !.strength = @ + 1]
        IN  e \in EdgeRow /\ e.from = edges[k].from /\ e.to = edges[k].to /\ e.rel = edges[k].rel
    BY <1>2, <2>1 DEF EdgeRow
  <2>5. \A i \in DOMAIN edges : /\ edges'[i] \in EdgeRow /\ edges'[i].from = edges[i].from
                                /\ edges'[i].to = edges[i].to /\ edges'[i].rel = edges[i].rel
    BY <1>2, <2>3, <2>4
  <2>6. edges' \in Seq(EdgeRow)
    <3>1. edges' = [i \in 1..Len(edges) |-> edges'[i]]
      BY <1>2, <2>2
    <3> QED BY <1>2, <2>5, <3>1
  <2>7. OneEdgeEach'
    BY <1>4, <2>3, <2>5 DEF OneEdgeEach, KnowInv
  <2> QED BY <1>3, <2>3, <2>5, <2>6, <2>7
<1>5. CASE ~(backing = "sqlite" /\ same # {})
  <2>1. edges' = Append(edges, new)
    BY <1>5 DEF Relate
  <2>2. new \in EdgeRow /\ new.from = a /\ new.to = b /\ new.rel = r
    BY DEF EdgeRow
  <2>3. backing = "sqlite" => \A i \in DOMAIN edges :
                                ~(edges[i].from = a /\ edges[i].to = b /\ edges[i].rel = r)
    BY <1>5
  <2> HIDE DEF new, same
  <2>4. /\ edges' \in Seq(EdgeRow) /\ DOMAIN edges' = 1..Len(edges) + 1
        /\ edges'[Len(edges) + 1] = new /\ \A i \in 1..Len(edges) : edges'[i] = edges[i]
    BY <1>1, <1>2, <2>1, <2>2, AppendProperties
  <2>5. \A i \in DOMAIN edges' : edges'[i].from \in DOMAIN es /\ edges'[i].to \in DOMAIN es
    BY <1>2, <1>3, <2>2, <2>4
  <2>6. ASSUME backing = "sqlite", NEW i \in DOMAIN edges', NEW j \in DOMAIN edges',
               edges'[i].from = edges'[j].from, edges'[i].to = edges'[j].to,
               edges'[i].rel = edges'[j].rel
        PROVE  i = j
    <3>1. CASE i = Len(edges) + 1 /\ j # Len(edges) + 1
      BY <1>2, <2>2, <2>3, <2>4, <2>6, <3>1
    <3>2. CASE i # Len(edges) + 1 /\ j = Len(edges) + 1
      BY <1>2, <2>2, <2>3, <2>4, <2>6, <3>2
    <3>3. CASE i # Len(edges) + 1 /\ j # Len(edges) + 1
      <4>1. /\ i \in DOMAIN edges /\ j \in DOMAIN edges /\ edges[i].from = edges[j].from
            /\ edges[i].to = edges[j].to /\ edges[i].rel = edges[j].rel
        BY <1>2, <2>4, <2>6, <3>3
      <4> QED BY <2>6, <4>1 DEF OneEdgeEach, KnowInv
    <3> QED BY <3>1, <3>2, <3>3
  <2>7. OneEdgeEach'
    BY <2>6 DEF OneEdgeEach
  <2> QED BY <2>4, <2>5, <2>7
<1> QED BY <1>4, <1>5

LEMMA KnowStep == KnowInv /\ [KnowNext]_knowVars => KnowInv'
<1> SUFFICES ASSUME KnowInv, [KnowNext]_knowVars PROVE KnowInv'
  OBVIOUS
<1>0. /\ backing \in {"sqlite", "json"} /\ entries \in Seq(Content) /\ used \in Seq(Nat)
      /\ Len(used) = Len(entries) /\ entities \in Seq(EntityRow) /\ edges \in Seq(EdgeRow)
      /\ answers \in 0..MaxAnswers /\ Len(entries) <= MaxEntries
  BY DEF KnowInv, KnowTypeOK, EntityRow, EdgeRow
<1>1. ASSUME NEW c \in Content, KnowledgeExtracted(c) PROVE KnowInv'
  <2>1. /\ entries' \in Seq(Content) /\ used' \in Seq(Nat) /\ Len(used') = Len(entries')
        /\ Len(entries') <= MaxEntries /\ Apart'
    BY <1>1, EntryAdded DEF KnowledgeExtracted
  <2>2. answers' \in 0..MaxAnswers /\ UNCHANGED <<backing, entities, edges>>
    BY <1>0, <1>1, KnowledgeAssumption DEF KnowledgeExtracted
  <2> QED BY <2>1, <2>2 DEF KnowInv, KnowTypeOK, OneRowEach, EndsKnown, OneEdgeEach
<1>2. ASSUME NEW k \in 1..MaxEntries, BuildContext(k) PROVE KnowInv'
  <2>1. used' \in Seq(Nat) /\ Len(used') = Len(used)
    BY <1>0, <1>2 DEF BuildContext
  <2> QED BY <1>2, <2>1 DEF BuildContext, KnowInv, KnowTypeOK, Apart, OneRowEach, EndsKnown, OneEdgeEach
<1>3. ASSUME NEW k \in 1..MaxEntries, RemoveEntry(k) PROVE KnowInv'
  <2>1. k \in 1..Len(entries) /\ k \in 1..Len(used) /\ Len(entries) \in Nat
    BY <1>0, <1>3 DEF RemoveEntry
  <2>2. /\ entries' \in Seq(Content) /\ Len(entries') = Len(entries) - 1
        /\ used' \in Seq(Nat) /\ Len(used') = Len(used) - 1
    <3>1. RemoveAt(entries, k) \in Seq(Content) /\ Len(RemoveAt(entries, k)) = Len(entries) - 1
      BY <1>0, <2>1, RemoveAtProperties, Zenon
    <3>2. RemoveAt(used, k) \in Seq(Nat) /\ Len(RemoveAt(used, k)) = Len(used) - 1
      BY <1>0, <2>1, RemoveAtProperties, Zenon
    <3> QED BY <1>3, <3>1, <3>2 DEF RemoveEntry
  <2>3. Apart'
    <3>1. \A i, j \in DOMAIN entries : i < j => ~BeginsAs(entries[j], entries[i])
      BY DEF KnowInv, Apart
    <3> DEFINE fs == RemoveAt(entries, k)
    <3>2. \A i, j \in DOMAIN fs : i < j => ~BeginsAs(fs[j], fs[i])
      BY <1>0, <2>1, <3>1, ApartRemove
    <3>3. entries' = fs
      BY <1>3 DEF RemoveEntry
    <3> HIDE DEF fs
    <3> QED BY <3>2, <3>3 DEF Apart
  <2>4. Len(entries') <= MaxEntries /\ Len(used') = Len(entries')
    BY <1>0, <2>1, <2>2, KnowledgeAssumption
  <2> QED BY <1>3, <2>2, <2>3, <2>4
          DEF RemoveEntry, KnowInv, KnowTypeOK, OneRowEach, EndsKnown, OneEdgeEach
<1>4. ASSUME NEW typed \in BOOLEAN, NEW t \in Kind, NEW n \in Name, NEW m \in Name,
             NEW r \in Relation, GraphExtracted(typed, t, n, m, r)
      PROVE  KnowInv'
  <2> DEFINE es1 == IF typed THEN Upsert(entities, n, t) ELSE entities
             es2 == Ensure(es1, n)
             es3 == Ensure(es2, m)
             end(k) == IF typed /\ k = n THEN Known(es3, n, t) ELSE Found(es3, k)
  <2>1. /\ answers' = answers + 1 /\ answers < MaxAnswers
        /\ \/ entities' = es1 /\ UNCHANGED edges
           \/ entities' = es3 /\ \E a \in end(n), b \in end(m) : Relate(a, b, r)
        /\ UNCHANGED <<backing, entries, used>>
    BY <1>4 DEF GraphExtracted
  <2>2. /\ es1 \in Seq(EntityRow) /\ OneRowEach(es1) /\ DOMAIN entities \subseteq DOMAIN es1
    BY <1>0, Upserted DEF KnowInv
  <2>3. /\ es2 \in Seq(EntityRow) /\ OneRowEach(es2) /\ DOMAIN es1 \subseteq DOMAIN es2
        /\ Called(es2, n) # {}
    <3> HIDE DEF es1
    <3> QED BY <2>2, Ensured
  <2>4. /\ es3 \in Seq(EntityRow) /\ OneRowEach(es3) /\ DOMAIN es2 \subseteq DOMAIN es3
        /\ Called(es3, n) # {} /\ Called(es3, m) # {}
    <3> HIDE DEF es2
    <3> QED BY <2>3, Ensured
  <2>5. answers' \in 0..MaxAnswers
    BY <1>0, <2>1, KnowledgeAssumption
  <2>6. end(n) \subseteq DOMAIN es3 /\ end(m) \subseteq DOMAIN es3
    <3> HIDE DEF es3
    <3> QED BY <2>4, KnownProperties
  <2> HIDE DEF es1, es2, es3, end
  <2>7. CASE entities' = es1 /\ UNCHANGED edges
    <3>1. EndsKnown(entities)' /\ OneRowEach(entities)' /\ OneEdgeEach'
      BY <2>1, <2>2, <2>7 DEF KnowInv, EndsKnown, OneRowEach, OneEdgeEach
    <3>2. KnowTypeOK'
      BY <1>0, <2>1, <2>2, <2>5, <2>7 DEF KnowTypeOK, EntityRow, EdgeRow
    <3> QED BY <1>0, <2>1, <3>1, <3>2 DEF KnowInv, Apart
  <2>8. CASE entities' = es3 /\ \E a \in end(n), b \in end(m) : Relate(a, b, r)
    <3>1. PICK a \in end(n), b \in end(m) : Relate(a, b, r)
      BY <2>8
    <3>2. DOMAIN entities \subseteq DOMAIN es3 /\ a \in DOMAIN es3 /\ b \in DOMAIN es3
      BY <2>2, <2>3, <2>4, <2>6
    <3>3. /\ edges' \in Seq(EdgeRow) /\ OneEdgeEach'
          /\ \A i \in DOMAIN edges' : edges'[i].from \in DOMAIN es3 /\ edges'[i].to \in DOMAIN es3
      BY <2>1, <2>4, <3>1, <3>2, Related
    <3>4. KnowTypeOK'
      BY <1>0, <2>1, <2>4, <2>5, <2>8, <3>3 DEF KnowTypeOK, EntityRow, EdgeRow
    <3>5. EndsKnown(entities)' /\ OneRowEach(entities)'
      BY <2>4, <2>8, <3>3 DEF EndsKnown, OneRowEach
    <3> QED BY <1>0, <2>1, <3>3, <3>4, <3>5 DEF KnowInv, Apart
  <2> QED BY <2>1, <2>7, <2>8
<1>5. CASE UNCHANGED knowVars
  BY <1>5 DEF knowVars, KnowInv, KnowTypeOK, Apart, OneRowEach, EndsKnown, OneEdgeEach
<1> QED BY <1>1, <1>2, <1>3, <1>4, <1>5 DEF KnowNext

LEMMA KnowTrue == KnowInv => NothingTwice
<1> SUFFICES ASSUME KnowInv PROVE NothingTwice
  OBVIOUS
<1>1. entries \in Seq(Content) /\ Len(entries) \in Nat /\ DOMAIN entries = 1..Len(entries)
  BY DEF KnowInv, KnowTypeOK
<1>2. ASSUME NEW i \in DOMAIN entries, NEW j \in DOMAIN entries, entries[i] = entries[j]
      PROVE  i = j
  <2>1. BeginsAs(entries[j], entries[i]) /\ BeginsAs(entries[i], entries[j])
    BY <1>1, <1>2, StartsSelf
  <2>2. ~(i < j) /\ ~(j < i)
    BY <2>1 DEF KnowInv, Apart
  <2> QED BY <1>1, <2>2
<1> QED BY <1>2 DEF KnowInv, NothingTwice, IsInjective, OneRowEach, EndsKnown, OneEdgeEach

-----------------------------------------------------------------------------
(* The services together *)

\* Every module takes a step of its own or none at all, whichever moves.
LEMMA EachMoves ==
  ASSUME [ServicesNext]_servicesVars
  PROVE  /\ [ChannelNext]_channelVars /\ [HeartbeatNext]_beatVars /\ [QueueNext]_queueVars
         /\ [SwitchNext]_switchVars /\ [BoardNext]_boardVars /\ [AccessNext]_accessVars
         /\ [ServerNext]_serverVars /\ [LifeNext]_lifeVars /\ [CogNext]_cogVars
         /\ [ConvNext]_convVars /\ [KnowNext]_knowVars /\ [CallNext]_callVars
         /\ [GatesNext]_gateVars /\ [ShellNext]_shellVars /\ [CredNext]_credVars
         /\ [McpNext]_mcpVars /\ [SkillNext]_skillVars /\ [FilesNext]_skillFileVars
         /\ [WatchNext]_watchVars /\ [SpendNext]_spendVars
<1>1. ASSUME NEW p, Others(p)
      PROVE  /\ p # "channel" => UNCHANGED channelVars
             /\ p # "heartbeat" => UNCHANGED beatVars
             /\ p # "queue" => UNCHANGED queueVars
             /\ p # "switch" => UNCHANGED switchVars
             /\ p \notin Boards => UNCHANGED boardVars
             /\ p # "access" => UNCHANGED accessVars
             /\ p # "server" => UNCHANGED serverVars
             /\ p # "life" => UNCHANGED lifeVars
             /\ p # "cognee" => UNCHANGED cogVars
             /\ p # "conversation" => UNCHANGED convVars
             /\ p # "knowledge" => UNCHANGED knowVars
             /\ p # "model" => UNCHANGED callVars
             /\ p \notin Gates => UNCHANGED gateVars
             /\ p # "shell" => UNCHANGED shellVars
             /\ p # "credentials" => UNCHANGED credVars
             /\ p # "mcp" => UNCHANGED mcpVars
             /\ p # "skillCall" => UNCHANGED skillVars
             /\ p # "skillFiles" => UNCHANGED skillFileVars
             /\ p # "watch" => UNCHANGED watchVars
             /\ p # "spend" => UNCHANGED spendVars
  BY <1>1 DEF Others
<1>2. CASE ChannelNext /\ Others("channel")
  BY <1>1, <1>2 DEF Boards, Gates
<1>3. CASE HeartbeatNext /\ Others("heartbeat")
  BY <1>1, <1>3 DEF Boards, Gates
<1>4. CASE QueueNext /\ Others("queue")
  BY <1>1, <1>4 DEF Boards, Gates
<1>5. CASE SwitchNext /\ Others("switch")
  BY <1>1, <1>5 DEF Boards, Gates
<1>6. CASE BoardNext /\ Others("content")
  BY <1>1, <1>6 DEF Gates
<1>7. CASE BoardNext /\ Others("drafts")
  BY <1>1, <1>7 DEF Gates
<1>8. CASE AccessNext /\ Others("access")
  BY <1>1, <1>8 DEF Boards, Gates
<1>9. CASE ServerNext /\ Others("server")
  BY <1>1, <1>9 DEF Boards, Gates
<1>10. CASE LifeNext /\ Others("life")
  BY <1>1, <1>10 DEF Boards, Gates
<1>11. CASE CogNext /\ Others("cognee")
  BY <1>1, <1>11 DEF Boards, Gates
<1>12. CASE ConvNext /\ Others("conversation")
  BY <1>1, <1>12 DEF Boards, Gates
<1>13. CASE KnowNext /\ Others("knowledge")
  BY <1>1, <1>13 DEF Boards, Gates
<1>14. CASE CallNext /\ Others("model")
  BY <1>1, <1>14 DEF Boards, Gates
<1>15. CASE GatesNext /\ Others("gates")
  BY <1>1, <1>15 DEF Boards
<1>15a. CASE GatesNext /\ Others("delegation")
  BY <1>1, <1>15a DEF Boards
<1>16. CASE ShellNext /\ Others("shell")
  BY <1>1, <1>16 DEF Boards, Gates
<1>17. CASE CredNext /\ Others("credentials")
  BY <1>1, <1>17 DEF Boards, Gates
<1>18. CASE McpNext /\ Others("mcp")
  BY <1>1, <1>18 DEF Boards, Gates
<1>19. CASE SkillNext /\ Others("skillCall")
  BY <1>1, <1>19 DEF Boards, Gates
<1>20. CASE FilesNext /\ Others("skillFiles")
  BY <1>1, <1>20 DEF Boards, Gates
<1>21. CASE WatchNext /\ Others("watch")
  BY <1>1, <1>21 DEF Boards, Gates
<1>22. CASE SpendNext /\ Others("spend")
  BY <1>1, <1>22 DEF Boards, Gates
<1>23. CASE UNCHANGED servicesVars
  BY <1>23 DEF servicesVars
<1> QED
  BY <1>2, <1>3, <1>4, <1>5, <1>6, <1>7, <1>8, <1>9, <1>10, <1>11, <1>12, <1>13, <1>14, <1>15,
     <1>16, <1>17, <1>18, <1>19, <1>20, <1>21, <1>22, <1>23, <1>15a DEF ServicesNext

\* Each of them begins as it does alone.
LEMMA EachBegins ==
  ASSUME ServicesInit
  PROVE  /\ ChannelInit /\ HeartbeatInit /\ QueueInit /\ SwitchInit /\ BoardInit /\ AccessInit
         /\ ServerInit /\ LifeInit /\ CogInit /\ ConvInit /\ KnowInit /\ CallInit /\ GatesInit
         /\ ShellInit /\ CredInit /\ McpInit /\ SkillCallInit /\ FilesInit /\ WatchInit
         /\ SpendInit
  BY DEF ServicesInit

\* For any numbers of processes, attempts, calls, clients and requests, whatever
\* overlaps: a hub or a Cognee server that is lost is tried again, and a caller
\* that waits for an MCP server has a timer that runs.
THEOREM LostLinksComeBack == ServicesSpec => []LinksAreRetried
<1> DEFINE LinksInv == HubInv /\ LinkInv /\ WaitInv
<1>1. ServicesInit => LinksInv
  BY EachBegins, HubStart, LinkStart, WaitStart
<1>2. LinksInv /\ [ServicesNext]_servicesVars => LinksInv'
  BY EachMoves, HubStep, LinkStep, WaitStep
<1>3. LinksInv => LinksAreRetried
  BY HubTrue, LinkTrue, WaitTrue DEF LinksAreRetried
<1> HIDE DEF LinksInv
<1> QED BY <1>1, <1>2, <1>3, PTL DEF ServicesSpec

\* For any numbers of messages, rounds, contents and names and any limits on what
\* is kept: the rows of the delivery queue, the conversation with its index and
\* the knowledge store say what happened.
THEOREM StoresTellTheTruth == ServicesSpec => []RecordsAreTrue
<1> DEFINE StoresInv == RowInv /\ ConvInv /\ KnowInv
<1>1. ServicesInit => StoresInv
  BY EachBegins, RowStart, ConvStart, KnowStart
<1>2. StoresInv /\ [ServicesNext]_servicesVars => StoresInv'
  BY EachMoves, RowStep, ConvStep, KnowStep
<1>3. StoresInv => RecordsAreTrue
  BY RowTrue, ConvTrue, KnowTrue DEF RecordsAreTrue
<1> HIDE DEF StoresInv
<1> QED BY <1>1, <1>2, <1>3, PTL DEF ServicesSpec
=============================================================================
