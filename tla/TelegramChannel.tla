-------------------------- MODULE TelegramChannel --------------------------
(***************************************************************************)
(* The Telegram channel of src/src/channels/manager.js from start to stop: *)
(* the runner that polls Telegram, the handler its rejected promise calls  *)
(* (_onRunnerFailure), the retries with back-off, the recovery timer of a  *)
(* degraded channel, and stop().                                           *)
(*                                                                         *)
(* The code is one event loop, so what it does between two awaits is one   *)
(* action.  A Task is one activation of _onRunnerFailure or of             *)
(* _attemptRecovery; a task suspended at an await keeps its place in `pc`, *)
(* and `depth` counts the frames of _onRunnerFailure below the one that is *)
(* running, which a failed re-initialisation adds to.  A Runner is a       *)
(* grammY runner; `poller` holds the ones that are fetching updates.       *)
(***************************************************************************)
EXTENDS Integers, FiniteSets

CONSTANTS Task,         \* activations that may be under way at once
          Runner,       \* runners that may be fetching at once
          NoRunner,     \* `_runner` is null
          NoTask,       \* no back-off is registered
          MaxRetry,     \* MAX_RETRY_ATTEMPTS
          MaxRecovery   \* MAX_RECOVERY_ATTEMPTS

ASSUME ChannelAssumption == /\ MaxRetry \in Nat
                            /\ MaxRecovery \in Nat
                            /\ NoRunner \notin Runner
                            /\ NoTask \notin Task

VARIABLES channelStatus,    \* this.status
          retries,          \* _retryAttempts
          recoveries,       \* _recoveryAttempts
          inFlightRecovery, pendingFailure, \* as in the source
          runner,           \* _runner
          bot,              \* this.bot is not null
          recoveryTimer,    \* _recoveryTimer is armed
          backoffResolve,   \* the task whose resolver is in _backoffTimerResolve
          polling,          \* the runners that fetch updates
          at, frames, cause,  \* where each task is
          stopping          \* where stop() is

channelVars == <<channelStatus, retries, recoveries, inFlightRecovery, pendingFailure,
                 runner, bot, recoveryTimer, backoffResolve, polling, at, frames, cause,
                 stopping>>

ChannelStatuses == {"starting", "active", "retrying", "degraded", "stopped"}
ErrorKinds == {"transient", "unknown", "non_transient"}
InRecovery == {"sleeping", "woken", "tearing", "building", "committed"}

ChannelTypeOK ==
  /\ channelStatus \in ChannelStatuses
  /\ retries \in 0..MaxRetry
  /\ recoveries \in 0..MaxRecovery
  /\ inFlightRecovery \in BOOLEAN /\ pendingFailure \in BOOLEAN
  /\ runner \in Runner \cup {NoRunner}
  /\ bot \in BOOLEAN /\ recoveryTimer \in BOOLEAN
  /\ backoffResolve \in Task \cup {NoTask}
  /\ polling \subseteq Runner
  /\ at \in [Task -> InRecovery \cup {"idle", "enter", "unwind"}]
  /\ frames \in [Task -> Nat]
  /\ cause \in [Task -> {"failure", "recovery"}]
  /\ stopping \in {"no", "waiting", "done"}

ChannelInit ==
  /\ channelStatus = "starting" /\ retries = 0 /\ recoveries = 0
  /\ inFlightRecovery = FALSE /\ pendingFailure = FALSE
  /\ runner = NoRunner /\ bot = FALSE /\ recoveryTimer = FALSE
  /\ backoffResolve = NoTask /\ polling = {}
  /\ at = [t \in Task |-> "idle"]
  /\ frames = [t \in Task |-> 0]
  /\ cause = [t \in Task |-> "failure"]
  /\ stopping = "no"

FreeTasks == {t \in Task : at[t] = "idle"}

\* A runner that has been replaced, or has ended, is a free name.
Fresh == Runner \ (polling \cup {runner})

\* Microtasks run before the next timer, request or signal is looked at: the
\* activation a rejected promise or a drain has queued, the caller of a
\* _reinitBot that has returned, the frames that unwind.
NoMicrotask == \A t \in Task : at[t] \notin {"enter", "woken", "committed", "unwind"}

\* start(): the token was good, the runner runs and its task is watched.  A
\* start that throws leaves no channel: startAll does not register it.
ChannelStart ==
  /\ channelStatus = "starting"
  /\ \E r \in Fresh : runner' = r /\ polling' = polling \cup {r}
  /\ channelStatus' = "active" /\ bot' = TRUE
  /\ UNCHANGED <<retries, recoveries, inFlightRecovery, pendingFailure,
                 recoveryTimer, backoffResolve, at, frames, cause, stopping>>

\* A runner's task rejects, on an answer of Telegram or at once, before the
\* caller of _reinitBot has resumed; the microtask that handles it is queued.
RunnerFails(r) ==
  /\ r \in polling
  /\ NoMicrotask \/ \E t \in Task : at[t] = "committed"
  /\ polling' = polling \ {r}
  /\ \E t \in FreeTasks : /\ at' = [at EXCEPT ![t] = "enter"]
                     /\ cause' = [cause EXCEPT ![t] = "failure"]
                     /\ frames' = [frames EXCEPT ![t] = 0]
  /\ UNCHANGED <<channelStatus, retries, recoveries, inFlightRecovery,
                 pendingFailure, runner, bot, recoveryTimer, backoffResolve,
                 stopping>>

\* Fault: the failure put aside is forgotten.
DropPendingFailure(p) == pendingFailure' = FALSE /\ at' = p /\ cause' = cause

\* _drainPendingFailure: the failure that was put aside is handled by a new
\* activation, unless the channel has stopped; `p` are the places after the
\* caller's own step.
DrainPendingFailure(p) ==
  /\ pendingFailure' = FALSE
  /\ IF pendingFailure /\ channelStatus' # "stopped"
     THEN \E u \in {v \in Task : p[v] = "idle"} :
            /\ at' = [p EXCEPT ![u] = "enter"]
            /\ cause' = [cause EXCEPT ![u] = "failure"]
     ELSE at' = p /\ cause' = cause

\* The finally blocks: the lock is released, the failure put aside is drained
\* and control goes back to the frame below, which does the same.
Finally(t, d) ==
  /\ inFlightRecovery' = FALSE
  /\ DrainPendingFailure([at EXCEPT ![t] = IF d = 0 THEN "idle" ELSE "unwind"])
  /\ frames' = [frames EXCEPT ![t] = IF d = 0 THEN 0 ELSE d - 1]

\* Fault: only the first recovery is scheduled.
ScheduleOnce(n) == recoveryTimer' = (n = 0 /\ n < MaxRecovery)

\* _scheduleRecovery after status has been set: the timer is armed until the
\* attempts are used up.
ScheduleRecovery(n) == recoveryTimer' = (n < MaxRecovery)

\* The retry of _onRunnerFailure: the attempt is counted and the task sleeps.
Backoff(t, d) ==
  /\ retries < MaxRetry
  /\ retries' = retries + 1
  /\ channelStatus' = "retrying"
  /\ inFlightRecovery' = TRUE
  /\ backoffResolve' = t
  /\ at' = [at EXCEPT ![t] = "sleeping"]
  /\ frames' = [frames EXCEPT ![t] = d]
  /\ UNCHANGED <<recoveries, pendingFailure, recoveryTimer, cause>>

\* _degrade: the recovery timer takes over.
Degrade(t, d) ==
  /\ channelStatus' = "degraded"
  /\ ScheduleRecovery(recoveries)
  /\ Finally(t, d)
  /\ UNCHANGED <<retries, recoveries, backoffResolve>>

\* The body of _onRunnerFailure in frame d once it holds the lock, for an error
\* the classifier has put in class k.
Classified(t, d, k) ==
  IF k # "non_transient" /\ retries < MaxRetry THEN Backoff(t, d) ELSE Degrade(t, d)

\* _onRunnerFailure from its first line.
OnRunnerFailure(t) ==
  /\ at[t] = "enter"
  /\ \/ /\ channelStatus = "stopped"
        /\ at' = [at EXCEPT ![t] = "idle"]
        /\ UNCHANGED <<channelStatus, retries, recoveries, inFlightRecovery,
                       pendingFailure, recoveryTimer, backoffResolve, frames,
                       cause>>
     \/ /\ channelStatus # "stopped" /\ inFlightRecovery
        /\ pendingFailure' = TRUE
        /\ at' = [at EXCEPT ![t] = "idle"]
        /\ UNCHANGED <<channelStatus, retries, recoveries, inFlightRecovery,
                       recoveryTimer, backoffResolve, frames, cause>>
     \/ /\ channelStatus # "stopped" /\ ~inFlightRecovery
        /\ \E k \in ErrorKinds : Classified(t, 0, k)
  /\ UNCHANGED <<runner, bot, polling, stopping>>

\* _reinitBot up to its first await: a runner that is still there is stopped.
ReinitBegins(t) ==
  /\ polling' = polling \ {runner}
  /\ IF runner = NoRunner
     THEN at' = [at EXCEPT ![t] = "building"] /\ bot' = FALSE
     ELSE at' = [at EXCEPT ![t] = "tearing"] /\ bot' = bot

\* The back-off ends, by its timer or because stop() resolved it.
Wake(t) ==
  /\ at[t] = "woken" \/ (at[t] = "sleeping" /\ NoMicrotask)
  /\ backoffResolve' = IF backoffResolve = t THEN NoTask ELSE backoffResolve
  /\ IF channelStatus = "stopped"
     THEN /\ channelStatus' = channelStatus
          /\ Finally(t, frames[t])
          /\ UNCHANGED <<bot, polling>>
     ELSE /\ ReinitBegins(t)
          /\ UNCHANGED <<channelStatus, inFlightRecovery, pendingFailure, frames,
                         cause>>
  /\ UNCHANGED <<retries, recoveries, runner, recoveryTimer, stopping>>

\* The old runner has stopped: `_runner` and `bot` are cleared, whatever they
\* have become since.
TornDown(t) ==
  /\ at[t] = "tearing"
  /\ runner' = NoRunner /\ bot' = FALSE
  /\ at' = [at EXCEPT ![t] = "building"]
  /\ UNCHANGED <<channelStatus, retries, recoveries, inFlightRecovery,
                 pendingFailure, recoveryTimer, backoffResolve, polling, frames,
                 cause, stopping>>

\* The token, the new bot, getMe and deleteWebhook were fine: the new runner is
\* started and the channel is active, whatever its status was.
Reinit(t) ==
  /\ at[t] = "building" /\ NoMicrotask
  /\ \E r \in Fresh : runner' = r /\ polling' = polling \cup {r}
  /\ bot' = TRUE /\ channelStatus' = "active"
  /\ retries' = 0 /\ recoveries' = 0
  /\ at' = [at EXCEPT ![t] = "committed"]
  /\ UNCHANGED <<inFlightRecovery, pendingFailure, recoveryTimer, backoffResolve,
                 frames, cause, stopping>>

\* The re-initialisation throws.  A retry calls _onRunnerFailure again in a
\* frame of its own, which takes the lock the outer frame has just dropped; a
\* recovery tick goes back to degraded.
ReinitFails(t) ==
  /\ at[t] = "building"
  /\ \/ /\ cause[t] = "recovery"
        /\ channelStatus' = "degraded"
        /\ ScheduleRecovery(recoveries)
        /\ Finally(t, 0)
        /\ UNCHANGED <<retries, recoveries, backoffResolve>>
     \/ /\ cause[t] = "failure" /\ channelStatus = "stopped"
        /\ channelStatus' = channelStatus
        /\ Finally(t, frames[t])
        /\ UNCHANGED <<retries, recoveries, recoveryTimer, backoffResolve>>
     \/ /\ cause[t] = "failure" /\ channelStatus # "stopped"
        /\ \E k \in ErrorKinds : Classified(t, frames[t] + 1, k)
  /\ UNCHANGED <<runner, bot, polling, stopping>>

\* The caller of _reinitBot resumes, and its finally block runs.
Committed(t) ==
  /\ at[t] = "committed"
  /\ recoveries' = IF cause[t] = "recovery" THEN 0 ELSE recoveries
  /\ channelStatus' = channelStatus
  /\ Finally(t, frames[t])
  /\ UNCHANGED <<retries, runner, bot, recoveryTimer, backoffResolve, polling,
                 stopping>>

\* The finally block of an outer frame of the recursion.
Unwind(t) ==
  /\ at[t] = "unwind"
  /\ channelStatus' = channelStatus
  /\ Finally(t, frames[t])
  /\ UNCHANGED <<retries, recoveries, runner, bot, recoveryTimer, backoffResolve,
                 polling, stopping>>

\* The recovery timer fires: _attemptRecovery.
RecoveryTick(t) ==
  /\ recoveryTimer /\ t \in FreeTasks /\ NoMicrotask
  /\ \/ /\ channelStatus = "stopped"
        /\ recoveryTimer' = FALSE
        /\ UNCHANGED <<recoveries, inFlightRecovery, at, frames, cause, bot,
                       polling>>
     \/ /\ channelStatus # "stopped" /\ inFlightRecovery
        /\ ScheduleRecovery(recoveries)
        /\ UNCHANGED <<recoveries, inFlightRecovery, at, frames, cause, bot,
                       polling>>
     \/ /\ channelStatus # "stopped" /\ ~inFlightRecovery
        /\ recoveryTimer' = FALSE
        /\ inFlightRecovery' = TRUE
        /\ recoveries' = recoveries + 1
        /\ cause' = [cause EXCEPT ![t] = "recovery"]
        /\ frames' = [frames EXCEPT ![t] = 0]
        /\ ReinitBegins(t)
  /\ UNCHANGED <<channelStatus, retries, pendingFailure, runner, backoffResolve,
                 stopping>>

\* The back-off stop() knows of is resolved, so that the task sees the status.
ResolveBackoff ==
  at' = [t \in Task |-> IF t = backoffResolve /\ at[t] = "sleeping" THEN "woken" ELSE at[t]]

\* stop() up to its await.
ChannelStop ==
  /\ stopping = "no" /\ channelStatus # "starting" /\ NoMicrotask
  /\ channelStatus' = "stopped"
  /\ pendingFailure' = FALSE /\ recoveryTimer' = FALSE /\ backoffResolve' = NoTask
  /\ ResolveBackoff
  /\ polling' = polling \ {runner}
  /\ stopping' = IF runner = NoRunner THEN "done" ELSE "waiting"
  /\ UNCHANGED <<retries, recoveries, inFlightRecovery, runner, bot, frames, cause>>

\* stop() resumes after the runner has stopped.
ChannelStopped ==
  /\ stopping = "waiting"
  /\ runner' = NoRunner
  /\ stopping' = "done"
  /\ UNCHANGED <<channelStatus, retries, recoveries, inFlightRecovery,
                 pendingFailure, bot, recoveryTimer, backoffResolve, polling, at,
                 frames, cause>>

\* One continuation of a task.
TaskStep(t) ==
  \/ OnRunnerFailure(t) \/ Wake(t) \/ TornDown(t) \/ Reinit(t) \/ ReinitFails(t)
  \/ Committed(t) \/ Unwind(t)

ChannelNext ==
  \/ ChannelStart \/ ChannelStop \/ ChannelStopped
  \/ \E r \in Runner : RunnerFails(r)
  \/ \E t \in Task : TaskStep(t) \/ RecoveryTick(t)

\* The event loop runs every continuation that is due and every timer fires; a
\* request to Telegram ends one way or the other, for grammY and the runner
\* time theirs out.
ChannelFairness ==
  /\ \A t \in Task : WF_channelVars(TaskStep(t))
  /\ WF_channelVars(\E t \in Task : RecoveryTick(t))
  /\ WF_channelVars(ChannelStopped)

ChannelSpec == ChannelInit /\ [][ChannelNext]_channelVars /\ ChannelFairness

-----------------------------------------------------------------------------
Recovering == {t \in Task : at[t] \in InRecovery \ {"committed"}}

\* However failures, timers and re-initialisations interleave, one recovery is
\* under way at a time and one runner polls (a second is answered 409 and takes
\* the first one down), and a channel that says it is active is polling or is
\* about to learn that it is not: no failure is dropped (_onRunnerFailure,
\* _drainPendingFailure, _attemptRecovery).
NeverDeaf ==
  (channelStatus = "active" /\ stopping = "no") =>
    \/ runner \in polling
    \/ pendingFailure
    \/ \E t \in Task : at[t] \in InRecovery \cup {"enter"}
OneRecovery ==
  /\ Cardinality(Recovering) <= 1
  /\ Cardinality(polling) <= 1
  /\ NeverDeaf

\* An outage ends: the channel polls again, is stopped, or has used up its
\* recovery attempts and asked for the owner (_degrade, _scheduleRecovery).
NeedsOwner == channelStatus = "degraded" /\ recoveries = MaxRecovery /\ ~recoveryTimer
OutageEnds == (channelStatus \in {"retrying", "degraded"}) ~>
              (channelStatus \in {"active", "stopped"} \/ NeedsOwner)
=============================================================================
