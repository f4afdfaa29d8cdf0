---------------------------- MODULE LivenessWatch ----------------------------
(***************************************************************************)
(* The liveness beats of the agent's process and the watcher on another    *)
(* host (src/src/observability/liveness-heartbeat.js, liveness-watcher.js):*)
(* a cron run reads the latest beat, classes it, and alerts the owner      *)
(* through Telegram, with a ledger on disk that spaces the reminders.      *)
(* Time goes in ticks, and the watcher runs once a tick.                   *)
(***************************************************************************)
EXTENDS Integers

CONSTANTS Stale,        \* a beat older than this is stale
          FirstReminder,\* FIRST_REMINDER_MS
          ThenEvery     \* THEN_EVERY_MS

ASSUME WatchAssumption ==
  Stale \in Nat /\ FirstReminder \in Nat \ {0} /\ ThenEvery \in Nat /\ FirstReminder <= ThenEvery

Outage == {"down", "unknown", "polling"}
NoBeat == -1
Cap == ThenEvery        \* ages are not told apart beyond this

VARIABLES process,      \* the agent: "off", "runs", "deaf" (Telegram polling degraded)
          beatAge,      \* ticks since the last beat, or NoBeat
          beatDeaf,     \* what it said of polling
          supabase,     \* Supabase answers
          telegram,     \* Telegram takes messages
          disk,         \* the ledger: "ok", "unwritable", "unreadable"
          ledger,       \* of each class, the ages of the first and last alert
                        \* of its episode
          armed,        \* the one-shot "armed" is in the ledger
          ran,          \* the watcher ran this tick
          silent        \* ticks the agent has been down, or seen so, in a row with
                        \* Telegram up and nothing sent

watchVars == <<process, beatAge, beatDeaf, supabase, telegram, disk, ledger, armed, ran, silent>>
watchWorld == <<process, beatAge, beatDeaf, supabase, telegram, disk>>

NoEpisode == [first |-> NoBeat, last |-> NoBeat]

WatchTypeOK ==
  /\ process \in {"off", "runs", "deaf"} /\ beatAge \in {NoBeat} \cup (0..Stale + 1)
  /\ beatDeaf \in BOOLEAN /\ supabase \in BOOLEAN /\ telegram \in BOOLEAN
  /\ disk \in {"ok", "unwritable", "unreadable"}
  /\ ledger \in [Outage -> [first: {NoBeat} \cup (0..Cap), last: {NoBeat} \cup (0..Cap)]]
  /\ armed \in BOOLEAN /\ ran \in BOOLEAN /\ silent \in 0..Cap

WatchInit ==
  /\ process \in {"off", "runs"} /\ beatAge = NoBeat /\ beatDeaf = FALSE
  /\ supabase = TRUE /\ telegram = TRUE /\ disk = "ok"
  /\ ledger = [c \in Outage |-> NoEpisode] /\ armed = FALSE /\ ran = FALSE /\ silent = 0

-----------------------------------------------------------------------------
(* The agent's side *)

\* A beat: the immediate one at the start, then every minute, so within every
\* tick; one that cannot be recorded is let go.
LivenessBeat ==
  /\ process # "off" /\ supabase /\ beatAge' = 0 /\ beatDeaf' = (process = "deaf")
  /\ UNCHANGED <<process, supabase, telegram, disk, ledger, armed, ran, silent>>

\* The process starts, stops or loses its channel; the services and the
\* watcher's disk come and go, at any time since the watcher's last run: what
\* changes while a tick ends changes for the run after it.
WorldChanges ==
  /\ ~ran
  /\ \/ process' \in {"off", "runs", "deaf"} /\ UNCHANGED <<supabase, telegram, disk>>
     \/ supabase' = ~supabase /\ UNCHANGED <<process, telegram, disk>>
     \/ telegram' = ~telegram /\ UNCHANGED <<process, supabase, disk>>
     \/ disk' \in {"ok", "unwritable", "unreadable"} /\ UNCHANGED <<process, supabase, telegram>>
  /\ UNCHANGED <<beatAge, beatDeaf, ledger, armed, ran, silent>>

Older(a, bound) == IF a = NoBeat THEN NoBeat ELSE IF a < bound THEN a + 1 ELSE bound

Tick ==
  /\ ran /\ ran' = FALSE /\ (process # "off" /\ supabase => beatAge = 0)
  /\ beatAge' = Older(beatAge, Stale + 1)
  /\ ledger' = [c \in Outage |-> [first |-> Older(ledger[c].first, Cap),
                                  last |-> Older(ledger[c].last, Cap)]]
  /\ UNCHANGED <<process, beatDeaf, supabase, telegram, disk, armed, silent>>

-----------------------------------------------------------------------------
(* The watcher *)

\* classify
Class ==
  IF ~supabase THEN "unknown" ELSE IF beatAge = NoBeat THEN "armed"
  ELSE IF beatAge > Stale THEN "down" ELSE IF beatDeaf THEN "polling" ELSE "healthy"

\* readState: an unreadable ledger has no history.
Episode(c) == IF disk = "unreadable" THEN NoEpisode ELSE ledger[c]

\* Fault: an episode is alerted once.
ReminderOnce(ep) == ep.first = NoBeat

\* reminderDue
ReminderDue(ep) ==
  \/ ep.first = NoBeat
  \/ /\ ep.first >= FirstReminder
     /\ ep.last >= IF ep.last = ep.first THEN FirstReminder ELSE ThenEvery

\* appendState, kept only by a writable ledger: fired, whether it was sent or
\* not.
Fired(ep) ==
  [first |-> IF ep.first = NoBeat THEN 0 ELSE ep.first, last |-> 0]

\* Episodes of other classes end, when the all-clear was sent.
Recovered(c) == c # Class /\ Episode(c).first # NoBeat /\ telegram

AlertFires == Class \in Outage /\ ReminderDue(Episode(Class))

RunWatcher ==
  /\ ~ran /\ ran' = TRUE
  /\ ledger' = IF disk # "ok" THEN ledger
               ELSE [c \in Outage |-> IF Recovered(c) THEN NoEpisode
                                      ELSE IF c = Class /\ AlertFires THEN Fired(ledger[c])
                                      ELSE ledger[c]]
  /\ armed' = (armed \/ (Class = "armed" /\ disk = "ok"))
  /\ silent' = IF Class \in Outage /\ telegram /\ ~AlertFires
               THEN IF silent < Cap THEN silent + 1 ELSE Cap
               ELSE 0
  /\ UNCHANGED watchWorld

WatchNext == LivenessBeat \/ WorldChanges \/ Tick \/ RunWatcher

\* The cron runs, time passes, and a process that runs beats.
WatchSpec == WatchInit /\ [][WatchNext]_watchVars
             /\ WF_watchVars(RunWatcher) /\ WF_watchVars(Tick) /\ WF_watchVars(LivenessBeat)

-----------------------------------------------------------------------------
\* The owner is never left long without a word: with Telegram up an outage is
\* spoken of within Every ticks, whatever flaps, fails or was recorded before.
NeverLongSilent == silent < ThenEvery

\* A class whose outage is over is closed: an episode stands only while its
\* class was the last one seen or its all-clear could not be sent or noted.
\* So once all is well and stays well, no episode is left.
EpisodesClose ==
  <>[](process = "runs" /\ supabase /\ telegram /\ disk = "ok")
     => <>[](\A c \in Outage : ledger[c] = NoEpisode)
=============================================================================
