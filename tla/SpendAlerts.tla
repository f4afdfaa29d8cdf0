----------------------------- MODULE SpendAlerts -----------------------------
(***************************************************************************)
(* The spend watch (src/src/observability/spend-aggregator.js,             *)
(* spend-alerter.js): each hour one cron job rolls the usage log up into   *)
(* an hour's and a day's total, and a minute later another compares them   *)
(* with the thresholds and alerts the owner, at most once an hour for each *)
(* of two tiers.                                                           *)
(***************************************************************************)
EXTENDS Integers

CONSTANTS DayHours,     \* hours of a day
          Soft, Hard,   \* soft_24h_usd and hard_1h_usd
          MaxSpend      \* spend of one hour

ASSUME SpendAssumption == DayHours \in Nat \ {0} /\ MaxSpend \in Nat

Tier == {"hard", "soft"}
LongAgo == 2            \* an age at which no cooldown holds

VARIABLES hour,         \* of the day
          minute,       \* ":00" until the aggregator, ":05", ":06" until the next
          hourSpend,    \* in the hour under way
          lastHour,     \* in the last whole hour
          daySpend,     \* in the whole hours of the day
          yesterday,
          rollHour,     \* the latest rollups: of one hour
          rollDay,      \* and of one day
          lastTry,      \* hours since the last attempt of each tier in the ledger
          ledgerIs,     \* the ledger: "ok", "corrupt", "unwritable"
          health,       \* hours since the last health alert
          reading,      \* Supabase answers
          sending,      \* Telegram takes messages
          quiet         \* alerter runs in a row over a threshold, with both
                        \* services up and no message

spendVars == <<hour, minute, hourSpend, lastHour, daySpend, yesterday, rollHour, rollDay, lastTry,
               ledgerIs, health, reading, sending, quiet>>
spendMoney == <<hourSpend, lastHour, daySpend, yesterday>>

SpendTypeOK ==
  /\ hour \in 0..DayHours - 1 /\ minute \in {":00", ":05", ":06"}
  /\ hourSpend \in 0..MaxSpend /\ lastHour \in 0..MaxSpend
  /\ daySpend \in 0..MaxSpend * DayHours /\ yesterday \in 0..MaxSpend * DayHours
  /\ rollHour \in 0..MaxSpend /\ rollDay \in 0..MaxSpend * DayHours
  /\ lastTry \in [Tier -> 0..LongAgo] /\ ledgerIs \in {"ok", "corrupt", "unwritable"}
  /\ health \in 0..LongAgo /\ reading \in BOOLEAN /\ sending \in BOOLEAN /\ quiet \in 0..3

SpendInit ==
  /\ hour = 0 /\ minute = ":00" /\ hourSpend = 0 /\ lastHour = 0 /\ daySpend = 0 /\ yesterday = 0
  /\ rollHour = 0 /\ rollDay = 0 /\ lastTry = [t \in Tier |-> LongAgo] /\ ledgerIs = "ok"
  /\ health = LongAgo /\ reading = TRUE /\ sending = TRUE /\ quiet = 0

-----------------------------------------------------------------------------
\* A turn is written to the usage log.
Turn ==
  /\ hourSpend < MaxSpend /\ hourSpend' = hourSpend + 1
  /\ UNCHANGED <<hour, minute, lastHour, daySpend, yesterday, rollHour, rollDay, lastTry, ledgerIs,
                 health, reading, sending, quiet>>

Elapsed(a) == IF a < LongAgo THEN a + 1 ELSE LongAgo

HourEnds ==
  /\ minute = ":06" /\ minute' = ":00" /\ hour' = (hour + 1) % DayHours
  /\ lastHour' = hourSpend /\ hourSpend' = 0
  /\ IF hour = DayHours - 1 THEN yesterday' = daySpend + hourSpend /\ daySpend' = 0
     ELSE daySpend' = daySpend + hourSpend /\ UNCHANGED yesterday
  /\ lastTry' = [t \in Tier |-> Elapsed(lastTry[t])] /\ health' = Elapsed(health)
  /\ UNCHANGED <<rollHour, rollDay, ledgerIs, reading, sending, quiet>>

\* buildRollups: the window of an hour ends at the top of the hour, that of a
\* day at midnight; nothing is stored where Supabase does not answer.
Aggregate ==
  /\ minute = ":00" /\ minute' = ":05"
  /\ IF reading THEN rollHour' = lastHour /\ rollDay' = yesterday ELSE UNCHANGED <<rollHour, rollDay>>
  /\ UNCHANGED <<hour, spendMoney, lastTry, ledgerIs, health, reading, sending, quiet>>

-----------------------------------------------------------------------------
(* The alerter *)

\* evaluate, on rollups that count as nothing when they cannot be read.
Trips(t) == /\ reading
            /\ IF t = "hard" THEN rollHour >= Hard ELSE rollHour < Hard /\ rollDay >= Soft

\* inCooldown: less than an hour ago, and an hour less a moment is less.
InCooldown(t, early) == lastTry[t] = 0 \/ (lastTry[t] = 1 /\ early)

\* The hours after which another health alert may go.  Its age is that of a file
\* written once it was sent, so a run one hour later may still be too early.
HealthGap == {1, 2}

\* runAlerter on a tier that trips.  A corrupt ledger is emptied and fires; a
\* ledger that cannot be written leaves the alert to the health message.
Alert(t, early) ==
  \/ /\ ledgerIs = "ok" /\ InCooldown(t, early)
     /\ UNCHANGED <<lastTry, ledgerIs, health>> /\ quiet' = IF sending THEN quiet + 1 ELSE 0
  \/ /\ ledgerIs = "ok" /\ ~InCooldown(t, early)
     /\ lastTry' = [lastTry EXCEPT ![t] = 0] /\ quiet' = 0 /\ UNCHANGED <<ledgerIs, health>>
  \/ /\ ledgerIs = "corrupt" /\ ledgerIs' = "ok"
     /\ lastTry' = [u \in Tier |-> IF u = t THEN 0 ELSE LongAgo]
     /\ health' \in {IF health >= gap THEN 0 ELSE health : gap \in HealthGap} /\ quiet' = 0
  \/ /\ ledgerIs = "unwritable" /\ InCooldown(t, early)
     /\ UNCHANGED <<lastTry, ledgerIs, health>> /\ quiet' = IF sending THEN quiet + 1 ELSE 0
  \/ /\ ledgerIs = "unwritable" /\ ~InCooldown(t, early)
     /\ \E gap \in HealthGap :
          /\ health' \in (IF health >= gap THEN {0, health} ELSE {health})
          /\ quiet' = (IF health >= gap \/ ~sending THEN 0 ELSE quiet + 1)
     /\ UNCHANGED <<lastTry, ledgerIs>>

RunAlerter(early) ==
  /\ minute = ":05" /\ minute' = ":06"
  /\ \/ \E t \in Tier : Trips(t) /\ Alert(t, early)
     \/ /\ \A t \in Tier : ~Trips(t)
        /\ quiet' = 0 /\ UNCHANGED <<lastTry, ledgerIs, health>>
  /\ UNCHANGED <<hour, spendMoney, rollHour, rollDay, reading, sending>>

SpendWorld ==
  /\ minute = ":00"
  /\ reading' \in BOOLEAN /\ sending' \in BOOLEAN /\ ledgerIs' \in {"ok", "corrupt", "unwritable"}
  /\ UNCHANGED <<hour, minute, spendMoney, rollHour, rollDay, lastTry, health, quiet>>

SpendNext == Turn \/ HourEnds \/ Aggregate \/ (\E e \in BOOLEAN : RunAlerter(e)) \/ SpendWorld

SpendSpec == SpendInit /\ [][SpendNext]_spendVars

-----------------------------------------------------------------------------
\* A threshold that stays crossed is heard of: the cooldowns, a flapping
\* Telegram, a ledger that is corrupt or cannot be written, and the change
\* from one tier to the other never leave two runs on end without a message
\* ("NEVER permanent silent suppression").
CrossingsAreHeard == quiet <= 1
=============================================================================
