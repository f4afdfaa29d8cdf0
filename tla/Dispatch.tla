------------------------------- MODULE Dispatch -------------------------------
(***************************************************************************)
(* Work handed to Claude Code: the table claude_code_dispatches and the    *)
(* four parties that move its rows.                                        *)
(*                                                                         *)
(*   the agent's tool      inserts a row                                   *)
(*                         (src/src/tools/claude-code-dispatch.js)         *)
(*   the owner's replies   authorise or cancel a write                     *)
(*                         (src/src/channels/manager.js)                   *)
(*   the dispatcher        claims a row, runs it, pushes its change and    *)
(*                         writes the outcome back, and reaps stale rows   *)
(*                         (src/src/dispatch/claude-code-dispatcher.js)    *)
(*   the agent's turns     collect what has ended                          *)
(*                         (src/src/agents/cc-results.js)                  *)
(*                                                                         *)
(* Each statement on the table is atomic; everything between two of them   *)
(* interleaves.  A fault is a request or an answer that is lost, a set-up  *)
(* that fails, or the death of the dispatcher; MaxFaults bounds them.      *)
(***************************************************************************)
EXTENDS Naturals, FiniteSets, Functions

CONSTANTS
    Tasks,       \* rows, one use each
    DailyCap,    \* DAILY_SPEND_CAP_USD, in units of cost
    Budget,      \* PER_DISPATCH_BUDGET_USD: what one run may cost
    MaxFaults    \* bound on the faults of a behaviour

ASSUME DispatchAssumption ==
    /\ IsFiniteSet(Tasks)
    /\ DailyCap \in Nat \ {0} /\ Budget \in Nat /\ MaxFaults \in Nat

VARIABLES
    \* the table
    status, scope,
    authorised,  \* rows with authorised_by and authorised_at
    cost,        \* cost_usd of a row completed today, 0 when null
    overdue,     \* rows whose started_at + timeout + grace has passed
    surfaced,    \* rows with surfaced_at
    \* the processes
    replies,     \* replies past findAwaiting, their statement still to come
    up,          \* the dispatcher is alive
    phase,       \* where processOne is in each row it holds
    verdict,     \* the outcome it is about to write,
    bill,        \*   and the cost
    \* the world
    changed,     \* what Claude Code changed in its clone
    remote,      \* what of it has reached the repository's host
    faults,
    \* history
    ran,         \* how often Claude Code was started for a row
    ruling,      \* the owner's first reply to take effect
    told         \* the outcome a turn of the agent was given

table   == <<status, scope, authorised, cost, overdue, surfaced>>
process == <<up, phase, verdict, bill>>
history == <<ran, ruling, told>>
vars    == <<table, replies, process, changed, remote, faults, history>>

Scopes   == {"read_only", "write", "infra"}
Finished == {"complete", "failed", "timeout"}
Statuses == {"none", "queued", "awaiting", "cancelled", "in_progress"} \cup Finished
Phases   == {"none", "claimed", "running", "pushing", "writing", "fallback"}
Changes  == {"none", "declared", "stray"}

Init ==
    /\ status = [t \in Tasks |-> "none"] /\ scope = [t \in Tasks |-> "read_only"]
    /\ authorised = {} /\ cost = [t \in Tasks |-> 0] /\ overdue = {} /\ surfaced = {}
    /\ replies = {}
    /\ up = TRUE /\ phase = [t \in Tasks |-> "none"]
    /\ verdict = [t \in Tasks |-> "none"] /\ bill = [t \in Tasks |-> 0]
    /\ changed = [t \in Tasks |-> "none"] /\ remote = [t \in Tasks |-> "none"]
    /\ faults = 0
    /\ ran = [t \in Tasks |-> 0]
    /\ ruling = [t \in Tasks |-> "none"] /\ told = [t \in Tasks |-> "none"]

Fault   == faults < MaxFaults /\ faults' = faults + 1
NoFault == UNCHANGED faults

To(t, p)         == phase' = [phase EXCEPT ![t] = p]
SetStatus(t, s)  == status' = [status EXCEPT ![t] = s]

\* processOne returns.
Leave(t) ==
    /\ To(t, "none")
    /\ verdict' = [verdict EXCEPT ![t] = "none"]
    /\ bill' = [bill EXCEPT ![t] = 0]

-----------------------------------------------------------------------------
(* The tool and the owner. *)

\* Writes wait for the owner; critical is refused before there is a row.  The
\* limit of active rows per session fails open and is no bound (README).
Enqueue(t, s) ==
    /\ status[t] = "none"
    /\ scope' = [scope EXCEPT ![t] = s]
    /\ SetStatus(t, IF s = "read_only" THEN "queued" ELSE "awaiting")
    /\ UNCHANGED <<authorised, cost, overdue, surfaced, replies, process, changed,
                   remote, faults, history>>

\* handleCcAuthReply finds the row among those awaiting authorisation.
Lookup(t, answer) ==
    /\ status[t] = "awaiting"
    /\ replies' = replies \cup {<<t, answer>>}
    /\ UNCHANGED <<table, process, changed, remote, faults, history>>

\* the condition of the PATCH
StillAwaiting(t) == status[t] = "awaiting"

\* authorise, cancel: the statement that follows the look-up.
Reply(t, answer) ==
    /\ <<t, answer>> \in replies
    /\ replies' = replies \ {<<t, answer>>}
    /\ \/ /\ StillAwaiting(t)
          /\ SetStatus(t, IF answer = "yes" THEN "queued" ELSE "cancelled")
          /\ authorised' = IF answer = "yes" THEN authorised \cup {t} ELSE authorised
          /\ ruling' = [ruling EXCEPT ![t] = IF @ = "none" THEN answer ELSE @]
          /\ NoFault
       \/ ~StillAwaiting(t) /\ NoFault /\ UNCHANGED <<status, authorised, ruling>>
       \/ Fault /\ UNCHANGED <<status, authorised, ruling>>
    /\ UNCHANGED <<scope, cost, overdue, surfaced, process, changed, remote, ran, told>>

-----------------------------------------------------------------------------
(* The dispatcher: mainLoop and processOne. *)

\* dailySpend: what today's rows say they cost
Spent == FoldFunction(+, 0, cost)

\* Fault: pauses only once the cap is exceeded.
WithinCap == Spent <= DailyCap

UnderCap == Spent < DailyCap

Idle == up /\ \A t \in Tasks : phase[t] = "none"

\* claim_next_dispatch.  When its answer is lost the row is in progress and
\* nobody runs it.  The order of claims is left open.
Claim(t) ==
    /\ Idle /\ UnderCap
    /\ status[t] = "queued"
    /\ SetStatus(t, "in_progress")
    /\ overdue' = overdue \ {t}
    /\ (To(t, "claimed") /\ NoFault) \/ (Fault /\ UNCHANGED phase)
    /\ UNCHANGED <<scope, authorised, cost, surfaced, replies, up, verdict, bill,
                   changed, remote, history>>

\* The refusals at the top of processOne: the scope, the authorisation, no
\* user to run as, no token to push with.  Their PATCH is outside the try.
Refuse(t) ==
    /\ phase[t] = "claimed"
    /\ Leave(t)
    /\ (SetStatus(t, "failed") /\ NoFault) \/ (Fault /\ UNCHANGED status)
    /\ UNCHANGED <<scope, authorised, cost, overdue, surfaced, replies, up, changed,
                   remote, history>>

Runnable(t) ==
    \/ scope[t] = "read_only"
    \/ scope[t] = "write" /\ t \in authorised

\* The clone is made and Claude Code started; a clone that fails ends in the catch.
Start(t) ==
    /\ phase[t] = "claimed" /\ Runnable(t)
    /\ \/ To(t, "running") /\ ran' = [ran EXCEPT ![t] = @ + 1] /\ NoFault
       \/ To(t, "fallback") /\ Fault /\ UNCHANGED ran
    /\ UNCHANGED <<table, replies, up, verdict, bill, changed, remote, ruling, told>>

\* workingTreeDirty, planWriteOutcome: a change the scope does not allow.  The
\* tool inserts no write without its expected paths.
Rejected(t, change) ==
    IF scope[t] = "read_only" THEN change # "none" ELSE change = "stray"

\* runClaudeCode settles: Claude Code exits, or the timer kills it, and then
\* its cost is not known.  A diff that cannot be read counts as "failed".
CcEnds(t, end, change, c) ==
    /\ phase[t] = "running"
    /\ end = "timeout" => c = 0
    /\ scope[t] = "read_only" => change # "declared"
    /\ changed' = [changed EXCEPT ![t] = change]
    /\ bill' = [bill EXCEPT ![t] = c]
    /\ verdict' = [verdict EXCEPT ![t] =
                      IF end = "complete" /\ Rejected(t, change) THEN "failed" ELSE end]
    /\ To(t, IF /\ end = "complete" /\ scope[t] = "write"
                /\ change # "none" /\ ~Rejected(t, change)
             THEN "pushing" ELSE "writing")
    /\ UNCHANGED <<table, replies, up, remote, faults, history>>

\* Fault: the error of git or gh is logged and forgotten.
ErrorDropped(t) == UNCHANGED verdict

PushFailed(t) == verdict' = [verdict EXCEPT ![t] = "failed"]

\* pushAndOpenPr: the branch first, then the pull request.  Either may fail,
\* and what went before stays.
Push(t) ==
    /\ phase[t] = "pushing"
    /\ \/ /\ remote[t] = "none"
          /\ remote' = [remote EXCEPT ![t] = "branch"]
          /\ UNCHANGED <<phase, verdict>>
       \/ /\ remote[t] = "branch"
          /\ remote' = [remote EXCEPT ![t] = "pr"]
          /\ To(t, "writing") /\ UNCHANGED verdict
       \/ To(t, "writing") /\ PushFailed(t) /\ UNCHANGED remote
    /\ UNCHANGED <<table, replies, up, bill, changed, faults, history>>

\* writeBack: a PATCH by id alone, whatever the row has become meanwhile.
WriteBack(t) ==
    /\ phase[t] = "writing"
    /\ \/ /\ SetStatus(t, verdict[t]) /\ cost' = [cost EXCEPT ![t] = bill[t]]
          /\ \/ Leave(t) /\ NoFault
             \/ To(t, "fallback") /\ Fault /\ UNCHANGED <<verdict, bill>>
       \/ To(t, "fallback") /\ Fault /\ UNCHANGED <<status, cost, verdict, bill>>
    /\ UNCHANGED <<scope, authorised, overdue, surfaced, replies, up, changed, remote,
                   history>>

\* The catch around the run: failed, by id alone, and its own failure is dropped.
Fallback(t) ==
    /\ phase[t] = "fallback"
    /\ Leave(t)
    /\ (SetStatus(t, "failed") /\ NoFault) \/ (Fault /\ UNCHANGED status)
    /\ UNCHANGED <<scope, authorised, cost, overdue, surfaced, replies, up, changed,
                   remote, history>>

-----------------------------------------------------------------------------
(* Time, reaping, crashes, and the agent's turns. *)

TimePasses(t) ==
    /\ t \notin overdue
    /\ status[t] = "in_progress" \/ phase[t] # "none"
    /\ overdue' = overdue \cup {t}
    /\ UNCHANGED <<status, scope, authorised, cost, surfaced, replies, process, changed,
                   remote, faults, history>>

Stale == {t \in overdue : status[t] = "in_progress"}

\* Fault: a reaped row is queued again.
Requeued == "queued"

ReapedStatus == "timeout"

\* Fault: nothing is ever reaped.
NotReaped == UNCHANGED status

\* reap_stale_dispatches
ReapStale == status' = [t \in Tasks |-> IF t \in Stale THEN ReapedStatus ELSE status[t]]

\* Every two minutes, and during a run as well: a failed call is dropped.
Reap ==
    /\ up /\ Stale # {}
    /\ ReapStale
    /\ UNCHANGED <<scope, authorised, cost, overdue, surfaced, replies, process, changed,
                   remote, faults, history>>

Crash ==
    /\ up /\ Fault
    /\ up' = FALSE
    /\ phase' = [t \in Tasks |-> "none"]
    /\ verdict' = [t \in Tasks |-> "none"] /\ bill' = [t \in Tasks |-> 0]
    /\ UNCHANGED <<table, replies, changed, remote, history>>

\* mainLoop starts, and reaps before anything else.
Restart ==
    /\ ~up /\ up' = TRUE
    /\ (ReapStale /\ NoFault) \/ (Fault /\ UNCHANGED status)
    /\ UNCHANGED <<scope, authorised, cost, overdue, surfaced, replies, phase, verdict,
                   bill, changed, remote, history>>

\* dailySpend counts from midnight.
NewDay ==
    /\ Spent > 0
    /\ cost' = [t \in Tasks |-> 0]
    /\ UNCHANGED <<status, scope, authorised, overdue, surfaced, replies, process,
                   changed, remote, faults, history>>

Unseen == {t \in Tasks : status[t] \in Finished /\ t \notin surfaced}

\* pollCcResults: one statement marks the rows and returns them.
Poll ==
    /\ Unseen # {}
    /\ surfaced' = surfaced \cup Unseen
    /\ \/ told' = [t \in Tasks |-> IF t \in Unseen THEN status[t] ELSE told[t]] /\ NoFault
       \/ Fault /\ UNCHANGED told
    /\ UNCHANGED <<status, scope, authorised, cost, overdue, replies, process, changed,
                   remote, ran, ruling>>

-----------------------------------------------------------------------------

Begin(t) == Refuse(t) \/ Start(t)
Settle(t) == \E end \in Finished, change \in Changes, c \in 0..Budget : CcEnds(t, end, change, c)
Work(t)  == Begin(t) \/ Settle(t) \/ Push(t) \/ WriteBack(t) \/ Fallback(t)

Next ==
    \/ \E t \in Tasks :
        \/ \E s \in Scopes : Enqueue(t, s)
        \/ \E answer \in {"yes", "no"} : Lookup(t, answer) \/ Reply(t, answer)
        \/ Claim(t) \/ Work(t) \/ TimePasses(t)
    \/ Reap \/ Crash \/ Restart \/ NewDay \/ Poll

Spec == Init /\ [][Next]_vars

\* The process is restarted when it dies, its loop and its timers run, Claude
\* Code exits or is killed, time passes and days end.  Nobody makes the owner
\* answer.
Fairness ==
    /\ WF_vars(\E t \in Tasks : Claim(t))
    /\ \A t \in Tasks : WF_vars(Work(t)) /\ WF_vars(TimePasses(t))
    /\ WF_vars(Reap) /\ WF_vars(Restart) /\ WF_vars(NewDay)

FairSpec == Spec /\ Fairness

-----------------------------------------------------------------------------
(* Properties. *)

\* Every variable has its type.
TypeOK ==
    /\ status \in [Tasks -> Statuses] /\ scope \in [Tasks -> Scopes]
    /\ authorised \subseteq Tasks /\ overdue \subseteq Tasks /\ surfaced \subseteq Tasks
    /\ cost \in [Tasks -> 0..Budget] /\ bill \in [Tasks -> 0..Budget]
    /\ replies \subseteq Tasks \X {"yes", "no"}
    /\ up \in BOOLEAN /\ phase \in [Tasks -> Phases]
    /\ verdict \in [Tasks -> Finished \cup {"none"}]
    /\ changed \in [Tasks -> Changes] /\ remote \in [Tasks -> {"none", "branch", "pr"}]
    /\ faults \in 0..MaxFaults
    /\ ran \in [Tasks -> Nat]
    /\ ruling \in [Tasks -> {"none", "yes", "no"}]
    /\ told \in [Tasks -> Finished \cup {"none"}]

\* "v1 fails once, no retry": Claude Code is started at most once for a row,
\* whatever is lost, reaped or restarted.
RunsOnce == \A t \in Tasks : ran[t] <= 1

\* A write runs only when the owner's first reply to take effect approved it:
\* replies that overlap cannot revive a cancelled row, nor cancel a running one.
OwnerDecides == \A t \in Tasks : ran[t] > 0 /\ scope[t] # "read_only" => ruling[t] = "yes"

\* the work of a row was done, in full and within its scope
Done(t) ==
    /\ ran[t] > 0
    /\ \/ changed[t] = "none" /\ remote[t] = "none"
       \/ scope[t] = "write" /\ changed[t] = "declared" /\ remote[t] = "pr"

\* A completion is never false: a row that says complete, and a turn that was
\* told complete, stand for work done in full, with its pull request open when
\* it changed anything.
CompletionIsReal == \A t \in Tasks : "complete" \in {status[t], told[t]} => Done(t)

\* Nothing but a declared change of an approved write reaches the remote.
OnlyDeclaredLeaves ==
    \A t \in Tasks : remote[t] # "none" =>
        scope[t] = "write" /\ ruling[t] = "yes" /\ changed[t] = "declared"

\* The cap is read once before each claim: the rows of a day can pass it by
\* the cost of one run, and no more.
SpendBounded == Spent < DailyCap + Budget

\* A finished row moves again only by the run that holds it: no reply, reaper
\* or restart touches it.
OnlyItsRunMoves ==
    [][\A t \in Tasks : status[t] \in Finished /\ status'[t] # status[t] =>
                            phase[t] # "none"]_vars

\* A turn is told of a row once: what it was told is never told differently.
ToldOnce == [][\A t \in Tasks : told[t] # "none" => told'[t] = told[t]]_vars

\* Work accepted is never silently lost: every queued or claimed row ends.
EveryDispatchEnds ==
    \A t \in Tasks : status[t] \in {"queued", "in_progress"} ~> status[t] \in Finished

\* A row is run at most once and, when it writes, only after the owner's yes.
DispatchSafe == TypeOK /\ RunsOnce /\ OwnerDecides
=============================================================================
