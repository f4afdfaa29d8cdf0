------------------------------- MODULE ToolLoop -------------------------------
(***************************************************************************)
(* An agent's turn and the checks around every tool call it makes: the     *)
(* per-agent lock and the turn (src/src/agents/registry.js), the           *)
(* regeneration loop of the verification gates (agents/gates.js), the tool *)
(* loop (tools/executor.js), the registry's per-request tool gate          *)
(* (tools/registry.js), the approval gate (security/approval-gate.js), the *)
(* approvals table (security/approvals.js) and the rate limiter            *)
(* (security/rate-limiter.js).                                             *)
(*                                                                         *)
(* One Node process runs everything: an action is a stretch of code        *)
(* between two awaits.  Turns of one agent are serialised by its lock;     *)
(* turns of different agents interleave, over one registry, one limiter    *)
(* and one table.  The tools of the model share one limited category.  A   *)
(* longRunning tool's own timeout is never the first to fire while it      *)
(* waits for approval: it has 11 minutes, the approval 10.                 *)
(***************************************************************************)
EXTENDS Naturals, FiniteSets

CONSTANTS
    Turns,        \* messages to be processed, one use each
    Agents,
    Agent,        \* the agent each turn is for
    Tools,        \* registered tools
    Scope,        \* per turn: the tools its routed skills put in scope
    Asking,       \* tools the approval gate stops
    Inline,       \* longRunning tools that ask for approval themselves
    Publishing,   \* tools whose calls are queued for review, not run
    Limit,        \* the category's limit per window
    MaxTries,     \* regenerateWithGates' maxAttempts
    MaxCalls,     \* bound on the tool calls of a turn
    MaxAsks       \* bound on the rows of the approvals table

ASSUME LoopAssumption ==
    /\ IsFiniteSet(Agents) /\ Agents # {} /\ Agent \in [Turns -> Agents]
    /\ Scope \in [Turns -> SUBSET Tools] /\ "all" \notin Turns
    /\ Asking \subseteq Tools /\ Inline \subseteq Tools \ Asking
    /\ Publishing \subseteq Tools /\ "none" \notin Tools
    /\ Limit \in Nat /\ Limit >= 1 /\ MaxTries \in Nat /\ MaxCalls \in Nat /\ MaxAsks \in Nat

VARIABLES
    at,        \* per turn: where it is, its current call and its counters
    lock,      \* _agentLocks
    active,    \* the turn whose tools _activeForRequest holds, or "all"
    rows,      \* the approvals table: the status of each id
    asked,     \* the last id given out
    promise,   \* what the promise of each id was resolved with
    callbacks, \* pendingCallbacks
    used,      \* the limiter's count for the category
    ran,       \* history: the tool runs that took effect
    shared     \* history: TRUE once turns of two agents overlapped

approvals == <<rows, asked, promise, callbacks>>
vars == <<at, lock, active, approvals, used, ran, shared>>

AskIds == 1..MaxAsks
Busy   == {"routing", "model", "check", "ask", "waiting", "begin", "running", "returning"}
Fresh  == [step |-> "idle", tool |-> "none", id |-> 0, calls |-> 0, tries |-> 1,
           scoped |-> FALSE]
Finished == [Fresh EXCEPT !.step = "done"]

Init ==
    /\ at = [t \in Turns |-> Fresh]
    /\ lock = {}
    /\ active = "all"
    /\ rows = [i \in AskIds |-> "unused"] /\ asked = 0
    /\ promise = [i \in AskIds |-> "none"] /\ callbacks = {}
    /\ used = 0
    /\ ran = {} /\ shared = FALSE

Go(t, step) == at' = [at EXCEPT ![t].step = step]

\* The call is over, well or badly: its result goes to the model.
Back(t) == at' = [at EXCEPT ![t].step = "model", ![t].tool = "none", ![t].id = 0]

-----------------------------------------------------------------------------
(* process and _processNonReflex. *)

LockFree(t) == Agent[t] \notin lock

Enter(t) ==
    /\ at[t].step = "idle" /\ LockFree(t)
    /\ lock' = lock \cup {Agent[t]}
    /\ Go(t, "routing")
    /\ shared' = (shared \/ \E u \in Turns : at[u].step \in Busy)
    /\ UNCHANGED <<active, approvals, used, ran>>

\* loadSkills has routed the message: registerForRequest replaces the active
\* set.  Without a routing the turn goes on with whatever is in force.
Register(t) ==
    /\ at[t].step = "routing"
    /\ \/ /\ active' = t
          /\ at' = [at EXCEPT ![t].step = "model", ![t].scoped = TRUE]
       \/ Go(t, "model") /\ UNCHANGED active
    /\ UNCHANGED <<lock, approvals, used, ran, shared>>

\* The turn is over: the cleanup handle drops the active set, whoever put it
\* there, and the lock is released.
Close(t) ==
    /\ at' = [at EXCEPT ![t] = Finished]
    /\ active' = IF at[t].scoped THEN "all" ELSE active
    /\ lock' = lock \ {Agent[t]}
    /\ UNCHANGED <<approvals, used, ran, shared>>

\* The model answers and the verification gates pass, or it is the last
\* attempt and they escalate; or the completion throws.
EndTurn(t) == at[t].step = "model" /\ Close(t)

\* The gates fail: a new generation, tool calls and all, from the first prompt.
Regenerate(t) ==
    /\ at[t].step = "model" /\ at[t].tries < MaxTries
    /\ at' = [at EXCEPT ![t].tries = @ + 1]
    /\ UNCHANGED <<lock, active, approvals, used, ran, shared>>

-----------------------------------------------------------------------------
(* ToolExecutor.run. *)

\* The model may name any tool, offered or not.
ModelCalls(t, tool) ==
    /\ at[t].step = "model" /\ at[t].calls < MaxCalls
    /\ at' = [at EXCEPT ![t].step = "check", ![t].tool = tool, ![t].calls = @ + 1]
    /\ UNCHANGED <<lock, active, approvals, used, ran, shared>>

\* ApprovalGate.check
CheckCall(t) ==
    /\ at[t].step = "check"
    /\ Go(t, IF at[t].tool \in Asking THEN "ask" ELSE "begin")
    /\ UNCHANGED <<lock, active, approvals, used, ran, shared>>

\* createPending: the row and its callback.
Ask(t) ==
    /\ at[t].step = "ask" /\ asked < MaxAsks
    /\ asked' = asked + 1
    /\ rows' = [rows EXCEPT ![asked'] = "pending"]
    /\ callbacks' = callbacks \cup {asked'}
    /\ at' = [at EXCEPT ![t].step = "waiting", ![t].id = asked']
    /\ UNCHANGED <<lock, active, promise, used, ran, shared>>

\* No approval: the call is an error, and a tool that asked for itself may
\* return it like any other result.
Unapproved(t) == Back(t) \/ (at[t].tool \in Inline /\ Go(t, "returning"))

\* There is no approvals subsystem, or it throws.
AskFails(t) ==
    /\ at[t].step = "ask"
    /\ Unapproved(t)
    /\ UNCHANGED <<lock, active, approvals, used, ran, shared>>

Granted(t) == promise[at[t].id] = "approved"

\* The tool does what it is for.
Effect(t) == ran' = ran \cup {[turn |-> t, call |-> at[t].calls, tool |-> at[t].tool,
                               id |-> at[t].id, scoped |-> at[t].scoped]}

\* A tool that asked for itself goes on where it stopped.
InlineGranted(t) ==
    /\ at[t].step = "waiting" /\ at[t].tool \in Inline /\ Granted(t)
    /\ Go(t, "running") /\ Effect(t)
    /\ UNCHANGED <<lock, active, approvals, used, shared>>

ResumeDenied(t) ==
    /\ at[t].step = "waiting" /\ promise[at[t].id] # "none" /\ ~Granted(t)
    /\ IF at[t].tool \in Inline THEN Go(t, "returning") ELSE Back(t)
    /\ UNCHANGED <<lock, active, approvals, used, ran, shared>>

\* Fault: the limit is reached one call late.
PastLimit == used > Limit

\* RateLimiter.check
OverLimit == used + 1 > Limit

\* executeTool's test of _activeForRequest
InScope(tool) == active = "all" \/ tool \in Scope[active]

\* The gate lets the call through: it needs no approval, or has just been given one.
Admitted(t) ==
    \/ at[t].step = "begin"
    \/ at[t].step = "waiting" /\ at[t].tool \in Asking /\ Granted(t)

\* From there to the tool without an await: the limit, the content queue, the
\* scope, and the start of the tool.
Begin(t) ==
    /\ Admitted(t)
    /\ IF OverLimit \/ at[t].tool \in Publishing THEN Back(t) /\ UNCHANGED ran
       ELSE IF ~InScope(at[t].tool) THEN Go(t, "returning") /\ UNCHANGED ran
       ELSE IF at[t].tool \in Inline THEN Go(t, "ask") /\ UNCHANGED ran
       ELSE Go(t, "running") /\ Effect(t)
    /\ UNCHANGED <<lock, active, approvals, used, shared>>

\* The tool returned, if only to say that it was out of scope or denied.
Return(t) ==
    /\ at[t].step \in {"running", "returning"}
    /\ used' = used + 1
    /\ Back(t)
    /\ UNCHANGED <<lock, active, approvals, ran, shared>>

\* The tool threw, or ran past its timeout and was left to itself.
ToolFails(t) ==
    /\ at[t].step = "running"
    /\ Back(t)
    /\ UNCHANGED <<lock, active, approvals, used, ran, shared>>

-----------------------------------------------------------------------------
(* ExecApprovals.approve and deny. *)

\* Fault: the row's status is not looked at.
AnyRow(id) == rows[id] # "unused"

Undecided(id) == rows[id] = "pending"

\* The row first, then the promise, when the process that made it still runs.
Decide(id, verdict) ==
    /\ Undecided(id)
    /\ rows' = [rows EXCEPT ![id] = verdict]
    /\ promise' = IF id \in callbacks THEN [promise EXCEPT ![id] = verdict] ELSE promise
    /\ callbacks' = callbacks \ {id}
    /\ UNCHANGED <<at, lock, active, asked, used, ran, shared>>

\* The owner's reply, whenever it comes: an inline reply, /approve or /deny.
Reply(id) == \E verdict \in {"approved", "denied"} : Decide(id, verdict)

TimeoutStatus == "denied"

\* Fault: nothing ever times a request out.
NoTimer(id) == FALSE /\ UNCHANGED vars

\* Ten minutes without an answer.
Timer(id) == id \in callbacks /\ Decide(id, TimeoutStatus)

-----------------------------------------------------------------------------
(* The process. *)

\* The hour is over.
ResetWindow ==
    /\ used > 0 /\ used' = 0
    /\ UNCHANGED <<at, lock, active, approvals, ran, shared>>

\* The process dies.  The table and the counts are on disk.
Restart ==
    /\ at' = [t \in Turns |-> IF at[t].step \in Busy THEN Finished ELSE at[t]]
    /\ lock' = {} /\ active' = "all"
    /\ callbacks' = {} /\ promise' = [i \in AskIds |-> "none"]
    /\ UNCHANGED <<rows, asked, used, ran, shared>>

-----------------------------------------------------------------------------
Approval(t) == Ask(t) \/ AskFails(t) \/ InlineGranted(t) \/ ResumeDenied(t)
Run(t) == CheckCall(t) \/ Begin(t) \/ Return(t) \/ ToolFails(t)
Step(t) == Enter(t) \/ Register(t) \/ Approval(t) \/ Run(t)

Next ==
    \/ \E t \in Turns : \/ Step(t) \/ EndTurn(t) \/ Regenerate(t)
                        \/ \E tool \in Tools : ModelCalls(t, tool)
    \/ \E id \in AskIds : Reply(id) \/ Timer(id)
    \/ ResetWindow \/ Restart

\* What is awaited comes back: completions are answered or fail, tools have
\* timeouts, a request has its timer, and a turn's iterations are limited.
Fairness ==
    /\ \A t \in Turns : WF_vars(Step(t)) /\ WF_vars(EndTurn(t))
    /\ \A id \in AskIds : WF_vars(Timer(id))

Spec     == Init /\ [][Next]_vars
FairSpec == Spec /\ Fairness

-----------------------------------------------------------------------------
(* What must hold. *)

TurnStates ==
    [step : {"idle", "done"} \cup Busy, tool : Tools \cup {"none"}, id : 0..MaxAsks,
     calls : 0..MaxCalls, tries : Nat, scoped : BOOLEAN]

TypeOK ==
    /\ at \in [Turns -> TurnStates]
    /\ lock \in SUBSET Agents /\ active \in Turns \cup {"all"}
    /\ rows \in [AskIds -> {"unused", "pending", "approved", "denied"}]
    /\ asked \in 0..MaxAsks
    /\ promise \in [AskIds -> {"none", "approved", "denied"}]
    /\ callbacks \in SUBSET AskIds
    /\ used \in Nat
    /\ ran \in SUBSET [turn : Turns, call : 0..MaxCalls, tool : Tools,
                     id : 0..MaxAsks, scoped : BOOLEAN]
    /\ shared \in BOOLEAN

\* Turns of one agent never overlap, or each would answer without the other's
\* history (agents/registry.js:30-36).
OneTurn ==
    \A t, u \in Turns :
        at[t].step \in Busy /\ at[u].step \in Busy /\ Agent[t] = Agent[u] => t = u

\* A tool that needs the owner's approval takes effect only on a request of its
\* own that the owner approved: not on a timeout, not on another call's
\* approval, not twice on one, and not on one answered after a restart.
ApprovedBeforeRun ==
    /\ \A r \in ran : r.tool \in Asking \cup Inline => r.id > 0 /\ rows[r.id] = "approved"
    /\ \A r, q \in ran : r.id = q.id /\ r.id > 0 => r = q

\* What the owner's table says of a request is what its caller was told, for good.
AnswerIsRow == \A id \in AskIds : promise[id] # "none" => rows[id] = promise[id]

\* tools/registry.js:674-678: "executeTool() returns a structured out_of_scope
\* error for any tool name outside the set", which is "computed per message".
InOwnScope == \A r \in ran : r.scoped => r.tool \in Scope[r.turn]

\* ... and does, until turns of two agents overlap.
ScopeRespected == ~shared => InOwnScope

\* The limiter is asked before a tool and told after it, so turns that overlap
\* can pass it, but never by as many calls as there are agents.
QuotaHeld == used < Limit + Cardinality(Agents)

\* Whatever the owner and the tools do or fail to do, a turn ends, and its agent
\* is free for the next.
EveryTurnEnds == \A t \in Turns : at[t].step \in Busy ~> at[t].step \notin Busy

\* The turn's safety in one: one turn per agent, nothing unapproved takes effect,
\* a caller hears what the owner's table says, and a lone turn keeps its scope.
LoopSafe == TypeOK /\ OneTurn /\ ApprovedBeforeRun /\ AnswerIsRow /\ ScopeRespected
=============================================================================
