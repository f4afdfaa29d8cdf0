---------------------------- MODULE ApprovalGate ----------------------------
(***************************************************************************)
(* The human approval gate of the trade engine:                            *)
(* src/src/trade_engine/approval.py.                                       *)
(*                                                                         *)
(* A scan asks the gate to put one trade in front of the owner on Telegram *)
(* and blocks until the owner taps a button or the window closes.  The     *)
(* gate keeps two dictionaries, _pending and _results, behind one asyncio  *)
(* lock.  An action below is a stretch of code that runs without giving up *)
(* control: a critical section, one turn of the polling loop, one network  *)
(* answer.  Four kinds of party interleave: the callers (scans blocked in  *)
(* send_approval_request and wait_for_decision), the update poller with    *)
(* its expiry sweep, the owner's taps, and Telegram itself.                *)
(*                                                                         *)
(* Time: untilExpiry is the wall-clock time left to expires_at, and age    *)
(* the monotonic time since registration, which the waiter's own deadline  *)
(* is measured by; the code compares each with its own clock.  ClockStep   *)
(* is an NTP correction of the wall clock, which leaves the monotonic      *)
(* clock alone.  A tick is far longer than a network call, so a send takes *)
(* no tick and the two limits fall due in the same one.                    *)
(***************************************************************************)
EXTENDS Naturals, FiniteSets

CONSTANTS
    Ids,           \* approval ids (uuid4), one per request ever made
    Senders,       \* who can press a button; "owner" is the configured chat
    Window,        \* approval_timeout_seconds, in ticks
    MaxRetained,   \* MAX_RETAINED_RESULTS
    MaxTaps,       \* bound on the distinct presses of a behaviour
    MaxSteps,      \* bound on the steps of the wall clock
    Restarts       \* TRUE: the process may restart

ASSUME IdsAssumption == IsFiniteSet(Ids)
ASSUME WindowAssumption == Window \in Nat /\ Window >= 2
ASSUME RetainedAssumption == MaxRetained \in Nat /\ MaxRetained >= 1
ASSUME BoundAssumption == MaxTaps \in Nat /\ MaxSteps \in Nat /\ Restarts \in BOOLEAN

VARIABLES
    caller,        \* where each request's coroutine is, or what it got back
    pending,       \* keys of _pending
    untilExpiry,   \* expires_at - now, wall clock, 0 once expired
    age,           \* monotonic time spent in _pending, up to Window
    stepped,       \* steps of the wall clock so far
    results,       \* _results, each entry with its insertion number
    published,     \* results inserted so far: the next insertion number
    sweep,         \* check_pending_expirations' list, collected, not expired
    listed,        \* history: the requests such a list has ever held
    message,       \* what the owner's chat shows for the request
    messageId,     \* requests whose pending.message_id is set
    edits,         \* outcome edits still to be sent
    taps,          \* button presses Telegram may deliver, in any order, again
    ruling         \* what handle_callback decided and answered to the owner

gate   == <<pending, results, published>>
mono   == <<age, stepped>>
clocks == <<untilExpiry, mono>>
chat   == <<message, messageId, edits>>
sweeping == <<sweep, listed>>
vars   == <<caller, gate, clocks, sweeping, chat, taps, ruling>>

Decisions == {"approved", "skipped", "timeout"}
Active    == {"sending", "waiting", "expiring", "notifying"}
Failures  == {"busy", "undelivered", "cancelled", "lost"}
Buttons   == {"approve", "skip"}
Outcome(button) == IF button = "approve" THEN "approved" ELSE "skipped"

Init ==
    /\ caller = [r \in Ids |-> "idle"]
    /\ pending = {} /\ results = {} /\ published = 0
    /\ untilExpiry = [r \in Ids |-> 0]
    /\ age = [r \in Ids |-> 0] /\ stepped = 0
    /\ sweep = {} /\ listed = {}
    /\ message = [r \in Ids |-> "unsent"]
    /\ messageId = {} /\ edits = {}
    /\ taps = {}
    /\ ruling = [r \in Ids |-> "none"]

-----------------------------------------------------------------------------
(* The dictionaries. *)

\* Fault: expiry is recognised one tick early.
ExpiredEarly(r) == untilExpiry[r] <= 1

Expired(r) == untilExpiry[r] = 0

ResultOf(r) == {e \in results : e.id = r}

\* The newest MaxRetained entries: the oldest keys are popped first.
Retain(entries) ==
    {e \in entries : Cardinality({f \in entries : f.seq > e.seq}) < MaxRetained}

\* _publish_result for every id of ids, all with one status.  The gate never
\* publishes two ids in one step (at most one is pending), so one insertion
\* number serves the step.
Publish(ids, status) ==
    /\ results' = Retain(results \cup
                    {[id |-> r, status |-> status, seq |-> published] : r \in ids})
    /\ published' = IF ids = {} THEN published ELSE published + 1

\* _pending.pop(r, None): the entry goes, and its expires_at with it.
Pop(r) ==
    /\ pending' = pending \ {r}
    /\ untilExpiry' = [untilExpiry EXCEPT ![r] = 0]

\* _results.pop(r, None)
Collect(r) == results' = results \ ResultOf(r) /\ UNCHANGED published

Edit(r, label) == [id |-> r, label |-> label]

\* Fault: the timeout is published but the entry stays.
ExpireKeeps(r) ==
    /\ UNCHANGED <<pending, untilExpiry>>
    /\ Publish({r}, "timeout")
    /\ edits' = edits \cup {Edit(r, "expired")}

\* The critical section of _expire, and of handle_callback on a late tap: the
\* entry goes, its timeout is published, and the chat is to be told.
ExpirePending(r) ==
    /\ Pop(r)
    /\ Publish({r}, "timeout")
    /\ edits' = edits \cup {Edit(r, "expired")}

-----------------------------------------------------------------------------
(* send_approval_request. *)

\* Fault: the sweep recognises nothing as expired.
SweepsNothing == {}

\* The pending requests a sweep takes out.
Swept == {r \in pending : Expired(r)}

\* Something is still pending once the expired entries are swept out.
Busy == pending \ Swept # {}

\* The first critical section: the sweep drops expired entries and publishes
\* their timeout, then the request is registered, before any network call.
Register(r) ==
    /\ caller[r] = "idle" /\ ~Busy
    /\ Publish(Swept, "timeout")
    /\ pending' = (pending \ Swept) \cup {r}
    /\ caller' = [caller EXCEPT ![r] = "sending"]
    /\ untilExpiry' = [untilExpiry EXCEPT ![r] = Window]
    /\ age' = [age EXCEPT ![r] = 0]
    /\ UNCHANGED <<stepped, sweeping, chat, taps, ruling>>

\* The sweep left something pending: ApprovalGateBusy.
RefuseBusy(r) ==
    /\ caller[r] = "idle" /\ Busy
    /\ Publish(Swept, "timeout")
    /\ pending' = pending \ Swept
    /\ caller' = [caller EXCEPT ![r] = "busy"]
    /\ UNCHANGED <<clocks, sweeping, chat, taps, ruling>>

\* Telegram posts the message; the sender has not heard back yet.
TelegramPosts(r) ==
    /\ caller[r] = "sending" /\ message[r] = "unsent"
    /\ message' = [message EXCEPT ![r] = "live"]
    /\ UNCHANGED <<caller, gate, clocks, sweeping, messageId, edits, taps, ruling>>

\* sendMessage returned the posted message: remember its id and enter
\* wait_for_decision.
SendSucceeds(r) ==
    /\ caller[r] = "sending" /\ message[r] # "unsent"
    /\ caller' = [caller EXCEPT ![r] = "waiting"]
    /\ messageId' = messageId \cup {r}
    /\ UNCHANGED <<gate, clocks, sweeping, message, edits, taps, ruling>>

\* sendMessage returned None: an HTTP error, a refusal, or a timeout of a
\* request Telegram may have carried out all the same.
SendFails(r) ==
    /\ caller[r] = "sending"
    /\ Pop(r)
    /\ caller' = [caller EXCEPT ![r] = "undelivered"]
    /\ UNCHANGED <<results, published, mono, sweeping, chat, taps, ruling>>

-----------------------------------------------------------------------------
(* handle_callback, from the update poller or the webhook route. *)

\* A button can be pressed while the message still shows its keyboard.
Tap(r, button, sender) ==
    /\ message[r] \in {"live", "stuck"}
    /\ Cardinality(taps) < MaxTaps
    /\ taps' = taps \cup {[id |-> r, button |-> button, from |-> sender]}
    /\ UNCHANGED <<caller, gate, clocks, sweeping, chat, ruling>>

\* Telegram always names the sender; a callback without one would pass.
Authorised(t) == t.from = "owner"

\* The tap finds its request pending and in time: it decides.
Decide(t) ==
    /\ Authorised(t)
    /\ t.id \in pending /\ ~Expired(t.id)
    /\ Pop(t.id)
    /\ Publish({t.id}, Outcome(t.button))
    /\ ruling' = [ruling EXCEPT ![t.id] = Outcome(t.button)]
    /\ edits' = edits \cup {Edit(t.id, Outcome(t.button))}
    /\ UNCHANGED <<caller, mono, sweeping, message, messageId, taps>>

\* The tap finds its request pending and expired: it times it out.
DecideLate(t) ==
    /\ Authorised(t)
    /\ t.id \in pending /\ Expired(t.id)
    /\ ExpirePending(t.id)
    /\ UNCHANGED <<caller, mono, sweeping, message, messageId, taps, ruling>>

\* _edit_message: nothing without a message id; otherwise Telegram applies
\* the edit, dropping the keyboard, or the call fails, which is ignored and
\* leaves the message stuck as it was.
EditMessage(e) ==
    /\ edits' = edits \ {e}
    /\ IF e.id \in messageId
         THEN \E label \in {e.label, "stuck"} :
                message' = [message EXCEPT ![e.id] = label]
         ELSE UNCHANGED message
    /\ UNCHANGED <<caller, gate, clocks, sweeping, messageId, taps, ruling>>

-----------------------------------------------------------------------------
(* wait_for_decision and _expire. *)

\* A turn of the polling loop that finds a result.
Poll(r) ==
    /\ caller[r] = "waiting"
    /\ \E e \in ResultOf(r) : caller' = [caller EXCEPT ![r] = e.status]
    /\ Collect(r)
    /\ UNCHANGED <<pending, clocks, sweeping, chat, taps, ruling>>

\* "approval vanished without a result": recorded as a timeout.
PollVanished(r) ==
    /\ caller[r] = "waiting"
    /\ ResultOf(r) = {} /\ r \notin pending
    /\ caller' = [caller EXCEPT ![r] = "timeout"]
    /\ UNCHANGED <<gate, clocks, sweeping, chat, taps, ruling>>

\* time.monotonic() >= deadline
DeadlinePassed(r) == age[r] >= Window

DeadlineReached(r) ==
    /\ caller[r] = "waiting"
    /\ ResultOf(r) = {} /\ r \in pending
    /\ DeadlinePassed(r)
    /\ caller' = [caller EXCEPT ![r] = "expiring"]
    /\ UNCHANGED <<gate, clocks, sweeping, chat, taps, ruling>>

WaiterExpires(r) ==
    /\ caller[r] = "expiring" /\ r \in pending
    /\ ExpirePending(r)
    /\ caller' = [caller EXCEPT ![r] = "notifying"]
    /\ UNCHANGED <<mono, sweeping, message, messageId, taps, ruling>>

\* Fault: the waiter that lost the race reports a timeout whatever was decided.
YieldsTimeout(r) ==
    /\ caller[r] = "expiring" /\ r \notin pending
    /\ caller' = [caller EXCEPT ![r] = "timeout"]
    /\ Collect(r)
    /\ UNCHANGED <<pending, clocks, sweeping, chat, taps, ruling>>

\* The waiter lost the race for the lock: a tap or a sweep resolved it first.
WaiterYields(r) ==
    /\ caller[r] = "expiring" /\ r \notin pending
    /\ \/ \E e \in ResultOf(r) : caller' = [caller EXCEPT ![r] = e.status]
       \/ ResultOf(r) = {} /\ caller' = [caller EXCEPT ![r] = "timeout"]
    /\ Collect(r)
    /\ UNCHANGED <<pending, clocks, sweeping, chat, taps, ruling>>

\* The expiry notice is out: the waiter returns and clears its own result.
WaiterReturns(r) ==
    /\ caller[r] = "notifying"
    /\ caller' = [caller EXCEPT ![r] = "timeout"]
    /\ Collect(r)
    /\ UNCHANGED <<pending, clocks, sweeping, chat, taps, ruling>>

\* check_pending_expirations collects under the lock and lets it go.
SweepCollects ==
    /\ sweep = {} /\ Swept # {}
    /\ sweep' = Swept
    /\ listed' = listed \cup Swept
    /\ UNCHANGED <<caller, gate, clocks, chat, taps, ruling>>

\* ... then expires each, taking the lock again.  _expire returns what it
\* finds to the sweep, which has no use for it.
SweepExpires(r) ==
    /\ r \in sweep
    /\ sweep' = sweep \ {r}
    /\ \/ r \in pending /\ ExpirePending(r)
       \/ r \notin pending /\ Collect(r) /\ UNCHANGED <<pending, untilExpiry, edits>>
    /\ UNCHANGED <<caller, mono, listed, message, messageId, taps, ruling>>

-----------------------------------------------------------------------------
(* What surrounds the gate. *)

\* The request is dropped: a /scan client went away, the task was cancelled.
Cancel(r) ==
    /\ caller[r] \in Active
    /\ caller' = [caller EXCEPT ![r] = "cancelled"]
    /\ UNCHANGED <<gate, clocks, sweeping, chat, taps, ruling>>

\* Nothing the gate holds survives the process; the chat does.
Restart ==
    /\ Restarts
    /\ caller' = [r \in Ids |-> IF caller[r] \in Active THEN "lost" ELSE caller[r]]
    /\ pending' = {} /\ results' = {} /\ sweep' = {} /\ edits' = {}
    /\ messageId' = {} /\ untilExpiry' = [r \in Ids |-> 0]
    /\ UNCHANGED <<published, mono, listed, message, taps, ruling>>

Down(n) == IF n > 0 THEN n - 1 ELSE 0

\* Both clocks advance for whatever is pending.
Tick ==
    /\ \E r \in pending : age[r] < Window \/ ~Expired(r)
    /\ \A r \in Ids : caller[r] # "sending"
    /\ untilExpiry' = [r \in Ids |-> IF r \in pending THEN Down(untilExpiry[r])
                                     ELSE untilExpiry[r]]
    /\ age' = [r \in Ids |-> IF r \in pending /\ age[r] < Window
                             THEN age[r] + 1 ELSE age[r]]
    /\ UNCHANGED <<stepped, caller, gate, sweeping, chat, taps, ruling>>

\* The wall clock is stepped, either way, by any amount.
ClockStep ==
    /\ stepped < MaxSteps /\ stepped' = stepped + 1
    /\ \E r \in pending, left \in 0..Window :
         untilExpiry' = [untilExpiry EXCEPT ![r] = left]
    /\ UNCHANGED <<caller, gate, age, sweeping, chat, taps, ruling>>

-----------------------------------------------------------------------------
Request(r) == Register(r) \/ RefuseBusy(r) \/ SendSucceeds(r) \/ SendFails(r)
Wait(r) == \/ Poll(r) \/ PollVanished(r) \/ DeadlineReached(r)
           \/ WaiterExpires(r) \/ WaiterYields(r) \/ WaiterReturns(r)
Callback(t) == Decide(t) \/ DecideLate(t)
Sweeper == SweepCollects \/ \E r \in Ids : SweepExpires(r)

Next ==
    \/ \E r \in Ids : Request(r) \/ Wait(r) \/ TelegramPosts(r) \/ Cancel(r)
    \/ \E r \in Ids, button \in Buttons, sender \in Senders : Tap(r, button, sender)
    \/ \E t \in taps : Callback(t)
    \/ \E e \in edits : EditMessage(e)
    \/ Sweeper
    \/ Restart \/ Tick \/ ClockStep

\* What the event loop and the clients' own timeouts guarantee: every network
\* call returns, every coroutine that can run does, the poller keeps sweeping
\* and time passes.  Nothing makes a person tap or a scan ask.
Fairness ==
    /\ \A r \in Ids : /\ WF_vars(SendSucceeds(r) \/ SendFails(r))
                      /\ WF_vars(Wait(r))
    /\ WF_vars(\E e \in edits : EditMessage(e))
    /\ WF_vars(Sweeper)
    /\ WF_vars(Tick)

Spec     == Init /\ [][Next]_vars
FairSpec == Spec /\ Fairness
-----------------------------------------------------------------------------
(* What must hold. *)

Entries == [id : Ids, status : Decisions, seq : Nat]

TypeOK ==
    /\ caller \in [Ids -> {"idle"} \cup Active \cup Decisions \cup Failures]
    /\ pending \in SUBSET Ids
    /\ untilExpiry \in [Ids -> 0..Window]
    /\ age \in [Ids -> 0..Window] /\ stepped \in Nat
    /\ results \in SUBSET Entries
    /\ published \in Nat
    /\ sweep \in SUBSET Ids /\ listed \in SUBSET Ids
    /\ message \in [Ids -> {"unsent", "live", "stuck", "approved", "skipped", "expired"}]
    /\ messageId \in SUBSET Ids
    /\ edits \in SUBSET [id : Ids, label : {"approved", "skipped", "expired"}]
    /\ taps \in SUBSET [id : Ids, button : Buttons, from : Senders]
    /\ ruling \in [Ids -> {"none", "approved", "skipped"}]

\* "One pending approval at a time is a hard rule": whatever the callers, the
\* sweep, taps and restarts interleave, _pending never holds two requests.
OnePending == \A r, q \in pending : r = q

\* A scan is handed "approved" only for a request its owner approved, by a tap
\* the gate itself accepted: a stranger's tap, a tap on another request, a
\* skip, a lost race or a restart never turns into a trade.
ApprovedByOwner ==
    \A r \in Ids : caller[r] = "approved" =>
        /\ ruling[r] = "approved"
        /\ \E t \in taps : t.id = r /\ t.button = "approve" /\ t.from = "owner"

\* A request is in at most one place: still pending, or decided once.  Two
\* results for one request would leave one behind to be read by nobody.
DecidedOnce ==
    \A e \in results : /\ e.id \notin pending
                       /\ \A f \in results : f.id = e.id => f = e

\* The chat never tells the owner a different story from the scan: the label a
\* message ends with is the outcome its caller was given, wall-clock steps and all.
\* One case is excused: the sweep listed a request as expired and let the lock go,
\* a step back of the clock revived it, a tap was accepted and answered, and the
\* sweep then threw the tap's result away.
ChatAgrees ==
    \A r \in Ids : stepped = 0 \/ r \notin listed =>
        /\ message[r] = "expired" => caller[r] \notin {"approved", "skipped"}
        /\ message[r] \in {"approved", "skipped"} =>
             caller[r] \notin Decisions \ {message[r]}

\* A request times out only after its whole window while the wall clock is left
\* alone: a step forward can end it early (approval.py:627).
FullWindow ==
    stepped = 0 => \A r \in Ids : caller[r] = "timeout" => age[r] >= Window

\* approval.py:535: the monotonic deadline means "an NTP step during the
\* 30-minute window cannot expire an approval early or hang it".  The first half
\* is true of the waiter's own deadline only (FullWindow).  The second half, and
\* more: every scan that asks is answered, whatever the wall clock does.
EveryRequestEnds ==
    \A r \in Ids : caller[r] \in Active ~> caller[r] \in Decisions \cup Failures

\* A request whose scan is gone does not hold the gate: it leaves _pending.
GateFrees == \A r \in Ids : r \in pending ~> r \notin pending

\* The gate's safety in one: at most one question is open, a question has at most
\* one outcome, and only the owner's tap makes it an approval.
GateSafe == TypeOK /\ OnePending /\ DecidedOnce /\ ApprovedByOwner

-----------------------------------------------------------------------------
(* What the gate promises, and how its state keeps the promise. *)

\* The question as the contract sees it: open while in _pending; settled once
\* a tap was ruled on; otherwise new or closed.
Question ==
    [r \in Ids |-> IF r \in pending THEN "asking"
                   ELSE IF ruling[r] # "none" THEN ruling[r]
                   ELSE IF caller[r] \in {"idle", "busy"} THEN "new" ELSE "closed"]

ReportOf ==
    [r \in Ids |-> IF caller[r] \in Decisions THEN caller[r]
                   ELSE IF caller[r] \in Failures THEN "failed" ELSE "none"]

Contract == INSTANCE ApprovalContract WITH question <- Question, report <- ReportOf

\* The gate keeps its contract: at most one question is put at a time, a tap
\* settles it for good, and a scan is told what was settled and nothing else.
KeepsContract == Contract!CSafe

\* Nobody waits on the gate for ever: neither the scan that asked, nor the one
\* after it, nor a question the contract has to see closed and reported.
GateEnds == GateFrees /\ EveryRequestEnds /\ Contract!CFair
=============================================================================
