---------------------------- MODULE TradeExecutor ----------------------------
(***************************************************************************)
(* The step that spends money: TradeExecutor.execute                       *)
(* (src/src/trade_engine/executor.py), its child process                   *)
(* (src/src/trading/execute_trade.py), the relay that posts the order      *)
(* (src/relay/polymarket-relay/relay.py) and the row that makes the new    *)
(* position visible to the monitor (database.write_position).              *)
(*                                                                         *)
(* A run is one call of execute with an approved trade: by a scan, or by   *)
(* POST /execute.  Each await is a point where other runs interleave, so   *)
(* each gate that reads live state is an action.  The order lives outside  *)
(* the engine: once the relay has it, it may fill at any later moment,     *)
(* whatever the engine has concluded by then.  An exchange that answers    *)
(* without an error has not always filled it ("matched"): the answer may   *)
(* say that it waits, or that nothing matched.                             *)
(*                                                                         *)
(* Anything a call can do wrong it may do at any time: Supabase refuses or *)
(* breaks the connection, the child or the relay runs out of time, an      *)
(* answer is lost on its way back, the process dies.                       *)
(***************************************************************************)
EXTENDS Naturals, FiniteSets

CONSTANTS
    Runs,        \* calls of execute, one use each
    Cap          \* MAX_CONCURRENT_POSITIONS

ASSUME ExecutorAssumption == IsFiniteSet(Runs) /\ Cap \in Nat /\ Cap >= 1

VARIABLES
    step,     \* where each run's coroutine is
    result,   \* what it returned: a TradeExecutionResult, or an exception
    order,    \* the run's order as the relay and the exchange know it
    row,      \* the run's row in trading_positions
    cut,      \* history: runs whose order was out when their answer was lost
    overlap   \* history: TRUE once two runs were under way together

vars == <<step, result, order, row, cut, overlap>>

Active   == {"brake", "count", "limits", "book", "post", "await", "record"}
Results  == {"stale_approval", "blocked", "execution_failed", "status_unknown",
             "position_not_recorded", "success"}

Init ==
    /\ step = [e \in Runs |-> "idle"]
    /\ result = [e \in Runs |-> "none"]
    /\ order = [e \in Runs |-> "none"]
    /\ row = [e \in Runs |-> "none"]
    /\ cut = {} /\ overlap = FALSE

Go(e, to) == step' = [step EXCEPT ![e] = to] /\ UNCHANGED result

Return(e, what) ==
    /\ step' = [step EXCEPT ![e] = "done"]
    /\ result' = [result EXCEPT ![e] = what]

OpenRows == {e \in Runs : row[e] = "open"}

-----------------------------------------------------------------------------
(* The gates. *)

\* execute, up to its first await: an approval older than
\* APPROVAL_MAX_AGE_SECONDS is refused here, and not looked at again.
Start(e) ==
    /\ step[e] = "idle"
    /\ Go(e, "brake") \/ Return(e, "stale_approval")
    /\ overlap' = (overlap \/ \E f \in Runs : step[f] \in Active)
    /\ UNCHANGED <<order, row, cut>>

\* Gate 1 (trading_config), gates 3 to 7 (the day's losses, then the candidate
\* against the config just read), gate 8 (the live order book): each passes or
\* refuses by what it reads, which the rest of the model does not depend on.
\* A read that fails is a refusal.
Gate(e, at, to) ==
    /\ step[e] = at
    /\ Go(e, to) \/ Return(e, "blocked")
    /\ UNCHANGED <<order, row, cut, overlap>>

\* Fault: the cap itself passes the gate.
OverCap == Cardinality(OpenRows) > Cap

AtCap == Cardinality(OpenRows) >= Cap

\* Gate 2: count_open_positions, read once; a read that fails is a refusal.
CountGate(e) ==
    /\ step[e] = "count"
    /\ (~AtCap /\ Go(e, "limits")) \/ Return(e, "blocked")
    /\ UNCHANGED <<order, row, cut, overlap>>

-----------------------------------------------------------------------------
(* _place_order: the child posts to the relay, the relay to the exchange. *)

PostOrder(e) ==
    /\ step[e] = "post"
    /\ Go(e, "await")
    /\ order' = [order EXCEPT ![e] = "sent"]
    /\ UNCHANGED <<row, cut, overlap>>

\* The child does not start, or cannot reach the relay, or is turned away.
LaunchFails(e) ==
    /\ step[e] = "post"
    /\ Return(e, "execution_failed")
    /\ UNCHANGED <<order, row, cut, overlap>>

\* The exchange gets to the order: it fills it, turns it down with an error (a
\* fill-or-kill order it cannot fill), or takes it without a match, and then it
\* may still fill, or lapse.
Exchange(e) ==
    /\ \E verdict \in IF order[e] = "sent"    THEN {"filled", "unmatched", "killed"} ELSE
                    IF order[e] = "unmatched" THEN {"filled", "lapsed"} ELSE {} :
         order' = [order EXCEPT ![e] = verdict]
    /\ UNCHANGED <<step, result, row, cut, overlap>>

\* What the exchange answered without an error, whatever the status in its answer.
Answered == {"filled", "unmatched", "lapsed"}

\* returncode 0 and no "error" in the payload: the relay reports success for any
\* answer it gets, and execute does not look at the status in it.
Placed(e) == order[e] \in Answered

AnswerPlaced(e) ==
    /\ step[e] = "await" /\ Placed(e)
    /\ Go(e, "record")
    /\ UNCHANGED <<order, row, cut, overlap>>

\* The relay answers with a handled error: the exchange's, or its own.
AnswerRefused(e) ==
    /\ step[e] = "await" /\ order[e] = "killed"
    /\ Return(e, "execution_failed")
    /\ UNCHANGED <<order, row, cut, overlap>>

\* Fault: a timeout is reported as a failed trade, as before PR #94.
TimeoutFails == "execution_failed"

\* execution_timeout and relay_timeout_status_unknown
TimeoutResult == "status_unknown"

\* Fault: neither the child nor the relay call has a timeout.
NoTimeout(e) == FALSE /\ UNCHANGED vars

\* subprocess.TimeoutExpired after 60s, or the child's own read timeout after
\* 45s.  The order may have filled, may still fill, or not.
TimesOut(e) ==
    /\ step[e] = "await"
    /\ Return(e, TimeoutResult)
    /\ UNCHANGED <<order, row, cut, overlap>>

\* requests' ConnectionError after the order went out, or an exception in the
\* relay while it waited for the exchange: {"error": ...}, like any failure.
ConnectionLost(e) ==
    /\ step[e] = "await"
    /\ Return(e, "execution_failed")
    /\ cut' = cut \cup {e}
    /\ UNCHANGED <<order, row, overlap>>

-----------------------------------------------------------------------------
(* write_position. *)

Record(e) ==
    /\ step[e] = "record"
    /\ row' = [row EXCEPT ![e] = "open"]
    /\ Return(e, "success")
    /\ UNCHANGED <<order, cut, overlap>>

\* success=True, error="position_not_recorded"
UnwrittenResult == "position_not_recorded"

\* SupabaseError or ValueError: caught.  A body that does not decode may follow
\* an insert that took place.
WriteRefused(e) ==
    /\ step[e] = "record"
    /\ row' \in {row, [row EXCEPT ![e] = "open"]}
    /\ Return(e, UnwrittenResult)
    /\ UNCHANGED <<order, cut, overlap>>

\* httpx.TransportError is neither: it leaves execute as an exception.
WriteBreaks(e) ==
    /\ step[e] = "record"
    /\ row' \in {row, [row EXCEPT ![e] = "open"]}
    /\ Return(e, "raised")
    /\ UNCHANGED <<order, cut, overlap>>

-----------------------------------------------------------------------------
(* What surrounds it. *)

\* The monitor or a manual close ends the position.
ClosePosition(e) ==
    /\ row[e] = "open"
    /\ row' = [row EXCEPT ![e] = "closed"]
    /\ UNCHANGED <<step, result, order, cut, overlap>>

\* The process dies with runs in flight; nothing journals them.
Crash ==
    /\ \E e \in Runs : step[e] \in Active
    /\ step' = [e \in Runs |-> IF step[e] \in Active THEN "lost" ELSE step[e]]
    /\ UNCHANGED <<result, order, row, cut, overlap>>

-----------------------------------------------------------------------------
Gates(e) == \/ Gate(e, "brake", "count") \/ CountGate(e)
            \/ Gate(e, "limits", "book") \/ Gate(e, "book", "post")
Place(e) == PostOrder(e) \/ LaunchFails(e)
Await(e) == AnswerPlaced(e) \/ AnswerRefused(e) \/ TimesOut(e) \/ ConnectionLost(e)
Persist(e) == Record(e) \/ WriteRefused(e) \/ WriteBreaks(e)
Execute(e) == Gates(e) \/ Place(e) \/ Await(e) \/ Persist(e)

Next ==
    \/ \E e \in Runs : Start(e) \/ Execute(e) \/ Exchange(e) \/ ClosePosition(e)
    \/ Crash

\* Every call has a timeout and the event loop resumes what can run.  Nothing is
\* assumed of the exchange, and no connection is assumed to break.
Fairness ==
    \A e \in Runs : WF_vars(Gates(e) \/ Place(e) \/ AnswerPlaced(e) \/ AnswerRefused(e)
                            \/ TimesOut(e) \/ Persist(e))

Spec     == Init /\ [][Next]_vars
FairSpec == Spec /\ Fairness

-----------------------------------------------------------------------------
(* What must hold. *)

TypeOK ==
    /\ step \in [Runs -> {"idle", "done", "lost"} \cup Active]
    /\ result \in [Runs -> {"none", "raised"} \cup Results]
    /\ order \in [Runs -> {"none", "sent", "killed"} \cup Answered]
    /\ row \in [Runs -> {"none", "open", "closed"}]
    /\ cut \in SUBSET Runs /\ overlap \in BOOLEAN

\* executor.py:199-201: "The gates read live Supabase state every time precisely
\* so that two executions in the same process cannot share a stale view of the
\* position count", and so the book stays within MAX_CONCURRENT_POSITIONS.
CapHolds == Cardinality(OpenRows) <= Cap

\* ... which it does as long as runs do not overlap (scheduled scans do not),
\* whatever fails and whenever the process dies.
RowsWithinCap == ~overlap => CapHolds

\* Money that moved is never reported as money that did not: an order that
\* fills, even long after execute has returned, is behind a recorded position,
\* an exception, or a result that tells the owner to reconcile.  The runs whose
\* answer was lost on its way back are the ones the code cannot tell from
\* orders turned away.
KnownExposure ==
    \A e \in Runs \ cut : order[e] = "filled" /\ step[e] = "done" =>
        \/ row[e] # "none"
        \/ result[e] \in {"status_unknown", "position_not_recorded", "raised"}

\* A row is never written for an order that did not go out, that the exchange
\* turned down, or whose fate is not known: one without a position in the wallet
\* is of an order taken without a match, which the code takes for a fill.
RowsAreAnswered ==
    \A e \in Runs : row[e] # "none" => order[e] \in Answered

\* Whatever the relay and the exchange do, execute returns: the scan behind it
\* does not hang.
EveryRunEnds == \A e \in Runs : step[e] \in Active ~> step[e] \notin Active

\* Book and wallet agree as far as the code can see: every row is an order the
\* exchange took, and every fill a row or a report.
ExecutorSafe == TypeOK /\ KnownExposure /\ RowsAreAnswered
=============================================================================
