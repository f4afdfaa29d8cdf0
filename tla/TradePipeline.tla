---------------------------- MODULE TradePipeline ----------------------------
(***************************************************************************)
(* One pass of the scanner, from the markets it finds to the order it      *)
(* places: PolymarketScanner.run (src/src/trade_engine/scanner.py), the    *)
(* jobs and routes that start it (main.py, scheduler.py), the Analyst      *)
(* (analyst.py), the sizing of the stake (Sizing), the gates that look at  *)
(* its numbers (executor.py) and what the owner is told at the end.        *)
(*                                                                         *)
(* Between the reading of prices and the order lie a model call, database  *)
(* writes and up to thirty minutes of waiting for a tap, and meanwhile the *)
(* book moves and the configuration changes.  The wait is the approval     *)
(* gate's, of which only the promises matter here: ApprovalContract.  How  *)
(* gates, order and record fail and race is TradeExecutor's subject; here  *)
(* those are one step each, and the money is exact.                        *)
(***************************************************************************)
EXTENDS Sizing, FiniteSets

CONSTANTS
    Scans,      \* scans, one use each
    Job,        \* the cron job behind each, or "post" for POST /scan
    Markets,    \* markets on Polymarket
    Listings,   \* what Gamma and the simulator can say of a market
    Ladders,    \* the order books a market can have
    Ceilings,   \* the values max_position_usdc is given, in cents
    HighEdge,   \* high_edge_threshold
    MaxChanges  \* bound: moves of a book and changes of the configuration

None == [market |-> "none"]

ASSUME PipelineAssumption ==
    /\ IsFiniteSet(Scans) /\ Job \in [Scans -> STRING]
    /\ None.market \notin Markets /\ IsFiniteSet(Markets)
    /\ Listings \subseteq [quote : 1..99, prob : 0..100, minimum : Nat, tradeable : BOOLEAN]
    /\ Ladders \subseteq {b \in Books : Ladder(b)}
    /\ Ceilings \subseteq Nat
    /\ HighEdge \in 1..99 /\ MaxChanges \in Nat

VARIABLES
    stage,     \* where each scan is
    trade,     \* its best_trade while it works on one, or None
    blind,     \* scans that found no max_position_usdc to size against
    moved,     \* scans whose market's book, or ceiling, changed since they read it
    shown,     \* the trade as the owner was asked to approve it
    result,    \* what the executor made of it
    order,     \* the order the exchange took for it, filled or not, or None
    said,      \* what the summary said became of the trade
    book,      \* every market's order book
    ceiling,   \* trading_config.max_position_usdc
    changes,   \* moves and changes so far
    question, report, listed   \* ApprovalContract's

gate    == <<question, report, listed>>
outside == <<book, ceiling, changes>>
vars    == <<stage, trade, blind, moved, shown, result, order, said, outside, gate>>

Gate == INSTANCE ApprovalContract WITH Ids <- Scans

Working == {"scan", "review", "ask", "wait", "check", "book", "place"}

Results == {"none", "gate", "invalid_amount", "invalid_market", "below_minimum", "success",
            "not_recorded", "status_unknown", "execution_failed"}

Sayings == {"nothing found", "analyst skipped", "trade placed", "trade failed",
            "no approval", "timed out", "skipped"}

Init ==
    /\ stage = [s \in Scans |-> "idle"]
    /\ trade = [s \in Scans |-> None] /\ shown = [s \in Scans |-> None]
    /\ order = [s \in Scans |-> None]
    /\ result = [s \in Scans |-> "none"] /\ said = [s \in Scans |-> "none"]
    /\ blind = {} /\ moved = {}
    /\ book \in [Markets -> Ladders] /\ ceiling \in Ceilings /\ changes = 0
    /\ Gate!CInit

Go(s, to) == stage' = [stage EXCEPT ![s] = to] /\ UNCHANGED trade

\* The coroutine is over, and what it held is gone.
End(s, how) ==
    /\ stage' = [stage EXCEPT ![s] = how]
    /\ trade' = [trade EXCEPT ![s] = None]

-----------------------------------------------------------------------------
(* What the owner is told. *)

\* Fault: a result counts as a trade placed unless a gate refused it.
NotRefused(what) == what \notin {"gate", "invalid_amount", "invalid_market", "below_minimum"}

\* TradeExecutionResult.success: an unrecorded trade was placed all the same.
Succeeded(what) == what \in {"success", "not_recorded"}

\* _scan_summary_message, in the order of its branches: of a trade, what the
\* executor made of it and what the owner answered.
Summary(c, what, answer) ==
    IF c = None THEN "nothing found"
    ELSE IF c.verdict = "pass" THEN "analyst skipped"
    ELSE IF what # "none" THEN IF Succeeded(what) THEN "trade placed" ELSE "trade failed"
    ELSE IF answer = "timeout" THEN "timed out"
    ELSE IF answer = "skipped" THEN "skipped"
    ELSE "no approval"

\* The scan returns; a scheduled one writes its heartbeat and sends the summary,
\* POST /scan answers with the same fields.
Conclude(s, what, answer) ==
    /\ End(s, "done")
    /\ said' = [said EXCEPT ![s] = Summary(trade[s], what, answer)]

-----------------------------------------------------------------------------
(* From markets to one trade. *)

\* scheduled_scan and scan, up to the count of open positions, which must be
\* readable.  A cron job has one instance; the three jobs and the route do not
\* exclude one another.
Begin(s) ==
    /\ stage[s] = "idle"
    /\ Job[s] # "post" => \A q \in Scans : Job[q] = Job[s] => stage[q] \notin Working
    /\ Go(s, "scan") \/ Go(s, "failed")
    /\ UNCHANGED <<blind, moved, shown, result, order, said, outside, gate>>

\* _to_candidate: sized at the quote.  A stake refused before the arithmetic is 0.
Quoted(m, on, limit) ==
    LET refusal == Refusal(on, on.minimum, limit, on.quote)
    IN  [market |-> m, on |-> on, limit |-> limit, refusal |-> refusal,
         amount |-> IF refusal \in {"none", "below_exchange_minimum"}
                      THEN Notional(on, limit) ELSE 0,
         minimum |-> on.minimum, fill |-> 0, verdict |-> "none"]

\* _size_against_book: the same read gate 8 makes, for the same notional.  A
\* market without a conditionId is left as it was sized.
AgainstBook(c, readable) ==
    LET b == book[c.market]
    IN  IF c.amount = 0 \/ ~c.on.tradeable THEN c
        ELSE IF ~(readable /\ Walkable(b, c.amount))
               THEN [c EXCEPT !.refusal = "order_book_unread"]
        ELSE [c EXCEPT !.refusal = Refusal(c.on, b.minimum, c.limit, FillPrice(b, c.amount)),
                       !.minimum = b.minimum,
                       !.fill = FillPrice(b, c.amount)]

Edge(c) == c.on.prob - c.on.quote

\* build_run_summary's high-edge bucket, as sized: found maps the markets that
\* passed the filters and were simulated to what is known of them.
Sized(found, readable, limit) ==
    {AgainstBook(Quoted(m, found[m], limit), m \in readable) :
        m \in {n \in DOMAIN found : found[n].prob - found[n].quote >= HighEdge}}

\* select_best_trade: of what can be sized, the highest edge, unless the book of
\* positions was full when the scan began.
Select(candidates) ==
    LET sizeable == {c \in candidates : c.refusal = "none"}
    IN  {None} \cup {c \in sizeable : \A d \in sizeable : Edge(d) <= Edge(c)}

\* The ceiling to size against, when there is one to read: a ceiling of nothing
\* is read as none.
Limits == {Min2(c, HardCeiling) : c \in {ceiling} \ {0}}

\* fetch_markets and analyse_edge: any market may be missing or filtered out.
Passing == SUBSET Markets

\* run_simulations: of those, the ones the simulator answers for, with what it says.
Simulated(passing) == UNION {[seen -> Listings] : seen \in SUBSET passing}

\* fetch_markets to select_best_trade, at the moment its last book is read: an
\* earlier move of another book only changes what there is to choose from.  Any
\* book, and the configuration, may be unreadable.
Scan(s) ==
    /\ stage[s] = "scan"
    /\ \E passing \in Passing : \E found \in Simulated(passing) :
       \E readable \in SUBSET DOMAIN found, limit \in {HardCeiling} \cup Limits :
         /\ \E c \in Select(Sized(found, readable, limit)) : trade' = [trade EXCEPT ![s] = c]
         /\ blind' = IF limit \in Limits THEN blind ELSE blind \cup {s}
    /\ stage' = [stage EXCEPT ![s] = "review"]
    /\ UNCHANGED <<moved, shown, result, order, said, outside, gate>>

\* "reduce": the stake shrinks, and is refused when its shares are too few at the
\* ask the scan walked, or at the quote when it walked none.
Halved(c) ==
    LET amount == Half(c.amount)
        price  == IF c.fill # 0 THEN c.fill ELSE c.on.quote
    IN  [c EXCEPT !.amount = amount, !.verdict = "reduce",
                  !.refusal = IF c.minimum # 0 /\ amount < c.minimum * price
                                THEN "below_exchange_minimum" ELSE c.refusal]

\* apply_analyst, when there is a trade; a failed or unparsable answer is a pass.
\* Then _persist_simulations, before anything is asked: a row that is refused is
\* only logged.
Review(s) ==
    /\ stage[s] = "review"
    /\ stage' = [stage EXCEPT ![s] = "ask"]
    /\ trade' \in IF trade[s] = None THEN {trade}
                 ELSE {[trade EXCEPT ![s] = Halved(trade[s])],
                       [trade EXCEPT ![s].verdict = "pass"],
                       [trade EXCEPT ![s].verdict = "proceed"]}
    /\ UNCHANGED <<blind, moved, shown, result, order, said, outside, gate>>

\* A connection that breaks, in a read of the history or the write of a
\* simulation, is an exception that ends the scan.
Break(s) ==
    /\ stage[s] \in {"scan", "review"}
    /\ End(s, "failed")
    /\ UNCHANGED <<blind, moved, shown, result, order, said, outside, gate>>

-----------------------------------------------------------------------------
(* Approval. *)

Askable(s) == trade[s] # None /\ trade[s].refusal = "none" /\ trade[s].verdict # "pass"

\* apply_approval asks for nothing.
AskNothing(s) ==
    /\ stage[s] = "ask" /\ ~Askable(s)
    /\ Conclude(s, "none", "none")
    /\ UNCHANGED <<blind, moved, shown, result, order, outside, gate>>

AskOwner(s) ==
    /\ stage[s] = "ask" /\ Askable(s)
    /\ Gate!Ask(s)
    /\ shown' = [shown EXCEPT ![s] = trade[s]]
    /\ Go(s, "wait")
    /\ UNCHANGED <<blind, moved, result, order, said, outside>>

\* ApprovalGateBusy: another question is open, or this one was not delivered.
Unasked(s) ==
    /\ \/ stage[s] = "ask" /\ Askable(s) /\ \E q \in Scans : question[q] = "asking"
       \/ stage[s] = "wait" /\ question[s] = "asking"
    /\ Gate!Drop(s) /\ question'[s] # "asking"
    /\ Conclude(s, "none", "none")
    /\ UNCHANGED <<blind, moved, shown, result, order, outside>>

\* The owner taps, nobody does, or a sweep gets there first.
Owner(s) ==
    /\ Gate!Settle(s) \/ Gate!Close(s) \/ Gate!List(s)
    /\ UNCHANGED <<stage, trade, blind, moved, shown, result, order, said, outside>>

\* Fault: only a tap wakes the wait.
AnswerTap(s) ==
    /\ stage[s] = "wait"
    /\ Gate!Report(s)
    /\ report'[s] # "timeout"
    /\ IF report'[s] = "approved" THEN Go(s, "check") /\ UNCHANGED said
                                  ELSE Conclude(s, "none", report'[s])
    /\ UNCHANGED <<blind, moved, shown, result, order, outside>>

\* wait_for_decision returns; apply_execution acts on an approval only.
Answer(s) ==
    /\ stage[s] = "wait"
    /\ Gate!Report(s)
    /\ IF report'[s] = "approved" THEN Go(s, "check") /\ UNCHANGED said
                                  ELSE Conclude(s, "none", report'[s])
    /\ UNCHANGED <<blind, moved, shown, result, order, outside>>

-----------------------------------------------------------------------------
(* Execution. *)

\* execute returns a result, and the scan with it.
Return(s, what) ==
    /\ result' = [result EXCEPT ![s] = what]
    /\ Conclude(s, what, "approved")

\* Gate 5: within what trading_config says now.  A ceiling of nothing allows none.
Allowed(n) == n > 0 /\ n <= Min2(ceiling, HardCeiling)

\* The staleness check, gates 1 to 4 and 7: the brake, the cap, the day's losses,
\* the edge and the horizon, which refuse by what the rest does not depend on.
\* Gate 5 looks at the stake, gate 6 at the identifier.
Check(s) ==
    /\ stage[s] = "check"
    /\ \/ Return(s, "gate")
       \/ ~Allowed(trade[s].amount) /\ Return(s, "invalid_amount")
       \/ /\ Allowed(trade[s].amount)
          /\ IF trade[s].on.tradeable THEN Go(s, "book") /\ UNCHANGED <<result, said>>
                                      ELSE Return(s, "invalid_market")
    /\ UNCHANGED <<blind, moved, shown, order, outside, gate>>

\* Gate 8 walks the book again; a read that fails refuses too.
CheckBook(s) ==
    LET b == book[trade[s].market]
        n == trade[s].amount
    IN  /\ stage[s] = "book"
        /\ \/ Return(s, "gate")
           \/ ~(Walkable(b, n) /\ Enough(b, n)) /\ Return(s, "below_minimum")
           \/ Walkable(b, n) /\ Enough(b, n) /\ Go(s, "place") /\ UNCHANGED <<result, said>>
        /\ UNCHANGED <<blind, moved, shown, order, outside, gate>>

\* _place_order.  The client floors the stake and walks the book as it is now, and
\* the exchange takes the order at the price of that walk or turns it down with an
\* error.  An order taken is a success, recorded or not, whatever the status in the
\* answer: the relay and execute do not ask whether it was matched.  Or it runs
\* out of time, loses its answer on the way, or breaks the write of its row, which
\* ends the scan.
Place(s) ==
    LET b == book[trade[s].market]
        n == trade[s].amount
        taken == [market |-> trade[s].market, amount |-> RoundDown(n),
                  price |-> FillPrice(b, n)]
    IN  /\ stage[s] = "place"
        /\ \/ /\ Walkable(b, n) /\ Enough(b, n)
              /\ order' = [order EXCEPT ![s] = taken]
              /\ \/ \E what \in {"success", "not_recorded", "status_unknown",
                                 "execution_failed"} : Return(s, what)
                 \/ End(s, "failed") /\ UNCHANGED <<result, said>>
           \/ /\ UNCHANGED order
              /\ \E what \in {"status_unknown", "execution_failed"} : Return(s, what)
        /\ UNCHANGED <<blind, moved, shown, outside, gate>>

-----------------------------------------------------------------------------
(* What surrounds it. *)

Reading == {s \in Scans : trade[s] # None}

MoveBook(m) ==
    /\ changes < MaxChanges
    /\ changes' = changes + 1
    /\ \E b \in Ladders \ {book[m]} : book' = [book EXCEPT ![m] = b]
    /\ moved' = moved \cup {s \in Reading : trade[s].market = m}
    /\ UNCHANGED <<stage, trade, blind, shown, result, order, said, ceiling, gate>>

\* trading_config is edited in the database.
ChangeCeiling ==
    /\ changes < MaxChanges
    /\ changes' = changes + 1
    /\ ceiling' \in Ceilings \ {ceiling}
    /\ moved' = moved \cup Reading
    /\ UNCHANGED <<stage, trade, blind, shown, result, order, said, book, gate>>

\* The process dies; no scan is taken up again.
Crash ==
    /\ \E s \in Scans : stage[s] \in Working
    /\ stage' = [s \in Scans |-> IF stage[s] \in Working THEN "lost" ELSE stage[s]]
    /\ trade' = [s \in Scans |-> None]
    /\ Gate!Crash
    /\ UNCHANGED <<blind, moved, shown, result, order, said, outside>>

-----------------------------------------------------------------------------
Prepare(s) == Scan(s) \/ Review(s)
Ask(s)     == AskNothing(s) \/ AskOwner(s) \/ Unasked(s)
Execute(s) == Check(s) \/ CheckBook(s) \/ Place(s)

Next ==
    \/ \E s \in Scans : Begin(s) \/ Prepare(s) \/ Break(s) \/ Ask(s) \/ Owner(s) \/ Answer(s)
                        \/ Execute(s)
    \/ \E m \in Markets : MoveBook(m)
    \/ ChangeCeiling \/ Crash

\* Every call has a timeout, and the gate ends every question it is asked.
Fairness ==
    \A s \in Scans :
        /\ WF_vars(Prepare(s)) /\ WF_vars(Ask(s)) /\ WF_vars(Execute(s))
        /\ WF_vars(Owner(s) /\ question'[s] # question[s]) /\ WF_vars(Answer(s))

Spec     == Init /\ [][Next]_vars
FairSpec == Spec /\ Fairness

-----------------------------------------------------------------------------
(* What must hold. *)

Candidates ==
    [market : Markets, on : Listings, limit : Nat, refusal : Refusals, amount : Nat,
     minimum : Nat, fill : 0..99, verdict : {"none", "proceed", "pass", "reduce"}]

Orders == [market : Markets, amount : Nat, price : 0..99]

TypeOK ==
    /\ stage \in [Scans -> {"idle", "done", "failed", "lost"} \cup Working]
    /\ trade \in [Scans -> Candidates \cup {None}]
    /\ shown \in [Scans -> Candidates \cup {None}]
    /\ result \in [Scans -> Results] /\ order \in [Scans -> Orders \cup {None}]
    /\ said \in [Scans -> {"none"} \cup Sayings]
    /\ blind \subseteq Scans /\ moved \subseteq Scans
    /\ book \in [Markets -> Ladders] /\ ceiling \in Ceilings /\ changes \in 0..MaxChanges

\* The order is the one the owner approved: the same market and, to the cent and
\* after the client's own floor, the amount on the message; and the Analyst had
\* not said pass.
AsShown ==
    \A s \in Scans : order[s] # None =>
        /\ report[s] = "approved" /\ shown[s].verdict \in {"proceed", "reduce"}
        /\ order[s].market = shown[s].market /\ order[s].amount = shown[s].amount

\* sizing.py: "a trade the scanner sizes is refused at execution only if the book
\* moved in between, never for a reason the scanner did not anticipate": neither
\* for its stake nor for its shares.  The scans that read no ceiling are the
\* exception the code makes (scanner.py:602-621); markets without a conditionId,
\* which gate 6 refuses, are one it does not.
Anticipated ==
    \A s \in Scans : result[s] \in {"invalid_amount", "below_minimum"} =>
        s \in moved \cup blind

\* "The CAP IS THE DEBIT" (sizing.py:28): with the fee, an order that fills at the
\* quote or dearer stays within the ceiling its scan sized it against, whatever
\* the Analyst made of it since.  Below the quote the fee is a larger share.
DebitWithinCeiling ==
    \A s \in Scans : order[s] # None /\ order[s].price >= shown[s].on.quote =>
        order[s].amount * FeeFactor(order[s].price) <= shown[s].limit * 10000

\* A summary that says a trade was placed is of an order the exchange took (taken
\* is not filled: the code does not look), and one that says nothing was bought
\* is of a scan of which the exchange took none.
SummaryIsTrue ==
    \A s \in Scans :
        /\ said[s] = "trade placed" => order[s] # None
        /\ said[s] \in Sayings \ {"trade placed", "trade failed"} => order[s] = None

\* A scan ends, with the tap or without it, so the next of its job can begin.
EveryScanEnds == \A s \in Scans : stage[s] \in Working ~> stage[s] \notin Working

\* executor.py:565-568: an order that may have been placed is "status unknown and
\* a human reconciles, never "Trade failed" (which reads as "no money moved")".
UnknownIsNotFailed ==
    \A s \in Scans : result[s] = "status_unknown" => said[s] # "trade failed"

\* What the owner was shown is what is ordered, and what the scanner let through
\* is refused later only for what changed since.
PipelineSafe == TypeOK /\ AsShown /\ Anticipated
=============================================================================
