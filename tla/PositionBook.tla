---------------------------- MODULE PositionBook ----------------------------
(***************************************************************************)
(* The open positions of the trade engine and everything that ends or      *)
(* flags one: the Position Monitor's sweeps (src/src/trade_engine/         *)
(* monitor.py), the manual-close and hold routes (main.py), over the two   *)
(* Supabase tables trading_positions and trading_position_alerts           *)
(* (database.py).                                                          *)
(*                                                                         *)
(* Every database call is one action, because Postgres runs each statement *)
(* atomically and the engine holds no transaction across two of them.      *)
(* Between its calls a sweep works from the rows it fetched first, so a    *)
(* position may be closed or held under it.  Sweeps overlap: APScheduler   *)
(* allows one scheduled sweep, and GET|POST /monitor/run starts others.    *)
(*                                                                         *)
(* A database or Telegram call may succeed, be refused, or have its answer *)
(* lost after taking effect (Faults).                                      *)
(***************************************************************************)
EXTENDS Naturals

CONSTANTS
    Positions,   \* position ids
    Sweepers,    \* monitor sweeps that may run at once; Cron is the scheduled one
    Cron,
    Closers,     \* manual-close requests, one use each
    AlertTypes,  \* the thresholds: take_profit, stop_loss, weakening
    Holds,       \* TRUE: the operator may hold and release positions
    Faults       \* TRUE: calls fail, answers are lost, the process restarts

ASSUME BookAssumption ==
    /\ AlertTypes \cap {"calm", "final", "none"} = {}
    /\ Sweepers \cap Closers = {} /\ "none" \notin Sweepers \cup Closers
    /\ Holds \in BOOLEAN /\ Faults \in BOOLEAN

VARIABLES
    status,     \* trading_positions.status; "none" before the row exists
    held,       \* positions with manual_hold
    exit,       \* who wrote the row's exit columns last, "none" while open
    alerts,     \* trading_position_alerts, each row with its number
    serial,     \* the number of the last alert row inserted
    market,     \* what Gamma would say of the position's market
    finals,     \* history: positions whose price stood at 0 or 1 while they had a row
    delivered,  \* alerts the operator has actually received, by row number
    todo,       \* per sweep: positions fetched as open and not yet evaluated
    heldSeen,   \* per sweep: those fetched with manual_hold set
    at,         \* per sweep: what it is doing for which position
    request     \* per manual close: where it is

rows   == <<status, held, exit>>
table  == <<alerts, serial>>
sweeps == <<todo, heldSeen, at>>
prices == <<market, finals>>
vars   == <<rows, table, prices, delivered, sweeps, request>>

\* The direction side's price as _check_one tells it apart: a crossing, at 0.0
\* or 1.0 whether or not the market has closed ("final"), and what it leaves
\* alone ("calm": no crossing, or closed at a price that is not final, as a
\* market voided at 50/50 is).
Quotes == AlertTypes \cup {"calm", "final"}
Alert  == [n : Nat, pos : Positions, type : AlertTypes,
           live : BOOLEAN, notified : BOOLEAN]

\* What a sweep does between positions.
Between == [step |-> "next", pos |-> "none", type |-> "none", n |-> 0]
Idle    == [Between EXCEPT !.step = "idle"]
Flagging == {"insert", "lookup", "notify", "stamp"}
Working  == Flagging \cup {"close", "tidy"}

Init ==
    /\ status = [p \in Positions |-> "none"]
    /\ held = {}
    /\ exit = [p \in Positions |-> "none"]
    /\ alerts = {} /\ serial = 0 /\ delivered = {}
    /\ market = [p \in Positions |-> "calm"] /\ finals = {}
    /\ todo = [s \in Sweepers |-> {}]
    /\ heldSeen = [s \in Sweepers |-> {}]
    /\ at = [s \in Sweepers |-> Idle]
    /\ request = [c \in Closers |-> [step |-> "idle", pos |-> "none"]]

-----------------------------------------------------------------------------
(* The tables. *)

Open == {p \in Positions : status[p] = "open"}

\* Fault: the fetch forgets its status filter.
EveryRow == {p \in Positions : status[p] # "none"}

\* get_open_positions
Fetched == Open

Live(p) == {a \in alerts : a.pos = p /\ a.live}

\* trading_position_alerts_live_uniq refuses a second live alert of one type.
Clashes(p, type) == \E a \in Live(p) : a.type = type

NewAlert(p, type) ==
    [n |-> serial + 1, pos |-> p, type |-> type,
     live |-> TRUE, notified |-> FALSE]

\* update_position to status "closed", whatever the row's status.
CloseRow(p, who) ==
    /\ status' = [status EXCEPT ![p] = "closed"]
    /\ exit' = [exit EXCEPT ![p] = who]
    /\ UNCHANGED held

\* resolve_alerts_for_position
Resolve(p) ==
    /\ alerts' = {IF a.pos = p THEN [a EXCEPT !.live = FALSE] ELSE a : a \in alerts}
    /\ UNCHANGED serial

\* Fault: the retry of an undelivered alert is missing; a duplicate is silent.
NoneUndelivered(p, type) == {}

\* _undelivered_alert
Undelivered(p, type) == {a \in Live(p) : a.type = type /\ ~a.notified}

-----------------------------------------------------------------------------
(* What _check_one tells apart. *)

\* Fault: a take-profit crossing closes the position, as it did before
\* 2026-08-20.
ClosesOnCrossing(q) == q \in AlertTypes \cup {"final"}

\* The direction-side price is 0.0 or 1.0: the close does not wait for the
\* market to have closed.
IsSettled(q) == q = "final"

\* A take-profit, stop-loss or weakening threshold is crossed.
Crosses(q) == q \in AlertTypes

-----------------------------------------------------------------------------
(* What happens around the monitor. *)

\* The executor, or a hand-placed trade logged through /positions/manual,
\* inserts an open row.
OpenPosition(p) ==
    /\ status[p] = "none"
    /\ status' = [status EXCEPT ![p] = "open"]
    /\ finals' = finals \cup {r \in {p} : market[r] = "final"}
    /\ UNCHANGED <<held, exit, table, market, delivered, sweeps, request>>

\* Prices move, away from 0 or 1 too as long as the market has not closed; a
\* market that has closed, at a final price or voided, is one whose price never
\* moves again.  Moves that no sweep will look at any more are left out.
MarketMoves(p) ==
    /\ status[p] # "closed" \/ \E s \in Sweepers : p \in todo[s]
    /\ \E q \in Quotes \ {market[p]} :
         /\ market' = [market EXCEPT ![p] = q]
         /\ finals' = IF q = "final" /\ status[p] # "none"
                      THEN finals \cup {p} ELSE finals
    /\ UNCHANGED <<rows, table, delivered, sweeps, request>>

\* POST /positions/{id}/hold: one UPDATE conditional on status=open.
SetHold(p) ==
    /\ Holds /\ status[p] = "open"
    /\ held' \in {held \cup {p}, held \ {p}}
    /\ UNCHANGED <<status, exit, table, prices, delivered, sweeps, request>>

-----------------------------------------------------------------------------
(* check_positions. *)

Doing(s, step) == at[s].step = step
Go(s, step)    == at' = [at EXCEPT ![s].step = step]
Next1(s)       == at' = [at EXCEPT ![s] = Between]

\* The sweep reads the open rows once, hold flags included.
Fetch(s) ==
    /\ Doing(s, "idle") /\ Fetched # {}
    /\ todo' = [todo EXCEPT ![s] = Fetched]
    /\ heldSeen' = [heldSeen EXCEPT ![s] = Fetched \cap held]
    /\ at' = [at EXCEPT ![s] = Between]
    /\ UNCHANGED <<rows, table, prices, delivered, request>>

Finish(s) ==
    /\ Doing(s, "next") /\ todo[s] = {}
    /\ at' = [at EXCEPT ![s] = Idle]
    /\ heldSeen' = [heldSeen EXCEPT ![s] = {}]
    /\ UNCHANGED <<rows, table, prices, delivered, todo, request>>

\* _check_one, once the market has been read: a final price closes, a closed
\* market without one is left, a held position is priced only, a crossing is
\* flagged, everything else is left.
Evaluate(s, p) ==
    /\ Doing(s, "next") /\ p \in todo[s]
    /\ todo' = [todo EXCEPT ![s] = @ \ {p}]
    /\ \/ /\ IsSettled(market[p])
          /\ at' = [at EXCEPT ![s] = [Between EXCEPT !.step = "close", !.pos = p]]
       \/ /\ ~IsSettled(market[p])
          /\ Crosses(market[p]) /\ p \notin heldSeen[s]
          /\ at' = [at EXCEPT ![s] = [Between EXCEPT !.step = "insert", !.pos = p,
                                                     !.type = market[p]]]
       \/ /\ ~IsSettled(market[p])
          /\ ~Crosses(market[p]) \/ p \in heldSeen[s]
          /\ UNCHANGED at
    /\ UNCHANGED <<rows, table, prices, delivered, heldSeen, request>>

\* No route finds the market or prices it: unpriceable or not_found.
Unpriceable(s, p) ==
    /\ Faults /\ Doing(s, "next") /\ p \in todo[s]
    /\ todo' = [todo EXCEPT ![s] = @ \ {p}]
    /\ UNCHANGED <<rows, table, prices, delivered, heldSeen, at, request>>

-----------------------------------------------------------------------------
(* _flag_for_exit: the alert row first, then Telegram. *)

InsertAlert(s) ==
    /\ Doing(s, "insert") /\ ~Clashes(at[s].pos, at[s].type)
    /\ LET a == NewAlert(at[s].pos, at[s].type) IN
         /\ alerts' = alerts \cup {a} /\ serial' = a.n
         /\ \/ at' = [at EXCEPT ![s].step = "notify", ![s].n = a.n]
            \/ Faults /\ Next1(s)        \* inserted, but the answer was lost
    /\ UNCHANGED <<rows, prices, delivered, todo, heldSeen, request>>

InsertClashes(s) ==
    /\ Doing(s, "insert") /\ Clashes(at[s].pos, at[s].type)
    /\ Go(s, "lookup")
    /\ UNCHANGED <<rows, table, prices, delivered, todo, heldSeen, request>>

\* A live alert exists: silent, unless it was never delivered.
Lookup(s) ==
    /\ Doing(s, "lookup")
    /\ \/ \E a \in Undelivered(at[s].pos, at[s].type) :
            at' = [at EXCEPT ![s].step = "notify", ![s].n = a.n]
       \/ Undelivered(at[s].pos, at[s].type) = {} /\ Next1(s)
    /\ UNCHANGED <<rows, table, prices, delivered, todo, heldSeen, request>>

Notify(s) ==
    /\ Doing(s, "notify")
    /\ delivered' = delivered \cup {at[s].n}
    /\ Go(s, "stamp")
    /\ UNCHANGED <<rows, table, prices, todo, heldSeen, request>>

\* Telegram did not confirm: refused, or delivered with the answer lost.
NotifyFails(s) ==
    /\ Faults /\ Doing(s, "notify")
    /\ delivered' \in {delivered, delivered \cup {at[s].n}}
    /\ Next1(s)
    /\ UNCHANGED <<rows, table, prices, todo, heldSeen, request>>

\* _stamp_notified, by alert id, live or not by now.
Stamp(s) ==
    /\ Doing(s, "stamp")
    /\ alerts' = {IF a.n = at[s].n THEN [a EXCEPT !.notified = TRUE] ELSE a :
                    a \in alerts}
    /\ UNCHANGED serial
    /\ Next1(s)
    /\ UNCHANGED <<rows, prices, delivered, todo, heldSeen, request>>

-----------------------------------------------------------------------------
(* _close: the close first, then the alerts, then Telegram. *)

\* The PATCH carries no require_status.
Close(s) ==
    /\ Doing(s, "close")
    /\ CloseRow(at[s].pos, s)
    /\ \/ Go(s, "tidy")
       \/ Faults /\ Next1(s)             \* closed, but the answer was lost
    /\ UNCHANGED <<table, prices, delivered, todo, heldSeen, request>>

\* The alerts raised before the price was final are resolved; the settlement
\* message goes out either way.
Tidy(s) ==
    /\ Doing(s, "tidy")
    /\ Resolve(at[s].pos)
    /\ Next1(s)
    /\ UNCHANGED <<rows, prices, delivered, todo, heldSeen, request>>

\* Any of the calls is refused: the sweep logs it and moves on.
CallFails(s) ==
    /\ Faults
    /\ at[s].step \in {"insert", "lookup", "stamp", "close", "tidy"}
    /\ Next1(s)
    /\ UNCHANGED <<rows, table, prices, delivered, todo, heldSeen, request>>

-----------------------------------------------------------------------------
(* POST /positions/manual-close. *)

\* The pre-read finds the position open, or answers 404.
ReadForClose(c, p) ==
    /\ request[c].step = "idle" /\ status[p] # "none"
    /\ request' = [request EXCEPT ![c] =
         [step |-> IF p \in Open THEN "write" ELSE "refused", pos |-> p]]
    /\ UNCHANGED <<rows, table, prices, delivered, sweeps>>

\* Fault: the close is written whatever the row's status.
Unconditional(p) == TRUE

\* require_status="open", evaluated inside the UPDATE
StillOpen(p) == status[p] = "open"

ManualClose(c) ==
    /\ request[c].step = "write" /\ StillOpen(request[c].pos)
    /\ CloseRow(request[c].pos, c)
    /\ \/ request' = [request EXCEPT ![c].step = "resolve"]
       \/ Faults /\ request' = [request EXCEPT ![c].step = "failed"]   \* answer lost
    /\ UNCHANGED <<table, prices, delivered, sweeps>>

\* Open at the read, not at the write: 409, nothing written.
CloseConflict(c) ==
    /\ request[c].step = "write" /\ ~StillOpen(request[c].pos)
    /\ request' = [request EXCEPT ![c].step = "refused"]
    /\ UNCHANGED <<rows, table, prices, delivered, sweeps>>

ResolveForClose(c) ==
    /\ request[c].step = "resolve"
    /\ Resolve(request[c].pos)
    /\ request' = [request EXCEPT ![c].step = "closed"]
    /\ UNCHANGED <<rows, prices, delivered, sweeps>>

\* The write is refused (503), or the alerts stay as they are.
CloseCallFails(c) ==
    /\ Faults
    /\ \/ /\ request[c].step = "write"
          /\ request' = [request EXCEPT ![c].step = "failed"]
       \/ /\ request[c].step = "resolve"
          /\ request' = [request EXCEPT ![c].step = "closed"]
    /\ UNCHANGED <<rows, table, prices, delivered, sweeps>>

\* The process restarts: sweeps and requests in flight are gone, the tables
\* are not.
Restart ==
    /\ Faults
    /\ todo' = [s \in Sweepers |-> {}] /\ heldSeen' = [s \in Sweepers |-> {}]
    /\ at' = [s \in Sweepers |-> Idle]
    /\ request' = [c \in Closers |->
         IF request[c].step \in {"write", "resolve"}
         THEN [request[c] EXCEPT !.step = "failed"] ELSE request[c]]
    /\ UNCHANGED <<rows, table, prices, delivered>>

-----------------------------------------------------------------------------
Flag(s) == InsertAlert(s) \/ InsertClashes(s) \/ Lookup(s) \/ Notify(s)
           \/ NotifyFails(s) \/ Stamp(s)
Settle(s) == Close(s) \/ Tidy(s)
Check(s, p) == Evaluate(s, p) \/ Unpriceable(s, p)
Sweep(s) == \/ Fetch(s) \/ Finish(s) \/ Flag(s) \/ Settle(s) \/ CallFails(s)
            \/ \E p \in Positions : Check(s, p)
CloseRequest(c) == \/ ManualClose(c) \/ CloseConflict(c) \/ ResolveForClose(c)
                   \/ CloseCallFails(c)

Next ==
    \/ \E p \in Positions : OpenPosition(p) \/ MarketMoves(p) \/ SetHold(p)
    \/ \E s \in Sweepers : Sweep(s)
    \/ \E c \in Closers : CloseRequest(c) \/ \E p \in Positions : ReadForClose(c, p)
    \/ Restart

\* The scheduler starts a sweep every 15 minutes and the event loop runs what
\* has been started.  Gamma, Supabase and Telegram fail now and then, not
\* always: what keeps being tried eventually works.
Fairness ==
    /\ \A s \in Sweepers : /\ WF_vars(Finish(s)) /\ WF_vars(Flag(s) \/ CallFails(s))
                           /\ WF_vars(Settle(s) \/ CallFails(s))
                           /\ \A p \in Positions : WF_vars(Check(s, p))
    /\ WF_vars(Fetch(Cron))
    /\ \A p \in Positions : SF_vars(Evaluate(Cron, p))
    /\ SF_vars(InsertAlert(Cron) \/ InsertClashes(Cron)) /\ SF_vars(Lookup(Cron))
    /\ SF_vars(Notify(Cron)) /\ SF_vars(Stamp(Cron)) /\ SF_vars(Close(Cron))

Spec     == Init /\ [][Next]_vars
FairSpec == Spec /\ Fairness

-----------------------------------------------------------------------------
(* What must hold. *)

\* A sweep at work has a position, and a type when it is flagging.
Doings ==
    {d \in [step : {"idle", "next"} \cup Working, pos : Positions \cup {"none"},
            type : AlertTypes \cup {"none"}, n : Nat] :
       /\ d.step \in Working => d.pos \in Positions
       /\ d.step \in Flagging => d.type \in AlertTypes}

TypeOK ==
    /\ status \in [Positions -> {"none", "open", "closed"}]
    /\ held \in SUBSET Positions
    /\ exit \in [Positions -> {"none"} \cup Sweepers \cup Closers]
    /\ alerts \in SUBSET Alert /\ serial \in Nat
    /\ market \in [Positions -> Quotes] /\ finals \in SUBSET Positions
    /\ delivered \in SUBSET Nat
    /\ todo \in [Sweepers -> SUBSET Positions]
    /\ heldSeen \in [Sweepers -> SUBSET Positions]
    /\ at \in [Sweepers -> Doings]
    /\ request \in [Closers -> [step : {"idle", "write", "resolve", "closed",
                                        "refused", "failed"},
                                pos : Positions \cup {"none"}]]

\* One unresolved alert of a type per position, however many sweeps detect the
\* crossing at once and wherever the process dies in between.
OneLiveAlert ==
    \A a, b \in alerts : a.live /\ b.live /\ a.pos = b.pos /\ a.type = b.type => a = b

\* "notified_at must mean Telegram accepted this message": no alert is marked
\* as told to the operator, and so silenced, without having reached them.
NotifiedMeansDelivered == \A a \in alerts : a.notified => a.n \in delivered

\* A manual close that reports success wrote the exit of a position that was
\* open until then: two of them never succeed for one position.
OneManualClose ==
    \A c, d \in Closers :
        /\ request[c].step \in {"resolve", "closed"}
        /\ request[d].step \in {"resolve", "closed"}
        /\ request[c].pos = request[d].pos
        => c = d

\* A position the monitor closed is one whose price has stood at 0 or 1 since
\* its row was made, whatever the price does between the sweep's look and its
\* write: a threshold crossing is never written as an exit (the 2026-08-19
\* defect), and neither is the price of an earlier position's market.
ClosesAtFinalPrice == \A p \in Positions : exit[p] \in Sweepers => p \in finals

\* Once a position is closed its exit record is final.
ExitRecordFinal ==
    [][\A p \in Positions : status[p] = "closed" => exit'[p] = exit[p]]_vars

\* A live alert is delivered in the end, for as long as the crossing lasts and
\* nobody has closed or held the position: a failed send is not permanent
\* silence.
AlertDelivered ==
    \A p \in Positions, type \in AlertTypes :
        <>[](market[p] = type /\ status[p] = "open" /\ p \notin held)
          => <>(\E a \in Live(p) : a.type = type /\ a.n \in delivered)

\* A position whose price stays at 0 or 1, as a settled market's does, does not
\* stay open.  (One whose market closed at another price does: _check_one calls
\* it unpriceable on every sweep.)
SettledCloses ==
    \A p \in Positions : ~<>[](status[p] = "open" /\ market[p] = "final")

\* What the two tables say of alerts and manual closes is what happened.
BookSafe == TypeOK /\ NotifiedMeansDelivered /\ OneManualClose

\* No position is forgotten: its alert arrives, and its settlement closes it.
BookLive == AlertDelivered /\ SettledCloses
=============================================================================
