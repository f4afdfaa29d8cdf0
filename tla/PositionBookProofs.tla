------------------------- MODULE PositionBookProofs -------------------------
(***************************************************************************)
(* Proofs about PositionBook, for any positions, sweeps, close requests    *)
(* and faults.                                                             *)
(***************************************************************************)
EXTENDS PositionBook, TLAPS

(***************************************************************************)
(* What a sweep or a request has already established at the step it has    *)
(* reached, which is what its next write relies on.                        *)
(***************************************************************************)
StampsDelivered == \A s \in Sweepers : at[s].step = "stamp" => at[s].n \in delivered
ClosesFinal   == \A s \in Sweepers : at[s].step = "close" => at[s].pos \in finals

\* The history keeps up with the prices of every position that has a row, and a
\* sweep only looks at such positions.
FinalsSeen ==
    \A p \in Positions : status[p] # "none" /\ market[p] = "final" => p \in finals
TodoHasRows == \A s \in Sweepers : \A p \in todo[s] : status[p] # "none"
ClosedByRequest ==
    \A c \in Closers : request[c].step \in {"resolve", "closed"} =>
        status[request[c].pos] = "closed"
RequestNamesRow ==
    \A c \in Closers : request[c].step \in {"write", "resolve", "closed"} =>
        request[c].pos \in Positions

Safe == /\ OneLiveAlert /\ NotifiedMeansDelivered
        /\ OneManualClose /\ ClosesAtFinalPrice
        /\ StampsDelivered /\ ClosesFinal /\ ClosedByRequest /\ RequestNamesRow

Watching == FinalsSeen /\ TodoHasRows

IInv == TypeOK /\ Watching /\ Safe

-----------------------------------------------------------------------------
(* The alert table. *)

LEMMA NewAlertType ==
    ASSUME TypeOK, NEW p \in Positions, NEW type \in AlertTypes
    PROVE  NewAlert(p, type) \in Alert
  BY DEF TypeOK, NewAlert, Alert

\* Resolving keeps every row but for its live flag.
LEMMA ResolveKeeps ==
    ASSUME TypeOK, NEW p, Resolve(p)
    PROVE  /\ alerts' \in SUBSET Alert /\ serial' \in Nat
           /\ OneLiveAlert => OneLiveAlert'
           /\ NotifiedMeansDelivered =>
                \A a \in alerts' : a.notified => a.n \in delivered
<1> DEFINE f(a) == IF a.pos = p THEN [a EXCEPT !.live = FALSE] ELSE a
<1>1. alerts' = {f(a) : a \in alerts} /\ serial' = serial
  BY DEF Resolve
<1>2. \A a \in alerts : /\ f(a) \in Alert /\ f(a).n = a.n /\ f(a).notified = a.notified
                        /\ f(a).pos = a.pos /\ f(a).type = a.type
                        /\ f(a).live => f(a) = a
  BY DEF TypeOK, Alert
<1> HIDE DEF f
<1>3. OneLiveAlert => OneLiveAlert'
  BY <1>1, <1>2 DEF OneLiveAlert
<1>4. NotifiedMeansDelivered => \A a \in alerts' : a.notified => a.n \in delivered
  BY <1>1, <1>2 DEF NotifiedMeansDelivered
<1>5. alerts' \in SUBSET Alert /\ serial' \in Nat
  BY <1>1, <1>2 DEF TypeOK
<1> QED BY <1>3, <1>4, <1>5

\* Stamping keeps every row but for the notified flag of the row stamped.
LEMMA StampKeeps ==
    ASSUME TypeOK, NEW s \in Sweepers, Stamp(s)
    PROVE  /\ alerts' \in SUBSET Alert
           /\ OneLiveAlert => OneLiveAlert'
           /\ \A b \in alerts' : \/ b.n = at[s].n
                                 \/ \E a \in alerts : a.n = b.n /\ a.notified = b.notified
<1> DEFINE f(a) == IF a.n = at[s].n THEN [a EXCEPT !.notified = TRUE] ELSE a
<1>1. alerts' = {f(a) : a \in alerts}
  BY DEF Stamp
<1>2. \A a \in alerts : /\ f(a) \in Alert /\ f(a).n = a.n /\ f(a).live = a.live
                        /\ f(a).pos = a.pos /\ f(a).type = a.type
                        /\ a.n # at[s].n => f(a).notified = a.notified
  BY DEF TypeOK, Alert
<1> HIDE DEF f
<1>3. OneLiveAlert => OneLiveAlert'
  BY <1>1, <1>2 DEF OneLiveAlert
<1> QED BY <1>1, <1>2, <1>3 DEF TypeOK

-----------------------------------------------------------------------------
(* Types. *)

LEMMA TypeInit == Init => TypeOK
  BY DEF Init, TypeOK, Quotes, Idle, Between, Doings, Working, Flagging

\* The ways a sweep moves on keep the type of what it is doing.
LEMMA GoKeeps ==
    ASSUME TypeOK, NEW s \in Sweepers, NEW step \in Working, NEW n \in Nat,
           at[s].step \in Working, step \in Flagging => at[s].step \in Flagging,
           Go(s, step) \/ at' = [at EXCEPT ![s].step = step, ![s].n = n]
    PROVE  at' \in [Sweepers -> Doings]
<1> DEFINE Shape == [step : {"idle", "next"} \cup Working, pos : Positions \cup {"none"},
                     type : AlertTypes \cup {"none"}, n : Nat]
<1>1. at[s] \in Doings /\ at[s] \in Shape
  BY DEF TypeOK, Doings
<1>2. ASSUME NEW d \in Shape, d.step = step, d.pos = at[s].pos, d.type = at[s].type
      PROVE  d \in Doings
  BY <1>1, <1>2 DEF Doings, Working
<1>3. CASE Go(s, step)
  <2>1. [at[s] EXCEPT !.step = step] \in Shape
    BY <1>1
  <2>2. [at[s] EXCEPT !.step = step] \in Doings
    BY <1>1, <1>2, <2>1
  <2> QED BY <1>3, <2>2 DEF TypeOK, Go
<1>4. CASE at' = [at EXCEPT ![s].step = step, ![s].n = n]
  <2>1. [at[s] EXCEPT !.step = step, !.n = n] \in Shape
    BY <1>1
  <2>2. [at[s] EXCEPT !.step = step, !.n = n] \in Doings
    BY <1>1, <1>2, <2>1
  <2> QED BY <1>4, <2>2 DEF TypeOK
<1> QED BY <1>3, <1>4

LEMMA Next1Keeps ==
    ASSUME TypeOK, NEW s \in Sweepers, Next1(s)
    PROVE  at' \in [Sweepers -> Doings]
  BY DEF TypeOK, Next1, Between, Doings, Working, Flagging

LEMMA TypeStep == ASSUME TypeOK, [Next]_vars PROVE TypeOK'
<1> USE DEF TypeOK, rows, table, prices, sweeps, Doing
<1>1. ASSUME NEW p \in Positions, OpenPosition(p) PROVE TypeOK'
  BY <1>1 DEF OpenPosition
<1>2. ASSUME NEW p \in Positions, MarketMoves(p) PROVE TypeOK'
  BY <1>2 DEF MarketMoves
<1>3. ASSUME NEW p \in Positions, SetHold(p) PROVE TypeOK'
  BY <1>3 DEF SetHold
<1>4. ASSUME NEW s \in Sweepers, Fetch(s) PROVE TypeOK'
  <2>1. at' \in [Sweepers -> Doings]
    BY <1>4, Next1Keeps DEF Fetch, Next1
  <2> QED BY <1>4, <2>1 DEF Fetch, Fetched, Open
<1>5. ASSUME NEW s \in Sweepers, Finish(s) PROVE TypeOK'
  <2>1. Idle \in Doings
    BY DEF Idle, Between, Doings, Working, Flagging
  <2> QED BY <1>5, <2>1 DEF Finish
<1>6. ASSUME NEW s \in Sweepers, NEW p \in Positions, Check(s, p) PROVE TypeOK'
  <2>1. CASE Unpriceable(s, p)
    BY <2>1 DEF Unpriceable
  <2>2. CASE Evaluate(s, p)
    <3>1. [Between EXCEPT !.step = "close", !.pos = p] \in Doings
      BY DEF Between, Doings, Working, Flagging
    <3>2. ASSUME NEW type \in AlertTypes
          PROVE [Between EXCEPT !.step = "insert", !.pos = p, !.type = type] \in Doings
      BY DEF Between, Doings, Working, Flagging
    <3>3. at' \in [Sweepers -> Doings]
      BY <2>2, <3>1, <3>2 DEF Evaluate, Crosses
    <3> QED BY <2>2, <3>3 DEF Evaluate
  <2> QED BY <1>6, <2>1, <2>2 DEF Check
<1>7. ASSUME NEW s \in Sweepers, InsertAlert(s) PROVE TypeOK'
  <2>1. at[s].pos \in Positions /\ at[s].type \in AlertTypes
    BY <1>7 DEF InsertAlert, Doings, Working, Flagging
  <2> DEFINE a == NewAlert(at[s].pos, at[s].type)
  <2>2. a \in Alert
    BY <2>1, NewAlertType
  <2>3. a.n \in Nat
    BY <2>2 DEF Alert
  <2>4. /\ alerts' = alerts \cup {a} /\ serial' = a.n
        /\ \/ at' = [at EXCEPT ![s].step = "notify", ![s].n = a.n]
           \/ Next1(s)
    BY <1>7 DEF InsertAlert
  <2> HIDE DEF a
  <2>5. at' \in [Sweepers -> Doings]
    <3>1. CASE Next1(s)
      BY <3>1, Next1Keeps
    <3>2. CASE at' = [at EXCEPT ![s].step = "notify", ![s].n = a.n]
      BY <1>7, <2>3, <3>2, GoKeeps DEF InsertAlert, Working, Flagging
    <3> QED BY <2>4, <3>1, <3>2
  <2> QED BY <1>7, <2>2, <2>3, <2>4, <2>5 DEF InsertAlert
<1>8. ASSUME NEW s \in Sweepers, InsertClashes(s) PROVE TypeOK'
  <2>1. at' \in [Sweepers -> Doings]
    BY <1>8, GoKeeps, 0 \in Nat DEF InsertClashes, Working, Flagging
  <2> QED BY <1>8, <2>1 DEF InsertClashes
<1>9. ASSUME NEW s \in Sweepers, Lookup(s) PROVE TypeOK'
  <2>1. \A a \in Undelivered(at[s].pos, at[s].type) : a.n \in Nat
    BY DEF Undelivered, Live, Alert
  <2>2. at' \in [Sweepers -> Doings]
    BY <1>9, <2>1, GoKeeps, Next1Keeps DEF Lookup, Working, Flagging
  <2> QED BY <1>9, <2>2 DEF Lookup
<1>10. ASSUME NEW s \in Sweepers, Notify(s) \/ NotifyFails(s) PROVE TypeOK'
  <2>1. at' \in [Sweepers -> Doings]
    BY <1>10, GoKeeps, Next1Keeps, 0 \in Nat DEF Notify, NotifyFails, Working, Flagging
  <2>2. at[s].n \in Nat
    BY DEF Doings
  <2> QED BY <1>10, <2>1, <2>2 DEF Notify, NotifyFails
<1>11. ASSUME NEW s \in Sweepers, Stamp(s) PROVE TypeOK'
  <2>1. alerts' \in SUBSET Alert
    BY <1>11, StampKeeps
  <2>2. /\ Next1(s)
        /\ UNCHANGED <<rows, serial, prices, delivered, todo, heldSeen, request>>
    BY <1>11 DEF Stamp
  <2> QED BY <2>1, <2>2, Next1Keeps
<1>12. ASSUME NEW s \in Sweepers, Close(s) PROVE TypeOK'
  <2>1. at[s].pos \in Positions
    BY <1>12 DEF Close, Doings, Working, Flagging
  <2>2. at' \in [Sweepers -> Doings]
    <3>1. CASE Next1(s)
      BY <3>1, Next1Keeps
    <3>2. CASE Go(s, "tidy")
      <4>1. /\ "tidy" \in Working /\ "tidy" \notin Flagging
            /\ at[s].step \in Working /\ 0 \in Nat
        BY <1>12 DEF Close, Working, Flagging
      <4> QED BY <3>2, <4>1, GoKeeps
    <3> QED BY <1>12, <3>1, <3>2 DEF Close
  <2> QED BY <1>12, <2>1, <2>2 DEF Close, CloseRow
<1>13. ASSUME NEW s \in Sweepers, Tidy(s) PROVE TypeOK'
  <2>1. alerts' \in SUBSET Alert /\ serial' \in Nat
    BY <1>13, ResolveKeeps DEF Tidy
  <2>2. /\ Next1(s)
        /\ UNCHANGED <<rows, prices, delivered, todo, heldSeen, request>>
    BY <1>13 DEF Tidy
  <2> QED BY <2>1, <2>2, Next1Keeps
<1>14. ASSUME NEW s \in Sweepers, CallFails(s) PROVE TypeOK'
  BY <1>14, Next1Keeps DEF CallFails
<1>15. ASSUME NEW c \in Closers, NEW p \in Positions, ReadForClose(c, p) PROVE TypeOK'
  BY <1>15 DEF ReadForClose
<1>16. ASSUME NEW c \in Closers, CloseRequest(c) PROVE TypeOK'
  <2>1. CASE ManualClose(c)
    <3>1. /\ status' \in [Positions -> {"none", "open", "closed"}]
          /\ exit' \in [Positions -> {"none"} \cup Sweepers \cup Closers]
      BY <2>1 DEF ManualClose, CloseRow
    <3>2. request' \in [Closers -> [step : {"idle", "write", "resolve", "closed",
                                            "refused", "failed"},
                                    pos : Positions \cup {"none"}]]
      BY <2>1 DEF ManualClose
    <3> QED BY <2>1, <3>1, <3>2 DEF ManualClose, CloseRow
  <2>2. CASE CloseConflict(c) \/ CloseCallFails(c)
    BY <2>2 DEF CloseConflict, CloseCallFails
  <2>3. CASE ResolveForClose(c)
    <3>1. alerts' \in SUBSET Alert /\ serial' \in Nat
      BY <2>3, ResolveKeeps DEF ResolveForClose
    <3> QED BY <2>3, <3>1 DEF ResolveForClose
  <2> QED BY <1>16, <2>1, <2>2, <2>3 DEF CloseRequest
<1>17. ASSUME Restart PROVE TypeOK'
  <2>1. Idle \in Doings
    BY DEF Idle, Between, Doings, Working, Flagging
  <2> QED BY <1>17, <2>1 DEF Restart
<1>18. CASE UNCHANGED vars
  BY <1>18 DEF vars
<1> QED
  BY <1>1, <1>2, <1>3, <1>4, <1>5, <1>6, <1>7, <1>8, <1>9, <1>10, <1>11, <1>12, <1>13,
     <1>14, <1>15, <1>16, <1>17, <1>18
     DEF Next, Sweep, Flag, Settle

\* The tables, sweeps and requests keep their types.
THEOREM TypeCorrect == Spec => []TypeOK
  BY TypeInit, TypeStep, PTL DEF Spec

-----------------------------------------------------------------------------
(* What the history has seen. *)

LEMMA WatchInit == Init => Watching
  BY DEF Init, Watching, FinalsSeen, TodoHasRows

\* A sweep, a request or a restart moves no price, closes only rows that are
\* there or have been seen at a final price, and takes up only rows that are
\* there.
LEMMA FrameWatching ==
    ASSUME TypeOK, Watching, UNCHANGED prices,
           \A p \in Positions : \/ status'[p] = status[p]
                               \/ /\ status'[p] # "none"
                                  /\ status[p] # "none" \/ p \in finals,
           \A s \in Sweepers : todo'[s] \subseteq todo[s] \cup Open
    PROVE  Watching' /\ finals \subseteq finals'
  BY DEF Watching, FinalsSeen, TodoHasRows, TypeOK, prices, Open

LEMMA WatchStep ==
    ASSUME TypeOK, Watching, ClosesFinal, RequestNamesRow, [Next]_vars
    PROVE  Watching' /\ finals \subseteq finals'
<1> USE DEF rows, table, sweeps
<1>1. ASSUME NEW p \in Positions, OpenPosition(p) \/ MarketMoves(p)
      PROVE  Watching' /\ finals \subseteq finals'
  BY <1>1 DEF OpenPosition, MarketMoves, Watching, FinalsSeen, TodoHasRows, TypeOK
<1>2. ASSUME NEW s \in Sweepers, Close(s) PROVE Watching' /\ finals \subseteq finals'
  <2>1. at[s].pos \in finals /\ UNCHANGED <<prices, todo>>
        /\ status' = [status EXCEPT ![at[s].pos] = "closed"]
    BY <1>2 DEF Close, CloseRow, Doing, ClosesFinal
  <2> QED BY <2>1, FrameWatching DEF TypeOK
<1>3. ASSUME NEW c \in Closers, ManualClose(c) PROVE Watching' /\ finals \subseteq finals'
  <2>1. status[request[c].pos] = "open" /\ UNCHANGED <<prices, todo>>
        /\ status' = [status EXCEPT ![request[c].pos] = "closed"]
    BY <1>3 DEF ManualClose, StillOpen, CloseRow
  <2> QED BY <2>1, FrameWatching DEF TypeOK
<1>4. ASSUME NEW s \in Sweepers, Fetch(s) PROVE Watching' /\ finals \subseteq finals'
  BY <1>4, FrameWatching DEF Fetch, Fetched, TypeOK
<1>5. ASSUME NEW s \in Sweepers, NEW p \in Positions, Check(s, p)
      PROVE  Watching' /\ finals \subseteq finals'
  BY <1>5, FrameWatching DEF Check, Evaluate, Unpriceable, TypeOK
<1>6. CASE UNCHANGED <<prices, status, todo>>
  BY <1>6, FrameWatching
<1>7. ASSUME Restart PROVE Watching' /\ finals \subseteq finals'
  BY <1>7, FrameWatching DEF Restart
<1>8. \/ \E p \in Positions : SetHold(p)
      \/ \E s \in Sweepers : \/ Finish(s) \/ Flag(s) \/ Tidy(s) \/ CallFails(s)
      \/ \E c \in Closers : \/ CloseConflict(c) \/ ResolveForClose(c)
                            \/ CloseCallFails(c) \/ \E p \in Positions : ReadForClose(c, p)
      \/ UNCHANGED vars
      => UNCHANGED <<prices, status, todo>>
  BY DEF SetHold, Finish, Flag, InsertAlert, InsertClashes, Lookup, Notify, NotifyFails,
         Stamp, Tidy, CallFails, CloseConflict, ResolveForClose, CloseCallFails,
         ReadForClose, vars
<1> QED
  BY <1>1, <1>2, <1>3, <1>4, <1>5, <1>6, <1>7, <1>8
     DEF Next, Sweep, Settle, CloseRequest

-----------------------------------------------------------------------------
(* Safety. *)

LEMMA SafeInit == Init => Safe
  BY BookAssumption
     DEF Init, Safe, OneLiveAlert, NotifiedMeansDelivered, OneManualClose,
         ClosesAtFinalPrice, StampsDelivered, ClosesFinal, ClosedByRequest,
         RequestNamesRow, Idle, Between

\* What a sweep starts to do is backed by what it has just seen.
SweepsBacked ==
    \A s \in Sweepers :
        \/ at'[s] = at[s]
        \/ /\ at'[s].step = "stamp" => at'[s].n \in delivered'
           /\ at'[s].step = "close" => at'[s].pos \in finals'

\* A step that keeps rows, alerts and requests is safe if no final price and no
\* delivery is forgotten and sweeps move on backed.
LEMMA FrameSafe ==
    ASSUME TypeOK, Safe, UNCHANGED <<status, exit, alerts, request>>,
           delivered \subseteq delivered',
           finals \subseteq finals',
           SweepsBacked
    PROVE  Safe'
<1>1. StampsDelivered'
  BY DEF StampsDelivered, SweepsBacked, Safe
<1>2. ClosesFinal'
  <2> SUFFICES ASSUME NEW s \in Sweepers, at'[s].step = "close"
               PROVE  at'[s].pos \in finals'
    BY DEF ClosesFinal
  <2>1. at[s].step = "close" => at[s].pos \in Positions
    BY DEF TypeOK, Doings, Working
  <2> QED BY <2>1 DEF ClosesFinal, SweepsBacked, Safe
<1> QED
  BY <1>1, <1>2
     DEF Safe, TypeOK, OneLiveAlert, NotifiedMeansDelivered, OneManualClose,
         ClosesAtFinalPrice, ClosedByRequest, RequestNamesRow

\* Moving on to the next position needs no backing.
LEMMA Next1Backed ==
    ASSUME TypeOK, NEW s \in Sweepers, Next1(s)
    PROVE  SweepsBacked /\ \A r \in Sweepers \ {s} : at'[r] = at[r]
  BY DEF TypeOK, Next1, Between, SweepsBacked

LEMMA GoBacked ==
    ASSUME TypeOK, NEW s \in Sweepers, NEW step \in Working \ {"close", "stamp"},
           NEW n, Go(s, step) \/ at' = [at EXCEPT ![s].step = step, ![s].n = n]
    PROVE  SweepsBacked
<1>1. \A r \in Sweepers \ {s} : at'[r] = at[r]
  BY DEF TypeOK, Go
<1>2. at'[s].step = step
  BY DEF TypeOK, Doings, Go
<1> QED BY <1>1, <1>2 DEF SweepsBacked

LEMMA SafeStep == ASSUME TypeOK, Watching, Safe, [Next]_vars PROVE Safe'
<1> USE DEF rows, table, prices, sweeps, Doing
<1>0. finals \subseteq finals'
  BY WatchStep DEF Safe
<1>1. ASSUME NEW p \in Positions, OpenPosition(p) PROVE Safe'
  BY <1>1
     DEF OpenPosition, TypeOK, Safe, OneLiveAlert, NotifiedMeansDelivered,
         OneManualClose, ClosesAtFinalPrice, StampsDelivered, ClosesFinal,
         ClosedByRequest, RequestNamesRow
<1>2. ASSUME NEW p \in Positions, MarketMoves(p) PROVE Safe'
  BY <1>2, FrameSafe DEF MarketMoves, TypeOK, SweepsBacked
<1>3. ASSUME NEW p \in Positions, SetHold(p) PROVE Safe'
  BY <1>3, FrameSafe DEF SetHold, SweepsBacked
<1>4. ASSUME NEW s \in Sweepers, Fetch(s) PROVE Safe'
  BY <1>4, FrameSafe, Next1Backed DEF Fetch, Next1
<1>5. ASSUME NEW s \in Sweepers, Finish(s) PROVE Safe'
  <2>1. SweepsBacked
    BY <1>5 DEF Finish, SweepsBacked, TypeOK, Idle, Between
  <2> QED BY <1>5, <2>1, FrameSafe DEF Finish
<1>6. ASSUME NEW s \in Sweepers, NEW p \in Positions, Check(s, p) PROVE Safe'
  <2>0. p \in todo[s] /\ market[p] = "final" => p \in finals
    BY DEF Watching, FinalsSeen, TodoHasRows
  <2>1. SweepsBacked
    <3>1. ASSUME NEW d, at' = [at EXCEPT ![s] = d],
                 d.step = "close" => d.pos \in finals, d.step # "stamp"
          PROVE  SweepsBacked
      BY <1>0, <3>1 DEF SweepsBacked, TypeOK
    <3>2. CASE UNCHANGED at
      BY <3>2 DEF SweepsBacked
    <3>3. CASE Evaluate(s, p) /\ IsSettled(market[p])
      BY <2>0, <3>1, <3>3 DEF Evaluate, IsSettled, Between
    <3>4. CASE Evaluate(s, p) /\ ~IsSettled(market[p]) /\ ~UNCHANGED at
      BY <3>1, <3>4 DEF Evaluate, Between
    <3> QED BY <1>6, <3>2, <3>3, <3>4 DEF Check, Evaluate, Unpriceable
  <2> QED BY <1>6, <2>1, FrameSafe DEF Check, Evaluate, Unpriceable
<1>7. ASSUME NEW s \in Sweepers, InsertAlert(s) PROVE Safe'
  <2> DEFINE a == NewAlert(at[s].pos, at[s].type)
  <2>1. /\ alerts' = alerts \cup {a}
        /\ UNCHANGED <<status, exit, prices, delivered, request>>
        /\ \/ at' = [at EXCEPT ![s].step = "notify", ![s].n = a.n]
           \/ Next1(s)
        /\ ~Clashes(at[s].pos, at[s].type)
    BY <1>7 DEF InsertAlert
  <2>2. a.pos = at[s].pos /\ a.type = at[s].type /\ ~a.notified
    BY DEF NewAlert
  <2>3. SweepsBacked
    <3>1. CASE Next1(s)
      BY <3>1, Next1Backed
    <3>2. CASE at' = [at EXCEPT ![s].step = "notify", ![s].n = a.n]
      BY <3>2, GoBacked DEF Working, Flagging
    <3> QED BY <2>1, <3>1, <3>2
  <2> HIDE DEF a
  <2>4. OneLiveAlert'
    BY <2>1, <2>2 DEF OneLiveAlert, Clashes, Live, Safe
  <2>5. NotifiedMeansDelivered'
    BY <2>1, <2>2 DEF NotifiedMeansDelivered, Safe
  <2>6. StampsDelivered' /\ ClosesFinal'
    BY <2>1, <2>3 DEF StampsDelivered, ClosesFinal, SweepsBacked, Safe
  <2> QED
    BY <2>1, <2>4, <2>5, <2>6
       DEF Safe, OneManualClose, ClosesAtFinalPrice, ClosedByRequest, RequestNamesRow
<1>8. ASSUME NEW s \in Sweepers, InsertClashes(s) PROVE Safe'
  <2>1. SweepsBacked
    BY <1>8, GoBacked DEF InsertClashes, Working, Flagging
  <2> QED BY <1>8, <2>1, FrameSafe DEF InsertClashes
<1>9. ASSUME NEW s \in Sweepers, Lookup(s) PROVE Safe'
  <2>1. SweepsBacked
    <3>1. CASE Next1(s)
      BY <3>1, Next1Backed
    <3>2. ASSUME NEW a, at' = [at EXCEPT ![s].step = "notify", ![s].n = a.n]
          PROVE  SweepsBacked
      BY <3>2, GoBacked DEF Working, Flagging
    <3> QED BY <1>9, <3>1, <3>2 DEF Lookup
  <2> QED BY <1>9, <2>1, FrameSafe DEF Lookup
<1>10. ASSUME NEW s \in Sweepers, Notify(s) PROVE Safe'
  <2>1. at'[s].step = "stamp" /\ at'[s].n = at[s].n /\ at'[s].n \in delivered'
    BY <1>10 DEF Notify, Go, TypeOK, Doings
  <2>2. SweepsBacked
    BY <1>10, <2>1 DEF Notify, Go, TypeOK, SweepsBacked
  <2> QED BY <1>10, <2>2, FrameSafe DEF Notify
<1>11. ASSUME NEW s \in Sweepers, NotifyFails(s) PROVE Safe'
  BY <1>11, FrameSafe, Next1Backed DEF NotifyFails
<1>12. ASSUME NEW s \in Sweepers, Stamp(s) PROVE Safe'
  <2>1. OneLiveAlert'
    BY <1>12, StampKeeps DEF Safe
  <2>2. at[s].n \in delivered /\ UNCHANGED <<status, exit, prices, delivered, request>>
    BY <1>12 DEF Stamp, Safe, StampsDelivered
  <2>3. NotifiedMeansDelivered'
    BY <1>12, <2>2, StampKeeps DEF NotifiedMeansDelivered, Safe
  <2>4. SweepsBacked
    BY <1>12, Next1Backed DEF Stamp
  <2>5. StampsDelivered' /\ ClosesFinal'
    BY <2>2, <2>4 DEF StampsDelivered, ClosesFinal, SweepsBacked, Safe
  <2> QED
    BY <2>1, <2>2, <2>3, <2>5
       DEF Safe, OneManualClose, ClosesAtFinalPrice, ClosedByRequest, RequestNamesRow
<1>13. ASSUME NEW s \in Sweepers, Close(s) PROVE Safe'
  <2>1. /\ at[s].pos \in finals
        /\ status' = [status EXCEPT ![at[s].pos] = "closed"]
        /\ exit' = [exit EXCEPT ![at[s].pos] = s]
        /\ UNCHANGED <<alerts, prices, delivered, request>>
    BY <1>13 DEF Close, CloseRow, Safe, ClosesFinal
  <2>2. SweepsBacked
    <3>1. CASE Next1(s)
      BY <3>1, Next1Backed
    <3>2. CASE Go(s, "tidy")
      BY <3>2, GoBacked DEF Working, Flagging
    <3> QED BY <1>13, <3>1, <3>2 DEF Close
  <2>3. StampsDelivered' /\ ClosesFinal'
    BY <2>1, <2>2 DEF StampsDelivered, ClosesFinal, SweepsBacked, Safe
  <2>4. ClosesAtFinalPrice'
    BY <2>1 DEF ClosesAtFinalPrice, Safe, TypeOK
  <2>5. ClosedByRequest'
    BY <2>1 DEF ClosedByRequest, RequestNamesRow, Safe, TypeOK
  <2> QED
    BY <2>1, <2>3, <2>4, <2>5
       DEF Safe, OneLiveAlert, NotifiedMeansDelivered, OneManualClose, RequestNamesRow
<1>14. ASSUME NEW s \in Sweepers, Tidy(s) PROVE Safe'
  <2>1. OneLiveAlert' /\ \A a \in alerts' : a.notified => a.n \in delivered
    BY <1>14, ResolveKeeps DEF Safe, Tidy
  <2>2. UNCHANGED <<status, exit, prices, delivered, request>> /\ SweepsBacked
    BY <1>14, Next1Backed DEF Tidy
  <2>3. StampsDelivered' /\ ClosesFinal'
    BY <2>2 DEF StampsDelivered, ClosesFinal, SweepsBacked, Safe
  <2> QED
    BY <2>1, <2>2, <2>3
       DEF Safe, NotifiedMeansDelivered, OneManualClose, ClosesAtFinalPrice,
           ClosedByRequest, RequestNamesRow
<1>15. ASSUME NEW s \in Sweepers, CallFails(s) PROVE Safe'
  BY <1>15, FrameSafe, Next1Backed DEF CallFails
<1>16. ASSUME NEW c \in Closers, NEW p \in Positions, ReadForClose(c, p) PROVE Safe'
  <2>1. /\ request'[c].pos = p /\ request'[c].step \in {"write", "refused"}
        /\ \A d \in Closers \ {c} : request'[d] = request[d]
        /\ UNCHANGED <<status, exit, alerts, prices, delivered, at>>
    BY <1>16 DEF ReadForClose, TypeOK
  <2> QED
    BY <2>1
       DEF Safe, OneLiveAlert, NotifiedMeansDelivered, OneManualClose,
           ClosesAtFinalPrice, StampsDelivered, ClosesFinal, ClosedByRequest,
           RequestNamesRow
<1>17. ASSUME NEW c \in Closers, ManualClose(c) PROVE Safe'
  <2> DEFINE p == request[c].pos
  <2>1. /\ p \in Positions /\ status[p] = "open" /\ c \notin Sweepers
        /\ status' = [status EXCEPT ![p] = "closed"]
        /\ exit' = [exit EXCEPT ![p] = c]
        /\ UNCHANGED <<alerts, prices, delivered, at>>
    BY <1>17, BookAssumption
       DEF ManualClose, StillOpen, CloseRow, Safe, RequestNamesRow
  <2>2. /\ request'[c].pos = p /\ request'[c].step \in {"resolve", "failed"}
        /\ \A d \in Closers \ {c} : request'[d] = request[d]
    BY <1>17 DEF ManualClose, TypeOK
  <2>3. \A d \in Closers :
          request[d].step \in {"resolve", "closed"} => request[d].pos # p
    BY <2>1 DEF Safe, ClosedByRequest
  <2>4. OneManualClose'
    BY <2>2, <2>3 DEF OneManualClose, Safe
  <2>5. ClosedByRequest' /\ RequestNamesRow'
    BY <2>1, <2>2 DEF ClosedByRequest, RequestNamesRow, Safe, TypeOK
  <2>6. ClosesAtFinalPrice'
    BY <2>1 DEF ClosesAtFinalPrice, Safe, TypeOK
  <2> QED
    BY <2>1, <2>4, <2>5, <2>6
       DEF Safe, OneLiveAlert, NotifiedMeansDelivered, StampsDelivered, ClosesFinal
<1>18. ASSUME NEW c \in Closers, CloseConflict(c) \/ CloseCallFails(c) \/ ResolveForClose(c)
       PROVE Safe'
  <2>1. /\ request'[c].pos = request[c].pos
        /\ \/ request'[c].step \in {"refused", "failed"}
           \/ request[c].step = "resolve" /\ request'[c].step = "closed"
        /\ \A d \in Closers \ {c} : request'[d] = request[d]
        /\ UNCHANGED <<status, exit, prices, delivered, at>>
    BY <1>18 DEF CloseConflict, CloseCallFails, ResolveForClose, TypeOK
  <2>2. OneManualClose' /\ ClosedByRequest' /\ RequestNamesRow'
    BY <2>1 DEF OneManualClose, ClosedByRequest, RequestNamesRow, Safe
  <2>3. OneLiveAlert' /\ NotifiedMeansDelivered'
    <3>1. CASE UNCHANGED alerts
      BY <2>1, <3>1 DEF OneLiveAlert, NotifiedMeansDelivered, Safe
    <3>2. CASE Resolve(request[c].pos)
      BY <2>1, <3>2, ResolveKeeps DEF NotifiedMeansDelivered, Safe
    <3> QED BY <1>18, <3>1, <3>2 DEF CloseConflict, CloseCallFails, ResolveForClose
  <2> QED
    BY <2>1, <2>2, <2>3
       DEF Safe, ClosesAtFinalPrice, StampsDelivered, ClosesFinal
<1>19. ASSUME Restart PROVE Safe'
  <2>1. /\ UNCHANGED <<status, exit, alerts, prices, delivered>>
        /\ \A s \in Sweepers : at'[s].step = "idle"
        /\ \A c \in Closers : \/ request'[c] = request[c]
                              \/ request'[c].step = "failed"
    BY <1>19 DEF Restart, Idle, Between, TypeOK
  <2> QED
    BY <2>1
       DEF Safe, OneLiveAlert, NotifiedMeansDelivered, OneManualClose,
           ClosesAtFinalPrice, StampsDelivered, ClosesFinal, ClosedByRequest,
           RequestNamesRow
<1>20. CASE UNCHANGED vars
  BY <1>20, FrameSafe DEF vars, SweepsBacked
<1> QED
  BY <1>1, <1>2, <1>3, <1>4, <1>5, <1>6, <1>7, <1>8, <1>9, <1>10, <1>11, <1>12, <1>13,
     <1>14, <1>15, <1>16, <1>17, <1>18, <1>19, <1>20
     DEF Next, Sweep, Flag, Settle, CloseRequest

LEMMA Inductive == Spec => []IInv
<1>1. Init => IInv
  BY TypeInit, WatchInit, SafeInit DEF IInv
<1>2. IInv /\ [Next]_vars => IInv'
  BY TypeStep, WatchStep, SafeStep DEF IInv, Safe
<1> QED BY <1>1, <1>2, PTL DEF Spec

\* A crossing detected by any number of sweeps at once leaves one live alert.
THEOREM LiveAlertsUnique == Spec => []OneLiveAlert
<1>1. IInv => OneLiveAlert
  BY DEF IInv, Safe
<1> QED BY <1>1, Inductive, PTL

\* No alert is ever silenced without having reached the operator.
THEOREM NoSilencedAlert == Spec => []NotifiedMeansDelivered
<1>1. IInv => NotifiedMeansDelivered
  BY DEF IInv, Safe
<1> QED BY <1>1, Inductive, PTL

\* Two manual closes of one position never both succeed.
THEOREM ManualClosesExclude == Spec => []OneManualClose
<1>1. IInv => OneManualClose
  BY DEF IInv, Safe
<1> QED BY <1>1, Inductive, PTL

\* The monitor writes an exit only for a position whose price has been final
\* since its row was made.
THEOREM NoPhantomExit == Spec => []ClosesAtFinalPrice
<1>1. IInv => ClosesAtFinalPrice
  BY DEF IInv, Safe
<1> QED BY <1>1, Inductive, PTL
-----------------------------------------------------------------------------
(* The scheduled sweep alone. *)

\* Every row the sweep has yet to look at, or is about to close, is still open:
\* nobody else closes one, and the sweep looks at each row once.
StillAhead ==
    \A s \in Sweepers :
        /\ todo[s] \subseteq Open
        /\ at[s].step = "close" => at[s].pos \in Open \ todo[s]

\* A step that closes nothing and gives the sweep no more work.
LEMMA FrameAhead ==
    ASSUME TypeOK, StillAhead, Open \subseteq Open',
           \A s \in Sweepers :
               todo'[s] \subseteq todo[s] /\ (at'[s].step = "close" => at'[s] = at[s])
    PROVE  StillAhead'
  BY DEF StillAhead

LEMMA AheadStep ==
    ASSUME TypeOK, StillAhead, [Next]_vars, Sweepers = {Cron}, Closers = {}
    PROVE  /\ StillAhead'
           /\ \A p \in Positions : status[p] = "closed" => exit'[p] = exit[p]
<1> USE DEF rows, table, prices, sweeps, Doing
<1>0. status' = status => Open' = Open
  BY DEF Open
<1>1. ASSUME NEW p \in Positions, OpenPosition(p) \/ MarketMoves(p) \/ SetHold(p)
      PROVE  StillAhead' /\ UNCHANGED exit
  <2>1. Open \subseteq Open' /\ UNCHANGED <<todo, at, exit>>
    BY <1>1 DEF OpenPosition, MarketMoves, SetHold, Open, TypeOK
  <2> QED BY <2>1, FrameAhead
<1>2. ASSUME Fetch(Cron) PROVE StillAhead' /\ UNCHANGED exit
  <2>1. todo'[Cron] = Open /\ at'[Cron] = Between /\ UNCHANGED <<status, exit>>
    BY <1>2 DEF Fetch, Fetched, TypeOK
  <2> QED BY <2>1, <1>0 DEF StillAhead, Between
<1>3. ASSUME Finish(Cron) PROVE StillAhead' /\ UNCHANGED exit
  <2>1. at'[Cron].step # "close" /\ UNCHANGED <<todo, status, exit>>
    BY <1>3 DEF Finish, TypeOK, Idle, Between
  <2> QED BY <2>1, <1>0, FrameAhead
<1>4. ASSUME NEW p \in Positions, Check(Cron, p) PROVE StillAhead' /\ UNCHANGED exit
  <2>1. p \in Open /\ todo'[Cron] = todo[Cron] \ {p} /\ UNCHANGED <<status, exit>>
    BY <1>4 DEF Check, Evaluate, Unpriceable, StillAhead, TypeOK
  <2>2. at'[Cron].step = "close" => at'[Cron].pos = p
    <3>1. CASE UNCHANGED at
      BY <3>1, <1>4, <2>1 DEF Check, Evaluate, Unpriceable, StillAhead, Next1
    <3>2. CASE \E type \in {"none"} \cup AlertTypes, step \in {"close", "insert"} :
                 at' = [at EXCEPT ![Cron] = [Between EXCEPT !.step = step, !.pos = p,
                                                            !.type = type]]
      BY <3>2 DEF TypeOK, Between
    <3> QED BY <1>4, <3>1, <3>2 DEF Check, Evaluate, Unpriceable, Crosses, Between
  <2> QED BY <2>1, <2>2, <1>0 DEF StillAhead
<1>5. ASSUME Flag(Cron) \/ Tidy(Cron) \/ CallFails(Cron)
      PROVE  StillAhead' /\ UNCHANGED exit
  <2>1. UNCHANGED <<status, exit, todo>>
    BY <1>5
       DEF Flag, InsertAlert, InsertClashes, Lookup, Notify, NotifyFails, Stamp, Tidy,
           CallFails
  <2>2. \/ Next1(Cron) \/ \E step \in {"lookup", "stamp"} : Go(Cron, step)
        \/ \E n \in Nat : at' = [at EXCEPT ![Cron].step = "notify", ![Cron].n = n]
    <3>1. CASE InsertAlert(Cron)
      <4>1. serial + 1 \in Nat
        BY DEF TypeOK
      <4> QED BY <3>1, <4>1 DEF InsertAlert, NewAlert
    <3>2. CASE Lookup(Cron)
      <4>1. \A a \in Undelivered(at[Cron].pos, at[Cron].type) : a.n \in Nat
        BY DEF Undelivered, Live, TypeOK, Alert
      <4> QED BY <3>2, <4>1 DEF Lookup
    <3>3. CASE InsertClashes(Cron) \/ Notify(Cron)
      BY <3>3 DEF InsertClashes, Notify
    <3>4. CASE NotifyFails(Cron) \/ Stamp(Cron) \/ Tidy(Cron) \/ CallFails(Cron)
      BY <3>4 DEF NotifyFails, Stamp, Tidy, CallFails
    <3> QED BY <1>5, <3>1, <3>2, <3>3, <3>4 DEF Flag
  <2>3. at'[Cron].step # "close"
    <3>1. CASE Next1(Cron)
      BY <3>1 DEF Next1, TypeOK, Between
    <3>2. ASSUME NEW step \in {"lookup", "stamp"}, Go(Cron, step) PROVE at'[Cron].step = step
      BY <3>2 DEF Go, TypeOK, Doings
    <3>3. ASSUME NEW n \in Nat, at' = [at EXCEPT ![Cron].step = "notify", ![Cron].n = n]
          PROVE  at'[Cron].step = "notify"
      BY <3>3 DEF TypeOK, Doings
    <3> QED BY <2>2, <3>1, <3>2, <3>3
  <2> QED BY <2>1, <2>3, <1>0, FrameAhead
<1>6. ASSUME Close(Cron)
      PROVE  /\ StillAhead'
             /\ \A p \in Positions : status[p] = "closed" => exit'[p] = exit[p]
  <2> DEFINE q == at[Cron].pos
  <2>1. /\ q \in Open \ todo[Cron]
        /\ status' = [status EXCEPT ![q] = "closed"]
        /\ exit' = [exit EXCEPT ![q] = Cron]
        /\ UNCHANGED todo
    BY <1>6 DEF Close, CloseRow, StillAhead
  <2>2. at'[Cron].step # "close"
    <3>1. CASE Next1(Cron)
      BY <3>1 DEF Next1, TypeOK, Between
    <3>2. CASE Go(Cron, "tidy")
      BY <3>2 DEF Go, TypeOK, Doings
    <3> QED BY <1>6, <3>1, <3>2 DEF Close
  <2>3. Open' = Open \ {q} /\ status[q] = "open"
    BY <2>1 DEF Open, TypeOK
  <2> QED BY <2>1, <2>2, <2>3 DEF StillAhead, TypeOK
<1>7. ASSUME Restart PROVE StillAhead' /\ UNCHANGED exit
  BY <1>7, <1>0 DEF Restart, StillAhead, Idle, Between
<1>8. CASE UNCHANGED vars
  BY <1>8, <1>0 DEF vars, StillAhead
<1> QED
  BY <1>1, <1>2, <1>3, <1>4, <1>5, <1>6, <1>7, <1>8 DEF Next, Sweep, Settle

\* With the scheduled sweep alone, one at a time, and no manual close, an exit
\* record is written once: what job registration's max_instances=1 is for.
THEOREM ScheduledExitFinal ==
    ASSUME Sweepers = {Cron}, Closers = {}
    PROVE  Spec => ExitRecordFinal
<1>1. Init => StillAhead
  BY DEF Init, StillAhead, Idle, Between
<1>2. TypeOK /\ StillAhead /\ [Next]_vars => TypeOK' /\ StillAhead'
  BY TypeStep, AheadStep
<1>3. TypeOK /\ StillAhead /\ [Next]_vars =>
        [\A p \in Positions : status[p] = "closed" => exit'[p] = exit[p]]_vars
  BY AheadStep
<1> QED BY TypeInit, <1>1, <1>2, <1>3, PTL DEF Spec, ExitRecordFinal

\* The invariant the run checks, for any sets of positions, sweeps and closes.
THEOREM BookIsSafe == Spec => []BookSafe
BY TypeCorrect, NoSilencedAlert, ManualClosesExclude, PTL DEF BookSafe
=============================================================================
