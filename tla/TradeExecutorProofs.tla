------------------------- MODULE TradeExecutorProofs -------------------------
(***************************************************************************)
(* Proofs about TradeExecutor, for every finite set of runs and every cap. *)
(***************************************************************************)
EXTENDS TradeExecutor, FiniteSetTheorems, TLAPS

Early == {"idle", "brake", "count", "limits", "book", "post"}

\* No money moves before the order is posted.
UnsentEarly == \A e \in Runs : step[e] \in Early => order[e] = "none" /\ row[e] = "none"

\* Only an order the exchange took is recorded, and it stays one.
RecordAnswered == \A e \in Runs : step[e] = "record" => order[e] \in Answered

\* KnownExposure must already hold of an order that has yet to fill: it is
\* checked when execute returns, and the fill may come later.
Accounted ==
    \A e \in Runs \ cut : step[e] = "done" /\ order[e] \in {"sent", "unmatched", "filled"} =>
        \/ row[e] # "none"
        \/ result[e] \in {"status_unknown", "position_not_recorded", "raised"}

MoneyInv == TypeOK /\ UnsentEarly /\ RecordAnswered /\ RowsAreAnswered

-----------------------------------------------------------------------------
(* Types. *)

LEMMA TypeInit == Init => TypeOK
  BY DEF Init, TypeOK, Answered

LEMMA TypeStep == ASSUME TypeOK, [Next]_vars PROVE TypeOK'
<1> USE DEF TypeOK, Answered, Go, Return, Active, Results
<1>1. ASSUME NEW e \in Runs, Start(e) PROVE TypeOK'
  BY <1>1 DEF Start
<1>3. ASSUME NEW e \in Runs, NEW from \in Active, NEW to \in Active, Gate(e, from, to)
      PROVE  TypeOK'
  BY <1>3 DEF Gate
<1>4. ASSUME NEW e \in Runs, CountGate(e) PROVE TypeOK'
  BY <1>4 DEF CountGate
<1>5. ASSUME NEW e \in Runs, Place(e) PROVE TypeOK'
  BY <1>5 DEF Place, PostOrder, LaunchFails
<1>6. ASSUME NEW e \in Runs, Await(e) PROVE TypeOK'
  BY <1>6 DEF Await, AnswerPlaced, AnswerRefused, TimesOut, TimeoutResult, ConnectionLost
<1>7. ASSUME NEW e \in Runs, Persist(e) PROVE TypeOK'
  BY <1>7 DEF Persist, Record, WriteRefused, UnwrittenResult, WriteBreaks
<1>8. ASSUME NEW e \in Runs, Exchange(e) PROVE TypeOK'
  BY <1>8 DEF Exchange
<1>9. ASSUME NEW e \in Runs, ClosePosition(e) PROVE TypeOK'
  BY <1>9 DEF ClosePosition
<1>10. CASE Crash
  BY <1>10 DEF Crash
<1>11. CASE UNCHANGED vars
  BY <1>11 DEF vars
<1> QED
  BY <1>1, <1>3, <1>4, <1>5, <1>6, <1>7, <1>8, <1>9, <1>10, <1>11
  DEF Next, Execute, Gates

\* Every variable always has its type.
THEOREM TypeCorrect == Spec => []TypeOK
<1>1. TypeOK /\ [Next]_vars => TypeOK'
  BY TypeStep
<1> QED BY TypeInit, <1>1, PTL DEF Spec

-----------------------------------------------------------------------------
(* Where the money is. *)

LEMMA MoneyInit == Init => MoneyInv
  BY TypeInit DEF Init, MoneyInv, UnsentEarly, RecordAnswered, RowsAreAnswered

LEMMA MoneyStep == ASSUME MoneyInv, [Next]_vars PROVE MoneyInv'
<1>0. TypeOK'
  BY TypeStep DEF MoneyInv
<1> USE DEF MoneyInv, TypeOK, Answered, Go, Return, Active, Early, UnsentEarly, RecordAnswered,
            RowsAreAnswered
<1>1. ASSUME NEW e \in Runs, Start(e) PROVE MoneyInv'
  BY <1>0, <1>1 DEF Start
<1>3. ASSUME NEW e \in Runs, NEW from \in Early, NEW to \in Early, Gate(e, from, to)
      PROVE  MoneyInv'
  BY <1>0, <1>3 DEF Gate
<1>4. ASSUME NEW e \in Runs, CountGate(e) PROVE MoneyInv'
  BY <1>0, <1>4 DEF CountGate
<1>5. ASSUME NEW e \in Runs, Place(e) PROVE MoneyInv'
  BY <1>0, <1>5 DEF Place, PostOrder, LaunchFails
<1>6. ASSUME NEW e \in Runs, Await(e) PROVE MoneyInv'
  BY <1>0, <1>6
  DEF Await, AnswerPlaced, AnswerRefused, TimesOut, ConnectionLost, Placed
<1>7. ASSUME NEW e \in Runs, Persist(e) PROVE MoneyInv'
  BY <1>0, <1>7 DEF Persist, Record, WriteRefused, WriteBreaks
<1>8. ASSUME NEW e \in Runs, Exchange(e) PROVE MoneyInv'
  BY <1>0, <1>8 DEF Exchange
<1>9. ASSUME NEW e \in Runs, ClosePosition(e) PROVE MoneyInv'
  BY <1>0, <1>9 DEF ClosePosition
<1>10. CASE Crash
  BY <1>0, <1>10 DEF Crash
<1>11. CASE UNCHANGED vars
  BY <1>0, <1>11 DEF vars
<1> QED
  BY <1>1, <1>3, <1>4, <1>5, <1>6, <1>7, <1>8, <1>9, <1>10, <1>11
  DEF Next, Execute, Gates

\* A row in the book stands for an order the exchange took, never for one it
\* turned down or has not answered, through timeouts, lost answers and crashes.
THEOREM RowsOnlyOfOrders == Spec => []RowsAreAnswered
<1>1. MoneyInv /\ [Next]_vars => MoneyInv'
  BY MoneyStep
<1>2. MoneyInv => RowsAreAnswered
  BY DEF MoneyInv
<1> QED BY MoneyInit, <1>1, <1>2, PTL DEF Spec

-----------------------------------------------------------------------------
(* What the owner is told of it. *)

LEMMA AccountedStep ==
    ASSUME MoneyInv, Accounted, [Next]_vars
    PROVE  Accounted'
<1> USE DEF MoneyInv, TypeOK, Answered, Go, Return, Active, Early, UnsentEarly, RecordAnswered,
            Accounted
<1>1. ASSUME NEW e \in Runs, Start(e) PROVE Accounted'
  BY <1>1 DEF Start
<1>3. ASSUME NEW e \in Runs, NEW from \in Early, NEW to \in Early, Gate(e, from, to)
      PROVE  Accounted'
  BY <1>3 DEF Gate
<1>4. ASSUME NEW e \in Runs, CountGate(e) PROVE Accounted'
  BY <1>4 DEF CountGate
<1>5. ASSUME NEW e \in Runs, Place(e) PROVE Accounted'
  BY <1>5 DEF Place, PostOrder, LaunchFails
<1>6. ASSUME NEW e \in Runs, Await(e) PROVE Accounted'
  BY <1>6
  DEF Await, AnswerPlaced, AnswerRefused, TimesOut, TimeoutResult, ConnectionLost, Placed
<1>7. ASSUME NEW e \in Runs, Persist(e) PROVE Accounted'
  BY <1>7 DEF Persist, Record, WriteRefused, UnwrittenResult, WriteBreaks
<1>8. ASSUME NEW e \in Runs, Exchange(e) PROVE Accounted'
  BY <1>8 DEF Exchange
<1>9. ASSUME NEW e \in Runs, ClosePosition(e) PROVE Accounted'
  BY <1>9 DEF ClosePosition
<1>10. CASE Crash
  BY <1>10 DEF Crash
<1>11. CASE UNCHANGED vars
  BY <1>11 DEF vars
<1> QED
  BY <1>1, <1>3, <1>4, <1>5, <1>6, <1>7, <1>8, <1>9, <1>10, <1>11
  DEF Next, Execute, Gates

\* But for the runs whose answer was lost on the way back, money that moved is
\* never reported as money that did not, whatever is refused, breaks, times out
\* or crashes, and however late the order fills.
THEOREM NoSilentFill == Spec => []KnownExposure
<1>1. Init => Accounted
  BY DEF Init, Accounted
<1>2. MoneyInv /\ Accounted /\ [Next]_vars => MoneyInv' /\ Accounted'
  BY MoneyStep, AccountedStep
<1>3. Accounted => KnownExposure
  BY DEF Accounted, KnownExposure
<1> QED BY MoneyInit, <1>1, <1>2, <1>3, PTL DEF Spec

-----------------------------------------------------------------------------
(* The cap. *)

\* Until runs overlap, a run past gate 2 still has room in the book: nobody
\* else can have filled the place it counted.
OneActive ==
    ~overlap => \A e, f \in Runs : step[e] \in Active /\ step[f] \in Active => e = f

RoomLeft ==
    ~overlap => \A e \in Runs :
        step[e] \in {"limits", "book", "post", "await", "record"} =>
            Cardinality(OpenRows) < Cap

CapInv == MoneyInv /\ OneActive /\ RoomLeft /\ RowsWithinCap

LEMMA OpenRowsFinite == IsFiniteSet(OpenRows) /\ Cardinality(OpenRows) \in Nat
  BY ExecutorAssumption, FS_Subset, FS_CardinalityType DEF OpenRows

\* Recording a position makes the book one larger at most.
LEMMA RecordGrowsByOne ==
    ASSUME TypeOK, NEW e \in Runs, row' = [row EXCEPT ![e] = "open"]
    PROVE  Cardinality(OpenRows') <= Cardinality(OpenRows) + 1
<1>1. OpenRows' = OpenRows \cup {e}
  BY DEF OpenRows, TypeOK
<1> QED BY <1>1, OpenRowsFinite, FS_AddElement

\* Closing one never makes it larger.
LEMMA CloseShrinks ==
    ASSUME TypeOK, NEW e \in Runs, row' = [row EXCEPT ![e] = "closed"]
    PROVE  Cardinality(OpenRows') <= Cardinality(OpenRows) /\ Cardinality(OpenRows') \in Nat
<1>1. OpenRows' \in SUBSET OpenRows
  BY DEF OpenRows, TypeOK
<1> QED BY <1>1, OpenRowsFinite, FS_Subset, FS_CardinalityType

LEMMA CapStep == ASSUME CapInv, [Next]_vars PROVE CapInv'
<1>0. MoneyInv'
  BY MoneyStep DEF CapInv
<1>a. row' = row => OpenRows' = OpenRows
  BY DEF OpenRows
<1>b. Cardinality(OpenRows) \in Nat /\ Cap \in Nat
  BY OpenRowsFinite, ExecutorAssumption
<1> USE DEF CapInv, MoneyInv, TypeOK, Answered, Go, Return, Active, Early, OneActive, RoomLeft,
            RowsWithinCap, CapHolds
<1>1. ASSUME NEW e \in Runs, Start(e) PROVE CapInv'
  <2>1. \E to \in {"brake", "done"} : step' = [step EXCEPT ![e] = to]
    BY <1>1 DEF Start
  <2>2. row' = row /\ (~overlap' => ~overlap /\ \A f \in Runs : step[f] \notin Active)
    BY <1>1, Zenon DEF Start
  <2>3. OneActive' /\ RoomLeft' /\ RowsWithinCap'
    BY <1>a, <2>1, <2>2
  <2> QED BY <1>0, <2>3
<1>3. ASSUME NEW e \in Runs, \/ Gate(e, "brake", "count") \/ Gate(e, "limits", "book")
                             \/ Gate(e, "book", "post")
      PROVE  CapInv'
  BY <1>0, <1>a, <1>3 DEF Gate
<1>4. ASSUME NEW e \in Runs, CountGate(e) PROVE CapInv'
  BY <1>0, <1>a, <1>b, <1>4 DEF CountGate, AtCap
<1>5. ASSUME NEW e \in Runs, Place(e) PROVE CapInv'
  BY <1>0, <1>a, <1>5 DEF Place, PostOrder, LaunchFails
<1>6. ASSUME NEW e \in Runs, Await(e) PROVE CapInv'
  BY <1>0, <1>a, <1>6 DEF Await, AnswerPlaced, AnswerRefused, TimesOut, ConnectionLost
<1>7. ASSUME NEW e \in Runs, Persist(e) PROVE CapInv'
  <2>1. /\ step[e] = "record" /\ step' = [step EXCEPT ![e] = "done"]
        /\ overlap' = overlap
    BY <1>7 DEF Persist, Record, WriteRefused, WriteBreaks
  <2>2. OneActive' /\ RoomLeft'
    BY <2>1
  <2>3. ASSUME ~overlap PROVE Cardinality(OpenRows') <= Cap
    <3>1. CASE row' = row
      BY <2>3, <3>1, <1>a
    <3>2. CASE row' = [row EXCEPT ![e] = "open"]
      <4>1. Cardinality(OpenRows') \in Nat
        BY <1>0, ExecutorAssumption, FS_Subset, FS_CardinalityType DEF OpenRows
      <4>2. Cardinality(OpenRows') <= Cardinality(OpenRows) + 1
        BY <3>2, RecordGrowsByOne
      <4>3. Cardinality(OpenRows) < Cap
        BY <2>1, <2>3
      <4> QED BY <4>1, <4>2, <4>3, <1>b
    <3> QED
      BY <1>7, <3>1, <3>2 DEF Persist, Record, WriteRefused, WriteBreaks
  <2> QED BY <1>0, <2>1, <2>2, <2>3
<1>8. ASSUME NEW e \in Runs, Exchange(e) PROVE CapInv'
  BY <1>0, <1>a, <1>8 DEF Exchange
<1>9. ASSUME NEW e \in Runs, ClosePosition(e) PROVE CapInv'
  <2>1. /\ Cardinality(OpenRows') <= Cardinality(OpenRows)
        /\ Cardinality(OpenRows') \in Nat
    BY <1>9, CloseShrinks DEF ClosePosition
  <2>2. step' = step /\ overlap' = overlap
    BY <1>9 DEF ClosePosition
  <2>3. OneActive' /\ RoomLeft' /\ RowsWithinCap'
    BY <1>b, <2>1, <2>2
  <2> QED BY <1>0, <2>3
<1>10. CASE Crash
  BY <1>0, <1>a, <1>10 DEF Crash
<1>11. CASE UNCHANGED vars
  BY <1>0, <1>a, <1>11 DEF vars
<1> QED
  BY <1>1, <1>3, <1>4, <1>5, <1>6, <1>7, <1>8, <1>9, <1>10, <1>11
  DEF Next, Execute, Gates

\* Runs that do not overlap never take the recorded book over the cap, whatever
\* fails and whenever the process dies.
THEOREM SerialWithinCap == Spec => []RowsWithinCap
<1>1. Init => CapInv
  <2>1. Init => OpenRows = {}
    BY DEF Init, OpenRows
  <2> QED
    BY <2>1, MoneyInit, FS_EmptySet, ExecutorAssumption
    DEF Init, CapInv, OneActive, RoomLeft, RowsWithinCap, CapHolds, Active
<1>2. CapInv /\ [Next]_vars => CapInv'
  BY CapStep
<1>3. CapInv => RowsWithinCap
  BY DEF CapInv
<1> QED BY <1>1, <1>2, <1>3, PTL DEF Spec

\* The invariant the run checks, for any runs, any cap and every fault.
THEOREM ExecutorIsSafe == Spec => []ExecutorSafe
BY TypeCorrect, NoSilentFill, RowsOnlyOfOrders, PTL DEF ExecutorSafe
=============================================================================
