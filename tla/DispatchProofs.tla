---------------------------- MODULE DispatchProofs ----------------------------
(***************************************************************************)
(* Proofs about Dispatch, for every finite set of rows, any cap and budget *)
(* and any number of faults.                                               *)
(***************************************************************************)
EXTENDS Dispatch, FiniteSetTheorems, WellFoundedInduction, TLAPS

\* A row before its claim, or cancelled, was never run, and nobody was told
\* how it ended.
Untouched ==
    \A t \in Tasks : status[t] \in {"none", "queued", "awaiting", "cancelled"} =>
        phase[t] = "none" /\ ran[t] = 0 /\ told[t] = "none"

\* A claimed row is yet to run; only a started one has changes.
RunPhases ==
    \A t \in Tasks :
        /\ phase[t] = "claimed" => ran[t] = 0
        /\ ran[t] <= 1
        /\ phase[t] \in {"running", "pushing", "writing"} => ran[t] = 1
        /\ ran[t] = 0 \/ phase[t] = "running" => changed[t] = "none" /\ remote[t] = "none"

\* Whatever waits for the owner is not authorised yet; a row that is
\* authorised, or past the owner, was approved by the reply that took effect.
Ruled ==
    \A t \in Tasks :
        /\ status[t] \in {"none", "awaiting"} => ruling[t] = "none" /\ t \notin authorised
        /\ t \in authorised => ruling[t] = "yes"
        /\ ran[t] > 0 => Runnable(t)

\* What is being pushed is a declared change; what is about to be reported
\* complete is done.
Honest ==
    \A t \in Tasks :
        /\ phase[t] = "pushing" =>
               scope[t] = "write" /\ changed[t] = "declared" /\ remote[t] # "pr"
               /\ verdict[t] = "complete"
        /\ remote[t] # "none" => scope[t] = "write" /\ changed[t] = "declared"
        /\ phase[t] = "writing" => verdict[t] # "none" /\ (verdict[t] = "complete" => Done(t))
        /\ "complete" \in {status[t], told[t]} =>
               Done(t) /\ phase[t] \in {"none", "fallback"}

\* Only a row that was collected has been told of.
Collected == \A t \in Tasks : told[t] # "none" => t \in surfaced

DispatchInv == TypeOK /\ Untouched /\ RunPhases /\ Ruled /\ Honest /\ Collected
-----------------------------------------------------------------------------
(* Types. *)

LEMMA TypeInit == Init => TypeOK
  BY DispatchAssumption DEF Init, TypeOK, Statuses, Scopes, Phases, Changes, Finished

LEMMA TypeStep == ASSUME TypeOK, [Next]_vars PROVE TypeOK'
<1> USE DispatchAssumption
        DEF TypeOK, Statuses, Scopes, Phases, Changes, Finished, Fault, NoFault, To,
            SetStatus, table, process, history
<1>1. ASSUME NEW t \in Tasks, NEW s \in Scopes, Enqueue(t, s)
      PROVE  TypeOK'
  BY <1>1 DEF Enqueue
<1>2. ASSUME NEW t \in Tasks, NEW answer \in {"yes", "no"}, Lookup(t, answer)
      PROVE  TypeOK'
  BY <1>2 DEF Lookup
<1>3. ASSUME NEW t \in Tasks, NEW answer \in {"yes", "no"}, Reply(t, answer)
      PROVE  TypeOK'
  BY <1>3 DEF Reply, StillAwaiting
<1>4. ASSUME NEW t \in Tasks, Claim(t)
      PROVE  TypeOK'
  BY <1>4 DEF Claim, Idle
<1>5. ASSUME NEW t \in Tasks, Refuse(t)
      PROVE  TypeOK'
  BY <1>5 DEF Refuse, Leave
<1>6. ASSUME NEW t \in Tasks, Start(t)
      PROVE  TypeOK'
  BY <1>6 DEF Start
<1>7. ASSUME NEW t \in Tasks, NEW end \in Finished, NEW change \in Changes, NEW c \in 0..Budget, CcEnds(t, end, change, c)
      PROVE  TypeOK'
  BY <1>7 DEF CcEnds, Rejected
<1>8. ASSUME NEW t \in Tasks, Push(t)
      PROVE  TypeOK'
  BY <1>8 DEF Push, PushFailed
<1>9. ASSUME NEW t \in Tasks, WriteBack(t)
      PROVE  TypeOK'
  BY <1>9 DEF WriteBack, Leave
<1>10. ASSUME NEW t \in Tasks, Fallback(t)
      PROVE  TypeOK'
  BY <1>10 DEF Fallback, Leave
<1>11. ASSUME NEW t \in Tasks, TimePasses(t)
      PROVE  TypeOK'
  BY <1>11 DEF TimePasses
<1>12. CASE Reap
  BY <1>12 DEF Reap, ReapStale, Stale, ReapedStatus
<1>13. CASE Crash
  <2>1. faults < MaxFaults /\ faults' = faults + 1
    BY <1>13 DEF Crash
  <2>2. faults' \in 0..MaxFaults
    BY <2>1
  <2>3. up' \in BOOLEAN
    BY <1>13 DEF Crash
  <2>4. 0 \in 0..Budget
    OBVIOUS
  <2>5. /\ phase' \in [Tasks -> Phases] /\ verdict' \in [Tasks -> Finished \cup {"none"}]
        /\ bill' \in [Tasks -> 0..Budget]
    BY <1>13, <2>4, Zenon DEF Crash
  <2> QED BY <1>13, <2>2, <2>3, <2>5 DEF Crash
<1>14. CASE Restart
  BY <1>14 DEF Restart, ReapStale, Stale, ReapedStatus
<1>15. CASE NewDay
  BY <1>15 DEF NewDay
<1>16. CASE Poll
  BY <1>16 DEF Poll, Unseen
<1>17. CASE UNCHANGED vars
  BY <1>17 DEF vars, table, process, history
<1> QED
  BY <1>1, <1>2, <1>3, <1>4, <1>5, <1>6, <1>7, <1>8, <1>9,
     <1>10, <1>11, <1>12, <1>13, <1>14, <1>15, <1>16, <1>17
  DEF Next, Work, Begin, Settle

\* Every variable always has its type.
THEOREM TypeCorrect == Spec => []TypeOK
<1>1. TypeOK /\ [Next]_vars => TypeOK'
  BY TypeStep
<1> QED BY TypeInit, <1>1, PTL DEF Spec

-----------------------------------------------------------------------------
(* The invariant. *)

LEMMA InvInit == Init => DispatchInv
  BY TypeInit DEF Init, DispatchInv, Untouched, RunPhases, Ruled, Honest, Collected, Finished

LEMMA InvStep == ASSUME DispatchInv, [Next]_vars PROVE DispatchInv'
<1>0. TypeOK'
  BY TypeStep DEF DispatchInv
<1> USE DEF DispatchInv, TypeOK, Untouched, RunPhases, Ruled, Honest, Collected, Done, Runnable,
            Finished, To, SetStatus, table, process, history
<1>1. ASSUME NEW t \in Tasks, NEW s \in Scopes, Enqueue(t, s)
      PROVE  DispatchInv'
  BY <1>0, <1>1 DEF Enqueue
<1>2. ASSUME NEW t \in Tasks, NEW answer \in {"yes", "no"}, Lookup(t, answer)
      PROVE  DispatchInv'
  BY <1>0, <1>2 DEF Lookup
<1>3. ASSUME NEW t \in Tasks, NEW answer \in {"yes", "no"}, Reply(t, answer)
      PROVE  DispatchInv'
  BY <1>0, <1>3 DEF Reply, StillAwaiting
<1>4. ASSUME NEW t \in Tasks, Claim(t)
      PROVE  DispatchInv'
  BY <1>0, <1>4 DEF Claim, Idle
<1>5. ASSUME NEW t \in Tasks, Refuse(t)
      PROVE  DispatchInv'
  BY <1>0, <1>5 DEF Refuse, Leave
<1>6. ASSUME NEW t \in Tasks, Start(t)
      PROVE  DispatchInv'
  BY <1>0, <1>6 DEF Start
<1>7. ASSUME NEW t \in Tasks, NEW end \in Finished, NEW change \in Changes, NEW c \in 0..Budget, CcEnds(t, end, change, c)
      PROVE  DispatchInv'
  <2> DEFINE rejected == IF scope[t] = "read_only" THEN change # "none" ELSE change = "stray"
             pushes   == end = "complete" /\ scope[t] = "write" /\ change # "none" /\ ~rejected
  <2>1. /\ changed' = [changed EXCEPT ![t] = change]
        /\ verdict' = [verdict EXCEPT ![t] = IF end = "complete" /\ rejected THEN "failed" ELSE end]
        /\ phase' = [phase EXCEPT ![t] = IF pushes THEN "pushing" ELSE "writing"]
        /\ phase[t] = "running" /\ ran[t] = 1 /\ remote[t] = "none"
        /\ UNCHANGED <<status, scope, authorised, surfaced, remote, ran, ruling, told>>
    BY <1>7 DEF CcEnds, Rejected
  <2>2. Untouched' /\ Ruled' /\ Collected'
    BY <2>1
  <2>3. RunPhases'
    BY <2>1
  <2>4. pushes => change = "declared"
    BY DEF Changes
  <2>5. ~pushes /\ verdict'[t] = "complete" => change = "none"
    BY <2>1 DEF Changes, Scopes, Runnable
  <2>6. pushes => scope[t] = "write" /\ verdict'[t] = "complete"
    BY <2>1
  <2> HIDE DEF rejected, pushes
  <2>7. Honest'
    BY <2>1, <2>4, <2>5, <2>6
  <2> QED BY <1>0, <2>2, <2>3, <2>7
<1>8. ASSUME NEW t \in Tasks, Push(t)
      PROVE  DispatchInv'
  BY <1>0, <1>8 DEF Push, PushFailed
<1>9. ASSUME NEW t \in Tasks, WriteBack(t)
      PROVE  DispatchInv'
  BY <1>0, <1>9 DEF WriteBack, Leave
<1>10. ASSUME NEW t \in Tasks, Fallback(t)
      PROVE  DispatchInv'
  BY <1>0, <1>10 DEF Fallback, Leave
<1>11. ASSUME NEW t \in Tasks, TimePasses(t)
      PROVE  DispatchInv'
  BY <1>0, <1>11 DEF TimePasses
<1>12. CASE Reap
  BY <1>0, <1>12 DEF Reap, ReapStale, Stale, ReapedStatus
<1>13. CASE Crash
  BY <1>0, <1>13 DEF Crash
<1>14. CASE Restart
  BY <1>0, <1>14 DEF Restart, ReapStale, Stale, ReapedStatus
<1>15. CASE NewDay
  BY <1>0, <1>15 DEF NewDay
<1>16. CASE Poll
  BY <1>0, <1>16 DEF Poll, Unseen
<1>17. CASE UNCHANGED vars
  BY <1>0, <1>17 DEF vars, table, process, history
<1> QED
  BY <1>1, <1>2, <1>3, <1>4, <1>5, <1>6, <1>7, <1>8, <1>9,
     <1>10, <1>11, <1>12, <1>13, <1>14, <1>15, <1>16, <1>17
  DEF Next, Work, Begin, Settle

LEMMA Invariance == Spec => []DispatchInv
<1>1. DispatchInv /\ [Next]_vars => DispatchInv'
  BY InvStep
<1> QED BY InvInit, <1>1, PTL DEF Spec

-----------------------------------------------------------------------------
(* What follows from it. *)

\* Whatever is lost, reaped or restarted, Claude Code is started at most once
\* for a row.
THEOREM StartedOnce == Spec => []RunsOnce
<1>1. DispatchInv => RunsOnce
  BY DEF DispatchInv, RunPhases, RunsOnce
<1> QED BY <1>1, Invariance, PTL

\* A write runs only if the first of the owner's replies to take effect
\* approved it.
THEOREM OwnerFirst == Spec => []OwnerDecides
<1>1. DispatchInv => OwnerDecides
  BY DEF DispatchInv, TypeOK, RunPhases, Ruled, Runnable, OwnerDecides
<1> QED BY <1>1, Invariance, PTL

\* A row, or a turn, that says complete stands for work done in full.
THEOREM CompletionTrue == Spec => []CompletionIsReal
<1>1. DispatchInv => CompletionIsReal
  BY DEF DispatchInv, Honest, CompletionIsReal
<1> QED BY <1>1, Invariance, PTL

\* Only a declared change of an approved write is ever pushed.
THEOREM DeclaredOnly == Spec => []OnlyDeclaredLeaves
<1>1. DispatchInv => OnlyDeclaredLeaves
  BY DEF DispatchInv, TypeOK, RunPhases, Ruled, Runnable, Honest, OnlyDeclaredLeaves
<1> QED BY <1>1, Invariance, PTL

LEMMA MoveStep ==
    ASSUME DispatchInv, [Next]_vars, NEW u \in Tasks,
           status[u] \in Finished, status'[u] # status[u]
    PROVE  phase[u] # "none"
<1> USE DEF DispatchInv, TypeOK, Untouched, Finished, To, SetStatus, table, process, history
<1>1. ASSUME NEW t \in Tasks, NEW s \in Scopes, Enqueue(t, s)
      PROVE  phase[u] # "none"
  BY <1>1 DEF Enqueue
<1>2. ASSUME NEW t \in Tasks, NEW answer \in {"yes", "no"}, Lookup(t, answer)
      PROVE  phase[u] # "none"
  BY <1>2 DEF Lookup
<1>3. ASSUME NEW t \in Tasks, NEW answer \in {"yes", "no"}, Reply(t, answer)
      PROVE  phase[u] # "none"
  BY <1>3 DEF Reply, StillAwaiting
<1>4. ASSUME NEW t \in Tasks, Claim(t)
      PROVE  phase[u] # "none"
  BY <1>4 DEF Claim, Idle
<1>5. ASSUME NEW t \in Tasks, Refuse(t)
      PROVE  phase[u] # "none"
  BY <1>5 DEF Refuse, Leave
<1>6. ASSUME NEW t \in Tasks, Start(t)
      PROVE  phase[u] # "none"
  BY <1>6 DEF Start
<1>7. ASSUME NEW t \in Tasks, NEW end \in Finished, NEW change \in Changes, NEW c \in 0..Budget, CcEnds(t, end, change, c)
      PROVE  phase[u] # "none"
  BY <1>7 DEF CcEnds, Rejected
<1>8. ASSUME NEW t \in Tasks, Push(t)
      PROVE  phase[u] # "none"
  BY <1>8 DEF Push, PushFailed
<1>9. ASSUME NEW t \in Tasks, WriteBack(t)
      PROVE  phase[u] # "none"
  BY <1>9 DEF WriteBack, Leave
<1>10. ASSUME NEW t \in Tasks, Fallback(t)
      PROVE  phase[u] # "none"
  BY <1>10 DEF Fallback, Leave
<1>11. ASSUME NEW t \in Tasks, TimePasses(t)
      PROVE  phase[u] # "none"
  BY <1>11 DEF TimePasses
<1>12. CASE Reap
  BY <1>12 DEF Reap, ReapStale, Stale, ReapedStatus
<1>13. CASE Crash
  BY <1>13 DEF Crash
<1>14. CASE Restart
  BY <1>14 DEF Restart, ReapStale, Stale, ReapedStatus
<1>15. CASE NewDay
  BY <1>15 DEF NewDay
<1>16. CASE Poll
  BY <1>16 DEF Poll, Unseen
<1>17. CASE UNCHANGED vars
  BY <1>17 DEF vars, table, process, history
<1> QED
  BY <1>1, <1>2, <1>3, <1>4, <1>5, <1>6, <1>7, <1>8, <1>9,
     <1>10, <1>11, <1>12, <1>13, <1>14, <1>15, <1>16, <1>17
  DEF Next, Work, Begin, Settle

\* A finished row is changed again by the run that holds it, and by nothing else.
THEOREM MovedByItsRun == Spec => OnlyItsRunMoves
<1>1. DispatchInv /\ [Next]_vars =>
          [\A t \in Tasks : status[t] \in Finished /\ status'[t] # status[t] =>
                              phase[t] # "none"]_vars
  BY MoveStep
<1> QED BY <1>1, Invariance, PTL DEF Spec, OnlyItsRunMoves

LEMMA TellStep ==
    ASSUME DispatchInv, [Next]_vars, NEW u \in Tasks, told[u] # "none"
    PROVE  told'[u] = told[u]
<1> USE DEF DispatchInv, TypeOK, Collected, table, process, history
<1>1. ASSUME NEW t \in Tasks, NEW s \in Scopes, Enqueue(t, s)
      PROVE  told'[u] = told[u]
  BY <1>1 DEF Enqueue
<1>2. ASSUME NEW t \in Tasks, NEW answer \in {"yes", "no"}, Lookup(t, answer)
      PROVE  told'[u] = told[u]
  BY <1>2 DEF Lookup
<1>3. ASSUME NEW t \in Tasks, NEW answer \in {"yes", "no"}, Reply(t, answer)
      PROVE  told'[u] = told[u]
  BY <1>3 DEF Reply, StillAwaiting
<1>4. ASSUME NEW t \in Tasks, Claim(t)
      PROVE  told'[u] = told[u]
  BY <1>4 DEF Claim, Idle
<1>5. ASSUME NEW t \in Tasks, Refuse(t)
      PROVE  told'[u] = told[u]
  BY <1>5 DEF Refuse, Leave
<1>6. ASSUME NEW t \in Tasks, Start(t)
      PROVE  told'[u] = told[u]
  BY <1>6 DEF Start
<1>7. ASSUME NEW t \in Tasks, NEW end \in Finished, NEW change \in Changes, NEW c \in 0..Budget, CcEnds(t, end, change, c)
      PROVE  told'[u] = told[u]
  BY <1>7 DEF CcEnds, Rejected
<1>8. ASSUME NEW t \in Tasks, Push(t)
      PROVE  told'[u] = told[u]
  BY <1>8 DEF Push, PushFailed
<1>9. ASSUME NEW t \in Tasks, WriteBack(t)
      PROVE  told'[u] = told[u]
  BY <1>9 DEF WriteBack, Leave
<1>10. ASSUME NEW t \in Tasks, Fallback(t)
      PROVE  told'[u] = told[u]
  BY <1>10 DEF Fallback, Leave
<1>11. ASSUME NEW t \in Tasks, TimePasses(t)
      PROVE  told'[u] = told[u]
  BY <1>11 DEF TimePasses
<1>12. CASE Reap
  BY <1>12 DEF Reap, ReapStale, Stale, ReapedStatus
<1>13. CASE Crash
  BY <1>13 DEF Crash
<1>14. CASE Restart
  BY <1>14 DEF Restart, ReapStale, Stale, ReapedStatus
<1>15. CASE NewDay
  BY <1>15 DEF NewDay
<1>16. CASE Poll
  BY <1>16 DEF Poll, Unseen
<1>17. CASE UNCHANGED vars
  BY <1>17 DEF vars, table, process, history
<1> QED
  BY <1>1, <1>2, <1>3, <1>4, <1>5, <1>6, <1>7, <1>8, <1>9,
     <1>10, <1>11, <1>12, <1>13, <1>14, <1>15, <1>16, <1>17
  DEF Next, Work, Begin, Settle

\* A turn is told how a row ended once.
THEOREM ToldAtMostOnce == Spec => ToldOnce
<1>1. DispatchInv /\ [Next]_vars =>
          [\A t \in Tasks : told[t] # "none" => told'[t] = told[t]]_vars
  BY TellStep
<1> QED BY <1>1, Invariance, PTL DEF Spec, ToldOnce

\* The invariant the run checks, for any rows, replies and faults.
THEOREM DispatchIsSafe == Spec => []DispatchSafe
BY TypeCorrect, StartedOnce, OwnerFirst, PTL DEF DispatchSafe

-----------------------------------------------------------------------------
(* What is spent. *)

\* Induction over the naturals, for a set of them.
LEMMA EveryNumber ==
  ASSUME NEW P \in SUBSET Nat, 0 \in P, \A n \in P : n + 1 \in P
  PROVE  \A n \in Nat : n \in P
<1> SUFFICES ASSUME NEW m \in Nat, m \notin P PROVE FALSE
  OBVIOUS
<1> DEFINE Out == {n \in Nat : n \notin P}
<1>1. Out \subseteq Nat /\ Out # {}
  OBVIOUS
<1>2. IsWellFoundedOn(OpToRel(<, Nat), Nat)
  BY NatLessThanWellFounded, Zenon
<1> HIDE DEF Out
<1>3. PICK n \in Out : \A k \in Out : ~(<<k, n>> \in OpToRel(<, Nat))
  BY <1>1, <1>2, WFMin, Zenon
<1>4. n \in Nat /\ n \notin P /\ \A k \in Nat : k < n => k \in P
  <2>1. \A k \in Out : k \in Nat /\ n \in Nat /\ ~(k < n)
    BY <1>1, <1>3 DEF OpToRel
  <2> QED BY <2>1 DEF Out
<1>5. n - 1 \in Nat /\ n - 1 < n /\ (n - 1) + 1 = n
  BY <1>4
<1> QED BY <1>4, <1>5

\* Induction over the subsets of a finite set, for a set of them.
LEMMA EverySubset ==
  ASSUME NEW D, IsFiniteSet(D), NEW P \in SUBSET (SUBSET D),
         \A s \in SUBSET D : (\A x \in s : s \ {x} \in P) => s \in P
  PROVE  \A s \in SUBSET D : s \in P
<1> DEFINE N == {n \in Nat : \A s \in SUBSET D : Cardinality(s) = n => s \in P}
<1>1. \A s \in SUBSET D : IsFiniteSet(s) /\ Cardinality(s) \in Nat
  BY FS_Subset, FS_CardinalityType
<1>2. 0 \in N
  <2>1. \A s \in SUBSET D : Cardinality(s) = 0 => s = {}
    BY <1>1, FS_EmptySet
  <2> QED BY <2>1
<1>3. ASSUME NEW n \in N PROVE n + 1 \in N
  <2> SUFFICES ASSUME NEW s \in SUBSET D, Cardinality(s) = n + 1 PROVE s \in P
    OBVIOUS
  <2>1. \A x \in s : s \ {x} \in SUBSET D /\ Cardinality(s \ {x}) = n
    BY <1>1, FS_RemoveElement
  <2> QED BY <2>1
<1>4. \A n \in Nat : n \in N
  <2> HIDE DEF N
  <2>1. N \in SUBSET Nat
    BY DEF N
  <2> QED BY <1>2, <1>3, <2>1, EveryNumber
<1> QED BY <1>1, <1>4

\* The element a fold takes next.
Some(s) == CHOOSE y \in s : TRUE

\* What is folded out of a set, taken from the sums of its parts.
Sums(D, f, h) ==
  h = [s \in SUBSET D |-> IF s = {} THEN 0
                          ELSE f[Some(s)] + h[s \ {Some(s)}]]

Total(D, f) == CHOOSE h : Sums(D, f, h)

LEMMA SpentIsTotal ==
  /\ Spent = Total(DOMAIN cost, cost)[DOMAIN cost]
  /\ Spent' = Total(DOMAIN cost', cost')[DOMAIN cost']
  BY DEF Spent, FoldFunction, FoldFunctionOnSet, MapThenFoldSet, Total, Sums, Some

LEMMA TotalSums == ASSUME NEW D, IsFiniteSet(D), NEW f PROVE Sums(D, f, Total(D, f))
<1> DEFINE Up(n) == {s \in SUBSET D : Cardinality(s) <= n}
           Built(n, h) == h = [s \in Up(n) |-> IF s = {} THEN 0 ELSE f[Some(s)] + h[s \ {Some(s)}]]
           N == {n \in Nat : \E h : Built(n, h)}
<1>1. \A s \in SUBSET D : /\ IsFiniteSet(s) /\ Cardinality(s) \in Nat
                          /\ Cardinality(s) <= Cardinality(D) /\ (Cardinality(s) = 0 <=> s = {})
  BY FS_Subset, FS_CardinalityType, FS_EmptySet
<1>2. \A s \in SUBSET D : s # {} => Some(s) \in s
  BY DEF Some
<1>3. 0 \in N
  <2> DEFINE h == [s \in Up(0) |-> 0]
  <2>1. \A s \in Up(0) : s = {}
    BY <1>1
  <2>2. Built(0, h)
    BY <2>1
  <2> QED BY <2>2
<1>4. ASSUME NEW n \in N PROVE n + 1 \in N
  <2>1. PICK h : Built(n, h)
    OBVIOUS
  <2> DEFINE g == [s \in Up(n + 1) |-> IF s = {} THEN 0 ELSE f[Some(s)] + h[s \ {Some(s)}]]
  <2>2. ASSUME NEW s \in Up(n + 1), s # {}
        PROVE  s \ {Some(s)} \in Up(n)
    <3>1. Cardinality(s \ {Some(s)}) = Cardinality(s) - 1
      BY <1>1, <1>2, <2>2, FS_RemoveElement
    <3> QED BY <1>1, <3>1
  <2>3. \A s \in Up(n) : s \in Up(n + 1)
    BY <1>1
  <2>4. \A s \in Up(n) : g[s] = h[s]
    BY <2>1, <2>3
  <2>5. \A s \in Up(n + 1) : s # {} => g[s \ {Some(s)}] = h[s \ {Some(s)}]
    BY <2>2, <2>4
  <2>6. Built(n + 1, g)
    BY <2>5
  <2> HIDE DEF Built, g
  <2> QED BY <2>6
<1>5. PICK h : Built(Cardinality(D), h)
  <2> HIDE DEF Built
  <2>1. \A n \in Nat : n \in N
    <3> HIDE DEF N
    <3>1. N \in SUBSET Nat
      BY DEF N
    <3> QED BY <1>3, <1>4, <3>1, EveryNumber
  <2>2. Cardinality(D) \in Nat
    BY FS_CardinalityType
  <2> QED BY <2>1, <2>2
<1>6. Up(Cardinality(D)) = SUBSET D
  BY <1>1
<1>7. Sums(D, f, h)
  BY <1>5, <1>6 DEF Sums
<1> QED BY <1>7 DEF Total

LEMMA TotalIs ==
  ASSUME NEW D, IsFiniteSet(D), NEW f, NEW s \in SUBSET D
  PROVE  Total(D, f)[s] = IF s = {} THEN 0
                          ELSE f[Some(s)] + Total(D, f)[s \ {Some(s)}]
<1> DEFINE h == Total(D, f)
<1>1. h = [r \in SUBSET D |-> IF r = {} THEN 0
                             ELSE f[Some(r)] + h[r \ {Some(r)}]]
  <2>1. Sums(D, f, h)
    BY TotalSums
  <2> HIDE DEF h
  <2> QED BY <2>1 DEF Sums
<1> HIDE DEF h
<1>2. h[s] = IF s = {} THEN 0 ELSE f[Some(s)] + h[s \ {Some(s)}]
  BY <1>1
<1> QED BY <1>2 DEF h

\* The sums of natural numbers are natural numbers.
LEMMA TotalNat ==
  ASSUME NEW D, IsFiniteSet(D), NEW f \in [D -> Nat]
  PROVE  \A s \in SUBSET D : Total(D, f)[s] \in Nat
<1> DEFINE h == Total(D, f)
           P == {s \in SUBSET D : h[s] \in Nat}
<1>1. \A s \in SUBSET D : h[s] = IF s = {} THEN 0 ELSE f[Some(s)] + h[s \ {Some(s)}]
  BY TotalIs
<1>2. \A s \in SUBSET D : s # {} => Some(s) \in s /\ Some(s) \in D
  BY DEF Some
<1> HIDE DEF h
<1>3. ASSUME NEW s \in SUBSET D, \A x \in s : s \ {x} \in P PROVE s \in P
  <2>0. h[s] = IF s = {} THEN 0 ELSE f[Some(s)] + h[s \ {Some(s)}]
    BY <1>1
  <2>1. CASE s = {}
    <3>1. h[s] = 0
      BY <2>0, <2>1
    <3> QED BY <3>1
  <2>2. CASE s # {}
    <3>1. f[Some(s)] \in Nat /\ h[s \ {Some(s)}] \in Nat
      BY <1>2, <1>3, <2>2
    <3>2. h[s] = f[Some(s)] + h[s \ {Some(s)}]
      BY <2>0, <2>2
    <3>3. h[s] \in Nat
      BY <3>1, <3>2
    <3> QED BY <3>3
  <2> QED BY <2>1, <2>2
<1>4. \A s \in SUBSET D : s \in P
  <2> HIDE DEF P
  <2>1. P \in SUBSET (SUBSET D)
    BY DEF P
  <2> QED BY <1>3, <2>1, EverySubset
<1> QED BY <1>4 DEF h

LEMMA TotalUnfolds ==
  ASSUME NEW D, IsFiniteSet(D), NEW f \in [D -> Nat]
  PROVE  \A s \in SUBSET D :
           /\ Total(D, f)[s] = IF s = {} THEN 0
                               ELSE f[Some(s)] + Total(D, f)[s \ {Some(s)}]
           /\ Total(D, f)[s] \in Nat
<1>1. \A s \in SUBSET D : Total(D, f)[s] = IF s = {} THEN 0
                               ELSE f[Some(s)] + Total(D, f)[s \ {Some(s)}]
  BY TotalIs
<1>2. \A s \in SUBSET D : Total(D, f)[s] \in Nat
  BY TotalNat
<1> QED BY <1>1, <1>2, Zenon

\* A sum moves by as much as one of its terms does.
LEMMA TotalMoves ==
  ASSUME NEW D, IsFiniteSet(D), NEW f \in [D -> Nat], NEW g \in [D -> Nat], NEW t \in D,
         \A x \in D : x # t => g[x] = f[x]
  PROVE  Total(D, g)[D] + f[t] = Total(D, f)[D] + g[t]
<1> DEFINE h == Total(D, f)
           k == Total(D, g)
           P == {s \in SUBSET D : /\ t \in s => k[s] + f[t] = h[s] + g[t]
                                  /\ t \notin s => k[s] = h[s]}
<1>1. \A s \in SUBSET D : /\ h[s] = IF s = {} THEN 0 ELSE f[Some(s)] + h[s \ {Some(s)}]
                          /\ k[s] = IF s = {} THEN 0 ELSE g[Some(s)] + k[s \ {Some(s)}]
                          /\ h[s] \in Nat /\ k[s] \in Nat
  <2>1. \A s \in SUBSET D : /\ h[s] = IF s = {} THEN 0 ELSE f[Some(s)] + h[s \ {Some(s)}]
                            /\ h[s] \in Nat
    BY TotalUnfolds
  <2>2. \A s \in SUBSET D : /\ k[s] = IF s = {} THEN 0 ELSE g[Some(s)] + k[s \ {Some(s)}]
                            /\ k[s] \in Nat
    BY TotalUnfolds
  <2> HIDE DEF h, k
  <2> QED BY <2>1, <2>2
<1>2. \A s \in SUBSET D : s # {} => Some(s) \in s /\ Some(s) \in D
  BY DEF Some
<1> HIDE DEF h, k
<1>3. ASSUME NEW s \in SUBSET D, \A x \in s : s \ {x} \in P PROVE s \in P
  <2>1. CASE s = {}
    BY <1>1, <2>1
  <2>2. CASE s # {}
    <3> DEFINE x == Some(s)
               r == s \ {x}
    <3>1. x \in s /\ x \in D /\ r \in SUBSET D /\ r \in P /\ (t \in s <=> t = x \/ t \in r)
      BY <1>2, <1>3, <2>2
    <3>2. /\ h[s] = f[x] + h[r] /\ k[s] = g[x] + k[r]
          /\ f[x] \in Nat /\ g[x] \in Nat /\ h[r] \in Nat /\ k[r] \in Nat
          /\ f[t] \in Nat /\ g[t] \in Nat
      BY <1>1, <2>2, <3>1
    <3>3. /\ t \in r => k[r] + f[t] = h[r] + g[t]
          /\ t \notin r => k[r] = h[r]
      BY <3>1
    <3>4. t = x => t \notin r
      OBVIOUS
    <3> HIDE DEF x, r
    <3>5. CASE t = x
      BY <3>1, <3>2, <3>3, <3>4, <3>5
    <3>6. CASE t # x
      <4>1. g[x] = f[x]
        BY <3>1, <3>6
      <4>2. t \in s => k[s] + f[t] = h[s] + g[t]
        BY <3>1, <3>2, <3>3, <3>6, <4>1
      <4>3. t \notin s => k[s] = h[s]
        BY <3>1, <3>2, <3>3, <3>6, <4>1
      <4> QED BY <4>2, <4>3
    <3> QED BY <3>5, <3>6
  <2> QED BY <2>1, <2>2
<1>4. \A s \in SUBSET D : s \in P
  <2> HIDE DEF P
  <2>1. P \in SUBSET (SUBSET D)
    BY DEF P
  <2> QED BY <1>3, <2>1, EverySubset
<1> QED BY <1>4 DEF h, k

\* Nothing adds up to nothing.
LEMMA TotalZero ==
  ASSUME NEW D, IsFiniteSet(D)
  PROVE  Total(D, [x \in D |-> 0])[D] = 0
<1> DEFINE f == [x \in D |-> 0]
           h == Total(D, f)
           P == {s \in SUBSET D : h[s] = 0}
<1>1. \A s \in SUBSET D : h[s] = IF s = {} THEN 0 ELSE f[Some(s)] + h[s \ {Some(s)}]
  BY TotalIs
<1>2. \A s \in SUBSET D : s # {} => Some(s) \in s /\ f[Some(s)] = 0
  BY DEF Some
<1> HIDE DEF h, f
<1>3. ASSUME NEW s \in SUBSET D, \A x \in s : s \ {x} \in P PROVE s \in P
  <2>0. h[s] = IF s = {} THEN 0 ELSE f[Some(s)] + h[s \ {Some(s)}]
    BY <1>1
  <2>1. CASE s = {}
    <3>1. h[s] = 0
      BY <2>0, <2>1
    <3> QED BY <3>1
  <2>2. CASE s # {}
    <3>1. f[Some(s)] = 0 /\ h[s \ {Some(s)}] = 0
      BY <1>2, <1>3, <2>2
    <3>2. h[s] = f[Some(s)] + h[s \ {Some(s)}]
      BY <2>0, <2>2
    <3>3. h[s] = 0
      BY <3>1, <3>2
    <3> QED BY <3>3
  <2> QED BY <2>1, <2>2
<1>4. \A s \in SUBSET D : s \in P
  <2> HIDE DEF P
  <2>1. P \in SUBSET (SUBSET D)
    BY DEF P
  <2> QED BY <1>3, <2>1, EverySubset
<1> QED BY <1>4 DEF h, f

-----------------------------------------------------------------------------
(* The cap. *)

\* One row is held at a time; until its cost is written the day is under the cap.
SpendInv ==
    /\ \A t, u \in Tasks : phase[t] # "none" /\ phase[u] # "none" => t = u
    /\ \A t \in Tasks : phase[t] \in {"claimed", "running", "pushing", "writing"} => UnderCap
    /\ SpendBounded

LEMMA SpentNat ==
  /\ cost \in [Tasks -> Nat] => Spent = Total(Tasks, cost)[Tasks] /\ Spent \in Nat
  /\ cost' \in [Tasks -> Nat] => Spent' = Total(Tasks, cost')[Tasks] /\ Spent' \in Nat
<1>1. /\ cost \in [Tasks -> Nat] => DOMAIN cost = Tasks
      /\ cost' \in [Tasks -> Nat] => DOMAIN cost' = Tasks
  OBVIOUS
<1>2. /\ cost \in [Tasks -> Nat] => Spent = Total(Tasks, cost)[Tasks]
      /\ cost' \in [Tasks -> Nat] => Spent' = Total(Tasks, cost')[Tasks]
  BY <1>1, SpentIsTotal
<1> QED BY <1>2, TotalNat, DispatchAssumption

LEMMA NothingSpent ==
  /\ cost = [t \in Tasks |-> 0] => Spent = 0
  /\ cost' = [t \in Tasks |-> 0] => Spent' = 0
<1>1. Total(Tasks, [t \in Tasks |-> 0])[Tasks] = 0
  BY TotalZero, DispatchAssumption
<1>2. \A c : c = [t \in Tasks |-> 0] => c \in [Tasks -> Nat]
  OBVIOUS
<1> QED BY <1>1, <1>2, SpentNat

LEMMA SpendStart == Init => SpendInv
<1> SUFFICES ASSUME Init PROVE SpendInv
  OBVIOUS
<1>1. Spent = 0
  BY NothingSpent DEF Init
<1>2. \A t \in Tasks : phase[t] = "none"
  BY DEF Init
<1> QED BY <1>1, <1>2, DispatchAssumption DEF SpendInv, SpendBounded

LEMMA SpendStep == ASSUME TypeOK, SpendInv, [Next]_vars PROVE SpendInv'
<1> DEFINE Before(p) == p \in {"claimed", "running", "pushing", "writing"}
<1>0. /\ phase \in [Tasks -> Phases] /\ DailyCap \in Nat /\ DailyCap >= 1 /\ Budget \in Nat
      /\ Spent \in Nat /\ cost \in [Tasks -> Nat] /\ bill \in [Tasks -> 0..Budget]
  <2>1. cost \in [Tasks -> Nat]
    BY DispatchAssumption DEF TypeOK
  <2> QED BY <2>1, SpentNat, DispatchAssumption DEF TypeOK
<1>1. ASSUME cost' = cost,
             \A t \in Tasks : /\ phase'[t] # "none" => phase[t] # "none"
                              /\ Before(phase'[t]) => Before(phase[t])
      PROVE  SpendInv'
  <2>1. Spent' = Spent
    BY <1>1, SpentIsTotal
  <2> QED BY <1>1, <2>1 DEF SpendInv, SpendBounded, UnderCap
<1>2. ASSUME cost' = cost, phase' = phase PROVE SpendInv'
  BY <1>1, <1>2
<1>3. ASSUME NEW t \in Tasks, NEW p \in {"none", "running", "pushing", "writing", "fallback"},
             cost' = cost, To(t, p), phase[t] # "none",
             Before(p) => Before(phase[t])
      PROVE  SpendInv'
  <2>1. phase' = [phase EXCEPT ![t] = p]
    BY <1>3 DEF To
  <2>2. \A u \in Tasks : phase'[u] = IF u = t THEN p ELSE phase[u]
    BY <1>0, <2>1
  <2> QED BY <1>1, <1>3, <2>2
<1>4. ASSUME NEW t \in Tasks, NEW s \in Scopes, Enqueue(t, s) PROVE SpendInv'
  BY <1>2, <1>4 DEF Enqueue, process
<1>5. ASSUME NEW t \in Tasks, NEW answer \in {"yes", "no"}, Lookup(t, answer) \/ Reply(t, answer)
      PROVE  SpendInv'
  BY <1>2, <1>5 DEF Lookup, Reply, table, process
<1>6. ASSUME NEW t \in Tasks, Claim(t) PROVE SpendInv'
  <2>1. /\ cost' = cost /\ Spent < DailyCap /\ \A u \in Tasks : phase[u] = "none"
        /\ phase' = [phase EXCEPT ![t] = "claimed"] \/ phase' = phase
    BY <1>6 DEF Claim, Idle, UnderCap, To
  <2>2. Spent' = Spent
    BY <2>1, SpentIsTotal
  <2>3. \A u \in Tasks : u # t => phase'[u] = "none"
    BY <1>0, <2>1
  <2> QED BY <1>0, <2>1, <2>2, <2>3 DEF SpendInv, SpendBounded, UnderCap
<1>7. ASSUME NEW t \in Tasks, Begin(t) \/ Settle(t) \/ Push(t) \/ Fallback(t) PROVE SpendInv'
  <2>1. CASE Refuse(t)
    BY <1>3, <2>1 DEF Refuse, Leave
  <2>2. CASE Start(t)
    BY <1>3, <2>2 DEF Start, table
  <2>3. ASSUME NEW end \in Finished, NEW change \in Changes, NEW c \in 0..Budget,
               CcEnds(t, end, change, c)
        PROVE  SpendInv'
    BY <1>3, <2>3 DEF CcEnds, table
  <2>4. CASE Push(t)
    BY <1>2, <1>3, <2>4 DEF Push, table
  <2>5. CASE Fallback(t)
    BY <1>3, <2>5 DEF Fallback, Leave
  <2> QED BY <1>7, <2>1, <2>2, <2>3, <2>4, <2>5 DEF Begin, Settle
<1>8. ASSUME NEW t \in Tasks, WriteBack(t) PROVE SpendInv'
  <2>1. /\ phase[t] = "writing"
        /\ phase' = [phase EXCEPT ![t] = "none"] \/ phase' = [phase EXCEPT ![t] = "fallback"]
        /\ cost' = [cost EXCEPT ![t] = bill[t]] \/ cost' = cost
    BY <1>8 DEF WriteBack, Leave, To
  <2>2. Spent < DailyCap /\ \A u \in Tasks : u # t => phase[u] = "none"
    BY <2>1 DEF SpendInv, UnderCap
  <2>3. \A u \in Tasks : phase'[u] # "none" => u = t /\ phase'[t] = "fallback"
    BY <1>0, <2>1, <2>2
  <2>4. Spent' < DailyCap + Budget
    <3>1. CASE cost' = cost
      <4>1. Spent' = Spent
        BY <3>1, SpentIsTotal
      <4> QED BY <1>0, <2>2, <4>1
    <3>2. CASE cost' = [cost EXCEPT ![t] = bill[t]]
      <4>1. /\ cost' \in [Tasks -> Nat] /\ cost'[t] = bill[t]
            /\ \A u \in Tasks : u # t => cost'[u] = cost[u]
        BY <1>0, <3>2
      <4>2. Total(Tasks, cost')[Tasks] + cost[t] = Total(Tasks, cost)[Tasks] + cost'[t]
        BY <1>0, <4>1, TotalMoves, DispatchAssumption
      <4>3. /\ Spent = Total(Tasks, cost)[Tasks] /\ Spent' = Total(Tasks, cost')[Tasks]
            /\ Spent' \in Nat
        BY <1>0, <4>1, SpentNat
      <4>4. cost[t] \in Nat /\ cost'[t] \in 0..Budget
        BY <1>0, <4>1
      <4> QED BY <1>0, <2>2, <4>2, <4>3, <4>4
    <3> QED BY <2>1, <3>1, <3>2
  <2> QED BY <2>3, <2>4 DEF SpendInv, SpendBounded
<1>9. ASSUME NEW t \in Tasks, TimePasses(t) PROVE SpendInv'
  BY <1>2, <1>9 DEF TimePasses, process
<1>10. CASE Reap \/ Restart \/ Poll
  BY <1>2, <1>10 DEF Reap, Restart, Poll, process
<1>11. CASE Crash
  BY <1>1, <1>11 DEF Crash, table
<1>12. CASE NewDay
  <2>1. phase' = phase /\ cost' = [t \in Tasks |-> 0]
    BY <1>12 DEF NewDay, process
  <2>2. Spent' = 0
    BY <2>1, NothingSpent
  <2> QED BY <1>0, <2>1, <2>2 DEF SpendInv, SpendBounded, UnderCap
<1>13. CASE UNCHANGED vars
  BY <1>2, <1>13 DEF vars, table, process
<1> QED
  BY <1>4, <1>5, <1>6, <1>7, <1>8, <1>9, <1>10, <1>11, <1>12, <1>13 DEF Next, Work

\* For any finite number of rows, any cap, any budget and any faults: the rows of
\* a day cost less than the cap and one run.
THEOREM SpendStaysBounded == Spec => []SpendBounded
<1>1. TypeOK /\ SpendInv /\ [Next]_vars => SpendInv'
  BY SpendStep
<1>2. SpendInv => SpendBounded
  BY DEF SpendInv
<1> QED BY <1>1, <1>2, SpendStart, TypeCorrect, PTL DEF Spec
=============================================================================
