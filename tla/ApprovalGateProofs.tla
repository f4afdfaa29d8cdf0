------------------------- MODULE ApprovalGateProofs -------------------------
(***************************************************************************)
(* Proofs about ApprovalGate, for every set of requests, any window, cap,  *)
(* number of clock steps, and restarts.                                    *)
(***************************************************************************)
EXTENDS ApprovalGate, FiniteSetTheorems, TLAPS

(***************************************************************************)
(* None of the three properties is inductive alone.  A tap decides what is *)
(* pending, so a pending request must never have been ruled on, a request  *)
(* that has yet to ask must have left no trace, and a published approval   *)
(* must stand on a ruling.                                                 *)
(***************************************************************************)
PendingUnruled == \A r \in pending : ruling[r] = "none" /\ caller[r] # "idle"

IdleUntouched ==
    \A r \in Ids : caller[r] = "idle" => ruling[r] = "none" /\ ResultOf(r) = {}

ResultsRuled ==
    \A e \in results : e.status = "approved" => ruling[e.id] = "approved"

RulingsTapped ==
    \A r \in Ids : ruling[r] = "approved" =>
        \E t \in taps : t.id = r /\ t.button = "approve" /\ t.from = "owner"

CallersRuled == \A r \in Ids : caller[r] = "approved" => ruling[r] = "approved"

IInv == /\ TypeOK /\ OnePending /\ DecidedOnce
        /\ PendingUnruled /\ IdleUntouched
        /\ ResultsRuled /\ RulingsTapped /\ CallersRuled

-----------------------------------------------------------------------------
(* Publishing only ever adds entries of the ids published, whatever the    *)
(* eviction then removes.                                                  *)
LEMMA PublishAdds ==
    ASSUME NEW ids, NEW status, Publish(ids, status)
    PROVE  \A e \in results' :
             \/ e \in results
             \/ \E r \in ids : e = [id |-> r, status |-> status, seq |-> published]
  BY DEF Publish, Retain

\* A request in the sweep's list was pending and expired.
LEMMA SweptPending == Swept \subseteq pending
  BY DEF Swept

\* Every entry, callback and button has the outcome the types allow.
LEMMA OutcomeType == \A b \in Buttons : Outcome(b) \in {"approved", "skipped"}
  BY DEF Outcome

LEMMA DownType == \A n \in 0..Window : Down(n) \in 0..Window
  BY WindowAssumption DEF Down

-----------------------------------------------------------------------------
(* Types. *)

LEMMA TypeInit == Init => TypeOK
  BY WindowAssumption DEF Init, TypeOK, Active, Decisions, Failures

LEMMA TypePublish ==
    ASSUME TypeOK, NEW ids \in SUBSET Ids, NEW status \in Decisions,
           Publish(ids, status)
    PROVE  results' \in SUBSET Entries /\ published' \in Nat
<1>1. published' \in Nat
  BY DEF TypeOK, Publish
<1>2. \A e \in results' : e \in Entries
  BY PublishAdds DEF TypeOK, Entries
<1> QED BY <1>1, <1>2

LEMMA TypeStep == ASSUME TypeOK, [Next]_vars PROVE TypeOK'
<1> USE DEF TypeOK, gate, clocks, mono, chat, sweeping
<1>1. ASSUME NEW r \in Ids, Register(r) PROVE TypeOK'
  <2>1. results' \in SUBSET Entries /\ published' \in Nat
    BY <1>1, TypePublish, SweptPending DEF Register, Decisions
  <2>2. /\ caller' \in [Ids -> {"idle"} \cup Active \cup Decisions \cup Failures]
        /\ untilExpiry' \in [Ids -> 0..Window] /\ age' \in [Ids -> 0..Window]
        /\ pending' \in SUBSET Ids
    BY <1>1, WindowAssumption DEF Register, Active
  <2> QED BY <1>1, <2>1, <2>2 DEF Register
<1>2. ASSUME NEW r \in Ids, RefuseBusy(r) PROVE TypeOK'
  <2>1. results' \in SUBSET Entries /\ published' \in Nat
    BY <1>2, TypePublish, SweptPending DEF RefuseBusy, Decisions
  <2> QED BY <1>2, <2>1 DEF RefuseBusy, Failures
<1>3. ASSUME NEW r \in Ids, TelegramPosts(r) PROVE TypeOK'
  BY <1>3 DEF TelegramPosts
<1>4. ASSUME NEW r \in Ids, SendSucceeds(r) PROVE TypeOK'
  BY <1>4 DEF SendSucceeds, Active
<1>5. ASSUME NEW r \in Ids, SendFails(r) PROVE TypeOK'
  BY <1>5, WindowAssumption DEF SendFails, Pop, Failures
<1>6. ASSUME NEW r \in Ids, NEW button \in Buttons, NEW sender \in Senders,
             Tap(r, button, sender)
      PROVE TypeOK'
  BY <1>6 DEF Tap
<1>7. ASSUME NEW t \in taps, Decide(t) PROVE TypeOK'
  <2>1. t.id \in Ids /\ Outcome(t.button) \in {"approved", "skipped"}
    BY <1>7, OutcomeType
  <2>2. results' \in SUBSET Entries /\ published' \in Nat
    BY <1>7, <2>1, TypePublish DEF Decide, Decisions
  <2>3. edits' \in SUBSET [id : Ids, label : {"approved", "skipped", "expired"}]
    BY <1>7, <2>1 DEF Decide, Edit
  <2>4. /\ pending' \in SUBSET Ids
        /\ untilExpiry' \in [Ids -> 0..Window]
        /\ ruling' \in [Ids -> {"none", "approved", "skipped"}]
    BY <1>7, <2>1, WindowAssumption DEF Decide, Pop
  <2> QED BY <1>7, <2>2, <2>3, <2>4 DEF Decide
<1>8. ASSUME NEW r \in Ids, ExpirePending(r)
      PROVE  /\ results' \in SUBSET Entries /\ published' \in Nat
             /\ pending' \in SUBSET Ids /\ untilExpiry' \in [Ids -> 0..Window]
             /\ edits' \in SUBSET [id : Ids, label : {"approved", "skipped", "expired"}]
  <2>1. results' \in SUBSET Entries /\ published' \in Nat
    BY <1>8, TypePublish DEF ExpirePending, Decisions
  <2> QED BY <1>8, <2>1, WindowAssumption DEF ExpirePending, Pop, Edit
<1>9. ASSUME NEW t \in taps, DecideLate(t) PROVE TypeOK'
  BY <1>9, <1>8 DEF DecideLate
<1>10. ASSUME NEW e \in edits, EditMessage(e) PROVE TypeOK'
  BY <1>10 DEF EditMessage
<1>11. ASSUME NEW r \in Ids, Poll(r) PROVE TypeOK'
  BY <1>11 DEF Poll, Collect, ResultOf, Entries
<1>12. ASSUME NEW r \in Ids, PollVanished(r) PROVE TypeOK'
  BY <1>12 DEF PollVanished, Decisions
<1>13. ASSUME NEW r \in Ids, DeadlineReached(r) PROVE TypeOK'
  BY <1>13 DEF DeadlineReached, Active
<1>14. ASSUME NEW r \in Ids, WaiterExpires(r) PROVE TypeOK'
  BY <1>14, <1>8 DEF WaiterExpires, Active
<1>15. ASSUME NEW r \in Ids, WaiterYields(r) PROVE TypeOK'
  BY <1>15 DEF WaiterYields, Collect, ResultOf, Entries, Decisions
<1>16. ASSUME NEW r \in Ids, WaiterReturns(r) PROVE TypeOK'
  BY <1>16 DEF WaiterReturns, Collect, Decisions
<1>17. ASSUME SweepCollects PROVE TypeOK'
  BY <1>17, SweptPending DEF SweepCollects
<1>18. ASSUME NEW r \in Ids, SweepExpires(r) PROVE TypeOK'
  BY <1>18, <1>8 DEF SweepExpires, Collect
<1>19. ASSUME NEW r \in Ids, Cancel(r) PROVE TypeOK'
  BY <1>19 DEF Cancel, Failures
<1>20. ASSUME Restart PROVE TypeOK'
  BY <1>20, WindowAssumption DEF Restart, Failures
<1>21. ASSUME Tick PROVE TypeOK'
  <2>1. untilExpiry' \in [Ids -> 0..Window]
    BY <1>21, DownType DEF Tick
  <2>2. age' \in [Ids -> 0..Window]
    BY <1>21, WindowAssumption DEF Tick
  <2> QED BY <1>21, <2>1, <2>2 DEF Tick
<1>22. ASSUME ClockStep PROVE TypeOK'
  BY <1>22 DEF ClockStep
<1>23. CASE UNCHANGED vars
  BY <1>23 DEF vars
<1> QED
  BY <1>1, <1>2, <1>3, <1>4, <1>5, <1>6, <1>7, <1>9, <1>10, <1>11, <1>12, <1>13,
     <1>14, <1>15, <1>16, <1>17, <1>18, <1>19, <1>20, <1>21, <1>22, <1>23
     DEF Next, Request, Wait, Callback, Sweeper

\* Every variable keeps its type, whatever the interleaving.
THEOREM TypeCorrect == Spec => []TypeOK
  BY TypeInit, TypeStep, PTL DEF Spec

-----------------------------------------------------------------------------
(* Safety. *)

Safe == /\ OnePending /\ DecidedOnce /\ PendingUnruled /\ IdleUntouched
        /\ ResultsRuled /\ RulingsTapped /\ CallersRuled

LEMMA SafeInit == Init => Safe
  BY DEF Init, Safe, OnePending, DecidedOnce, PendingUnruled, IdleUntouched,
         ResultsRuled, RulingsTapped, CallersRuled, ResultOf

\* _expire's critical section keeps what is said of the gate's two maps.
LEMMA SafeExpire ==
    ASSUME IInv, NEW r \in pending, ExpirePending(r), UNCHANGED <<ruling, taps>>
    PROVE  /\ OnePending' /\ DecidedOnce' /\ ResultsRuled' /\ RulingsTapped'
           /\ \A q \in pending' : q \in pending /\ ruling'[q] = "none"
           /\ \A e \in results' : e \in results \/ e.id = r
<1> USE DEF IInv, TypeOK, ExpirePending, Pop
<1>1. \A e \in results' : \/ e \in results
                          \/ e = [id |-> r, status |-> "timeout", seq |-> published]
  BY PublishAdds
<1>2. \A e \in results' : e \in results \/ e.id = r
  BY <1>1
<1>3. OnePending'
  BY DEF OnePending
<1>4. DecidedOnce'
  BY <1>1 DEF DecidedOnce
<1>5. ResultsRuled'
  BY <1>1 DEF ResultsRuled
<1> QED BY <1>2, <1>3, <1>4, <1>5 DEF RulingsTapped, PendingUnruled

LEMMA SafeStep == ASSUME IInv, [Next]_vars PROVE Safe'
<1> USE DEF IInv, TypeOK, gate, clocks, mono, chat
<1>1. ASSUME NEW r \in Ids, Register(r) PROVE Safe'
  <2>1. \A e \in results' : \/ e \in results
                            \/ \E q \in Swept : e = [id |-> q, status |-> "timeout",
                                                   seq |-> published]
    BY <1>1, PublishAdds DEF Register
  <2>2. pending' = {r} /\ r \notin pending
    BY <1>1 DEF Register, Busy, PendingUnruled
  <2>3. OnePending'
    BY <2>2 DEF OnePending
  <2>4. DecidedOnce'
    BY <1>1, <2>1, <2>2, SweptPending
       DEF DecidedOnce, Register, IdleUntouched, ResultOf, OnePending
  <2>5. PendingUnruled'
    BY <1>1, <2>2 DEF PendingUnruled, Register, IdleUntouched
  <2>6. IdleUntouched'
    BY <1>1, <2>1, <2>2, SweptPending
       DEF IdleUntouched, Register, ResultOf, PendingUnruled
  <2>7. ResultsRuled'
    BY <1>1, <2>1 DEF ResultsRuled, Register
  <2>8. RulingsTapped' /\ CallersRuled'
    BY <1>1 DEF RulingsTapped, CallersRuled, Register
  <2> QED BY <2>3, <2>4, <2>5, <2>6, <2>7, <2>8 DEF Safe
<1>2. ASSUME NEW r \in Ids, RefuseBusy(r) PROVE Safe'
  <2>1. \A e \in results' : \/ e \in results
                            \/ \E q \in Swept : e = [id |-> q, status |-> "timeout",
                                                   seq |-> published]
    BY <1>2, PublishAdds DEF RefuseBusy
  <2>2. Swept = {}
    BY <1>2 DEF RefuseBusy, Busy, OnePending, Swept
  <2>3. results' \subseteq results /\ pending' = pending
    BY <1>2, <2>1, <2>2 DEF RefuseBusy
  <2>4. caller'[r] = "busy" /\ \A q \in Ids \ {r} : caller'[q] = caller[q]
    BY <1>2 DEF RefuseBusy
  <2> QED
    BY <1>2, <2>3, <2>4
       DEF Safe, OnePending, DecidedOnce, PendingUnruled, IdleUntouched, ResultsRuled,
           RulingsTapped, CallersRuled, ResultOf, RefuseBusy
<1>3. ASSUME NEW r \in Ids, NEW c,
             caller[r] # "idle", caller' = [caller EXCEPT ![r] = c],
             c = "approved" => ruling[r] = "approved", c # "idle",
             results' \subseteq results, pending' \subseteq pending,
             UNCHANGED <<ruling, taps>>
      PROVE Safe'
  BY <1>3 DEF Safe, OnePending, DecidedOnce, PendingUnruled, IdleUntouched,
              ResultsRuled, RulingsTapped, CallersRuled, ResultOf
<1>4. ASSUME UNCHANGED <<caller, pending, results, ruling>>, taps \subseteq taps'
      PROVE Safe'
  BY <1>4 DEF Safe, OnePending, DecidedOnce, PendingUnruled, IdleUntouched,
              ResultsRuled, RulingsTapped, CallersRuled, ResultOf
<1>5. ASSUME NEW r \in Ids, SendSucceeds(r) PROVE Safe'
  BY <1>5, <1>3 DEF SendSucceeds
<1>6. ASSUME NEW r \in Ids, SendFails(r) PROVE Safe'
  BY <1>6, <1>3 DEF SendFails, Pop
<1>7. ASSUME NEW t \in taps, Decide(t) PROVE Safe'
  <2>0. t.id \in Ids /\ t.button \in Buttons
    OBVIOUS
  <2>1. \A e \in results' :
          \/ e \in results
          \/ e = [id |-> t.id, status |-> Outcome(t.button), seq |-> published]
    BY <1>7, PublishAdds DEF Decide
  <2>2. /\ pending' = pending \ {t.id} /\ t.id \in pending
        /\ UNCHANGED <<caller, taps>>
        /\ ruling' = [ruling EXCEPT ![t.id] = Outcome(t.button)]
    BY <1>7 DEF Decide, Pop
  <2>3. ruling[t.id] = "none" /\ caller[t.id] # "idle"
    BY <2>2 DEF PendingUnruled
  <2>4. OnePending' /\ PendingUnruled'
    BY <2>2, <2>0 DEF OnePending, PendingUnruled
  <2>5. DecidedOnce'
    BY <2>1, <2>2 DEF DecidedOnce
  <2>6. IdleUntouched'
    BY <2>0, <2>1, <2>2, <2>3 DEF IdleUntouched, ResultOf
  <2>7. ResultsRuled'
    BY <2>0, <2>1, <2>2, <2>3 DEF ResultsRuled, Entries
  <2>8. RulingsTapped'
    BY <1>7, <2>0, <2>2 DEF RulingsTapped, Outcome, Decide, Authorised, Buttons
  <2>9. CallersRuled'
    BY <2>0, <2>2, <2>3 DEF CallersRuled
  <2> QED BY <2>4, <2>5, <2>6, <2>7, <2>8, <2>9 DEF Safe
<1>8. ASSUME NEW r \in pending, ExpirePending(r), UNCHANGED <<ruling, taps>>,
             caller[r] # "idle" => caller'[r] # "idle",
             \A q \in Ids : caller'[q] = caller[q] \/ (q = r /\ caller'[q] = "notifying")
      PROVE Safe'
  <2>1. caller[r] # "idle"
    BY DEF PendingUnruled
  <2>2. PendingUnruled'
    BY <1>8, SafeExpire DEF PendingUnruled
  <2>3. IdleUntouched'
    BY <1>8, <2>1, SafeExpire DEF IdleUntouched, ResultOf
  <2>4. CallersRuled'
    BY <1>8 DEF CallersRuled
  <2> QED BY <1>8, <2>2, <2>3, <2>4, SafeExpire DEF Safe
<1>9. ASSUME NEW t \in taps, DecideLate(t) PROVE Safe'
  BY <1>9, <1>8 DEF DecideLate
<1>10. ASSUME NEW r \in Ids, Poll(r) PROVE Safe'
  <2>1. PICK e \in ResultOf(r) : caller' = [caller EXCEPT ![r] = e.status]
    BY <1>10 DEF Poll
  <2>2. e.status \in Decisions /\ (e.status = "approved" => ruling[r] = "approved")
    BY <2>1 DEF ResultOf, ResultsRuled, Entries
  <2> QED BY <1>10, <1>3, <2>1, <2>2 DEF Poll, Collect, Decisions
<1>11. ASSUME NEW r \in Ids, PollVanished(r) PROVE Safe'
  BY <1>11, <1>3 DEF PollVanished
<1>12. ASSUME NEW r \in Ids, DeadlineReached(r) PROVE Safe'
  BY <1>12, <1>3 DEF DeadlineReached
<1>13. ASSUME NEW r \in Ids, WaiterExpires(r) PROVE Safe'
  BY <1>13, <1>8 DEF WaiterExpires
<1>14. ASSUME NEW r \in Ids, WaiterYields(r) PROVE Safe'
  <2>1. CASE \E e \in ResultOf(r) : caller' = [caller EXCEPT ![r] = e.status]
    <3>1. PICK e \in ResultOf(r) : caller' = [caller EXCEPT ![r] = e.status]
      BY <2>1
    <3>2. e.status \in Decisions /\ (e.status = "approved" => ruling[r] = "approved")
      BY <3>1 DEF ResultOf, ResultsRuled, Entries
    <3> QED BY <1>14, <1>3, <3>1, <3>2 DEF WaiterYields, Collect, Decisions
  <2>2. CASE caller' = [caller EXCEPT ![r] = "timeout"]
    BY <1>14, <1>3, <2>2 DEF WaiterYields, Collect
  <2> QED BY <1>14, <2>1, <2>2 DEF WaiterYields
<1>15. ASSUME NEW r \in Ids, WaiterReturns(r) PROVE Safe'
  BY <1>15, <1>3 DEF WaiterReturns, Collect
<1>16. ASSUME NEW r \in Ids, SweepExpires(r) PROVE Safe'
  <2>1. CASE r \in pending
    BY <1>16, <1>8, <2>1 DEF SweepExpires
  <2>2. CASE r \notin pending
    <3>1. results' \subseteq results /\ UNCHANGED <<caller, pending, ruling, taps>>
      BY <1>16, <2>2 DEF SweepExpires, Collect
    <3> QED
      BY <3>1 DEF Safe, OnePending, DecidedOnce, PendingUnruled, IdleUntouched,
                  ResultsRuled, RulingsTapped, CallersRuled, ResultOf
  <2> QED BY <2>1, <2>2
<1>17. ASSUME NEW r \in Ids, Cancel(r) PROVE Safe'
  BY <1>17, <1>3 DEF Cancel, Active
<1>18. ASSUME Restart PROVE Safe'
  <2>1. /\ pending' = {} /\ results' = {} /\ UNCHANGED <<ruling, taps>>
        /\ \A q \in Ids : caller'[q] = caller[q] \/ caller'[q] = "lost"
    BY <1>18 DEF Restart
  <2> QED
    BY <2>1 DEF Safe, OnePending, DecidedOnce, PendingUnruled, IdleUntouched,
                ResultsRuled, RulingsTapped, CallersRuled, ResultOf
<1>19. ASSUME NEW r \in Ids, TelegramPosts(r) PROVE Safe'
  BY <1>19, <1>4 DEF TelegramPosts
<1>20. ASSUME NEW r \in Ids, NEW button \in Buttons, NEW sender \in Senders,
              Tap(r, button, sender)
       PROVE Safe'
  BY <1>20, <1>4 DEF Tap
<1>21. ASSUME NEW e \in edits, EditMessage(e) PROVE Safe'
  BY <1>21, <1>4 DEF EditMessage
<1>22. CASE SweepCollects \/ Tick \/ ClockStep \/ UNCHANGED vars
  BY <1>22, <1>4 DEF SweepCollects, Tick, ClockStep, vars
<1> QED
  BY <1>1, <1>2, <1>5, <1>6, <1>7, <1>9, <1>10, <1>11, <1>12, <1>13, <1>14, <1>15,
     <1>16, <1>17, <1>18, <1>19, <1>20, <1>21, <1>22
     DEF Next, Request, Wait, Callback, Sweeper

LEMMA Inductive == Spec => []IInv
<1>1. Init => IInv
  BY TypeInit, SafeInit DEF IInv, Safe
<1>2. IInv /\ [Next]_vars => IInv'
  BY TypeStep, SafeStep DEF IInv, Safe
<1> QED BY <1>1, <1>2, PTL DEF Spec

\* One live question at a time, for any number of scans, sweeps and restarts.
THEOREM OneQuestion == Spec => []OnePending
<1>1. IInv => OnePending
  BY DEF IInv
<1> QED BY <1>1, Inductive, PTL

\* A request has at most one outcome waiting, and none while still pending.
THEOREM OneOutcome == Spec => []DecidedOnce
<1>1. IInv => DecidedOnce
  BY DEF IInv
<1> QED BY <1>1, Inductive, PTL

\* Every approval a scan is handed is one its owner gave by a tap the gate
\* accepted: clock steps, restarts, evictions and races can lose an approval
\* but never make one.
THEOREM NoInventedApproval == Spec => []ApprovedByOwner
<1>1. IInv => ApprovedByOwner
  BY DEF IInv, CallersRuled, RulingsTapped, ApprovedByOwner
<1> QED BY <1>1, Inductive, PTL

\* The invariant the run checks, for any set of requests, window and eviction bound.
THEOREM GateIsSafe == Spec => []GateSafe
BY TypeCorrect, OneQuestion, OneOutcome, NoInventedApproval, PTL DEF GateSafe
-----------------------------------------------------------------------------
(***************************************************************************)
(* The chat, the full window and the contract.  A result may be evicted    *)
(* while its scan still waits: MaxRetained others would have to be         *)
(* published between two turns of that scan's polling loop.  The facts     *)
(* below hold as long as none is, which the cap is there for.              *)
(***************************************************************************)
Asking == {"sending", "waiting", "expiring"}

\* The step drops no result its scan still has to collect, except one a sweep
\* has listed as expired.
NoneEvicted ==
    \A e \in results : \/ caller[e.id] \notin Asking \/ caller'[e.id] \notin Asking
                       \/ e.id \in listed \/ e \in results'

\* A request that has yet to ask has left no trace, and a sweep expires only
\* what it has listed.
IdleSilent ==
    /\ \A r \in Ids : caller[r] = "idle" => message[r] = "unsent" /\ r \notin listed
    /\ \A e \in edits : caller[e.id] # "idle"
    /\ sweep \subseteq listed

\* Every word about a request says what was ruled: an edit on its way, a label
\* shown, a result waiting, an answer given.
EditsRuled ==
    \A e \in edits :
        IF e.label = "expired" THEN ruling[e.id] = "none" /\ e.id \notin pending
        ELSE ruling[e.id] = e.label

MessagesRuled ==
    \A r \in Ids :
        /\ message[r] = "expired" => ruling[r] = "none" /\ r \notin pending
        /\ message[r] \in {"approved", "skipped"} => ruling[r] = message[r]

ResultsTrue ==
    \A e \in results : IF e.status = "timeout" THEN ruling[e.id] = "none"
                       ELSE ruling[e.id] = e.status

CallersTrue ==
    \A r \in Ids :
        /\ caller[r] \in {"approved", "skipped"} => ruling[r] = caller[r]
        /\ caller[r] = "notifying" => ruling[r] = "none" /\ r \notin pending
        /\ caller[r] = "timeout" =>
             r \notin pending /\ (ruling[r] = "none" \/ r \in listed)
        /\ caller[r] = "busy" => r \notin pending /\ ruling[r] = "none"

\* A ruling stays where its scan will find it.
RulingKept ==
    \A r \in Ids : caller[r] \in Asking /\ r \notin pending /\ r \notin listed
                     /\ ruling[r] # "none" => ResultOf(r) # {}

SeqsBelow == \A e \in results : e.seq < published

Words == /\ IdleSilent /\ EditsRuled /\ MessagesRuled /\ ResultsTrue /\ CallersTrue
         /\ RulingKept /\ SeqsBelow

\* While the wall clock is left alone the two clocks agree, so nothing is taken
\* for expired before its window is over.
ClocksAgree == \A r \in pending : untilExpiry[r] + age[r] = Window

ListedExpired == \A r \in listed : age[r] >= Window /\ ruling[r] = "none"

TimeoutsFull ==
    /\ \A e \in results : e.status = "timeout" => age[e.id] >= Window
    /\ \A r \in Ids :
         /\ caller[r] \in {"timeout", "notifying", "expiring"} => age[r] >= Window
         /\ caller[r] \in Asking /\ r \notin pending =>
              ResultOf(r) # {} \/ age[r] >= Window

Times == stepped = 0 => ClocksAgree /\ ListedExpired /\ TimeoutsFull

\* What is published is retained: it is the newest, and at least one is kept.
LEMMA NewestStays ==
    ASSUME TypeOK, SeqsBelow, NEW r, NEW status, Publish({r}, status)
    PROVE  [id |-> r, status |-> status, seq |-> published] \in results'
<1> DEFINE e == [id |-> r, status |-> status, seq |-> published]
           all == results \cup {[id |-> q, status |-> status, seq |-> published] : q \in {r}}
<1>1. {f \in all : f.seq > e.seq} = {}
  <2>1. \A f \in results : ~(f.seq > published)
    BY DEF SeqsBelow, TypeOK, Entries
  <2> QED BY <2>1 DEF TypeOK
<1>2. Cardinality({f \in all : f.seq > e.seq}) = 0
  BY <1>1, FS_EmptySet
<1>3. e \in all
  OBVIOUS
<1> HIDE DEF all
<1>4. e \in Retain(all)
  BY <1>2, <1>3, RetainedAssumption DEF Retain
<1> QED BY <1>4 DEF Publish, all

\* Insertion numbers stay below the next one.
LEMMA PublishBelow ==
    ASSUME TypeOK, SeqsBelow, NEW ids, NEW status, Publish(ids, status)
    PROVE  SeqsBelow'
<1>1. published' \in Nat /\ published' >= published
  BY DEF Publish, TypeOK
<1>2. \A e \in results : e.seq < published'
  BY <1>1 DEF SeqsBelow, TypeOK, Entries
<1>3. ASSUME NEW r \in ids PROVE published < published'
  BY DEF Publish, TypeOK
<1> QED BY <1>2, <1>3, PublishAdds DEF SeqsBelow

LEMMA WordsStep ==
  ASSUME IInv, Words, Times, [NoneEvicted]_vars, [Next]_vars PROVE Words'
<1> USE WindowAssumption, OutcomeType DEF IInv, TypeOK, gate, clocks, mono, chat, sweeping,
        OnePending, DecidedOnce, PendingUnruled, IdleUntouched, ResultOf, Asking,
        Entries, Swept, Expired, Words, Times, NoneEvicted, Active, Decisions, Failures,
        IdleSilent, EditsRuled, MessagesRuled, ResultsTrue, CallersTrue, RulingKept,
        SeqsBelow, ClocksAgree, ListedExpired, TimeoutsFull
<1>0. NoneEvicted
  BY DEF vars
<1>1. ASSUME NEW r \in Ids, Register(r)
      PROVE  Words'
  <2>1. \A e \in results' :
          \/ e \in results
          \/ \E q \in Swept : e = [id |-> q, status |-> "timeout", seq |-> published]
    BY <1>1, PublishAdds DEF Register
  <2>3. SeqsBelow'
    BY <1>1, PublishBelow DEF Register
  <2>4. IdleSilent'
    BY <1>0, <1>1, <2>1, <2>3 DEF Register
  <2>5. EditsRuled'
    BY <1>0, <1>1, <2>1, <2>3 DEF Register
  <2>6. MessagesRuled'
    BY <1>0, <1>1, <2>1, <2>3 DEF Register
  <2>7. ResultsTrue'
    BY <1>0, <1>1, <2>1, <2>3 DEF Register
  <2>8. CallersTrue'
    BY <1>0, <1>1, <2>1, <2>3 DEF Register
  <2>9. RulingKept'
    BY <1>0, <1>1, <2>1, <2>3 DEF Register
  <2> QED BY <2>4, <2>5, <2>6, <2>7, <2>8, <2>9, <2>3
<1>2. ASSUME NEW r \in Ids, RefuseBusy(r)
      PROVE  Words'
  <2>1. \A e \in results' :
          \/ e \in results
          \/ \E q \in Swept : e = [id |-> q, status |-> "timeout", seq |-> published]
    BY <1>2, PublishAdds DEF RefuseBusy
  <2>3. SeqsBelow'
    BY <1>2, PublishBelow DEF RefuseBusy
  <2>4. IdleSilent'
    BY <1>0, <1>2, <2>1, <2>3 DEF RefuseBusy
  <2>5. EditsRuled'
    BY <1>0, <1>2, <2>1, <2>3 DEF RefuseBusy
  <2>6. MessagesRuled'
    BY <1>0, <1>2, <2>1, <2>3 DEF RefuseBusy
  <2>7. ResultsTrue'
    BY <1>0, <1>2, <2>1, <2>3 DEF RefuseBusy
  <2>8. CallersTrue'
    BY <1>0, <1>2, <2>1, <2>3 DEF RefuseBusy
  <2>9. RulingKept'
    BY <1>0, <1>2, <2>1, <2>3 DEF RefuseBusy
  <2> QED BY <2>4, <2>5, <2>6, <2>7, <2>8, <2>9, <2>3
<1>3. ASSUME NEW r \in Ids, TelegramPosts(r)
      PROVE  Words'
  BY <1>3 DEF TelegramPosts
<1>4. ASSUME NEW r \in Ids, SendSucceeds(r)
      PROVE  Words'
  BY <1>4 DEF SendSucceeds
<1>5. ASSUME NEW r \in Ids, SendFails(r)
      PROVE  Words'
  BY <1>5 DEF SendFails, Pop
<1>6. ASSUME NEW r \in Ids, NEW b \in Buttons, NEW s \in Senders, Tap(r, b, s)
      PROVE  Words'
  BY <1>6 DEF Tap
<1>7. ASSUME NEW t \in taps, Decide(t)
      PROVE  Words'
  <2>1. \A e \in results' :
          \/ e \in results
          \/ \E q \in {t.id} : e = [id |-> q, status |-> Outcome(t.button), seq |-> published]
    BY <1>7, PublishAdds DEF Decide, Pop, Edit
  <2>2. [id |-> t.id, status |-> Outcome(t.button), seq |-> published] \in results'
    BY <1>7, NewestStays DEF Decide
  <2>3. SeqsBelow'
    BY <1>7, PublishBelow DEF Decide, Pop, Edit
  <2>4. IdleSilent'
    BY <1>0, <1>7, <2>1, <2>2, <2>3 DEF Decide, Pop, Edit
  <2>5. EditsRuled'
    BY <1>0, <1>7, <2>1, <2>2, <2>3 DEF Decide, Pop, Edit
  <2>6. MessagesRuled'
    BY <1>0, <1>7, <2>1, <2>2, <2>3 DEF Decide, Pop, Edit
  <2>7. ResultsTrue'
    BY <1>0, <1>7, <2>1, <2>2, <2>3 DEF Decide, Pop, Edit
  <2>8. CallersTrue'
    BY <1>0, <1>7, <2>1, <2>2, <2>3 DEF Decide, Pop, Edit
  <2>9. RulingKept'
    BY <1>0, <1>7, <2>1, <2>2, <2>3 DEF Decide, Pop, Edit
  <2> QED BY <2>4, <2>5, <2>6, <2>7, <2>8, <2>9, <2>3
<1>8. ASSUME NEW t \in taps, DecideLate(t)
      PROVE  Words'
  <2>1. \A e \in results' :
          \/ e \in results
          \/ \E q \in {t.id} : e = [id |-> q, status |-> "timeout", seq |-> published]
    BY <1>8, PublishAdds DEF DecideLate, ExpirePending, Pop, Edit
  <2>3. SeqsBelow'
    BY <1>8, PublishBelow DEF DecideLate, ExpirePending, Pop, Edit
  <2>4. IdleSilent'
    BY <1>0, <1>8, <2>1, <2>3 DEF DecideLate, ExpirePending, Pop, Edit
  <2>5. EditsRuled'
    BY <1>0, <1>8, <2>1, <2>3 DEF DecideLate, ExpirePending, Pop, Edit
  <2>6. MessagesRuled'
    BY <1>0, <1>8, <2>1, <2>3 DEF DecideLate, ExpirePending, Pop, Edit
  <2>7. ResultsTrue'
    BY <1>0, <1>8, <2>1, <2>3 DEF DecideLate, ExpirePending, Pop, Edit
  <2>8. CallersTrue'
    BY <1>0, <1>8, <2>1, <2>3 DEF DecideLate, ExpirePending, Pop, Edit
  <2>9. RulingKept'
    BY <1>0, <1>8, <2>1, <2>3 DEF DecideLate, ExpirePending, Pop, Edit
  <2> QED BY <2>4, <2>5, <2>6, <2>7, <2>8, <2>9, <2>3
<1>9. ASSUME NEW d \in edits, EditMessage(d)
      PROVE  Words'
  BY <1>9 DEF EditMessage
<1>10. ASSUME NEW r \in Ids, Poll(r)
      PROVE  Words'
  BY <1>10 DEF Poll, Collect
<1>11. ASSUME NEW r \in Ids, PollVanished(r)
      PROVE  Words'
  BY <1>11 DEF PollVanished
<1>12. ASSUME NEW r \in Ids, DeadlineReached(r)
      PROVE  Words'
  BY <1>12 DEF DeadlineReached, DeadlinePassed
<1>13. ASSUME NEW r \in Ids, WaiterExpires(r)
      PROVE  Words'
  <2>1. \A e \in results' :
          \/ e \in results
          \/ \E q \in {r} : e = [id |-> q, status |-> "timeout", seq |-> published]
    BY <1>13, PublishAdds DEF WaiterExpires, ExpirePending, Pop, Edit
  <2>3. SeqsBelow'
    BY <1>13, PublishBelow DEF WaiterExpires, ExpirePending, Pop, Edit
  <2>4. IdleSilent'
    BY <1>0, <1>13, <2>1, <2>3 DEF WaiterExpires, ExpirePending, Pop, Edit
  <2>5. EditsRuled'
    BY <1>0, <1>13, <2>1, <2>3 DEF WaiterExpires, ExpirePending, Pop, Edit
  <2>6. MessagesRuled'
    BY <1>0, <1>13, <2>1, <2>3 DEF WaiterExpires, ExpirePending, Pop, Edit
  <2>7. ResultsTrue'
    BY <1>0, <1>13, <2>1, <2>3 DEF WaiterExpires, ExpirePending, Pop, Edit
  <2>8. CallersTrue'
    BY <1>0, <1>13, <2>1, <2>3 DEF WaiterExpires, ExpirePending, Pop, Edit
  <2>9. RulingKept'
    BY <1>0, <1>13, <2>1, <2>3 DEF WaiterExpires, ExpirePending, Pop, Edit
  <2> QED BY <2>4, <2>5, <2>6, <2>7, <2>8, <2>9, <2>3
<1>14. ASSUME NEW r \in Ids, WaiterYields(r)
      PROVE  Words'
  BY <1>14 DEF WaiterYields, Collect
<1>15. ASSUME NEW r \in Ids, WaiterReturns(r)
      PROVE  Words'
  BY <1>15 DEF WaiterReturns, Collect
<1>16. ASSUME SweepCollects
      PROVE  Words'
  BY <1>16 DEF SweepCollects
<1>17. ASSUME NEW r \in Ids, SweepExpires(r), r \notin pending
      PROVE  Words'
  BY <1>17 DEF SweepExpires, Collect
<1>18. ASSUME NEW r \in Ids, SweepExpires(r), r \in pending
      PROVE  Words'
  <2>1. \A e \in results' :
          \/ e \in results
          \/ \E q \in {r} : e = [id |-> q, status |-> "timeout", seq |-> published]
    BY <1>18, PublishAdds DEF SweepExpires, ExpirePending, Pop, Edit
  <2>3. SeqsBelow'
    BY <1>18, PublishBelow DEF SweepExpires, ExpirePending, Pop, Edit
  <2>4. IdleSilent'
    BY <1>0, <1>18, <2>1, <2>3 DEF SweepExpires, ExpirePending, Pop, Edit
  <2>5. EditsRuled'
    BY <1>0, <1>18, <2>1, <2>3 DEF SweepExpires, ExpirePending, Pop, Edit
  <2>6. MessagesRuled'
    BY <1>0, <1>18, <2>1, <2>3 DEF SweepExpires, ExpirePending, Pop, Edit
  <2>7. ResultsTrue'
    BY <1>0, <1>18, <2>1, <2>3 DEF SweepExpires, ExpirePending, Pop, Edit
  <2>8. CallersTrue'
    BY <1>0, <1>18, <2>1, <2>3 DEF SweepExpires, ExpirePending, Pop, Edit
  <2>9. RulingKept'
    BY <1>0, <1>18, <2>1, <2>3 DEF SweepExpires, ExpirePending, Pop, Edit
  <2> QED BY <2>4, <2>5, <2>6, <2>7, <2>8, <2>9, <2>3
<1>19. ASSUME NEW r \in Ids, Cancel(r)
      PROVE  Words'
  BY <1>19 DEF Cancel
<1>20. ASSUME Restart
      PROVE  Words'
  BY <1>20 DEF Restart
<1>21. ASSUME Tick
      PROVE  Words'
  BY <1>21 DEF Tick, Down
<1>22. ASSUME ClockStep
      PROVE  Words'
  BY <1>22 DEF ClockStep
<1>23. ASSUME UNCHANGED vars
      PROVE  Words'
  BY <1>23 DEF vars
<1> QED
  BY <1>1, <1>2, <1>3, <1>4, <1>5, <1>6, <1>7, <1>8, <1>9, <1>10, <1>11, <1>12, <1>13, <1>14, <1>15, <1>16, <1>17, <1>18, <1>19, <1>20, <1>21, <1>22, <1>23
     DEF Next, Request, Wait, Callback, Sweeper

LEMMA TimesStep ==
  ASSUME IInv, Words, Times, [NoneEvicted]_vars, [Next]_vars PROVE Times'
<1> USE WindowAssumption, OutcomeType DEF IInv, TypeOK, gate, clocks, mono, chat, sweeping,
        OnePending, DecidedOnce, PendingUnruled, IdleUntouched, ResultOf, Asking,
        Entries, Swept, Expired, Words, Times, NoneEvicted, Active, Decisions, Failures,
        IdleSilent, EditsRuled, MessagesRuled, ResultsTrue, CallersTrue, RulingKept,
        SeqsBelow, ClocksAgree, ListedExpired, TimeoutsFull
<1>0. NoneEvicted
  BY DEF vars
<1>1. ASSUME NEW r \in Ids, Register(r)
      PROVE  Times'
  <2>1. \A e \in results' :
          \/ e \in results
          \/ \E q \in Swept : e = [id |-> q, status |-> "timeout", seq |-> published]
    BY <1>1, PublishAdds DEF Register
  <2>4. (stepped = 0 => ClocksAgree)'
    BY <1>0, <1>1, <2>1 DEF Register
  <2>5. (stepped = 0 => ListedExpired)'
    BY <1>0, <1>1, <2>1 DEF Register
  <2>6. (stepped = 0 => TimeoutsFull)'
    BY <1>0, <1>1, <2>1 DEF Register
  <2> QED BY <2>4, <2>5, <2>6
<1>2. ASSUME NEW r \in Ids, RefuseBusy(r)
      PROVE  Times'
  <2>1. \A e \in results' :
          \/ e \in results
          \/ \E q \in Swept : e = [id |-> q, status |-> "timeout", seq |-> published]
    BY <1>2, PublishAdds DEF RefuseBusy
  <2>4. (stepped = 0 => ClocksAgree)'
    BY <1>0, <1>2, <2>1 DEF RefuseBusy
  <2>5. (stepped = 0 => ListedExpired)'
    BY <1>0, <1>2, <2>1 DEF RefuseBusy
  <2>6. (stepped = 0 => TimeoutsFull)'
    BY <1>0, <1>2, <2>1 DEF RefuseBusy
  <2> QED BY <2>4, <2>5, <2>6
<1>3. ASSUME NEW r \in Ids, TelegramPosts(r)
      PROVE  Times'
  BY <1>3 DEF TelegramPosts
<1>4. ASSUME NEW r \in Ids, SendSucceeds(r)
      PROVE  Times'
  BY <1>4 DEF SendSucceeds
<1>5. ASSUME NEW r \in Ids, SendFails(r)
      PROVE  Times'
  BY <1>5 DEF SendFails, Pop
<1>6. ASSUME NEW r \in Ids, NEW b \in Buttons, NEW s \in Senders, Tap(r, b, s)
      PROVE  Times'
  BY <1>6 DEF Tap
<1>7. ASSUME NEW t \in taps, Decide(t)
      PROVE  Times'
  <2>1. \A e \in results' :
          \/ e \in results
          \/ \E q \in {t.id} : e = [id |-> q, status |-> Outcome(t.button), seq |-> published]
    BY <1>7, PublishAdds DEF Decide, Pop, Edit
  <2>2. [id |-> t.id, status |-> Outcome(t.button), seq |-> published] \in results'
    BY <1>7, NewestStays DEF Decide
  <2>4. (stepped = 0 => ClocksAgree)'
    BY <1>0, <1>7, <2>1, <2>2 DEF Decide, Pop, Edit
  <2>5. (stepped = 0 => ListedExpired)'
    BY <1>0, <1>7, <2>1, <2>2 DEF Decide, Pop, Edit
  <2>6. (stepped = 0 => TimeoutsFull)'
    BY <1>0, <1>7, <2>1, <2>2 DEF Decide, Pop, Edit
  <2> QED BY <2>4, <2>5, <2>6
<1>8. ASSUME NEW t \in taps, DecideLate(t)
      PROVE  Times'
  <2>1. \A e \in results' :
          \/ e \in results
          \/ \E q \in {t.id} : e = [id |-> q, status |-> "timeout", seq |-> published]
    BY <1>8, PublishAdds DEF DecideLate, ExpirePending, Pop, Edit
  <2>4. (stepped = 0 => ClocksAgree)'
    BY <1>0, <1>8, <2>1 DEF DecideLate, ExpirePending, Pop, Edit
  <2>5. (stepped = 0 => ListedExpired)'
    BY <1>0, <1>8, <2>1 DEF DecideLate, ExpirePending, Pop, Edit
  <2>6. (stepped = 0 => TimeoutsFull)'
    BY <1>0, <1>8, <2>1 DEF DecideLate, ExpirePending, Pop, Edit
  <2> QED BY <2>4, <2>5, <2>6
<1>9. ASSUME NEW d \in edits, EditMessage(d)
      PROVE  Times'
  BY <1>9 DEF EditMessage
<1>10. ASSUME NEW r \in Ids, Poll(r)
      PROVE  Times'
  BY <1>10 DEF Poll, Collect
<1>11. ASSUME NEW r \in Ids, PollVanished(r)
      PROVE  Times'
  BY <1>11 DEF PollVanished
<1>12. ASSUME NEW r \in Ids, DeadlineReached(r)
      PROVE  Times'
  BY <1>12 DEF DeadlineReached, DeadlinePassed
<1>13. ASSUME NEW r \in Ids, WaiterExpires(r)
      PROVE  Times'
  <2>1. \A e \in results' :
          \/ e \in results
          \/ \E q \in {r} : e = [id |-> q, status |-> "timeout", seq |-> published]
    BY <1>13, PublishAdds DEF WaiterExpires, ExpirePending, Pop, Edit
  <2>4. (stepped = 0 => ClocksAgree)'
    BY <1>0, <1>13, <2>1 DEF WaiterExpires, ExpirePending, Pop, Edit
  <2>5. (stepped = 0 => ListedExpired)'
    BY <1>0, <1>13, <2>1 DEF WaiterExpires, ExpirePending, Pop, Edit
  <2>6. (stepped = 0 => TimeoutsFull)'
    BY <1>0, <1>13, <2>1 DEF WaiterExpires, ExpirePending, Pop, Edit
  <2> QED BY <2>4, <2>5, <2>6
<1>14. ASSUME NEW r \in Ids, WaiterYields(r)
      PROVE  Times'
  BY <1>14 DEF WaiterYields, Collect
<1>15. ASSUME NEW r \in Ids, WaiterReturns(r)
      PROVE  Times'
  BY <1>15 DEF WaiterReturns, Collect
<1>16. ASSUME SweepCollects
      PROVE  Times'
  BY <1>16 DEF SweepCollects
<1>17. ASSUME NEW r \in Ids, SweepExpires(r), r \notin pending
      PROVE  Times'
  BY <1>17 DEF SweepExpires, Collect
<1>18. ASSUME NEW r \in Ids, SweepExpires(r), r \in pending
      PROVE  Times'
  <2>1. \A e \in results' :
          \/ e \in results
          \/ \E q \in {r} : e = [id |-> q, status |-> "timeout", seq |-> published]
    BY <1>18, PublishAdds DEF SweepExpires, ExpirePending, Pop, Edit
  <2>4. (stepped = 0 => ClocksAgree)'
    BY <1>0, <1>18, <2>1 DEF SweepExpires, ExpirePending, Pop, Edit
  <2>5. (stepped = 0 => ListedExpired)'
    BY <1>0, <1>18, <2>1 DEF SweepExpires, ExpirePending, Pop, Edit
  <2>6. (stepped = 0 => TimeoutsFull)'
    BY <1>0, <1>18, <2>1 DEF SweepExpires, ExpirePending, Pop, Edit
  <2> QED BY <2>4, <2>5, <2>6
<1>19. ASSUME NEW r \in Ids, Cancel(r)
      PROVE  Times'
  BY <1>19 DEF Cancel
<1>20. ASSUME Restart
      PROVE  Times'
  BY <1>20 DEF Restart
<1>21. ASSUME Tick
      PROVE  Times'
  BY <1>21 DEF Tick, Down
<1>22. ASSUME ClockStep
      PROVE  Times'
  BY <1>22 DEF ClockStep
<1>23. ASSUME UNCHANGED vars
      PROVE  Times'
  BY <1>23 DEF vars
<1> QED
  BY <1>1, <1>2, <1>3, <1>4, <1>5, <1>6, <1>7, <1>8, <1>9, <1>10, <1>11, <1>12, <1>13, <1>14, <1>15, <1>16, <1>17, <1>18, <1>19, <1>20, <1>21, <1>22, <1>23
     DEF Next, Request, Wait, Callback, Sweeper

-----------------------------------------------------------------------------
LEMMA TruthInit == Init => Words /\ Times
  BY DEF Init, Words, IdleSilent, EditsRuled, MessagesRuled, ResultsTrue, CallersTrue,
         RulingKept, SeqsBelow, Times, ClocksAgree, ListedExpired, TimeoutsFull, Asking

LEMMA TruthInductive == Spec /\ [][NoneEvicted]_vars => [](IInv /\ Words /\ Times)
<1>1. Init => IInv /\ Words /\ Times
  BY TypeInit, SafeInit, TruthInit DEF IInv, Safe
<1>2. IInv /\ Words /\ Times /\ [Next]_vars /\ [NoneEvicted]_vars
        => (IInv /\ Words /\ Times)'
  <2>1. IInv /\ [Next]_vars => IInv'
    BY TypeStep, SafeStep DEF IInv, Safe
  <2> QED BY <2>1, WordsStep, TimesStep
<1> QED BY <1>1, <1>2, PTL DEF Spec

\* The chat tells the owner what the scan was told: no label ends on a message
\* whose scan was given another outcome, unless a step of the clock revived a
\* request a sweep had listed.
THEOREM ChatTellsWhatWasTold == Spec /\ [][NoneEvicted]_vars => []ChatAgrees
<1>1. IInv /\ Words /\ Times => ChatAgrees
  BY DEF IInv, TypeOK, Words, Times, MessagesRuled, CallersTrue, ListedExpired,
         ChatAgrees, Decisions
<1> QED BY <1>1, TruthInductive, PTL

\* A scan is told its request timed out only when its whole window is over,
\* while nobody steps the wall clock.
THEOREM WholeWindow == Spec /\ [][NoneEvicted]_vars => []FullWindow
<1>1. Times => FullWindow
  BY DEF Times, TimeoutsFull, FullWindow
<1> QED BY <1>1, TruthInductive, PTL

-----------------------------------------------------------------------------
(* The contract, step by step. *)

LEMMA ContractInit == Init => Contract!CInit
  BY DEF Init, Contract!CInit, Question, ReportOf, Decisions, Failures

\* A step that leaves a request's place in the gate alone leaves its question
\* and its report.
LEMMA Unmoved ==
    ASSUME TypeOK, UNCHANGED <<pending, ruling, listed>>,
           \A q \in Ids : caller'[q] = caller[q] \/ {caller[q], caller'[q]} \subseteq Active
    PROVE  UNCHANGED Contract!cvars
<1>1. ASSUME NEW q \in Ids PROVE Question'[q] = Question[q] /\ ReportOf'[q] = ReportOf[q]
  BY DEF Question, ReportOf, Active, Decisions, Failures
<1>2. Question' = Question
  BY <1>1 DEF Question
<1>3. ReportOf' = ReportOf
  BY <1>1 DEF ReportOf
<1> QED BY <1>2, <1>3 DEF Contract!cvars

\* A step about one request moves no other question and no other report.
LEMMA OthersUnmoved ==
    ASSUME NEW r \in Ids,
           \A q \in Ids \ {r} : /\ q \in pending' <=> q \in pending
                                /\ ruling'[q] = ruling[q] /\ caller'[q] = caller[q]
    PROVE  /\ Question' = [Question EXCEPT ![r] = Question'[r]]
           /\ ReportOf' = [ReportOf EXCEPT ![r] = ReportOf'[r]]
<1>1. ASSUME NEW q \in Ids \ {r}
      PROVE  Question'[q] = Question[q] /\ ReportOf'[q] = ReportOf[q]
  BY <1>1 DEF Question, ReportOf
<1>2. Question' = [Question EXCEPT ![r] = Question'[r]]
  <2>1. Question = [q \in Ids |-> Question[q]] /\ Question' = [q \in Ids |-> Question'[q]]
    BY DEF Question
  <2> QED BY <1>1, <2>1
<1>3. ReportOf' = [ReportOf EXCEPT ![r] = ReportOf'[r]]
  BY <1>1 DEF ReportOf
<1> QED BY <1>2, <1>3

\* What the contract sees of a request that is open, or gone unruled.
LEMMA QuestionOf ==
    ASSUME IInv, CallersTrue, NEW r \in Ids
    PROVE  /\ r \in pending => Question[r] = "asking"
           /\ r \notin pending => Question[r] # "asking"
           /\ r \notin pending /\ ruling[r] # "none" =>
                Question[r] = ruling[r] /\ ruling[r] \in Contract!Settled
           /\ r \notin pending /\ ruling[r] = "none" /\ caller[r] \notin {"idle", "busy"} =>
                Question[r] = "closed"
           /\ caller[r] \in {"idle", "busy"} => Question[r] = "new"
           /\ caller[r] \in {"idle"} \cup Active <=> ReportOf[r] = "none"
<1>1. ReportOf[r] = IF caller[r] \in Decisions THEN caller[r]
                    ELSE IF caller[r] \in Failures THEN "failed" ELSE "none"
  BY DEF ReportOf
<1>2. Question[r] = IF r \in pending THEN "asking"
                    ELSE IF ruling[r] # "none" THEN ruling[r]
                    ELSE IF caller[r] \in {"idle", "busy"} THEN "new" ELSE "closed"
  BY DEF Question
<1> QED
  BY <1>1, <1>2 DEF IInv, TypeOK, CallersTrue, IdleUntouched, PendingUnruled, Contract!Settled,
                    Decisions, Failures, Active

\* A pending request is not ruled on and has a scan that asked: it leaves
\* unruled, and its question closes.
LEMMA Closes ==
    ASSUME IInv, CallersTrue, NEW r \in pending, pending' = pending \ {r},
           UNCHANGED <<ruling, listed>>,
           \A q \in Ids \ {r} : caller'[q] = caller[q],
           caller'[r] = caller[r] \/ {caller[r], caller'[r]} \subseteq Active
    PROVE  Contract!Close(r)
<1> USE DEF IInv, TypeOK
<1>1. r \in Ids /\ Question[r] = "asking"
  BY QuestionOf
<1>2. ReportOf'[r] = ReportOf[r]
  BY <1>1 DEF ReportOf, Active, Decisions, Failures
<1>3. ruling'[r] = "none" /\ caller'[r] \notin {"idle", "busy"}
  BY <1>1 DEF PendingUnruled, CallersTrue, Active
<1>4. Question'[r] = "closed"
  BY <1>1, <1>3 DEF Question
<1>5. Question' = [Question EXCEPT ![r] = "closed"]
  BY <1>1, <1>4, OthersUnmoved
<1>6. ReportOf' = ReportOf
  BY <1>1, <1>2, OthersUnmoved DEF ReportOf
<1> QED BY <1>1, <1>5, <1>6 DEF Contract!Close

\* A scan that had no answer gets one that fits its question.
LEMMA Reports ==
    ASSUME IInv, CallersTrue, NEW r \in Ids, NEW c \in Decisions,
           caller[r] \in Active, r \notin pending,
           caller' = [caller EXCEPT ![r] = c], UNCHANGED <<pending, ruling, listed>>,
           \/ c = ruling[r]
           \/ c = "timeout" /\ (ruling[r] = "none" \/ r \in listed)
    PROVE  Contract!Report(r)
<1> USE DEF IInv, TypeOK
<1>1. ReportOf[r] = "none" /\ caller[r] \notin {"idle", "busy"}
  BY QuestionOf DEF Active
<1>2. ReportOf'[r] = c
  BY DEF ReportOf
<1>3. Question'[r] = Question[r]
  BY <1>1 DEF Question, Decisions
<1>4. ReportOf' = [ReportOf EXCEPT ![r] = c]
  BY <1>2, OthersUnmoved
<1>5. Question' = Question
  BY <1>3, OthersUnmoved DEF Question
<1>6. CASE c = ruling[r]
  <2>1. ruling[r] \in Contract!Settled /\ Question[r] = ruling[r]
    BY <1>6, QuestionOf DEF Decisions
  <2> QED BY <1>1, <1>4, <1>5, <1>6, <2>1 DEF Contract!Report
<1>7. CASE c = "timeout" /\ (ruling[r] = "none" \/ r \in listed)
  <2>1. \/ Question[r] = "closed"
        \/ Question[r] \in Contract!Settled /\ r \in listed
    BY <1>1, <1>7, QuestionOf
  <2> QED BY <1>1, <1>4, <1>5, <1>7, <2>1 DEF Contract!Report
<1> QED BY <1>6, <1>7

\* A scan that had no answer is turned away or gives up, its request with it or
\* not.
LEMMA Drops ==
    ASSUME IInv, CallersTrue, NEW r \in Ids, NEW c \in Failures,
           caller[r] \in {"idle"} \cup Active, caller[r] = "idle" => c = "busy",
           c = "busy" => caller[r] = "idle",
           caller' = [caller EXCEPT ![r] = c],
           pending' = pending \/ pending' = pending \ {r}, UNCHANGED <<ruling, listed>>
    PROVE  Contract!Drop(r)
<1> USE DEF IInv, TypeOK
<1>1. ReportOf[r] = "none"
  BY QuestionOf
<1>2. ReportOf'[r] = "failed"
  BY DEF ReportOf, Decisions, Failures
<1>3. ReportOf' = [ReportOf EXCEPT ![r] = "failed"]
  BY <1>2, OthersUnmoved
<1>4. Question' = [Question EXCEPT ![r] = Question'[r]]
  BY OthersUnmoved
<1>5. \/ Question'[r] = Question[r]
      \/ Question[r] = "asking" /\ Question'[r] = "closed"
  BY DEF Question, Failures, Active, PendingUnruled
<1>6. Question'[r] = Question[r] => Question' = Question
  BY <1>4 DEF Question
<1> QED BY <1>1, <1>3, <1>4, <1>5, <1>6 DEF Contract!Drop

LEMMA ContractStep ==
    ASSUME IInv, Words, [Next]_vars
    PROVE  [Contract!CNext]_(Contract!cvars)
<1> USE DEF IInv, TypeOK, Words, gate, clocks, mono, chat, sweeping
<1>1. ASSUME NEW r \in Ids, Register(r) PROVE Contract!Ask(r)
  <2>1. /\ caller[r] = "idle" /\ pending \ Swept = {}
        /\ pending' = {r} /\ caller' = [caller EXCEPT ![r] = "sending"]
        /\ UNCHANGED <<ruling, listed>>
    BY <1>1 DEF Register, Busy
  <2>2. Question[r] = "new" /\ ReportOf[r] = "none"
    BY <2>1, QuestionOf
  <2>3. \A q \in Ids : Question'[q] = IF q = r THEN "asking"
                                      ELSE IF Question[q] = "asking" THEN "closed"
                                      ELSE Question[q]
    BY <2>1 DEF Question, PendingUnruled, CallersTrue
  <2>4. ReportOf' = ReportOf
    BY <2>1 DEF ReportOf, Decisions, Failures
  <2>5. Question' = [q \in Ids |-> IF q = r THEN "asking"
                                  ELSE IF Question[q] = "asking" THEN "closed"
                                  ELSE Question[q]]
    <3>1. Question' = [q \in Ids |-> Question'[q]]
      BY DEF Question
    <3> QED BY <2>3, <3>1
  <2> QED BY <2>1, <2>2, <2>4, <2>5 DEF Contract!Ask
<1>2. ASSUME NEW r \in Ids, RefuseBusy(r) PROVE Contract!Drop(r)
  <2>1. Swept = {}
    BY <1>2 DEF RefuseBusy, Busy, OnePending, Swept
  <2> QED BY <1>2, <2>1, Drops DEF RefuseBusy, Failures
<1>3. ASSUME NEW r \in Ids, SendFails(r) PROVE Contract!Drop(r)
  BY <1>3, Drops DEF SendFails, Pop, Active, Failures
<1>4. ASSUME NEW r \in Ids, Cancel(r) PROVE Contract!Drop(r)
  BY <1>4, Drops DEF Cancel, Active, Failures
<1>5. ASSUME NEW t \in taps, Decide(t) PROVE Contract!Settle(t.id)
  <2>1. /\ t.id \in pending /\ t.id \in Ids /\ pending' = pending \ {t.id}
        /\ UNCHANGED <<caller, listed>>
        /\ ruling' = [ruling EXCEPT ![t.id] = Outcome(t.button)]
    BY <1>5 DEF Decide, Pop
  <2>2. Outcome(t.button) \in {"approved", "skipped"}
    BY OutcomeType
  <2>3. Question[t.id] = "asking" /\ Question'[t.id] = Outcome(t.button)
    BY <2>1, <2>2 DEF Question
  <2>4. ReportOf' = ReportOf
    BY <2>1 DEF ReportOf
  <2>5. Question' = [Question EXCEPT ![t.id] = Outcome(t.button)]
    BY <2>1, <2>3, OthersUnmoved
  <2> QED BY <2>1, <2>2, <2>3, <2>4, <2>5 DEF Contract!Settle, Contract!Settled
<1>6. ASSUME NEW t \in taps, DecideLate(t) PROVE Contract!Close(t.id)
  BY <1>6, Closes DEF DecideLate, ExpirePending, Pop
<1>7. ASSUME NEW r \in Ids, WaiterExpires(r) PROVE Contract!Close(r)
  BY <1>7, Closes DEF WaiterExpires, ExpirePending, Pop, Active
<1>8. ASSUME NEW r \in Ids, SweepExpires(r) PROVE Contract!Close(r) \/ UNCHANGED Contract!cvars
  <2>1. CASE r \in pending
    BY <1>8, <2>1, Closes DEF SweepExpires, ExpirePending, Pop
  <2>2. CASE r \notin pending
    BY <1>8, <2>2, Unmoved DEF SweepExpires
  <2> QED BY <2>1, <2>2
<1>9. ASSUME NEW r \in Ids, caller[r] \in {"waiting", "expiring"},
             NEW e \in ResultOf(r), caller' = [caller EXCEPT ![r] = e.status],
             UNCHANGED <<pending, ruling, listed>>
      PROVE  Contract!Report(r)
  <2>1. e \in results /\ e.id = r /\ e.status \in Decisions /\ r \notin pending
    BY DEF ResultOf, Entries, DecidedOnce
  <2>2. e.status = ruling[r] \/ (e.status = "timeout" /\ ruling[r] = "none")
    BY <2>1 DEF ResultsTrue
  <2> QED BY <1>9, <2>1, <2>2, Reports DEF Active
<1>10. ASSUME NEW r \in Ids, caller[r] \in {"waiting", "expiring"}, r \notin pending,
              ResultOf(r) = {}, caller' = [caller EXCEPT ![r] = "timeout"],
              UNCHANGED <<pending, ruling, listed>>
       PROVE  Contract!Report(r)
  <2>1. ruling[r] = "none" \/ r \in listed
    BY <1>10 DEF RulingKept, Asking
  <2> QED BY <1>10, <2>1, Reports DEF Active, Decisions
<1>11. ASSUME NEW r \in Ids, Poll(r) PROVE Contract!Report(r)
  BY <1>11, <1>9 DEF Poll
<1>12. ASSUME NEW r \in Ids, PollVanished(r) PROVE Contract!Report(r)
  BY <1>12, <1>10 DEF PollVanished
<1>13. ASSUME NEW r \in Ids, WaiterYields(r) PROVE Contract!Report(r)
  BY <1>13, <1>9, <1>10 DEF WaiterYields
<1>14. ASSUME NEW r \in Ids, WaiterReturns(r) PROVE Contract!Report(r)
  BY <1>14, Reports DEF WaiterReturns, CallersTrue, Active, Decisions
<1>15. ASSUME SweepCollects PROVE \E r \in Ids : Contract!List(r)
  <2>1. PICK r \in Swept : TRUE
    BY <1>15 DEF SweepCollects
  <2>2. r \in pending /\ Swept = {r}
    BY DEF Swept, OnePending
  <2>3. listed' = listed \cup {r} /\ UNCHANGED <<caller, pending, ruling>>
    BY <1>15, <2>2 DEF SweepCollects
  <2>4. Question[r] = "asking"
    BY <2>2, QuestionOf
  <2>5. Question' = Question /\ ReportOf' = ReportOf
    BY <2>3 DEF Question, ReportOf
  <2> QED BY <2>2, <2>3, <2>4, <2>5 DEF Contract!List
<1>16. ASSUME Restart PROVE Contract!Crash
  <2> DEFINE lost == {r \in Ids : caller[r] \in Active}
  <2>1. /\ caller' = [r \in Ids |-> IF caller[r] \in Active THEN "lost" ELSE caller[r]]
        /\ pending' = {} /\ UNCHANGED <<ruling, listed>>
    BY <1>16 DEF Restart
  <2>2. \A q \in Ids : Question'[q] = IF Question[q] = "asking" THEN "closed" ELSE Question[q]
    BY <2>1 DEF Question, PendingUnruled, CallersTrue, Active
  <2>3. \A q \in Ids : ReportOf'[q] = IF q \in lost THEN "failed" ELSE ReportOf[q]
    BY <2>1 DEF ReportOf, Active, Decisions, Failures
  <2>4. lost \in SUBSET {r \in Ids : Question[r] # "new" /\ ReportOf[r] = "none"}
    BY DEF Question, ReportOf, Active, Decisions, Failures
  <2>5. Question' = [q \in Ids |-> IF Question[q] = "asking" THEN "closed" ELSE Question[q]]
    <3>1. Question' = [q \in Ids |-> Question'[q]]
      BY DEF Question
    <3> QED BY <2>2, <3>1
  <2>6. ReportOf' = [q \in Ids |-> IF q \in lost THEN "failed" ELSE ReportOf[q]]
    <3>1. ReportOf' = [q \in Ids |-> ReportOf'[q]]
      BY DEF ReportOf
    <3> QED BY <2>3, <3>1
  <2> HIDE DEF lost
  <2> QED BY <2>1, <2>4, <2>5, <2>6 DEF Contract!Crash
<1>17. ASSUME NEW r \in Ids,
              TelegramPosts(r) \/ SendSucceeds(r) \/ DeadlineReached(r)
       PROVE  UNCHANGED Contract!cvars
  BY <1>17, Unmoved DEF TelegramPosts, SendSucceeds, DeadlineReached, Active
<1>18. ASSUME \/ \E r \in Ids, b \in Buttons, s \in Senders : Tap(r, b, s)
              \/ \E e \in edits : EditMessage(e)
              \/ Tick \/ ClockStep \/ UNCHANGED vars
       PROVE  UNCHANGED Contract!cvars
  <2>1. UNCHANGED <<caller, pending, ruling, listed>>
    BY <1>18 DEF Tap, EditMessage, Tick, ClockStep, vars
  <2> QED BY <2>1, Unmoved
<1>19. \A t \in taps : t.id \in Ids
  OBVIOUS
<1> QED
  BY <1>1, <1>2, <1>3, <1>4, <1>5, <1>6, <1>7, <1>8, <1>11, <1>12, <1>13, <1>14,
     <1>15, <1>16, <1>17, <1>18, <1>19
     DEF Next, Request, Wait, Callback, Sweeper, Contract!CNext

\* The gate implements its contract: whatever the scans, taps, sweeps, clock
\* steps and restarts do, one question is open at a time, a tap settles it for
\* good, and a scan is told what was settled or that nothing was.
THEOREM GateKeepsContract == Spec /\ [][NoneEvicted]_vars => KeepsContract
<1>1. IInv /\ Words /\ [Next]_vars => [Contract!CNext]_(Contract!cvars)
  BY ContractStep
<1> QED BY <1>1, ContractInit, TruthInductive, PTL DEF Spec, KeepsContract, Contract!CSafe

-----------------------------------------------------------------------------
(* When the cap is large enough, nothing is evicted at all. *)

\* One entry to a request, and no more requests than the cap: all are retained.
LEMMA RetainsAll ==
    ASSUME Cardinality(Ids) <= MaxRetained, NEW all,
           \A e \in all : e.id \in Ids, \A e, f \in all : e.id = f.id => e = f,
           \A e \in all : e.seq \in Nat
    PROVE  Retain(all) = all
<1> SUFFICES ASSUME NEW e \in all
             PROVE  Cardinality({f \in all : f.seq > e.seq}) < MaxRetained
  BY DEF Retain
<1> DEFINE later == {f \in all : f.seq > e.seq}
           others == Ids \ {e.id}
<1>1. /\ IsFiniteSet(others) /\ Cardinality(others) = Cardinality(Ids) - 1
      /\ Cardinality(others) \in Nat /\ Cardinality(Ids) \in Nat
  BY IdsAssumption, FS_RemoveElement, FS_CardinalityType
<1>2. [f \in later |-> f.id] \in Injection(later, others)
  <2>1. \A f \in later : f.id \in others
    OBVIOUS
  <2> QED BY <2>1 DEF Injection, IsInjective
<1>3. Cardinality(later) <= Cardinality(others) /\ Cardinality(later) \in Nat
  BY <1>1, <1>2, FS_Injection, FS_CardinalityType
<1> HIDE DEF later, others
<1>4. Cardinality(later) < MaxRetained
  BY <1>1, <1>3, RetainedAssumption
<1> QED BY <1>4 DEF later

LEMMA PublishRetains ==
    ASSUME Cardinality(Ids) <= MaxRetained, IInv, NEW ids \in SUBSET pending, NEW status,
           Publish(ids, status)
    PROVE  results \subseteq results'
<1> DEFINE all == results \cup {[id |-> r, status |-> status, seq |-> published] : r \in ids}
<1>1. \A e \in all : e.id \in Ids /\ e.seq \in Nat
  BY DEF IInv, TypeOK, Entries
<1>2. \A e, f \in all : e.id = f.id => e = f
  BY DEF IInv, DecidedOnce
<1> HIDE DEF all
<1>3. Retain(all) = all
  BY <1>1, <1>2, RetainsAll
<1> QED BY <1>3 DEF Publish, all

LEMMA NothingEvicted ==
    ASSUME Cardinality(Ids) <= MaxRetained, IInv, sweep \subseteq listed, [Next]_vars
    PROVE  NoneEvicted
<1> USE DEF NoneEvicted, Asking, IInv, TypeOK
<1>1. ASSUME NEW r \in Ids, Request(r) \/ WaiterExpires(r) PROVE NoneEvicted
  BY <1>1, PublishRetains, SweptPending
     DEF Request, Register, RefuseBusy, SendSucceeds, SendFails, gate,
         WaiterExpires, ExpirePending
<1>2. ASSUME NEW t \in taps, Callback(t) PROVE NoneEvicted
  BY <1>2, PublishRetains DEF Callback, Decide, DecideLate, ExpirePending
<1>3. ASSUME NEW r \in Ids, caller'[r] \notin Asking, results' = results \ ResultOf(r)
      PROVE NoneEvicted
  BY <1>3 DEF ResultOf
<1>4. ASSUME NEW r \in Ids, Poll(r) \/ WaiterYields(r) \/ WaiterReturns(r)
      PROVE  NoneEvicted
  <2>1. results' = results \ ResultOf(r)
    BY <1>4 DEF Poll, WaiterYields, WaiterReturns, Collect
  <2>2. caller'[r] \in Decisions
    BY <1>4 DEF Poll, WaiterYields, WaiterReturns, Collect, ResultOf, Entries, Decisions
  <2> QED BY <1>3, <2>1, <2>2 DEF Decisions
<1>5. ASSUME NEW r \in Ids, SweepExpires(r) PROVE NoneEvicted
  <2>1. CASE r \in pending
    BY <1>5, <2>1, PublishRetains DEF SweepExpires, ExpirePending
  <2>2. CASE r \notin pending
    BY <1>5, <2>2 DEF SweepExpires, Collect, ResultOf
  <2> QED BY <2>1, <2>2
<1>6. ASSUME Restart PROVE NoneEvicted
  BY <1>6 DEF Restart, Active, Entries
<1>7. ASSUME UNCHANGED results PROVE NoneEvicted
  BY <1>7
<1>8. ASSUME NEW r \in Ids, PollVanished(r) \/ DeadlineReached(r) \/ TelegramPosts(r) \/ Cancel(r)
      PROVE NoneEvicted
  BY <1>7, <1>8 DEF PollVanished, DeadlineReached, TelegramPosts, Cancel, gate
<1>9. ASSUME \/ \E r \in Ids, b \in Buttons, s \in Senders : Tap(r, b, s)
             \/ \E e \in edits : EditMessage(e)
             \/ SweepCollects \/ Tick \/ ClockStep \/ UNCHANGED vars
      PROVE  NoneEvicted
  BY <1>7, <1>9 DEF Tap, EditMessage, SweepCollects, Tick, ClockStep, vars, gate
<1> QED BY <1>1, <1>2, <1>4, <1>5, <1>6, <1>8, <1>9 DEF Next, Wait, Sweeper

LEMMA SweepListed == Spec => [](sweep \subseteq listed)
<1>1. Init => sweep \subseteq listed
  BY DEF Init
<1>2. sweep \subseteq listed /\ [Next]_vars => (sweep \subseteq listed)'
  BY DEF Next, vars, sweeping, Request, Wait, Callback, Sweeper, Register, RefuseBusy,
         SendSucceeds, SendFails, TelegramPosts, Cancel, Poll, PollVanished,
         DeadlineReached, WaiterExpires, WaiterYields, WaiterReturns, Tap, Decide,
         DecideLate, EditMessage, SweepCollects, SweepExpires, Restart, Tick, ClockStep
<1> QED BY <1>1, <1>2, PTL DEF Spec

\* With no more requests than the cap retains results for, as on the instance the
\* runs check, the chat, the window and the contract hold without more ado.
THEOREM GateIsTrue ==
    ASSUME Cardinality(Ids) <= MaxRetained
    PROVE  Spec => []ChatAgrees /\ []FullWindow /\ KeepsContract
<1>1. IInv /\ sweep \subseteq listed /\ [Next]_vars => [NoneEvicted]_vars
  BY NothingEvicted
<1>2. Spec => [][NoneEvicted]_vars
  BY <1>1, Inductive, SweepListed, PTL DEF Spec
<1> QED BY <1>2, ChatTellsWhatWasTold, WholeWindow, GateKeepsContract, PTL
=============================================================================
