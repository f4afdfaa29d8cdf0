---------------------------- MODULE ToolLoopProofs ----------------------------
(***************************************************************************)
(* Proofs about ToolLoop, for any turns, agents, tools, scopes and limits. *)
(***************************************************************************)
EXTENDS ToolLoop, FiniteSetTheorems, TLAPS

(***************************************************************************)
(* The turn: what its place in the loop says of its call, of the lock and, *)
(* as long as no two turns overlap, of the active set.                     *)
(***************************************************************************)
InCall == {"check", "ask", "waiting", "begin", "running", "returning"}

CallOK(s, n) ==
    /\ s.step \in InCall => s.tool \in Tools
    /\ s.step \in {"idle", "routing", "model", "check", "begin", "ask", "done"} => s.id = 0
    /\ s.step = "begin" => s.tool \notin Asking
    /\ s.step \in {"ask", "waiting"} => s.tool \in Asking \cup Inline
    /\ s.step = "waiting" => s.id \in 1..n
    /\ s.step \in {"idle", "routing", "done"} => ~s.scoped

CallInv == \A t \in Turns : CallOK(at[t], asked)

LockInv == \A t \in Turns : at[t].step \in Busy => Agent[t] \in lock

(***************************************************************************)
(* The requests: an id is fresh until it is given out, belongs to one      *)
(* waiting call, and is spent by the tool that runs on it.                 *)
(***************************************************************************)
FreshIds == \A i \in AskIds : i > asked => rows[i] = "unused" /\ promise[i] = "none"

OneWaiter ==
    \A t, u \in Turns :
        at[t].step = "waiting" /\ at[u].step = "waiting" /\ at[t].id = at[u].id => t = u

SpentIds ==
    \A r \in ran : /\ r.id <= asked
                   /\ \A t \in Turns : at[t].step = "waiting" => at[t].id # r.id

(***************************************************************************)
(* The scope, until turns of two agents overlap: the active set is that of *)
(* the one turn under way, and a tool that has passed the test and waits   *)
(* for its own approval is in it.                                          *)
(***************************************************************************)
Solo ==
    /\ \A t, u \in Turns : at[t].step \in Busy /\ at[u].step \in Busy => t = u
    /\ \A t \in Turns : at[t].step \in Busy /\ at[t].scoped => active = t
    /\ \A t \in Turns : /\ at[t].step \in {"ask", "waiting"} /\ at[t].scoped
                        /\ at[t].tool \in Inline
                        => at[t].tool \in Scope[t]

SoloInv == ~shared => Solo

(***************************************************************************)
(* The quota: the calls that have passed the limiter and have not reported *)
(* to it, by the agents that make them.                                    *)
(***************************************************************************)
InFlight(t) == \/ at[t].step \in {"running", "returning"}
               \/ at[t].step \in {"ask", "waiting"} /\ at[t].tool \in Inline

Flying == {a \in Agents : \E t \in Turns : Agent[t] = a /\ InFlight(t)}

QuotaInv == used + Cardinality(Flying) < Limit + Cardinality(Agents)

TurnInv == TypeOK /\ CallInv /\ LockInv /\ OneTurn
AskInv  == FreshIds /\ OneWaiter /\ SpentIds /\ AnswerIsRow /\ ApprovedBeforeRun
IInv    == TurnInv /\ AskInv /\ SoloInv /\ ScopeRespected /\ QuotaInv

-----------------------------------------------------------------------------
(* Records. *)

\* What a step of turn t changes, and what it leaves alone.
Moves(t, s) == at' \in [Turns -> TurnStates] /\ at'[t] = s
               /\ \A u \in Turns \ {t} : at'[u] = at[u]

Steps == {"idle", "done"} \cup Busy

LEMMA RecordStep ==
    ASSUME NEW s \in TurnStates, NEW x \in Steps
    PROVE  /\ [s EXCEPT !.step = x] \in TurnStates
           /\ [s EXCEPT !.step = x].step = x /\ [s EXCEPT !.step = x].tool = s.tool
           /\ [s EXCEPT !.step = x].id = s.id /\ [s EXCEPT !.step = x].scoped = s.scoped
           /\ [s EXCEPT !.step = x].calls = s.calls
  BY DEF TurnStates, Steps

LEMMA FreshRecords ==
    /\ Fresh \in TurnStates /\ Fresh.step = "idle" /\ Fresh.id = 0 /\ ~Fresh.scoped
    /\ Finished \in TurnStates /\ Finished.step = "done" /\ Finished.id = 0
    /\ ~Finished.scoped
<1>1. Fresh \in TurnStates /\ Fresh.step = "idle" /\ Fresh.id = 0 /\ ~Fresh.scoped
  BY LoopAssumption DEF Fresh, TurnStates
<1> QED BY <1>1, RecordStep DEF Finished, Steps

LEMMA GoMoves ==
    ASSUME TypeOK, NEW t \in Turns, NEW x \in Steps, Go(t, x)
    PROVE  Moves(t, [at[t] EXCEPT !.step = x]) /\ at'[t].step = x
           /\ at'[t].tool = at[t].tool /\ at'[t].id = at[t].id
           /\ at'[t].scoped = at[t].scoped
<1>1. at[t] \in TurnStates
  BY DEF TypeOK
<1>2. [at[t] EXCEPT !.step = x] \in TurnStates
  BY <1>1, RecordStep
<1>3. at' = [at EXCEPT ![t] = [at[t] EXCEPT !.step = x]]
  BY DEF Go
<1>4. Moves(t, [at[t] EXCEPT !.step = x])
  BY <1>2, <1>3 DEF TypeOK, Moves
<1> QED BY <1>1, <1>4, RecordStep DEF Moves

LEMMA BackMoves ==
    ASSUME TypeOK, NEW t \in Turns, Back(t)
    PROVE  Moves(t, at'[t]) /\ at'[t].step = "model" /\ at'[t].id = 0
           /\ at'[t].scoped = at[t].scoped
<1>1. at[t] \in TurnStates
  BY DEF TypeOK
<1> DEFINE s1 == [at[t] EXCEPT !.step = "model"]
           s2 == [s1 EXCEPT !.tool = "none"]
           s  == [s2 EXCEPT !.id = 0]
<1>a. s1 \in TurnStates /\ s1.step = "model" /\ s1.scoped = at[t].scoped
  BY <1>1, RecordStep DEF Steps, Busy
<1> HIDE DEF s1
<1>b. s2 \in TurnStates /\ s2.step = "model" /\ s2.scoped = at[t].scoped
  BY <1>a DEF TurnStates
<1> HIDE DEF s2
<1>2. s \in TurnStates /\ s.step = "model" /\ s.id = 0 /\ s.scoped = at[t].scoped
  BY <1>b, LoopAssumption DEF TurnStates
<1>3. at' = [at EXCEPT ![t] = s]
  BY DEF Back, s, s2, s1
<1> QED BY <1>2, <1>3 DEF TypeOK, Moves

-----------------------------------------------------------------------------
(* Turns. *)

LEMMA TurnInit == Init => TurnInv
<1> SUFFICES ASSUME Init PROVE TurnInv
  OBVIOUS
<1>1. Fresh \in TurnStates /\ Fresh.step = "idle" /\ Fresh.id = 0 /\ ~Fresh.scoped
  BY FreshRecords
<1>2. TypeOK
  <2>1. at \in [Turns -> TurnStates]
    BY <1>1 DEF Init
  <2>2. lock \in SUBSET Agents /\ active \in Turns \cup {"all"} /\ callbacks \in SUBSET AskIds
        /\ rows \in [AskIds -> {"unused", "pending", "approved", "denied"}]
        /\ promise \in [AskIds -> {"none", "approved", "denied"}]
    BY DEF Init
  <2>3. asked \in 0..MaxAsks /\ used \in Nat
    BY LoopAssumption DEF Init
  <2>4. shared \in BOOLEAN
    BY DEF Init
  <2>5. ran \in SUBSET [turn : Turns, call : 0..MaxCalls, tool : Tools,
                       id : 0..MaxAsks, scoped : BOOLEAN]
    BY DEF Init
  <2> QED BY <2>1, <2>2, <2>3, <2>4, <2>5 DEF TypeOK
<1>3. CallInv /\ LockInv /\ OneTurn
  BY <1>1 DEF Init, CallInv, CallOK, LockInv, OneTurn, Busy, InCall
<1> QED BY <1>2, <1>3 DEF TurnInv

\* A turn that keeps its lock, or gives it up as it ends, disturbs no other.
LEMMA Moved ==
    ASSUME TurnInv, NEW t \in Turns, NEW s \in TurnStates, Moves(t, s),
           asked' \in Nat, asked <= asked', CallOK(s, asked'),
           \/ s.step \in Busy /\ at[t].step \in Busy /\ lock' = lock
           \/ s.step \notin Busy /\ lock' = lock \ {Agent[t]} /\ at[t].step \in Busy
    PROVE  CallInv' /\ LockInv' /\ OneTurn'
<1> USE DEF TurnInv, Moves
<1>1. CallInv'
  <2>1. \A u \in Turns \ {t} : CallOK(at'[u], asked')
    BY DEF CallInv, CallOK, TypeOK
  <2> QED BY <2>1 DEF CallInv
<1>2. OneTurn'
  BY DEF OneTurn
<1>3. LockInv'
  BY DEF LockInv, OneTurn
<1> QED BY <1>1, <1>2, <1>3

LEMMA TurnStep == ASSUME TurnInv, [Next]_vars PROVE TurnInv'
<1> USE LoopAssumption DEF TurnInv, approvals
<1>a. asked \in Nat /\ 0..MaxAsks \subseteq Nat /\ \A t \in Turns : CallOK(at[t], asked)
  BY DEF TypeOK, CallInv
<1>1. ASSUME NEW t \in Turns, Enter(t) PROVE TurnInv'
  <2>1. Moves(t, [at[t] EXCEPT !.step = "routing"]) /\ at'[t].step = "routing"
        /\ at'[t].id = at[t].id /\ at'[t].scoped = at[t].scoped
    BY <1>1, GoMoves DEF Enter, Busy, Steps
  <2>2. TypeOK'
    BY <1>1, <2>1 DEF Enter, TypeOK, Moves
  <2>3. CallInv'
    BY <1>1, <2>1, <1>a DEF CallInv, CallOK, Moves, Enter, InCall
  <2>4. LockInv' /\ OneTurn'
    BY <1>1, <2>1 DEF LockInv, OneTurn, Moves, Enter, LockFree
  <2> QED BY <2>2, <2>3, <2>4
\* A step of a turn under way: it moves on and keeps its lock.
<1> DEFINE Keeps ==
      /\ lock' = lock /\ asked' \in 0..MaxAsks /\ asked <= asked'
      /\ active' \in Turns \cup {"all"}
      /\ rows' \in [AskIds -> {"unused", "pending", "approved", "denied"}]
      /\ promise' = promise /\ callbacks' \in SUBSET AskIds
      /\ used' \in Nat /\ shared' \in BOOLEAN
      /\ ran' \in SUBSET [turn : Turns, call : 0..MaxCalls, tool : Tools,
                          id : 0..MaxAsks, scoped : BOOLEAN]
<1>2. ASSUME NEW t \in Turns, Moves(t, at'[t]), at[t].step \in Busy,
             at'[t].step \in Busy, CallOK(at'[t], asked'), Keeps
      PROVE  TurnInv'
  <2>1. asked' \in Nat /\ at'[t] \in TurnStates
    BY <1>a, <1>2 DEF Moves
  <2>2. CallInv' /\ LockInv' /\ OneTurn'
    BY <1>2, <2>1, Moved
  <2>3. TypeOK'
    BY <1>2 DEF TypeOK, Moves
  <2> QED BY <2>2, <2>3
<1>b. ASSUME UNCHANGED <<lock, asked, active, rows, promise, callbacks, used, shared, ran>>
      PROVE  Keeps
  BY <1>a, <1>b DEF TypeOK
<1> HIDE DEF Keeps
<1>3. ASSUME NEW t \in Turns, NEW x \in Busy, Go(t, x), at[t].step \in Busy, Keeps,
             CallOK([at[t] EXCEPT !.step = x], asked')
      PROVE  TurnInv'
  <2>1. Moves(t, [at[t] EXCEPT !.step = x]) /\ at'[t].step = x
    BY <1>3, GoMoves DEF Steps
  <2>2. at'[t] = [at[t] EXCEPT !.step = x]
    BY <2>1 DEF Moves
  <2> QED BY <1>2, <1>3, <2>1, <2>2
<1>4. ASSUME NEW t \in Turns, Back(t), at[t].step \in Busy, Keeps
      PROVE  TurnInv'
  <2>1. Moves(t, at'[t]) /\ at'[t].step = "model" /\ at'[t].id = 0
    BY <1>4, BackMoves
  <2>2. CallOK(at'[t], asked')
    BY <2>1 DEF CallOK, InCall
  <2> QED BY <1>2, <1>4, <2>1, <2>2 DEF Busy
\* The history of effects keeps its type.
<1>5. ASSUME NEW t \in Turns, at[t].step \in InCall, Effect(t)
      PROVE  ran' \in SUBSET [turn : Turns, call : 0..MaxCalls, tool : Tools,
                              id : 0..MaxAsks, scoped : BOOLEAN]
  <2>1. at[t] \in TurnStates /\ at[t].tool \in Tools
    BY <1>5, <1>a DEF TypeOK, CallOK
  <2> QED BY <1>5, <2>1 DEF Effect, TurnStates, TypeOK
<1>6. ASSUME NEW t \in Turns, Register(t) PROVE TurnInv'
  <2>1. at[t] \in TurnStates /\ at[t].step = "routing" /\ at[t].id = 0
    BY <1>6, <1>a DEF TypeOK, Register, CallOK
  <2>2. CASE Go(t, "model") /\ UNCHANGED active
    <3>1. CallOK([at[t] EXCEPT !.step = "model"], asked')
      BY <2>1, RecordStep DEF CallOK, InCall, Steps, Busy
    <3>2. Keeps
      BY <1>6, <2>2, <1>b DEF Register
    <3> QED BY <1>3, <2>1, <2>2, <3>1, <3>2 DEF Busy
  <2>3. CASE active' = t
             /\ at' = [at EXCEPT ![t].step = "model", ![t].scoped = TRUE]
    <3> DEFINE s1 == [at[t] EXCEPT !.step = "model"]
               s  == [s1 EXCEPT !.scoped = TRUE]
    <3>1. s1 \in TurnStates /\ s1.step = "model" /\ s1.id = 0
      BY <2>1, RecordStep DEF Steps, Busy
    <3>2. at' = [at EXCEPT ![t] = s]
      BY <2>3
    <3> HIDE DEF s1
    <3>3. s \in TurnStates /\ s.step = "model" /\ s.id = 0
      BY <3>1 DEF TurnStates
    <3>4. Moves(t, at'[t]) /\ at'[t].step = "model" /\ at'[t].id = 0
      BY <3>2, <3>3 DEF Moves, TypeOK
    <3>5. CallOK(at'[t], asked')
      BY <3>4 DEF CallOK, InCall
    <3>6. Keeps
      BY <1>6, <2>3, <1>a DEF Register, Keeps, TypeOK
    <3> QED BY <1>2, <2>1, <3>4, <3>5, <3>6 DEF Busy
  <2> QED BY <1>6, <2>2, <2>3 DEF Register
<1>7. ASSUME NEW t \in Turns, EndTurn(t) PROVE TurnInv'
  <2>1. at' = [at EXCEPT ![t] = Finished] /\ lock' = lock \ {Agent[t]}
        /\ at[t].step \in Busy
    BY <1>7 DEF EndTurn, Close, Busy
  <2>2. Finished \in TurnStates /\ Finished.step = "done" /\ Finished.id = 0
        /\ ~Finished.scoped
    BY FreshRecords
  <2>3. Moves(t, Finished) /\ asked' = asked
    BY <1>7, <2>1, <2>2 DEF Moves, TypeOK, EndTurn, Close
  <2>4. CallOK(Finished, asked')
    BY <2>2 DEF CallOK, InCall
  <2>c. Finished.step \notin Busy /\ asked' \in Nat /\ asked <= asked'
    BY <1>a, <2>2, <2>3 DEF Busy
  <2>5. CallInv' /\ LockInv' /\ OneTurn'
    BY <2>1, <2>2, <2>3, <2>4, <2>c, Moved
  <2>6. active' \in Turns \cup {"all"}
    BY <1>7 DEF EndTurn, Close, TypeOK
  <2>7. TypeOK'
    BY <1>7, <2>1, <2>3, <2>6 DEF TypeOK, EndTurn, Close, Moves
  <2> QED BY <2>5, <2>7
<1>8. ASSUME NEW t \in Turns, Regenerate(t) PROVE TurnInv'
  <2>1. at[t] \in TurnStates /\ at[t].step = "model" /\ at[t].id = 0
    BY <1>8, <1>a DEF TypeOK, Regenerate, CallOK
  <2> DEFINE s == [at[t] EXCEPT !.tries = at[t].tries + 1]
  <2>2. s \in TurnStates /\ s.step = "model" /\ s.id = 0
    BY <2>1 DEF TurnStates
  <2>3. at' = [at EXCEPT ![t] = s]
    BY <1>8 DEF Regenerate
  <2>4. Moves(t, at'[t]) /\ at'[t].step = "model" /\ at'[t].id = 0
    BY <2>2, <2>3 DEF Moves, TypeOK
  <2>5. CallOK(at'[t], asked') /\ Keeps
    BY <1>8, <1>b, <2>4 DEF CallOK, InCall, Regenerate
  <2> QED BY <1>2, <2>1, <2>4, <2>5 DEF Busy
<1>9. ASSUME NEW t \in Turns, NEW tool \in Tools, ModelCalls(t, tool) PROVE TurnInv'
  <2>1. at[t] \in TurnStates /\ at[t].step = "model" /\ at[t].id = 0
        /\ at[t].calls < MaxCalls
    BY <1>9, <1>a DEF TypeOK, ModelCalls, CallOK
  <2> DEFINE s1 == [at[t] EXCEPT !.step = "check"]
             s2 == [s1 EXCEPT !.tool = tool]
             s  == [s2 EXCEPT !.calls = at[t].calls + 1]
  <2>2. s1 \in TurnStates /\ s1.step = "check" /\ s1.id = 0 /\ s1.calls = at[t].calls
    BY <2>1, RecordStep DEF Steps, Busy
  <2>3. at' = [at EXCEPT ![t] = s]
    BY <1>9 DEF ModelCalls
  <2> HIDE DEF s1
  <2>4. s2 \in TurnStates /\ s2.step = "check" /\ s2.id = 0 /\ s2.tool \in Tools
    BY <2>2 DEF TurnStates
  <2>5. at[t].calls + 1 \in 0..MaxCalls
    BY <2>1 DEF TurnStates
  <2> HIDE DEF s2
  <2>6. s \in TurnStates /\ s.step = "check" /\ s.id = 0 /\ s.tool \in Tools
    BY <2>4, <2>5 DEF TurnStates
  <2>7. Moves(t, at'[t]) /\ at'[t].step = "check" /\ at'[t].id = 0 /\ at'[t].tool \in Tools
    BY <2>3, <2>6 DEF Moves, TypeOK
  <2>8. CallOK(at'[t], asked') /\ Keeps
    BY <1>9, <1>b, <2>7 DEF CallOK, InCall, ModelCalls
  <2> QED BY <1>2, <2>1, <2>7, <2>8 DEF Busy
<1>10. ASSUME NEW t \in Turns, CheckCall(t) PROVE TurnInv'
  <2>1. at[t] \in TurnStates /\ at[t].step = "check" /\ at[t].id = 0 /\ at[t].tool \in Tools
    BY <1>10, <1>a DEF TypeOK, CheckCall, CallOK, InCall
  <2>2. Keeps
    BY <1>10, <1>b DEF CheckCall
  <2>3. CASE at[t].tool \in Asking
    <3>1. CallOK([at[t] EXCEPT !.step = "ask"], asked')
      BY <2>1, <2>3, RecordStep DEF CallOK, InCall, Steps, Busy
    <3> QED BY <1>3, <1>10, <2>1, <2>2, <2>3, <3>1 DEF Busy, CheckCall
  <2>4. CASE at[t].tool \notin Asking
    <3>1. CallOK([at[t] EXCEPT !.step = "begin"], asked')
      BY <2>1, <2>4, RecordStep DEF CallOK, InCall, Steps, Busy
    <3> QED BY <1>3, <1>10, <2>1, <2>2, <2>4, <3>1 DEF Busy, CheckCall
  <2> QED BY <2>3, <2>4
<1>11. ASSUME NEW t \in Turns, Ask(t) PROVE TurnInv'
  <2>1. at[t] \in TurnStates /\ at[t].step = "ask" /\ at[t].tool \in Asking \cup Inline
        /\ at[t].tool \in Tools
    BY <1>11, <1>a DEF TypeOK, Ask, CallOK, InCall
  <2>2. asked' = asked + 1 /\ asked' \in AskIds /\ asked' \in 0..MaxAsks
    BY <1>11, <1>a DEF Ask, AskIds
  <2> DEFINE s1 == [at[t] EXCEPT !.step = "waiting"]
             s  == [s1 EXCEPT !.id = asked']
  <2>3. s1 \in TurnStates /\ s1.step = "waiting" /\ s1.tool = at[t].tool
    BY <2>1, RecordStep DEF Steps, Busy
  <2>4. at' = [at EXCEPT ![t] = s]
    BY <1>11 DEF Ask
  <2> HIDE DEF s1
  <2>5. s \in TurnStates /\ s.step = "waiting" /\ s.tool = at[t].tool /\ s.id = asked'
    BY <2>2, <2>3 DEF TurnStates
  <2>6. Moves(t, at'[t]) /\ at'[t].step = "waiting" /\ at'[t].tool = at[t].tool
        /\ at'[t].id = asked'
    BY <2>4, <2>5 DEF Moves, TypeOK
  <2>7. CallOK(at'[t], asked')
    BY <1>a, <2>1, <2>2, <2>6 DEF CallOK, InCall
  <2>8. Keeps
    BY <1>11, <1>a, <2>2 DEF Ask, Keeps, TypeOK
  <2> QED BY <1>2, <2>1, <2>6, <2>7, <2>8 DEF Busy
<1>12. ASSUME NEW t \in Turns, AskFails(t) \/ ResumeDenied(t) PROVE TurnInv'
  <2>1. at[t] \in TurnStates /\ at[t].step \in {"ask", "waiting"} /\ at[t].tool \in Tools
    BY <1>12, <1>a DEF TypeOK, AskFails, ResumeDenied, CallOK, InCall
  <2>2. Keeps
    BY <1>12, <1>b DEF AskFails, ResumeDenied
  <2>3. CallOK([at[t] EXCEPT !.step = "returning"], asked')
    BY <2>1, RecordStep DEF CallOK, InCall, Steps, Busy
  <2> QED BY <1>3, <1>4, <1>12, <2>1, <2>2, <2>3
             DEF Busy, AskFails, ResumeDenied, Unapproved
<1>13. ASSUME NEW t \in Turns, InlineGranted(t) PROVE TurnInv'
  <2>1. at[t] \in TurnStates /\ at[t].step = "waiting" /\ at[t].tool \in Tools
    BY <1>13, <1>a DEF TypeOK, InlineGranted, CallOK, InCall
  <2>2. Keeps
    BY <1>13, <1>a, <1>5, <2>1 DEF InlineGranted, Keeps, TypeOK, InCall
  <2>3. CallOK([at[t] EXCEPT !.step = "running"], asked')
    BY <2>1, RecordStep DEF CallOK, InCall, Steps, Busy
  <2> QED BY <1>3, <1>13, <2>1, <2>2, <2>3 DEF Busy, InlineGranted
<1>14. ASSUME NEW t \in Turns, Begin(t) PROVE TurnInv'
  <2>1. at[t] \in TurnStates /\ at[t].step \in {"begin", "waiting"} /\ at[t].tool \in Tools
    BY <1>14, <1>a DEF TypeOK, Begin, Admitted, CallOK, InCall
  <2>2. at[t].step \in InCall /\ at[t].step \in Busy
    BY <2>1 DEF InCall, Busy
  <2>3. ASSUME Effect(t) \/ UNCHANGED ran PROVE Keeps
    BY <1>14, <1>a, <1>5, <2>2, <2>3 DEF Begin, Keeps, TypeOK
  <2>4. CASE Back(t) /\ UNCHANGED ran
    BY <1>4, <2>2, <2>3, <2>4
  <2>5. CASE Go(t, "returning") /\ UNCHANGED ran
    <3>1. CallOK([at[t] EXCEPT !.step = "returning"], asked')
      BY <2>1, RecordStep DEF CallOK, InCall, Steps, Busy
    <3> QED BY <1>3, <2>2, <2>3, <2>5, <3>1 DEF Busy
  <2>6. CASE at[t].tool \in Inline /\ Go(t, "ask") /\ UNCHANGED ran
    <3>1. at[t].step = "begin" /\ at[t].id = 0
      BY <1>14, <1>a, <2>6 DEF Begin, Admitted, CallOK
    <3>2. CallOK([at[t] EXCEPT !.step = "ask"], asked')
      BY <2>1, <2>6, <3>1, RecordStep DEF CallOK, InCall, Steps, Busy
    <3> QED BY <1>3, <2>2, <2>3, <2>6, <3>2 DEF Busy
  <2>7. CASE Go(t, "running") /\ Effect(t)
    <3>1. CallOK([at[t] EXCEPT !.step = "running"], asked')
      BY <2>1, RecordStep DEF CallOK, InCall, Steps, Busy
    <3> QED BY <1>3, <2>2, <2>3, <2>7, <3>1 DEF Busy
  <2> QED BY <1>14, <2>4, <2>5, <2>6, <2>7 DEF Begin
<1>15. ASSUME NEW t \in Turns, Return(t) \/ ToolFails(t) PROVE TurnInv'
  <2>1. at[t].step \in Busy /\ Back(t)
    BY <1>15 DEF Return, ToolFails, Busy
  <2>2. Keeps
    BY <1>15, <1>a DEF Return, ToolFails, Keeps, TypeOK
  <2> QED BY <1>4, <2>1, <2>2
<1>16. ASSUME NEW i \in AskIds, Reply(i) \/ Timer(i) PROVE TurnInv'
  <2>1. UNCHANGED <<at, lock, active, asked, used, ran, shared>>
        /\ \E v \in {"approved", "denied"} : Decide(i, v)
    BY <1>16 DEF Reply, Timer, Decide, TimeoutStatus
  <2>2. TypeOK'
    BY <2>1 DEF Decide, TypeOK
  <2> QED BY <2>1, <2>2 DEF CallInv, LockInv, OneTurn
<1>17. CASE ResetWindow \/ UNCHANGED vars
  <2>1. UNCHANGED <<at, lock, active, rows, asked, promise, callbacks, ran, shared>>
        /\ used' \in Nat
    BY <1>17 DEF ResetWindow, vars, TypeOK
  <2>2. TypeOK'
    BY <2>1 DEF TypeOK
  <2> QED BY <2>1, <2>2 DEF CallInv, LockInv, OneTurn
<1>18. CASE Restart
  <2>1. Finished \in TurnStates /\ Finished.step = "done" /\ Finished.id = 0
        /\ ~Finished.scoped
    BY FreshRecords
  <2>2. /\ at' \in [Turns -> TurnStates]
        /\ \A t \in Turns : at'[t] = Finished \/ (at'[t] = at[t] /\ at[t].step \notin Busy)
    BY <1>18, <2>1 DEF Restart, TypeOK
  <2>3. TypeOK'
    BY <1>18, <2>2 DEF Restart, TypeOK
  <2>4. CallOK(Finished, asked) /\ Finished.step \notin Busy /\ asked' = asked
    BY <1>18, <2>1 DEF CallOK, InCall, Restart, Busy
  <2>5. \A t \in Turns : CallOK(at'[t], asked') /\ at'[t].step \notin Busy
    BY <1>a, <2>2, <2>4
  <2> QED BY <2>3, <2>5 DEF CallInv, LockInv, OneTurn
<1> QED
  BY <1>1, <1>6, <1>7, <1>8, <1>9, <1>10, <1>11, <1>12, <1>13, <1>14, <1>15, <1>16,
     <1>17, <1>18 DEF Next, Step, Approval, Run

-----------------------------------------------------------------------------
(* Requests. *)

LEMMA AskInit == Init => AskInv
  BY FreshRecords DEF Init, AskInv, FreshIds, OneWaiter, SpentIds, AnswerIsRow, ApprovedBeforeRun

\* Nobody starts to wait.
NoNewWaiter == \A u \in Turns : at'[u].step = "waiting" => at'[u] = at[u]

LEMMA QuietKeeps ==
    ASSUME AskInv, NoNewWaiter, UNCHANGED <<rows, asked, promise, ran>>
    PROVE  AskInv'
  BY DEF AskInv, NoNewWaiter, FreshIds, OneWaiter, SpentIds, AnswerIsRow, ApprovedBeforeRun

\* A tool runs on the approval its call was waiting for, or needs none.
LEMMA EffectKeeps ==
    ASSUME TurnInv, AskInv, NEW t \in Turns, NoNewWaiter, at'[t].step # "waiting",
           Effect(t), UNCHANGED <<rows, asked, promise>>,
           \/ at[t].step = "waiting" /\ Granted(t)
           \/ at[t].id = 0 /\ at[t].tool \notin Asking \cup Inline
    PROVE  AskInv'
<1> DEFINE new == [turn |-> t, call |-> at[t].calls, tool |-> at[t].tool,
                   id |-> at[t].id, scoped |-> at[t].scoped]
<1>1. ran' = ran \cup {new}
  BY DEF Effect
<1>2. asked \in Nat /\ \A r \in ran : r.id \in Nat
  BY LoopAssumption DEF TurnInv, TypeOK
<1>3. at[t].step = "waiting" => at[t].id \in 1..asked /\ at[t].id \in AskIds
  BY <1>2, LoopAssumption DEF TurnInv, CallInv, CallOK, TypeOK, AskIds
<1>4. new.id = at[t].id /\ new.tool = at[t].tool
  OBVIOUS
<1> HIDE DEF new
<1>5. SpentIds'
  BY <1>1, <1>2, <1>3, <1>4 DEF AskInv, SpentIds, OneWaiter, NoNewWaiter, TurnInv, CallInv, CallOK
<1>6. ApprovedBeforeRun'
  <2>1. at[t].step = "waiting" => rows[new.id] = "approved"
    BY <1>3, <1>4 DEF AskInv, AnswerIsRow, Granted
  <2>2. \A r \in ran : r.id > 0 => r.id # new.id
    BY <1>2, <1>4 DEF AskInv, SpentIds
  <2> QED BY <1>1, <1>2, <1>3, <1>4, <2>1, <2>2 DEF AskInv, ApprovedBeforeRun
<1> QED BY <1>5, <1>6 DEF AskInv, FreshIds, OneWaiter, AnswerIsRow, NoNewWaiter

LEMMA AskStep == ASSUME TurnInv, AskInv, [Next]_vars PROVE AskInv'
<1> USE DEF approvals
<1>a. asked \in Nat /\ TypeOK /\ \A t \in Turns : at[t] \in TurnStates /\ CallOK(at[t], asked)
  BY LoopAssumption DEF TurnInv, TypeOK, CallInv
<1>b. ASSUME NEW t \in Turns, NEW s, Moves(t, s), s.step # "waiting" PROVE NoNewWaiter
  BY <1>b DEF NoNewWaiter, Moves
<1>c. ASSUME NEW t \in Turns, NEW x \in Steps \ {"waiting"}, Go(t, x)
      PROVE  NoNewWaiter /\ at'[t].step # "waiting"
  <2>1. x \in Steps /\ x # "waiting"
    BY <1>c
  <2>2. Moves(t, [at[t] EXCEPT !.step = x]) /\ at'[t].step = x
    BY <1>a, <1>c, <2>1, GoMoves
  <2> QED BY <2>1, <2>2 DEF NoNewWaiter, Moves
<1>d. ASSUME NEW t \in Turns, Back(t) PROVE NoNewWaiter
  BY <1>a, <1>d, BackMoves DEF NoNewWaiter, Moves
<1>1. ASSUME NEW t \in Turns, Enter(t) PROVE AskInv'
  BY <1>1, <1>c, QuietKeeps DEF Enter, Steps, Busy
<1>2. ASSUME NEW t \in Turns, Register(t) PROVE AskInv'
  <2>1. NoNewWaiter
    BY <1>2, <1>a DEF Register, Go, NoNewWaiter, TypeOK, TurnStates
  <2> QED BY <1>2, <2>1, QuietKeeps DEF Register
<1>3. ASSUME NEW t \in Turns, EndTurn(t) PROVE AskInv'
  <2>1. NoNewWaiter
    BY <1>3, <1>a, FreshRecords DEF EndTurn, Close, NoNewWaiter, TypeOK
  <2> QED BY <1>3, <2>1, QuietKeeps DEF EndTurn, Close
<1>4. ASSUME NEW t \in Turns, Regenerate(t) PROVE AskInv'
  <2>1. NoNewWaiter
    BY <1>4, <1>a DEF Regenerate, NoNewWaiter, TypeOK, TurnStates
  <2> QED BY <1>4, <2>1, QuietKeeps DEF Regenerate
<1>5. ASSUME NEW t \in Turns, NEW tool \in Tools, ModelCalls(t, tool) PROVE AskInv'
  <2>1. NoNewWaiter
    BY <1>5, <1>a DEF ModelCalls, NoNewWaiter, TypeOK, TurnStates
  <2> QED BY <1>5, <2>1, QuietKeeps DEF ModelCalls
<1>6. ASSUME NEW t \in Turns, CheckCall(t) PROVE AskInv'
  BY <1>6, <1>c, QuietKeeps DEF CheckCall, Steps, Busy
<1>7. ASSUME NEW t \in Turns, Ask(t) PROVE AskInv'
  <2>1. /\ asked' = asked + 1 /\ asked' \in AskIds
        /\ rows' = [rows EXCEPT ![asked'] = "pending"] /\ UNCHANGED <<promise, ran>>
    BY <1>7, <1>a, LoopAssumption DEF Ask, AskIds
  <2>2. /\ at'[t].id = asked'
        /\ \A u \in Turns \ {t} : at'[u] = at[u]
    BY <1>7, <1>a DEF Ask, TypeOK, TurnStates
  <2>3. \A u \in Turns : at[u].step = "waiting" => at[u].id \in 1..asked
    BY <1>a DEF CallOK
  <2>4. OneWaiter'
    BY <1>a, <2>1, <2>2, <2>3 DEF AskInv, OneWaiter
  <2>5. SpentIds'
    BY <1>a, <2>1, <2>2, LoopAssumption DEF AskInv, SpentIds, TypeOK
  <2>6. FreshIds' /\ rows[asked'] = "unused" /\ promise[asked'] = "none"
    BY <1>a, <2>1 DEF AskInv, FreshIds, AskIds, TypeOK
  <2>7. AnswerIsRow'
    BY <1>a, <2>1, <2>6 DEF AskInv, AnswerIsRow, TypeOK
  <2>8. ApprovedBeforeRun'
    BY <1>a, <2>1, <2>6 DEF AskInv, ApprovedBeforeRun, TypeOK
  <2> QED BY <2>4, <2>5, <2>6, <2>7, <2>8 DEF AskInv
<1>8. ASSUME NEW t \in Turns, AskFails(t) \/ ResumeDenied(t) PROVE AskInv'
  <2>1. Back(t) \/ Go(t, "returning")
    BY <1>8 DEF AskFails, ResumeDenied, Unapproved
  <2>2. NoNewWaiter
    BY <2>1, <1>c, <1>d DEF Steps, Busy
  <2> QED BY <1>8, <2>2, QuietKeeps DEF AskFails, ResumeDenied
<1>9. ASSUME NEW t \in Turns, InlineGranted(t) PROVE AskInv'
  BY <1>9, <1>c, EffectKeeps DEF InlineGranted, Steps, Busy
<1>10. ASSUME NEW t \in Turns, Begin(t) PROVE AskInv'
  <2>1. UNCHANGED <<rows, asked, promise>>
    BY <1>10 DEF Begin
  <2>2. CASE (Back(t) \/ Go(t, "returning") \/ Go(t, "ask")) /\ UNCHANGED ran
    BY <2>1, <2>2, <1>c, <1>d, QuietKeeps DEF Steps, Busy
  <2>3. CASE Go(t, "running") /\ Effect(t) /\ at[t].tool \notin Inline
    <3>1. \/ at[t].step = "waiting" /\ Granted(t)
          \/ at[t].id = 0 /\ at[t].tool \notin Asking \cup Inline
      BY <1>10, <1>a, <2>3 DEF Begin, Admitted, CallOK
    <3> QED BY <2>1, <2>3, <3>1, <1>c, EffectKeeps DEF Steps, Busy
  <2> QED BY <1>10, <2>2, <2>3 DEF Begin
<1>11. ASSUME NEW t \in Turns, Return(t) \/ ToolFails(t) PROVE AskInv'
  BY <1>11, <1>d, QuietKeeps DEF Return, ToolFails
<1>12. ASSUME NEW i \in AskIds, Reply(i) \/ Timer(i) PROVE AskInv'
  <2>1. PICK v \in {"approved", "denied"} : Decide(i, v)
    BY <1>12 DEF Reply, Timer, TimeoutStatus
  <2>2. /\ rows[i] = "pending" /\ rows' = [rows EXCEPT ![i] = v]
        /\ UNCHANGED <<at, asked, ran>>
        /\ promise' = promise \/ promise' = [promise EXCEPT ![i] = v]
    BY <2>1 DEF Decide, Undecided
  <2>3. promise[i] = "none"
    BY <2>2 DEF AskInv, AnswerIsRow, TurnInv, TypeOK
  <2>a. i <= asked
    BY <2>2, <1>a DEF AskInv, FreshIds, AskIds
  <2>b. FreshIds'
    BY <2>2, <2>a, <1>a DEF AskInv, FreshIds, TypeOK
  <2>4. FreshIds' /\ AnswerIsRow'
    BY <2>2, <2>3, <2>b, <1>a DEF AskInv, AnswerIsRow, TypeOK
  <2>5. ApprovedBeforeRun'
    BY <2>2, <1>a DEF AskInv, ApprovedBeforeRun, TypeOK
  <2> QED BY <2>2, <2>4, <2>5 DEF AskInv, OneWaiter, SpentIds
<1>13. CASE ResetWindow \/ UNCHANGED vars
  BY <1>13, QuietKeeps DEF ResetWindow, vars, NoNewWaiter
<1>14. CASE Restart
  <2>1. \A u \in Turns : at'[u].step # "waiting"
    BY <1>14, FreshRecords DEF Restart, Busy
  <2>2. promise' = [i \in AskIds |-> "none"] /\ UNCHANGED <<rows, asked, ran>>
    BY <1>14 DEF Restart
  <2> QED BY <2>1, <2>2 DEF AskInv, FreshIds, OneWaiter, SpentIds, AnswerIsRow,
                            ApprovedBeforeRun
<1> QED
  BY <1>1, <1>2, <1>3, <1>4, <1>5, <1>6, <1>7, <1>8, <1>9, <1>10, <1>11, <1>12, <1>13,
     <1>14 DEF Next, Step, Approval, Run

-----------------------------------------------------------------------------
(* Scope. *)

SoloScope == SoloInv /\ ScopeRespected

LEMMA ScopeInit == Init => SoloScope
  BY FreshRecords DEF Init, SoloScope, SoloInv, Solo, ScopeRespected, InOwnScope, Busy

\* No turn comes under way, is scoped anew, or starts to ask on its own.
Steady ==
    \A u \in Turns :
        /\ at'[u].step \in Busy => at[u].step \in Busy /\ (at'[u].scoped => at[u].scoped)
        /\ at'[u].step \in {"ask", "waiting"} /\ at'[u].tool \in Inline =>
             at[u].step \in {"ask", "waiting"} /\ at'[u].tool = at[u].tool

LEMMA SteadyKeeps ==
    ASSUME SoloScope, Steady, UNCHANGED <<active, shared, ran>>
    PROVE  SoloScope'
<1>1. ASSUME Solo PROVE Solo'
  <2>1. active' = active
    OBVIOUS
  <2>2. \A t \in Turns : at'[t].step \in {"ask", "waiting"} => at'[t].step \in Busy
    BY DEF Busy
  <2> QED BY <1>1, <2>1, <2>2 DEF Solo, Steady
<1>2. ScopeRespected'
  BY DEF SoloScope, ScopeRespected, InOwnScope
<1> QED BY <1>1, <1>2 DEF SoloScope, SoloInv, Solo

LEMMA EffectInScope ==
    ASSUME SoloScope, Steady, UNCHANGED <<active, shared>>, NEW t \in Turns, Effect(t),
           ~shared /\ at[t].scoped => at[t].tool \in Scope[t]
    PROVE  SoloScope'
<1>1. ASSUME Solo PROVE Solo'
  <2>1. active' = active
    OBVIOUS
  <2>2. \A u \in Turns : at'[u].step \in {"ask", "waiting"} => at'[u].step \in Busy
    BY DEF Busy
  <2> QED BY <1>1, <2>1, <2>2 DEF Solo, Steady
<1>2. ASSUME ~shared, InOwnScope PROVE InOwnScope'
  BY <1>2 DEF InOwnScope, Effect
<1> QED BY <1>1, <1>2 DEF SoloScope, SoloInv, Solo, ScopeRespected

LEMMA ScopeStep == ASSUME TurnInv, SoloScope, [Next]_vars PROVE SoloScope'
<1> USE DEF approvals
<1>a. TypeOK /\ \A t \in Turns : at[t] \in TurnStates /\ CallOK(at[t], asked)
  BY DEF TurnInv, TypeOK, CallInv
<1>c. ASSUME NEW t \in Turns, NEW x \in Steps, Go(t, x), at[t].step \in Busy,
             x \in {"ask", "waiting"} /\ at[t].tool \in Inline
               => at[t].step \in {"ask", "waiting"}
      PROVE  Steady
  <2>1. Moves(t, [at[t] EXCEPT !.step = x]) /\ at'[t].step = x
        /\ at'[t].tool = at[t].tool /\ at'[t].scoped = at[t].scoped
    BY <1>a, <1>c, GoMoves
  <2> QED BY <1>c, <2>1 DEF Steady, Moves
<1>d. ASSUME NEW t \in Turns, Back(t), at[t].step \in Busy PROVE Steady
  <2>1. Moves(t, at'[t]) /\ at'[t].step = "model" /\ at'[t].scoped = at[t].scoped
    BY <1>a, <1>d, BackMoves
  <2> QED BY <1>d, <2>1 DEF Steady, Moves
<1>1. ASSUME NEW t \in Turns, Enter(t) PROVE SoloScope'
  <2>1. CASE \E u \in Turns : at[u].step \in Busy
    BY <1>1, <2>1 DEF Enter, SoloScope, SoloInv, Solo, ScopeRespected
  <2>2. CASE \A u \in Turns : at[u].step \notin Busy
    <3>1. at[t].step = "idle" /\ ~at[t].scoped
      BY <1>1, <1>a DEF Enter, CallOK
    <3>2. Moves(t, [at[t] EXCEPT !.step = "routing"]) /\ at'[t].step = "routing"
          /\ at'[t].scoped = at[t].scoped
      BY <1>1, <1>a, GoMoves DEF Enter, Steps, Busy
    <3>b. \A u \in Turns : at'[u].step \in Busy => u = t
      BY <2>2, <3>2 DEF Moves
    <3>a. \A u \in Turns : at'[u].step \notin {"ask", "waiting"}
      BY <3>b, <3>2 DEF Busy
    <3>c. ~at'[t].scoped
      BY <1>1, <1>a, <3>1 DEF Enter, Go, TypeOK, TurnStates
    <3>3. SoloInv'
      BY <3>a, <3>b, <3>c DEF SoloInv, Solo
    <3>4. ScopeRespected'
      BY <1>1 DEF Enter, SoloScope, ScopeRespected, InOwnScope
    <3> QED BY <3>3, <3>4 DEF SoloScope
  <2> QED BY <2>1, <2>2
<1>2. ASSUME NEW t \in Turns, Register(t) PROVE SoloScope'
  <2>1. at[t].step = "routing" /\ at[t].step \in Busy
    BY <1>2 DEF Register, Busy
  <2>2. CASE Go(t, "model") /\ UNCHANGED active
    BY <1>2, <2>1, <2>2, <1>c, SteadyKeeps DEF Register, Steps, Busy
  <2>3. CASE active' = t
             /\ at' = [at EXCEPT ![t].step = "model", ![t].scoped = TRUE]
    <3>1. at'[t].step = "model" /\ \A u \in Turns \ {t} : at'[u] = at[u]
      BY <2>3, <1>a DEF TypeOK, TurnStates
    <3>2. SoloInv'
      BY <1>2, <2>1, <2>3, <3>1 DEF Register, SoloScope, SoloInv, Solo
    <3>3. ScopeRespected'
      BY <1>2 DEF Register, SoloScope, ScopeRespected, InOwnScope
    <3> QED BY <3>2, <3>3 DEF SoloScope
  <2> QED BY <1>2, <2>2, <2>3 DEF Register
<1>3. ASSUME NEW t \in Turns, EndTurn(t) PROVE SoloScope'
  <2>1. /\ at[t].step \in Busy /\ at'[t].step \notin Busy
        /\ \A u \in Turns \ {t} : at'[u] = at[u]
        /\ UNCHANGED <<ran, shared>>
    BY <1>3, <1>a, FreshRecords DEF EndTurn, Close, TypeOK, Busy
  <2>2. SoloInv'
    BY <2>1 DEF SoloScope, SoloInv, Solo, Busy
  <2>3. ScopeRespected'
    BY <2>1 DEF SoloScope, ScopeRespected, InOwnScope
  <2> QED BY <2>2, <2>3 DEF SoloScope
<1>4. ASSUME NEW t \in Turns, Regenerate(t) PROVE SoloScope'
  <2>1. Steady
    BY <1>4, <1>a DEF Regenerate, Steady, TypeOK, TurnStates
  <2> QED BY <1>4, <2>1, SteadyKeeps DEF Regenerate
<1>5. ASSUME NEW t \in Turns, NEW tool \in Tools, ModelCalls(t, tool) PROVE SoloScope'
  <2>1. Steady
    BY <1>5, <1>a DEF ModelCalls, Steady, TypeOK, TurnStates
  <2> QED BY <1>5, <2>1, SteadyKeeps DEF ModelCalls
<1>6. ASSUME NEW t \in Turns, CheckCall(t) PROVE SoloScope'
  <2>1. Steady
    BY <1>6, <1>c, LoopAssumption DEF CheckCall, Steps, Busy
  <2> QED BY <1>6, <2>1, SteadyKeeps DEF CheckCall
<1>7. ASSUME NEW t \in Turns, Ask(t) PROVE SoloScope'
  <2>1. Steady
    BY <1>7, <1>a DEF Ask, Steady, TypeOK, TurnStates
  <2> QED BY <1>7, <2>1, SteadyKeeps DEF Ask
<1>8. ASSUME NEW t \in Turns, AskFails(t) \/ ResumeDenied(t) PROVE SoloScope'
  <2>1. (Back(t) \/ Go(t, "returning")) /\ at[t].step \in Busy
    BY <1>8 DEF AskFails, ResumeDenied, Unapproved, Busy
  <2>2. Steady
    BY <2>1, <1>c, <1>d DEF Steps, Busy
  <2> QED BY <1>8, <2>2, SteadyKeeps DEF AskFails, ResumeDenied
<1>9. ASSUME NEW t \in Turns, InlineGranted(t) PROVE SoloScope'
  <2>1. Steady
    BY <1>9, <1>c DEF InlineGranted, Steps, Busy
  <2>2. ~shared /\ at[t].scoped => at[t].tool \in Scope[t]
    BY <1>9 DEF InlineGranted, SoloScope, SoloInv, Solo
  <2> QED BY <1>9, <2>1, <2>2, EffectInScope DEF InlineGranted
<1>10. ASSUME NEW t \in Turns, Begin(t) PROVE SoloScope'
  <2>1. at[t].step \in Busy /\ UNCHANGED <<active, shared>>
    BY <1>10 DEF Begin, Admitted, Busy
  <2>2. ASSUME InScope(at[t].tool), ~shared, at[t].scoped PROVE at[t].tool \in Scope[t]
    BY <2>1, <2>2, LoopAssumption DEF InScope, SoloScope, SoloInv, Solo
  <2>3. CASE (Back(t) \/ Go(t, "returning")) /\ UNCHANGED ran
    <3>1. Steady
      BY <2>1, <2>3, <1>c, <1>d DEF Steps, Busy
    <3> QED BY <2>1, <2>3, <3>1, SteadyKeeps
  <2>4. CASE Go(t, "running") /\ Effect(t) /\ InScope(at[t].tool)
    <3>1. Steady
      BY <2>1, <2>4, <1>c DEF Steps, Busy
    <3> QED BY <2>1, <2>2, <2>4, <3>1, EffectInScope
  <2>5. CASE Go(t, "ask") /\ UNCHANGED ran /\ InScope(at[t].tool)
    <3>1. Moves(t, [at[t] EXCEPT !.step = "ask"]) /\ at'[t].step = "ask"
          /\ at'[t].tool = at[t].tool /\ at'[t].scoped = at[t].scoped
      BY <1>a, <2>5, GoMoves DEF Steps, Busy
    <3>2. SoloInv'
      BY <2>1, <2>2, <2>5, <3>1 DEF SoloScope, SoloInv, Solo, Moves
    <3>3. ScopeRespected'
      BY <2>1, <2>5 DEF SoloScope, ScopeRespected, InOwnScope
    <3> QED BY <3>2, <3>3 DEF SoloScope
  <2> QED BY <1>10, <2>3, <2>4, <2>5 DEF Begin
<1>11. ASSUME NEW t \in Turns, Return(t) \/ ToolFails(t) PROVE SoloScope'
  <2>1. Steady
    BY <1>11, <1>d DEF Return, ToolFails, Busy
  <2> QED BY <1>11, <2>1, SteadyKeeps DEF Return, ToolFails
<1>12. CASE ResetWindow \/ UNCHANGED vars \/ \E i \in AskIds : Reply(i) \/ Timer(i)
  <2>1. UNCHANGED <<at, active, shared, ran>>
    BY <1>12 DEF ResetWindow, vars, Reply, Timer, Decide
  <2> QED BY <2>1, SteadyKeeps DEF Steady
<1>13. CASE Restart
  <2>1. \A u \in Turns : at'[u].step \notin Busy
    BY <1>13, FreshRecords DEF Restart, Busy
  <2>2. UNCHANGED <<ran, shared>>
    BY <1>13 DEF Restart
  <2>3. SoloInv'
    BY <2>1 DEF SoloInv, Solo, Busy
  <2> QED BY <2>2, <2>3 DEF SoloScope, ScopeRespected, InOwnScope
<1> QED
  BY <1>1, <1>2, <1>3, <1>4, <1>5, <1>6, <1>7, <1>8, <1>9, <1>10, <1>11, <1>12, <1>13
     DEF Next, Step, Approval, Run

-----------------------------------------------------------------------------
(* Quota. *)

LEMMA AgentSets ==
    ASSUME NEW S \in SUBSET Agents
    PROVE  /\ IsFiniteSet(S) /\ Cardinality(S) \in Nat /\ Cardinality(Agents) \in Nat
           /\ Cardinality(S) <= Cardinality(Agents)
  BY LoopAssumption, FS_Subset, FS_CardinalityType

LEMMA FlyingAgents == Flying \in SUBSET Agents /\ Flying' \in SUBSET Agents
  BY DEF Flying

LEMMA QuotaInit == Init => QuotaInv
<1> SUFFICES ASSUME Init PROVE QuotaInv
  OBVIOUS
<1>1. Flying = {}
  BY FreshRecords DEF Init, Flying, InFlight
<1>2. Cardinality(Agents) \in Nat /\ used = 0 /\ Cardinality(Flying) = 0
  BY <1>1, FlyingAgents, AgentSets, FS_EmptySet DEF Init
<1> QED BY <1>2, LoopAssumption DEF QuotaInv

\* No call passes the limiter, and nothing is consumed.
LEMMA Grounded ==
    ASSUME QuotaInv, used \in Nat, used' \in Nat, used' <= used,
           \A u \in Turns : InFlight(u)' => InFlight(u)
    PROVE  QuotaInv'
<1>1. Flying' \subseteq Flying
  BY DEF Flying
<1>2. Cardinality(Flying') <= Cardinality(Flying)
  BY <1>1, FlyingAgents, AgentSets, FS_Subset
<1> QED BY <1>2, FlyingAgents, AgentSets, LoopAssumption DEF QuotaInv

LEMMA QuotaStep == ASSUME TurnInv, QuotaInv, [Next]_vars PROVE QuotaInv'
<1> USE DEF approvals
<1>a. TypeOK /\ used \in Nat /\ \A t \in Turns : at[t] \in TurnStates /\ CallOK(at[t], asked)
  BY DEF TurnInv, TypeOK, CallInv
<1>b. ASSUME used' = used, \A u \in Turns : InFlight(u)' => InFlight(u) PROVE QuotaInv'
  BY <1>a, <1>b, Grounded
<1>c. ASSUME NEW t \in Turns, NEW x \in Steps, Go(t, x), used' = used,
             [at[t] EXCEPT !.step = x].step = x,
             \/ x \notin {"running", "returning", "ask", "waiting"}
             \/ x = "ask" /\ at[t].tool \notin Inline
             \/ InFlight(t)
      PROVE  QuotaInv'
  <2>1. Moves(t, [at[t] EXCEPT !.step = x]) /\ at'[t].step = x /\ at'[t].tool = at[t].tool
    BY <1>a, <1>c, GoMoves
  <2>2. \A u \in Turns : InFlight(u)' => InFlight(u)
    BY <1>c, <2>1 DEF InFlight, Moves
  <2> QED BY <1>b, <1>c, <2>2
<1>d. ASSUME NEW t \in Turns, Back(t) PROVE \A u \in Turns : InFlight(u)' => InFlight(u)
  <2>1. Moves(t, at'[t]) /\ at'[t].step = "model"
    BY <1>a, <1>d, BackMoves
  <2> QED BY <2>1 DEF InFlight, Moves
<1>e. \A t \in Turns, x \in Steps : [at[t] EXCEPT !.step = x].step = x
  BY <1>a, RecordStep
<1>1. ASSUME NEW t \in Turns, Enter(t) PROVE QuotaInv'
  BY <1>1, <1>c, <1>e DEF Enter, Steps, Busy
<1>2. ASSUME NEW t \in Turns, Register(t) PROVE QuotaInv'
  <2>1. \A u \in Turns : InFlight(u)' => InFlight(u)
    BY <1>2, <1>a DEF Register, Go, InFlight, TypeOK, TurnStates
  <2> QED BY <1>2, <2>1, <1>b DEF Register
<1>3. ASSUME NEW t \in Turns, EndTurn(t) PROVE QuotaInv'
  <2>1. \A u \in Turns : InFlight(u)' => InFlight(u)
    BY <1>3, <1>a, FreshRecords DEF EndTurn, Close, InFlight, TypeOK
  <2> QED BY <1>3, <2>1, <1>b DEF EndTurn, Close
<1>4. ASSUME NEW t \in Turns, Regenerate(t) PROVE QuotaInv'
  <2>1. \A u \in Turns : InFlight(u)' => InFlight(u)
    BY <1>4, <1>a DEF Regenerate, InFlight, TypeOK, TurnStates
  <2> QED BY <1>4, <2>1, <1>b DEF Regenerate
<1>5. ASSUME NEW t \in Turns, NEW tool \in Tools, ModelCalls(t, tool) PROVE QuotaInv'
  <2>1. \A u \in Turns : InFlight(u)' => InFlight(u)
    BY <1>5, <1>a DEF ModelCalls, InFlight, TypeOK, TurnStates
  <2> QED BY <1>5, <2>1, <1>b DEF ModelCalls
<1>6. ASSUME NEW t \in Turns, CheckCall(t) PROVE QuotaInv'
  BY <1>6, <1>c, <1>e, LoopAssumption DEF CheckCall, Steps, Busy
<1>7. ASSUME NEW t \in Turns, Ask(t) PROVE QuotaInv'
  <2>1. \A u \in Turns : InFlight(u)' => InFlight(u)
    BY <1>7, <1>a DEF Ask, InFlight, TypeOK, TurnStates
  <2> QED BY <1>7, <2>1, <1>b DEF Ask
<1>8. ASSUME NEW t \in Turns, AskFails(t) \/ ResumeDenied(t) PROVE QuotaInv'
  <2>1. used' = used
    BY <1>8 DEF AskFails, ResumeDenied
  <2>2. CASE Back(t)
    BY <2>1, <2>2, <1>b, <1>d
  <2>3. CASE Go(t, "returning") /\ at[t].tool \in Inline
    <3>1. InFlight(t)
      BY <1>8, <2>3 DEF AskFails, ResumeDenied, InFlight
    <3> QED BY <2>1, <2>3, <3>1, <1>c, <1>e DEF Steps, Busy
  <2> QED BY <1>8, <2>2, <2>3 DEF AskFails, ResumeDenied, Unapproved
<1>9. ASSUME NEW t \in Turns, InlineGranted(t) PROVE QuotaInv'
  <2>1. InFlight(t)
    BY <1>9 DEF InlineGranted, InFlight
  <2> QED BY <1>9, <2>1, <1>c, <1>e DEF InlineGranted, Steps, Busy
<1>10. ASSUME NEW t \in Turns, Begin(t) PROVE QuotaInv'
  <2>1. used' = used
    BY <1>10 DEF Begin
  <2>2. CASE Back(t)
    BY <2>1, <2>2, <1>b, <1>d
  <2>3. CASE ~OverLimit
    \* The limiter says used < Limit, and the flying agents are some of the agents.
    BY <2>1, <2>3, <1>a, FlyingAgents, AgentSets, LoopAssumption DEF OverLimit, QuotaInv
  <2> QED BY <1>10, <2>2, <2>3 DEF Begin
<1>11. ASSUME NEW t \in Turns, Return(t) PROVE QuotaInv'
  <2>1. InFlight(t) /\ at[t].step \in Busy /\ used' = used + 1
    BY <1>11 DEF Return, InFlight, Busy
  <2>2. Moves(t, at'[t]) /\ at'[t].step = "model"
    BY <1>11, <1>a, BackMoves DEF Return
  <2>3. ~InFlight(t)' /\ \A u \in Turns : InFlight(u)' => InFlight(u)
    BY <2>2 DEF InFlight, Moves
  <2>4. Agent[t] \in Agents /\ \A u \in Turns : InFlight(u) /\ Agent[u] = Agent[t] => u = t
    BY <2>1, LoopAssumption DEF TurnInv, OneTurn, InFlight, Busy
  <2>5. Flying' \subseteq Flying \ {Agent[t]} /\ Agent[t] \in Flying
    BY <2>1, <2>3, <2>4 DEF Flying
  <2>6. /\ Cardinality(Flying \ {Agent[t]}) = Cardinality(Flying) - 1
        /\ IsFiniteSet(Flying \ {Agent[t]})
    BY <2>5, FlyingAgents, AgentSets, FS_RemoveElement
  <2>7. Cardinality(Flying') <= Cardinality(Flying) - 1
    BY <2>5, <2>6, FS_Subset
  <2> QED BY <2>1, <2>7, <1>a, FlyingAgents, AgentSets, LoopAssumption DEF QuotaInv
<1>12. ASSUME NEW t \in Turns, ToolFails(t) PROVE QuotaInv'
  BY <1>12, <1>b, <1>d DEF ToolFails
<1>13. CASE UNCHANGED vars \/ \E i \in AskIds : Reply(i) \/ Timer(i)
  <2>1. UNCHANGED <<at, used>>
    BY <1>13 DEF vars, Reply, Timer, Decide
  <2> QED BY <2>1, <1>b DEF InFlight
<1>14. CASE ResetWindow
  <2>1. at' = at /\ used' = 0 /\ used > 0
    BY <1>14 DEF ResetWindow
  <2> QED BY <2>1, <1>a, Grounded DEF InFlight
<1>15. CASE Restart
  <2>1. \A u \in Turns : ~InFlight(u)'
    BY <1>15, FreshRecords DEF Restart, InFlight, Busy
  <2> QED BY <1>15, <2>1, <1>b DEF Restart
<1> QED
  BY <1>1, <1>2, <1>3, <1>4, <1>5, <1>6, <1>7, <1>8, <1>9, <1>10, <1>11, <1>12, <1>13,
     <1>14, <1>15 DEF Next, Step, Approval, Run

-----------------------------------------------------------------------------
LEMMA Inductive == Spec => []IInv
<1>1. Init => IInv
  BY TurnInit, AskInit, ScopeInit, QuotaInit DEF IInv, SoloScope
<1>2. IInv /\ [Next]_vars => IInv'
  BY TurnStep, AskStep, ScopeStep, QuotaStep DEF IInv, SoloScope
<1> QED BY <1>1, <1>2, PTL DEF Spec

\* Every variable keeps its type.
THEOREM TypeCorrect == Spec => []TypeOK
<1>1. IInv => TypeOK
  BY DEF IInv, TurnInv
<1> QED BY <1>1, Inductive, PTL

\* Two turns of one agent are never under way together (agents/registry.js:39).
THEOREM Serialised == Spec => []OneTurn
<1>1. IInv => OneTurn
  BY DEF IInv, TurnInv
<1> QED BY <1>1, Inductive, PTL

\* A tool that needs approval runs only on one of its own that the owner gave,
\* and only once: neither the timer, nor a restart, nor another turn stands in.
THEOREM ApprovalFirst == Spec => []ApprovedBeforeRun
<1>1. IInv => ApprovedBeforeRun
  BY DEF IInv, AskInv
<1> QED BY <1>1, Inductive, PTL

\* The table and the callers never disagree on an answer, however many replies,
\* timers and commands name the same id.
THEOREM OneAnswer == Spec => []AnswerIsRow
<1>1. IInv => AnswerIsRow
  BY DEF IInv, AskInv
<1> QED BY <1>1, Inductive, PTL

\* While no two turns overlap, no tool runs outside its turn's scope.
THEOREM SoloInScope == Spec => []ScopeRespected
<1>1. IInv => ScopeRespected
  BY DEF IInv
<1> QED BY <1>1, Inductive, PTL

\* The limiter is passed by fewer calls than there are agents, for any limit.
THEOREM QuotaBounded == Spec => []QuotaHeld
<1>1. TypeOK /\ QuotaInv => QuotaHeld
  BY FlyingAgents, AgentSets, LoopAssumption DEF QuotaInv, QuotaHeld, TypeOK
<1>2. IInv => QuotaHeld
  BY <1>1 DEF IInv, TurnInv
<1> QED BY <1>2, Inductive, PTL

\* The invariant the run checks, for any turns, agents, tools and scopes.
THEOREM LoopIsSafe == Spec => []LoopSafe
BY TypeCorrect, Serialised, ApprovalFirst, OneAnswer, SoloInScope, PTL DEF LoopSafe
=============================================================================
