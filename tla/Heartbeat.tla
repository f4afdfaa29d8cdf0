----------------------------- MODULE Heartbeat -----------------------------
(***************************************************************************)
(* The heartbeat of src/src/core/heartbeat.js: scheduled prompts, graph    *)
(* discovery and auto-learn questions, all charged to one daily cap.       *)
(* Every timer fires again while an earlier activation still waits for the *)
(* model; a Beat is one activation.  The counters live in memory.          *)
(***************************************************************************)
EXTENDS Integers, FiniteSets

CONSTANTS Beat,         \* activations that may be under way at once
          CostCap,      \* heartbeat.maxDailyCost, in cost units
          TurnCost,     \* the most one model call costs
          Queries,      \* the number of graph discovery's queries
          MaxAsked      \* autoLearn.maxQuestionsPerDay

ASSUME HeartbeatAssumption == /\ {CostCap, TurnCost, MaxAsked} \subseteq Nat
                              /\ Queries \in Nat \ {0}
                              /\ IsFiniteSet(Beat) /\ Beat # {}

VARIABLES beating,      \* running
          graph,        \* graphDriven, with the knowledge graph connected
          cost,         \* heartbeatCostToday
          asked,        \* _learnQuestionsToday
          waited,       \* minIntervalHours have passed since the last question
          bootDue,      \* the question asked once after boot has not fired
          beat,         \* what each activation is doing
          left          \* the queries a discovery has still to put

beatVars == <<beating, graph, cost, asked, waited, bootDue, beat, left>>

HeartbeatTypeOK ==
  /\ {beating, graph, waited, bootDue} \subseteq BOOLEAN
  /\ cost \in Nat /\ asked \in Nat
  /\ beat \in [Beat -> {"idle", "task", "discovery", "question"}]
  /\ left \in [Beat -> 0..Queries]

HeartbeatInit ==
  /\ beating = TRUE /\ graph \in BOOLEAN
  /\ cost = 0 /\ asked = 0 /\ waited = TRUE /\ bootDue = TRUE
  /\ beat = [b \in Beat |-> "idle"]
  /\ left = [b \in Beat |-> 0]

UnderCap == cost < CostCap

Begin(b, what) ==
  /\ beating /\ beat[b] = "idle"
  /\ beat' = [beat EXCEPT ![b] = what]

End(b) == beat' = [beat EXCEPT ![b] = "idle"]

Charge == \E c \in 0..TurnCost : cost' = cost + c

\* _runTask up to the model call.
TaskFires(b) ==
  /\ UnderCap
  /\ Begin(b, "task")
  /\ UNCHANGED <<beating, graph, cost, asked, waited, bootDue, left>>

\* The answer is charged, and queued for its channel; a call that throws is free.
TaskEnds(b) ==
  /\ beat[b] = "task"
  /\ End(b) /\ Charge
  /\ UNCHANGED <<beating, graph, asked, waited, bootDue, left>>

\* The discovery timer: the cap is read once, before all the queries.
DiscoveryFires(b) ==
  /\ graph /\ UnderCap
  /\ Begin(b, "discovery")
  /\ left' = [left EXCEPT ![b] = Queries]
  /\ UNCHANGED <<beating, graph, cost, asked, waited, bootDue>>

\* One query is answered, with or without a model call; an error ends the rest.
QueryEnds(b) ==
  /\ beat[b] = "discovery"
  /\ Charge
  /\ \E n \in {0, left[b] - 1} :
       /\ left' = [left EXCEPT ![b] = n]
       /\ IF n = 0 THEN End(b) ELSE beat' = beat
  /\ UNCHANGED <<beating, graph, asked, waited, bootDue>>

\* The auto-learn timer.
QuestionFires(b) ==
  /\ asked < MaxAsked /\ waited /\ UnderCap
  /\ Begin(b, "question")
  /\ UNCHANGED <<beating, graph, cost, asked, waited, bootDue, left>>

\* The timer set once at boot looks at neither the interval nor the cap.
BootQuestionFires(b) ==
  /\ bootDue /\ bootDue' = FALSE
  /\ asked < MaxAsked
  /\ Begin(b, "question")
  /\ UNCHANGED <<beating, graph, cost, asked, waited, left>>

\* _askLearnQuestion: a question is generated, or taken from the templates, and
\* counted.
QuestionEnds(b) ==
  /\ beat[b] = "question"
  /\ End(b) /\ Charge
  /\ asked' = asked + 1 /\ waited' = FALSE
  /\ UNCHANGED <<beating, graph, bootDue, left>>

IntervalPasses ==
  /\ ~waited /\ waited' = TRUE
  /\ UNCHANGED <<beating, graph, cost, asked, bootDue, beat, left>>

\* The timer that resets the day's counters is one that _startGraphDiscovery sets.
DayResets ==
  /\ beating /\ graph
  /\ cost' = 0 /\ asked' = 0
  /\ UNCHANGED <<beating, graph, waited, bootDue, beat, left>>

\* stop(): the timers go, the activations under way go on.
HeartbeatStop ==
  /\ beating /\ beating' = FALSE
  /\ UNCHANGED <<graph, cost, asked, waited, bootDue, beat, left>>

BeatEnds(b) == TaskEnds(b) \/ QueryEnds(b) \/ QuestionEnds(b)

HeartbeatNext ==
  \/ \E b \in Beat : \/ TaskFires(b) \/ DiscoveryFires(b)
                     \/ QuestionFires(b) \/ BootQuestionFires(b) \/ BeatEnds(b)
  \/ IntervalPasses \/ DayResets \/ HeartbeatStop

HeartbeatSpec == HeartbeatInit /\ [][HeartbeatNext]_beatVars

-----------------------------------------------------------------------------
\* The caps bound what a day may cost and ask: above them goes only what the
\* activations that were under way when they were reached still add, and the
\* question asked after boot (_runTask, _startGraphDiscovery, _startAutoLearn).
CapsHold ==
  /\ cost <= CostCap + (Cardinality(Beat) * Queries + 1) * TurnCost
  /\ asked < MaxAsked + Cardinality(Beat)
=============================================================================
