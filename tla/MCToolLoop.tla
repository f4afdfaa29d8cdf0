----------------------------- MODULE MCToolLoop -----------------------------
(* ToolLoop for TLC: two turns of charlie and one of echo. *)
EXTENDS ToolLoop

TwoAgents  == {"charlie", "echo"}
ThreeTurns == {"c1", "c2", "e1"}
TwoTurns   == {"c1", "e1"}
AgentOf    == [t \in ThreeTurns |-> IF t = "e1" THEN "echo" ELSE "charlie"]
AgentOfTwo == [t \in TwoTurns |-> AgentOf[t]]

\* A skill write the gate stops, a workflow update that asks for itself, a
\* publishing call and a read.
AllTools  == {"skill_write", "n8n_update", "publish", "read"}
ScopeOf   == [t \in ThreeTurns |->
                CASE t = "c1" -> {"skill_write", "read"}
                  [] t = "c2" -> {"n8n_update", "publish"}
                  [] t = "e1" -> {"read"}]
ScopeOfTwo == [t \in TwoTurns |-> ScopeOf[t]]
Writes     == {"skill_write"}
Flows      == {"n8n_update"}
Posts      == {"publish"}
=============================================================================
