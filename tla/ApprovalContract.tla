-------------------------- MODULE ApprovalContract --------------------------
(***************************************************************************)
(* What the approval gate promises the scan that asks and the owner who    *)
(* answers, with no dictionaries, clocks, sweeps or Telegram: at most one  *)
(* question is put at a time, a tap settles it for good, and the scan is   *)
(* told exactly what was settled.  ApprovalGate implements this module and *)
(* holds the mapping.                                                      *)
(***************************************************************************)
EXTENDS Naturals, FiniteSets

CONSTANT Ids

VARIABLES
    question,  \* "new", "asking", "approved", "skipped", or "closed" untapped
    report,    \* what the scan has been told: "none" until it has an answer
    listed     \* questions a sweep has once taken for expired

cvars == <<question, report, listed>>

Settled == {"approved", "skipped"}

CInit ==
    /\ question = [r \in Ids |-> "new"]
    /\ report = [r \in Ids |-> "none"]
    /\ listed = {}

\* Put question r; any question still open has run out and is closed.
Ask(r) ==
    /\ question[r] = "new" /\ report[r] = "none"
    /\ question' = [q \in Ids |-> IF q = r THEN "asking"
                                  ELSE IF question[q] = "asking" THEN "closed"
                                  ELSE question[q]]
    /\ UNCHANGED <<report, listed>>

\* The owner's tap settles the open question.
Settle(r) ==
    /\ question[r] = "asking"
    /\ \E o \in Settled : question' = [question EXCEPT ![r] = o]
    /\ UNCHANGED <<report, listed>>

\* The question closes unanswered.
Close(r) ==
    /\ question[r] = "asking"
    /\ question' = [question EXCEPT ![r] = "closed"]
    /\ UNCHANGED <<report, listed>>

\* The scan is told of a settled or expired question, and nothing else.  A
\* settled question that a sweep had taken for expired may be told as a timeout,
\* which trades nothing; a timeout is never told as anything else.
Report(r) ==
    /\ report[r] = "none"
    /\ \/ question[r] \in Settled /\ report' = [report EXCEPT ![r] = question[r]]
       \/ /\ question[r] = "closed" \/ (question[r] \in Settled /\ r \in listed)
          /\ report' = [report EXCEPT ![r] = "timeout"]
    /\ UNCHANGED <<question, listed>>

\* The scan is turned away, gives up or dies: it gets no decision.  An open
\* question may close with it, or stay until it runs out.
Drop(r) ==
    /\ report[r] = "none"
    /\ report' = [report EXCEPT ![r] = "failed"]
    /\ \/ UNCHANGED question
       \/ question[r] = "asking" /\ question' = [question EXCEPT ![r] = "closed"]
    /\ UNCHANGED listed

\* The process dies: every open question closes and every scan fails.
Crash ==
    /\ question' = [q \in Ids |-> IF question[q] = "asking" THEN "closed"
                                  ELSE question[q]]
    /\ \E lost \in SUBSET {r \in Ids : question[r] # "new" /\ report[r] = "none"} :
         report' = [r \in Ids |-> IF r \in lost THEN "failed" ELSE report[r]]
    /\ UNCHANGED listed

\* A sweep takes an open question for expired.
List(r) ==
    /\ question[r] = "asking"
    /\ listed' = listed \cup {r}
    /\ UNCHANGED <<question, report>>

CNext == \/ \E r \in Ids : Ask(r) \/ Settle(r) \/ Close(r) \/ Report(r) \/ Drop(r)
                           \/ List(r)
         \/ Crash

CSafe == CInit /\ [][CNext]_cvars

\* Questions do not stay open, and a scan whose question is over is answered.
CFair == \A r \in Ids : /\ WF_cvars(Close(r) \/ Settle(r))
                         /\ WF_cvars(Report(r))
=============================================================================
