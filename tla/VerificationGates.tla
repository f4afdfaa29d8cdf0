------------------------- MODULE VerificationGates -------------------------
(***************************************************************************)
(* The gates on a reply (src/src/agents/gates.js): each claim of it needs  *)
(* evidence among the tool rows of the audit log (src/src/security/audit.js*)
(* , written by the callbacks of src/src/index.js for every agent), or the *)
(* reply is hedged, asked for again, and at last replaced.                 *)
(*                                                                         *)
(* A sentence is what the patterns find in it: its kinds, the entity it    *)
(* cites, and whether it recites the briefing.  Kinds of claim: "phantom", *)
(* a tool that does not exist; "completion"; "state", "character";         *)
(* "dispatch"; "claude", "specialist", what one of them has done.  Kinds   *)
(* of citation: "uuid"; "name", no identifier of a machine; "explained",   *)
(* as an example.  Suppressed sentences (negated, questions, future) make  *)
(* no claim and are left out.                                              *)
(***************************************************************************)
EXTENDS Integers, Sequences, FiniteSets, SequencesExt, FiniteSetsExt

CONSTANTS Entity,      \* identifiers a claim can cite
          None,        \* no entity
          Briefed,     \* those of the bootstrap snapshot
          FromUser,    \* those of the user's messages
          Replies,     \* what may be said: sets of sentences
          Tools,       \* tools called: some of "create", "read", "shell_exec",
                       \* "claude_code_dispatch", "delegate_to"
          Arguments,   \* what a call may say, and an answer
          Answers,
          MaxRows,     \* bound: tool rows logged
          MaxAttempts  \* generations of a turn: 3

ASSUME GatesAssumption ==
  /\ None \notin Entity /\ Briefed \cup FromUser \subseteq Entity
  /\ Arguments \subseteq [about : Entity \cup {None}, cut : BOOLEAN]
  /\ Answers \subseteq [status : {"success", "pseudo", "error"}, about : Entity \cup {None},
                        cut : BOOLEAN]
  /\ MaxRows \in Nat /\ MaxAttempts \in Nat \ {0}

VARIABLES log,      \* tool rows, oldest first
          before,   \* rows from before the turn, or from before the window of the gates
          tries, step, reply,
          outcome   \* what the user reads: nothing yet, the reply, the escalation

gateVars == <<log, before, tries, step, reply, outcome>>

\* "pseudo" is booked as a success, but reads as if nothing ran: out of scope, or
\* queued for review.  The row is cut at 200 characters: of one that is longer the id can not
\* be read again.  The entity of a call is issued if a database wrote it there.
ToolRow == [id : 1..MaxRows, tool : Tools \cup {"claude_code_result"},
            status : {"call", "success", "pseudo", "error"},
            about : Entity \cup {None}, cut : BOOLEAN, issued : BOOLEAN]

GatesTypeOK ==
  /\ log \in Seq(ToolRow) /\ before \in 0..Len(log) /\ tries \in 0..MaxAttempts
  /\ step \in {"idle", "generate", "gate"} /\ reply \subseteq UNION Replies
  /\ outcome \in {"nothing", "reply", "escalation"}

GatesInit ==
  /\ log = <<>> /\ before = 0 /\ tries = 0 /\ step = "idle"
  /\ reply = {} /\ outcome = "nothing"

-----------------------------------------------------------------------------
(* The tool rows *)

IsCall(row) == row.status = "call"
Calls == {row.id : row \in {r \in ToSet(log) : IsCall(r)}}
Returned == {row.id : row \in {r \in ToSet(log) : ~IsCall(r)}}

CallRow(tool, about, cut, issued) ==
  [id |-> Cardinality(Calls) + 1, tool |-> tool, status |-> "call",
   about |-> about, cut |-> cut, issued |-> issued]
ResultRow(call, answer) ==
  [call EXCEPT !.status = answer.status, !.about = answer.about, !.cut = answer.cut,
               !.issued = FALSE]

ToolCalled(tool, arg) ==
  /\ step # "gate" /\ Len(log) < MaxRows
  /\ log' = Append(log, CallRow(tool, arg.about, arg.cut, FALSE))
  /\ UNCHANGED <<before, tries, step, reply, outcome>>

ToolReturned(call, answer) ==
  /\ step # "gate" /\ Len(log) < MaxRows
  /\ IsCall(call) /\ call.id \notin Returned
  /\ log' = Append(log, ResultRow(call, answer))
  /\ UNCHANGED <<before, tries, step, reply, outcome>>

\* depositCcEvidence: what Claude Code has finished since is put down as a call
\* and its result.  The call names the task, and the brief the model wrote.
ResultDeposited(arg, issued, answer) ==
  /\ step = "generate" /\ tries = 1 /\ Len(log) + 1 < MaxRows
  /\ issued => ~arg.cut /\ arg.about # None
  /\ LET call == CallRow("claude_code_result", arg.about, arg.cut, issued)
     IN  log' = log \o <<call, ResultRow(call, answer)>>
  /\ UNCHANGED <<before, tries, step, reply, outcome>>

TimePasses ==
  /\ step = "generate" /\ \E n \in before + 1..Len(log) : before' = n
  /\ UNCHANGED <<log, tries, step, reply, outcome>>

\* toolEventsSince and correlatePairs: newest first, each result takes the call
\* of its id; if either's can not be read, the last call before it of its tool
\* that no newer result has taken.
RowId(row) == IF row.cut THEN 0 ELSE row.id
CallOf(result, i, taken) ==
  LET open == {j \in 1..i - 1 : IsCall(log[j]) /\ log[j].tool = result.tool /\ j \notin taken}
      same == {j \in open : ~result.cut /\ RowId(log[j]) = RowId(result)}
      near == {j \in open : result.cut \/ log[j].cut}
  IN  IF same # {} THEN Max(same) ELSE IF near # {} THEN Max(near) ELSE 0
Pairs(after) ==
  LET newest == [k \in 1..Len(log) - after |-> Len(log) + 1 - k]
      match(ps, i) == LET j == CallOf(log[i], i, {p[1] : p \in ps} \cup 1..after)
                      IN  IF IsCall(log[i]) \/ j = 0 THEN ps ELSE ps \cup {<<j, i>>}
  IN  FoldLeft(match, {}, newest)

-----------------------------------------------------------------------------
(* The gates *)

\* isCompletionTool, isStateTool, isAnyDispatch, and what backs the outcome of whom.
CompletionTools == {"create", "shell_exec", "claude_code_result"}
StateTools == {"read", "shell_exec"}
DispatchTools == {"claude_code_dispatch", "delegate_to"}
OutcomeTools(s) == (IF "claude" \in s.kinds THEN {"claude_code_result"} ELSE {})
                   \cup (IF "specialist" \in s.kinds THEN {"delegate_to_result"} ELSE {})

\* Fault: evidence from before the turn counts.
BackedAnytime(s, statuses, relevant, strict, fallback, inResult, briefing) ==
  LET fits == {p \in Pairs(0) : /\ log[p[2]].status \in statuses
                                /\ strict => log[p[2]].tool \in relevant}
      names(p) == \/ log[p[1]].about = s.about
                  \/ (inResult /\ log[p[2]].tool \in relevant /\ log[p[2]].about = s.about)
  IN  IF s.about = None THEN fallback /\ \E p \in fits : log[p[2]].tool \in relevant
      ELSE (\E p \in fits : names(p)) \/ (briefing /\ s.recited /\ s.about \in Briefed)

\* matchEvidence: among the pairs of the turn, within the window, one that names
\* the entity in its arguments, or where it counts in its result; without an
\* entity, one of a tool that may have done it.
Backed(s, statuses, relevant, strict, fallback, inResult, briefing) ==
  LET fits == {p \in Pairs(before) : /\ log[p[2]].status \in statuses
                                     /\ strict => log[p[2]].tool \in relevant}
      names(p) == \/ log[p[1]].about = s.about
                  \/ (inResult /\ log[p[2]].tool \in relevant /\ log[p[2]].about = s.about)
  IN  IF s.about = None THEN fallback /\ \E p \in fits : log[p[2]].tool \in relevant
      ELSE (\E p \in fits : names(p)) \/ (briefing /\ s.recited /\ s.about \in Briefed)

Ok == {"success", "pseudo"}
Ran == Ok \cup {"error"}

GateToolReference(s) == IF "phantom" \in s.kinds THEN "hard" ELSE "pass"

GateCompletion(s) ==
  IF "completion" \in s.kinds /\ ~Backed(s, Ok, CompletionTools, FALSE, TRUE, TRUE, TRUE)
  THEN "hard" ELSE "pass"

\* The probe must have run; if the claim says how it went, well.
GateState(s) ==
  IF "state" \notin s.kinds THEN "pass"
  ELSE IF ~Backed(s, Ran, StateTools, FALSE, TRUE, FALSE, TRUE) THEN "soft"
  ELSE IF /\ "character" \in s.kinds /\ ~Backed(s, Ok, StateTools, FALSE, TRUE, FALSE, FALSE)
          /\ Backed(s, Ran, StateTools, FALSE, TRUE, FALSE, FALSE) THEN "hard"
  ELSE "pass"

\* What Claude Code or a specialist is said to have done needs its result; that
\* something was handed over, a dispatch that succeeded.
GateDelegation(s) ==
  IF \/ /\ OutcomeTools(s) # {}
        /\ ~Backed(s, Ok, OutcomeTools(s), TRUE, FALSE, FALSE, FALSE)
     \/ /\ "dispatch" \in s.kinds /\ OutcomeTools(s) = {}
        /\ ~Backed(s, Ok, DispatchTools, TRUE, TRUE, TRUE, FALSE)
  THEN "hard" ELSE "pass"

\* The identifier comes from the briefing, from the user, or from what a tool
\* answered, now or before; else it is hedged, or refused where it is a UUID or
\* something is said to be done, and nothing explains it: it is an example, a read
\* of this turn may have been cut, or a call that succeeded had it as an argument.
Genuine(i) == log[i].status = "success"
GateEntityEvidence(s) ==
  LET pairs   == {p \in Pairs(0) : Genuine(p[2])}
      sourced == Briefed \cup FromUser \cup {log[i].about : i \in {k \in DOMAIN log : Genuine(k)}}
                 \cup {log[p[1]].about : p \in {q \in pairs : log[q[1]].issued}}
      args    == {log[p[1]].about : p \in {q \in pairs : log[q[1]].tool # "claude_code_result"}}
      readRan == \E i \in before + 1..Len(log) : Genuine(i) /\ log[i].tool \in StateTools
  IN  IF s.about \in sourced \cup {None} \/ "name" \in s.kinds THEN "pass"
      ELSE IF /\ s.kinds \cap {"uuid", "completion"} # {}
              /\ "explained" \notin s.kinds /\ ~readRan /\ s.about \notin args THEN "hard"
      ELSE "soft"

Verdicts(s) == {GateToolReference(s), GateCompletion(s), GateState(s), GateDelegation(s),
                GateEntityEvidence(s)}
RunGates(r) ==
  LET all == UNION {Verdicts(s) : s \in r}
  IN  IF "hard" \in all THEN "hard" ELSE IF "soft" \in all THEN "soft" ELSE "pass"

\* hedgeResponse: the softly failed sentences go, a note takes their place.
Hedged(r) == {s \in r : "soft" \notin Verdicts(s)}

-----------------------------------------------------------------------------
(* The turn *)

TurnStarts ==
  /\ step = "idle" /\ step' = "generate" /\ tries' = 1 /\ before' = Len(log)
  /\ outcome' = "nothing" /\ reply' = {}
  /\ UNCHANGED log

Generated(r) ==
  /\ step = "generate" /\ step' = "gate" /\ reply' = r
  /\ UNCHANGED <<log, before, tries, outcome>>

Shows(what) == step' = "idle" /\ outcome' = what /\ tries' = 0

\* The reply passes, at once or hedged.
ReplyPasses ==
  /\ step = "gate"
  /\ \/ RunGates(reply) = "pass" /\ reply' = reply
     \/ RunGates(reply) = "soft" /\ RunGates(Hedged(reply)) = "pass" /\ reply' = Hedged(reply)
  /\ Shows("reply") /\ UNCHANGED <<log, before>>

Fails == \/ RunGates(reply) = "hard"
         \/ RunGates(reply) = "soft" /\ RunGates(Hedged(reply)) # "pass"

\* It fails: again from the first prompt, with a note on the kinds of violation.
Reprompted ==
  /\ step = "gate" /\ Fails /\ tries < MaxAttempts
  /\ step' = "generate" /\ tries' = tries + 1 /\ reply' = {}
  /\ UNCHANGED <<log, before, outcome>>

\* The last fails: the list of its claims, said to be unverified.
Escalated ==
  /\ step = "gate" /\ Fails /\ tries = MaxAttempts
  /\ Shows("escalation") /\ reply' = {s \in reply : Verdicts(s) # {"pass"}}
  /\ UNCHANGED <<log, before>>

GatesNext ==
  \/ TurnStarts \/ ReplyPasses \/ Reprompted \/ Escalated \/ TimePasses
  \/ \E r \in Replies : Generated(r)
  \/ \E t \in Tools, arg \in Arguments : ToolCalled(t, arg)
  \/ \E call \in ToSet(log), answer \in Answers : ToolReturned(call, answer)
  \/ \E arg \in Arguments, answer \in Answers, b \in BOOLEAN : ResultDeposited(arg, b, answer)

GatesSpec == GatesInit /\ [][GatesNext]_gateVars

-----------------------------------------------------------------------------
\* What the user reads as a reply is backed, whatever the attempts before it and
\* whatever other agents' tools did meanwhile: for what it says was done, was found
\* or was handed over, a row of this turn is booked with a success, of a tool that
\* could have done it where no entity says which, else with a row of that tool that
\* names the entity; and an identifier it cites was not invented.
Evidence(s, statuses, tools) ==
  \E i, j \in before + 1..Len(log) :
    /\ log[i].status \in statuses /\ log[i].tool \in tools
    /\ log[j].tool = log[i].tool /\ (s.about = None \/ log[j].about = s.about)
Recites(s) == s.recited /\ s.about \in Briefed
AnyTool == Tools \cup {"claude_code_result"}
DoneIsBacked(s) ==
  "completion" \in s.kinds /\ ~Recites(s) =>
    Evidence(s, Ok, IF s.about = None THEN CompletionTools ELSE AnyTool)
StateIsBacked(s) ==
  "state" \in s.kinds /\ ~Recites(s) =>
    Evidence(s, IF "character" \in s.kinds THEN Ok ELSE Ran,
             IF s.about = None THEN StateTools ELSE AnyTool)
DelegationIsBacked(s) ==
  /\ OutcomeTools(s) # {} => s.about # None /\ Evidence(s, Ok, OutcomeTools(s))
  /\ "dispatch" \in s.kinds /\ OutcomeTools(s) = {} => Evidence(s, Ok, DispatchTools)
IsSourced(s) ==
  \/ s.about \in Briefed \cup FromUser \cup {None} \/ "name" \in s.kinds
  \/ \E i, j \in DOMAIN log :
       /\ Genuine(i) /\ log[j].tool = log[i].tool
       /\ log[j].about = s.about /\ (j = i \/ log[j].issued)
ShownIsBacked ==
  [][step = "gate" /\ outcome' = "reply" => \A s \in reply' :
       /\ DoneIsBacked(s) /\ StateIsBacked(s) /\ DelegationIsBacked(s) /\ IsSourced(s)
       /\ "phantom" \notin s.kinds]_gateVars
=============================================================================
