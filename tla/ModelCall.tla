----------------------------- MODULE ModelCall -----------------------------
(***************************************************************************)
(* A turn's call of the model: the tier (src/src/models/router.js), the    *)
(* history and the system blocks (src/src/agents/registry.js), the request *)
(* to Anthropic with its cache marker, and what its refusals do            *)
(* (src/src/tools/executor.js).  The tool calls themselves are ToolLoop's. *)
(***************************************************************************)
EXTENDS Integers, Sequences, SequencesExt

CONSTANTS Caller,       \* agents whose turns run at once, on one provider
          HistoryLimit, \* messages of history read: 24
          Budget,       \* characters left for history, in message sizes
          MaxRounds,    \* bound: tool rounds of a turn
          MaxHistory    \* bound: messages stored

ASSUME ModelCallAssumption ==
  {HistoryLimit, Budget, MaxRounds, MaxHistory} \subseteq Nat

VARIABLES mode,         \* "tools", or "chat" without a tool executor
          history,      \* the conversation stored: roles and sizes
          enabled,      \* QCLAW_PROMPT_CACHE_ENABLED
          rejected,     \* _cacheControlRejected
          pinged,       \* the owner was told of the credits within the cooldown
          turn,         \* each caller's step, system blocks, messages, rounds
          request       \* what each caller sent last

callVars == <<mode, history, enabled, rejected, pinged, turn, request>>

Roles == {"user", "assistant"}
\* `plain` content is a string, which can be joined to another.
TurnMsg(role, plain) == [role |-> role, plain |-> plain]
NoBlocks == [stable |-> 0, dynamic |-> 0, mark |-> 0]
\* _buildSystemPrompt: what changes from turn to turn comes after what does not,
\* and the last stable block is marked.
Blocks(dynamic) == [stable |-> 2, dynamic |-> dynamic, mark |-> IF enabled THEN 2 ELSE 0]
NoRequest == [blocks |-> NoBlocks, messages |-> <<>>, live |-> TRUE]
Rest == [step |-> "idle", blocks |-> NoBlocks, base |-> <<>>, messages |-> <<>>, rounds |-> 0]

CallTypeOK ==
  /\ mode \in {"tools", "chat"} /\ enabled \in BOOLEAN /\ rejected \in BOOLEAN
  /\ pinged \in BOOLEAN
  /\ history \in Seq([role : Roles, size : 1..2])
  /\ \A a \in Caller :
       /\ turn[a].step \in {"idle", "call", "wait", "retry"}
       /\ turn[a].blocks.mark \in 0..turn[a].blocks.stable

CallInit ==
  /\ mode \in {"tools", "chat"} /\ history = <<>> /\ enabled \in BOOLEAN
  /\ rejected = FALSE /\ pinged = FALSE
  /\ turn = [a \in Caller |-> Rest] /\ request = [a \in Caller |-> NoRequest]

-----------------------------------------------------------------------------
(* Before the call *)

LastFew(s, n) == IF Len(s) > n THEN SubSeq(s, Len(s) - n + 1, Len(s)) ELSE s
Size(s) == FoldSeq(LAMBDA m, n : n + m.size, 0, s)

\* _truncateHistory: the longest end that fits.
Truncated(s) ==
  LET fits == {k \in 0..Len(s) : Size(LastFew(s, k)) <= Budget}
  IN  LastFew(s, CHOOSE k \in fits : \A j \in fits : j <= k)

\* classify: a pleasantry is answered at once; the turn leaves no trace.
Reflex(a) ==
  /\ turn[a].step = "idle" /\ request' = [request EXCEPT ![a] = NoRequest]
  /\ UNCHANGED <<mode, history, enabled, rejected, pinged, turn>>

\* Any other tier: the blocks, the history that fits, the message; an image
\* makes it an array.
Assemble(a, dynamic, plain) ==
  /\ turn[a].step = "idle" /\ Len(history) + 2 <= MaxHistory
  /\ LET past == Truncated(LastFew(history, HistoryLimit))
         base == Append([i \in 1..Len(past) |-> TurnMsg(past[i].role, TRUE)], TurnMsg("user", plain))
     IN  turn' = [turn EXCEPT ![a] = [step |-> "call", rounds |-> 0, blocks |-> Blocks(dynamic),
                                      base |-> base, messages |-> base]]
  /\ UNCHANGED <<mode, history, enabled, rejected, pinged, request>>

-----------------------------------------------------------------------------
(* The request *)

\* Neighbours of one role are joined: strings only, or by the router anything.
Joins(m, n) == m.role = n.role /\ (mode = "chat" \/ (m.plain /\ n.plain))
Joined(m, n) == [m EXCEPT !.plain = m.plain /\ n.plain]
Merged(ms) ==
  FoldLeft(LAMBDA out, m : IF out # <<>> /\ Joins(Last(out), m)
                           THEN Append(Front(out), Joined(Last(out), m)) ELSE Append(out, m),
           <<>>, ms)

\* Fault: the history is sent as the limits have cut it.
LedAsCut(ms) == ms

\* A user's message must come first.
Led(ms) == IF ms = <<>> \/ Head(ms).role # "user" THEN <<TurnMsg("user", TRUE)>> \o ms ELSE ms

\* _validateCacheControlPlacement: no marker when the switch is off or the
\* provider refused it before, nor one that is not before the dynamic blocks.
Validated(b) ==
  IF enabled /\ ~rejected /\ b.mark <= b.stable /\ mode = "tools" THEN b ELSE [b EXCEPT !.mark = 0]

Send(a) ==
  /\ turn[a].step = "call" /\ turn' = [turn EXCEPT ![a].step = "wait"]
  /\ request' = [request EXCEPT ![a] =
       [blocks |-> Validated(turn[a].blocks), messages |-> Led(Merged(turn[a].messages)),
        live |-> enabled /\ ~rejected]]
  /\ UNCHANGED <<mode, history, enabled, rejected, pinged>>

-----------------------------------------------------------------------------
(* The answer *)

\* The marker is refused: never again in this process, and this request once
\* more without it.
MarkerRefused(a) ==
  /\ turn[a].step = "wait" /\ request[a].blocks.mark # 0
  /\ rejected' = TRUE /\ turn' = [turn EXCEPT ![a].step = "retry"]
  /\ UNCHANGED <<mode, history, enabled, pinged, request>>
Retry(a) ==
  /\ turn[a].step = "retry" /\ turn' = [turn EXCEPT ![a].step = "wait"]
  /\ request' = [request EXCEPT ![a].blocks.mark = 0, ![a].live = FALSE]
  /\ UNCHANGED <<mode, history, enabled, rejected, pinged>>

\* Tools are called: the answer and their results follow the messages.
ToolRound(a) ==
  /\ turn[a].step = "wait" /\ mode = "tools" /\ turn[a].rounds < MaxRounds
  /\ turn' = [turn EXCEPT ![a].step = "call", ![a].rounds = @ + 1,
                ![a].messages = @ \o <<TurnMsg("assistant", FALSE), TurnMsg("user", FALSE)>>]
  /\ UNCHANGED <<mode, history, enabled, rejected, pinged, request>>

\* The gates refuse the answer: the first messages again, and their note.
Reasked(a) ==
  /\ turn[a].step = "wait" /\ mode = "tools" /\ turn[a].rounds < MaxRounds
  /\ turn' = [turn EXCEPT ![a].step = "call", ![a].rounds = @ + 1,
                ![a].messages = Append(turn[a].base, TurnMsg("user", TRUE))]
  /\ UNCHANGED <<mode, history, enabled, rejected, pinged, request>>

\* The final answer: the message and it are stored together.
CallAnswered(a) ==
  /\ turn[a].step = "wait" /\ turn' = [turn EXCEPT ![a] = Rest]
  /\ Len(history) + 2 <= MaxHistory
  /\ \E m, n \in 1..2 : history' = history \o <<[role |-> "user", size |-> m],
                                                [role |-> "assistant", size |-> n]>>
  /\ UNCHANGED <<mode, enabled, rejected, pinged, request>>

\* The call fails, and the turn with it: nothing is stored.  If the credits
\* ran out the owner is told, once per cooldown.
CallFails(a, credits) ==
  /\ turn[a].step = "wait" /\ turn' = [turn EXCEPT ![a] = Rest]
  /\ pinged' = (pinged \/ (credits /\ mode = "tools"))
  /\ UNCHANGED <<mode, history, enabled, rejected, request>>

CooldownEnds ==
  /\ pinged /\ pinged' = FALSE
  /\ UNCHANGED <<mode, history, enabled, rejected, turn, request>>
SwitchFlips ==
  /\ enabled' = ~enabled /\ UNCHANGED <<mode, history, rejected, pinged, turn, request>>

CallNext ==
  \/ \E a \in Caller : \/ Reflex(a) \/ Send(a) \/ MarkerRefused(a) \/ Retry(a)
                       \/ ToolRound(a) \/ Reasked(a) \/ CallAnswered(a)
                       \/ \E d \in 0..1, p \in BOOLEAN : Assemble(a, d, p)
                       \/ \E c \in BOOLEAN : CallFails(a, c)
  \/ CooldownEnds \/ SwitchFlips

CallSpec == CallInit /\ [][CallNext]_callVars

-----------------------------------------------------------------------------
\* Every request is one the provider takes: it starts with a user's message,
\* the roles alternate (but where a note follows an image) whatever part of the
\* history the limits cut away and however many tool rounds there were, and it
\* ends with what is to be answered.
\* Its marker is one the switch and the provider allowed when it was built.
RequestsAreValid ==
  \A a \in Caller : LET ms == request[a].messages IN
    ms # <<>> =>
      /\ ms[1].role = "user" /\ Last(ms).role = "user"
      /\ \A i \in 1..Len(ms) - 1 : ms[i].role # ms[i + 1].role \/ ~ms[i].plain
      /\ request[a].blocks.mark # 0 => request[a].live
=============================================================================
