--------------------------- MODULE DeliveryQueue ---------------------------
(***************************************************************************)
(* The delivery queue of src/src/core/delivery-queue.js.  Rows are on disk *)
(* and survive a restart; a Round is one activation of the 30-second       *)
(* interval, which fires again while an earlier round still waits for a    *)
(* channel to send.                                                        *)
(***************************************************************************)
EXTENDS Integers, Sequences, SequencesExt

CONSTANTS Msg,          \* messages that may be queued
          Round,        \* rounds that may be under way at once
          MaxTries,     \* max_attempts
          Batch,        \* the LIMIT of pending()
          Restarts      \* bound on the restarts explored

ASSUME QueueAssumption == /\ {MaxTries, Batch} \subseteq Nat \ {0}
                          /\ Restarts \in Nat

VARIABLES order,        \* the queued messages, oldest first
          entry,        \* the row of each message
          whole,        \* messages every part of which reached the channel
          looping,      \* the interval is set
          round,        \* the rows each round has still to send
          restarts

queueVars == <<order, entry, whole, looping, round, restarts>>

NoRow == [status |-> "none", tries |-> 0, due |-> FALSE]

QueueTypeOK ==
  /\ order \in Seq(Msg)
  /\ entry \in [Msg -> [status : {"none", "pending", "delivered", "failed"},
                        tries : Nat, due : BOOLEAN]]
  /\ whole \subseteq Msg
  /\ looping \in BOOLEAN
  /\ round \in [Round -> Seq(Msg)]
  /\ restarts \in 0..Restarts

QueueInit ==
  /\ order = <<>> /\ entry = [m \in Msg |-> NoRow] /\ whole = {}
  /\ looping = TRUE /\ round = [r \in Round |-> <<>>] /\ restarts = 0

\* enqueue, by the heartbeat.
Enqueue(m) ==
  /\ entry[m] = NoRow
  /\ order' = Append(order, m)
  /\ entry' = [entry EXCEPT ![m] = [status |-> "pending", tries |-> 0, due |-> TRUE]]
  /\ UNCHANGED <<whole, looping, round, restarts>>

\* pending()
IsPending(m) == entry[m].status = "pending" /\ entry[m].due /\ entry[m].tries < MaxTries
Taken(due, m) == IF IsPending(m) /\ Len(due) < Batch THEN Append(due, m) ELSE due
PendingRows == FoldLeft(Taken, <<>>, order)

\* The interval fires: a round takes what is pending now.
QueueTick(r) ==
  /\ looping /\ round[r] = <<>> /\ PendingRows # <<>>
  /\ round' = [round EXCEPT ![r] = PendingRows]
  /\ UNCHANGED <<order, entry, whole, looping, restarts>>

\* delivered(id)
Delivered(m) == entry' = [entry EXCEPT ![m].status = "delivered"]

\* Fault: a row is given up one try too late, when no round takes it any more.
FailedOneLater(m) ==
  LET n == entry[m].tries + 1
  IN  entry' = [entry EXCEPT ![m] = IF n > MaxTries
                                    THEN [@ EXCEPT !.tries = n, !.status = "failed"]
                                    ELSE [@ EXCEPT !.tries = n, !.due = FALSE]]

\* failed(id): whatever the row's status is by now.
Failed(m) ==
  LET n == entry[m].tries + 1
  IN  entry' = [entry EXCEPT ![m] = IF n >= MaxTries
                                    THEN [@ EXCEPT !.tries = n, !.status = "failed"]
                                    ELSE [@ EXCEPT !.tries = n, !.due = FALSE]]

\* The send of a round's first row settles: a send that throws may have shown
\* a part of the message, or all of it.
SendSettles(r, m) ==
  \/ whole' = whole \cup {m} /\ Delivered(m)
  \/ whole' \in {whole, whole \cup {m}} /\ Failed(m)

SendEnds(r) ==
  /\ round[r] # <<>>
  /\ SendSettles(r, Head(round[r]))
  /\ round' = [round EXCEPT ![r] = Tail(@)]
  /\ UNCHANGED <<order, looping, restarts>>

\* The back-off of a row runs out.
RowDue(m) ==
  /\ entry[m].status = "pending" /\ ~entry[m].due
  /\ entry' = [entry EXCEPT ![m].due = TRUE]
  /\ UNCHANGED <<order, whole, looping, round, restarts>>

\* stop(): the interval goes, a round under way goes on.
QueueStop ==
  /\ looping /\ looping' = FALSE
  /\ UNCHANGED <<order, entry, whole, round, restarts>>

\* The process ends, in order or not, and starts again: a send under way may
\* have reached the channel, and nothing has recorded it.
QueueRestart ==
  /\ restarts < Restarts /\ restarts' = restarts + 1
  /\ looping' = TRUE
  /\ \E S \in SUBSET {round[r][1] : r \in {q \in Round : round[q] # <<>>}} : whole' = whole \cup S
  /\ round' = [r \in Round |-> <<>>]
  /\ UNCHANGED <<order, entry>>

QueueNext ==
  \/ \E m \in Msg : Enqueue(m) \/ RowDue(m)
  \/ \E r \in Round : QueueTick(r) \/ SendEnds(r)
  \/ QueueStop \/ QueueRestart

\* The interval fires, a back-off runs out and a send settles: a channel's
\* request has a time limit.
QueueFairness ==
  /\ \A r \in Round : WF_queueVars(SendEnds(r))
  /\ WF_queueVars(\E r \in Round : QueueTick(r))
  /\ \A m \in Msg : WF_queueVars(RowDue(m))

QueueSpec == QueueInit /\ [][QueueNext]_queueVars /\ QueueFairness

-----------------------------------------------------------------------------
\* A row says what became of its message, across overlapping rounds and
\* restarts: delivered only if all of it reached the channel, given up only
\* after the full number of failed sends, and never left pending with its
\* tries used up, where no round would take it again (failed, pending).
RowsAreHonest ==
  \A m \in Msg :
    /\ entry[m].status = "delivered" => m \in whole
    /\ entry[m].status = "failed" => entry[m].tries >= MaxTries
    /\ entry[m].status = "pending" => entry[m].tries < MaxTries

\* Every queued message is in the end delivered or given up, as long as the
\* process is not shut down for good (startRetryLoop).
RowsSettle ==
  \A m \in Msg : (entry[m].status = "pending") ~>
                 (entry[m].status \in {"delivered", "failed"} \/ ~looping)
=============================================================================
