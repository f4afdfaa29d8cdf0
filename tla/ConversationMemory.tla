------------------------- MODULE ConversationMemory -------------------------
(***************************************************************************)
(* What the memory manager remembers of a conversation                     *)
(* (src/src/memory/manager.js) and its vector index                        *)
(* (src/src/memory/vector.js): the messages stored at once, the documents  *)
(* indexed when their embedding comes, saved at intervals, pruned, lost    *)
(* with the process.                                                       *)
(***************************************************************************)
EXTENDS Integers, Sequences, FiniteSets, SequencesExt

CONSTANTS Message,      \* messages that may be said, each once
          KeepMessages, \* messages the JSON store keeps: 500
          KeepDocs      \* documents the index keeps: 5000

ASSUME ConversationAssumption == KeepMessages \in Nat \ {0} /\ KeepDocs \in Nat \ {0}

VARIABLES backend,      \* "sqlite", "json"
          said,         \* the messages so far, in order
          rows,         \* the conversations kept, in order
          embedding,    \* messages whose embedding is under way
          docs,         \* documents: the message, and its embedding or none
          saved,        \* the messages vectors.json holds
          dirty,
          running

convVars == <<backend, said, rows, embedding, docs, saved, dirty, running>>

ConvTypeOK ==
  /\ backend \in {"sqlite", "json"} /\ running \in BOOLEAN /\ dirty \in BOOLEAN
  /\ said \in Seq(Message) /\ rows \in Seq(Message) /\ saved \in Seq(Message)
  /\ embedding \subseteq Message
  /\ docs \in Seq([of : Message, embedded : BOOLEAN])

ConvInit ==
  /\ backend \in {"sqlite", "json"} /\ running = TRUE /\ dirty = FALSE
  /\ said = <<>> /\ rows = <<>> /\ saved = <<>> /\ docs = <<>> /\ embedding = {}

\* slice(-n)
LastOf(s, n) == IF Len(s) > n THEN SubSeq(s, Len(s) - n + 1, Len(s)) ELSE s
Messages(ds) == [i \in 1..Len(ds) |-> ds[i].of]

-----------------------------------------------------------------------------
\* The message is stored, then handed to the index.  The JSON store keeps the
\* last ones only.
AddMessage(m) ==
  /\ running /\ ~Contains(said, m)
  /\ said' = Append(said, m)
  /\ rows' = IF backend = "sqlite" THEN Append(rows, m) ELSE LastOf(Append(rows, m), KeepMessages)
  /\ embedding' = embedding \cup {m}
  /\ UNCHANGED <<backend, docs, saved, dirty, running>>

\* The embedding came, or failed, or there is no provider: the document is
\* added, in the order they come, and the oldest goes.
AddDoc(m, embedded) ==
  /\ running /\ m \in embedding /\ embedding' = embedding \ {m}
  /\ docs' = LastOf(Append(docs, [of |-> m, embedded |-> embedded]), KeepDocs)
  /\ dirty' = TRUE
  /\ UNCHANGED <<backend, said, rows, saved, running>>

\* Every 30 s: all documents are written, without their embeddings.
Flush ==
  /\ running /\ dirty /\ saved' = Messages(docs) /\ dirty' = FALSE
  /\ UNCHANGED <<backend, said, rows, embedding, docs, running>>

\* disconnect() of the manager leaves the index as it is; so does a crash.
ConvStop ==
  /\ running /\ running' = FALSE
  /\ embedding' = {} /\ docs' = <<>> /\ dirty' = FALSE
  /\ UNCHANGED <<backend, said, rows, saved>>

ConvConnect ==
  /\ ~running /\ running' = TRUE
  /\ docs' = [i \in 1..Len(saved) |-> [of |-> saved[i], embedded |-> FALSE]]
  /\ UNCHANGED <<backend, said, rows, embedding, saved, dirty>>

ConvNext ==
  \/ \E m \in Message : AddMessage(m) \/ \E e \in BOOLEAN : AddDoc(m, e)
  \/ Flush \/ ConvStop \/ ConvConnect

ConvSpec == ConvInit /\ [][ConvNext]_convVars

-----------------------------------------------------------------------------
(* What is read *)

\* getHistory: the last of them, in order.
GetHistory(limit) == LastOf(rows, limit)

\* search: by embedding if that finds anything, else by shared words, here the
\* messages `about` the query.
VectorSearch(about) ==
  LET near == {docs[i].of : i \in {j \in DOMAIN docs : docs[j].embedded}}
  IN  IF near # {} THEN near ELSE {docs[i].of : i \in DOMAIN docs} \cap about

\* recentEntries with `since` so many hours before `now`.  JSON compares ISO
\* times; SQLite's own times have a blank where the ISO cutoff has a T, and the
\* blank sorts first: on the cutoff's day no row is late enough.
Hours == 24
RecentEntries(times, now, window) ==
  LET cutoff == now - window
  IN  IF backend = "json" THEN {t \in times : t >= cutoff}
      ELSE {t \in times : t \div Hours > cutoff \div Hours}

-----------------------------------------------------------------------------
\* The memory is what was said: in the order it was said, nothing twice, and
\* the latest always there, through any restart; only the JSON store forgets,
\* and only the oldest.  What is in the index or its file was said, once, and a
\* clean index is in its file whole.  A search over an index that is not empty
\* finds something, a history is the end of what was said, and recentEntries
\* gives nothing older than its window (nor, in the JSON store, leaves out any).
MemoryIsTrue ==
  /\ rows = IF backend = "sqlite" THEN said ELSE LastOf(said, KeepMessages)
  /\ IsInjective(Messages(docs)) /\ ToSet(Messages(docs)) \cap embedding = {}
  /\ ToSet(Messages(docs)) \cup ToSet(saved) \subseteq ToSet(said)
  /\ running /\ ~dirty => saved = Messages(docs)
  /\ Len(docs) <= KeepDocs
  /\ docs # <<>> => VectorSearch(ToSet(said)) # {}
  /\ \A n \in DOMAIN rows : GetHistory(n) = LastOf(said, n)
  /\ \A now \in {Hours, 2 * Hours - 1} :
       LET recent == RecentEntries({now - Hours - 1, now - Hours, now}, now, Hours)
       IN  recent \subseteq {now - Hours, now} /\ (backend = "json" => now - Hours \in recent)
=============================================================================
