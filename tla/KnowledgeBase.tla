--------------------------- MODULE KnowledgeBase ---------------------------
(***************************************************************************)
(* The two stores the agent fills from what users say: short facts with a  *)
(* limit per type (src/src/memory/knowledge.js) and a graph of entities    *)
(* (src/src/memory/graph.js).  Both are fed by a model's answer that comes *)
(* long after the message.                                                 *)
(***************************************************************************)
EXTENDS Integers, Sequences, FiniteSets, SequencesExt

CONSTANTS Letter,       \* what contents are made of
          MaxLen,       \* the longest content
          PrefixLen,    \* characters that tell two entries apart: 50
          MaxEntries,   \* entries a type may have: 100, 200, 50
          Name,         \* entity names that differ in more than their case
          Kind,         \* the types a model gives an entity, "unknown" among them
          Relation,     \* relations of one kind, in one direction
          MaxAnswers    \* bound: model answers taken in

ASSUME KnowledgeAssumption ==
  /\ "unknown" \in Kind
  /\ MaxLen \in Nat /\ MaxEntries \in Nat \ {0} /\ PrefixLen \in 1..MaxLen /\ MaxAnswers \in Nat

VARIABLES backing,        \* "sqlite", "json"
          entries,      \* the entries of a type, by id
          used,         \* of each entry, how often it was read
          entities,     \* by id, each: its name, its type, its mentions
          edges,        \* the relationships, by id: their ends and strength
          answers       \* model answers taken in

knowVars == <<backing, entries, used, entities, edges, answers>>

Content == UNION {[1..n -> Letter] : n \in 1..MaxLen}

KnowTypeOK ==
  /\ backing \in {"sqlite", "json"}
  /\ entries \in Seq(Content) /\ used \in Seq(Nat) /\ Len(used) = Len(entries)
  /\ entities \in Seq([name : Name, type : Kind, mentions : Nat])
  /\ edges \in Seq([from : Nat, to : Nat, rel : Relation, strength : Nat])
  /\ answers \in 0..MaxAnswers

KnowInit ==
  /\ backing \in {"sqlite", "json"} /\ entries = <<>> /\ used = <<>>
  /\ entities = <<>> /\ edges = <<>> /\ answers = 0

-----------------------------------------------------------------------------
(* Facts *)

Prefix(c) == SubSeq(c, 1, IF Len(c) < PrefixLen THEN Len(c) ELSE PrefixLen)
SameStart(c) == {i \in DOMAIN entries : IsPrefix(Prefix(c), entries[i])}
First(s) == CHOOSE i \in s : \A j \in s : i <= j

\* The least read goes, or the first of those; JSON, which never counts reads,
\* drops the first.
Evictable == IF backing = "json" THEN {1}
             ELSE {i \in DOMAIN used : \A j \in DOMAIN used : used[i] <= used[j]}

\* add: the first entry that starts the same is overwritten; else a full type
\* loses one, and the content is added.
AddEntry(c) ==
  \/ /\ SameStart(c) # {}
     /\ entries' = [entries EXCEPT ![First(SameStart(c))] = c] /\ used' = used
  \/ /\ SameStart(c) = {} /\ Len(entries) < MaxEntries
     /\ entries' = Append(entries, c) /\ used' = Append(used, 0)
  \/ /\ SameStart(c) = {} /\ Len(entries) >= MaxEntries
     /\ \E i \in Evictable : /\ entries' = Append(RemoveAt(entries, i), c)
                             /\ used' = Append(RemoveAt(used, i), 0)

\* extractKnowledge: what the model made of a message is added line by line.
KnowledgeExtracted(c) ==
  /\ answers < MaxAnswers /\ answers' = answers + 1 /\ AddEntry(c)
  /\ UNCHANGED <<backing, entities, edges>>

\* buildContext reads the types and counts what it read.
BuildContext(i) ==
  /\ backing = "sqlite" /\ i \in DOMAIN used /\ used[i] < 1
  /\ used' = [used EXCEPT ![i] = @ + 1]
  /\ UNCHANGED <<backing, entries, entities, edges, answers>>

\* remove
RemoveEntry(i) ==
  /\ i \in DOMAIN entries /\ entries' = RemoveAt(entries, i) /\ used' = RemoveAt(used, i)
  /\ UNCHANGED <<backing, entities, edges, answers>>

-----------------------------------------------------------------------------
(* The graph *)

\* The rows of a name, whatever its case (of ASCII letters), and those of one type.
Called(es, n) == {i \in DOMAIN es : es[i].name = n}
Known(es, n, t) == {i \in Called(es, n) : es[i].type = t}

\* findEntity: of the rows of a name, one with the most mentions; in JSON the first.
Found(es, n) ==
  IF backing = "json" THEN {First(Called(es, n))}
  ELSE {i \in Called(es, n) : \A j \in Called(es, n) : es[j].mentions <= es[i].mentions}

\* upsertEntity: a row for each name and type.
Upsert(es, n, t) ==
  IF Known(es, n, t) = {} THEN Append(es, [name |-> n, type |-> t, mentions |-> 1])
  ELSE [es EXCEPT ![First(Known(es, n, t))].mentions = @ + 1]

\* Found, or made without a type.
Ensure(es, n) == IF Called(es, n) = {} THEN Upsert(es, n, "unknown") ELSE es

\* addRelationship: a known relationship gets stronger; JSON adds it again.
Relate(a, b, r) ==
  LET same == {i \in DOMAIN edges : edges[i].from = a /\ edges[i].to = b /\ edges[i].rel = r}
  IN  edges' = IF backing = "sqlite" /\ same # {}
               THEN [edges EXCEPT ![First(same)].strength = @ + 1]
               ELSE Append(edges, [from |-> a, to |-> b, rel |-> r, strength |-> 2])

\* extractGraph: the entities of the answer, then its relationships, if any; an
\* end the answer did not name is found, or made.
GraphExtracted(typed, t, n, m, r) ==
  LET es1 == IF typed THEN Upsert(entities, n, t) ELSE entities
      es2 == Ensure(es1, n)
      es3 == Ensure(es2, m)
      end(k) == IF typed /\ k = n THEN Known(es3, n, t) ELSE Found(es3, k)
  IN  /\ answers < MaxAnswers /\ answers' = answers + 1
      /\ \/ entities' = es1 /\ UNCHANGED edges
         \/ entities' = es3 /\ \E a \in end(n), b \in end(m) : Relate(a, b, r)
      /\ UNCHANGED <<backing, entries, used>>

KnowNext ==
  \/ \E c \in Content : KnowledgeExtracted(c)
  \/ \E i \in 1..MaxEntries : BuildContext(i) \/ RemoveEntry(i)
  \/ \E typed \in BOOLEAN, t \in Kind, n, m \in Name, r \in Relation :
       GraphExtracted(typed, t, n, m, r)

KnowSpec == KnowInit /\ [][KnowNext]_knowVars

-----------------------------------------------------------------------------
\* Nothing is known twice and nothing grows without end.  An entry that is
\* overwritten may become what a later one already starts with: the two never
\* become the same, because the first that matches is the one overwritten.
\* Every name has one row of a type whatever its case (and may have several of
\* different types: one made for a relationship is "unknown", and a later answer
\* that gives the type makes another), every relationship of the SQLite store one
\* row, between entities that exist.
NothingTwice ==
  /\ Len(entries) <= MaxEntries /\ IsInjective(entries)
  /\ \A i, j \in DOMAIN entities :
       entities[i].name = entities[j].name /\ entities[i].type = entities[j].type => i = j
  /\ \A i \in DOMAIN edges : edges[i].from \in DOMAIN entities /\ edges[i].to \in DOMAIN entities
  /\ backing = "sqlite" =>
       \A i, j \in DOMAIN edges :
         edges[i].from = edges[j].from /\ edges[i].to = edges[j].to /\ edges[i].rel = edges[j].rel
         => i = j
=============================================================================
