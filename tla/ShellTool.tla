----------------------------- MODULE ShellTool -----------------------------
(***************************************************************************)
(* A command of the shell tool: split into words                           *)
(* (src/src/tools/shell-exec-parser.js), held against the schema of its    *)
(* verb, its paths resolved and held against what may be read              *)
(* (src/src/tools/shell-exec-verb-schemas.js), run and collected           *)
(* (src/src/tools/shell-exec-spawn.js, src/src/tools/shell-exec.js).       *)
(*                                                                         *)
(* A command is a sequence of pieces: quotes, blanks, metacharacters, and  *)
(* literal text that is a verb (one word here also for git and pm2), a     *)
(* flag, a value or a path as a whole.                                     *)
(***************************************************************************)
EXTENDS Integers, Sequences, SequencesExt

CONSTANTS Spoken,      \* commands: sequences of words, each of [style, text] pieces
          Verbs,       \* each verb's flags, value flags, least and most positionals
          Path,        \* each path: its segments
          Links,       \* paths that are links
          DenyGlobs, AllowPrefix,
          OutputCap    \* output that is collected: 1 MiB

Piece == [style : {"bare", "escaped", "single", "double"}, text : STRING \ {"no word"}]

\* A word has a piece; a verb, a flag or a number is not the name of a path.
ASSUME ShellAssumption ==
  /\ Links \subseteq DOMAIN Path /\ OutputCap \in Nat
  /\ \A ws \in Spoken : ws \in Seq(Seq(Piece) \ {<<>>})
  /\ \A v \in DOMAIN Verbs :
       ({v, "5"} \cup Verbs[v].flags \cup Verbs[v].values) \cap DOMAIN Path = {}

VARIABLES spoken,      \* ghost: what is meant
          input, quote, buf, words,
          real,        \* where each path leads: a link may be moved at any time
          argv,        \* what runs
          printed, got,
          result       \* "parse", "check", "spawn", "runs", then the answer

shellVars == <<spoken, input, quote, buf, words, real, argv, printed, got, result>>

Blank == " "
Metas == {";", "$"}
Special == {Blank, "'", "\"", "\\"} \cup Metas
NoWord == <<"no word">>

\* How what is meant is written.
Written(piece) ==
  CASE piece.style = "bare"    -> <<piece.text>>
    [] piece.style = "escaped" -> <<"\\", piece.text>>
    [] piece.style = "single"  -> <<"'", piece.text, "'">>
    [] piece.style = "double"  -> <<"\"", piece.text, "\"">>
Line(ws) ==
  FlattenSeq([i \in 1..Len(ws) |-> (IF i = 1 THEN <<>> ELSE <<Blank>>) \o
                                   FlattenSeq([j \in 1..Len(ws[i]) |-> Written(ws[i][j])])])

ShellTypeOK ==
  /\ result \in {"parse", "check", "spawn", "runs", "rejected", "ok", "failed", "cap", "timeout"}
  /\ quote \in {"no", "'", "\""} /\ real \in [DOMAIN Path -> DOMAIN Path]
  /\ got \in 0..OutputCap /\ printed \in 0..OutputCap + 1

ShellInit ==
  /\ spoken \in Spoken /\ input = Line(spoken) /\ quote = "no" /\ buf = NoWord /\ words = <<>>
  /\ real \in {f \in [DOMAIN Path -> DOMAIN Path \ Links] :
               \A p \in DOMAIN Path \ Links : f[p] = p}
  /\ argv = <<>> /\ printed = 0 /\ got = 0 /\ result = "parse"

-----------------------------------------------------------------------------
(* parse: one state machine over the characters *)

Word == IF buf = NoWord THEN <<>> ELSE buf
Takes(n) == input' = SubSeq(input, n + 1, Len(input))
Adds(s) == buf' = Word \o s

Rejects == result' = "rejected" /\ UNCHANGED <<input, quote, buf, words>>

BlankEnds ==
  /\ quote = "no" /\ Head(input) = Blank /\ Takes(1)
  /\ words' = IF buf = NoWord THEN words ELSE Append(words, buf)
  /\ buf' = NoWord /\ UNCHANGED <<quote, result>>

\* A metacharacter outside quotes, or in double quotes one that expands.
MetaRejected ==
  /\ \/ quote = "no" /\ Head(input) \in Metas
     \/ quote = "\"" /\ Head(input) = "$"
  /\ Rejects

QuoteOpens ==
  /\ quote = "no" /\ Head(input) \in {"'", "\""} /\ Takes(1)
  /\ quote' = Head(input) /\ Adds(<<>>) /\ UNCHANGED <<words, result>>
QuoteCloses ==
  /\ quote # "no" /\ Head(input) = quote /\ Takes(1)
  /\ quote' = "no" /\ UNCHANGED <<buf, words, result>>

\* In double quotes a backslash stays, but before a quote or a backslash.
Escape ==
  /\ quote # "'" /\ Head(input) = "\\"
  /\ IF Len(input) = 1 THEN Rejects
     ELSE /\ Takes(2) /\ UNCHANGED <<quote, words, result>>
          /\ Adds(IF quote = "no" \/ input[2] \in {"\"", "\\"} THEN <<input[2]>>
                  ELSE <<"\\", input[2]>>)

Literal ==
  /\ \/ Head(input) \notin Special
     \/ quote = "'" /\ Head(input) # "'"
     \/ quote = "\"" /\ Head(input) \in {Blank, "'", ";"}
  /\ Takes(1) /\ Adds(<<Head(input)>>) /\ UNCHANGED <<quote, words, result>>

EndOfInput ==
  /\ input = <<>>
  /\ IF quote # "no" THEN Rejects
     ELSE /\ words' = IF buf = NoWord THEN words ELSE Append(words, buf)
          /\ result' = "check" /\ UNCHANGED <<input, quote, buf>>

Parse ==
  /\ result = "parse"
  /\ \/ EndOfInput
     \/ /\ input # <<>>
        /\ BlankEnds \/ MetaRejected \/ QuoteOpens \/ QuoteCloses \/ Escape \/ Literal
  /\ UNCHANGED <<spoken, real, argv, printed, got>>

-----------------------------------------------------------------------------
(* parseAndValidate *)

\* globMatch: `**` stands for any number of segments, `*` for any one.
GlobMatch(segs, pattern) ==
  LET m[i \in 1..Len(pattern) + 1, j \in 1..Len(segs) + 1] ==
        IF i > Len(pattern) THEN j > Len(segs)
        ELSE IF pattern[i] = "**" THEN \E k \in j..Len(segs) + 1 : m[i + 1, k]
        ELSE j <= Len(segs) /\ pattern[i] \in {"*", segs[j]} /\ m[i + 1, j + 1]
  IN  m[1, 1]
Denied(p) == \E g \in DenyGlobs : GlobMatch(Path[p], g)
Allowed(p) == IsPrefix(AllowPrefix, Path[p])

\* resolvePath: denied by its name or by where it leads, allowed by where it leads.
Resolves(p) == ~Denied(p) /\ ~Denied(real[p]) /\ Allowed(real[p])

Verb == IF words = <<>> \/ Len(words[1]) # 1 THEN "none" ELSE words[1][1]

\* applySchema, after the verb: every argument is one of its flags, the number
\* after a value flag, or one of so many paths.
IsFlag(v, i) == words[i] # <<>> /\ words[i][1] \in Verbs[v].flags \cup Verbs[v].values
                /\ Len(words[i]) = 1
IsValue(v, i) == i > 2 /\ IsFlag(v, i - 1) /\ words[i - 1][1] \in Verbs[v].values
Positionals(v) == {i \in 2..Len(words) : ~IsFlag(v, i) /\ ~IsValue(v, i)}
IsPath(w) == Len(w) = 1 /\ w[1] \in DOMAIN Path
FitsSchema(v) ==
  /\ \A i \in 2..Len(words) :
       /\ IsValue(v, i) => words[i] = <<"5">>
       /\ IsFlag(v, i) /\ words[i][1] \in Verbs[v].values => i < Len(words) /\ ~IsValue(v, i)
  /\ Verbs[v].least <= Len(SetToSeq(Positionals(v))) /\ Len(SetToSeq(Positionals(v))) <= Verbs[v].most
  /\ \A i \in Positionals(v) : IsPath(words[i]) /\ Resolves(words[i][1])

\* Fault: the paths run as they were written.
SubstitutedNone(v) == words

\* What runs names the resolved paths, so that a link moved after the check
\* does not change what is read.
Substituted(v) == [i \in 1..Len(words) |-> IF i \in Positionals(v) THEN <<real[words[i][1]]>> ELSE words[i]]

Check ==
  /\ result = "check"
  /\ IF Verb \in DOMAIN Verbs /\ FitsSchema(Verb)
     THEN result' = "spawn" /\ argv' = Substituted(Verb)
     ELSE result' = "rejected" /\ argv' = argv
  /\ UNCHANGED <<spoken, input, quote, buf, words, real, printed, got>>

-----------------------------------------------------------------------------
(* spawnWithCaps *)

Runs(to) == result' = to /\ UNCHANGED <<spoken, input, quote, buf, words, real, argv, printed, got>>

Spawn == result = "spawn" /\ \E to \in {"runs", "failed"} : Runs(to)

Prints ==
  /\ result = "runs" /\ printed <= OutputCap /\ printed' = printed + 1
  /\ UNCHANGED <<spoken, input, quote, buf, words, real, argv, got, result>>

\* Fault: what a chunk brings is never held against the cap.
DataUncapped ==
  /\ result = "runs" /\ got < printed /\ got' = got + 1
  /\ UNCHANGED <<spoken, input, quote, buf, words, real, argv, printed, result>>

\* A chunk arrives; past the cap the child is killed.
Data ==
  /\ result = "runs" /\ got < printed
  /\ IF got + 1 > OutputCap THEN result' = "cap" /\ got' = got ELSE result' = result /\ got' = got + 1
  /\ UNCHANGED <<spoken, input, quote, buf, words, real, argv, printed>>

\* On exit what has arrived is the answer, be it all or not; or 30 s are over.
Exit == result = "runs" /\ \E to \in {"ok", "timeout"} : Runs(to)

LinkMoves ==
  /\ result \in {"check", "spawn"}
  /\ \E l \in Links, p \in DOMAIN Path \ Links : real' = [real EXCEPT ![l] = p]
  /\ UNCHANGED <<spoken, input, quote, buf, words, argv, printed, got, result>>

ShellNext == Parse \/ Check \/ Spawn \/ Prints \/ Data \/ Exit \/ LinkMoves

ShellSpec == ShellInit /\ [][ShellNext]_shellVars

-----------------------------------------------------------------------------
\* What a command means: each word is its pieces' texts; it means nothing where
\* a metacharacter stands bare, one that expands in double quotes, or a
\* quote or a backslash unpaired.
Meant(ws) == [i \in 1..Len(ws) |-> [j \in 1..Len(ws[i]) |-> ws[i][j].text]]
Plain(piece) ==
  CASE piece.style = "bare"    -> piece.text \notin Special
    [] piece.style = "escaped" -> TRUE
    [] piece.style = "single"  -> piece.text # "'"
    [] piece.style = "double"  -> piece.text \notin {"$", "\"", "\\"}

\* What runs is what was meant and what was checked: the words are those meant,
\* a command of plain pieces is never taken apart otherwise nor refused by the
\* parser, and each path it opens when it runs, wherever the links lead by
\* then, is one that may be read.
RunsWhatWasMeant ==
  LET plain == \A i \in DOMAIN spoken : \A j \in DOMAIN spoken[i] : Plain(spoken[i][j])
  IN  /\ result \notin {"parse", "rejected"} /\ plain => words = Meant(spoken)
      /\ result = "rejected" /\ plain => words = Meant(spoken)
      /\ result \in {"spawn", "runs", "ok"} =>
           \A i \in DOMAIN argv : IsPath(argv[i]) =>
             LET opened == real[argv[i][1]] IN Allowed(opened) /\ ~Denied(opened)
=============================================================================
