------------------------------ MODULE SkillFiles ------------------------------
(***************************************************************************)
(* From a skill's markdown file to the tools the model is offered          *)
(* (src/src/agents/skill-parser.js, skill-diagnostics.js, skill-loader.js, *)
(* skill-router.js and src/src/agents/registry.js): the parser, the        *)
(* diagnostics that read the same file a second time with a parser of      *)
(* their own, and the choice of skills for a message.  A file is a         *)
(* sequence of lines, a line what the two parsers tell apart.              *)
(***************************************************************************)
EXTENDS Naturals, FiniteSets, Sequences, SequencesExt

CONSTANTS Files,        \* the skill files considered
          MessageWord,  \* words of messages and keywords
          Keywords,     \* the keywords of each on-demand skill: a set of words each
          Weak,         \* its trigger_keywords, {} where it has no combination rule
          Required,     \* its require_any_of words
          Rank,         \* the place of each such skill's name in the alphabet
          HardCap       \* HARD_CAP_ON_DEMAND

\* The lines: the four headings the parser knows, any other "## " heading, a
\* base URL, an http permission naming a host, an endpoint (its method, all on
\* one path) and one with a dash the grammar does not accept.
Headings == {"auth", "endpoints", "permissions", "notes"}
Endpoints == {"GET", "PUT", "PATCH"}
FileLine == Headings \cup {"heading", "base", "host", "dash"} \cup Endpoints

\* No two skills tie in the sort: it is stable, so a name stated twice keeps the
\* order in which its files were read.
ASSUME FilesAssumption ==
  /\ Files \subseteq Seq(FileLine) /\ HardCap \in Nat
  /\ IsFiniteSet(DOMAIN Keywords) /\ \A k \in DOMAIN Keywords : IsFiniteSet(Keywords[k])
  /\ \A a, b \in DOMAIN Keywords : Rank[a] \in Nat /\ (Rank[a] = Rank[b] => a = b)

VARIABLES skillFile,    \* the file
          stepAt,       \* "read", "registered", "reported"
          tools,        \* _apiTools: what each tool name stands for
          report,       \* the diagnostics' row: "none", "fine", or a reason
          heard,        \* the words of the message
          offered       \* the on-demand skills loaded for it

skillFileVars == <<skillFile, stepAt, tools, report, heard, offered>>

-----------------------------------------------------------------------------
(* parseSkill *)

\* One line: a known heading sets the section, any other leaves it.
Parsed(s, line) ==
  IF line \in Headings THEN [s EXCEPT !.section = line]
  ELSE IF line = "base" THEN [s EXCEPT !.base = @ \/ s.section = "auth"]
  ELSE IF line \in Endpoints /\ s.section = "endpoints"
       THEN [s EXCEPT !.endpoints = Append(@, line)]
  ELSE s

ParseSkill(f) ==
  LET s == FoldLeft(Parsed, [section |-> "none", base |-> FALSE, endpoints |-> <<>>], f) IN
    IF s.base THEN s.endpoints ELSE <<>>

\* skillToTools: PUT and PATCH are both an update.
ToolName(e) == IF e = "GET" THEN "get_item" ELSE "update_item"

\* registerSkillTool: a later endpoint takes the name of an earlier one.
Registered(t, e) == [n \in DOMAIN t \cup {ToolName(e)} |-> IF n = ToolName(e) THEN e ELSE t[n]]

-----------------------------------------------------------------------------
(* skill-diagnostics.js *)

Has(f, lines) == \E i \in DOMAIN f : f[i] \in lines

\* declaresHttpSurface: any of three signals anywhere in the file.
DeclaresHttpSurface(f) == Has(f, {"endpoints", "base", "host"})

\* diagnose's own sections: any other "## " heading ends one.
SectionOf(f, i) ==
  LET heads == {j \in 1..i : f[j] \in Headings \cup {"heading"}} IN
    IF heads = {} THEN "none" ELSE f[CHOOSE j \in heads : \A k \in heads : k <= j]

Diagnose(f) ==
  LET bases == {i \in DOMAIN f : f[i] = "base"}
      first == CHOOSE i \in bases : \A j \in bases : i <= j
      listed == {i \in DOMAIN f : /\ f[i] \in Endpoints \cup {"dash"}
                                  /\ SectionOf(f, i) = "endpoints"}
  IN CASE bases = {} -> "no_base"
       [] bases # {} /\ SectionOf(f, first) # "auth" -> "base_outside_auth"
       [] OTHER -> IF \E i \in listed : f[i] \in Endpoints THEN "no_tools"
                   ELSE IF listed # {} THEN "dash" ELSE "no_endpoints"

\* inspectSkills: one row for a file that declares a surface.
Inspect(f) ==
  IF ~DeclaresHttpSurface(f) THEN "none"
  ELSE IF ParseSkill(f) = <<>> THEN Diagnose(f) ELSE "fine"

-----------------------------------------------------------------------------
(* skill-router.js and skill-loader.js *)

\* routeKeywords: a keyword matches when all its words were said; the density
\* of a skill is its matching keywords over the words said.
Matches(k, said) == Cardinality({w \in Keywords[k] : w # {} /\ w \subseteq said})

\* passesCombinationFilter: a skill that matched by weak keywords alone needs
\* one of the required words.
Passes(k, said) == Weak[k] = {} \/ said \cap Required[k] # {}
                   \/ \E w \in Keywords[k] \ Weak[k] : w # {} /\ w \subseteq said

\* Denser first, then by name.
Before(a, b, said) == \/ Matches(a, said) > Matches(b, said)
                      \/ Matches(a, said) = Matches(b, said) /\ Rank[a] < Rank[b]

\* Fault: the cap is taken before the skills are sorted.
LoadFirstNamed(said) ==
  LET matched == {k \in DOMAIN Keywords : Matches(k, said) > 0 /\ Passes(k, said)} IN
    {k \in matched : Cardinality({o \in matched : Rank[o] < Rank[k]}) < HardCap}

\* loadSkills: the first of them, up to the cap.
LoadSkills(said) ==
  LET matched == {k \in DOMAIN Keywords : Matches(k, said) > 0 /\ Passes(k, said)} IN
    {k \in matched : Cardinality({o \in matched : Before(o, k, said)}) < HardCap}

-----------------------------------------------------------------------------
FilesTypeOK ==
  /\ skillFile \in Files /\ stepAt \in {"read", "registered", "reported"}
  /\ DOMAIN tools \subseteq {"get_item", "update_item"}
  /\ \A n \in DOMAIN tools : tools[n] \in Endpoints
  /\ report \in {"none", "fine", "no_base", "base_outside_auth", "no_tools", "dash",
                 "no_endpoints"}
  /\ heard \subseteq MessageWord /\ offered \subseteq DOMAIN Keywords

FilesInit ==
  /\ skillFile \in Files /\ stepAt = "read" /\ tools = <<>> /\ report = "none"
  /\ heard = {} /\ offered = {}

\* Agent.load: the file is parsed and its tools registered, then inspected.
LoadAgent ==
  /\ stepAt = "read" /\ stepAt' = "registered"
  /\ tools' = FoldLeft(Registered, <<>>, ParseSkill(skillFile))
  /\ UNCHANGED <<skillFile, report, heard, offered>>

ReportSkills ==
  /\ stepAt = "registered" /\ stepAt' = "reported" /\ report' = Inspect(skillFile)
  /\ UNCHANGED <<skillFile, tools, heard, offered>>

\* A message: its skills are chosen anew.
MessageArrives(said) ==
  /\ stepAt = "reported" /\ heard' = said /\ offered' = LoadSkills(said)
  /\ UNCHANGED <<skillFile, stepAt, tools, report>>

FilesNext == LoadAgent \/ ReportSkills \/ (\E said \in SUBSET MessageWord : MessageArrives(said))

FilesSpec == FilesInit /\ [][FilesNext]_skillFileVars

-----------------------------------------------------------------------------
\* The diagnostics and the parser read the same file alike: a file whose tools
\* are registered is inspected, one that registers none is named unless it
\* declares no surface, and "no_tools" is never the reason given.
InspectedAsParsed ==
  stepAt = "reported" =>
    /\ DOMAIN tools # {} => report = "fine"
    /\ report = "fine" => DOMAIN tools # {}
    /\ report # "no_tools"

\* A skill left out by the cap matched no better than any that was loaded, the
\* cap is kept, and no skill is loaded on weak words alone.
BestAreOffered ==
  /\ Cardinality(offered) <= HardCap
  /\ \A k \in DOMAIN Keywords \ offered, o \in offered :
       Passes(k, heard) => Matches(k, heard) <= Matches(o, heard)
  /\ \A o \in offered : Passes(o, heard) /\ Matches(o, heard) > 0
=============================================================================
