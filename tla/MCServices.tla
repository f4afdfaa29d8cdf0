------------------------------ MODULE MCServices ------------------------------
(***************************************************************************)
(* The twenty service modules for TLC.  They share no variable, so one run *)
(* checks them all: a behaviour is one of one module, `part`, and the      *)
(* others stay as they began.                                              *)
(***************************************************************************)
EXTENDS TelegramChannel, Heartbeat, DeliveryQueue, TradingSwitch, ContentBoard,
        DashboardAccess, DashboardServer, Lifecycle, CogneeLink, ConversationMemory,
        KnowledgeBase, ModelCall, VerificationGates, ShellTool, Credentials, McpClient,
        SkillCall, SkillFiles, LivenessWatch, SpendAlerts, TLC

VARIABLE part

Parts == {"channel", "heartbeat", "queue", "switch", "content", "drafts", "access", "server", "life",
          "cognee", "conversation", "knowledge", "model", "gates", "delegation", "shell",
          "credentials", "mcp", "skillCall", "skillFiles", "watch", "spend"}

\* The items and the drafts of the content board share the day and the timer
\* alone, and are explored apart.
Boards == {"content", "drafts"}

\* So are the gates' claims of work done and of delegation, each with its tools;
\* in the latter only results are cut.
Gates == {"gates", "delegation"}

-----------------------------------------------------------------------------
(* Values *)

\* ShellTool: commands of a verb and up to two words, each word of one piece or
\* two, plain or with a character that means something to a shell.
P(style, text) == [style |-> style, text |-> text]
Pieces == {P("bare", "cat"), P("bare", "ls"), P("bare", "-l"), P("bare", "-n"), P("bare", "5"),
           P("bare", "/f"), P("bare", "/l"), P("bare", ";"), P("bare", "\\"), P("single", "$"),
           P("single", "/f"), P("double", " "), P("double", "$"), P("double", "'"),
           P("double", "/l"), P("escaped", "'"), P("escaped", " ")}
Fused == {P("bare", "5"), P("bare", "'"), P("single", "$"), P("double", "'"), P("double", " "),
          P("escaped", "\\")}
Single == {<<p>> : p \in Pieces}
Double == {<<p, q>> : p \in Fused, q \in Fused}
Commands == {<<v>> : v \in Single \cup Double}
            \cup {<<v, a>> : v \in Single, a \in Single \cup Double}
            \cup {<<<<P("bare", "log")>>, a, b>> : a \in Single, b \in Single}
VerbSpecs == [cat |-> [flags |-> {}, values |-> {}, least |-> 1, most |-> 3],
              ls  |-> [flags |-> {"-l"}, values |-> {}, least |-> 0, most |-> 8],
              log |-> [flags |-> {"-l"}, values |-> {"-n"}, least |-> 0, most |-> 0]]
Paths == ("/f" :> <<"root", "QClaw", "a">>) @@ ("/l" :> <<"root", "QClaw", "l">>)
         @@ ("/env" :> <<"root", "QClaw", "b", ".env">>) @@ ("/etc" :> <<"etc">>)
Globs == {<<"root", "**", ".env">>}
Readable == <<"root", "QClaw">>

\* VerificationGates: "e1" may be in a row, "e2" is in the briefing.
Say(kinds, about, recited) == [kinds |-> kinds, about |-> about, recited |-> recited]
Claims == {{Say({"completion"}, "none", FALSE)}, {Say({"completion", "uuid"}, "e1", FALSE)},
           {Say({"state", "character"}, "e2", TRUE)},
           {Say({"state", "character"}, "none", FALSE), Say({"uuid", "explained"}, "e1", FALSE)}}
Delegations == {{Say({"dispatch"}, "none", FALSE)}, {Say({"dispatch", "uuid"}, "e1", FALSE)},
                {Say({"claude"}, "e1", FALSE)}, {Say({"claude", "specialist"}, "e1", FALSE)},
                {Say({"specialist", "name", "phantom"}, "e1", FALSE)}}
Sayings == Claims \cup Delegations
Arg(about, cut) == [about |-> about, cut |-> cut]
Args == {Arg("e1", FALSE), Arg("e1", TRUE), Arg("none", FALSE)}
Ans(status, about, cut) == [status |-> status, about |-> about, cut |-> cut]
SomeAnswers == {Ans("success", "e1", TRUE), Ans("error", "none", FALSE), Ans("pseudo", "e1", FALSE)}

\* SkillFiles: every file of up to two lines, and every such end of one that has
\* its auth section, with and without a base URL.  "str" has weak keywords.
Endings == UNION {[1..n -> FileLine] : n \in 0..2}
ShortFiles == Endings \cup {<<"auth", "base", "endpoints">> \o f : f \in Endings}
              \cup {<<"auth", "notes">> \o f : f \in Endings}
SkillWords == [ghl |-> {{"crm"}, {"contact"}}, str |-> {{"pay"}, {"contact"}},
               n8n |-> {{"flow", "crm"}, {"pay"}}]
WeakWords == [ghl |-> {}, str |-> {{"pay"}}, n8n |-> {}]
NeededWords == [ghl |-> {}, str |-> {"crm"}, n8n |-> {}]
Alphabet == [ghl |-> 1, n8n |-> 2, str |-> 3]

-----------------------------------------------------------------------------
Others(p) ==
  /\ UNCHANGED part
  /\ IF p = "channel"      THEN TRUE ELSE UNCHANGED channelVars
  /\ IF p = "heartbeat"    THEN TRUE ELSE UNCHANGED beatVars
  /\ IF p = "queue"        THEN TRUE ELSE UNCHANGED queueVars
  /\ IF p = "switch"       THEN TRUE ELSE UNCHANGED switchVars
  /\ IF p \in Boards       THEN TRUE ELSE UNCHANGED boardVars
  /\ IF p = "access"       THEN TRUE ELSE UNCHANGED accessVars
  /\ IF p = "server"       THEN TRUE ELSE UNCHANGED serverVars
  /\ IF p = "life"         THEN TRUE ELSE UNCHANGED lifeVars
  /\ IF p = "cognee"       THEN TRUE ELSE UNCHANGED cogVars
  /\ IF p = "conversation" THEN TRUE ELSE UNCHANGED convVars
  /\ IF p = "knowledge"    THEN TRUE ELSE UNCHANGED knowVars
  /\ IF p = "model"        THEN TRUE ELSE UNCHANGED callVars
  /\ IF p \in Gates        THEN TRUE ELSE UNCHANGED gateVars
  /\ IF p = "shell"        THEN TRUE ELSE UNCHANGED shellVars
  /\ IF p = "credentials"  THEN TRUE ELSE UNCHANGED credVars
  /\ IF p = "mcp"          THEN TRUE ELSE UNCHANGED mcpVars
  /\ IF p = "skillCall"    THEN TRUE ELSE UNCHANGED skillVars
  /\ IF p = "skillFiles"   THEN TRUE ELSE UNCHANGED skillFileVars
  /\ IF p = "watch"        THEN TRUE ELSE UNCHANGED watchVars
  /\ IF p = "spend"        THEN TRUE ELSE UNCHANGED spendVars

\* Where a module may begin in more than one way, one of them stands for it in
\* the behaviours of the others.
ServicesInit ==
  /\ part \in Parts
  /\ ChannelInit /\ QueueInit /\ GatesInit /\ SpendInit
  /\ (part = "heartbeat" \/ graph = FALSE) /\ HeartbeatInit
  /\ (part = "switch" \/ tradingEnabled = FALSE) /\ SwitchInit
  /\ BoardInit
  /\ (part = "access" \/ ownToken = FALSE) /\ AccessInit
  /\ (part = "server" \/ (busyPorts = {} /\ tunnelKind = "none" /\ savedUrl = FALSE)) /\ ServerInit
  /\ (part = "life" \/ file = {}) /\ LifeInit
  /\ (part = "cognee" \/ (store = "values" /\ hasKey = TRUE /\ required = TRUE /\ reachable = FALSE))
  /\ CogInit
  /\ (part = "conversation" \/ backend = "sqlite") /\ ConvInit
  /\ (part = "knowledge" \/ backing = "sqlite") /\ KnowInit
  /\ (part = "model" \/ (mode = "tools" /\ enabled = TRUE)) /\ CallInit
  /\ \/ part = "shell"
     \/ /\ spoken = <<<<P("bare", "ls")>>>>
        /\ real = [p \in DOMAIN Path |-> IF p \in Links THEN "/f" ELSE p]
  /\ ShellInit
  /\ (part = "credentials" \/ remoteUp = TRUE) /\ CredInit
  /\ (part = "mcp" \/ transport = [c \in Client |-> "stdio"]) /\ McpInit
  /\ (part = "skillCall" \/ resolver = TRUE) /\ SkillCallInit
  /\ (part = "skillFiles" \/ skillFile = <<>>) /\ FilesInit
  /\ (part = "watch" \/ process = "runs") /\ WatchInit

Judges(called, replies) ==
  /\ \A k \in DOMAIN log' : log'[k].tool \in called
  /\ step' = "gate" => reply' \in replies

ServicesNext ==
  \/ part = "channel" /\ ChannelNext /\ Others("channel")
  \/ part = "heartbeat" /\ HeartbeatNext /\ Others("heartbeat")
  \/ part = "queue" /\ QueueNext /\ Others("queue")
  \/ part = "switch" /\ SwitchNext /\ Others("switch")
  \/ part = "content" /\ BoardNext /\ UNCHANGED <<draft, slot, lacking, picked>> /\ Others("content")
  \/ part = "drafts" /\ BoardNext /\ UNCHANGED <<content, dated, postTries>> /\ Others("drafts")
  \/ part = "access" /\ AccessNext /\ Others("access")
  \/ part = "server" /\ ServerNext /\ Others("server")
  \/ part = "life" /\ LifeNext /\ Others("life")
  \/ part = "cognee" /\ CogNext /\ Others("cognee")
  \/ part = "conversation" /\ ConvNext /\ Others("conversation")
  \/ part = "knowledge" /\ KnowNext /\ Others("knowledge")
  \/ part = "model" /\ CallNext /\ Others("model")
  \/ part = "gates" /\ GatesNext /\ Judges({"create", "read"}, Claims) /\ Others("gates")
  \/ part = "delegation" /\ GatesNext
     /\ Judges(DispatchTools \cup {"claude_code_result"}, Delegations) /\ Others("delegation")
     /\ \A made \in ToSet(log') : ~(IsCall(made) /\ made.cut)
  \/ part = "shell" /\ ShellNext /\ Others("shell")
  \/ part = "credentials" /\ CredNext /\ Others("credentials")
  \/ part = "mcp" /\ McpNext /\ Others("mcp")
  \/ part = "skillCall" /\ SkillNext /\ Others("skillCall")
  \/ part = "skillFiles" /\ FilesNext /\ Others("skillFiles")
  \/ part = "watch" /\ WatchNext /\ Others("watch")
  \/ part = "spend" /\ SpendNext /\ Others("spend")

\* The fairness of each module that states some, for its own behaviours.
ServicesFairness ==
  /\ \A t \in Task : WF_channelVars(part = "channel" /\ TaskStep(t))
  /\ WF_channelVars(part = "channel" /\ \E t \in Task : RecoveryTick(t))
  /\ WF_channelVars(part = "channel" /\ ChannelStopped)
  /\ \A r \in Round : WF_queueVars(part = "queue" /\ SendEnds(r))
  /\ WF_queueVars(part = "queue" /\ \E r \in Round : QueueTick(r))
  /\ \A m \in Msg : WF_queueVars(part = "queue" /\ RowDue(m))
  /\ WF_boardVars(part \in Boards /\ DayPasses)
  /\ WF_boardVars(part = "content" /\ ContentTick) /\ WF_boardVars(part = "drafts" /\ DraftTick)
  /\ \A r \in Row : WF_boardVars(part \in Boards /\ PublishStarts(r))
  /\ \A i \in Item : WF_boardVars(part = "content" /\ PublishContent(i))
  /\ \A d \in Draft : WF_boardVars(part = "drafts" /\ PublishDraft(d))
  /\ WF_serverVars(part = "server" /\ SocketBeat)
  /\ WF_serverVars(part = "server" /\ TunnelTimesOut)
  /\ WF_serverVars(part = "server" /\ tunnelProc = "killed" /\ TunnelExits)
  /\ \A a \in Attempt : /\ WF_cogVars(part = "cognee" /\ CogneeConnects(a))
                        /\ WF_cogVars(part = "cognee" /\ ReconnectTick(a))
                        /\ WF_cogVars(part = "cognee" /\ (HealthFails(a) \/ HealthOk(a)))
                        /\ WF_cogVars(part = "cognee" /\ CogneeLogin(a))
                        /\ WF_cogVars(part = "cognee" /\ Settle(a))
  /\ \A c \in CogneeCall : WF_cogVars(part = "cognee" /\ (CallRefused(c) \/ CallEnds(c)))
  /\ \A r \in RpcId : /\ WF_mcpVars(part = "mcp" /\ RequestTimesOut(r))
                      /\ WF_mcpVars(part = "mcp" /\ CallReturns(r))
  /\ \A c \in Client : /\ WF_mcpVars(part = "mcp" /\ \E r \in RpcId : Opened(c, r))
                       /\ WF_mcpVars(part = "mcp" /\ OpenFails(c))
                       /\ WF_mcpVars(part = "mcp" /\ \E r \in RpcId : Handshake(c, r))
  /\ WF_watchVars(part = "watch" /\ RunWatcher)
  /\ WF_watchVars(part = "watch" /\ Tick)
  /\ WF_watchVars(part = "watch" /\ LivenessBeat)

servicesVars == <<part, channelVars, beatVars, queueVars, switchVars, boardVars, accessVars,
                  serverVars, lifeVars, cogVars, convVars, knowVars, callVars, gateVars,
                  shellVars, credVars, mcpVars, skillVars, skillFileVars, watchVars, spendVars>>

ServicesSpec == ServicesInit /\ [][ServicesNext]_servicesVars /\ ServicesFairness

-----------------------------------------------------------------------------
\* Every variable of the twenty modules keeps to its type.
ServicesTypeOK ==
  /\ ChannelTypeOK /\ HeartbeatTypeOK /\ QueueTypeOK /\ SwitchTypeOK /\ BoardTypeOK
  /\ AccessTypeOK /\ ServerTypeOK /\ LifeTypeOK /\ CogTypeOK /\ ConvTypeOK /\ KnowTypeOK
  /\ CallTypeOK /\ GatesTypeOK /\ ShellTypeOK /\ CredTypeOK /\ McpTypeOK
  /\ SkillCallTypeOK /\ FilesTypeOK /\ WatchTypeOK /\ SpendTypeOK

\* What the owner alone may let happen: trading is enabled by a code of his that
\* was not cancelled, what is posted was approved, the heartbeat keeps to its
\* caps, and the dashboard counts wrong tries and requests over its three doors
\* together (server.js, heartbeat.js).
OwnerHolds == OneEnablePerCode /\ PostedWasApproved /\ CapsHold /\ AccessIsBounded

\* What is stored is so: the delivery queue's rows, the conversation and its
\* index, the knowledge store (queue.js, memory/manager.js, knowledge.js).
RecordsAreTrue == RowsAreHonest /\ MemoryIsTrue /\ NothingTwice

\* What is lost is tried again, and nobody waits without a timer: the AGEX hub,
\* the Cognee server, the requests to an MCP server.
LinksAreRetried == HubIsRetried /\ LostLinkIsRetried /\ WaitersHaveTimers

\* A skill file reads the same to its two parsers, and the skills chosen for a
\* message are its best (skill-parser.js, skill-diagnostics.js, skill-router.js).
SkillsLoadRight == InspectedAsParsed /\ BestAreOffered

\* The owner hears of an outage and of a threshold crossed, whatever fails or was
\* recorded before (liveness-watcher.js, spend-alerter.js).
OwnerHears == NeverLongSilent /\ CrossingsAreHeard

\* What was disturbed comes right: queued messages settle, silent sockets go,
\* the Cognee link returns, the watcher's episodes close (delivery-queue.js,
\* server.js, memory/manager.js, liveness-watcher.js).
ServicesRecover == RowsSettle /\ SilentSocketsGo /\ LinkReturns /\ EpisodesClose
=============================================================================
