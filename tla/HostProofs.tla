------------------------------ MODULE HostProofs ------------------------------
(***************************************************************************)
(* Theorems about the agent on its host: the tunnel of its dashboard       *)
(* (DashboardServer), who gets in there (DashboardAccess), what its boards *)
(* post (ContentBoard), the code that switches trading on (TradingSwitch), *)
(* what a skill's call reports (SkillCall), which process a stop finds and *)
(* what its settings file may forget (Lifecycle), when its owner hears of  *)
(* an outage or a cost (LivenessWatch, SpendAlerts), what a heartbeat may  *)
(* spend (Heartbeat), which skills are loaded (SkillFiles), the requests   *)
(* to a model (ModelCall), what backs a reply (VerificationGates) and      *)
(* which command runs (ShellTool).  Then the bundles of MCServices, and    *)
(* the types of all the services.                                          *)
(***************************************************************************)
EXTENDS RecoveryProofs

-----------------------------------------------------------------------------
(* The tunnel *)

\* What NoStrayTunnel rests on: a tunnel that is waited for or let run is held,
\* and one that was let go of is not running.
TunnelInv ==
  /\ serverAt \in {"down", "tunnel", "up", "failed", "stopped"}
  /\ tunnelProc \in {"none", "running", "killed", "gone"}
  /\ tunnelHeld \in BOOLEAN
  /\ serverAt = "down" => tunnelProc = "none"
  /\ NoStrayTunnel

LEMMA TunnelStep == TunnelInv /\ [ServerNext]_serverVars => TunnelInv'
<1> SUFFICES ASSUME TunnelInv, [ServerNext]_serverVars PROVE TunnelInv'
  OBVIOUS
<1> USE DEF TunnelInv, NoStrayTunnel, tunnelVars, portVars, sockVars, fileVars
<1>1. CASE Listen
  <2>1. CASE serverAt' = "failed" /\ UNCHANGED <<boundPort, toldPort, tunnelProc, tunnelHeld>>
    BY <1>1, <2>1 DEF Listen
  <2>2. CASE serverAt' = (IF tunnelKind = "none" THEN "up" ELSE "tunnel")
             /\ tunnelProc' = (IF tunnelKind = "none" THEN "none" ELSE "running")
             /\ tunnelHeld' = (tunnelKind # "none")
    BY <1>1, <2>2 DEF Listen
  <2> QED BY <1>1, <2>1, <2>2 DEF Listen
<1>2. CASE TunnelOpens
  BY <1>2 DEF TunnelOpens
<1>3. CASE TunnelTimesOut
  BY <1>3 DEF TunnelTimesOut
<1>4. CASE TunnelExits
  BY <1>4 DEF TunnelExits
<1>5. CASE \E b \in Browser : SocketConnects(b) \/ GoSilent(b) \/ Close(b) \/ Pong(b)
  BY <1>5 DEF SocketConnects, GoSilent, Close, Pong
<1>6. CASE SocketBeat \/ PollQuestions \/ \E q \in Question : QuestionFiled(q)
  BY <1>6 DEF SocketBeat, PollQuestions, QuestionFiled
<1>7. CASE StopServer
  BY <1>7 DEF StopServer
<1>8. CASE UNCHANGED serverVars
  BY <1>8 DEF serverVars
<1> QED
  BY <1>1, <1>2, <1>3, <1>4, <1>5, <1>6, <1>7, <1>8 DEF ServerNext

\* No tunnel outlives the server, for any number of browsers and questions and
\* whatever the order of its output, its exit, the time limit and stop().
THEOREM TunnelEndsWithServer == ServerSpec => []NoStrayTunnel
<1>1. ServerInit => TunnelInv
  BY DEF ServerInit, TunnelInv, NoStrayTunnel
<1>2. TunnelInv => NoStrayTunnel
  BY DEF TunnelInv
<1> QED BY <1>1, <1>2, TunnelStep, PTL DEF ServerSpec

-----------------------------------------------------------------------------
(* A skill's call *)

\* What ResultsAreTrue rests on: a call that was not made has no request, the
\* service decides a request once, only a write that was applied is `own`, and a
\* call that was told something has an outcome that can no longer change.
Decided(c) ==
  /\ c \in own => reqState[c] = "applied" /\ method[c] # "read"
  /\ c \in refused => reqState[c] = "refused"
  /\ told[c] = "denied" => reqState[c] = "none"
  /\ told[c] = "refused" => method[c] = "read" \/ reqState[c] = "refused"
  /\ told[c] = "ok" => reqState[c] = "applied"
  /\ told[c] = "closed" => row = "closed"
  /\ c > calls => reqState[c] = "none" /\ told[c] = "none"

Current ==
  /\ phase # "idle" => calls \in CallNo /\ told[calls] = "none"
  /\ phase = "prompt" => reqState[calls] = "none"
  /\ phase = "headers" => reqState[calls] \in {"applied", "refused"}

CallInv == SkillCallTypeOK /\ Current /\ \A c \in CallNo : Decided(c)

LEMMA CallStart == SkillCallInit => CallInv
<1> USE SkillAssumption DEF SkillCallInit, CallNo, Report
<1>1. SkillCallInit => named \in BOOLEAN
  OBVIOUS
<1>2. SkillCallInit => method \in [CallNo -> {"read", "write", "preset"}]
  OBVIOUS
<1>3. SkillCallInit => /\ reqState \in [CallNo -> {"none", "queued", "applied", "refused"}]
                      /\ told \in [CallNo -> Report]
  OBVIOUS
<1>4. SkillCallInit => SkillCallTypeOK
  BY <1>1, <1>2, <1>3 DEF SkillCallTypeOK
<1>5. SkillCallInit => Current /\ \A c \in CallNo : Decided(c)
  BY DEF Current, Decided
<1> QED BY <1>4, <1>5 DEF CallInv

LEMMA CallStep ==
  ASSUME CallInv, [SkillNext]_skillVars
  PROVE  CallInv'
<1> USE SkillAssumption DEF CallInv, SkillCallTypeOK, Current, Decided, CallNo, Report, skillCallKept
<1>1. ASSUME NEW m \in {"read", "write"}, NEW n \in BOOLEAN, Prompt(m, n) PROVE CallInv'
  <2>1. SkillCallTypeOK' /\ Current'
    BY <1>1 DEF Prompt, Lookup
  <2> QED BY <2>1, <1>1 DEF Prompt
<1>2. CASE ApprovalDenied
  BY <1>2 DEF ApprovalDenied, Tells
<1>3. CASE SkillSend
  BY <1>3 DEF SkillSend
<1>4. ASSUME NEW c \in CallNo, ServiceTakes(c) PROVE CallInv'
  <2>1. SkillCallTypeOK'
    BY <1>4 DEF ServiceTakes
  <2>2. Current'
    BY <1>4 DEF ServiceTakes
  <2>3. ASSUME NEW d \in CallNo PROVE Decided(d)'
    BY <1>4 DEF ServiceTakes
  <2> QED BY <2>1, <2>2, <2>3
<1>5. CASE OtherCloses
  BY <1>5 DEF OtherCloses
<1>6. CASE PresetCall
  <2>4. named' \in BOOLEAN
    BY <1>6 DEF PresetCall
  <2>5. resolver' \in BOOLEAN
    BY <1>6 DEF PresetCall
  <2>6. calls' \in 0..MaxCalls /\ calls' \in CallNo /\ calls' = calls + 1
    BY <1>6 DEF PresetCall
  <2>7. method' \in [CallNo -> {"read", "write", "preset"}]
    BY <1>6, <2>6 DEF PresetCall
  <2>8. reqState' \in [CallNo -> {"none", "queued", "applied", "refused"}]
    BY <1>6, <2>6 DEF PresetCall
  <2>1. SkillCallTypeOK'
    BY <1>6, <2>4, <2>5, <2>6, <2>7, <2>8 DEF PresetCall
  <2>2. Current'
    BY <1>6 DEF PresetCall
  <2>3. ASSUME NEW d \in CallNo PROVE Decided(d)'
    BY <1>6 DEF PresetCall
  <2> QED BY <2>1, <2>2, <2>3
<1>7. CASE Headers
  BY <1>7 DEF Headers
<1>8. CASE Body \/ PresetBody
  BY <1>8 DEF Body, PresetBody, Tells
<1>9. CASE ConnectionLost
  BY <1>9 DEF ConnectionLost, Tells
<1>10. CASE ServerError
  BY <1>10 DEF ServerError, Tells
<1>11. CASE ObserveAfterWrite
  BY <1>11 DEF ObserveAfterWrite, Tells
<1>12. CASE UNCHANGED skillVars
  BY <1>12 DEF skillVars
<1> QED
  BY <1>1, <1>2, <1>3, <1>4, <1>5, <1>6, <1>7, <1>8, <1>9, <1>10, <1>11, <1>12 DEF SkillNext

\* However many calls there are, and whatever the service and the other callers do
\* to the row meanwhile, no result says of its own write what is not so.
THEOREM ReportsAreTrue == SkillSpec => []ResultsAreTrue
<1>1. SkillCallInit => CallInv
  BY CallStart
<1>2. CallInv => ResultsAreTrue
  BY DEF CallInv, Decided, ResultsAreTrue
<1>3. CallInv /\ [SkillNext]_skillVars => CallInv'
  BY CallStep
<1> QED BY <1>1, <1>2, <1>3, PTL DEF SkillSpec

-----------------------------------------------------------------------------
(* The agent's process and its settings *)

Step == {"none", "booting", "ready", "stopping", "gone"}

\* A kill moves processes on, never back: it ends those that are starting and
\* starts the shutdown of those that are ready.
Moved(p) ==
  \/ proc'[p] = proc[p]
  \/ proc[p] = "booting" /\ proc'[p] = "gone"
  \/ proc[p] = "ready" /\ proc'[p] = "stopping"

\* What RunningIsFindable rests on: until two processes have been alive at once
\* there is one at most, and the pid file never names one that was not ready yet.
ProcessInv ==
  /\ proc \in [Proc -> Step]
  /\ pidFile \in Proc \cup {NoProc}
  /\ ~overlap => \A p, q \in Proc : Alive(p) /\ Alive(q) => p = q
  /\ pidFile \in Proc => proc[pidFile] \notin {"none", "booting"}
  /\ ~overlap => \A p \in Proc : proc[p] = "ready" => pidFile = p

LEMMA KillMoves ==
  ASSUME ProcessInv, Kill
  PROVE  proc' \in [Proc -> Step] /\ \A p \in Proc : Moved(p)
<1>1. CASE pidFile # NoProc
  <2>1. pidFile \in Proc
    BY <1>1 DEF ProcessInv
  <2> QED BY <1>1, <2>1 DEF ProcessInv, Kill, Signalled, Moved, Step
<1>2. CASE pidFile = NoProc
  BY <1>2 DEF ProcessInv, Kill, Signalled, Moved, Step
<1> QED BY <1>1, <1>2

\* Moving processes on, and taking back a pid file that names a dead one, keeps it.
LEMMA MovesKeep ==
  ASSUME ProcessInv, proc' \in [Proc -> Step], \A p \in Proc : Moved(p), overlap' = overlap,
         pidFile' = pidFile \/ (pidFile' = NoProc /\ (pidFile \in Proc => ~Alive(pidFile)))
  PROVE  ProcessInv'
  BY LifecycleAssumption DEF ProcessInv, Moved, Alive, Step

LEMMA ProcessStep ==
  ASSUME ProcessInv, [LifeNext]_lifeVars
  PROVE  ProcessInv'
<1>1. ASSUME NEW p \in Proc, Boots(p), pidFile' = pidFile PROVE ProcessInv'
  BY <1>1, LifecycleAssumption DEF Boots, ProcessInv, Alive, Step
<1>2. ASSUME NEW p \in Proc,
             CoreStarts(p) \/ AgentsStart(p) \/ ChannelsStart(p) \/ DashboardStarts(p)
      PROVE ProcessInv'
  BY <1>2, LifecycleAssumption
  DEF CoreStarts, AgentsStart, ChannelsStart, DashboardStarts, Starts, LayerFails, Ends, ProcessInv, Alive, Step
<1>3. ASSUME NEW p \in Proc, Ready(p) PROVE ProcessInv'
  BY <1>3, LifecycleAssumption DEF Ready, ProcessInv, Alive, Step
<1>4. ASSUME NEW p \in Proc, ShutdownEnds(p) \/ Dies(p) PROVE ProcessInv'
  BY <1>4, LifecycleAssumption DEF ShutdownEnds, Dies, Ends, ProcessInv, Alive, Step
<1>5. ASSUME NEW ps, Signalled(ps), UNCHANGED <<pidFile, overlap>> PROVE ProcessInv'
  <2>1. proc' \in [Proc -> Step] /\ \A q \in Proc : Moved(q)
    BY <1>5 DEF Signalled, ProcessInv, Moved, Step
  <2> QED BY <2>1, <1>5, MovesKeep
<1>6. CASE Stop
  <2>1. pidFile' = pidFile \/ (pidFile' = NoProc /\ (pidFile \in Proc => ~Alive(pidFile)))
    BY <1>6 DEF Stop
  <2> QED BY <1>6, <2>1, KillMoves, MovesKeep DEF Stop
<1>7. CASE RestartKills
  BY <1>7, KillMoves, MovesKeep DEF RestartKills
<1>8. CASE UpdateKills
  BY <1>5, <1>8 DEF UpdateKills
<1>9. ASSUME UNCHANGED <<proc, pidFile, overlap>> PROVE ProcessInv'
  BY <1>9 DEF ProcessInv, Alive
<1>10. CASE \E p \in Proc : Start(p) \/ RestartStarts(p) \/ UpdateRestarts(p)
  BY <1>10, <1>1 DEF Start, RestartStarts, UpdateRestarts, Boots
<1>11. CASE \/ \E k \in Key : CliSaves(k) \/ ToolWrites(k) \/ \E p \in Proc : AgentSaves(p, k)
            \/ DashboardCommand \/ ToolLoads \/ ToolTruncates \/ ToolFails \/ UpdateEnds
  BY <1>11, <1>9 DEF CliSaves, ToolWrites, AgentSaves, DashboardCommand, ToolLoads, ToolTruncates,
                     ToolFails, UpdateEnds
<1>12. CASE UNCHANGED lifeVars
  BY <1>12, <1>9 DEF lifeVars
<1> QED
  BY <1>2, <1>3, <1>4, <1>6, <1>7, <1>8, <1>10, <1>11, <1>12 DEF LifeNext

\* `qclaw stop` finds the agent that runs, for any number of processes one after
\* the other, as long as no two were alive at once.
THEOREM StopFindsAgent == LifeSpec => []RunningIsFindable
<1>1. LifeInit => ProcessInv
  BY LifecycleAssumption DEF LifeInit, ProcessInv, Alive, Step
<1>2. ProcessInv => RunningIsFindable
  BY DEF ProcessInv, RunningIsFindable
<1>3. ProcessInv /\ [LifeNext]_lifeVars => ProcessInv'
  BY ProcessStep
<1> QED BY <1>1, <1>2, <1>3, PTL DEF LifeSpec
\* Every process has its copy of the settings.
Copies == loaded = [p \in Proc |-> loaded[p]]

LEMMA CopiesStep == Copies /\ [LifeNext]_lifeVars => Copies'
<1> SUFFICES ASSUME Copies, [LifeNext]_lifeVars PROVE Copies'
  OBVIOUS
<1> USE DEF Copies
<1>1. ASSUME UNCHANGED loaded PROVE Copies'
  BY <1>1
<1>2. ASSUME NEW p \in Proc, NEW v, loaded' = [loaded EXCEPT ![p] = v] PROVE Copies'
  BY <1>2
<1>3. ASSUME NEW p \in Proc, ShutdownEnds(p) \/ Dies(p) PROVE Copies'
  BY <1>2, <1>3 DEF ShutdownEnds, Dies, Forgets
<1>4. ASSUME NEW p \in Proc, Start(p) \/ RestartStarts(p) \/ UpdateRestarts(p) PROVE Copies'
  BY <1>2, <1>4 DEF Start, RestartStarts, UpdateRestarts, Boots
<1>5. ASSUME NEW p \in Proc, DashboardStarts(p) PROVE Copies'
  BY <1>1, <1>2, <1>5 DEF DashboardStarts
<1>6. ASSUME NEW p \in Proc, NEW k \in Key, AgentSaves(p, k) PROVE Copies'
  BY <1>2, <1>6 DEF AgentSaves
<1>7. ASSUME NEW p \in Proc, CoreStarts(p) \/ AgentsStart(p) \/ ChannelsStart(p) \/ Ready(p)
      PROVE Copies'
  BY <1>1, <1>2, <1>7 DEF CoreStarts, AgentsStart, ChannelsStart, Ready, LayerFails, Forgets
<1>10. ASSUME NEW ps, Signalled(ps) PROVE Copies'
  BY <1>10 DEF Signalled
<1>11. CASE Stop \/ RestartKills \/ UpdateKills
  BY <1>10, <1>11 DEF Stop, RestartKills, UpdateKills, Kill
<1>8. CASE \/ UpdateEnds \/ DashboardCommand
           \/ ToolLoads \/ ToolTruncates \/ ToolFails \/ \E k \in Key : CliSaves(k) \/ ToolWrites(k)
  BY <1>1, <1>8 DEF UpdateEnds, DashboardCommand, ToolLoads, ToolTruncates, ToolFails, CliSaves, ToolWrites
<1>9. CASE UNCHANGED lifeVars
  BY <1>1, <1>9 DEF lifeVars
<1> QED
  BY <1>3, <1>4, <1>5, <1>6, <1>7, <1>8, <1>9, <1>11 DEF LifeNext

\* What a step may drop from config.json.
Forgotten(k) ==
  \/ Broken \in {file, file'}
  \/ (cli.name = "write" /\ k \notin cli.has)
  \/ \E p \in Proc : Alive(p) /\ file' = loaded'[p] /\ k \notin loaded[p]

LEMMA ForgetStep ==
  ASSUME Copies, [LifeNext]_lifeVars, NEW k \in file \ file'
  PROVE  Forgotten(k)
<1> USE DEF Copies, Forgotten
<1>1. ASSUME NEW x, CliSaves(x) PROVE Forgotten(k)
  BY <1>1 DEF CliSaves, LoadConfig
<1>2. ASSUME NEW p \in Proc, NEW x \in Key, AgentSaves(p, x) PROVE Forgotten(k)
  <2>1. loaded'[p] = loaded[p] \cup {x}
    BY <1>2 DEF AgentSaves
  <2> QED BY <1>2, <2>1 DEF AgentSaves, Alive
<1>3. ASSUME NEW p \in Proc, DashboardStarts(p) PROVE Forgotten(k)
  <2>1. CASE UNCHANGED file
    BY <2>1
  <2>2. CASE loaded' = [loaded EXCEPT ![p] = @ \cup {Token}] /\ file' = loaded'[p]
    <3>1. loaded'[p] = loaded[p] \cup {Token}
      BY <2>2
    <3>2. Alive(p)
      BY <1>3 DEF DashboardStarts, Starts, Alive
    <3> QED BY <2>2, <3>1, <3>2
  <2> QED BY <1>3, <2>1, <2>2 DEF DashboardStarts
<1>4. ASSUME NEW x \in Key, ToolWrites(x) PROVE Forgotten(k)
  BY <1>4 DEF ToolWrites
<1>5. CASE ToolTruncates
  BY <1>5 DEF ToolTruncates
<1>6. CASE UNCHANGED file
  BY <1>6
<1>7. CASE \/ \E p \in Proc : \/ Start(p) \/ CoreStarts(p) \/ AgentsStart(p) \/ ChannelsStart(p)
                              \/ Ready(p) \/ ShutdownEnds(p) \/ Dies(p) \/ RestartStarts(p)
                              \/ UpdateRestarts(p)
           \/ Stop \/ RestartKills \/ UpdateKills \/ UpdateEnds \/ ToolLoads \/ ToolFails
  BY <1>6, <1>7 DEF Start, CoreStarts, AgentsStart, ChannelsStart, Ready, ShutdownEnds, Dies,
     RestartStarts, UpdateRestarts, Boots, Stop, RestartKills, UpdateKills, UpdateEnds, ToolLoads,
     ToolFails
<1> QED
  BY <1>1, <1>2, <1>3, <1>4, <1>5, <1>6, <1>7 DEF LifeNext, DashboardCommand, lifeVars

\* config.json forgets a setting only by way of an older copy, for any settings and
\* any interleaving of the agent's writes and the commands'.
THEOREM SettingsForgottenByOldCopies == LifeSpec => OnlyOldCopiesForget
<1>1. LifeInit => Copies
  BY DEF LifeInit, Copies
<1>2. Copies /\ [LifeNext]_lifeVars => Copies'
  BY CopiesStep
<1>3. Copies /\ [LifeNext]_lifeVars =>
        [\A k \in file \ file' :
           \/ Broken \in {file, file'}
           \/ (cli.name = "write" /\ k \notin cli.has)
           \/ \E p \in Proc : Alive(p) /\ file' = loaded'[p] /\ k \notin loaded[p]]_lifeVars
  BY ForgetStep DEF Forgotten
<1> QED BY <1>1, <1>2, <1>3, PTL DEF LifeSpec, OnlyOldCopiesForget

-----------------------------------------------------------------------------
(* The review boards *)

\* A status says approved only of a row that was, a publishing run is only ever
\* started for one, and only a platform that was asked can be lacking.
BoardInv ==
  /\ content \in [Item -> ItemStatus] /\ draft \in [Draft -> DraftStatus]
  /\ PostedWasApproved /\ lacking \subseteq signedOff
  /\ \A i \in Item : content[i] = "approved" => i \in signedOff
  /\ \A d \in Draft : draft[d] = "approved" => d \in signedOff

LEMMA BoardStep == BoardInv /\ [BoardNext]_boardVars => BoardInv'
<1> SUFFICES ASSUME BoardInv, [BoardNext]_boardVars PROVE BoardInv'
  OBVIOUS
<1> USE DEF BoardInv, PostedWasApproved, ItemStatus, DraftStatus
<1>1. ASSUME UNCHANGED <<content, draft, lacking, hooks, publishing, signedOff, posted>>
      PROVE  BoardInv'
  BY <1>1
<1>2. ASSUME NEW i \in Item,
             \/ PostContent(i) \/ RejectContent(i) \/ RegenerateContent(i) \/ ContentRewritten(i)
      PROVE  BoardInv'
  BY <1>2 DEF PostContent, RejectContent, RegenerateContent, ContentRewritten, Marks, draftVars, runVars
<1>3. ASSUME NEW i \in Item, ApproveContent(i) PROVE BoardInv'
  BY <1>3 DEF ApproveContent, Marks, Fires, draftVars, runVars
<1>4. ASSUME NEW i \in Item, EditContent(i) \/ ContentDue(i) PROVE BoardInv'
  BY <1>1, <1>4 DEF EditContent, ContentDue, draftVars, runVars
<1>5. ASSUME NEW d \in Draft, SchedulePicks(d) PROVE BoardInv'
  BY <1>1, <1>5 DEF SchedulePicks, itemVars, runVars
<1>6. ASSUME NEW d \in Draft,
             ScheduleWrites(d) \/ ScheduleCustom(d) \/ PostNow(d) \/ TelegramGo(d)
      PROVE  BoardInv'
  <2>1. /\ \/ /\ signedOff' = signedOff \cup {d} /\ draft' = [draft EXCEPT ![d] = "approved"]
              /\ hooks' \in {hooks, hooks \cup {d}}
           \/ UNCHANGED <<signedOff, draft, hooks>>
        /\ UNCHANGED <<content, lacking, publishing, posted>>
    BY <1>6 DEF ScheduleWrites, ScheduleCustom, PostNow, TelegramGo, DraftApproved, Fires,
                itemVars, runVars
  <2> QED BY <2>1
<1>7. ASSUME NEW d \in Draft, DraftArrives(d) \/ RejectDraft(d) PROVE BoardInv'
  BY <1>7 DEF DraftArrives, RejectDraft, itemVars, runVars
<1>8. ASSUME NEW i \in Item, PublishContent(i) PROVE BoardInv'
  <2>1. /\ i \in publishing /\ publishing' = publishing \ {i} /\ posted' \in {posted, posted \cup {i}}
        /\ \/ content' = content
           \/ \E s \in {"published", "failed", "approved"} : content' = [content EXCEPT ![i] = s]
        /\ UNCHANGED <<draft, lacking, hooks, signedOff>>
    BY <1>8 DEF PublishContent, MayPost, draftVars
  <2> QED BY <2>1
<1>9. ASSUME NEW d \in Draft, PublishDraft(d) \/ PlatformRetry(d) PROVE BoardInv'
  <2>1. /\ publishing' \subseteq publishing
        /\ \/ draft' = draft
           \/ \E s \in {"published", "partially_published"} : draft' = [draft EXCEPT ![d] = s]
        /\ UNCHANGED <<content, hooks, signedOff>>
    BY <1>9 DEF PublishDraft, PlatformRetry, Shown, itemVars
  <2>2. lacking' \subseteq lacking \cup {d} /\ posted' \subseteq posted \cup {d}
    BY <1>9 DEF PublishDraft, PlatformRetry, Shown, MayPost
  <2>3. d \in signedOff \/ UNCHANGED <<lacking, posted>>
    BY <1>9 DEF PublishDraft, PlatformRetry
  <2> QED BY <2>1, <2>2, <2>3
<1>10. ASSUME NEW r \in Row, PublishStarts(r) PROVE BoardInv'
  BY <1>10 DEF PublishStarts, itemVars, draftVars
<1>11. CASE DayPasses
  BY <1>1, <1>11 DEF DayPasses, itemVars, draftVars, runVars
<1>12. CASE ContentTick \/ DraftTick
  <2>1. PICK due : TimerFires(due) /\ due \subseteq signedOff
    BY <1>12 DEF ContentTick, DraftTick, ContentIsDue, DraftIsDue
  <2> QED BY <2>1 DEF TimerFires, itemVars, draftVars
<1>13. CASE UNCHANGED boardVars
  BY <1>1, <1>13 DEF boardVars
<1> QED
  BY <1>2, <1>3, <1>4, <1>5, <1>6, <1>7, <1>8, <1>9, <1>10, <1>11, <1>12, <1>13 DEF BoardNext

LEMMA BoardStart == BoardInit => BoardInv
  BY DEF BoardInit, BoardInv, PostedWasApproved, ItemStatus, DraftStatus

\* For any rows, any number of days, attempts and rows a tick takes, and whatever
\* becomes of the webhooks and the publishing runs, nothing is posted, or on its way
\* to be, that nobody signed off.
THEOREM NothingPostedUnseen == BoardSpec => []PostedWasApproved
<1>1. BoardInv => PostedWasApproved
  BY DEF BoardInv
<1> QED BY <1>1, BoardStart, BoardStep, PTL DEF BoardSpec

-----------------------------------------------------------------------------
(* Who gets in *)

\* The count of an address at its limit is the lock, ahead or past; one that ran
\* out has forgiven the tries before it.
TriesInv ==
  /\ attempts \in [Ip -> 0..MaxFailures] /\ wrong \in [Ip -> Nat]
  /\ lock \in [Ip -> {"none", "ahead", "past"}]
  /\ \A ip \in Ip : /\ wrong[ip] <= attempts[ip]
                    /\ attempts[ip] = MaxFailures <=> lock[ip] # "none"
                    /\ lock[ip] = "past" => wrong[ip] = 0
ServedInv ==
  /\ window \in [Ip -> Nat] /\ served \in [Ip -> Nat]
  /\ \A ip \in Ip : served[ip] <= window[ip] /\ served[ip] <= RateLimit

LEMMA ForgivenKeeps == ASSUME TriesInv, NEW ip \in Ip, Forgiven(ip) PROVE TriesInv'
  BY AccessAssumption DEF TriesInv, Forgiven

LEMMA CountedKeeps ==
  ASSUME TriesInv, NEW ip \in Ip, Counted(ip), ~LockedOut(ip) PROVE TriesInv'
<1> USE AccessAssumption DEF TriesInv
<1>1. CASE attempts[ip] = MaxFailures
  <2>1. lock[ip] = "past" /\ wrong[ip] = 0
    BY <1>1 DEF LockedOut
  <2>2. attempts' = attempts
    BY <1>1 DEF Counted
  <2>3. /\ lock' = [lock EXCEPT ![ip] = IF attempts[ip] + 1 >= MaxFailures THEN "ahead"
                                        ELSE lock[ip]]
        /\ wrong' = [wrong EXCEPT ![ip] = wrong[ip] + 1]
    BY DEF Counted
  <2>4. wrong' \in [Ip -> Nat] /\ lock' \in [Ip -> {"none", "ahead", "past"}]
    BY <2>3
  <2>5. wrong'[ip] = 1 /\ lock'[ip] = "ahead"
    BY <1>1, <2>1, <2>3
  <2>6. \A q \in Ip : q # ip => wrong'[q] = wrong[q] /\ lock'[q] = lock[q]
    BY <2>3
  <2>7. ASSUME NEW q \in Ip
        PROVE  /\ wrong'[q] <= attempts'[q]
               /\ attempts'[q] = MaxFailures <=> lock'[q] # "none"
               /\ lock'[q] = "past" => wrong'[q] = 0
    <3>1. CASE q = ip
      BY <1>1, <2>2, <2>5, <3>1
    <3>2. CASE q # ip
      BY <2>2, <2>6, <3>2
    <3> QED BY <3>1, <3>2
  <2> QED BY <2>2, <2>4, <2>7
<1>2. CASE attempts[ip] # MaxFailures
  <2>1. attempts[ip] < MaxFailures /\ lock[ip] = "none"
    BY <1>2
  <2>2. /\ attempts' = [attempts EXCEPT ![ip] = attempts[ip] + 1]
        /\ wrong' = [wrong EXCEPT ![ip] = wrong[ip] + 1]
    BY <2>1 DEF Counted
  <2>3. lock' = [lock EXCEPT ![ip] = IF attempts[ip] + 1 >= MaxFailures THEN "ahead"
                                     ELSE lock[ip]]
    BY DEF Counted
  <2>4. /\ attempts' \in [Ip -> 0..MaxFailures] /\ wrong' \in [Ip -> Nat]
        /\ lock' \in [Ip -> {"none", "ahead", "past"}]
    BY <2>1, <2>2, <2>3
  <2>5. /\ attempts'[ip] = attempts[ip] + 1 /\ wrong'[ip] = wrong[ip] + 1
        /\ lock'[ip] = IF attempts[ip] + 1 = MaxFailures THEN "ahead" ELSE "none"
    BY <2>1, <2>2, <2>3
  <2>6. \A q \in Ip : q # ip => /\ attempts'[q] = attempts[q] /\ wrong'[q] = wrong[q]
                                /\ lock'[q] = lock[q]
    BY <2>2, <2>3
  <2>7. ASSUME NEW q \in Ip
        PROVE  /\ wrong'[q] <= attempts'[q]
               /\ attempts'[q] = MaxFailures <=> lock'[q] # "none"
               /\ lock'[q] = "past" => wrong'[q] = 0
    <3>1. CASE q = ip
      BY <2>1, <2>5, <3>1
    <3>2. CASE q # ip
      BY <2>6, <3>2
    <3> QED BY <3>1, <3>2
  <2> QED BY <2>4, <2>7
<1> QED BY <1>1, <1>2

LEMMA RateKeeps == ASSUME ServedInv, NEW ip \in Ip, RateChecked(ip) PROVE ServedInv'
<1> USE AccessAssumption DEF ServedInv
<1>1. CASE window[ip] \in 1..RateLimit
  <2>1. /\ window' = [window EXCEPT ![ip] = window[ip] + 1]
        /\ served' = [served EXCEPT ![ip] = IF window[ip] < RateLimit THEN served[ip] + 1
                                            ELSE served[ip]]
    BY <1>1 DEF RateChecked
  <2> QED BY <1>1, <2>1
<1>2. CASE window[ip] = 0
  <2>1. /\ window' = [window EXCEPT ![ip] = 1]
        /\ served' = [served EXCEPT ![ip] = served[ip] + 1]
    BY <1>2 DEF RateChecked
  <2>2. served[ip] = 0
    BY <1>2
  <2> QED BY <2>1, <2>2
<1>3. CASE window[ip] \notin 0..RateLimit
  BY <1>3 DEF RateChecked
<1> QED BY <1>1, <1>2, <1>3

LEMMA AccessStep ==
  TriesInv /\ ServedInv /\ [AccessNext]_accessVars => TriesInv' /\ ServedInv'
<1> SUFFICES ASSUME TriesInv, ServedInv, [AccessNext]_accessVars
             PROVE  TriesInv' /\ ServedInv'
  OBVIOUS
<1>1. UNCHANGED <<attempts, lock, wrong>> => TriesInv'
  BY DEF TriesInv
<1>2. UNCHANGED <<window, served>> => ServedInv'
  BY DEF ServedInv
<1>3. ASSUME NEW ip \in Ip, NEW right \in BOOLEAN, Login(ip, right) \/ VerifyPin(ip, right)
      PROVE  TriesInv' /\ ServedInv'
  BY <1>2, <1>3, ForgivenKeeps, CountedKeeps DEF Login, VerifyPin
<1>4. ASSUME NEW ip \in Ip, Logout(ip) PROVE TriesInv' /\ ServedInv'
  BY <1>1, <1>2, <1>4 DEF Logout
<1>5. ASSUME NEW ip \in Ip, LockEnds(ip) PROVE TriesInv' /\ ServedInv'
  BY <1>2, <1>5 DEF LockEnds, TriesInv
<1>6. ASSUME NEW ip \in Ip, MinuteEnds(ip) PROVE TriesInv' /\ ServedInv'
  BY <1>1, <1>6, AccessAssumption DEF MinuteEnds, ServedInv
<1>7. ASSUME NEW ip \in Ip, NEW cred \in Credential, Request(ip, cred)
      PROVE  TriesInv' /\ ServedInv'
  <2>1. \/ Counted(ip) /\ ~LockedOut(ip) /\ UNCHANGED <<window, served>>
        \/ UNCHANGED <<attempts, lock, wrong, window, served>>
        \/ Forgiven(ip) /\ RateChecked(ip)
    <3> DEFINE via == Resolved(ip, cred)
               aged == via # "cookie" /\ ip \notin Local /\ ~ownToken /\ tokenOld
    <3>1. CASE via = "refused"
      BY <1>7, <3>1 DEF Request
    <3>2. CASE via # "refused" /\ aged
      BY <1>7, <3>2 DEF Request
    <3>3. CASE via # "refused" /\ ~aged
      BY <1>7, <3>3 DEF Request
    <3> QED BY <3>1, <3>2, <3>3
  <2> QED BY <1>1, <1>2, <2>1, ForgivenKeeps, CountedKeeps, RateKeeps
<1>8. CASE DayEnds
  BY <1>1, <1>2, <1>8 DEF DayEnds
<1>9. CASE Cleanup
  <2>1. TriesInv'
    BY <1>9, AccessAssumption DEF Cleanup, TriesInv
  <2> QED BY <1>2, <1>9, <2>1 DEF Cleanup
<1>10. CASE UNCHANGED accessVars
  BY <1>1, <1>2, <1>10 DEF accessVars
<1> QED
  BY <1>3, <1>4, <1>5, <1>6, <1>7, <1>8, <1>9, <1>10 DEF AccessNext

LEMMA AccessStart == AccessInit => TriesInv /\ ServedInv
  BY AccessAssumption DEF AccessInit, TriesInv, ServedInv, Zero

LEMMA AccessTrue == TriesInv /\ ServedInv => AccessIsBounded
  BY AccessAssumption DEF TriesInv, ServedInv, AccessIsBounded

\* For any addresses and limits, and whatever doors are tried in which order, the
\* wrong tries and the requests of an address stay within them.
THEOREM TriesAreBounded == AccessSpec => []AccessIsBounded
<1> QED BY AccessStart, AccessTrue, AccessStep, PTL DEF AccessSpec

-----------------------------------------------------------------------------
(* The trading switch *)

Enabling == {r \in Req : reqAt[r] = "enabling"}
Used == {r \in Req : spent[r] = 1}

\* A code that waits in the slot has reached the owner and was never spent nor
\* cancelled, and the request that asked for it is done, so that it cannot come
\* a second time.
CodesInv ==
  /\ spent \in [Req -> {0, 1}] /\ codesTold \subseteq Req /\ cancelled \subseteq codesTold
  /\ \A r \in Req : spent[r] = 1 => r \in codesTold
  /\ \A r \in codesTold : reqAt[r] = "done"
  /\ pendingEnable \in codesTold \cup {NoReq}
  /\ pendingEnable # NoReq => spent[pendingEnable] = 0 /\ pendingEnable \notin cancelled
  /\ \A r \in cancelled : spent[r] = 0
CountInv ==
  /\ reqAt \in [Req -> SwitchStage]
  /\ IsFiniteSet(Enabling) /\ IsFiniteSet(Used)
  /\ Cardinality(Enabling) <= Cardinality(Used)

\* The stages a request may leave.
UnderWay == SwitchStage \ {"done"}

\* A request that moves on, other than to an enable, leaves the codes sent with
\* requests that are done, and the enables no more than the codes spent.
LEMMA GoesKeeps ==
  ASSUME CodesInv, CountInv, NEW r \in Req, NEW from \in UnderWay,
         NEW to \in SwitchStage \ {"enabling"}, Goes(r, from, to)
  PROVE  /\ \A q \in codesTold : reqAt'[q] = "done"
         /\ spent' = spent => CountInv'
         /\ reqAt' = [reqAt EXCEPT ![r] = to]
<1>0. reqAt' = [reqAt EXCEPT ![r] = to] /\ reqAt[r] = from
  BY DEF Goes
<1>1. r \notin codesTold
  BY <1>0 DEF CodesInv, UnderWay
<1>2. \A q \in codesTold : reqAt'[q] = "done"
  BY <1>0, <1>1 DEF CodesInv, CountInv
<1>3. ASSUME spent' = spent PROVE CountInv'
  <2>1. Used' = Used
    BY <1>3 DEF Used
  <2>2. Enabling' = Enabling \ {r}
    BY <1>0 DEF Enabling, CountInv, SwitchStage
  <2>3. IsFiniteSet(Enabling') /\ Cardinality(Enabling') <= Cardinality(Enabling)
    BY <2>2, FS_Subset DEF CountInv
  <2>4. Cardinality(Enabling') \in Nat /\ Cardinality(Enabling) \in Nat /\ Cardinality(Used) \in Nat
    BY <2>3, FS_CardinalityType DEF CountInv
  <2>5. reqAt' \in [Req -> SwitchStage]
    BY <1>0 DEF CountInv
  <2> QED BY <2>1, <2>3, <2>4, <2>5 DEF CountInv
<1> QED BY <1>0, <1>2, <1>3

LEMMA SwitchStep ==
  CodesInv /\ CountInv /\ [SwitchNext]_switchVars => CodesInv' /\ CountInv'
<1> SUFFICES ASSUME CodesInv, CountInv, [SwitchNext]_switchVars
             PROVE  CodesInv' /\ CountInv'
  OBVIOUS
<1> USE SwitchAssumption
<1>1. ASSUME UNCHANGED <<reqAt, spent>> PROVE CountInv'
  BY <1>1 DEF CountInv, Enabling, Used
<1>2. ASSUME NEW r \in Req, NEW from \in UnderWay,
             NEW to \in SwitchStage \ {"enabling"},
             Goes(r, from, to), UNCHANGED <<pendingEnable, codesTold, spent, cancelled>>
      PROVE  CodesInv' /\ CountInv'
  BY <1>2, GoesKeeps DEF CodesInv
<1>3. ASSUME NEW r \in Req,
             \/ EnableRequested(r) \/ EnableSends(r) \/ SaveRequested(r)
             \/ FieldsWritten(r) \/ BadLimits(r) \/ EnableWritten(r)
      PROVE  CodesInv' /\ CountInv'
  BY <1>2, <1>3 DEF EnableRequested, EnableSends, SaveRequested, FieldsWritten, BadLimits,
                    EnableWritten, SwitchStage, UnderWay
<1>4. ASSUME NEW r \in Req, CodeSent(r) PROVE CodesInv' /\ CountInv'
  <2>1. /\ \A q \in codesTold : reqAt'[q] = "done"
        /\ CountInv' /\ reqAt'[r] = "done" /\ r \notin codesTold
        /\ UNCHANGED <<spent, cancelled>>
    BY <1>4, GoesKeeps DEF CodeSent, SwitchStage, UnderWay, Goes, CodesInv, CountInv
  <2>2. \/ pendingEnable' = r /\ codesTold' = codesTold \cup {r}
        \/ pendingEnable' = NoReq /\ codesTold' = codesTold
    BY <1>4 DEF CodeSent
  <2> QED BY <2>1, <2>2 DEF CodesInv
<1>5. ASSUME NEW r \in Req, DisableRequested(r) PROVE CodesInv' /\ CountInv'
  <2>1. /\ \A q \in codesTold : reqAt'[q] = "done"
        /\ CountInv' /\ UNCHANGED <<spent, codesTold>>
        /\ pendingEnable' = NoReq
        /\ cancelled' = cancelled \cup ({pendingEnable} \ {NoReq})
    BY <1>5, GoesKeeps DEF DisableRequested, SwitchStage, UnderWay
  <2> QED BY <2>1 DEF CodesInv
<1>6. ASSUME NEW r \in Req, ConfirmRequested(r) PROVE CodesInv' /\ CountInv'
  <2>1. PICK code \in codesTold \cup {NoReq} :
          IF CheckOtp(code)
          THEN /\ Goes(r, "new", "enabling")
               /\ pendingEnable' = NoReq
               /\ spent' = [spent EXCEPT ![code] = @ + 1]
          ELSE Goes(r, "new", "done") /\ UNCHANGED <<pendingEnable, spent>>
    BY <1>6 DEF ConfirmRequested
  <2>2. UNCHANGED <<codesTold, cancelled>>
    BY <1>6 DEF ConfirmRequested
  <2>3. CASE ~CheckOtp(code)
    BY <1>2, <2>1, <2>2, <2>3 DEF SwitchStage, UnderWay
  <2>4. CASE CheckOtp(code)
    <3>1. /\ code \in Req /\ code \in codesTold /\ spent[code] = 0 /\ code \notin cancelled
          /\ reqAt[r] = "new" /\ reqAt' = [reqAt EXCEPT ![r] = "enabling"]
          /\ pendingEnable' = NoReq /\ spent' = [spent EXCEPT ![code] = 1]
      BY <2>1, <2>4 DEF CheckOtp, CodesInv, Goes
    <3>2. CodesInv'
      BY <2>2, <3>1 DEF CodesInv, CountInv
    <3>3. Enabling' = Enabling \cup {r} /\ r \notin Enabling
      BY <3>1 DEF Enabling, CountInv
    <3>4. Used' = Used \cup {code} /\ code \notin Used
      BY <3>1 DEF Used, CodesInv
    <3>5. /\ IsFiniteSet(Enabling') /\ Cardinality(Enabling') = Cardinality(Enabling) + 1
          /\ IsFiniteSet(Used') /\ Cardinality(Used') = Cardinality(Used) + 1
      BY <3>3, <3>4, FS_AddElement DEF CountInv
    <3>6. Cardinality(Enabling) \in Nat /\ Cardinality(Used) \in Nat
      BY FS_CardinalityType DEF CountInv
    <3>7. reqAt' \in [Req -> SwitchStage]
      BY <3>1 DEF CountInv, SwitchStage
    <3> QED BY <3>2, <3>5, <3>6, <3>7 DEF CountInv
  <2> QED BY <2>3, <2>4
<1>7. CASE CodeExpires \/ ConfirmWindowEnds \/ UNCHANGED switchVars
  <2>1. UNCHANGED <<pendingEnable, reqAt, codesTold, spent, cancelled>>
    BY <1>7 DEF CodeExpires, ConfirmWindowEnds, switchVars
  <2> QED BY <1>1, <2>1 DEF CodesInv
<1> QED
  BY <1>3, <1>4, <1>5, <1>6, <1>7 DEF SwitchNext

LEMMA SwitchStart == SwitchInit => CodesInv /\ CountInv
<1> SUFFICES ASSUME SwitchInit PROVE CodesInv /\ CountInv
  OBVIOUS
<1>1. CodesInv
  BY DEF SwitchInit, CodesInv
<1>2. Enabling = {} /\ Used = {} /\ reqAt \in [Req -> SwitchStage]
  BY DEF SwitchInit, Enabling, Used, SwitchStage
<1> QED BY <1>1, <1>2, FS_EmptySet DEF CountInv

LEMMA SwitchTrue == CodesInv /\ CountInv => OneEnablePerCode
<1> SUFFICES ASSUME CodesInv, CountInv PROVE OneEnablePerCode
  OBVIOUS
<1>1. Cardinality({r \in Req : reqAt[r] = "enabling"}) <= Cardinality({r \in Req : spent[r] = 1})
  BY DEF CountInv, Enabling, Used
<1>2. \A r \in Req : spent[r] <= 1 /\ (spent[r] = 1 => r \in codesTold)
  BY DEF CodesInv
<1>3. \A r \in cancelled : spent[r] = 0 /\ pendingEnable # r
  BY SwitchAssumption DEF CodesInv
<1> QED BY <1>1, <1>2, <1>3 DEF OneEnablePerCode

\* For any number of requests and confirmations, a code is spent once, by one
\* enable, after it was sent to the owner, and never once a disable found it.
THEOREM CodesAreSpentOnce == SwitchSpec => []OneEnablePerCode
<1> QED BY SwitchStart, SwitchTrue, SwitchStep, PTL DEF SwitchSpec

-----------------------------------------------------------------------------
(* What the owner hears *)

\* What NeverLongSilent rests on: the last alert of every episode that stands is
\* at least as old as the silence, so that the silence is over when a reminder is
\* due; and no episode has a last alert older than its first.
SpokenOf(c) ==
  ledger[c].first # NoBeat =>
    /\ ledger[c].last \in 0..Cap /\ ledger[c].first \in 0..Cap
    /\ ledger[c].first >= ledger[c].last
    /\ ledger[c].last >= IF ran THEN silent ELSE silent + 1

WatchInv ==
  /\ WatchTypeOK /\ silent < ThenEvery
  /\ \A c \in Outage : SpokenOf(c)

LEMMA WatchStart == WatchInit => WatchInv
<1>1. WatchInit => WatchTypeOK
  <2> DEFINE ages == {NoBeat} \cup (0..Cap)
  <2>1. NoEpisode \in [first : ages, last : ages]
    BY DEF NoEpisode
  <2>2. 0 \in 0..Cap
    BY WatchAssumption DEF Cap
  <2> HIDE DEF ages
  <2>3. WatchInit => ledger \in [Outage -> [first : ages, last : ages]]
    BY <2>1 DEF WatchInit
  <2> QED BY <2>2, <2>3 DEF WatchInit, WatchTypeOK, ages
<1> QED BY <1>1, WatchAssumption DEF WatchInit, WatchInv, SpokenOf, NoEpisode

LEMMA WatchStep == WatchInv /\ [WatchNext]_watchVars => WatchInv'
<1> SUFFICES ASSUME WatchInv, [WatchNext]_watchVars PROVE WatchInv'
  OBVIOUS
<1>0. /\ Stale \in Nat /\ ThenEvery \in Nat /\ Cap = ThenEvery /\ NoBeat = -1
      /\ FirstReminder \in Nat /\ FirstReminder >= 1 /\ FirstReminder <= ThenEvery
  BY WatchAssumption DEF Cap, NoBeat
<1>t. /\ process \in {"off", "runs", "deaf"} /\ beatAge \in {NoBeat} \cup (0..Stale + 1)
      /\ beatDeaf \in BOOLEAN /\ supabase \in BOOLEAN /\ telegram \in BOOLEAN
      /\ disk \in {"ok", "unwritable", "unreadable"} /\ armed \in BOOLEAN /\ ran \in BOOLEAN
      /\ silent \in Nat /\ silent < ThenEvery
      /\ ledger = [c \in Outage |-> ledger[c]]
      /\ \A c \in Outage :
           /\ ledger[c] \in [first: {NoBeat} \cup (0..Cap), last: {NoBeat} \cup (0..Cap)]
           /\ ledger[c].first \in {NoBeat} \cup (0..Cap) /\ ledger[c].last \in {NoBeat} \cup (0..Cap)
           /\ SpokenOf(c)
  BY <1>0 DEF WatchInv, WatchTypeOK
<1>1. CASE LivenessBeat
  <2>1. beatAge' \in {NoBeat} \cup (0..Stale + 1) /\ beatDeaf' \in BOOLEAN
    BY <1>0, <1>1 DEF LivenessBeat
  <2> QED BY <1>1, <2>1 DEF LivenessBeat, WatchInv, WatchTypeOK, SpokenOf
<1>2. CASE WorldChanges
  <2>1. /\ process' \in {"off", "runs", "deaf"} /\ supabase' \in BOOLEAN /\ telegram' \in BOOLEAN
        /\ disk' \in {"ok", "unwritable", "unreadable"}
    BY <1>t, <1>2 DEF WorldChanges
  <2> QED BY <1>2, <2>1 DEF WorldChanges, WatchInv, WatchTypeOK, SpokenOf
<1>3. CASE Tick
  <2>1. /\ \A c \in Outage : ledger'[c] = [first |-> Older(ledger[c].first, Cap),
                                           last |-> Older(ledger[c].last, Cap)]
        /\ ledger' = [c \in Outage |-> ledger'[c]]
        /\ ran /\ ran' = FALSE /\ silent' = silent
    BY <1>3 DEF Tick
  <2>2. \A c \in Outage :
          ledger'[c] \in [first: {NoBeat} \cup (0..Cap), last: {NoBeat} \cup (0..Cap)]
    BY <1>0, <1>t, <2>1 DEF Older
  <2>3. beatAge' \in {NoBeat} \cup (0..Stale + 1)
    BY <1>0, <1>t, <1>3 DEF Tick, Older
  <2>4. ASSUME NEW c \in Outage PROVE SpokenOf(c)'
    <3> DEFINE f == ledger[c].first
               l == ledger[c].last
    <3>1. ledger'[c].first = Older(f, Cap) /\ ledger'[c].last = Older(l, Cap)
      BY <2>1
    <3>2. f \in {NoBeat} \cup (0..Cap)
          /\ (f # NoBeat => f \in 0..Cap /\ l \in 0..Cap /\ f >= l /\ l >= silent)
      BY <1>t, <2>1 DEF SpokenOf
    <3> HIDE DEF f, l
    <3>3. CASE f = NoBeat
      BY <3>1, <3>3 DEF SpokenOf, Older
    <3>4. CASE f # NoBeat
      <4>1. /\ f \in Nat /\ l \in Nat /\ f # NoBeat /\ l # NoBeat /\ f <= Cap /\ l <= Cap
            /\ f >= l /\ l >= silent
        BY <1>0, <3>2, <3>4
      <4>2. /\ Older(f, Cap) \in 0..Cap /\ Older(l, Cap) \in 0..Cap /\ Older(f, Cap) >= Older(l, Cap)
            /\ Older(l, Cap) >= silent + 1
        BY <1>0, <1>t, <4>1 DEF Older
      <4> QED BY <2>1, <3>1, <4>2 DEF SpokenOf
    <3> QED BY <3>3, <3>4
  <2>5. ledger' \in [Outage -> [first: {NoBeat} \cup (0..Cap), last: {NoBeat} \cup (0..Cap)]]
    BY <2>1, <2>2
  <2> QED BY <1>t, <1>3, <2>3, <2>4, <2>5 DEF Tick, WatchInv, WatchTypeOK
<1>4. CASE RunWatcher
  <2>0. /\ ~ran /\ ran' = TRUE /\ UNCHANGED watchWorld
        /\ silent' = IF Class \in Outage /\ telegram /\ ~AlertFires
                     THEN IF silent < Cap THEN silent + 1 ELSE Cap
                     ELSE 0
        /\ armed' \in BOOLEAN
    BY <1>4 DEF RunWatcher
  <2>1. ASSUME NEW c \in Outage
        PROVE  \/ ledger'[c] = ledger[c]
               \/ ledger'[c] = NoEpisode
               \/ c = Class /\ AlertFires /\ ledger'[c] = Fired(ledger[c])
    BY <1>t, <1>4 DEF RunWatcher
  <2>2. ASSUME Class \in Outage, telegram, ~AlertFires
        PROVE  silent + 1 < ThenEvery
    <3> DEFINE ep == Episode(Class)
               f == ledger[Class].first
               l == ledger[Class].last
    <3>1. ~ReminderDue(ep)
      BY <2>2 DEF AlertFires
    <3>2. ep = ledger[Class] /\ f # NoBeat
      BY <3>1 DEF ReminderDue, Episode, NoEpisode
    <3>3. f \in 0..Cap /\ l \in 0..Cap /\ f >= l /\ l >= silent + 1
      BY <1>t, <2>0, <2>2, <3>2 DEF SpokenOf
    <3>4. f < FirstReminder \/ l < (IF l = f THEN FirstReminder ELSE ThenEvery)
      <4> HIDE DEF ep
      <4>1. ep.first = f /\ ep.last = l
        BY <3>2
      <4> HIDE DEF f, l
      <4> QED BY <1>0, <3>1, <3>3, <4>1 DEF ReminderDue
    <3> HIDE DEF f, l
    <3> QED BY <1>0, <1>t, <3>3, <3>4
  <2>3. /\ silent' \in 0..Cap /\ silent' < ThenEvery
        /\ silent' = 0 \/ (silent' = silent + 1 /\ ~AlertFires)
    BY <1>0, <1>t, <2>0, <2>2
  <2>4. ASSUME NEW c \in Outage
        PROVE  /\ SpokenOf(c)'
               /\ ledger'[c] \in [first: {NoBeat} \cup (0..Cap), last: {NoBeat} \cup (0..Cap)]
    <3>1. CASE ledger'[c] = ledger[c]
      <4>1. SpokenOf(c)'
        BY <1>0, <1>t, <2>0, <2>3, <3>1 DEF SpokenOf
      <4> QED BY <1>t, <3>1, <4>1
    <3>2. CASE ledger'[c] = NoEpisode
      BY <1>0, <3>2 DEF SpokenOf, NoEpisode
    <3>3. CASE c = Class /\ AlertFires /\ ledger'[c] = Fired(ledger[c])
      <4>1. silent' = 0
        BY <2>3, <3>3
      <4>2. /\ ledger'[c].last = 0 /\ ledger'[c].first \in 0..Cap
            /\ ledger'[c] = [first |-> ledger'[c].first, last |-> 0]
        BY <1>0, <1>t, <3>3 DEF Fired
      <4>3. SpokenOf(c)'
        BY <1>0, <2>0, <4>1, <4>2 DEF SpokenOf
      <4> QED BY <1>0, <4>2, <4>3
    <3> QED BY <2>1, <3>1, <3>2, <3>3
  <2>5. ledger' \in [Outage -> [first: {NoBeat} \cup (0..Cap), last: {NoBeat} \cup (0..Cap)]]
    <3>1. ledger' = [c \in Outage |-> ledger'[c]]
      BY <1>t, <1>4 DEF RunWatcher
    <3> QED BY <2>4, <3>1
  <2> QED BY <1>t, <2>0, <2>3, <2>4, <2>5 DEF watchWorld, WatchInv, WatchTypeOK
<1>5. CASE UNCHANGED watchVars
  BY <1>5 DEF watchVars, WatchInv, WatchTypeOK, SpokenOf
<1> QED BY <1>1, <1>2, <1>3, <1>4, <1>5 DEF WatchNext

-----------------------------------------------------------------------------
\* What CrossingsAreHeard rests on: while one run was silent, no tier has tried in
\* the hour before the next, so no cooldown holds, and the health alert may go.
QuietInv ==
  /\ minute \in {":00", ":05", ":06"} /\ lastTry \in [Tier -> 0..LongAgo]
  /\ health \in 0..LongAgo /\ quiet \in {0, 1}
  /\ minute # ":06" => health >= 1 + quiet /\ \A t \in Tier : lastTry[t] >= 1 + quiet
  /\ health >= quiet /\ \A t \in Tier : lastTry[t] >= quiet

LEMMA QuietStart == SpendInit => QuietInv
  BY DEF SpendInit, QuietInv, LongAgo

LEMMA AlertQuiet ==
  ASSUME QuietInv, minute = ":05", minute' = ":06", NEW t \in Tier, NEW early \in BOOLEAN,
         Alert(t, early)
  PROVE  QuietInv'
<1>1. lastTry \in [Tier -> 0..2] /\ health \in 1..2 /\ quiet \in {0, 1} /\ health >= 1 + quiet
      /\ \A u \in Tier : lastTry[u] >= 1 + quiet
  BY DEF QuietInv, LongAgo
<1>2. InCooldown(t, early) => quiet = 0
  BY <1>1 DEF InCooldown
<1>3. CASE UNCHANGED <<lastTry, health>> /\ quiet' = 0
  BY <1>1, <1>3 DEF QuietInv, LongAgo
<1>4. CASE UNCHANGED <<lastTry, health>> /\ quiet' = 1
  BY <1>1, <1>4 DEF QuietInv, LongAgo
<1>5. CASE lastTry' = [lastTry EXCEPT ![t] = 0] /\ quiet' = 0 /\ UNCHANGED health
  BY <1>1, <1>5 DEF QuietInv, LongAgo
<1>6. CASE /\ lastTry' = [u \in Tier |-> IF u = t THEN 0 ELSE LongAgo]
           /\ health' \in {0, health} /\ quiet' = 0
  BY <1>1, <1>6 DEF QuietInv, LongAgo
<1>7. CASE health' \in {0, health} /\ quiet' = 0 /\ UNCHANGED lastTry
  BY <1>1, <1>7 DEF QuietInv, LongAgo
<1>8. \A gap \in HealthGap : quiet = 1 => health >= gap
  BY <1>1 DEF HealthGap
<1>9. health' \in {IF health >= gap THEN 0 ELSE health : gap \in HealthGap} => health' \in {0, health}
  OBVIOUS
<1> QED BY <1>1, <1>2, <1>3, <1>4, <1>5, <1>6, <1>7, <1>8, <1>9 DEF Alert

LEMMA QuietStep == QuietInv /\ [SpendNext]_spendVars => QuietInv'
<1> SUFFICES ASSUME QuietInv, [SpendNext]_spendVars PROVE QuietInv'
  OBVIOUS
<1>1. CASE Turn
  BY <1>1 DEF Turn, QuietInv
<1>2. CASE HourEnds
  <2>1. lastTry \in [Tier -> 0..2] /\ health \in 0..2 /\ quiet \in {0, 1} /\ health >= quiet
        /\ \A u \in Tier : lastTry[u] >= quiet
    BY DEF QuietInv, LongAgo
  <2>2. /\ minute' = ":00" /\ lastTry' = [t \in Tier |-> Elapsed(lastTry[t])]
        /\ health' = Elapsed(health) /\ quiet' = quiet
    BY <1>2 DEF HourEnds
  <2>3. \A t \in Tier : Elapsed(lastTry[t]) \in 0..2 /\ Elapsed(lastTry[t]) >= 1 + quiet
    BY <2>1 DEF Elapsed, LongAgo
  <2>4. Elapsed(health) \in 0..2 /\ Elapsed(health) >= 1 + quiet
    BY <2>1 DEF Elapsed, LongAgo
  <2> HIDE DEF Elapsed
  <2> QED BY <2>1, <2>2, <2>3, <2>4 DEF QuietInv, LongAgo
<1>3. CASE Aggregate
  BY <1>3 DEF Aggregate, QuietInv
<1>4. ASSUME NEW e \in BOOLEAN, RunAlerter(e) PROVE QuietInv'
  <2>1. CASE \E t \in Tier : Trips(t) /\ Alert(t, e)
    BY <1>4, <2>1, AlertQuiet DEF RunAlerter
  <2>2. CASE quiet' = 0 /\ UNCHANGED <<lastTry, ledgerIs, health>>
    <3>1. minute' = ":06"
      BY <1>4 DEF RunAlerter
    <3> QED BY <2>2, <3>1 DEF QuietInv, LongAgo
  <2> QED BY <1>4, <2>1, <2>2 DEF RunAlerter
<1>5. CASE SpendWorld
  BY <1>5 DEF SpendWorld, QuietInv
<1>6. CASE UNCHANGED spendVars
  BY <1>6 DEF spendVars, QuietInv
<1> QED BY <1>1, <1>2, <1>3, <1>4, <1>5, <1>6 DEF SpendNext

\* For any staleness and spacing of the reminders, and any thresholds: an outage is
\* spoken of within the spacing of the reminders, and a threshold that stays
\* crossed within two runs of the alerter, whatever fails, flaps or was recorded
\* before.
THEOREM OwnerIsTold == ServicesSpec => []OwnerHears
<1> DEFINE HearsInv == WatchInv /\ QuietInv
<1>1. ServicesInit => HearsInv
  BY EachBegins, WatchStart, QuietStart
<1>2. HearsInv /\ [ServicesNext]_servicesVars => HearsInv'
  BY EachMoves, WatchStep, QuietStep
<1>3. HearsInv => OwnerHears
  BY DEF WatchInv, QuietInv, OwnerHears, NeverLongSilent, CrossingsAreHeard
<1> HIDE DEF HearsInv
<1> QED BY <1>1, <1>2, <1>3, PTL DEF ServicesSpec

-----------------------------------------------------------------------------
(* The heartbeat's caps *)

LEMMA TimesMore ==
  ASSUME NEW m \in Nat, NEW n \in Nat, NEW t \in Nat, m <= n
  PROVE  m * t \in Nat /\ n * t \in Nat /\ m * t <= n * t
  OBVIOUS

LEMMA TimesNext ==
  ASSUME NEW n \in Nat, NEW t \in Nat
  PROVE  n * t \in Nat /\ (n + 1) * t \in Nat /\ (n + 1) * t = n * t + t
  OBVIOUS

\* The model calls that the activations under way may still make.
Owed ==
  {q \in Beat \X (1..Queries) :
     \/ beat[q[1]] \in {"task", "question"} /\ q[2] = 1
     \/ beat[q[1]] = "discovery" /\ q[2] <= left[q[1]]}
Questioning == {b \in Beat : beat[b] = "question"}
Most == Cardinality(Beat) * Queries

\* What CapsHold rests on: what was charged, with what is still owed, goes above
\* the cap by no more than every activation and the question after boot may add;
\* so with the questions asked and under way.
CapsInv ==
  /\ {beating, graph, waited, bootDue} \subseteq BOOLEAN
  /\ cost \in Nat /\ asked \in Nat
  /\ beat \in [Beat -> {"idle", "task", "discovery", "question"}]
  /\ left \in [Beat -> 0..Queries]
  /\ \A b \in Beat : beat[b] = "discovery" => left[b] >= 1
  /\ cost + Cardinality(Owed) * TurnCost <= CostCap + (Most + IF bootDue THEN 0 ELSE 1) * TurnCost
  /\ asked + Cardinality(Questioning) < MaxAsked + Cardinality(Beat)
  /\ MaxAsked = 0 => Questioning = {}

LEMMA OwedIsBounded ==
  /\ Queries \in Nat /\ Queries >= 1 /\ CostCap \in Nat /\ TurnCost \in Nat /\ MaxAsked \in Nat
  /\ Cardinality(Beat) \in Nat /\ Cardinality(Beat) >= 1 /\ Most \in Nat
  /\ IsFiniteSet(Owed) /\ Cardinality(Owed) \in Nat /\ Cardinality(Owed) <= Most
  /\ IsFiniteSet(Questioning) /\ Cardinality(Questioning) \in Nat
  /\ Cardinality(Questioning) <= Cardinality(Beat)
<1>1. Queries \in Nat /\ Queries >= 1 /\ CostCap \in Nat /\ TurnCost \in Nat /\ MaxAsked \in Nat
      /\ IsFiniteSet(Beat) /\ Beat # {}
  BY HeartbeatAssumption
<1>2. Cardinality(Beat) \in Nat /\ Cardinality(Beat) >= 1
  BY <1>1, FS_CardinalityType, FS_EmptySet
<1>3. IsFiniteSet(1..Queries) /\ Cardinality(1..Queries) = Queries
  BY <1>1, FS_Interval
<1>4. IsFiniteSet(Beat \X (1..Queries)) /\ Cardinality(Beat \X (1..Queries)) = Most
  BY <1>1, <1>3, FS_Product DEF Most
<1>5. Most \in Nat
  BY <1>4, FS_CardinalityType
<1>6. IsFiniteSet(Owed) /\ Cardinality(Owed) <= Most
  <2>1. Owed \subseteq Beat \X (1..Queries)
    BY DEF Owed
  <2> QED BY <1>4, <2>1, FS_Subset
<1>7. IsFiniteSet(Questioning) /\ Cardinality(Questioning) <= Cardinality(Beat)
  <2>1. Questioning \subseteq Beat
    BY DEF Questioning
  <2> QED BY <1>1, <2>1, FS_Subset
<1>8. Cardinality(Owed) \in Nat /\ Cardinality(Questioning) \in Nat
  BY <1>6, <1>7, FS_CardinalityType
<1> QED BY <1>1, <1>2, <1>5, <1>6, <1>7, <1>8

LEMMA OwedIsBoundedNext ==
  /\ IsFiniteSet(Owed') /\ Cardinality(Owed') \in Nat /\ Cardinality(Owed') <= Most
  /\ IsFiniteSet(Questioning') /\ Cardinality(Questioning') \in Nat
  /\ Cardinality(Questioning') <= Cardinality(Beat)
<1>1. IsFiniteSet(Beat)
  BY HeartbeatAssumption
<1>2. IsFiniteSet(1..Queries) /\ Cardinality(1..Queries) = Queries
  <2>1. Queries \in Nat /\ Queries >= 1
    BY HeartbeatAssumption
  <2> QED BY <2>1, FS_Interval
<1>3. IsFiniteSet(Beat \X (1..Queries)) /\ Cardinality(Beat \X (1..Queries)) = Most
  BY <1>1, <1>2, FS_Product DEF Most
<1>4. IsFiniteSet(Owed') /\ Cardinality(Owed') <= Most
  <2>1. Owed' \subseteq Beat \X (1..Queries)
    BY DEF Owed
  <2> QED BY <1>3, <2>1, FS_Subset
<1>5. IsFiniteSet(Questioning') /\ Cardinality(Questioning') <= Cardinality(Beat)
  <2>1. Questioning' \subseteq Beat
    BY DEF Questioning
  <2> QED BY <1>1, <2>1, FS_Subset
<1> QED BY <1>4, <1>5, FS_CardinalityType

\* Under the cap all that may be owed stays within it.
LEMMA WithinCap ==
  ASSUME cost' \in Nat, cost' <= CostCap, NEW d \in {0, 1}
  PROVE  cost' + Cardinality(Owed') * TurnCost <= CostCap + (Most + d) * TurnCost
<1>1. Most \in Nat /\ Most + d \in Nat /\ TurnCost \in Nat /\ CostCap \in Nat
  BY OwedIsBounded
<1>2. Cardinality(Owed') \in Nat /\ Cardinality(Owed') <= Most + d
  BY <1>1, OwedIsBoundedNext
<1>3. /\ Cardinality(Owed') * TurnCost \in Nat /\ (Most + d) * TurnCost \in Nat
      /\ Cardinality(Owed') * TurnCost <= (Most + d) * TurnCost
  BY <1>1, <1>2, TimesMore
<1> QED BY <1>1, <1>3

\* A call that is made is charged, and owed no more.
LEMMA CallPaid ==
  ASSUME CapsInv, NEW q \in Owed, Owed' \subseteq Owed \ {q}, Charge
  PROVE  /\ cost' \in Nat
         /\ cost' + Cardinality(Owed') * TurnCost <= cost + Cardinality(Owed) * TurnCost
<1>1. PICK c \in 0..TurnCost : cost' = cost + c
  BY DEF Charge
<1>2. TurnCost \in Nat /\ cost \in Nat /\ cost' \in Nat /\ cost' <= cost + TurnCost
  BY <1>1, OwedIsBounded DEF CapsInv
<1>3. IsFiniteSet(Owed \ {q}) /\ Cardinality(Owed \ {q}) = Cardinality(Owed) - 1
  BY OwedIsBounded, FS_RemoveElement
<1>4. Cardinality(Owed') + 1 <= Cardinality(Owed)
  <2>1. Cardinality(Owed') <= Cardinality(Owed \ {q})
    BY <1>3, FS_Subset
  <2> QED BY <1>3, <2>1, OwedIsBounded, OwedIsBoundedNext
<1>5. Cardinality(Owed') \in Nat /\ Cardinality(Owed) \in Nat /\ Cardinality(Owed') + 1 \in Nat
  BY OwedIsBounded, OwedIsBoundedNext
<1>6. /\ Cardinality(Owed') * TurnCost \in Nat
      /\ (Cardinality(Owed') + 1) * TurnCost = Cardinality(Owed') * TurnCost + TurnCost
  BY <1>2, <1>5, TimesNext
<1>7. /\ (Cardinality(Owed') + 1) * TurnCost \in Nat /\ Cardinality(Owed) * TurnCost \in Nat
      /\ (Cardinality(Owed') + 1) * TurnCost <= Cardinality(Owed) * TurnCost
  BY <1>2, <1>4, <1>5, TimesMore
<1> QED BY <1>2, <1>6, <1>7

LEMMA CapsStart == HeartbeatInit => CapsInv
<1> SUFFICES ASSUME HeartbeatInit PROVE CapsInv
  OBVIOUS
<1>1. Owed = {} /\ Questioning = {}
  BY DEF HeartbeatInit, Owed, Questioning
<1>2. Cardinality(Owed) = 0 /\ Cardinality(Questioning) = 0
  BY <1>1, FS_EmptySet
<1>3. Most * TurnCost \in Nat /\ 0 * TurnCost = 0
  BY OwedIsBounded, TimesMore
<1>4. /\ cost + Cardinality(Owed) * TurnCost
           <= CostCap + (Most + IF bootDue THEN 0 ELSE 1) * TurnCost
      /\ asked + Cardinality(Questioning) < MaxAsked + Cardinality(Beat)
  BY <1>2, <1>3, OwedIsBounded DEF HeartbeatInit
<1>5. /\ beat \in [Beat -> {"idle", "task", "discovery", "question"}]
      /\ left \in [Beat -> 0..Queries] /\ \A b \in Beat : beat[b] = "idle"
  BY OwedIsBounded DEF HeartbeatInit
<1> QED BY <1>1, <1>4, <1>5 DEF HeartbeatInit, CapsInv

LEMMA CapsStep == CapsInv /\ [HeartbeatNext]_beatVars => CapsInv'
<1> SUFFICES ASSUME CapsInv, [HeartbeatNext]_beatVars PROVE CapsInv'
  OBVIOUS
<1> DEFINE d == IF bootDue THEN 0 ELSE 1
<1>0. /\ {beating, graph, waited, bootDue} \subseteq BOOLEAN /\ cost \in Nat /\ asked \in Nat
      /\ beat \in [Beat -> {"idle", "task", "discovery", "question"}]
      /\ left \in [Beat -> 0..Queries] /\ d \in {0, 1}
      /\ \A b \in Beat : beat[b] = "discovery" => left[b] >= 1
      /\ cost + Cardinality(Owed) * TurnCost <= CostCap + (Most + d) * TurnCost
      /\ asked + Cardinality(Questioning) < MaxAsked + Cardinality(Beat)
      /\ MaxAsked = 0 => Questioning = {}
  BY DEF CapsInv
<1>1. ASSUME beat' \in [Beat -> {"idle", "task", "discovery", "question"}],
             left' \in [Beat -> 0..Queries], cost' \in Nat,
             \A b \in Beat : beat'[b] = "discovery" => left'[b] >= 1,
             cost' + Cardinality(Owed') * TurnCost
               <= CostCap + (Most + IF bootDue' THEN 0 ELSE 1) * TurnCost,
             {beating', graph', waited'} \subseteq BOOLEAN, bootDue' \in BOOLEAN,
             \/ Questioning' = Questioning /\ asked' \in 0..asked
             \/ asked < MaxAsked /\ asked' = asked
             \/ \E b \in Questioning : Questioning' = Questioning \ {b} /\ asked' = asked + 1
      PROVE  CapsInv'
  <2>2. ASSUME NEW b \in Questioning, Questioning' = Questioning \ {b}
        PROVE  Cardinality(Questioning') = Cardinality(Questioning) - 1
    BY <2>2, OwedIsBounded, FS_RemoveElement
  <2>3. CASE Questioning' = Questioning /\ asked' \in 0..asked
    <3>1. asked' + Cardinality(Questioning') < MaxAsked + Cardinality(Beat) /\ asked' \in Nat
      BY <1>0, <2>3, OwedIsBounded
    <3> QED BY <1>0, <1>1, <2>3, <3>1 DEF CapsInv
  <2>4. CASE asked < MaxAsked /\ asked' = asked
    <3>1. asked' + Cardinality(Questioning') < MaxAsked + Cardinality(Beat) /\ MaxAsked # 0
      BY <1>0, <2>4, OwedIsBounded, OwedIsBoundedNext
    <3> QED BY <1>0, <1>1, <2>4, <3>1 DEF CapsInv
  <2>6. CASE \E b \in Questioning : Questioning' = Questioning \ {b} /\ asked' = asked + 1
    <3>1. Cardinality(Questioning') = Cardinality(Questioning) - 1 /\ asked' = asked + 1
      BY <2>2, <2>6
    <3>2. asked' + Cardinality(Questioning') = asked + Cardinality(Questioning)
      BY <1>0, <3>1, OwedIsBounded
    <3>3. asked' \in Nat /\ MaxAsked # 0
      BY <1>0, <2>6
    <3> QED BY <1>0, <1>1, <3>2, <3>3 DEF CapsInv
  <2> QED BY <1>1, <2>3, <2>4, <2>6
<1>2. ASSUME NEW b \in Beat, TaskFires(b) \/ DiscoveryFires(b) \/ QuestionFires(b) PROVE CapsInv'
  <2>1. /\ cost' = cost /\ cost < CostCap /\ beat[b] = "idle" /\ asked' = asked
        /\ \E what \in {"task", "discovery", "question"} : beat' = [beat EXCEPT ![b] = what]
        /\ {beating', graph', waited', bootDue'} \subseteq BOOLEAN /\ bootDue' = bootDue
    BY <1>0, <1>2 DEF TaskFires, DiscoveryFires, QuestionFires, Begin, UnderCap
  <2>2. cost' + Cardinality(Owed') * TurnCost <= CostCap + (Most + d) * TurnCost
    BY <1>0, <2>1, OwedIsBounded, WithinCap
  <2>3. \/ left' = left /\ (beat' = [beat EXCEPT ![b] = "task"] \/ beat' = [beat EXCEPT ![b] = "question"])
        \/ left' = [left EXCEPT ![b] = Queries] /\ beat' = [beat EXCEPT ![b] = "discovery"]
    BY <1>2 DEF TaskFires, DiscoveryFires, QuestionFires, Begin
  <2>4. /\ left' \in [Beat -> 0..Queries] /\ \A c \in Beat : beat'[c] = "discovery" => left'[c] >= 1
        /\ beat' \in [Beat -> {"idle", "task", "discovery", "question"}]
    BY <1>0, <2>1, <2>3, OwedIsBounded
  <2>5. Questioning' = Questioning \/ asked < MaxAsked
    <3>1. CASE QuestionFires(b)
      BY <3>1 DEF QuestionFires
    <3>2. CASE TaskFires(b) \/ DiscoveryFires(b)
      <4>1. beat' = [beat EXCEPT ![b] = "task"] \/ beat' = [beat EXCEPT ![b] = "discovery"]
        BY <3>2 DEF TaskFires, DiscoveryFires, Begin
      <4> QED BY <1>0, <2>1, <4>1 DEF Questioning
    <3> QED BY <1>2, <3>1, <3>2
  <2>6. asked' \in 0..asked
    BY <1>0, <2>1
  <2> QED BY <1>0, <1>1, <2>1, <2>2, <2>4, <2>5, <2>6
<1>3. ASSUME NEW b \in Beat, BootQuestionFires(b) PROVE CapsInv'
  <2>1. /\ bootDue /\ bootDue' = FALSE /\ asked < MaxAsked /\ beat[b] = "idle"
        /\ beat' = [beat EXCEPT ![b] = "question"]
        /\ UNCHANGED <<beating, graph, cost, asked, waited, left>>
    BY <1>3 DEF BootQuestionFires, Begin
  <2>2. Owed' \subseteq Owed \cup {<<b, 1>>}
    BY <1>0, <2>1 DEF Owed
  <2>3. Cardinality(Owed') <= Cardinality(Owed) + 1
    <3>1. /\ IsFiniteSet(Owed \cup {<<b, 1>>})
          /\ Cardinality(Owed \cup {<<b, 1>>}) \in {Cardinality(Owed), Cardinality(Owed) + 1}
      BY OwedIsBounded, FS_AddElement
    <3>2. Cardinality(Owed') <= Cardinality(Owed \cup {<<b, 1>>})
      BY <2>2, <3>1, FS_Subset
    <3> QED BY <3>1, <3>2, OwedIsBounded, OwedIsBoundedNext
  <2>4. /\ Cardinality(Owed') * TurnCost <= Cardinality(Owed) * TurnCost + TurnCost
        /\ Cardinality(Owed') * TurnCost \in Nat /\ Cardinality(Owed) * TurnCost \in Nat
    <3>1. Cardinality(Owed) + 1 \in Nat /\ Cardinality(Owed) \in Nat /\ TurnCost \in Nat
          /\ Cardinality(Owed') \in Nat
      BY OwedIsBounded, OwedIsBoundedNext
    <3>2. /\ (Cardinality(Owed) + 1) * TurnCost = Cardinality(Owed) * TurnCost + TurnCost
          /\ Cardinality(Owed) * TurnCost \in Nat
      BY <3>1, TimesNext
    <3>3. /\ Cardinality(Owed') * TurnCost \in Nat
          /\ Cardinality(Owed') * TurnCost <= (Cardinality(Owed) + 1) * TurnCost
      BY <2>3, <3>1, TimesMore
    <3> QED BY <3>2, <3>3
  <2>5. Most * TurnCost \in Nat /\ (Most + 1) * TurnCost = Most * TurnCost + TurnCost
    BY OwedIsBounded, TimesNext
  <2>6. cost' + Cardinality(Owed') * TurnCost <= CostCap + (Most + 1) * TurnCost
    <3>1. cost + Cardinality(Owed) * TurnCost <= CostCap + (Most + 0) * TurnCost /\ Most + 0 = Most
      BY <1>0, <2>1, OwedIsBounded
    <3> QED BY <1>0, <2>1, <2>4, <2>5, <3>1, OwedIsBounded
  <2>7. /\ left' \in [Beat -> 0..Queries] /\ \A c \in Beat : beat'[c] = "discovery" => left'[c] >= 1
        /\ beat' \in [Beat -> {"idle", "task", "discovery", "question"}]
    BY <1>0, <2>1
  <2> QED BY <1>0, <1>1, <2>1, <2>6, <2>7
<1>4. ASSUME NEW b \in Beat, BeatEnds(b) PROVE CapsInv'
  <2>1. ASSUME NEW q \in Owed, Owed' \subseteq Owed \ {q}, Charge
        PROVE  /\ cost' \in Nat
               /\ cost' + Cardinality(Owed') * TurnCost <= CostCap + (Most + d) * TurnCost
    <3>1. /\ cost' \in Nat
          /\ cost' + Cardinality(Owed') * TurnCost <= cost + Cardinality(Owed) * TurnCost
      BY <2>1, CallPaid
    <3>2. /\ Cardinality(Owed') * TurnCost \in Nat /\ Cardinality(Owed) * TurnCost \in Nat
          /\ (Most + d) * TurnCost \in Nat /\ CostCap \in Nat
      <4>1. Most + d \in Nat /\ Most + d <= Most + d
        BY <1>0, OwedIsBounded
      <4> QED BY <4>1, OwedIsBounded, OwedIsBoundedNext, TimesMore
    <3> QED BY <1>0, <3>1, <3>2
  <2>2. CASE TaskEnds(b) \/ QuestionEnds(b)
    <3>1. /\ beat[b] \in {"task", "question"} /\ beat' = [beat EXCEPT ![b] = "idle"] /\ Charge
          /\ UNCHANGED <<beating, graph, bootDue, left>> /\ waited' \in BOOLEAN
      BY <1>0, <2>2 DEF TaskEnds, QuestionEnds, End
    <3>2. <<b, 1>> \in Owed
      BY <3>1, OwedIsBounded DEF Owed
    <3>3. Owed' \subseteq Owed \ {<<b, 1>>}
      BY <1>0, <3>1 DEF Owed
    <3>4. /\ cost' \in Nat
          /\ cost' + Cardinality(Owed') * TurnCost <= CostCap + (Most + d) * TurnCost
      BY <2>1, <3>1, <3>2, <3>3
    <3>5. /\ left' \in [Beat -> 0..Queries] /\ \A c \in Beat : beat'[c] = "discovery" => left'[c] >= 1
          /\ beat' \in [Beat -> {"idle", "task", "discovery", "question"}]
      BY <1>0, <3>1
    <3>6. \/ Questioning' = Questioning /\ asked' \in 0..asked
          \/ \E c \in Questioning : Questioning' = Questioning \ {c} /\ asked' = asked + 1
      <4>1. CASE TaskEnds(b)
        <5>1. Questioning' = Questioning
          BY <1>0, <3>1, <4>1 DEF TaskEnds, Questioning
        <5> QED BY <1>0, <4>1, <5>1 DEF TaskEnds
      <4>2. CASE QuestionEnds(b)
        <5>1. b \in Questioning /\ Questioning' = Questioning \ {b}
          BY <1>0, <3>1, <4>2 DEF QuestionEnds, Questioning
        <5> QED BY <4>2, <5>1 DEF QuestionEnds
      <4> QED BY <2>2, <4>1, <4>2
    <3> QED BY <1>0, <1>1, <3>1, <3>4, <3>5, <3>6
  <2>3. CASE QueryEnds(b)
    <3>1. /\ beat[b] = "discovery" /\ Charge
          /\ UNCHANGED <<beating, graph, asked, waited, bootDue>>
      BY <2>3 DEF QueryEnds
    <3>2. PICK n \in {0, left[b] - 1} :
             /\ left' = [left EXCEPT ![b] = n]
             /\ beat' = IF n = 0 THEN [beat EXCEPT ![b] = "idle"] ELSE beat
      BY <2>3 DEF QueryEnds, End
    <3>3. left[b] \in 1..Queries /\ n \in 0..left[b] - 1
      BY <1>0, <3>1, <3>2, OwedIsBounded
    <3>4. <<b, left[b]>> \in Owed
      BY <3>1, <3>3 DEF Owed
    <3>5. Owed' \subseteq Owed \ {<<b, left[b]>>}
      <4>1. ASSUME NEW c \in Beat, NEW i \in 1..Queries, <<c, i>> \in Owed'
            PROVE  <<c, i>> \in Owed /\ <<c, i>> # <<b, left[b]>>
        <5>1. \/ beat'[c] \in {"task", "question"} /\ i = 1
              \/ beat'[c] = "discovery" /\ i <= left'[c]
          BY <4>1 DEF Owed
        <5>2. CASE c # b
          <6>1. beat'[c] = beat[c] /\ left'[c] = left[c]
            BY <1>0, <3>2, <5>2
          <6> QED BY <5>1, <5>2, <6>1 DEF Owed
        <5>3. CASE c = b
          <6>1. left'[b] = n /\ i <= n
            BY <1>0, <3>1, <3>2, <5>1, <5>3
          <6> QED BY <3>1, <3>3, <5>3, <6>1, OwedIsBounded DEF Owed
        <5> QED BY <5>2, <5>3
      <4>2. \A q \in Owed' : \E c \in Beat, i \in 1..Queries : q = <<c, i>>
        BY DEF Owed
      <4> QED BY <4>1, <4>2
    <3>6. /\ cost' \in Nat
          /\ cost' + Cardinality(Owed') * TurnCost <= CostCap + (Most + d) * TurnCost
      BY <2>1, <3>1, <3>4, <3>5
    <3>7. /\ left' \in [Beat -> 0..Queries] /\ \A c \in Beat : beat'[c] = "discovery" => left'[c] >= 1
          /\ beat' \in [Beat -> {"idle", "task", "discovery", "question"}]
      BY <1>0, <3>1, <3>2, <3>3, OwedIsBounded
    <3>8. Questioning' = Questioning /\ asked' \in 0..asked
      <4>1. Questioning' = Questioning
        BY <1>0, <3>1, <3>2 DEF Questioning
      <4> QED BY <1>0, <3>1, <4>1
    <3> QED BY <1>0, <1>1, <3>1, <3>6, <3>7, <3>8
  <2> QED BY <1>4, <2>2, <2>3 DEF BeatEnds
<1>5. CASE DayResets
  <2>1. /\ cost' = 0 /\ asked' = 0 /\ Questioning' = Questioning
        /\ UNCHANGED <<beating, graph, waited, bootDue, beat, left>>
    BY <1>5 DEF DayResets, Questioning
  <2>2. cost' + Cardinality(Owed') * TurnCost <= CostCap + (Most + d) * TurnCost
    BY <1>0, <2>1, OwedIsBounded, WithinCap
  <2>3. asked' \in 0..asked
    BY <1>0, <2>1
  <2> QED BY <1>0, <1>1, <2>1, <2>2, <2>3
<1>6. CASE IntervalPasses \/ HeartbeatStop \/ UNCHANGED beatVars
  <2>1. /\ UNCHANGED <<graph, cost, asked, bootDue, beat, left>>
        /\ {beating', waited'} \subseteq BOOLEAN
    BY <1>0, <1>6 DEF IntervalPasses, HeartbeatStop, beatVars
  <2>2. Owed' = Owed /\ Questioning' = Questioning
    BY <2>1 DEF Owed, Questioning
  <2> QED BY <1>0, <2>1, <2>2 DEF CapsInv
<1> QED BY <1>2, <1>3, <1>4, <1>5, <1>6 DEF HeartbeatNext

LEMMA CapsTrue == CapsInv => CapsHold
<1> SUFFICES ASSUME CapsInv PROVE CapsHold
  OBVIOUS
<1>1. Cardinality(Owed) \in Nat /\ Most \in Nat /\ TurnCost \in Nat /\ CostCap \in Nat
      /\ Cardinality(Beat) * Queries = Most
  BY OwedIsBounded DEF Most
<1>2. /\ Cardinality(Owed) * TurnCost \in Nat /\ Most * TurnCost \in Nat
      /\ (Most + 1) * TurnCost = Most * TurnCost + TurnCost
  BY <1>1, TimesMore, TimesNext
<1>3. (Most + IF bootDue THEN 0 ELSE 1) * TurnCost \in {Most * TurnCost, (Most + 1) * TurnCost}
  BY <1>1
<1>4. cost <= CostCap + (Most + 1) * TurnCost
  BY <1>1, <1>2, <1>3 DEF CapsInv
<1>5. asked < MaxAsked + Cardinality(Beat)
  BY OwedIsBounded DEF CapsInv
<1> QED BY <1>1, <1>4, <1>5 DEF CapsHold

\* For any numbers of requests, drafts, addresses and activations and any limits:
\* a code enables trading once and never after a disable found it, nothing is
\* posted that was not signed off, the heartbeat's day stays within its caps and
\* what was under way, and so do the tries and the requests at the dashboard.
THEOREM OwnerIsObeyed == ServicesSpec => []OwnerHolds
<1> DEFINE HoldsInv == CodesInv /\ CountInv /\ BoardInv /\ CapsInv /\ TriesInv /\ ServedInv
<1>1. ServicesInit => HoldsInv
  BY EachBegins, SwitchStart, BoardStart, CapsStart, AccessStart
<1>2. HoldsInv /\ [ServicesNext]_servicesVars => HoldsInv'
  BY EachMoves, SwitchStep, BoardStep, CapsStep, AccessStep
<1>3. HoldsInv => OwnerHolds
  <2>1. BoardInv => PostedWasApproved
    BY DEF BoardInv
  <2> QED BY <2>1, SwitchTrue, CapsTrue, AccessTrue DEF OwnerHolds
<1> HIDE DEF HoldsInv
<1> QED BY <1>1, <1>2, <1>3, PTL DEF ServicesSpec

-----------------------------------------------------------------------------
(* What a fold over a sequence computes, step by step *)

\* Induction over the naturals, for a set of them.
LEMMA EveryNumber ==
  ASSUME NEW Good \in SUBSET Nat, 0 \in Good, \A n \in Good : n + 1 \in Good
  PROVE  \A n \in Nat : n \in Good
<1> SUFFICES ASSUME NEW m \in Nat, m \notin Good PROVE FALSE
  OBVIOUS
<1> DEFINE Out == {n \in Nat : n \notin Good}
<1>1. Out \subseteq Nat /\ Out # {}
  OBVIOUS
<1>2. IsWellFoundedOn(OpToRel(<, Nat), Nat)
  BY NatLessThanWellFounded, Zenon
<1> HIDE DEF Out
<1>3. PICK n \in Out : \A k \in Out : ~(<<k, n>> \in OpToRel(<, Nat))
  BY <1>1, <1>2, WFMin, Zenon
<1>4. n \in Nat /\ n \notin Good /\ \A k \in Nat : k < n => k \in Good
  <2>1. \A k \in Out : k \in Nat /\ n \in Nat /\ ~(k < n)
    BY <1>1, <1>3 DEF OpToRel
  <2> QED BY <2>1 DEF Out
<1>5. n - 1 \in Nat /\ n - 1 < n /\ (n - 1) + 1 = n
  BY <1>4
<1> QED BY <1>4, <1>5

\* A set of positions has a last one.
LEMMA MaxIs ==
  ASSUME NEW n \in Nat, NEW s \in SUBSET (0..n), s # {}
  PROVE  Max(s) \in s /\ \A y \in s : Max(s) >= y
<1> DEFINE Left == {k \in Nat : \E x \in s : k = n - x}
<1>1. PICK a \in s : TRUE
  OBVIOUS
<1>2. a \in 0..n /\ n - a \in Nat
  BY <1>1
<1>3. Left \subseteq Nat /\ Left # {}
  BY <1>2
<1>4. IsWellFoundedOn(OpToRel(<, Nat), Nat)
  BY NatLessThanWellFounded, Zenon
<1> HIDE DEF Left
<1>5. PICK m \in Left : \A k \in Left : ~(<<k, m>> \in OpToRel(<, Nat))
  BY <1>3, <1>4, WFMin, Zenon
<1>6. \A k \in Left : ~(k < m)
  BY <1>3, <1>5 DEF OpToRel
<1>7. PICK x \in s : m = n - x
  BY DEF Left
<1>8. ASSUME NEW y \in s PROVE x >= y
  <2>1. y \in 0..n /\ x \in 0..n /\ n - y \in Nat
    OBVIOUS
  <2>2. n - y \in Left
    BY <2>1 DEF Left
  <2> QED BY <1>6, <1>7, <2>1, <2>2
<1> QED BY <1>8 DEF Max

LEMMA MaxOfPrefix ==
  ASSUME NEW n \in Nat
  PROVE  Max(1..(n + 1)) = n + 1 /\ (1..(n + 1)) \ {n + 1} = 1..n
<1>1. Max(1..(n + 1)) \in 1..(n + 1) /\ \A y \in 1..(n + 1) : Max(1..(n + 1)) >= y
  <2>1. n + 1 \in Nat /\ 1..(n + 1) # {} /\ 1..(n + 1) \in SUBSET (0..(n + 1))
    <3>1. 1 \in 1..(n + 1)
      OBVIOUS
    <3> QED BY <3>1
  <2> QED BY <2>1, MaxIs
<1>2. n + 1 \in 1..(n + 1)
  OBVIOUS
<1> QED BY <1>1, <1>2

\* The iteration a fold is defined by, over the sets of positions of a sequence.
Folds(q, b, F, h) ==
  h = [s \in SUBSET (1..Len(q)) |-> IF s = {} THEN b
                                    ELSE F[<<h[s \ {Max(s)}], q[Max(s)]>>]]

\* There is one, for a step that keeps to its states.
LEMMA FoldRuns ==
  ASSUME NEW S, NEW b \in S, NEW E, NEW q \in Seq(E), NEW F \in [S \X E -> S]
  PROVE  \E h \in [SUBSET (1..Len(q)) -> S] : Folds(q, b, F, h)
<1> DEFINE D == 1..Len(q)
           Up(n) == {s \in SUBSET D : Cardinality(s) <= n}
           Value(h, s) == IF s = {} THEN b ELSE F[<<h[s \ {Max(s)}], q[Max(s)]>>]
           Built(n, h) == h \in [Up(n) -> S] /\ h = [s \in Up(n) |-> Value(h, s)]
           N == {n \in Nat : \E h : Built(n, h)}
<1>0. Len(q) \in Nat /\ IsFiniteSet(D) /\ \A i \in D : q[i] \in E
  <2>1. Len(q) \in Nat /\ \A i \in D : q[i] \in E
    OBVIOUS
  <2> QED BY <2>1, FS_Interval
<1>1. \A s \in SUBSET D : /\ IsFiniteSet(s) /\ Cardinality(s) \in Nat
                          /\ Cardinality(s) <= Cardinality(D) /\ (Cardinality(s) = 0 <=> s = {})
  BY <1>0, FS_Subset, FS_CardinalityType, FS_EmptySet
<1>2. \A s \in SUBSET D : s # {} => Max(s) \in s /\ Max(s) \in D /\ q[Max(s)] \in E
  <2>1. \A s \in SUBSET D : s \in SUBSET (0..Len(q))
    BY <1>0
  <2>2. \A s \in SUBSET D : s # {} => Max(s) \in s
    BY <1>0, <2>1, MaxIs
  <2> QED BY <1>0, <2>2
<1> HIDE DEF D
<1>3. 0 \in N
  <2> DEFINE g == [s \in Up(0) |-> b]
  <2>1. \A s \in Up(0) : s = {}
    BY <1>1
  <2>2. Built(0, g)
    BY <2>1
  <2> QED BY <2>2
<1>4. ASSUME NEW n \in N PROVE n + 1 \in N
  <2>1. PICK h : Built(n, h)
    OBVIOUS
  <2> DEFINE g == [s \in Up(n + 1) |-> Value(h, s)]
  <2>2. ASSUME NEW s \in Up(n + 1), s # {}
        PROVE  s \ {Max(s)} \in Up(n)
    <3>1. Cardinality(s \ {Max(s)}) = Cardinality(s) - 1
      BY <1>1, <1>2, <2>2, FS_RemoveElement
    <3> QED BY <1>1, <3>1
  <2>3. \A s \in Up(n) : s \in Up(n + 1)
    BY <1>1
  <2>4. ASSUME NEW s \in Up(n + 1) PROVE Value(h, s) \in S
    <3>1. CASE s = {}
      BY <3>1
    <3>2. CASE s # {}
      <4>1. h[s \ {Max(s)}] \in S /\ q[Max(s)] \in E
        BY <1>2, <2>1, <2>2, <3>2
      <4> QED BY <3>2, <4>1
    <3> QED BY <3>1, <3>2
  <2>5. g \in [Up(n + 1) -> S]
    BY <2>4
  <2>6. \A s \in Up(n) : g[s] = h[s]
    BY <2>1, <2>3
  <2>7. \A s \in Up(n + 1) : Value(h, s) = Value(g, s)
    BY <2>2, <2>6
  <2>8. Built(n + 1, g)
    BY <2>5, <2>7
  <2> HIDE DEF Built, g
  <2> QED BY <2>8
<1>5. PICK h : Built(Cardinality(D), h)
  <2> HIDE DEF Built
  <2>1. \A n \in Nat : n \in N
    <3> HIDE DEF N
    <3>1. N \in SUBSET Nat
      BY DEF N
    <3> QED BY <1>3, <1>4, <3>1, EveryNumber
  <2>2. Cardinality(D) \in Nat
    BY <1>0, FS_CardinalityType
  <2> QED BY <2>1, <2>2
<1>6. Up(Cardinality(D)) = SUBSET D
  BY <1>1
<1>7. h \in [SUBSET D -> S] /\ h = [s \in SUBSET D |-> Value(h, s)]
  BY <1>5, <1>6
<1> QED BY <1>7 DEF Folds, D

-----------------------------------------------------------------------------
(* A skill's file *)

ParseState == [section : Headings \cup {"none"}, base : BOOLEAN, endpoints : Seq(Endpoints)]
ParseFrom == [section |-> "none", base |-> FALSE, endpoints |-> <<>>]

LEMMA ParsedTyped ==
  ASSUME NEW s \in ParseState, NEW l \in FileLine PROVE Parsed(s, l) \in ParseState
<1>1. CASE l \in Headings
  BY <1>1 DEF Parsed, ParseState
<1>2. CASE l = "base"
  BY <1>2 DEF Parsed, ParseState, Headings
<1>3. CASE l \in Endpoints /\ s.section = "endpoints"
  <2>1. Append(s.endpoints, l) \in Seq(Endpoints)
    BY <1>3, AppendProperties DEF ParseState
  <2>2. Parsed(s, l) = [s EXCEPT !.endpoints = Append(@, l)]
    BY <1>3 DEF Parsed, Headings, Endpoints
  <2> QED BY <2>1, <2>2 DEF ParseState
<1>4. CASE l \notin Headings /\ l # "base" /\ ~(l \in Endpoints /\ s.section = "endpoints")
  BY <1>4 DEF Parsed
<1> QED BY <1>1, <1>2, <1>3, <1>4

\* What the parser holds after each line.
LEMMA ParserRuns ==
  ASSUME NEW f \in Seq(FileLine)
  PROVE  \E st \in [0..Len(f) -> ParseState] :
           /\ st[0] = ParseFrom
           /\ \A n \in 0..(Len(f) - 1) : st[n + 1] = Parsed(st[n], f[n + 1])
           /\ ParseSkill(f) = IF st[Len(f)].base THEN st[Len(f)].endpoints ELSE <<>>
<1> DEFINE F == [p \in ParseState \X FileLine |-> Parsed(p[1], p[2])]
           Value(h, s) == IF s = {} THEN ParseFrom ELSE Parsed(h[s \ {Max(s)}], f[Max(s)])
           Run(h) == h = [s \in SUBSET (DOMAIN f) |-> Value(h, s)]
           it == CHOOSE h : Run(h)
           m == Len(f)
<1>1. m \in Nat /\ DOMAIN f = 1..m /\ \A i \in 1..m : f[i] \in FileLine
  OBVIOUS
<1>2. ParseFrom \in ParseState
  BY EmptySeq DEF ParseFrom, ParseState
<1>3. F \in [ParseState \X FileLine -> ParseState]
  BY ParsedTyped
<1>4. PICK h \in [SUBSET (1..m) -> ParseState] : Folds(f, ParseFrom, F, h)
  <2> HIDE DEF F
  <2> QED BY <1>2, <1>3, FoldRuns
<1>5. Run(h)
  <2>1. h = [s \in SUBSET (1..m) |-> IF s = {} THEN ParseFrom ELSE F[<<h[s \ {Max(s)}], f[Max(s)]>>]]
    BY <1>4 DEF Folds
  <2>2. ASSUME NEW s \in SUBSET (1..m), s # {}
        PROVE  F[<<h[s \ {Max(s)}], f[Max(s)]>>] = Parsed(h[s \ {Max(s)}], f[Max(s)])
    <3>1. Max(s) \in 1..m
      <4>1. s \in SUBSET (0..m)
        BY <1>1
      <4> QED BY <1>1, <2>2, <4>1, MaxIs
    <3>2. h[s \ {Max(s)}] \in ParseState /\ f[Max(s)] \in FileLine
      BY <1>1, <1>4, <3>1
    <3> QED BY <3>2
  <2> QED BY <1>1, <2>1, <2>2
<1>6. Run(it)
  BY <1>5
<1>7. \A s \in SUBSET (1..m) : it[s] = Value(it, s)
  <2> HIDE DEF it
  <2> QED BY <1>1, <1>6
<1>8. it[{}] = ParseFrom
  BY <1>7
<1>9. ASSUME NEW n \in 0..(m - 1)
      PROVE  it[1..(n + 1)] = Parsed(it[1..n], f[n + 1])
  <2>1. n \in Nat /\ 1..(n + 1) \in SUBSET (1..m) /\ 1..(n + 1) # {}
    <3>1. n \in Nat /\ n + 1 <= m /\ n + 1 \in 1..(n + 1)
      BY <1>1
    <3> QED BY <1>1, <3>1
  <2>2. Max(1..(n + 1)) = n + 1 /\ (1..(n + 1)) \ {n + 1} = 1..n
    BY <2>1, MaxOfPrefix
  <2> HIDE DEF it
  <2> QED BY <1>7, <2>1, <2>2
<1>10. ParseSkill(f) = IF it[1..m].base THEN it[1..m].endpoints ELSE <<>>
  BY <1>1 DEF ParseSkill, FoldLeft, MapThenFoldSet, ParseFrom
<1> DEFINE st == [n \in 0..m |-> it[1..n]]
<1>11. st[0] = ParseFrom
  <2>1. 1..0 = {} /\ 0 \in 0..m
    BY <1>1
  <2> HIDE DEF it
  <2> QED BY <1>8, <2>1
<1>12. \A n \in 0..(m - 1) : st[n + 1] = Parsed(st[n], f[n + 1])
  <2> HIDE DEF it
  <2> QED BY <1>1, <1>9
<1>13. \A n \in 0..m : st[n] \in ParseState
  <2> HIDE DEF st
  <2> DEFINE Good == {n \in Nat : n <= m => st[n] \in ParseState}
  <2>1. 0 \in Good
    BY <1>2, <1>11
  <2>2. ASSUME NEW n \in Good PROVE n + 1 \in Good
    <3> SUFFICES ASSUME n + 1 <= m PROVE st[n + 1] \in ParseState
      BY <1>1
    <3>1. n \in 0..(m - 1) /\ st[n] \in ParseState /\ f[n + 1] \in FileLine
      BY <1>1
    <3> QED BY <1>12, <3>1, ParsedTyped
  <2>3. \A n \in Nat : n \in Good
    <3> HIDE DEF Good
    <3>1. Good \in SUBSET Nat
      BY DEF Good
    <3> QED BY <2>1, <2>2, <3>1, EveryNumber
  <2> QED BY <1>1, <2>3
<1>14. st \in [0..m -> ParseState] /\ st[m] = it[1..m]
  <2> HIDE DEF it
  <2>1. m \in 0..m
    BY <1>1
  <2> QED BY <1>1, <1>13, <2>1
<1> HIDE DEF st, it
<1> QED BY <1>10, <1>11, <1>12, <1>14

\* The tables of tools there may be, and how one is built endpoint by endpoint.
ToolTable == UNION {[n -> Endpoints] : n \in SUBSET {"get_item", "update_item"}}

Tabled(q, it) ==
  /\ FoldLeft(Registered, <<>>, q) = it[1..Len(q)]
  /\ \A s \in SUBSET (1..Len(q)) :
       it[s] = IF s = {} THEN <<>> ELSE Registered(it[s \ {Max(s)}], q[Max(s)])

LEMMA NoTools == <<>> \in ToolTable
<1>1. <<>> \in [{} -> Endpoints]
  OBVIOUS
<1> QED BY <1>1 DEF ToolTable

LEMMA MoreTools ==
  ASSUME NEW t \in ToolTable, NEW e \in Endpoints PROVE Registered(t, e) \in ToolTable
<1>1. PICK n \in SUBSET {"get_item", "update_item"} : t \in [n -> Endpoints]
  BY DEF ToolTable
<1>2. n \cup {ToolName(e)} \in SUBSET {"get_item", "update_item"}
  BY DEF ToolName
<1>3. Registered(t, e) \in [n \cup {ToolName(e)} -> Endpoints]
  BY <1>1 DEF Registered
<1> QED BY <1>2, <1>3 DEF ToolTable

LEMMA ToolsBuilt == ASSUME NEW q \in Seq(Endpoints) PROVE \E it : Tabled(q, it)
<1> DEFINE Table == ToolTable
           F == [p \in Table \X Endpoints |-> Registered(p[1], p[2])]
           Value(h, s) == IF s = {} THEN <<>> ELSE Registered(h[s \ {Max(s)}], q[Max(s)])
           Run(h) == h = [s \in SUBSET (DOMAIN q) |-> Value(h, s)]
           it == CHOOSE h : Run(h)
           m == Len(q)
<1>1. m \in Nat /\ DOMAIN q = 1..m /\ \A i \in 1..m : q[i] \in Endpoints
  OBVIOUS
<1>2. <<>> \in Table
  BY NoTools
<1>3. F \in [Table \X Endpoints -> Table]
  BY MoreTools
<1>4. PICK h \in [SUBSET (1..m) -> Table] : Folds(q, <<>>, F, h)
  <2> HIDE DEF F, Table
  <2> QED BY <1>2, <1>3, FoldRuns
<1>5. Run(h)
  <2>1. h = [s \in SUBSET (1..m) |-> IF s = {} THEN <<>> ELSE F[<<h[s \ {Max(s)}], q[Max(s)]>>]]
    BY <1>4 DEF Folds
  <2>2. ASSUME NEW s \in SUBSET (1..m), s # {}
        PROVE  F[<<h[s \ {Max(s)}], q[Max(s)]>>] = Registered(h[s \ {Max(s)}], q[Max(s)])
    <3>1. Max(s) \in 1..m
      <4>1. s \in SUBSET (0..m)
        BY <1>1
      <4> QED BY <1>1, <2>2, <4>1, MaxIs
    <3>2. h[s \ {Max(s)}] \in Table /\ q[Max(s)] \in Endpoints
      BY <1>1, <1>4, <3>1
    <3> HIDE DEF Table
    <3> QED BY <3>2
  <2> HIDE DEF Table, F
  <2> QED BY <1>1, <2>1, <2>2
<1>6. Run(it)
  BY <1>5
<1>7. \A s \in SUBSET (1..m) : it[s] = Value(it, s)
  <2> HIDE DEF it
  <2> QED BY <1>1, <1>6
<1>8. FoldLeft(Registered, <<>>, q) = it[1..m]
  BY <1>1 DEF FoldLeft, MapThenFoldSet
<1> HIDE DEF it
<1> QED BY <1>7, <1>8 DEF Tabled

\* A skill has no tools exactly when it names no endpoint.
LEMMA ToolsRun ==
  ASSUME NEW q \in Seq(Endpoints)
  PROVE  DOMAIN FoldLeft(Registered, <<>>, q) = {} <=> q = <<>>
<1> DEFINE m == Len(q)
<1>1. m \in Nat /\ DOMAIN q = 1..m /\ \A i \in 1..m : q[i] \in Endpoints
  OBVIOUS
<1>2. PICK it : Tabled(q, it)
  BY ToolsBuilt
<1>7. \A s \in SUBSET (1..m) : it[s] = IF s = {} THEN <<>> ELSE Registered(it[s \ {Max(s)}], q[Max(s)])
  BY <1>2 DEF Tabled
<1>8. FoldLeft(Registered, <<>>, q) = it[1..m]
  BY <1>2 DEF Tabled
<1>9. CASE q = <<>>
  <2>1. 1..m = {}
    BY <1>1, <1>9
  <2>2. it[1..m] = <<>>
    BY <1>7, <2>1
  <2> QED BY <1>8, <1>9, <2>2
<1>10. CASE q # <<>>
  <2>1. m \in 1..m
    BY <1>1, <1>10
  <2>2. it[1..m] = Registered(it[(1..m) \ {Max(1..m)}], q[Max(1..m)])
    BY <1>7, <2>1
  <2>3. ToolName(q[Max(1..m)]) \in DOMAIN it[1..m]
    BY <2>2 DEF Registered
  <2> QED BY <1>8, <1>10, <2>3
<1> QED BY <1>9, <1>10

\* Induction along a fold: what each step keeps to, the whole keeps to.
LEMMA AllAlong ==
  ASSUME NEW S, NEW m \in Nat, NEW it, it[{}] \in S,
         \A n \in Nat : n + 1 <= m /\ it[1..n] \in S => it[1..(n + 1)] \in S
  PROVE  it[1..m] \in S
<1> DEFINE Good == {n \in Nat : n <= m => it[1..n] \in S}
<1>1. 0 \in Good
  <2>1. 1..0 = {}
    OBVIOUS
  <2> QED BY <2>1
<1>2. ASSUME NEW n \in Good PROVE n + 1 \in Good
  OBVIOUS
<1>3. \A n \in Nat : n \in Good
  <2> HIDE DEF Good
  <2>1. Good \in SUBSET Nat
    BY DEF Good
  <2> QED BY <1>1, <1>2, <2>1, EveryNumber
<1> QED BY <1>3

\* Whatever endpoints a skill names, its tools are a table.
LEMMA ToolsTyped ==
  ASSUME NEW q \in Seq(Endpoints) PROVE FoldLeft(Registered, <<>>, q) \in ToolTable
<1> DEFINE m == Len(q)
<1>1. m \in Nat /\ \A i \in 1..m : q[i] \in Endpoints
  OBVIOUS
<1>2. PICK it : Tabled(q, it)
  BY ToolsBuilt
<1>3. \A s \in SUBSET (1..m) : it[s] = IF s = {} THEN <<>> ELSE Registered(it[s \ {Max(s)}], q[Max(s)])
  BY <1>2 DEF Tabled
<1>4. FoldLeft(Registered, <<>>, q) = it[1..m]
  BY <1>2 DEF Tabled
<1> HIDE DEF m
<1>5. it[{}] \in ToolTable
  BY <1>3, NoTools
<1>6. ASSUME NEW n \in Nat, n + 1 <= m, it[1..n] \in ToolTable PROVE it[1..(n + 1)] \in ToolTable
  <2>1. 1..(n + 1) \in SUBSET (1..m) /\ 1..(n + 1) # {} /\ n + 1 \in 1..m
    BY <1>1, <1>6
  <2>2. Max(1..(n + 1)) = n + 1 /\ (1..(n + 1)) \ {n + 1} = 1..n
    BY MaxOfPrefix
  <2>3. it[1..(n + 1)] = Registered(it[1..n], q[n + 1])
    BY <1>3, <2>1, <2>2
  <2>4. q[n + 1] \in Endpoints
    BY <1>1, <2>1
  <2> QED BY <1>6, <2>3, <2>4, MoreTools
<1>7. it[1..m] \in ToolTable
  BY <1>1, <1>5, <1>6, AllAlong
<1> QED BY <1>4, <1>7

-----------------------------------------------------------------------------
(* The two parsers *)

Heads(f, i) == {j \in 1..i : f[j] \in Headings \cup {"heading"}}

\* The diagnostics' section after one line more.
LEMMA SectionMoves ==
  ASSUME NEW f \in Seq(FileLine), NEW n \in Nat, n + 1 <= Len(f)
  PROVE  /\ f[n + 1] \in Headings \cup {"heading"} => SectionOf(f, n + 1) = f[n + 1]
         /\ f[n + 1] \notin Headings \cup {"heading"} => SectionOf(f, n + 1) = SectionOf(f, n)
<1>1. CASE f[n + 1] \in Headings \cup {"heading"}
  <2>1. n + 1 \in Heads(f, n + 1) /\ \A k \in Heads(f, n + 1) : k <= n + 1 /\ k \in Int
    BY <1>1 DEF Heads
  <2>2. \A j \in Heads(f, n + 1) : (\A k \in Heads(f, n + 1) : k <= j) => j = n + 1
    BY <2>1
  <2>3. (CHOOSE j \in Heads(f, n + 1) : \A k \in Heads(f, n + 1) : k <= j) = n + 1
    <3> DEFINE c == CHOOSE j \in Heads(f, n + 1) : \A k \in Heads(f, n + 1) : k <= j
    <3>1. c \in Heads(f, n + 1) /\ \A k \in Heads(f, n + 1) : k <= c
      BY <2>1
    <3> QED BY <2>2, <3>1
  <2>4. SectionOf(f, n + 1) = f[CHOOSE j \in Heads(f, n + 1) : \A k \in Heads(f, n + 1) : k <= j]
    BY <2>1 DEF SectionOf, Heads
  <2> QED BY <1>1, <2>3, <2>4
<1>2. CASE f[n + 1] \notin Headings \cup {"heading"}
  <2>1. Heads(f, n + 1) = Heads(f, n)
    BY <1>2 DEF Heads
  <2>2. \A i : SectionOf(f, i) = IF Heads(f, i) = {} THEN "none"
                                ELSE f[CHOOSE j \in Heads(f, i) : \A k \in Heads(f, i) : k <= j]
    BY Zenon DEF SectionOf, Heads
  <2>3. SectionOf(f, n + 1) = SectionOf(f, n)
    BY <2>1, <2>2, Zenon
  <2> QED BY <1>2, <2>3
<1> QED BY <1>1, <1>2

\* Where the diagnostics see one of the parser's sections, the parser is in it.
LEMMA SectionsAgree ==
  ASSUME NEW f \in Seq(FileLine), NEW st \in [0..Len(f) -> ParseState], st[0] = ParseFrom,
         \A n \in 0..(Len(f) - 1) : st[n + 1] = Parsed(st[n], f[n + 1])
  PROVE  \A n \in 0..Len(f) : SectionOf(f, n) \in Headings => st[n].section = SectionOf(f, n)
<1> DEFINE m == Len(f)
           Good == {n \in Nat : n <= m => (SectionOf(f, n) \in Headings =>
                                             st[n].section = SectionOf(f, n))}
<1>0. m \in Nat
  OBVIOUS
<1>1. 0 \in Good
  <2>1. Heads(f, 0) = {}
    BY DEF Heads
  <2>2. SectionOf(f, 0) = "none"
    BY <2>1 DEF SectionOf, Heads
  <2>3. SectionOf(f, 0) \notin Headings
    BY <2>2 DEF Headings
  <2> QED BY <2>3
<1>2. ASSUME NEW n \in Good PROVE n + 1 \in Good
  <2> SUFFICES ASSUME n + 1 <= m, SectionOf(f, n + 1) \in Headings
               PROVE  st[n + 1].section = SectionOf(f, n + 1)
    OBVIOUS
  <2>1. /\ n \in Nat /\ n \in 0..(m - 1) /\ f[n + 1] \in FileLine /\ st[n] \in ParseState
        /\ SectionOf(f, n) \in Headings => st[n].section = SectionOf(f, n)
    BY <1>0
  <2>2. st[n + 1] = Parsed(st[n], f[n + 1])
    BY <2>1
  <2>3. CASE f[n + 1] \in Headings \cup {"heading"}
    <3>1. SectionOf(f, n + 1) = f[n + 1]
      BY <2>1, <2>3, SectionMoves
    <3>2. Parsed(st[n], f[n + 1]) = [st[n] EXCEPT !.section = f[n + 1]]
      BY <3>1 DEF Parsed
    <3> QED BY <2>1, <2>2, <3>1, <3>2 DEF ParseState
  <2>4. CASE f[n + 1] \notin Headings \cup {"heading"}
    <3>1. SectionOf(f, n + 1) = SectionOf(f, n)
      BY <2>1, <2>4, SectionMoves
    <3>2. Parsed(st[n], f[n + 1]).section = st[n].section
      BY <2>1, <2>4 DEF Parsed, ParseState
    <3> QED BY <2>1, <2>2, <3>1, <3>2
  <2> QED BY <2>3, <2>4
<1>3. \A n \in Nat : n \in Good
  <2> HIDE DEF Good
  <2>1. Good \in SUBSET Nat
    BY DEF Good
  <2> QED BY <1>1, <1>2, <2>1, EveryNumber
<1> QED BY <1>0, <1>3

\* What the parser has found stays found, and it found nothing that is not there.
LEMMA ParserKeeps ==
  ASSUME NEW f \in Seq(FileLine), NEW st \in [0..Len(f) -> ParseState], st[0] = ParseFrom,
         \A n \in 0..(Len(f) - 1) : st[n + 1] = Parsed(st[n], f[n + 1])
  PROVE  /\ st[Len(f)].base => Has(f, {"base"})
         /\ \A i \in 1..Len(f) : /\ st[i].base => st[Len(f)].base
                                 /\ st[i].endpoints # <<>> => st[Len(f)].endpoints # <<>>
<1> DEFINE m == Len(f)
           Good == {n \in Nat : n <= m =>
                      /\ st[n].base => \E i \in 1..n : f[i] = "base"
                      /\ \A i \in 1..n : /\ st[i].base => st[n].base
                                         /\ st[i].endpoints # <<>> => st[n].endpoints # <<>>}
<1>0. m \in Nat /\ DOMAIN f = 1..m
  OBVIOUS
<1>1. 0 \in Good
  BY DEF ParseFrom
<1>2. ASSUME NEW n \in Good PROVE n + 1 \in Good
  <2> SUFFICES ASSUME n + 1 <= m
               PROVE  /\ st[n + 1].base => \E i \in 1..(n + 1) : f[i] = "base"
                      /\ \A i \in 1..(n + 1) :
                           /\ st[i].base => st[n + 1].base
                           /\ st[i].endpoints # <<>> => st[n + 1].endpoints # <<>>
    OBVIOUS
  <2>1. /\ n \in Nat /\ n \in 0..(m - 1) /\ f[n + 1] \in FileLine /\ st[n] \in ParseState
        /\ n + 1 \in 1..(n + 1)
        /\ st[n].base => \E i \in 1..n : f[i] = "base"
        /\ \A i \in 1..n : /\ st[i].base => st[n].base
                           /\ st[i].endpoints # <<>> => st[n].endpoints # <<>>
    BY <1>0
  <2>2. st[n + 1] = Parsed(st[n], f[n + 1])
    BY <2>1
  <2>3. /\ st[n].base => st[n + 1].base
        /\ st[n + 1].base => st[n].base \/ f[n + 1] = "base"
    BY <2>1, <2>2 DEF Parsed, ParseState
  <2>4. st[n].endpoints # <<>> => st[n + 1].endpoints # <<>>
    <3>1. st[n].endpoints \in Seq(Endpoints)
      BY <2>1 DEF ParseState
    <3>2. st[n + 1].endpoints \in {st[n].endpoints, Append(st[n].endpoints, f[n + 1])}
      BY <2>1, <2>2 DEF Parsed, ParseState
    <3>3. Append(st[n].endpoints, f[n + 1]) # <<>>
      BY <2>1, <3>1, AppendProperties
    <3> QED BY <3>2, <3>3
  <2>5. \A i \in 1..(n + 1) : i \in 1..n \/ i = n + 1
    BY <2>1
  <2>6. st[n + 1].base => \E i \in 1..(n + 1) : f[i] = "base"
    <3>1. \A i \in 1..n : i \in 1..(n + 1)
      BY <2>1
    <3> QED BY <2>1, <2>3, <3>1
  <2> QED BY <2>1, <2>3, <2>4, <2>5, <2>6
<1>3. \A n \in Nat : n \in Good
  <2> HIDE DEF Good
  <2>1. Good \in SUBSET Nat
    BY DEF Good
  <2> QED BY <1>1, <1>2, <2>1, EveryNumber
<1>4. m \in Good
  BY <1>0, <1>3
<1> QED BY <1>0, <1>4 DEF Has

\* A file the parser gets tools from declares a surface; where it gets none, the
\* diagnostics see no endpoint with a base URL in its place.
LEMMA ReadAlike ==
  ASSUME NEW f \in Seq(FileLine)
  PROVE  /\ ParseSkill(f) # <<>> => DeclaresHttpSurface(f)
         /\ ParseSkill(f) = <<>> => Diagnose(f) \in {"no_base", "base_outside_auth", "dash",
                                                     "no_endpoints"}
<1> DEFINE m == Len(f)
<1>0. m \in Nat /\ DOMAIN f = 1..m /\ \A i \in 1..m : f[i] \in FileLine
  OBVIOUS
<1>1. PICK st \in [0..m -> ParseState] :
        /\ st[0] = ParseFrom
        /\ \A n \in 0..(m - 1) : st[n + 1] = Parsed(st[n], f[n + 1])
        /\ ParseSkill(f) = IF st[m].base THEN st[m].endpoints ELSE <<>>
  BY ParserRuns
<1>2. \A n \in 0..m : SectionOf(f, n) \in Headings => st[n].section = SectionOf(f, n)
  BY <1>1, SectionsAgree
<1>3. /\ st[m].base => Has(f, {"base"})
      /\ \A i \in 1..m : /\ st[i].base => st[m].base
                         /\ st[i].endpoints # <<>> => st[m].endpoints # <<>>
  BY <1>1, ParserKeeps
<1>4. ParseSkill(f) # <<>> => DeclaresHttpSurface(f)
  BY <1>1, <1>3 DEF DeclaresHttpSurface, Has
<1>5. ASSUME NEW i \in 1..m, f[i] \notin Headings \cup {"heading"}, SectionOf(f, i) \in Headings
      PROVE  /\ i - 1 \in 0..(m - 1) /\ st[i] = Parsed(st[i - 1], f[i])
             /\ st[i - 1].section = SectionOf(f, i) /\ st[i - 1] \in ParseState
  <2> DEFINE n == i - 1
  <2>1. n \in Nat /\ n \in 0..(m - 1) /\ n + 1 = i /\ n + 1 <= m /\ n \in 0..m
    BY <1>0
  <2>2. st[n + 1] = Parsed(st[n], f[n + 1]) /\ st[n] \in ParseState
    BY <1>1, <2>1
  <2>3. SectionOf(f, n + 1) = SectionOf(f, n)
    BY <1>5, <2>1, SectionMoves
  <2> QED BY <1>2, <1>5, <2>1, <2>2, <2>3
<1>6. ASSUME NEW b \in 1..m, f[b] = "base", SectionOf(f, b) = "auth",
             NEW e \in 1..m, f[e] \in Endpoints, SectionOf(f, e) = "endpoints"
      PROVE  ParseSkill(f) # <<>>
  <2>1. st[b].base
    <3>1. f[b] \notin Headings \cup {"heading"} /\ SectionOf(f, b) \in Headings
      BY <1>6 DEF Headings
    <3>2. st[b] = Parsed(st[b - 1], f[b]) /\ st[b - 1].section = "auth" /\ st[b - 1] \in ParseState
      BY <1>5, <1>6, <3>1
    <3> QED BY <1>6, <3>2 DEF Parsed, Headings, ParseState
  <2>2. st[e].endpoints # <<>>
    <3>1. f[e] \notin Headings \cup {"heading"} /\ f[e] # "base" /\ SectionOf(f, e) \in Headings
      BY <1>6 DEF Headings, Endpoints
    <3>2. /\ st[e] = Parsed(st[e - 1], f[e]) /\ st[e - 1].section = "endpoints"
          /\ st[e - 1] \in ParseState
      BY <1>5, <1>6, <3>1
    <3>3. st[e].endpoints = Append(st[e - 1].endpoints, f[e])
      BY <1>6, <3>1, <3>2 DEF Parsed, ParseState
    <3>4. st[e - 1].endpoints \in Seq(Endpoints)
      BY <3>2 DEF ParseState
    <3> QED BY <1>6, <3>3, <3>4, AppendProperties
  <2> QED BY <1>1, <1>3, <2>1, <2>2
<1>7. ASSUME ParseSkill(f) = <<>>
      PROVE  Diagnose(f) \in {"no_base", "base_outside_auth", "dash", "no_endpoints"}
  <2> DEFINE bases == {i \in DOMAIN f : f[i] = "base"}
             first == CHOOSE i \in bases : \A j \in bases : i <= j
             listed == {i \in DOMAIN f : /\ f[i] \in Endpoints \cup {"dash"}
                                         /\ SectionOf(f, i) = "endpoints"}
  <2>1. CASE bases = {}
    BY <2>1 DEF Diagnose
  <2>2. CASE bases # {}
    <3>1. first \in bases
      <4>1. bases \subseteq Nat
        BY <1>0
      <4>2. IsWellFoundedOn(OpToRel(<, Nat), Nat)
        BY NatLessThanWellFounded, Zenon
      <4> HIDE DEF bases
      <4>3. PICK n \in bases : \A k \in bases : ~(<<k, n>> \in OpToRel(<, Nat))
        BY <2>2, <4>1, <4>2, WFMin, Zenon
      <4>4. \A k \in bases : n <= k
        BY <4>1, <4>3 DEF OpToRel
      <4> QED BY <4>4
    <3> HIDE DEF first
    <3>2. f[first] = "base" /\ first \in 1..m
      BY <1>0, <3>1
    <3>3. SectionOf(f, first) = "auth" => ~\E i \in listed : f[i] \in Endpoints
      BY <1>0, <1>6, <1>7, <3>2
    <3> HIDE DEF bases, listed
    <3> QED BY <2>2, <3>3 DEF Diagnose, bases, first, listed
  <2> QED BY <2>1, <2>2
<1> QED BY <1>4, <1>7

-----------------------------------------------------------------------------
(* The skills of a message *)

Matched(spoke) == {k \in DOMAIN Keywords : Matches(k, spoke) > 0 /\ Passes(k, spoke)}
Ahead(k, spoke) == {o \in Matched(spoke) : Before(o, k, spoke)}

LEMMA MatchesCount == ASSUME NEW spoke, NEW k \in DOMAIN Keywords PROVE Matches(k, spoke) \in Nat
<1>1. IsFiniteSet({w \in Keywords[k] : w # {} /\ w \subseteq spoke})
  <2>1. IsFiniteSet(Keywords[k])
    BY FilesAssumption
  <2>2. {w \in Keywords[k] : w # {} /\ w \subseteq spoke} \in SUBSET Keywords[k]
    OBVIOUS
  <2> QED BY <2>1, <2>2, FS_Subset
<1> QED BY <1>1, FS_CardinalityType DEF Matches

\* Before is a strict order of the matched skills.
LEMMA BeforeOrders ==
  ASSUME NEW spoke
  PROVE  \A a, b \in Matched(spoke) :
           /\ a = b \/ Before(a, b, spoke) \/ Before(b, a, spoke)
           /\ ~Before(a, a, spoke)
           /\ \A c \in Matched(spoke) : Before(a, b, spoke) /\ Before(b, c, spoke) => Before(a, c, spoke)
<1>1. \A a \in Matched(spoke) : a \in DOMAIN Keywords /\ Matches(a, spoke) \in Nat /\ Rank[a] \in Nat
  BY MatchesCount, FilesAssumption DEF Matched
<1>2. \A a, b \in Matched(spoke) : Rank[a] = Rank[b] => a = b
  BY <1>1, FilesAssumption
<1> QED BY <1>1, <1>2 DEF Before

\* What is ahead of a skill is finite, and grows strictly down the order.
LEMMA AheadGrows ==
  ASSUME NEW spoke
  PROVE  /\ IsFiniteSet(Matched(spoke))
         /\ \A k \in Matched(spoke) : IsFiniteSet(Ahead(k, spoke)) /\ Cardinality(Ahead(k, spoke)) \in Nat
         /\ \A k, o \in Matched(spoke) : Before(k, o, spoke) =>
              Cardinality(Ahead(k, spoke)) < Cardinality(Ahead(o, spoke))
<1>1. IsFiniteSet(Matched(spoke))
  <2>1. Matched(spoke) \in SUBSET (DOMAIN Keywords)
    BY DEF Matched
  <2> QED BY <2>1, FilesAssumption, FS_Subset
<1>2. ASSUME NEW k \in Matched(spoke)
      PROVE  IsFiniteSet(Ahead(k, spoke)) /\ Cardinality(Ahead(k, spoke)) \in Nat
  <2>1. Ahead(k, spoke) \in SUBSET Matched(spoke)
    BY DEF Ahead
  <2> QED BY <1>1, <2>1, FS_Subset, FS_CardinalityType
<1>3. ASSUME NEW k \in Matched(spoke), NEW o \in Matched(spoke), Before(k, o, spoke)
      PROVE  Cardinality(Ahead(k, spoke)) < Cardinality(Ahead(o, spoke))
  <2>1. Ahead(k, spoke) \subseteq Ahead(o, spoke) /\ k \in Ahead(o, spoke) /\ k \notin Ahead(k, spoke)
    BY <1>3, BeforeOrders DEF Ahead
  <2>2. Ahead(k, spoke) # Ahead(o, spoke)
    BY <2>1
  <2> QED BY <1>2, <2>1, <2>2, FS_Subset
<1> QED BY <1>1, <1>2, <1>3

\* What LoadSkills returns: no more than the cap, and none better is left.
LEMMA LoadedAreBest ==
  ASSUME NEW spoke
  PROVE  /\ LoadSkills(spoke) \subseteq Matched(spoke)
         /\ Cardinality(LoadSkills(spoke)) <= HardCap
         /\ \A k \in DOMAIN Keywords \ LoadSkills(spoke), o \in LoadSkills(spoke) :
              Passes(k, spoke) => Matches(k, spoke) <= Matches(o, spoke)
<1> DEFINE top == LoadSkills(spoke)
           n(k) == Cardinality(Ahead(k, spoke))
<1>1. top = {k \in Matched(spoke) : n(k) < HardCap}
  BY DEF LoadSkills, Matched, Ahead
<1>2. /\ HardCap \in Nat /\ IsFiniteSet(Matched(spoke))
      /\ \A k \in Matched(spoke) : IsFiniteSet(Ahead(k, spoke)) /\ n(k) \in Nat
      /\ \A k, o \in Matched(spoke) : Before(k, o, spoke) => n(k) < n(o)
  BY AheadGrows, FilesAssumption
<1> HIDE DEF top
<1>3. top \subseteq Matched(spoke) /\ IsFiniteSet(top)
  <2>1. top \in SUBSET Matched(spoke)
    BY <1>1
  <2> QED BY <1>2, <2>1, FS_Subset
<1>4. Cardinality(top) <= HardCap
  <2>1. CASE top = {}
    <3>1. Cardinality(top) = 0
      BY <2>1, FS_EmptySet
    <3> QED BY <1>2, <3>1
  <2>2. CASE top # {}
    <3> DEFINE Room == {r \in Nat : \E k \in top : r = HardCap - n(k)}
    <3>1. Room \subseteq Nat /\ Room # {}
      <4>1. PICK k \in top : TRUE
        BY <2>2
      <4>2. HardCap - n(k) \in Nat
        BY <1>1, <1>2
      <4> HIDE DEF n
      <4> QED BY <4>2
    <3>2. IsWellFoundedOn(OpToRel(<, Nat), Nat)
      BY NatLessThanWellFounded, Zenon
    <3> HIDE DEF Room
    <3>3. PICK r \in Room : \A x \in Room : ~(<<x, r>> \in OpToRel(<, Nat))
      BY <3>1, <3>2, WFMin, Zenon
    <3>4. \A x \in Room : ~(x < r)
      BY <3>1, <3>3 DEF OpToRel
    <3>5. PICK k \in top : r = HardCap - n(k)
      BY DEF Room
    <3> HIDE DEF n
    <3>6. \A o \in top : n(o) <= n(k)
      <4> TAKE o \in top
      <4>1. n(o) \in Nat /\ n(k) \in Nat /\ n(o) < HardCap /\ HardCap - n(o) \in Nat
        BY <1>1, <1>2
      <4>2. HardCap - n(o) \in Room
        BY <4>1 DEF Room
      <4> QED BY <1>2, <3>4, <3>5, <4>1, <4>2
    <3>7. k \in Matched(spoke) /\ n(k) \in Nat /\ n(k) < HardCap
      BY <1>1, <1>2
    <3>8. top \subseteq Ahead(k, spoke) \cup {k}
      <4> SUFFICES ASSUME NEW o \in top, o # k PROVE o \in Ahead(k, spoke)
        OBVIOUS
      <4>1. o \in Matched(spoke) /\ n(o) \in Nat
        BY <1>1, <1>2
      <4>2. ~Before(k, o, spoke)
        BY <1>2, <3>6, <3>7, <4>1
      <4>3. Before(o, k, spoke)
        BY <3>7, <4>1, <4>2, BeforeOrders
      <4> QED BY <4>1, <4>3 DEF Ahead
    <3>9. /\ IsFiniteSet(Ahead(k, spoke) \cup {k})
          /\ Cardinality(Ahead(k, spoke) \cup {k}) <= n(k) + 1
          /\ Cardinality(Ahead(k, spoke) \cup {k}) \in Nat
      <4>1. IsFiniteSet(Ahead(k, spoke))
        BY <1>2, <3>7
      <4>2. /\ IsFiniteSet(Ahead(k, spoke) \cup {k})
            /\ Cardinality(Ahead(k, spoke) \cup {k}) = IF k \in Ahead(k, spoke) THEN Cardinality(Ahead(k, spoke))
                                                       ELSE Cardinality(Ahead(k, spoke)) + 1
        BY <4>1, FS_AddElement
      <4> QED BY <3>7, <4>2 DEF n
    <3>10. Cardinality(top) \in Nat /\ Cardinality(top) <= Cardinality(Ahead(k, spoke) \cup {k})
      BY <1>3, <3>8, <3>9, FS_Subset, FS_CardinalityType
    <3> QED BY <1>2, <3>7, <3>9, <3>10
  <2> QED BY <2>1, <2>2
<1>5. ASSUME NEW k \in DOMAIN Keywords \ top, NEW o \in top, Passes(k, spoke)
      PROVE  Matches(k, spoke) <= Matches(o, spoke)
  <2> SUFFICES ASSUME ~(Matches(k, spoke) <= Matches(o, spoke)) PROVE FALSE
    OBVIOUS
  <2>1. o \in Matched(spoke) /\ n(o) < HardCap /\ n(o) \in Nat
    BY <1>1, <1>2
  <2>2. Matches(k, spoke) \in Nat /\ Matches(o, spoke) \in Nat
    BY <2>1, MatchesCount DEF Matched
  <2>3. Matches(k, spoke) > Matches(o, spoke) /\ Matches(k, spoke) > 0
    BY <2>2
  <2>4. k \in Matched(spoke) /\ Before(k, o, spoke)
    BY <1>5, <2>3 DEF Matched, Before
  <2>5. n(k) < n(o) /\ n(k) \in Nat
    BY <1>2, <2>1, <2>4
  <2>6. k \in top
    BY <1>1, <1>2, <2>1, <2>4, <2>5
  <2> QED BY <2>6
<1> QED BY <1>3, <1>4, <1>5 DEF top

-----------------------------------------------------------------------------
\* What SkillsLoadRight rests on: the file is one of those considered, its tools
\* and its row are what the two readings make of it, and what is offered is what
\* was last loaded.
FilesInv ==
  /\ skillFile \in Files /\ stepAt \in {"read", "registered", "reported"}
  /\ stepAt # "read" => (DOMAIN tools = {} <=> ParseSkill(skillFile) = <<>>)
  /\ stepAt = "reported" => report = Inspect(skillFile)
  /\ offered = {} \/ offered = LoadSkills(heard)

LEMMA FilesStart == FilesInit => FilesInv
  BY DEF FilesInit, FilesInv

\* A skill parses to endpoints.
LEMMA ParsedSkill == ASSUME NEW f \in Seq(FileLine) PROVE ParseSkill(f) \in Seq(Endpoints)
<1> DEFINE m == Len(f)
<1>1. PICK st \in [0..m -> ParseState] :
        ParseSkill(f) = IF st[m].base THEN st[m].endpoints ELSE <<>>
  BY ParserRuns
<1>2. st[m] \in ParseState
  OBVIOUS
<1> QED BY <1>1, <1>2, EmptySeq DEF ParseState

LEMMA FilesStep == FilesInv /\ [FilesNext]_skillFileVars => FilesInv'
<1> SUFFICES ASSUME FilesInv, [FilesNext]_skillFileVars PROVE FilesInv'
  OBVIOUS
<1>1. CASE LoadAgent
  <2>1. /\ stepAt' = "registered" /\ tools' = FoldLeft(Registered, <<>>, ParseSkill(skillFile))
        /\ UNCHANGED <<skillFile, heard, offered>>
    BY <1>1 DEF LoadAgent
  <2>2. ParseSkill(skillFile) \in Seq(Endpoints)
    BY FilesAssumption, ParsedSkill DEF FilesInv
  <2>3. DOMAIN tools' = {} <=> ParseSkill(skillFile) = <<>>
    BY <2>1, <2>2, ToolsRun
  <2> QED BY <2>1, <2>3 DEF FilesInv
<1>2. CASE ReportSkills
  BY <1>2 DEF ReportSkills, FilesInv
<1>3. ASSUME NEW spoke \in SUBSET MessageWord, MessageArrives(spoke) PROVE FilesInv'
  BY <1>3 DEF MessageArrives, FilesInv
<1>4. CASE UNCHANGED skillFileVars
  BY <1>4 DEF skillFileVars, FilesInv
<1> QED BY <1>1, <1>2, <1>3, <1>4 DEF FilesNext

LEMMA FilesTrue == FilesInv => InspectedAsParsed /\ BestAreOffered
<1> SUFFICES ASSUME FilesInv PROVE InspectedAsParsed /\ BestAreOffered
  OBVIOUS
<1>1. InspectedAsParsed
  <2>1. skillFile \in Seq(FileLine)
    BY FilesAssumption DEF FilesInv
  <2>2. /\ ParseSkill(skillFile) # <<>> => DeclaresHttpSurface(skillFile)
        /\ ParseSkill(skillFile) = <<>> =>
             Diagnose(skillFile) \in {"no_base", "base_outside_auth", "dash", "no_endpoints"}
    BY <2>1, ReadAlike
  <2> QED BY <2>2 DEF FilesInv, InspectedAsParsed, Inspect
<1>2. BestAreOffered
  <2>1. CASE offered = {}
    <3>1. Cardinality(offered) = 0
      BY <2>1, FS_EmptySet
    <3> QED BY <2>1, <3>1, FilesAssumption DEF BestAreOffered
  <2>2. CASE offered = LoadSkills(heard)
    BY <2>2, LoadedAreBest DEF BestAreOffered, Matched
  <2> QED BY <2>1, <2>2 DEF FilesInv
<1> QED BY <1>1, <1>2

\* For any files, any skills with their keywords, weak words and names, any cap
\* and any messages: the parser and the diagnostics agree on every file, and the
\* skills chosen are the best that match, no more than the cap.
THEOREM SkillsAreLoadedRight == ServicesSpec => []SkillsLoadRight
<1>1. ServicesInit => FilesInv
  BY EachBegins, FilesStart
<1>2. FilesInv /\ [ServicesNext]_servicesVars => FilesInv'
  BY EachMoves, FilesStep
<1>3. FilesInv => SkillsLoadRight
  BY FilesTrue DEF SkillsLoadRight
<1> QED BY <1>1, <1>2, <1>3, PTL DEF ServicesSpec

-----------------------------------------------------------------------------
(* The requests to the model *)

TurnMsgs == [role : Roles, plain : BOOLEAN]

\* No two neighbours that could be joined are left.
Alternate(ms) == \A i \in 1..Len(ms) - 1 : ms[i].role # ms[i + 1].role \/ ~ms[i].plain

\* Of a turn's own messages only a note may follow its like.
Mergeable(ms) == \A i \in 1..Len(ms) - 1 : ms[i].role # ms[i + 1].role \/ ms[i + 1].plain

MergedWith(out, m) ==
  IF out # <<>> /\ Joins(Last(out), m) THEN Append(Front(out), Joined(Last(out), m)) ELSE Append(out, m)

LEMMA MergeKeeps ==
  ASSUME NEW out \in Seq(TurnMsgs), NEW m \in TurnMsgs, Alternate(out),
         out # <<>> => Last(out).role # m.role \/ m.plain
  PROVE  /\ MergedWith(out, m) \in Seq(TurnMsgs) /\ MergedWith(out, m) # <<>>
         /\ Last(MergedWith(out, m)).role = m.role /\ Alternate(MergedWith(out, m))
<1> DEFINE n == Len(out)
<1>0. n \in Nat /\ m.role \in Roles /\ m.plain \in BOOLEAN /\ \A i \in 1..n : out[i] \in TurnMsgs
  <2>1. n \in Nat /\ \A i \in 1..n : out[i] \in TurnMsgs
    OBVIOUS
  <2>2. m.role \in Roles /\ m.plain \in BOOLEAN
    BY DEF TurnMsgs
  <2> QED BY <2>1, <2>2
<1>1. CASE out # <<>> /\ Joins(Last(out), m)
  <2> DEFINE j == Joined(Last(out), m)
             new == Append(Front(out), j)
  <2>1. n >= 1 /\ Last(out) = out[n] /\ out[n] \in TurnMsgs /\ out[n].role = m.role
    BY <1>0, <1>1 DEF Last, Joins
  <2>2. j \in TurnMsgs /\ j.role = m.role
    BY <1>0, <2>1 DEF Joined, TurnMsgs
  <2> HIDE DEF j
  <2>3. /\ Front(out) \in Seq(TurnMsgs) /\ Len(Front(out)) = n - 1
        /\ \A i \in 1..(n - 1) : Front(out)[i] = out[i]
    <3>1. 1 \in Int /\ n - 1 \in Int /\ \A i \in 1..(n - 1) : out[i] \in TurnMsgs
      BY <1>0, <2>1
    <3>2. /\ SubSeq(out, 1, n - 1) \in Seq(TurnMsgs)
          /\ Len(SubSeq(out, 1, n - 1)) = IF 1 <= n - 1 THEN (n - 1) - 1 + 1 ELSE 0
          /\ \A i \in 1..((n - 1) - 1 + 1) : SubSeq(out, 1, n - 1)[i] = out[1 + i - 1]
      BY <3>1, SubSeqProperties
    <3>3. (n - 1) - 1 + 1 = n - 1 /\ \A i \in 1..(n - 1) : 1 + i - 1 = i
      BY <1>0
    <3>4. n - 1 = IF 1 <= n - 1 THEN (n - 1) - 1 + 1 ELSE 0
      <4>1. n \in Nat /\ n >= 1
        BY <1>0, <2>1
      <4> HIDE DEF n
      <4> QED BY <4>1
    <3> QED BY <3>2, <3>3, <3>4 DEF Front
  <2>4. /\ new \in Seq(TurnMsgs) /\ Len(new) = n /\ new[n] = j
        /\ \A i \in 1..(n - 1) : new[i] = out[i]
    <3> HIDE DEF n
    <3>1. n - 1 + 1 = n
      BY <1>0
    <3> QED BY <1>0, <2>2, <2>3, <3>1, AppendProperties
  <2> HIDE DEF new
  <2>5. \A i \in 1..(n - 1) : /\ new[i] = out[i] /\ new[i + 1].role = out[i + 1].role
    <3> TAKE i \in 1..(n - 1)
    <3>1. CASE i + 1 = n
      BY <2>1, <2>2, <2>4, <3>1
    <3>2. CASE i + 1 # n
      <4>1. i + 1 \in 1..(n - 1)
        BY <1>0, <3>2
      <4> QED BY <2>4, <4>1
    <3> QED BY <3>1, <3>2
  <2>6. Alternate(new)
    BY <2>4, <2>5 DEF Alternate
  <2>7. MergedWith(out, m) = new
    BY <1>1 DEF MergedWith, new, j
  <2> QED BY <1>0, <2>1, <2>2, <2>4, <2>6, <2>7 DEF Last
<1>2. CASE ~(out # <<>> /\ Joins(Last(out), m))
  <2> DEFINE new == Append(out, m)
  <2>1. /\ new \in Seq(TurnMsgs) /\ Len(new) = n + 1 /\ new[n + 1] = m
        /\ \A i \in 1..n : new[i] = out[i]
    BY <1>0, AppendProperties
  <2> HIDE DEF new
  <2>2. ASSUME NEW i \in 1..n PROVE new[i].role # new[i + 1].role \/ ~new[i].plain
    <3>1. CASE i = n
      <4>1. out # <<>> /\ Last(out) = out[n] /\ new[i] = out[n] /\ new[i + 1] = m
        BY <1>0, <2>1, <2>2, <3>1 DEF Last
      <4> QED BY <1>0, <1>2, <4>1 DEF Joins
    <3>2. CASE i # n
      <4>1. i \in 1..Len(out) - 1 /\ i + 1 \in 1..n
        BY <1>0, <2>2, <3>2
      <4> QED BY <2>1, <4>1 DEF Alternate
    <3> QED BY <3>1, <3>2
  <2>3. Alternate(new)
    BY <1>0, <2>1, <2>2 DEF Alternate
  <2>4. MergedWith(out, m) = new
    BY <1>2 DEF MergedWith, new
  <2> QED BY <1>0, <2>1, <2>3, <2>4 DEF Last
<1> QED BY <1>1, <1>2

\* What is merged after each message.
LEMMA MergeRuns ==
  ASSUME NEW ms \in Seq(TurnMsgs)
  PROVE  \E st \in [0..Len(ms) -> Seq(TurnMsgs)] :
           /\ st[0] = <<>> /\ Merged(ms) = st[Len(ms)]
           /\ \A n \in 0..(Len(ms) - 1) : st[n + 1] = MergedWith(st[n], ms[n + 1])
<1> DEFINE S == Seq(TurnMsgs)
           F == [p \in S \X TurnMsgs |-> MergedWith(p[1], p[2])]
           Value(h, s) == IF s = {} THEN <<>>
                          ELSE MergedWith(h[s \ {Max(s)}], ms[Max(s)])
           Run(h) == h = [s \in SUBSET (DOMAIN ms) |-> Value(h, s)]
           it == CHOOSE h : Run(h)
           m == Len(ms)
<1>1. m \in Nat /\ DOMAIN ms = 1..m /\ \A i \in 1..m : ms[i] \in TurnMsgs
  OBVIOUS
<1>2. <<>> \in S
  BY EmptySeq
<1>t. ASSUME NEW out \in S, NEW x \in TurnMsgs PROVE MergedWith(out, x) \in S
  <2>1. CASE out # <<>>
    <3>1. Len(out) \in Nat /\ Len(out) >= 1 /\ Last(out) \in TurnMsgs
      BY <2>1 DEF Last
    <3>2. Joined(Last(out), x) \in TurnMsgs
      BY <3>1 DEF Joined, TurnMsgs
    <3>3. Front(out) \in S
      BY <3>1, SubSeqProperties DEF Front
    <3>4. Append(Front(out), Joined(Last(out), x)) \in S
      BY <3>2, <3>3, AppendProperties
    <3>5. Append(out, x) \in S
      BY AppendProperties
    <3> QED BY <3>4, <3>5 DEF MergedWith
  <2>2. CASE out = <<>>
    BY <2>2, AppendProperties DEF MergedWith
  <2> QED BY <2>1, <2>2
<1> HIDE DEF S
<1>3. F \in [S \X TurnMsgs -> S]
  BY <1>t
<1>4. PICK h \in [SUBSET (1..m) -> S] : Folds(ms, <<>>, F, h)
  <2> HIDE DEF F
  <2> QED BY <1>2, <1>3, FoldRuns
<1>5. Run(h)
  <2>1. h = [s \in SUBSET (1..m) |-> IF s = {} THEN <<>> ELSE F[<<h[s \ {Max(s)}], ms[Max(s)]>>]]
    BY <1>4 DEF Folds
  <2>2. ASSUME NEW s \in SUBSET (1..m), s # {}
        PROVE  F[<<h[s \ {Max(s)}], ms[Max(s)]>>] = MergedWith(h[s \ {Max(s)}], ms[Max(s)])
    <3>1. Max(s) \in 1..m
      <4>1. s \in SUBSET (0..m)
        BY <1>1
      <4> QED BY <1>1, <2>2, <4>1, MaxIs
    <3>2. h[s \ {Max(s)}] \in S /\ ms[Max(s)] \in TurnMsgs
      BY <1>1, <1>4, <3>1
    <3> QED BY <3>2
  <2> QED BY <1>1, <2>1, <2>2
<1>6. Run(it)
  BY <1>5
<1>7. \A s \in SUBSET (1..m) : it[s] = Value(it, s)
  <2> HIDE DEF it
  <2> QED BY <1>1, <1>6
<1>8. it[{}] = <<>>
  BY <1>7
<1>9. ASSUME NEW n \in 0..(m - 1)
      PROVE  it[1..(n + 1)] = MergedWith(it[1..n], ms[n + 1])
  <2>1. n \in Nat /\ 1..(n + 1) \in SUBSET (1..m) /\ 1..(n + 1) # {}
    <3>1. n \in Nat /\ n + 1 <= m /\ n + 1 \in 1..(n + 1)
      BY <1>1
    <3> QED BY <1>1, <3>1
  <2>2. Max(1..(n + 1)) = n + 1 /\ (1..(n + 1)) \ {n + 1} = 1..n
    BY <2>1, MaxOfPrefix
  <2> HIDE DEF it
  <2> QED BY <1>7, <2>1, <2>2
<1>10. Merged(ms) = it[1..m]
  BY <1>1 DEF Merged, MergedWith, FoldLeft, MapThenFoldSet
<1> DEFINE st == [n \in 0..m |-> it[1..n]]
<1>11. st[0] = <<>>
  <2>1. 1..0 = {} /\ 0 \in 0..m
    BY <1>1
  <2> HIDE DEF it
  <2> QED BY <1>8, <2>1
<1>12. \A n \in 0..(m - 1) : st[n + 1] = MergedWith(st[n], ms[n + 1])
  <2> TAKE n \in 0..(m - 1)
  <2> HIDE DEF it
  <2>1. n \in 0..m /\ n + 1 \in 0..m
    BY <1>1
  <2>2. st[n] = it[1..n] /\ st[n + 1] = it[1..(n + 1)]
    BY <2>1
  <2> HIDE DEF st
  <2> QED BY <1>9, <2>2
<1>13. \A n \in 0..m : st[n] \in S
  <2> HIDE DEF st
  <2> DEFINE Good == {n \in Nat : n <= m => st[n] \in S}
  <2>1. 0 \in Good
    BY <1>2, <1>11
  <2>2. ASSUME NEW n \in Good PROVE n + 1 \in Good
    <3> SUFFICES ASSUME n + 1 <= m PROVE st[n + 1] \in S
      BY <1>1
    <3>1. n \in 0..(m - 1) /\ st[n] \in S /\ ms[n + 1] \in TurnMsgs
      BY <1>1
    <3> QED BY <1>12, <3>1, <1>t
  <2>3. \A n \in Nat : n \in Good
    <3> HIDE DEF Good
    <3>1. Good \in SUBSET Nat
      BY DEF Good
    <3> QED BY <2>1, <2>2, <3>1, EveryNumber
  <2> QED BY <1>1, <2>3
<1>14. st \in [0..m -> S] /\ st[m] = it[1..m]
  <2> HIDE DEF it
  <2>1. m \in 0..m
    BY <1>1
  <2> QED BY <1>1, <1>13, <2>1
<1> HIDE DEF st, it
<1> QED BY <1>10, <1>11, <1>12, <1>14 DEF S

\* What is merged alternates and ends as the messages do.
LEMMA MergedIsFine ==
  ASSUME NEW ms \in Seq(TurnMsgs), ms # <<>>, Mergeable(ms)
  PROVE  /\ Merged(ms) \in Seq(TurnMsgs) /\ Merged(ms) # <<>>
         /\ Last(Merged(ms)).role = Last(ms).role /\ Alternate(Merged(ms))
<1> DEFINE m == Len(ms)
<1>0. m \in Nat /\ m >= 1 /\ \A i \in 1..m : ms[i] \in TurnMsgs
  OBVIOUS
<1>1. PICK st \in [0..m -> Seq(TurnMsgs)] :
        /\ st[0] = <<>> /\ Merged(ms) = st[m]
        /\ \A n \in 0..(m - 1) : st[n + 1] = MergedWith(st[n], ms[n + 1])
  BY MergeRuns
<1> DEFINE Good == {n \in Nat : n <= m => /\ Alternate(st[n])
                                          /\ n >= 1 => st[n] # <<>> /\ Last(st[n]).role = ms[n].role}
<1>2. 0 \in Good
  BY <1>1 DEF Alternate
<1>3. ASSUME NEW n \in Good PROVE n + 1 \in Good
  <2> SUFFICES ASSUME n + 1 <= m
               PROVE  /\ Alternate(st[n + 1]) /\ st[n + 1] # <<>>
                      /\ Last(st[n + 1]).role = ms[n + 1].role
    OBVIOUS
  <2>1. /\ n \in Nat /\ n \in 0..(m - 1) /\ ms[n + 1] \in TurnMsgs /\ st[n] \in Seq(TurnMsgs)
        /\ Alternate(st[n]) /\ (n >= 1 => st[n] # <<>> /\ Last(st[n]).role = ms[n].role)
    BY <1>0
  <2>2. st[n] # <<>> => Last(st[n]).role # ms[n + 1].role \/ ms[n + 1].plain
    <3>1. CASE n = 0
      BY <1>1, <3>1
    <3>2. CASE n # 0
      <4>1. n \in 1..Len(ms) - 1
        BY <2>1, <3>2
      <4> QED BY <2>1, <4>1 DEF Mergeable
    <3> QED BY <3>1, <3>2
  <2>3. st[n + 1] = MergedWith(st[n], ms[n + 1])
    BY <1>1, <2>1
  <2> HIDE DEF Good
  <2>4. /\ MergedWith(st[n], ms[n + 1]) # <<>> /\ Alternate(MergedWith(st[n], ms[n + 1]))
        /\ Last(MergedWith(st[n], ms[n + 1])).role = ms[n + 1].role
    BY <2>1, <2>2, MergeKeeps
  <2> QED BY <2>3, <2>4
<1>4. \A n \in Nat : n \in Good
  <2> HIDE DEF Good
  <2>1. Good \in SUBSET Nat
    BY DEF Good
  <2> QED BY <1>2, <1>3, <2>1, EveryNumber
<1>5. m \in Good /\ st[m] \in Seq(TurnMsgs)
  BY <1>0, <1>4
<1> QED BY <1>0, <1>1, <1>5 DEF Last

-----------------------------------------------------------------------------
\* What RequestsAreValid rests on: the history alternates and ends with an
\* answer, and so the messages of a turn under way can be merged and end with
\* what is to be answered.
PastMsgs == [role : Roles, size : 1..2]
Turns(s) == \A i \in 1..Len(s) - 1 : s[i].role # s[i + 1].role
Askable(ms) == ms \in Seq(TurnMsgs) /\ ms # <<>> /\ Mergeable(ms) /\ Last(ms).role = "user"
BlockSets == [stable : 0..2, dynamic : 0..1, mark : 0..2]
TurnStates == [step : {"idle", "call", "wait", "retry"},
               blocks : BlockSets,
               base : Seq(TurnMsgs), messages : Seq(TurnMsgs), rounds : Nat]
RequestInv ==
  /\ mode \in {"tools", "chat"} /\ enabled \in BOOLEAN /\ rejected \in BOOLEAN /\ pinged \in BOOLEAN
  /\ history \in Seq(PastMsgs) /\ Turns(history)
  /\ history # <<>> => Last(history).role = "assistant"
  /\ turn \in [Caller -> TurnStates]
  /\ \A a \in Caller : /\ turn[a].step # "idle" => Askable(turn[a].base) /\ Askable(turn[a].messages)
                       /\ turn[a].blocks.mark <= turn[a].blocks.stable
  /\ request \in [Caller -> [blocks : BlockSets, messages : Seq(TurnMsgs), live : BOOLEAN]]
  /\ RequestsAreValid

\* The last few messages of a sequence are its end.
LEMMA LastFewIs ==
  ASSUME NEW s \in Seq(PastMsgs), NEW n \in Nat, Turns(s)
  PROVE  /\ LastFew(s, n) \in Seq(PastMsgs) /\ Turns(LastFew(s, n))
         /\ LastFew(s, n) # <<>> => s # <<>> /\ Last(LastFew(s, n)) = Last(s)
<1> DEFINE m == Len(s)
           e == LastFew(s, n)
<1>0. m \in Nat /\ \A i \in 1..m : s[i] \in PastMsgs
  OBVIOUS
<1>1. CASE m > n
  <2> DEFINE k == m - n + 1
  <2>1. k \in Int /\ m \in Int /\ k >= 1 /\ \A i \in k..m : s[i] \in PastMsgs
    BY <1>0, <1>1
  <2>2. m - k + 1 = n /\ (IF k <= m THEN m - k + 1 ELSE 0) = n
    BY <1>0, <1>1
  <2>3. e = SubSeq(s, k, m)
    BY <1>1 DEF LastFew
  <2> HIDE DEF k, e, m
  <2>4. /\ SubSeq(s, k, m) \in Seq(PastMsgs)
        /\ Len(SubSeq(s, k, m)) = IF k <= m THEN m - k + 1 ELSE 0
        /\ \A i \in 1..(m - k + 1) : SubSeq(s, k, m)[i] = s[k + i - 1]
    BY <2>1, SubSeqProperties
  <2>5. e \in Seq(PastMsgs) /\ Len(e) = n /\ \A i \in 1..n : e[i] = s[k + i - 1]
    BY <2>2, <2>3, <2>4
  <2>6. Turns(e)
    <3> SUFFICES ASSUME NEW i \in 1..n - 1 PROVE e[i].role # e[i + 1].role
      BY <2>5 DEF Turns
    <3>1. /\ i \in 1..n /\ i + 1 \in 1..n /\ k + (i + 1) - 1 = (k + i - 1) + 1
          /\ k + i - 1 \in 1..Len(s) - 1
      BY <1>0, <2>1, <2>2 DEF m
    <3> QED BY <2>5, <3>1 DEF Turns
  <2>7. e # <<>> => s # <<>> /\ Last(e) = Last(s)
    <3> SUFFICES ASSUME e # <<>> PROVE s # <<>> /\ Last(e) = Last(s)
      OBVIOUS
    <3>1. n >= 1 /\ n \in 1..n /\ k + n - 1 = m /\ m >= 1
      BY <1>0, <2>1, <2>2, <2>5
    <3> QED BY <2>5, <3>1 DEF Last, m
  <2> QED BY <2>5, <2>6, <2>7 DEF e
<1>2. CASE ~(m > n)
  BY <1>2 DEF LastFew
<1> QED BY <1>1, <1>2

LEMMA NothingHasNoSize == Size(<<>>) = 0
<1> DEFINE Run(h) == h = [s \in SUBSET {} |-> IF s = {} THEN 0
                              ELSE h[s \ {CHOOSE x \in s : TRUE}] + <<>>[CHOOSE x \in s : TRUE].size]
           it == CHOOSE h : Run(h)
<1>1. Run([s \in SUBSET {} |-> 0])
  OBVIOUS
<1>2. Run(it)
  BY <1>1
<1>3. it[{}] = 0
  <2> HIDE DEF it
  <2> QED BY <1>2
<1>4. DOMAIN <<>> = {}
  OBVIOUS
<1> QED BY <1>3, <1>4 DEF Size, FoldSeq, FoldFunction, FoldFunctionOnSet, MapThenFoldSet

\* What is cut to the budget is the end of the history too.
LEMMA TruncatedIs ==
  ASSUME NEW s \in Seq(PastMsgs), Turns(s)
  PROVE  /\ Truncated(s) \in Seq(PastMsgs) /\ Turns(Truncated(s))
         /\ Truncated(s) # <<>> => s # <<>> /\ Last(Truncated(s)) = Last(s)
<1> DEFINE fits == {k \in 0..Len(s) : Size(LastFew(s, k)) <= Budget}
           top == CHOOSE k \in fits : \A j \in fits : j <= k
<1>1. 0 \in fits
  <2>1. LastFew(s, 0) = <<>>
    <3>1. CASE Len(s) > 0
      <4>1. SubSeq(s, Len(s) - 0 + 1, Len(s)) = <<>>
        BY SubSeqEmpty
      <4> QED BY <3>1, <4>1 DEF LastFew
    <3>2. CASE ~(Len(s) > 0)
      BY <3>2 DEF LastFew
    <3> QED BY <3>1, <3>2
  <2>2. Budget \in Nat /\ 0 \in 0..Len(s)
    BY ModelCallAssumption
  <2> QED BY <2>1, <2>2, NothingHasNoSize
<1>2. fits \in SUBSET (0..Len(s)) /\ Len(s) \in Nat
  OBVIOUS
<1> HIDE DEF fits
<1>3. Max(fits) \in fits /\ \A j \in fits : j <= Max(fits)
  <2>1. Max(fits) \in fits /\ \A j \in fits : Max(fits) >= j
    BY <1>1, <1>2, MaxIs
  <2> QED BY <1>2, <2>1
<1>4. top \in fits
  BY <1>3
<1> HIDE DEF top
<1>5. Truncated(s) = LastFew(s, top) /\ top \in Nat
  BY <1>2, <1>4 DEF Truncated, fits, top
<1> QED BY <1>5, LastFewIs

\* What a turn begins with can be asked.
LEMMA BaseIsAskable ==
  ASSUME NEW past \in Seq(PastMsgs), Turns(past), past # <<>> => Last(past).role = "assistant",
         NEW plain \in BOOLEAN
  PROVE  Askable(Append([i \in 1..Len(past) |-> TurnMsg(past[i].role, TRUE)], TurnMsg("user", plain)))
<1> DEFINE m == Len(past)
           q == [i \in 1..m |-> TurnMsg(past[i].role, TRUE)]
           u == TurnMsg("user", plain)
           new == Append(q, u)
<1>0. m \in Nat /\ \A i \in 1..m : past[i] \in PastMsgs
  OBVIOUS
<1>1. \A i \in 1..m : TurnMsg(past[i].role, TRUE) \in TurnMsgs
  <2> TAKE i \in 1..m
  <2>1. past[i].role \in Roles
    BY <1>0 DEF PastMsgs
  <2> QED BY <2>1 DEF TurnMsg, TurnMsgs
<1>2. u \in TurnMsgs /\ u.role = "user"
  BY DEF TurnMsg, TurnMsgs, Roles
<1>3. q \in Seq(TurnMsgs) /\ Len(q) = m
  <2>1. q \in [1..m -> TurnMsgs] /\ DOMAIN q = 1..m
    BY <1>1
  <2> HIDE DEF q, m
  <2> QED BY <1>0, <2>1
<1>4. \A i \in 1..m : q[i] = TurnMsg(past[i].role, TRUE)
  OBVIOUS
<1> HIDE DEF q, u
<1>5. /\ new \in Seq(TurnMsgs) /\ Len(new) = m + 1 /\ new[m + 1] = u
      /\ \A i \in 1..m : new[i] = q[i]
  BY <1>0, <1>2, <1>3, AppendProperties
<1> HIDE DEF new
<1>6. ASSUME NEW i \in 1..m PROVE new[i].role # new[i + 1].role \/ new[i + 1].plain
  <2>0. \A j \in 1..m : new[j].role = past[j].role
    <3> TAKE j \in 1..m
    <3>1. new[j] = TurnMsg(past[j].role, TRUE)
      BY <1>4, <1>5
    <3>2. TurnMsg(past[j].role, TRUE).role = past[j].role
      BY DEF TurnMsg
    <3> QED BY <3>1, <3>2
  <2>1. new[i].role = past[i].role
    BY <2>0
  <2>2. CASE i = m
    <3>1. past # <<>> /\ Last(past).role = past[i].role
      BY <1>0, <2>2 DEF Last
    <3>2. new[i + 1] = u
      BY <1>5, <2>2
    <3> QED BY <1>2, <2>1, <3>1, <3>2
  <2>3. CASE i # m
    <3>1. i + 1 \in 1..m /\ i \in 1..Len(past) - 1
      BY <1>0, <2>3
    <3>2. new[i + 1].role = past[i + 1].role
      BY <2>0, <3>1
    <3> QED BY <2>1, <3>1, <3>2 DEF Turns
  <2> QED BY <2>2, <2>3
<1>7. Mergeable(new)
  BY <1>0, <1>5, <1>6 DEF Mergeable
<1>8. Askable(new)
  BY <1>0, <1>2, <1>5, <1>7 DEF Askable, Last
<1> QED BY <1>8 DEF new, q, u

\* A message after it, or a tool call and its results, leave it so.
LEMMA MoreIsAskable ==
  ASSUME NEW ms, Askable(ms)
  PROVE  /\ Askable(Append(ms, TurnMsg("user", TRUE)))
         /\ Askable(ms \o <<TurnMsg("assistant", FALSE), TurnMsg("user", FALSE)>>)
<1> DEFINE m == Len(ms)
           u == TurnMsg("user", TRUE)
           x == TurnMsg("assistant", FALSE)
           y == TurnMsg("user", FALSE)
           one == Append(ms, u)
           two == ms \o <<x, y>>
<1>0. /\ m \in Nat /\ m >= 1 /\ ms \in Seq(TurnMsgs) /\ ms[m].role = "user" /\ Mergeable(ms)
      /\ \A i \in 1..m : ms[i] \in TurnMsgs
  BY DEF Askable, Last
<1>1. /\ {u, x, y} \subseteq TurnMsgs /\ u.plain = TRUE /\ u.role = "user"
      /\ x.role = "assistant" /\ y.role = "user"
  BY DEF TurnMsg, TurnMsgs, Roles
<1> HIDE DEF u, x, y
<1>2. Askable(one)
  <2>1. /\ one \in Seq(TurnMsgs) /\ Len(one) = m + 1 /\ one[m + 1] = u
        /\ \A i \in 1..m : one[i] = ms[i]
    BY <1>0, <1>1, AppendProperties
  <2> HIDE DEF one
  <2>2. ASSUME NEW i \in 1..m PROVE one[i].role # one[i + 1].role \/ one[i + 1].plain
    <3>1. CASE i = m
      BY <1>1, <2>1, <3>1
    <3>2. CASE i # m
      <4>1. i + 1 \in 1..m /\ i \in 1..Len(ms) - 1
        BY <1>0, <3>2
      <4> QED BY <1>0, <2>1, <4>1 DEF Mergeable
    <3> QED BY <3>1, <3>2
  <2>3. Mergeable(one)
    BY <1>0, <2>1, <2>2 DEF Mergeable
  <2> QED BY <1>0, <1>1, <2>1, <2>3 DEF Askable, Last
<1>3. Askable(two)
  <2>0. <<x, y>> \in Seq(TurnMsgs) /\ Len(<<x, y>>) = 2 /\ <<x, y>>[1] = x /\ <<x, y>>[2] = y
    BY <1>1
  <2>1. /\ two \in Seq(TurnMsgs) /\ Len(two) = m + 2
        /\ \A i \in 1..m : two[i] = ms[i]
        /\ two[m + 1] = x /\ two[m + 2] = y
    BY <1>0, <2>0, ConcatProperties
  <2> HIDE DEF two
  <2>2. ASSUME NEW i \in 1..(m + 1) PROVE two[i].role # two[i + 1].role \/ two[i + 1].plain
    <3>1. CASE i = m
      BY <1>0, <1>1, <2>1, <3>1
    <3>2. CASE i = m + 1
      <4>1. i + 1 = m + 2
        BY <1>0, <3>2
      <4> QED BY <1>1, <2>1, <3>2, <4>1
    <3>3. CASE i # m /\ i # m + 1
      <4>1. i \in 1..m /\ i + 1 \in 1..m /\ i \in 1..Len(ms) - 1
        BY <1>0, <3>3
      <4> QED BY <1>0, <2>1, <4>1 DEF Mergeable
    <3> QED BY <3>1, <3>2, <3>3
  <2>3. Mergeable(two)
    BY <1>0, <2>1, <2>2 DEF Mergeable
  <2>4. two # <<>> /\ Last(two) = y
    BY <1>0, <2>1 DEF Last
  <2> QED BY <1>1, <2>1, <2>3, <2>4 DEF Askable
<1> QED BY <1>2, <1>3 DEF one, two, u, x, y

\* What is sent of messages that can be asked is what the provider takes.
LEMMA SentIsValid ==
  ASSUME NEW ms, Askable(ms)
  PROVE  LET out == Led(Merged(ms)) IN
           /\ out \in Seq(TurnMsgs) /\ out # <<>> /\ out[1].role = "user" /\ Last(out).role = "user"
           /\ \A i \in 1..Len(out) - 1 : out[i].role # out[i + 1].role \/ ~out[i].plain
<1> DEFINE g == Merged(ms)
           u == TurnMsg("user", TRUE)
           out == <<u>> \o g
           n == Len(g)
<1>1. g \in Seq(TurnMsgs) /\ g # <<>> /\ Last(g).role = "user" /\ Alternate(g)
  BY MergedIsFine DEF Askable
<1>2. u \in TurnMsgs /\ u.role = "user"
  BY DEF TurnMsg, TurnMsgs, Roles
<1> HIDE DEF g, u
<1>3. n \in Nat /\ n >= 1 /\ g[n].role = "user" /\ Head(g) = g[1] /\ \A i \in 1..n : g[i] \in TurnMsgs
  BY <1>1 DEF Last
<1>4. CASE Head(g).role = "user"
  <2>1. Led(g) = g
    BY <1>1, <1>4 DEF Led
  <2> QED BY <1>1, <1>3, <1>4, <2>1 DEF Alternate, g
<1>5. CASE Head(g).role # "user"
  <2>1. Led(g) = out
    BY <1>5 DEF Led, u
  <2>0. <<u>> \in Seq(TurnMsgs) /\ Len(<<u>>) = 1 /\ <<u>>[1] = u
    BY <1>2
  <2>2. out \in Seq(TurnMsgs) /\ Len(out) = n + 1 /\ out[1] = u /\ \A i \in 1..n : out[i + 1] = g[i]
    BY <1>1, <1>3, <2>0, ConcatProperties
  <2> HIDE DEF out
  <2>3. ASSUME NEW i \in 1..Len(out) - 1 PROVE out[i].role # out[i + 1].role \/ ~out[i].plain
    <3>1. CASE i = 1
      BY <1>2, <1>3, <1>5, <2>2, <3>1
    <3>2. CASE i # 1
      <4> DEFINE j == i - 1
      <4>1. j \in 1..n /\ j + 1 \in 1..n /\ i = j + 1 /\ i + 1 = (j + 1) + 1 /\ j \in 1..Len(g) - 1
        BY <1>3, <2>2, <3>2
      <4> HIDE DEF j
      <4>2. out[i] = g[j] /\ out[i + 1] = g[j + 1]
        BY <2>2, <4>1
      <4> QED BY <1>1, <4>1, <4>2 DEF Alternate
    <3> QED BY <3>1, <3>2
  <2>4. out # <<>> /\ Last(out) = g[n]
    BY <1>3, <2>2 DEF Last
  <2> QED BY <1>2, <1>3, <2>1, <2>2, <2>3, <2>4 DEF g
<1> QED BY <1>4, <1>5

-----------------------------------------------------------------------------
LEMMA RequestStart == CallInit => RequestInv
<1> SUFFICES ASSUME CallInit PROVE RequestInv
  OBVIOUS
<1>1. <<>> \in Seq(PastMsgs) /\ <<>> \in Seq(TurnMsgs)
  BY EmptySeq
<1>2. Rest \in TurnStates /\ Rest.step = "idle" /\ Rest.blocks.mark <= Rest.blocks.stable
  BY <1>1 DEF Rest, TurnStates, BlockSets, NoBlocks
<1>3. Turns(<<>>)
  BY DEF Turns
<1>4. /\ NoRequest \in [blocks : BlockSets, messages : Seq(TurnMsgs), live : BOOLEAN]
      /\ NoRequest.messages = <<>>
  BY <1>1 DEF NoRequest, NoBlocks, BlockSets
<1> QED BY <1>1, <1>2, <1>3, <1>4 DEF CallInit, RequestInv, RequestsAreValid

\* A turn that moves on with messages that can be asked, and the request as it was.
LEMMA TurnMoves ==
  ASSUME RequestInv, NEW a \in Caller, NEW t \in TurnStates,
         t.step # "idle" => Askable(t.base) /\ Askable(t.messages),
         t.blocks.mark <= t.blocks.stable,
         turn' = [turn EXCEPT ![a] = t], mode' = mode, history' = history, enabled' = enabled,
         rejected' \in BOOLEAN, pinged' \in BOOLEAN, request' = request
  PROVE  RequestInv'
<1>1. turn' \in [Caller -> TurnStates]
  BY DEF RequestInv
<1>2. \A b \in Caller : turn'[b] = IF b = a THEN t ELSE turn[b]
  BY DEF RequestInv
<1>3. \A b \in Caller : /\ turn'[b].step # "idle" => Askable(turn'[b].base) /\ Askable(turn'[b].messages)
                        /\ turn'[b].blocks.mark <= turn'[b].blocks.stable
  <2> TAKE b \in Caller
  <2> HIDE DEF TurnStates
  <2> QED BY <1>2 DEF RequestInv
<1> QED BY <1>1, <1>3 DEF RequestInv, RequestsAreValid

LEMMA RequestStep == RequestInv /\ [CallNext]_callVars => RequestInv'
<1> SUFFICES ASSUME RequestInv, [CallNext]_callVars PROVE RequestInv'
  OBVIOUS
<1>t. ASSUME NEW a \in Caller
      PROVE  /\ turn[a] \in TurnStates /\ turn[a] = [step |-> turn[a].step, blocks |-> turn[a].blocks,
                   base |-> turn[a].base, messages |-> turn[a].messages, rounds |-> turn[a].rounds]
             /\ turn[a].blocks \in BlockSets
             /\ turn[a].base \in Seq(TurnMsgs) /\ turn[a].messages \in Seq(TurnMsgs)
             /\ turn[a].rounds \in Nat /\ turn[a].blocks.mark <= turn[a].blocks.stable
             /\ turn[a].step # "idle" => Askable(turn[a].base) /\ Askable(turn[a].messages)
  <2>1. turn[a] \in TurnStates
    BY DEF RequestInv
  <2>2. /\ turn[a].blocks.mark <= turn[a].blocks.stable
        /\ turn[a].step # "idle" => Askable(turn[a].base) /\ Askable(turn[a].messages)
    BY DEF RequestInv
  <2> QED BY <2>1, <2>2 DEF TurnStates
<1>r. /\ Rest \in TurnStates /\ Rest.step = "idle" /\ Rest.blocks.mark <= Rest.blocks.stable
  <2>1. <<>> \in Seq(TurnMsgs)
    BY EmptySeq
  <2> QED BY <2>1 DEF Rest, TurnStates, BlockSets, NoBlocks
<1>s. ASSUME NEW a \in Caller, NEW to \in {"call", "wait", "retry"}, turn[a].step # "idle"
      PROVE  /\ [turn[a] EXCEPT !.step = to] \in TurnStates
             /\ [turn[a] EXCEPT !.step = to].base = turn[a].base
             /\ [turn[a] EXCEPT !.step = to].messages = turn[a].messages
             /\ [turn[a] EXCEPT !.step = to].blocks = turn[a].blocks
  BY <1>t DEF TurnStates
<1>1. ASSUME NEW a \in Caller, Reflex(a) PROVE RequestInv'
  <2>1. /\ NoRequest \in [blocks : BlockSets, messages : Seq(TurnMsgs), live : BOOLEAN]
        /\ NoRequest.messages = <<>>
    <3>1. <<>> \in Seq(TurnMsgs)
      BY EmptySeq
    <3> QED BY <3>1 DEF NoRequest, NoBlocks, BlockSets
  <2>2. \A b \in Caller : request'[b] = IF b = a THEN NoRequest ELSE request[b]
    BY <1>1 DEF Reflex, RequestInv
  <2>3. RequestsAreValid'
    BY <2>1, <2>2 DEF RequestInv, RequestsAreValid
  <2> QED BY <1>1, <2>1, <2>3 DEF Reflex, RequestInv
<1>2. ASSUME NEW a \in Caller, NEW d \in 0..1, NEW p \in BOOLEAN, Assemble(a, d, p) PROVE RequestInv'
  <2> DEFINE past == Truncated(LastFew(history, HistoryLimit))
             base == Append([i \in 1..Len(past) |-> TurnMsg(past[i].role, TRUE)], TurnMsg("user", p))
             t == [step |-> "call", rounds |-> 0, blocks |-> Blocks(d), base |-> base, messages |-> base]
  <2>1. /\ LastFew(history, HistoryLimit) \in Seq(PastMsgs) /\ Turns(LastFew(history, HistoryLimit))
        /\ LastFew(history, HistoryLimit) # <<>> =>
             history # <<>> /\ Last(LastFew(history, HistoryLimit)) = Last(history)
    <3>1. HistoryLimit \in Nat /\ history \in Seq(PastMsgs) /\ Turns(history)
      BY ModelCallAssumption DEF RequestInv
    <3> QED BY <3>1, LastFewIs
  <2>2. /\ past \in Seq(PastMsgs) /\ Turns(past)
        /\ past # <<>> => /\ LastFew(history, HistoryLimit) # <<>>
                          /\ Last(past) = Last(LastFew(history, HistoryLimit))
    BY <2>1, TruncatedIs
  <2>3. past # <<>> => Last(past).role = "assistant"
    BY <2>1, <2>2 DEF RequestInv
  <2> HIDE DEF past
  <2>4. Askable(base)
    BY <2>2, <2>3, BaseIsAskable
  <2>5. turn' = [turn EXCEPT ![a] = t]
    BY <1>2 DEF Assemble, past
  <2> HIDE DEF base
  <2>6. Blocks(d) \in BlockSets /\ Blocks(d).mark <= Blocks(d).stable
    BY DEF Blocks, BlockSets, RequestInv
  <2>7. t \in TurnStates
    BY <2>4, <2>6 DEF TurnStates, Askable
  <2> QED BY <1>2, <2>4, <2>5, <2>6, <2>7, TurnMoves DEF Assemble, RequestInv
<1>3. ASSUME NEW a \in Caller, Send(a) PROVE RequestInv'
  <2> DEFINE t == [turn[a] EXCEPT !.step = "wait"]
             sends == Led(Merged(turn[a].messages))
             r == [blocks |-> Validated(turn[a].blocks), messages |-> sends, live |-> enabled /\ ~rejected]
  <2>1. turn[a].step = "call" /\ turn' = [turn EXCEPT ![a] = t] /\ request' = [request EXCEPT ![a] = r]
        /\ UNCHANGED <<mode, history, enabled, rejected, pinged>>
    BY <1>3 DEF Send
  <2>2. /\ sends \in Seq(TurnMsgs) /\ sends # <<>> /\ sends[1].role = "user" /\ Last(sends).role = "user"
        /\ \A i \in 1..Len(sends) - 1 : sends[i].role # sends[i + 1].role \/ ~sends[i].plain
    BY <1>t, <2>1, SentIsValid
  <2> HIDE DEF sends
  <2>3. r.blocks.mark # 0 => r.live
    <3>1. Validated(turn[a].blocks).mark # 0 => enabled /\ ~rejected
      <4>1. [turn[a].blocks EXCEPT !.mark = 0].mark = 0
        BY <1>t DEF BlockSets
      <4> QED BY <4>1 DEF Validated
    <3> QED BY <3>1
  <2>4. r.messages = sends /\ r \in [blocks : BlockSets, messages : Seq(TurnMsgs), live : BOOLEAN]
    <3>1. Validated(turn[a].blocks) \in BlockSets
      <4>1. \A b \in BlockSets : Validated(b) \in BlockSets
        BY DEF Validated, BlockSets
      <4> QED BY <1>t, <4>1
    <3>2. enabled \in BOOLEAN /\ rejected \in BOOLEAN
      BY DEF RequestInv
    <3> QED BY <2>2, <3>1, <3>2
  <2> HIDE DEF r
  <2>5. /\ request' \in [Caller -> [blocks : BlockSets, messages : Seq(TurnMsgs), live : BOOLEAN]]
        /\ \A b \in Caller : request'[b] = IF b = a THEN r ELSE request[b]
    BY <2>1, <2>4 DEF RequestInv
  <2>6. RequestsAreValid'
    <3>1. RequestsAreValid /\ \A b \in Caller : request'[b] = IF b = a THEN r ELSE request[b]
      BY <2>5 DEF RequestInv
    <3>2. r.messages = sends
      BY <2>4
    <3> QED BY <2>2, <2>3, <3>1, <3>2 DEF RequestsAreValid
  <2>7. turn' \in [Caller -> TurnStates] /\ \A b \in Caller : turn'[b] = IF b = a THEN t ELSE turn[b]
    BY <1>s, <2>1 DEF RequestInv
  <2>8. /\ Askable(t.base) /\ Askable(t.messages) /\ t.blocks.mark <= t.blocks.stable
    BY <1>s, <1>t, <2>1
  <2> HIDE DEF t
  <2>9. \A b \in Caller : /\ turn'[b].step # "idle" => Askable(turn'[b].base) /\ Askable(turn'[b].messages)
                          /\ turn'[b].blocks.mark <= turn'[b].blocks.stable
    BY <2>7, <2>8 DEF RequestInv
  <2> QED BY <2>1, <2>5, <2>6, <2>7, <2>9 DEF RequestInv
<1>4. ASSUME NEW a \in Caller, MarkerRefused(a) PROVE RequestInv'
  <2>1. /\ turn[a].step = "wait" /\ turn' = [turn EXCEPT ![a] = [turn[a] EXCEPT !.step = "retry"]]
        /\ rejected' = TRUE /\ UNCHANGED <<mode, history, enabled, pinged, request>>
    BY <1>4 DEF MarkerRefused
  <2> QED BY <1>s, <1>t, <2>1, TurnMoves DEF RequestInv
<1>5. ASSUME NEW a \in Caller, Retry(a) PROVE RequestInv'
  <2> DEFINE t == [turn[a] EXCEPT !.step = "wait"]
             r == [request[a] EXCEPT !.blocks.mark = 0, !.live = FALSE]
  <2>1. turn[a].step = "retry" /\ turn' = [turn EXCEPT ![a] = t]
        /\ UNCHANGED <<mode, history, enabled, rejected, pinged>>
        /\ request' = [request EXCEPT ![a].blocks.mark = 0, ![a].live = FALSE]
    BY <1>5 DEF Retry
  <2>2. /\ request[a] \in [blocks : BlockSets, messages : Seq(TurnMsgs), live : BOOLEAN]
        /\ request[a].blocks \in BlockSets
    BY DEF RequestInv
  <2>3. r \in [blocks : BlockSets, messages : Seq(TurnMsgs), live : BOOLEAN]
        /\ r.messages = request[a].messages /\ r.blocks.mark = 0
    <3> DEFINE x == request[a]
               b == [x.blocks EXCEPT !.mark = 0]
               z == [x EXCEPT !.blocks = b, !.live = FALSE]
    <3>1. b \in BlockSets /\ b.mark = 0
      BY <2>2 DEF BlockSets
    <3>2. r = z
      OBVIOUS
    <3> HIDE DEF b
    <3>3. x \in [blocks : BlockSets, messages : Seq(TurnMsgs), live : BOOLEAN]
      BY <2>2
    <3> HIDE DEF x
    <3>4. z \in [blocks : BlockSets, messages : Seq(TurnMsgs), live : BOOLEAN]
      BY <3>1, <3>3
    <3>5. z.messages = x.messages /\ z.blocks = b
      BY <3>3
    <3> HIDE DEF z, r
    <3> QED BY <3>1, <3>2, <3>4, <3>5 DEF x
  <2>4. request' = [request EXCEPT ![a] = r]
    BY <2>1
  <2> HIDE DEF r
  <2>5. /\ request' \in [Caller -> [blocks : BlockSets, messages : Seq(TurnMsgs), live : BOOLEAN]]
        /\ \A b \in Caller : request'[b] = IF b = a THEN r ELSE request[b]
    BY <2>3, <2>4 DEF RequestInv
  <2>6. RequestsAreValid'
    <3>1. RequestsAreValid /\ \A b \in Caller : request'[b] = IF b = a THEN r ELSE request[b]
      BY <2>5 DEF RequestInv
    <3>2. r.messages = request[a].messages /\ r.blocks.mark = 0
      BY <2>3
    <3> QED BY <3>1, <3>2 DEF RequestsAreValid
  <2>7. turn' \in [Caller -> TurnStates] /\ \A b \in Caller : turn'[b] = IF b = a THEN t ELSE turn[b]
    BY <1>s, <2>1 DEF RequestInv
  <2>8. /\ Askable(t.base) /\ Askable(t.messages) /\ t.blocks.mark <= t.blocks.stable
    BY <1>s, <1>t, <2>1
  <2> HIDE DEF t
  <2>9. \A b \in Caller : /\ turn'[b].step # "idle" => Askable(turn'[b].base) /\ Askable(turn'[b].messages)
                          /\ turn'[b].blocks.mark <= turn'[b].blocks.stable
    BY <2>7, <2>8 DEF RequestInv
  <2> QED BY <2>1, <2>5, <2>6, <2>7, <2>9 DEF RequestInv
<1>6. ASSUME NEW a \in Caller, ToolRound(a) \/ Reasked(a) PROVE RequestInv'
  <2> DEFINE added == <<TurnMsg("assistant", FALSE), TurnMsg("user", FALSE)>>
             goes(ms) == turn' = [turn EXCEPT ![a] = [turn[a] EXCEPT !.step = "call", !.rounds = @ + 1,
                                                                    !.messages = ms]]
  <2>a. turn[a].step = "wait" /\ UNCHANGED <<mode, history, enabled, rejected, pinged, request>>
    BY <1>6 DEF ToolRound, Reasked
  <2>b. \E ms \in {turn[a].messages \o added, Append(turn[a].base, TurnMsg("user", TRUE))} : goes(ms)
    <3>1. CASE ToolRound(a)
      <4>1. goes(turn[a].messages \o added)
        BY <3>1 DEF ToolRound
      <4> QED BY <4>1
    <3>2. CASE Reasked(a)
      <4>1. goes(Append(turn[a].base, TurnMsg("user", TRUE)))
        BY <3>2 DEF Reasked
      <4> QED BY <4>1
    <3> QED BY <1>6, <3>1, <3>2
  <2>1. PICK ms : /\ ms \in {turn[a].messages \o added, Append(turn[a].base, TurnMsg("user", TRUE))}
                  /\ goes(ms) /\ turn[a].step = "wait"
                  /\ UNCHANGED <<mode, history, enabled, rejected, pinged, request>>
    BY <2>a, <2>b, Zenon
  <2> DEFINE t == [turn[a] EXCEPT !.step = "call", !.rounds = @ + 1, !.messages = ms]
  <2>2. Askable(ms)
    BY <1>t, <2>1, MoreIsAskable
  <2>3. t \in TurnStates /\ t.base = turn[a].base /\ t.messages = ms /\ t.blocks = turn[a].blocks
    <3>0. turn[a].rounds \in Nat
      BY <1>t
    <3>1. ms \in Seq(TurnMsgs) /\ turn[a].rounds + 1 \in Nat
      BY <2>2, <3>0 DEF Askable
    <3> QED BY <1>t, <3>1 DEF TurnStates
  <2>4. turn' = [turn EXCEPT ![a] = t]
    BY <2>1
  <2> HIDE DEF t
  <2> QED BY <1>t, <2>1, <2>2, <2>3, <2>4, TurnMoves DEF RequestInv
<1>7. ASSUME NEW a \in Caller, CallAnswered(a) PROVE RequestInv'
  <2>1. PICK k, n \in 1..2 : history' = history \o <<[role |-> "user", size |-> k],
                                                    [role |-> "assistant", size |-> n]>>
    BY <1>7 DEF CallAnswered
  <2> DEFINE m == Len(history)
             x == [role |-> "user", size |-> k]
             y == [role |-> "assistant", size |-> n]
  <2>2. x \in PastMsgs /\ y \in PastMsgs /\ x.role = "user" /\ y.role = "assistant"
    BY DEF PastMsgs, Roles
  <2> HIDE DEF x, y
  <2>3. /\ m \in Nat /\ history \in Seq(PastMsgs) /\ \A i \in 1..m : history[i] \in PastMsgs
    BY DEF RequestInv
  <2>4. <<x, y>> \in Seq(PastMsgs) /\ Len(<<x, y>>) = 2 /\ <<x, y>>[1] = x /\ <<x, y>>[2] = y
    BY <2>2
  <2>5. /\ history' \in Seq(PastMsgs) /\ Len(history') = m + 2 /\ history'[m + 1] = x
        /\ history'[m + 2] = y /\ \A i \in 1..m : history'[i] = history[i]
    <3>1. history' = history \o <<x, y>>
      BY <2>1 DEF x, y
    <3> QED BY <2>3, <2>4, <3>1, ConcatProperties
  <2>6. ASSUME NEW i \in 1..(m + 1) PROVE history'[i].role # history'[i + 1].role
    <3>1. CASE i = m
      <4>1. history # <<>> /\ Last(history) = history[m] /\ i \in 1..m
        BY <2>3, <2>6, <3>1 DEF Last
      <4> QED BY <2>2, <2>5, <3>1, <4>1 DEF RequestInv
    <3>2. CASE i = m + 1
      <4>1. i + 1 = m + 2
        BY <2>3, <3>2
      <4> QED BY <2>2, <2>5, <3>2, <4>1
    <3>3. CASE i # m /\ i # m + 1
      <4>1. i \in 1..m /\ i + 1 \in 1..m /\ i \in 1..Len(history) - 1
        BY <2>3, <3>3
      <4> QED BY <2>5, <4>1 DEF RequestInv, Turns
    <3> QED BY <3>1, <3>2, <3>3
  <2>7. Turns(history)' /\ Last(history').role = "assistant"
    BY <2>2, <2>3, <2>5, <2>6 DEF Turns, Last
  <2>8. turn' \in [Caller -> TurnStates] /\ \A b \in Caller : turn'[b] = IF b = a THEN Rest ELSE turn[b]
    BY <1>7, <1>r DEF RequestInv, CallAnswered
  <2>9. \A b \in Caller : /\ turn'[b].step # "idle" => Askable(turn'[b].base) /\ Askable(turn'[b].messages)
                          /\ turn'[b].blocks.mark <= turn'[b].blocks.stable
    BY <1>r, <2>8 DEF RequestInv
  <2>10. UNCHANGED <<mode, enabled, rejected, pinged, request>>
    BY <1>7 DEF CallAnswered
  <2> QED BY <2>5, <2>7, <2>8, <2>9, <2>10 DEF RequestInv, RequestsAreValid
<1>8. ASSUME NEW a \in Caller, NEW c \in BOOLEAN, CallFails(a, c) PROVE RequestInv'
  <2>1. /\ turn' = [turn EXCEPT ![a] = Rest] /\ pinged' \in BOOLEAN
        /\ UNCHANGED <<mode, history, enabled, rejected, request>>
    BY <1>8 DEF CallFails
  <2> QED BY <1>r, <2>1, TurnMoves DEF RequestInv
<1>9. CASE CooldownEnds \/ SwitchFlips
  BY <1>9 DEF CooldownEnds, SwitchFlips, RequestInv, RequestsAreValid
<1>10. CASE UNCHANGED callVars
  BY <1>10 DEF callVars, RequestInv, RequestsAreValid
<1> QED BY <1>1, <1>2, <1>3, <1>4, <1>5, <1>6, <1>7, <1>8, <1>9, <1>10 DEF CallNext

\* For any number of agents whose turns run at once, any history limit and budget
\* and any number of tool rounds: every request is one the provider takes.
THEOREM RequestsStayValid == CallSpec => []RequestsAreValid
<1>1. RequestInv => RequestsAreValid
  BY DEF RequestInv
<1> QED BY <1>1, RequestStart, RequestStep, PTL DEF CallSpec


-----------------------------------------------------------------------------
(* The evidence of the gates *)

\* The rows' numbers are no more than the rows.
LEMMA CallsCount ==
  ASSUME GatesTypeOK PROVE IsFiniteSet(Calls) /\ Cardinality(Calls) \in 0..Len(log)
<1> DEFINE number == [i \in 1..Len(log) |-> log[i].id]
           Numbers == {log[i].id : i \in 1..Len(log)}
<1>1. Len(log) \in Nat /\ DOMAIN log = 1..Len(log)
  BY DEF GatesTypeOK
<1>2. number \in Surjection(1..Len(log), Numbers)
  BY DEF Surjection
<1>3. IsFiniteSet(1..Len(log)) /\ Cardinality(1..Len(log)) = Len(log)
  <2> HIDE DEF number, Numbers
  <2>1. /\ IsFiniteSet(1..Len(log))
        /\ Cardinality(1..Len(log)) = IF 1 > Len(log) THEN 0 ELSE Len(log) - 1 + 1
    BY <1>1, FS_Interval
  <2> QED BY <1>1, <2>1
<1>4. IsFiniteSet(Numbers) /\ Cardinality(Numbers) <= Len(log)
  <2> HIDE DEF number, Numbers
  <2>1. IsFiniteSet(Numbers) /\ Cardinality(Numbers) <= Cardinality(1..Len(log))
    BY <1>2, <1>3, FS_Surjection, Zenon
  <2> QED BY <1>3, <2>1
<1>5. Calls \subseteq Numbers
  BY <1>1 DEF Calls, ToSet
<1> HIDE DEF Numbers
<1>6. IsFiniteSet(Calls) /\ Cardinality(Calls) <= Cardinality(Numbers)
  BY <1>4, <1>5, FS_Subset
<1>7. Cardinality(Calls) \in Nat /\ Cardinality(Numbers) \in Nat
  BY <1>4, <1>6, FS_CardinalityType
<1> QED BY <1>1, <1>4, <1>6, <1>7

\* A call that a result is paired with came before it, was of its tool, and was
\* not taken.
LEMMA CallOfIs ==
  ASSUME GatesTypeOK, NEW i \in 1..Len(log), NEW taken, CallOf(log[i], i, taken) # 0
  PROVE  /\ CallOf(log[i], i, taken) \in 1..(i - 1)
         /\ CallOf(log[i], i, taken) \notin taken
         /\ log[CallOf(log[i], i, taken)].tool = log[i].tool
<1> DEFINE open == {j \in 1..i - 1 : IsCall(log[j]) /\ log[j].tool = log[i].tool /\ j \notin taken}
           same == {j \in open : ~log[i].cut /\ RowId(log[j]) = RowId(log[i])}
           near == {j \in open : log[i].cut \/ log[j].cut}
<1>1. i \in Nat /\ same \in SUBSET (0..i) /\ near \in SUBSET (0..i)
  <2>1. i \in Nat
    BY DEF GatesTypeOK
  <2> QED BY <2>1
<1>2. CallOf(log[i], i, taken) = IF same # {} THEN Max(same) ELSE IF near # {} THEN Max(near) ELSE 0
  BY DEF CallOf
<1>3. CallOf(log[i], i, taken) \in open
  <2> HIDE DEF same, near
  <2>1. CASE same # {}
    <3>1. Max(same) \in same
      BY <1>1, <2>1, MaxIs
    <3> QED BY <1>2, <2>1, <3>1 DEF same
  <2>2. CASE same = {} /\ near # {}
    <3>1. Max(near) \in near
      BY <1>1, <2>2, MaxIs
    <3> QED BY <1>2, <2>2, <3>1 DEF near
  <2> QED BY <1>2, <2>1, <2>2
<1> HIDE DEF same, near
<1> QED BY <1>3

\* A pair is a call and a later result of the same tool, both after the time asked for.
PairsOf(after) ==
  {p \in (after + 1..Len(log)) \X (after + 1..Len(log)) : log[p[1]].tool = log[p[2]].tool}

LEMMA PairsAre ==
  ASSUME GatesTypeOK, NEW after \in 0..Len(log) PROVE Pairs(after) \subseteq PairsOf(after)
<1> DEFINE newest == [k \in 1..Len(log) - after |-> Len(log) + 1 - k]
           Late == after + 1..Len(log)
           S == SUBSET PairsOf(after)
           caller(ps, i) == CallOf(log[i], i, {p[1] : p \in ps} \cup 1..after)
           Took(ps, i) == IF IsCall(log[i]) \/ caller(ps, i) = 0 THEN ps
                          ELSE ps \cup {<<caller(ps, i), i>>}
           F == [x \in S \X Late |-> Took(x[1], x[2])]
           Value(h, s) == IF s = {} THEN {} ELSE Took(h[s \ {Max(s)}], newest[Max(s)])
           Run(h) == h = [s \in SUBSET (DOMAIN newest) |-> Value(h, s)]
           it == CHOOSE h : Run(h)
           m == Len(log) - after
<1>0. Len(log) \in Nat /\ after \in Nat /\ m \in Nat /\ Late \subseteq 1..Len(log)
  <2>1. Len(log) \in Nat
    BY DEF GatesTypeOK
  <2> QED BY <2>1
<1>1. newest \in Seq(Late) /\ Len(newest) = m /\ DOMAIN newest = 1..m /\ \A k \in 1..m : newest[k] \in Late
  <2>1. newest \in [1..m -> Late]
    BY <1>0
  <2> HIDE DEF newest, Late
  <2>2. newest \in Seq(Late)
    BY <1>0, <2>1
  <2>3. Len(newest) \in Nat /\ DOMAIN newest = 1..Len(newest)
    BY <2>2
  <2>4. Len(newest) = m
    BY <1>0, <2>1, <2>3
  <2> QED BY <2>1, <2>2, <2>4
<1>2. {} \in S
  OBVIOUS
<1>3. ASSUME NEW ps \in S, NEW i \in Late PROVE Took(ps, i) \in S
  <2>1. CASE IsCall(log[i]) \/ caller(ps, i) = 0
    BY <2>1
  <2>2. CASE ~IsCall(log[i]) /\ caller(ps, i) # 0
    <3>1. i \in 1..Len(log)
      BY <1>0
    <3>2. /\ caller(ps, i) \in 1..(i - 1)
          /\ caller(ps, i) \notin {p[1] : p \in ps} \cup 1..after
          /\ log[caller(ps, i)].tool = log[i].tool
      BY <2>2, <3>1, CallOfIs
    <3>3. <<caller(ps, i), i>> \in PairsOf(after)
      <4> HIDE DEF caller
      <4>1. caller(ps, i) \in after + 1..Len(log)
        BY <1>0, <3>2
      <4> QED BY <3>2, <4>1 DEF PairsOf
    <3> HIDE DEF caller
    <3> QED BY <2>2, <3>3
  <2> QED BY <2>1, <2>2
<1>4. F \in [S \X Late -> S]
  <2> HIDE DEF S, Late, Took
  <2> QED BY <1>3
<1>5. PICK h \in [SUBSET (1..m) -> S] : Folds(newest, {}, F, h)
  <2> HIDE DEF F, S, Late, newest
  <2> QED BY <1>1, <1>2, <1>4, FoldRuns
<1>6. Run(h)
  <2> HIDE DEF S, Late, Took, newest, m
  <2>1. h = [s \in SUBSET (1..m) |-> IF s = {} THEN {} ELSE F[<<h[s \ {Max(s)}], newest[Max(s)]>>]]
    BY <1>1, <1>5 DEF Folds
  <2>2. ASSUME NEW s \in SUBSET (1..m), s # {}
        PROVE  F[<<h[s \ {Max(s)}], newest[Max(s)]>>] = Took(h[s \ {Max(s)}], newest[Max(s)])
    <3>1. Max(s) \in 1..m
      <4>1. s \in SUBSET (0..m)
        BY <1>0
      <4> QED BY <1>0, <2>2, <4>1, MaxIs
    <3>2. h[s \ {Max(s)}] \in S /\ newest[Max(s)] \in Late
      BY <1>1, <1>5, <3>1
    <3> QED BY <3>2
  <2> HIDE DEF F
  <2> QED BY <1>1, <2>1, <2>2
<1>7. Run(it)
  <2> HIDE DEF Run
  <2> QED BY <1>6
<1>8. \A s \in SUBSET (1..m) : it[s] = Value(it, s)
  <2> HIDE DEF it, Value, m, newest
  <2> QED BY <1>1, <1>7
<1>9. Pairs(after) = it[1..m]
  <2>1. DOMAIN newest = 1..m
    BY <1>1
  <2>2. Pairs(after) = it[DOMAIN newest]
    BY DEF Pairs, FoldLeft, MapThenFoldSet
  <2> QED BY <2>1, <2>2
<1> HIDE DEF it, newest, S, Late, Took
<1> DEFINE Good == {n \in Nat : n <= m => it[1..n] \in S}
<1>10. 0 \in Good
  <2>1. 1..0 = {} /\ {} \in SUBSET (1..m)
    BY <1>0
  <2> QED BY <1>2, <1>8, <2>1
<1>11. ASSUME NEW n \in Good PROVE n + 1 \in Good
  <2> SUFFICES ASSUME n + 1 <= m PROVE it[1..(n + 1)] \in S
    BY <1>0
  <2>1. n \in Nat /\ n + 1 \in 1..(n + 1) /\ n + 1 \in 1..m /\ it[1..n] \in S
    BY <1>0
  <2>2. 1..(n + 1) \in SUBSET (1..m) /\ 1..(n + 1) # {}
    <3> HIDE DEF m, Good
    <3>1. 1..(n + 1) \subseteq 1..m
      BY <1>0, <2>1
    <3> QED BY <2>1, <3>1
  <2>3. Max(1..(n + 1)) = n + 1 /\ (1..(n + 1)) \ {n + 1} = 1..n
    BY <2>1, MaxOfPrefix
  <2>4. it[1..(n + 1)] = Took(it[1..n], newest[n + 1])
    <3> HIDE DEF m
    <3> QED BY <1>8, <2>2, <2>3
  <2> QED BY <1>1, <1>3, <2>1, <2>4
<1>12. \A n \in Nat : n \in Good
  <2> HIDE DEF Good
  <2>1. Good \in SUBSET Nat
    BY DEF Good
  <2> QED BY <1>10, <1>11, <2>1, EveryNumber
<1>13. it[1..m] \in S
  BY <1>0, <1>12
<1> QED BY <1>9, <1>13 DEF S

LEMMA GatesStart == GatesInit => GatesTypeOK
<1> SUFFICES ASSUME GatesInit PROVE GatesTypeOK
  OBVIOUS
<1>1. <<>> \in Seq(ToolRow) /\ Len(<<>>) = 0
  BY EmptySeq
<1>2. 0 \in 0..MaxAttempts /\ 0 \in 0..0
  BY GatesAssumption
<1> QED BY <1>1, <1>2 DEF GatesInit, GatesTypeOK

LEMMA GatesStep == GatesTypeOK /\ [GatesNext]_gateVars => GatesTypeOK'
<1> SUFFICES ASSUME GatesTypeOK, [GatesNext]_gateVars PROVE GatesTypeOK'
  OBVIOUS
<1>0. Len(log) \in Nat /\ MaxRows \in Nat /\ MaxAttempts \in Nat \ {0}
  BY GatesAssumption DEF GatesTypeOK
<1>1. CASE TurnStarts
  <2>1. Len(log) \in 0..Len(log) /\ 1 \in 0..MaxAttempts
    BY <1>0
  <2> QED BY <1>1, <2>1 DEF TurnStarts, GatesTypeOK
<1>2. CASE ReplyPasses
  BY <1>0, <1>2 DEF ReplyPasses, Shows, Hedged, GatesTypeOK
<1>3. CASE Reprompted
  <2>1. tries + 1 \in 0..MaxAttempts
    BY <1>0, <1>3 DEF Reprompted, GatesTypeOK
  <2> QED BY <1>3, <2>1 DEF Reprompted, GatesTypeOK
<1>4. CASE Escalated
  BY <1>0, <1>4 DEF Escalated, Shows, GatesTypeOK
<1>5. CASE TimePasses
  <2>1. before' \in 0..Len(log)
    BY <1>0, <1>5 DEF TimePasses, GatesTypeOK
  <2> QED BY <1>5, <2>1 DEF TimePasses, GatesTypeOK
<1>6. ASSUME NEW r \in Replies, Generated(r) PROVE GatesTypeOK'
  BY <1>6 DEF Generated, GatesTypeOK
<1>7. ASSUME NEW newRow \in ToolRow, Len(log) < MaxRows, log' = Append(log, newRow),
             UNCHANGED <<before, tries, step, reply, outcome>>
      PROVE  GatesTypeOK'
  <2>1. log' \in Seq(ToolRow) /\ Len(log') = Len(log) + 1
    BY <1>7, AppendProperties DEF GatesTypeOK
  <2>2. before' \in 0..Len(log')
    BY <1>0, <1>7, <2>1 DEF GatesTypeOK
  <2> QED BY <1>7, <2>1, <2>2 DEF GatesTypeOK
<1>8. ASSUME NEW tool \in Tools \cup {"claude_code_result"}, NEW arg \in Arguments,
             NEW issued \in BOOLEAN, Len(log) < MaxRows
      PROVE  CallRow(tool, arg.about, arg.cut, issued) \in ToolRow
  <2>1. Cardinality(Calls) + 1 \in 1..MaxRows
    BY <1>0, <1>8, CallsCount
  <2>2. arg.about \in Entity \cup {None} /\ arg.cut \in BOOLEAN
    BY GatesAssumption
  <2> QED BY <2>1, <2>2 DEF CallRow, ToolRow
<1>9. ASSUME NEW made \in ToolRow, NEW answer \in Answers PROVE ResultRow(made, answer) \in ToolRow
  <2>1. /\ answer.status \in {"success", "pseudo", "error"} /\ answer.about \in Entity \cup {None}
        /\ answer.cut \in BOOLEAN
    BY GatesAssumption
  <2> QED BY <2>1 DEF ResultRow, ToolRow
<1>11. ASSUME NEW tool \in Tools, NEW arg \in Arguments, ToolCalled(tool, arg) PROVE GatesTypeOK'
  <2> DEFINE newRow == CallRow(tool, arg.about, arg.cut, FALSE)
  <2>1. /\ Len(log) < MaxRows /\ log' = Append(log, newRow)
        /\ UNCHANGED <<before, tries, step, reply, outcome>>
    BY <1>11 DEF ToolCalled
  <2>2. newRow \in ToolRow
    BY <1>8, <2>1
  <2> HIDE DEF newRow
  <2> QED BY <1>7, <2>1, <2>2
<1>12. ASSUME NEW made \in ToSet(log), NEW answer \in Answers, ToolReturned(made, answer)
       PROVE  GatesTypeOK'
  <2> DEFINE newRow == ResultRow(made, answer)
  <2>1. /\ Len(log) < MaxRows /\ log' = Append(log, newRow)
        /\ UNCHANGED <<before, tries, step, reply, outcome>>
    BY <1>12 DEF ToolReturned
  <2>2. newRow \in ToolRow
    <3>1. made \in ToolRow
      BY DEF ToSet, GatesTypeOK
    <3> QED BY <1>9, <3>1
  <2> HIDE DEF newRow
  <2> QED BY <1>7, <2>1, <2>2
<1>13. ASSUME NEW arg \in Arguments, NEW answer \in Answers, NEW issued \in BOOLEAN,
              ResultDeposited(arg, issued, answer)
       PROVE  GatesTypeOK'
  <2> DEFINE made == CallRow("claude_code_result", arg.about, arg.cut, issued)
             found == ResultRow(made, answer)
  <2>1. /\ Len(log) + 1 < MaxRows /\ log' = log \o <<made, found>>
        /\ UNCHANGED <<before, tries, step, reply, outcome>>
    BY <1>13 DEF ResultDeposited
  <2>2. made \in ToolRow
    <3>1. Len(log) < MaxRows
      BY <1>0, <2>1
    <3> QED BY <1>8, <3>1
  <2>3. found \in ToolRow
    BY <1>9, <2>2
  <2> HIDE DEF made, found
  <2>4. log \in Seq(ToolRow) /\ <<made, found>> \in Seq(ToolRow) /\ Len(<<made, found>>) = 2
    BY <2>2, <2>3 DEF GatesTypeOK
  <2>5. log' \in Seq(ToolRow) /\ Len(log') = Len(log) + 2
    BY <2>1, <2>4, ConcatProperties
  <2>6. before' \in 0..Len(log')
    BY <1>0, <2>1, <2>5 DEF GatesTypeOK
  <2> QED BY <2>1, <2>5, <2>6 DEF GatesTypeOK
<1>10. CASE UNCHANGED gateVars
  BY <1>10 DEF gateVars, GatesTypeOK
<1> QED BY <1>1, <1>2, <1>3, <1>4, <1>5, <1>6, <1>10, <1>11, <1>12, <1>13 DEF GatesNext

\* What backs a claim is evidence of the turn.
LEMMA BackedIs ==
  ASSUME GatesTypeOK, NEW s, NEW statuses, NEW relevant, NEW strict \in BOOLEAN,
         NEW fallback \in BOOLEAN, NEW inResult \in BOOLEAN, NEW briefing \in BOOLEAN,
         Backed(s, statuses, relevant, strict, fallback, inResult, briefing),
         ~(briefing /\ Recites(s) /\ s.about # None)
  PROVE  /\ Evidence(s, statuses, IF strict \/ s.about = None THEN relevant ELSE AnyTool)
         /\ s.about # None \/ fallback
<1> DEFINE fits == {p \in Pairs(before) : /\ log[p[2]].status \in statuses
                                          /\ strict => log[p[2]].tool \in relevant}
           names(p) == \/ log[p[1]].about = s.about
                       \/ (inResult /\ log[p[2]].tool \in relevant /\ log[p[2]].about = s.about)
<1>1. Pairs(before) \subseteq PairsOf(before)
  BY PairsAre DEF GatesTypeOK
<1>2. IF s.about = None THEN fallback /\ \E p \in fits : log[p[2]].tool \in relevant
      ELSE (\E p \in fits : names(p)) \/ (briefing /\ s.recited /\ s.about \in Briefed)
  BY DEF Backed
<1>3. PICK p \in fits : IF s.about = None THEN log[p[2]].tool \in relevant ELSE names(p)
  BY <1>2 DEF Recites
<1>4. p \in Pairs(before) /\ log[p[2]].status \in statuses /\ (strict => log[p[2]].tool \in relevant)
  OBVIOUS
<1>5. /\ p[1] \in before + 1..Len(log) /\ p[2] \in before + 1..Len(log)
      /\ log[p[1]].tool = log[p[2]].tool
  BY <1>1, <1>4 DEF PairsOf
<1>6. log[p[2]].tool \in AnyTool
  <2>1. p[2] \in 1..Len(log)
    BY <1>5 DEF GatesTypeOK
  <2>2. log[p[2]] \in ToolRow
    BY <2>1 DEF GatesTypeOK
  <2> QED BY <2>2 DEF ToolRow, AnyTool
<1>7. \E j \in {p[1], p[2]} : s.about = None \/ log[j].about = s.about
  BY <1>3
<1>8. log[p[2]].tool \in (IF strict \/ s.about = None THEN relevant ELSE AnyTool)
  BY <1>3, <1>4, <1>6
<1> HIDE DEF fits, names
<1> QED BY <1>2, <1>4, <1>5, <1>7, <1>8 DEF Evidence

\* A reply that passes all gates says nothing they could refuse.
LEMMA PassIsClean ==
  ASSUME NEW r, RunGates(r) = "pass", NEW s \in r
  PROVE  "hard" \notin Verdicts(s) /\ "soft" \notin Verdicts(s)
BY DEF RunGates

LEMMA CleanIsBacked ==
  ASSUME GatesTypeOK, NEW s, "hard" \notin Verdicts(s), "soft" \notin Verdicts(s)
  PROVE  /\ DoneIsBacked(s) /\ StateIsBacked(s) /\ DelegationIsBacked(s) /\ IsSourced(s)
         /\ "phantom" \notin s.kinds
<1>0. Len(log) \in Nat /\ before \in Nat /\ DOMAIN log = 1..Len(log)
  BY DEF GatesTypeOK
<1>1. /\ GateToolReference(s) # "hard" /\ GateCompletion(s) # "hard" /\ GateDelegation(s) # "hard"
      /\ GateState(s) # "soft" /\ GateState(s) # "hard"
      /\ GateEntityEvidence(s) # "hard" /\ GateEntityEvidence(s) # "soft"
  BY DEF Verdicts
<1>2. DoneIsBacked(s)
  <2> SUFFICES ASSUME "completion" \in s.kinds, ~Recites(s)
               PROVE  Evidence(s, Ok, IF s.about = None THEN CompletionTools ELSE AnyTool)
    BY DEF DoneIsBacked
  <2>1. Backed(s, Ok, CompletionTools, FALSE, TRUE, TRUE, TRUE)
    BY <1>1 DEF GateCompletion
  <2> QED BY <2>1, BackedIs
<1>3. StateIsBacked(s)
  <2> SUFFICES ASSUME "state" \in s.kinds, ~Recites(s)
               PROVE  Evidence(s, IF "character" \in s.kinds THEN Ok ELSE Ran,
                               IF s.about = None THEN StateTools ELSE AnyTool)
    BY DEF StateIsBacked
  <2>1. Backed(s, Ran, StateTools, FALSE, TRUE, FALSE, TRUE)
    BY <1>1 DEF GateState
  <2>2. Backed(s, Ran, StateTools, FALSE, TRUE, FALSE, FALSE)
    BY <2>1 DEF Backed, Recites
  <2>3. "character" \in s.kinds => Backed(s, Ok, StateTools, FALSE, TRUE, FALSE, FALSE)
    BY <1>1, <2>1, <2>2 DEF GateState
  <2>4. Evidence(s, Ran, IF s.about = None THEN StateTools ELSE AnyTool)
    BY <2>2, BackedIs
  <2>5. "character" \in s.kinds => Evidence(s, Ok, IF s.about = None THEN StateTools ELSE AnyTool)
    BY <2>3, BackedIs
  <2> QED BY <2>4, <2>5
<1>4. DelegationIsBacked(s)
  <2>1. ASSUME OutcomeTools(s) # {} PROVE s.about # None /\ Evidence(s, Ok, OutcomeTools(s))
    <3>1. Backed(s, Ok, OutcomeTools(s), TRUE, FALSE, FALSE, FALSE)
      BY <1>1, <2>1 DEF GateDelegation
    <3> QED BY <3>1, BackedIs
  <2>2. ASSUME "dispatch" \in s.kinds, OutcomeTools(s) = {} PROVE Evidence(s, Ok, DispatchTools)
    <3>1. Backed(s, Ok, DispatchTools, TRUE, TRUE, TRUE, FALSE)
      BY <1>1, <2>2 DEF GateDelegation
    <3> QED BY <3>1, BackedIs
  <2> QED BY <2>1, <2>2 DEF DelegationIsBacked
<1>5. IsSourced(s)
  <2> DEFINE issued == {log[p[1]].about : p \in {q \in {o \in Pairs(0) : Genuine(o[2])} :
                                                 log[q[1]].issued}}
  <2>1. \/ s.about \in Briefed \cup FromUser \cup {None} \/ "name" \in s.kinds
        \/ s.about \in {log[i].about : i \in {k \in DOMAIN log : Genuine(k)}}
        \/ s.about \in issued
    BY <1>1 DEF GateEntityEvidence
  <2>2. CASE s.about \in {log[i].about : i \in {k \in DOMAIN log : Genuine(k)}}
    BY <2>2 DEF IsSourced
  <2>3. CASE s.about \in issued
    <3>1. PICK q \in Pairs(0) : Genuine(q[2]) /\ log[q[1]].issued /\ s.about = log[q[1]].about
      BY <2>3
    <3>2. 0 \in 0..Len(log) /\ Pairs(0) \subseteq PairsOf(0)
      BY <1>0, PairsAre
    <3>3. q[1] \in DOMAIN log /\ q[2] \in DOMAIN log /\ log[q[1]].tool = log[q[2]].tool
      BY <1>0, <3>2 DEF PairsOf
    <3> QED BY <3>1, <3>3 DEF IsSourced
  <2> HIDE DEF issued
  <2> QED BY <2>1, <2>2, <2>3 DEF IsSourced
<1>6. "phantom" \notin s.kinds
  BY <1>1 DEF GateToolReference
<1> QED BY <1>2, <1>3, <1>4, <1>5, <1>6

\* What the user reads as a reply is backed: for any tools, entities, sentences and
\* rows, cut or not, and any number of attempts, what it says was done, found or
\* handed over has evidence booked after the turn began, of a tool that could have
\* done it or with a row of that tool that names the entity, and no identifier it
\* cites was invented (gates.js: the five gates, correlatePairs, runGates).
THEOREM ReplyIsBacked == GatesSpec => ShownIsBacked
<1> DEFINE A == step = "gate" /\ outcome' = "reply" => \A s \in reply' :
    /\ DoneIsBacked(s) /\ StateIsBacked(s) /\ DelegationIsBacked(s) /\ IsSourced(s)
    /\ "phantom" \notin s.kinds
<1>1. GatesTypeOK /\ [GatesNext]_gateVars => [A]_gateVars
  <2> SUFFICES ASSUME GatesTypeOK, GatesNext, step = "gate", outcome' = "reply", NEW s \in reply'
               PROVE  "hard" \notin Verdicts(s) /\ "soft" \notin Verdicts(s)
    BY CleanIsBacked
  <2>1. ReplyPasses
    BY DEF GatesNext, TurnStarts, Reprompted, Escalated, Shows, TimePasses, Generated, ToolCalled,
           ToolReturned, ResultDeposited
  <2>2. RunGates(reply') = "pass"
    BY <2>1 DEF ReplyPasses
  <2> QED BY <2>2, PassIsClean
<1>2. ShownIsBacked <=> [][A]_gateVars
  BY DEF ShownIsBacked
<1> HIDE DEF A
<1> QED BY <1>1, <1>2, GatesStart, GatesStep, PTL DEF GatesSpec

-----------------------------------------------------------------------------
(* What a command is read as *)

\* The states of a fold one after the other.
Stepped(q, b, F, st) == st[0] = b /\ \A n \in 1..Len(q) : st[n] = F[<<st[n - 1], q[n]>>]

LEMMA FoldSteps ==
  ASSUME NEW S, NEW b \in S, NEW E, NEW q \in Seq(E), NEW F \in [S \X E -> S]
  PROVE  \E st \in [0..Len(q) -> S] : Stepped(q, b, F, st)
<1>0. Len(q) \in Nat
  OBVIOUS
<1>1. PICK h \in [SUBSET (1..Len(q)) -> S] : Folds(q, b, F, h)
  BY FoldRuns
<1> DEFINE st == [n \in 0..Len(q) |-> h[1..n]]
<1>2. \A s \in SUBSET (1..Len(q)) : h[s] = IF s = {} THEN b ELSE F[<<h[s \ {Max(s)}], q[Max(s)]>>]
  BY <1>1 DEF Folds
<1>3. st[0] = b
  <2>1. 1..0 = {} /\ {} \in SUBSET (1..Len(q)) /\ 0 \in 0..Len(q)
    BY <1>0
  <2> QED BY <1>2, <2>1
<1>4. ASSUME NEW n \in 1..Len(q) PROVE st[n] = F[<<st[n - 1], q[n]>>]
  <2>1. n - 1 \in Nat /\ (n - 1) + 1 = n /\ n - 1 \in 0..Len(q) /\ n \in 0..Len(q) /\ n \in 1..n
    BY <1>0
  <2>2. 1..n \in SUBSET (1..Len(q)) /\ 1..n # {}
    BY <1>0, <2>1
  <2>3. Max(1..n) = n /\ (1..n) \ {n} = 1..(n - 1)
    <3>1. Max(1..((n - 1) + 1)) = (n - 1) + 1 /\ (1..((n - 1) + 1)) \ {(n - 1) + 1} = 1..(n - 1)
      BY <2>1, MaxOfPrefix
    <3> QED BY <2>1, <3>1
  <2>4. h[1..n] = F[<<h[1..(n - 1)], q[n]>>]
    BY <1>2, <2>2, <2>3
  <2> QED BY <2>1, <2>4
<1>5. st \in [0..Len(q) -> S]
  <2> SUFFICES ASSUME NEW n \in 0..Len(q) PROVE h[1..n] \in S
    OBVIOUS
  <2>1. 1..n \in SUBSET (1..Len(q))
    BY <1>0
  <2> QED BY <1>1, <2>1
<1> HIDE DEF st
<1> QED BY <1>3, <1>4, <1>5 DEF Stepped

LEMMA PutTogether ==
  ASSUME NEW E, NEW a \in Seq(E), NEW b \in Seq(E)
  PROVE  /\ a \o b \in Seq(E) /\ Len(a \o b) = Len(a) + Len(b)
         /\ \A k \in 1..Len(a) : (a \o b)[k] = a[k]
         /\ \A k \in 1..Len(b) : (a \o b)[Len(a) + k] = b[k]
<1>1. Len(a) \in Nat /\ Len(b) \in Nat
  OBVIOUS
<1>2. /\ a \o b \in Seq(E) /\ Len(a \o b) = Len(a) + Len(b)
      /\ \A i \in 1..Len(a) + Len(b) : (a \o b)[i] = IF i <= Len(a) THEN a[i] ELSE b[i - Len(a)]
  BY ConcatProperties
<1> QED BY <1>1, <1>2

LEMMA Sums ==
  /\ \A x, y, z, k \in Nat : x + y <= z /\ k \in 1..y => x + k \in 1..z
  /\ \A x, y, z, w \in Nat : x <= y /\ w = y + z => x <= w
OBVIOUS

\* Sequences put one after the other: where each ends, and what stands there.
Laid(ss, line, off) ==
  /\ off \in [0..Len(ss) -> 0..Len(line)]
  /\ off[0] = 0 /\ off[Len(ss)] = Len(line)
  /\ \A i \in 1..Len(ss) : off[i] = off[i - 1] + Len(ss[i])
  /\ \A i \in 1..Len(ss) : \A k \in 1..Len(ss[i]) : line[off[i - 1] + k] = ss[i][k]

LEMMA FlattenIs ==
  ASSUME NEW Sign, NEW ss \in Seq(Seq(Sign))
  PROVE  FlattenSeq(ss) \in Seq(Sign) /\ \E off : Laid(ss, FlattenSeq(ss), off)
<1> DEFINE m == Len(ss)
           F == [x \in Seq(Sign) \X Seq(Sign) |-> x[1] \o x[2]]
           Value(f, i) == IF i = 1 THEN ss[i] ELSE f[i - 1] \o ss[i]
           Run(f) == f = [i \in 1..m |-> Value(f, i)]
           flat == CHOOSE f : Run(f)
<1>0. m \in Nat /\ DOMAIN ss = 1..m /\ \A i \in 1..m : ss[i] \in Seq(Sign) /\ Len(ss[i]) \in Nat
  <2>1. m \in Nat /\ DOMAIN ss = 1..m /\ \A i \in 1..m : ss[i] \in Seq(Sign)
    OBVIOUS
  <2> QED BY <2>1
<1>1. PICK st \in [0..m -> Seq(Sign)] :
            st[0] = <<>> /\ \A n \in 1..m : st[n] = F[<<st[n - 1], ss[n]>>]
  <2>1. F \in [Seq(Sign) \X Seq(Sign) -> Seq(Sign)]
    OBVIOUS
  <2>2. <<>> \in Seq(Sign)
    BY EmptySeq
  <2> DEFINE T == Seq(Sign)
             nil == <<>>
  <2>3. ss \in Seq(T) /\ F \in [T \X T -> T] /\ nil \in T
    BY <2>1, <2>2
  <2> HIDE DEF F, Value, Run, flat, T, nil, m
  <2>4. \E st \in [0..Len(ss) -> T] : Stepped(ss, nil, F, st)
    BY <2>3, FoldSteps
  <2> QED BY <2>4 DEF T, nil, m, Stepped
<1>2. ASSUME NEW n \in 1..m
      PROVE  /\ st[n - 1] \in Seq(Sign) /\ st[n] \in Seq(Sign) /\ ss[n] \in Seq(Sign) /\ st[n] = st[n - 1] \o ss[n]
             /\ Len(st[n]) = Len(st[n - 1]) + Len(ss[n])
             /\ \A k \in 1..Len(st[n - 1]) : st[n][k] = st[n - 1][k]
             /\ \A k \in 1..Len(ss[n]) : st[n][Len(st[n - 1]) + k] = ss[n][k]
  <2>1. n - 1 \in 0..m /\ n \in 0..m
    BY <1>0
  <2>2. st[n - 1] \in Seq(Sign) /\ ss[n] \in Seq(Sign) /\ st[n] \in Seq(Sign)
    BY <1>0, <1>1, <2>1
  <2>3. st[n] = st[n - 1] \o ss[n]
    BY <1>1, <2>2
  <2> HIDE DEF m, F
  <2>4. /\ Len(st[n - 1] \o ss[n]) = Len(st[n - 1]) + Len(ss[n])
        /\ \A k \in 1..Len(st[n - 1]) : (st[n - 1] \o ss[n])[k] = st[n - 1][k]
        /\ \A k \in 1..Len(ss[n]) : (st[n - 1] \o ss[n])[Len(st[n - 1]) + k] = ss[n][k]
    <3> DEFINE a == st[n - 1]
               b == ss[n]
    <3>1. a \in Seq(Sign) /\ b \in Seq(Sign)
      BY <2>2
    <3> HIDE DEF a, b
    <3>2. /\ Len(a \o b) = Len(a) + Len(b)
          /\ \A k \in 1..Len(a) : (a \o b)[k] = a[k]
          /\ \A k \in 1..Len(b) : (a \o b)[Len(a) + k] = b[k]
      BY <3>1, PutTogether
    <3> QED BY <3>2 DEF a, b
  <2> QED BY <2>2, <2>3, <2>4
<1> HIDE DEF F, Value, Run, flat
<1> DEFINE off == [i \in 0..m |-> Len(st[i])]
           Upto(n) == /\ \A i \in 0..n : Len(st[i]) <= Len(st[n])
                      /\ \A i \in 1..n : \A k \in 1..Len(ss[i]) : st[n][Len(st[i - 1]) + k] = ss[i][k]
           Good == {n \in Nat : n <= m => Upto(n)}
<1>3. \A n \in 0..m : Len(st[n]) \in Nat
  BY <1>1
<1>4. 0 \in Good
  <2>1. Upto(0)
    BY <1>3
  <2> QED BY <2>1
<1>5. ASSUME NEW n \in Good PROVE n + 1 \in Good
  <2> SUFFICES ASSUME n + 1 <= m PROVE Upto(n + 1)
    OBVIOUS
  <2> DEFINE N == n + 1
  <2>1. n \in Nat /\ Upto(n) /\ N \in 1..m /\ N - 1 = n /\ n \in 0..m
    BY <1>0
  <2> HIDE DEF Upto, Good, N
  <2>2. /\ Len(st[N]) = Len(st[n]) + Len(ss[N])
        /\ \A k \in 1..Len(st[n]) : st[N][k] = st[n][k]
        /\ \A k \in 1..Len(ss[N]) : st[N][Len(st[n]) + k] = ss[N][k]
    BY <1>2, <2>1
  <2>3. Len(st[n]) \in Nat /\ Len(ss[N]) \in Nat /\ Len(st[N]) \in Nat
    BY <1>0, <1>3, <2>1, <2>2
  <2>4. ASSUME NEW i \in 0..N PROVE Len(st[i]) <= Len(st[N])
    <3>1. i = N \/ i \in 0..n
      BY <2>1 DEF N
    <3>2. CASE i \in 0..n
      <4>1. Len(st[i]) <= Len(st[n]) /\ i \in 0..m
        BY <1>0, <2>1, <3>2 DEF Upto
      <4>2. Len(st[i]) \in Nat
        BY <1>3, <4>1
      <4> HIDE DEF m
      <4>3. Len(st[N]) = Len(st[n]) + Len(ss[N])
        BY <2>2
      <4> QED BY <2>3, <4>1, <4>2, <4>3, Sums
    <3> QED BY <2>3, <3>1, <3>2
  <2>5. ASSUME NEW i \in 1..N, NEW k \in 1..Len(ss[i])
        PROVE  st[N][Len(st[i - 1]) + k] = ss[i][k]
    <3>1. i = N \/ i \in 1..n
      BY <2>1 DEF N
    <3>2. CASE i = N
      BY <2>1, <2>2, <3>2
    <3>3. CASE i \in 1..n
      <4>1. /\ i \in 1..m /\ i - 1 \in 0..m /\ i \in 0..n /\ i \in 0..m
            /\ st[n][Len(st[i - 1]) + k] = ss[i][k] /\ Len(st[i]) <= Len(st[n])
        <5>0. m \in Nat /\ n \in 0..m
          BY <1>0, <2>1
        <5>1. Upto(n)
          BY <2>1
        <5>2. Len(st[i]) <= Len(st[n])
          <6>1. i \in 0..n
            BY <3>3, <5>0
          <6> QED BY <5>1, <6>1 DEF Upto
        <5>3. st[n][Len(st[i - 1]) + k] = ss[i][k]
          BY <3>3, <5>1 DEF Upto
        <5> HIDE DEF m
        <5>4. i \in 1..m /\ i - 1 \in 0..m /\ i \in 0..n /\ i \in 0..m
          BY <3>3, <5>0
        <5> QED BY <5>2, <5>3, <5>4
      <4>2. Len(st[i]) = Len(st[i - 1]) + Len(ss[i]) /\ Len(ss[i]) \in Nat /\ Len(st[i - 1]) \in Nat
        BY <1>0, <1>2, <1>3, <4>1
      <4>3. Len(st[i - 1]) + k \in 1..Len(st[n])
        <5>1. Len(st[n]) \in Nat /\ k \in 1..Len(ss[i]) /\ Len(st[i - 1]) + Len(ss[i]) <= Len(st[n])
          BY <2>3, <4>1, <4>2
        <5> HIDE DEF m
        <5>2. k \in Nat
          BY <4>2, <5>1
        <5> QED BY <4>2, <5>1, <5>2, Sums
      <4> QED BY <2>2, <4>1, <4>3
    <3> QED BY <3>1, <3>2, <3>3
  <2>6. Upto(N)
    BY <2>4, <2>5 DEF Upto
  <2> QED BY <2>6 DEF N
<1>6. Upto(m)
  <2>1. \A n \in Nat : n \in Good
    <3> HIDE DEF Good
    <3>1. Good \in SUBSET Nat
      BY DEF Good
    <3> QED BY <1>4, <1>5, <3>1, EveryNumber
  <2> QED BY <1>0, <2>1
<1> HIDE DEF Good
<1>7. FlattenSeq(ss) = st[m]
  <2>1. CASE m = 0
    <3>1. ss = <<>> /\ FlattenSeq(ss) = ss
      BY <2>1 DEF FlattenSeq
    <3> QED BY <1>1, <2>1, <3>1
  <2>2. CASE m # 0
    <3> USE DEF Value, Run, flat
    <3>0. 1 \in 1..m /\ m \in 1..m
      BY <1>0, <2>2
    <3>1. FlattenSeq(ss) = flat[m]
      BY <2>2 DEF FlattenSeq
    <3> DEFINE g == [i \in 1..m |-> st[i]]
    <3>2. ASSUME NEW i \in 1..m PROVE g[i] = Value(g, i)
      <4>1. CASE i = 1
        <5>1. st[1] = st[0] \o ss[1] /\ ss[1] \in Seq(Sign) /\ st[0] = <<>>
          <6>1. st[1] = st[1 - 1] \o ss[1] /\ ss[1] \in Seq(Sign)
            BY <1>2, <3>0
          <6>2. st[0] = <<>> /\ 1 - 1 = 0
            BY <1>1
          <6> QED BY <6>1, <6>2
        <5>2. <<>> \o ss[1] = ss[1]
          BY <5>1
        <5> QED BY <3>0, <4>1, <5>1, <5>2
      <4>2. CASE i # 1
        <5>1. i - 1 \in 1..m
          BY <1>0, <4>2
        <5> QED BY <1>2, <4>2, <5>1
      <4> QED BY <4>1, <4>2
    <3>3. Run(g)
      <4>1. g = [i \in 1..m |-> g[i]]
        OBVIOUS
      <4> HIDE DEF g, Value
      <4> QED BY <3>2, <4>1
    <3>4. Run(flat)
      <4> HIDE DEF Run
      <4> QED BY <3>3
    <3>5. \A i \in 1..m : flat[i] = Value(flat, i)
      <4> HIDE DEF flat, Value
      <4> QED BY <3>4
    <3> HIDE DEF flat
    <3> DEFINE Same == {n \in Nat : n + 1 <= m => flat[n + 1] = st[n + 1]}
    <3>6. 0 \in Same
      <4>1. flat[1] = ss[1]
        BY <3>0, <3>5
      <4>2. g[1] = ss[1] /\ g[1] = st[1]
        BY <3>0, <3>2
      <4> QED BY <4>1, <4>2
    <3>7. ASSUME NEW n \in Same PROVE n + 1 \in Same
      <4> SUFFICES ASSUME n + 1 + 1 <= m PROVE flat[n + 1 + 1] = st[n + 1 + 1]
        OBVIOUS
      <4>1. n + 1 + 1 \in 1..m /\ n + 1 + 1 # 1 /\ (n + 1 + 1) - 1 = n + 1 /\ flat[n + 1] = st[n + 1]
        BY <1>0
      <4>2. flat[n + 1 + 1] = flat[n + 1] \o ss[n + 1 + 1]
        BY <3>5, <4>1
      <4>3. st[n + 1 + 1] = st[n + 1] \o ss[n + 1 + 1]
        BY <1>2, <4>1
      <4> QED BY <4>1, <4>2, <4>3
    <3>8. \A n \in Nat : n \in Same
      <4> HIDE DEF Same
      <4>1. Same \in SUBSET Nat
        BY DEF Same
      <4> QED BY <3>6, <3>7, <4>1, EveryNumber
    <3>9. m - 1 \in Same /\ (m - 1) + 1 = m
      <4>1. m - 1 \in Nat /\ (m - 1) + 1 = m
        BY <1>0, <2>2
      <4> QED BY <3>8, <4>1
    <3>10. flat[m] = st[m]
      BY <1>0, <3>9
    <3> QED BY <3>1, <3>10
  <2> QED BY <2>1, <2>2
<1>8. st[m] \in Seq(Sign)
  BY <1>0, <1>1
<1>9. Laid(ss, st[m], off)
  <2>1. off \in [0..m -> 0..Len(st[m])]
    BY <1>3, <1>6, <1>0
  <2>2. off[0] = 0 /\ off[m] = Len(st[m])
    BY <1>0, <1>1
  <2>3. \A i \in 1..m : i \in 0..m /\ i - 1 \in 0..m
    BY <1>0
  <2>4. \A i \in 1..m : off[i] = off[i - 1] + Len(ss[i])
    BY <1>2, <2>3
  <2>5. \A i \in 1..m : \A k \in 1..Len(ss[i]) : st[m][off[i - 1] + k] = ss[i][k]
    BY <1>6, <2>3
  <2> HIDE DEF off
  <2> QED BY <2>1, <2>2, <2>4, <2>5 DEF Laid
<1> HIDE DEF off
<1> QED BY <1>7, <1>8, <1>9

\* The characters, and texts as a whole, that a line is made of, and what
\* stands for no word.
Signs == STRING \cup Special \cup {"no word"}

LEMMA Tuples ==
  ASSUME NEW S, NEW a \in S, NEW b \in S
  PROVE  /\ <<a>> \in Seq(S) /\ Len(<<a>>) = 1
         /\ <<b, a>> \in Seq(S) /\ Len(<<b, a>>) = 2
         /\ <<b, a, b>> \in Seq(S) /\ Len(<<b, a, b>>) = 3
OBVIOUS

\* What a piece is written as.
LEMMA WrittenIs ==
  ASSUME NEW p \in Piece
  PROVE  /\ Written(p) \in Seq(Signs) /\ p.text \in Signs /\ p.text # "no word"
         /\ p.style = "bare" => Written(p) = <<p.text>> /\ Len(Written(p)) = 1
         /\ p.style = "escaped" => Written(p) = <<"\\", p.text>> /\ Len(Written(p)) = 2
         /\ p.style = "single" => Written(p) = <<"'", p.text, "'">> /\ Len(Written(p)) = 3
         /\ p.style = "double" => Written(p) = <<"\"", p.text, "\"">> /\ Len(Written(p)) = 3
         /\ p.style \in {"bare", "escaped", "single", "double"} /\ Len(Written(p)) \in Nat
<1>1. p.text \in Signs /\ p.text # "no word" /\ p.style \in {"bare", "escaped", "single", "double"}
  BY DEF Piece, Signs
<1> DEFINE bar == "\\"
           one == "'"
           two == "\""
<1>0. bar \in Signs /\ one \in Signs /\ two \in Signs
  BY DEF Signs, Special
<1>2. CASE p.style = "bare"
  <2>1. Written(p) = <<p.text>>
    BY <1>2 DEF Written
  <2>2. <<p.text>> \in Seq(Signs) /\ Len(<<p.text>>) = 1
    BY <1>1, Tuples, Zenon
  <2> QED BY <1>1, <1>2, <2>1, <2>2
<1>3. CASE p.style = "escaped"
  <2>1. Written(p) = <<"\\", p.text>>
    BY <1>3 DEF Written
  <2> HIDE DEF bar
  <2>2. <<bar, p.text>> \in Seq(Signs) /\ Len(<<bar, p.text>>) = 2
    BY <1>0, <1>1, Tuples, Zenon
  <2> USE DEF bar
  <2> QED BY <1>1, <1>3, <2>1, <2>2
<1>4. CASE p.style = "single"
  <2>1. Written(p) = <<"'", p.text, "'">>
    BY <1>4 DEF Written
  <2> HIDE DEF one
  <2>2. <<one, p.text, one>> \in Seq(Signs) /\ Len(<<one, p.text, one>>) = 3
    BY <1>0, <1>1, Tuples, Zenon
  <2> USE DEF one
  <2> QED BY <1>1, <1>4, <2>1, <2>2
<1>5. CASE p.style = "double"
  <2>1. Written(p) = <<"\"", p.text, "\"">>
    BY <1>5 DEF Written
  <2> HIDE DEF two
  <2>2. <<two, p.text, two>> \in Seq(Signs) /\ Len(<<two, p.text, two>>) = 3
    BY <1>0, <1>1, Tuples, Zenon
  <2> USE DEF two
  <2> QED BY <1>1, <1>5, <2>1, <2>2
<1> QED BY <1>1, <1>2, <1>3, <1>4, <1>5

\* Where each piece of each word begins on the line.
Marked(ws, line, mark) ==
  /\ \A i \in 1..Len(ws) : \A j \in 0..Len(ws[i]) : mark[i][j] \in 0..Len(line)
  /\ Len(ws) = 0 => Len(line) = 0
  /\ Len(ws) > 0 => mark[1][0] = 0 /\ mark[Len(ws)][Len(ws[Len(ws)])] = Len(line)
  /\ \A i \in 1..Len(ws) : \A j \in 1..Len(ws[i]) :
       /\ mark[i][j] = mark[i][j - 1] + Len(Written(ws[i][j]))
       /\ \A k \in 1..Len(Written(ws[i][j])) : line[mark[i][j - 1] + k] = Written(ws[i][j])[k]
  /\ \A i \in 2..Len(ws) : /\ mark[i][0] = mark[i - 1][Len(ws[i - 1])] + 1
                           /\ line[mark[i][0]] = Blank

LEMMA LineIs ==
  ASSUME NEW ws \in Seq(Seq(Piece) \ {<<>>})
  PROVE  Line(ws) \in Seq(Signs) /\ \E mark : Marked(ws, Line(ws), mark)
<1> DEFINE n == Len(ws)
           word(i) == [j \in 1..Len(ws[i]) |-> Written(ws[i][j])]
           flat(i) == FlattenSeq(word(i))
           sep(i) == IF i = 1 THEN <<>> ELSE <<Blank>>
           parts == [i \in 1..n |-> sep(i) \o flat(i)]
           line == Line(ws)
           inner(i) == CHOOSE off : Laid(word(i), flat(i), off)
<1>0. n \in Nat /\ \A i \in 1..n : ws[i] \in Seq(Piece) /\ Len(ws[i]) \in Nat
  <2>1. n \in Nat /\ \A i \in 1..n : ws[i] \in Seq(Piece)
    OBVIOUS
  <2> QED BY <2>1
<1>1. line = FlattenSeq(parts)
  BY DEF Line
<1>2. ASSUME NEW i \in 1..n
      PROVE  /\ word(i) \in Seq(Seq(Signs)) /\ Len(word(i)) = Len(ws[i]) /\ flat(i) \in Seq(Signs)
             /\ Laid(word(i), flat(i), inner(i)) /\ Len(flat(i)) \in Nat
  <2>1. \A j \in 1..Len(ws[i]) : ws[i][j] \in Piece
    BY <1>0
  <2>2. \A j \in 1..Len(ws[i]) : Written(ws[i][j]) \in Seq(Signs)
    BY <2>1, WrittenIs
  <2>3. word(i) \in [1..Len(ws[i]) -> Seq(Signs)]
    BY <2>2
  <2> DEFINE w == word(i)
             m == Len(ws[i])
  <2>4. w \in Seq(Seq(Signs)) /\ Len(w) = m
    <3>1. m \in Nat /\ w \in [1..m -> Seq(Signs)]
      BY <1>0, <2>3
    <3> HIDE DEF w, m
    <3>2. w \in Seq(Seq(Signs))
      BY <3>1
    <3>3. Len(w) \in Nat /\ DOMAIN w = 1..Len(w)
      BY <3>2
    <3> QED BY <3>1, <3>2, <3>3
  <2> HIDE DEF w
  <2>5. FlattenSeq(w) \in Seq(Signs) /\ \E off : Laid(w, FlattenSeq(w), off)
    BY <2>4, FlattenIs
  <2>6. Laid(w, FlattenSeq(w), CHOOSE off : Laid(w, FlattenSeq(w), off))
    BY <2>5
  <2>7. Len(FlattenSeq(w)) \in Nat
    BY <2>5
  <2> QED BY <2>4, <2>5, <2>6, <2>7 DEF w
<1> HIDE DEF inner, word
<1>3. ASSUME NEW i \in 1..n
      PROVE  /\ sep(i) \in Seq(Signs) /\ Len(sep(i)) = (IF i = 1 THEN 0 ELSE 1)
             /\ i # 1 => sep(i)[1] = Blank
  <2>1. Blank \in Signs
    BY DEF Signs, Special
  <2> QED BY <2>1
<1>4. ASSUME NEW i \in 1..n
      PROVE  /\ sep(i) \o flat(i) \in Seq(Signs)
             /\ Len(sep(i) \o flat(i)) = Len(sep(i)) + Len(flat(i))
             /\ \A k \in 1..Len(sep(i)) : (sep(i) \o flat(i))[k] = sep(i)[k]
             /\ \A k \in 1..Len(flat(i)) : (sep(i) \o flat(i))[Len(sep(i)) + k] = flat(i)[k]
  <2> DEFINE a == sep(i)
             b == flat(i)
  <2>1. a \in Seq(Signs) /\ b \in Seq(Signs)
    BY <1>2, <1>3
  <2> HIDE DEF a, b
  <2>2. /\ a \o b \in Seq(Signs) /\ Len(a \o b) = Len(a) + Len(b)
        /\ \A k \in 1..Len(a) : (a \o b)[k] = a[k]
        /\ \A k \in 1..Len(b) : (a \o b)[Len(a) + k] = b[k]
    BY <2>1, PutTogether
  <2> QED BY <2>2 DEF a, b
<1> HIDE DEF flat, sep
<1>5. parts \in Seq(Seq(Signs)) /\ Len(parts) = n /\ \A i \in 1..n : parts[i] = sep(i) \o flat(i)
  <2>1. parts \in [1..n -> Seq(Signs)]
    BY <1>4
  <2>2. \A i \in 1..n : parts[i] = sep(i) \o flat(i)
    OBVIOUS
  <2> HIDE DEF parts, n
  <2>3. parts \in Seq(Seq(Signs))
    BY <1>0, <2>1
  <2>4. Len(parts) \in Nat /\ DOMAIN parts = 1..Len(parts)
    BY <2>3
  <2> QED BY <1>0, <2>1, <2>2, <2>3, <2>4
<1> HIDE DEF parts
<1>6. line \in Seq(Signs) /\ Len(line) \in Nat /\ \E off : Laid(parts, line, off)
  <2>1. FlattenSeq(parts) \in Seq(Signs) /\ \E off : Laid(parts, FlattenSeq(parts), off)
    BY <1>5, FlattenIs
  <2> HIDE DEF line
  <2> QED BY <1>1, <2>1
<1>7. PICK top : Laid(parts, line, top)
  BY <1>6
<1> HIDE DEF line
<1>8. /\ top \in [0..n -> 0..Len(line)] /\ top[0] = 0 /\ top[n] = Len(line)
      /\ \A i \in 1..n : top[i] = top[i - 1] + Len(parts[i])
      /\ \A i \in 1..n : \A k \in 1..Len(parts[i]) : line[top[i - 1] + k] = parts[i][k]
  BY <1>5, <1>7 DEF Laid
<1> DEFINE mark == [i \in 1..n |-> [j \in 0..Len(ws[i]) |-> top[i - 1] + Len(sep(i)) + inner(i)[j]]]
<1>9. ASSUME NEW i \in 1..n
      PROVE  /\ top[i - 1] \in Nat /\ top[i] \in Nat /\ Len(sep(i)) \in Nat /\ Len(flat(i)) \in Nat
             /\ top[i] = top[i - 1] + Len(sep(i)) + Len(flat(i)) /\ top[i] <= Len(line)
             /\ inner(i) \in [0..Len(ws[i]) -> 0..Len(flat(i))]
             /\ inner(i)[0] = 0 /\ inner(i)[Len(ws[i])] = Len(flat(i))
             /\ \A j \in 0..Len(ws[i]) : mark[i][j] = top[i - 1] + Len(sep(i)) + inner(i)[j]
  <2>1. i - 1 \in 0..n /\ i \in 0..n
    BY <1>0
  <2>2. top[i - 1] \in Nat /\ top[i] \in Nat /\ top[i] <= Len(line)
    <3>1. top[i - 1] \in 0..Len(line) /\ top[i] \in 0..Len(line)
      BY <1>8, <2>1
    <3>2. Len(line) \in Nat
      BY <1>6
    <3> QED BY <3>1, <3>2
  <2>3. Len(sep(i)) \in Nat /\ Len(flat(i)) \in Nat
    BY <1>2, <1>3
  <2>4. top[i] = top[i - 1] + Len(sep(i)) + Len(flat(i))
    <3>1. top[i] = top[i - 1] + Len(parts[i])
      BY <1>8
    <3>2. Len(parts[i]) = Len(sep(i)) + Len(flat(i))
      BY <1>4, <1>5
    <3> QED BY <2>2, <2>3, <3>1, <3>2
  <2>5. /\ inner(i) \in [0..Len(ws[i]) -> 0..Len(flat(i))]
        /\ inner(i)[0] = 0 /\ inner(i)[Len(ws[i])] = Len(flat(i))
    <3>1. Laid(word(i), flat(i), inner(i)) /\ Len(word(i)) = Len(ws[i])
      BY <1>2
    <3> QED BY <3>1 DEF Laid
  <2> QED BY <2>2, <2>3, <2>4, <2>5
<1>10. ASSUME NEW i \in 1..n, NEW j \in 0..Len(ws[i]) PROVE mark[i][j] \in 0..Len(line)
  <2>1. inner(i)[j] \in 0..Len(flat(i)) /\ mark[i][j] = top[i - 1] + Len(sep(i)) + inner(i)[j]
    BY <1>9
  <2>2. /\ top[i - 1] \in Nat /\ top[i] \in Nat /\ Len(sep(i)) \in Nat /\ Len(flat(i)) \in Nat
        /\ top[i] = top[i - 1] + Len(sep(i)) + Len(flat(i)) /\ top[i] <= Len(line)
    BY <1>9
  <2> HIDE DEF mark
  <2> QED BY <1>6, <2>1, <2>2
<1>11. ASSUME n > 0 PROVE mark[1][0] = 0 /\ mark[n][Len(ws[n])] = Len(line)
  <2>1. 1 \in 1..n /\ n \in 1..n /\ 0 \in 0..Len(ws[1]) /\ Len(ws[n]) \in 0..Len(ws[n])
    BY <1>0, <1>11
  <2>2. mark[1][0] = top[1 - 1] + Len(sep(1)) + inner(1)[0] /\ inner(1)[0] = 0
    BY <1>9, <2>1
  <2>3. Len(sep(1)) = 0
    BY <1>3, <2>1
  <2>4. mark[n][Len(ws[n])] = top[n - 1] + Len(sep(n)) + Len(flat(n))
    BY <1>9, <2>1
  <2>5. top[n] = top[n - 1] + Len(sep(n)) + Len(flat(n)) /\ top[n] = Len(line) /\ top[0] = 0
    BY <1>8, <1>9, <2>1
  <2> HIDE DEF mark
  <2> QED BY <2>2, <2>3, <2>4, <2>5
<1>12. ASSUME NEW i \in 1..n, NEW j \in 1..Len(ws[i])
       PROVE  /\ mark[i][j] = mark[i][j - 1] + Len(Written(ws[i][j]))
              /\ \A k \in 1..Len(Written(ws[i][j])) : line[mark[i][j - 1] + k] = Written(ws[i][j])[k]
  <2>1. j \in 0..Len(ws[i]) /\ j - 1 \in 0..Len(ws[i]) /\ j \in Nat
    BY <1>0
  <2>2. /\ Laid(word(i), flat(i), inner(i)) /\ Len(word(i)) = Len(ws[i])
        /\ word(i)[j] = Written(ws[i][j])
    BY <1>2 DEF word
  <2>3. /\ inner(i)[j] = inner(i)[j - 1] + Len(Written(ws[i][j]))
        /\ \A k \in 1..Len(Written(ws[i][j])) : flat(i)[inner(i)[j - 1] + k] = Written(ws[i][j])[k]
    BY <2>2 DEF Laid
  <2>4. /\ mark[i][j] = top[i - 1] + Len(sep(i)) + inner(i)[j]
        /\ mark[i][j - 1] = top[i - 1] + Len(sep(i)) + inner(i)[j - 1]
    BY <1>9, <2>1
  <2>5. inner(i)[j] \in 0..Len(flat(i)) /\ inner(i)[j - 1] \in 0..Len(flat(i))
    BY <1>9, <2>1
  <2>6. top[i - 1] \in Nat /\ Len(sep(i)) \in Nat /\ Len(flat(i)) \in Nat
    BY <1>9
  <2>7. Len(Written(ws[i][j])) \in Nat
    <3>1. ws[i][j] \in Piece
      BY <1>0
    <3> QED BY <3>1, WrittenIs
  <2> HIDE DEF mark
  <2>8. mark[i][j] = mark[i][j - 1] + Len(Written(ws[i][j]))
    BY <2>3, <2>4, <2>5, <2>6, <2>7
  <2>9. ASSUME NEW k \in 1..Len(Written(ws[i][j]))
        PROVE  line[mark[i][j - 1] + k] = Written(ws[i][j])[k]
    <3> DEFINE c == inner(i)[j - 1] + k
    <3>1. inner(i)[j - 1] \in Nat /\ k \in Nat /\ k <= Len(Written(ws[i][j]))
      BY <2>5, <2>6, <2>7
    <3>2. c \in 1..Len(flat(i))
      <4>1. inner(i)[j - 1] + Len(Written(ws[i][j])) <= Len(flat(i)) /\ k \in 1..Len(Written(ws[i][j]))
        BY <2>3, <2>5, <2>6
      <4> QED BY <2>6, <2>7, <3>1, <4>1, Sums
    <3> HIDE DEF c
    <3>3. flat(i)[c] = Written(ws[i][j])[k]
      BY <2>3 DEF c
    <3>4. parts[i][Len(sep(i)) + c] = flat(i)[c] /\ Len(parts[i]) = Len(sep(i)) + Len(flat(i))
      BY <1>4, <1>5, <3>2
    <3>5. Len(sep(i)) + c \in 1..Len(parts[i])
      BY <2>6, <3>2, <3>4
    <3>6. line[top[i - 1] + (Len(sep(i)) + c)] = parts[i][Len(sep(i)) + c]
      BY <1>8, <3>5
    <3>7. mark[i][j - 1] + k = top[i - 1] + (Len(sep(i)) + c)
      BY <2>4, <2>6, <3>1 DEF c
    <3> QED BY <3>3, <3>4, <3>6, <3>7
  <2> QED BY <2>8, <2>9
<1>13. ASSUME NEW i \in 2..n
       PROVE  mark[i][0] = mark[i - 1][Len(ws[i - 1])] + 1 /\ line[mark[i][0]] = Blank
  <2>1. i \in 1..n /\ i - 1 \in 1..n /\ i # 1 /\ i \in Nat
    BY <1>0
  <2>2. 0 \in 0..Len(ws[i]) /\ Len(ws[i - 1]) \in 0..Len(ws[i - 1])
    BY <1>0, <2>1
  <2>3. Len(sep(i)) = 1 /\ sep(i)[1] = Blank
    BY <1>3, <2>1
  <2>4. mark[i][0] = top[i - 1] + Len(sep(i)) + 0 /\ top[i - 1] \in Nat
    BY <1>9, <2>1, <2>2
  <2>5. mark[i - 1][Len(ws[i - 1])] = top[(i - 1) - 1] + Len(sep(i - 1)) + Len(flat(i - 1))
    BY <1>9, <2>1, <2>2
  <2>6. top[i - 1] = top[(i - 1) - 1] + Len(sep(i - 1)) + Len(flat(i - 1))
    BY <1>9, <2>1
  <2> HIDE DEF mark
  <2>7. 1 \in 1..Len(parts[i]) /\ parts[i][1] = Blank
    <3>1. parts[i] = sep(i) \o flat(i) /\ Len(flat(i)) \in Nat
      BY <1>5, <1>9, <2>1
    <3>2. Len(parts[i]) = 1 + Len(flat(i)) /\ \A k \in 1..1 : parts[i][k] = sep(i)[k]
      BY <1>4, <2>1, <2>3, <3>1
    <3> QED BY <2>3, <3>1, <3>2
  <2>8. line[top[i - 1] + 1] = Blank
    BY <1>8, <2>1, <2>7
  <2>9. mark[i][0] = top[i - 1] + 1
    BY <2>3, <2>4
  <2> QED BY <2>5, <2>6, <2>8, <2>9
<1>14. n = 0 => Len(line) = 0
  BY <1>8
<1> HIDE DEF mark
<1>15. Marked(ws, line, mark)
  BY <1>10, <1>11, <1>12, <1>13, <1>14 DEF Marked
<1> QED BY <1>6, <1>15 DEF line

LEMMA Dropped ==
  ASSUME NEW S, NEW s \in Seq(S), NEW c \in 0..Len(s)
  PROVE  /\ SubSeq(s, c + 1, Len(s)) \in Seq(S) /\ Len(SubSeq(s, c + 1, Len(s))) = Len(s) - c
         /\ \A k \in 1..Len(s) - c : SubSeq(s, c + 1, Len(s))[k] = s[c + k]
         /\ \A n \in 0..Len(s) - c :
              SubSeq(SubSeq(s, c + 1, Len(s)), n + 1, Len(s) - c) = SubSeq(s, c + n + 1, Len(s))
<1> DEFINE r == SubSeq(s, c + 1, Len(s))
<1>1. Len(s) \in Nat /\ c \in Nat /\ c <= Len(s) /\ \A i \in 1..Len(s) : s[i] \in S
  OBVIOUS
<1>2. \A m \in 0..Len(s) : /\ SubSeq(s, m + 1, Len(s)) \in Seq(S) /\ Len(SubSeq(s, m + 1, Len(s))) = Len(s) - m
                           /\ \A k \in 1..Len(s) - m : SubSeq(s, m + 1, Len(s))[k] = s[m + k]
  <2> SUFFICES ASSUME NEW m \in 0..Len(s)
               PROVE  /\ SubSeq(s, m + 1, Len(s)) \in Seq(S) /\ Len(SubSeq(s, m + 1, Len(s))) = Len(s) - m
                      /\ \A k \in 1..Len(s) - m : SubSeq(s, m + 1, Len(s))[k] = s[m + k]
    OBVIOUS
  <2>1. m + 1 \in Int /\ Len(s) \in Int /\ \A i \in (m + 1)..Len(s) : s[i] \in S
    BY <1>1
  <2>2. /\ SubSeq(s, m + 1, Len(s)) \in Seq(S)
        /\ Len(SubSeq(s, m + 1, Len(s))) = IF m + 1 <= Len(s) THEN Len(s) - (m + 1) + 1 ELSE 0
        /\ \A k \in 1..Len(s) - (m + 1) + 1 : SubSeq(s, m + 1, Len(s))[k] = s[(m + 1) + k - 1]
    BY <2>1, SubSeqProperties
  <2> QED BY <1>1, <2>2
<1>3. r \in Seq(S) /\ Len(r) = Len(s) - c /\ \A k \in 1..Len(s) - c : r[k] = s[c + k]
  BY <1>2
<1> QED BY <1>1, <1>3

\* The texts of a word's first pieces, and the first words of a command.
Texts(w, j) == [k \in 1..j |-> w[k].text]
SaidUpTo(ws, i) == [m \in 1..i |-> Texts(ws[m], Len(ws[m]))]

LEMMA TextsGrow ==
  ASSUME NEW w \in Seq(Piece), NEW j \in 0..Len(w)
  PROVE  /\ Texts(w, j) # NoWord /\ Texts(w, 0) = <<>>
         /\ j < Len(w) => Texts(w, j) \o <<w[j + 1].text>> = Texts(w, j + 1)
<1>1. Len(w) \in Nat /\ j \in Nat /\ \A k \in 1..Len(w) : w[k] \in Piece
  OBVIOUS
<1>2. Texts(w, 0) = <<>>
  BY DEF Texts
<1>3. Texts(w, j) # NoWord
  <2>0. Len(NoWord) = 1 /\ NoWord[1] = "no word"
    BY DEF NoWord
  <2>1. CASE j = 0
    <3>1. DOMAIN Texts(w, j) = {}
      BY <2>1 DEF Texts
    <3>2. 1 \in DOMAIN NoWord
      BY DEF NoWord
    <3> QED BY <3>1, <3>2
  <2>2. CASE j # 0
    <3>1. 1 \in 1..j /\ w[1] \in Piece
      BY <1>1, <2>2
    <3>2. Texts(w, j)[1] = w[1].text /\ w[1].text # "no word"
      BY <3>1, WrittenIs DEF Texts
    <3> QED BY <2>0, <3>2
  <2> QED BY <2>1, <2>2
<1>4. ASSUME j < Len(w) PROVE Texts(w, j) \o <<w[j + 1].text>> = Texts(w, j + 1)
  <2> DEFINE a == Texts(w, j)
             b == <<w[j + 1].text>>
  <2>1. w[j + 1] \in Piece
    BY <1>1, <1>4
  <2>2. a \in [1..j -> Signs] /\ \A k \in 1..j : a[k] = w[k].text
    <3>1. \A k \in 1..j : w[k] \in Piece
      BY <1>1
    <3> QED BY <3>1, WrittenIs DEF Texts
  <2>3. b \in Seq(Signs) /\ Len(b) = 1 /\ b[1] = w[j + 1].text
    BY <2>1, WrittenIs, Tuples
  <2> HIDE DEF a, b
  <2>4. a \in Seq(Signs) /\ Len(a) = j
    <3>1. a \in Seq(Signs)
      BY <1>1, <2>2
    <3>2. Len(a) \in Nat /\ DOMAIN a = 1..Len(a)
      BY <3>1
    <3> QED BY <1>1, <2>2, <3>1, <3>2
  <2>5. a \in Seq(Signs) /\ b \in Seq(Signs)
    BY <2>3, <2>4
  <2>6. /\ a \o b \in Seq(Signs) /\ Len(a \o b) = Len(a) + Len(b)
        /\ \A k \in 1..Len(a) : (a \o b)[k] = a[k]
        /\ \A k \in 1..Len(b) : (a \o b)[Len(a) + k] = b[k]
    BY <2>5, PutTogether
  <2>7. (a \o b)[j + 1] = w[j + 1].text
    <3>1. 1 \in 1..Len(b)
      BY <2>3
    <3>2. (a \o b)[Len(a) + 1] = b[1]
      BY <2>6, <3>1
    <3> QED BY <2>3, <2>4, <3>2
  <2> DEFINE z == a \o b
  <2>8. /\ z \in Seq(Signs) /\ Len(z) = j + 1 /\ (\A k \in 1..j : z[k] = w[k].text)
        /\ z[j + 1] = w[j + 1].text
    BY <2>2, <2>3, <2>4, <2>6, <2>7
  <2> HIDE DEF z
  <2>9. z = [k \in 1..(j + 1) |-> z[k]]
    BY <1>1, <2>8
  <2>10. \A k \in 1..(j + 1) : z[k] = w[k].text
    BY <1>1, <2>8
  <2>11. z = [k \in 1..(j + 1) |-> w[k].text]
    BY <2>9, <2>10
  <2> QED BY <2>11 DEF z, a, b, Texts
<1> QED BY <1>2, <1>3, <1>4

LEMMA WordsGrow ==
  ASSUME NEW ws \in Seq(Seq(Piece) \ {<<>>})
  PROVE  /\ SaidUpTo(ws, 0) = <<>> /\ SaidUpTo(ws, Len(ws)) = Meant(ws)
         /\ \A i \in 1..Len(ws) :
              Append(SaidUpTo(ws, i - 1), Texts(ws[i], Len(ws[i]))) = SaidUpTo(ws, i)
<1>1. SaidUpTo(ws, 0) = <<>>
  BY DEF SaidUpTo
<1>2. SaidUpTo(ws, Len(ws)) = Meant(ws)
  BY DEF SaidUpTo, Meant, Texts
<1>3. ASSUME NEW i \in 1..Len(ws)
      PROVE  Append(SaidUpTo(ws, i - 1), Texts(ws[i], Len(ws[i]))) = SaidUpTo(ws, i)
  <2> DEFINE S == {Texts(ws[m], Len(ws[m])) : m \in 1..Len(ws)}
             a == SaidUpTo(ws, i - 1)
             e == Texts(ws[i], Len(ws[i]))
  <2>1. i \in Nat /\ i - 1 \in Nat /\ Len(ws) \in Nat /\ (i - 1) + 1 = i
    OBVIOUS
  <2>2. e \in S
    OBVIOUS
  <2>3. a \in [1..(i - 1) -> S] /\ \A m \in 1..(i - 1) : a[m] = Texts(ws[m], Len(ws[m]))
    <3>1. \A m \in 1..(i - 1) : m \in 1..Len(ws)
      BY <2>1
    <3>2. \A m \in 1..(i - 1) : Texts(ws[m], Len(ws[m])) \in S
      BY <3>1
    <3> HIDE DEF S
    <3> QED BY <3>2 DEF SaidUpTo
  <2> HIDE DEF S, a, e
  <2>4. a \in Seq(S) /\ Len(a) = i - 1
    <3>1. a \in Seq(S)
      BY <2>1, <2>3
    <3>2. Len(a) \in Nat /\ DOMAIN a = 1..Len(a)
      BY <3>1
    <3> QED BY <2>1, <2>3, <3>1, <3>2
  <2>5. Append(a, e) \in Seq(S) /\ Len(Append(a, e)) = i
    BY <2>1, <2>2, <2>4, AppendProperties
  <2>6. (\A m \in 1..(i - 1) : Append(a, e)[m] = a[m]) /\ Append(a, e)[i] = e
    BY <2>1, <2>2, <2>4, AppendProperties
  <2>7. Append(a, e) = [m \in 1..i |-> Append(a, e)[m]]
    <3> DEFINE z == Append(a, e)
    <3>1. z \in Seq(S) /\ Len(z) = i
      BY <2>5
    <3> HIDE DEF z
    <3>2. z = [m \in 1..i |-> z[m]]
      BY <2>1, <3>1
    <3> QED BY <3>2 DEF z
  <2>8. \A m \in 1..i : Append(a, e)[m] = Texts(ws[m], Len(ws[m]))
    BY <2>1, <2>3, <2>6 DEF e
  <2>9. Append(a, e) = [m \in 1..i |-> Texts(ws[m], Len(ws[m]))]
    BY <2>7, <2>8
  <2> QED BY <2>9 DEF a, e, SaidUpTo
<1> QED BY <1>1, <1>2, <1>3

\* Where a piece stands on the line.
LEMMA PieceAt ==
  ASSUME NEW ws \in Seq(Seq(Piece) \ {<<>>}), NEW mark, Marked(ws, Line(ws), mark),
         NEW i \in 1..Len(ws), NEW j \in 1..Len(ws[i])
  PROVE  /\ ws[i] \in Seq(Piece) /\ ws[i][j] \in Piece
         /\ mark[i][j - 1] \in Nat /\ mark[i][j] \in Nat /\ mark[i][j] <= Len(Line(ws))
         /\ ws[i][j].style = "bare" => /\ Line(ws)[mark[i][j - 1] + 1] = ws[i][j].text
                                       /\ mark[i][j] = mark[i][j - 1] + 1
         /\ ws[i][j].style = "escaped" => /\ Line(ws)[mark[i][j - 1] + 1] = "\\"
                                          /\ Line(ws)[mark[i][j - 1] + 2] = ws[i][j].text
                                          /\ mark[i][j] = mark[i][j - 1] + 2
         /\ ws[i][j].style = "single" => /\ Line(ws)[mark[i][j - 1] + 1] = "'"
                                         /\ Line(ws)[mark[i][j - 1] + 2] = ws[i][j].text
                                         /\ Line(ws)[mark[i][j - 1] + 3] = "'"
                                         /\ mark[i][j] = mark[i][j - 1] + 3
         /\ ws[i][j].style = "double" => /\ Line(ws)[mark[i][j - 1] + 1] = "\""
                                         /\ Line(ws)[mark[i][j - 1] + 2] = ws[i][j].text
                                         /\ Line(ws)[mark[i][j - 1] + 3] = "\""
                                         /\ mark[i][j] = mark[i][j - 1] + 3
<1> DEFINE p == ws[i][j]
           c == mark[i][j - 1]
           line == Line(ws)
<1>1. ws[i] \in Seq(Piece) /\ p \in Piece /\ Len(ws[i]) \in Nat
  OBVIOUS
<1>2. Len(line) \in Nat
  <2>1. line \in Seq(Signs)
    BY LineIs
  <2> HIDE DEF line
  <2> QED BY <2>1
<1>3. c \in Nat /\ mark[i][j] \in Nat /\ mark[i][j] <= Len(line)
  <2>1. j - 1 \in 0..Len(ws[i]) /\ j \in 0..Len(ws[i])
    BY <1>1
  <2>2. c \in 0..Len(line) /\ mark[i][j] \in 0..Len(line)
    BY <2>1 DEF Marked
  <2> QED BY <1>2, <2>2
<1>4. /\ mark[i][j] = c + Len(Written(p))
      /\ \A k \in 1..Len(Written(p)) : line[c + k] = Written(p)[k]
  BY DEF Marked
<1> HIDE DEF p, c, line
<1>5. CASE p.style = "bare"
  <2>1. Written(p) = <<p.text>> /\ Len(Written(p)) = 1
    BY <1>1, <1>5, WrittenIs
  <2>2. 1 \in 1..Len(Written(p)) /\ Written(p)[1] = p.text
    BY <2>1
  <2>3. line[c + 1] = p.text /\ mark[i][j] = c + 1
    BY <1>4, <2>1, <2>2
  <2> QED BY <1>1, <1>3, <1>5, <2>3 DEF p, c, line
<1>6. CASE p.style = "escaped"
  <2>1. Written(p) = <<"\\", p.text>> /\ Len(Written(p)) = 2
    BY <1>1, <1>6, WrittenIs
  <2>2. {1, 2} \subseteq 1..Len(Written(p)) /\ Written(p)[1] = "\\" /\ Written(p)[2] = p.text
    BY <2>1
  <2>3. line[c + 1] = "\\" /\ line[c + 2] = p.text /\ mark[i][j] = c + 2
    BY <1>4, <2>1, <2>2
  <2> QED BY <1>1, <1>3, <1>6, <2>3 DEF p, c, line
<1>7. CASE p.style \in {"single", "double"}
  <2> DEFINE q == IF p.style = "single" THEN "'" ELSE "\""
  <2>1. Written(p) = <<q, p.text, q>> /\ Len(Written(p)) = 3
    BY <1>1, <1>7, WrittenIs
  <2> HIDE DEF q
  <2>2. {1, 2, 3} \subseteq 1..Len(Written(p)) /\ Written(p)[1] = q /\ Written(p)[2] = p.text
        /\ Written(p)[3] = q
    BY <2>1
  <2>3. line[c + 1] = q /\ line[c + 2] = p.text /\ line[c + 3] = q /\ mark[i][j] = c + 3
    BY <1>4, <2>1, <2>2
  <2> QED BY <1>1, <1>3, <1>7, <2>3 DEF p, c, line, q
<1>8. p.style \in {"bare", "escaped", "single", "double"}
  BY <1>1, WrittenIs
<1> QED BY <1>5, <1>6, <1>7, <1>8

\* What is left to read stands after the first c characters of the line.
Stands(ws, inp, c) == c \in 0..Len(Line(ws)) /\ inp = SubSeq(Line(ws), c + 1, Len(Line(ws)))

LEMMA AtCursor ==
  ASSUME NEW ws \in Seq(Seq(Piece) \ {<<>>}), NEW inp, NEW c \in Nat, Stands(ws, inp, c)
  PROVE  /\ Len(Line(ws)) \in Nat /\ c <= Len(Line(ws)) /\ Len(inp) = Len(Line(ws)) - c
         /\ (inp = <<>>) <=> c = Len(Line(ws))
         /\ c + 1 <= Len(Line(ws)) => /\ Head(inp) = Line(ws)[c + 1]
                                      /\ Stands(ws, SubSeq(inp, 1 + 1, Len(inp)), c + 1)
         /\ c + 2 <= Len(Line(ws)) => /\ inp[2] = Line(ws)[c + 2]
                                      /\ Stands(ws, SubSeq(inp, 2 + 1, Len(inp)), c + 2)
<1> DEFINE line == Line(ws)
<1>1. line \in Seq(Signs)
  BY LineIs
<1>2. c \in 0..Len(line) /\ inp = SubSeq(line, c + 1, Len(line))
  BY DEF Stands
<1> HIDE DEF line
<1>3. Len(line) \in Nat /\ c <= Len(line)
  BY <1>1, <1>2
<1>4. /\ SubSeq(line, c + 1, Len(line)) \in Seq(Signs) /\ Len(SubSeq(line, c + 1, Len(line))) = Len(line) - c
      /\ \A k \in 1..Len(line) - c : SubSeq(line, c + 1, Len(line))[k] = line[c + k]
      /\ \A n \in 0..Len(line) - c :
           SubSeq(SubSeq(line, c + 1, Len(line)), n + 1, Len(line) - c) = SubSeq(line, c + n + 1, Len(line))
  BY <1>1, <1>2, Dropped
<1>5. /\ inp \in Seq(Signs) /\ Len(inp) = Len(line) - c
      /\ \A k \in 1..Len(line) - c : inp[k] = line[c + k]
      /\ \A n \in 0..Len(line) - c : SubSeq(inp, n + 1, Len(inp)) = SubSeq(line, c + n + 1, Len(line))
  BY <1>2, <1>4
<1>6. (inp = <<>>) <=> c = Len(line)
  <2>1. (inp = <<>>) <=> Len(inp) = 0
    BY <1>5
  <2> QED BY <1>3, <1>5, <2>1
<1>7. ASSUME c + 1 <= Len(line)
      PROVE  Head(inp) = line[c + 1] /\ SubSeq(inp, 1 + 1, Len(inp)) = SubSeq(line, (c + 1) + 1, Len(line))
  <2>1. 1 \in 1..Len(line) - c /\ 1 \in 0..Len(line) - c
    BY <1>3, <1>7
  <2>2. inp[1] = line[c + 1] /\ SubSeq(inp, 1 + 1, Len(inp)) = SubSeq(line, c + 1 + 1, Len(line))
    BY <1>5, <2>1
  <2>3. Head(inp) = inp[1]
    BY <1>3, <1>5, <1>7
  <2> QED BY <2>2, <2>3
<1>8. ASSUME c + 2 <= Len(line)
      PROVE  inp[2] = line[c + 2] /\ SubSeq(inp, 2 + 1, Len(inp)) = SubSeq(line, (c + 2) + 1, Len(line))
  <2>1. 2 \in 1..Len(line) - c /\ 2 \in 0..Len(line) - c
    BY <1>3, <1>8
  <2> QED BY <1>5, <2>1
<1>9. c + 1 <= Len(line) => c + 1 \in 0..Len(line)
  BY <1>3
<1>10. c + 2 <= Len(line) => c + 2 \in 0..Len(line)
  BY <1>3
<1> QED BY <1>3, <1>5, <1>6, <1>7, <1>8, <1>9, <1>10 DEF Stands, line

\* Between two pieces, or inside a quoted one before or after its text.
Between(ws, mark, inp, q, b, wds, i, j) ==
  /\ i \in 1..Len(ws) /\ j \in 0..Len(ws[i])
  /\ Stands(ws, inp, mark[i][j]) /\ q = "no" /\ wds = SaidUpTo(ws, i - 1)
  /\ b = IF j = 0 THEN NoWord ELSE Texts(ws[i], j)

Inside(ws, mark, inp, q, b, wds, i, j, r) ==
  /\ i \in 1..Len(ws) /\ j \in 1..Len(ws[i]) /\ r \in {0, 1}
  /\ ws[i][j].style \in {"single", "double"} /\ q = IF ws[i][j].style = "single" THEN "'" ELSE "\""
  /\ Stands(ws, inp, mark[i][j - 1] + 1 + r) /\ wds = SaidUpTo(ws, i - 1)
  /\ b = Texts(ws[i], (j - 1) + r)

Somewhere(ws, inp, q, b, wds) ==
  \E mark : /\ Marked(ws, Line(ws), mark)
            /\ \E i, j \in Nat : \/ Between(ws, mark, inp, q, b, wds, i, j)
                                 \/ \E r \in {0, 1} : Inside(ws, mark, inp, q, b, wds, i, j, r)

ReadSoFar ==
  \/ spoken = <<>> /\ input = <<>> /\ quote = "no" /\ buf = NoWord /\ words = <<>>
  \/ Somewhere(spoken, input, quote, buf, words)

AllPlain == \A i \in DOMAIN spoken : \A j \in DOMAIN spoken[i] : Plain(spoken[i][j])

\* A step of the parser, without the fields it leaves alone.
Reads == input # <<>> /\ (BlankEnds \/ MetaRejected \/ QuoteOpens \/ QuoteCloses \/ Escape \/ Literal)

LEMMA SignsDiffer ==
  /\ Blank \in Special /\ "'" \in Special /\ "\"" \in Special /\ "\\" \in Special /\ Metas = {";", "$"}
  /\ Metas \subseteq Special
  /\ Blank # "'" /\ Blank # "\"" /\ Blank # "\\" /\ "'" # "\"" /\ "'" # "\\" /\ "\"" # "\\"
  /\ \A m \in Metas : m # Blank /\ m # "'" /\ m # "\"" /\ m # "\\"
  /\ "no" # "'" /\ "no" # "\""
BY DEF Special, Blank, Metas
LEMMA WordIs ==
  ASSUME NEW w \in Seq(Piece), NEW j \in 0..Len(w),
         buf = Texts(w, j) \/ buf = IF j = 0 THEN NoWord ELSE Texts(w, j)
  PROVE  /\ Word = Texts(w, j) /\ Word \o <<>> = Texts(w, j) /\ (j # 0 => buf = Texts(w, j) /\ buf # NoWord)
         /\ j < Len(w) => Word \o <<w[j + 1].text>> = Texts(w, j + 1)
<1>1. Texts(w, j) # NoWord /\ Texts(w, 0) = <<>>
      /\ (j < Len(w) => Texts(w, j) \o <<w[j + 1].text>> = Texts(w, j + 1))
  BY TextsGrow
<1>2. Word = Texts(w, j)
  BY <1>1 DEF Word
<1>3. Texts(w, j) \o <<>> = Texts(w, j)
  <2> DEFINE a == Texts(w, j)
  <2>1. a \in Seq(Signs)
    <3>1. \A k \in 1..j : w[k] \in Piece
      OBVIOUS
    <3>2. a \in [1..j -> Signs]
      BY <3>1, WrittenIs DEF Texts
    <3> HIDE DEF a
    <3> QED BY <3>2
  <2> HIDE DEF a
  <2>2. a \o <<>> = a
    BY <2>1
  <2> QED BY <2>2 DEF a
<1> QED BY <1>1, <1>2, <1>3

LEMMA CursorSums ==
  \A x, y, z \in Nat : /\ x + 1 + 0 = x + 1 /\ x + 1 + 1 = x + 2 /\ x + 0 = x
                       /\ x + 3 <= z => x + 1 <= z /\ x + 2 <= z
                       /\ y = x + 3 => y = (x + 2) + 1
OBVIOUS

\* The next piece is read whole, or its quote is opened.
LEMMA PieceBegins ==
  ASSUME spoken \in Seq(Seq(Piece) \ {<<>>}), AllPlain, NEW mark, Marked(spoken, Line(spoken), mark),
         NEW i \in Nat, NEW j \in Nat, Between(spoken, mark, input, quote, buf, words, i, j),
         j < Len(spoken[i]), Reads
  PROVE  /\ result' = result
         /\ \/ Between(spoken, mark, input', quote', buf', words', i, j + 1)
            \/ Inside(spoken, mark, input', quote', buf', words', i, j + 1, 0)
<1> DEFINE J == j + 1
           w == spoken[i]
           p == w[J]
           c == mark[i][j]
           line == Line(spoken)
<1>1. /\ i \in 1..Len(spoken) /\ J \in 1..Len(w) /\ J - 1 = j /\ w \in Seq(Piece) /\ p \in Piece
      /\ j \in 0..Len(w) /\ J \in 0..Len(w) /\ Len(w) \in Nat
  <2>1. i \in 1..Len(spoken) /\ j \in 0..Len(spoken[i])
    BY DEF Between
  <2>2. w \in Seq(Piece) /\ Len(w) \in Nat
    <3>1. spoken[i] \in Seq(Piece)
      BY <2>1
    <3> QED BY <3>1
  <2> HIDE DEF w
  <2>3. J \in 1..Len(w) /\ J - 1 = j /\ J \in 0..Len(w)
    BY <2>2 DEF w
  <2> QED BY <2>1, <2>2, <2>3 DEF w
<1>2. Stands(spoken, input, c) /\ quote = "no" /\ words = SaidUpTo(spoken, i - 1)
      /\ buf = IF j = 0 THEN NoWord ELSE Texts(w, j)
  BY DEF Between
<1>3. Plain(p)
  BY <1>1 DEF AllPlain
<1>4. /\ Word = Texts(w, j) /\ Word \o <<>> = Texts(w, j)
      /\ Word \o <<p.text>> = Texts(w, J)
  BY <1>1, <1>2, WordIs
<1> HIDE DEF J
<1>5. /\ c \in Nat /\ mark[i][J] \in Nat /\ mark[i][J] <= Len(line)
      /\ p.style = "bare" => line[c + 1] = p.text /\ mark[i][J] = c + 1
      /\ p.style = "escaped" => line[c + 1] = "\\" /\ line[c + 2] = p.text /\ mark[i][J] = c + 2
      /\ p.style = "single" => line[c + 1] = "'" /\ mark[i][J] = c + 3
      /\ p.style = "double" => line[c + 1] = "\"" /\ mark[i][J] = c + 3
  <2>1. /\ mark[i][J - 1] \in Nat /\ mark[i][J] \in Nat /\ mark[i][J] <= Len(line)
        /\ p.style = "bare" => line[mark[i][J - 1] + 1] = p.text /\ mark[i][J] = mark[i][J - 1] + 1
        /\ p.style = "escaped" => /\ line[mark[i][J - 1] + 1] = "\\" /\ line[mark[i][J - 1] + 2] = p.text
                                  /\ mark[i][J] = mark[i][J - 1] + 2
        /\ p.style = "single" => line[mark[i][J - 1] + 1] = "'" /\ mark[i][J] = mark[i][J - 1] + 3
        /\ p.style = "double" => line[mark[i][J - 1] + 1] = "\"" /\ mark[i][J] = mark[i][J - 1] + 3
    <3>1. i \in 1..Len(spoken) /\ J \in 1..Len(spoken[i])
      BY <1>1
    <3> QED BY <3>1, PieceAt
  <2> HIDE DEF p, line
  <2> QED BY <1>1, <2>1
<1>6. /\ Len(line) \in Nat /\ c <= Len(line) /\ Len(input) = Len(line) - c
      /\ c + 1 <= Len(line) => /\ Head(input) = line[c + 1]
                               /\ Stands(spoken, SubSeq(input, 1 + 1, Len(input)), c + 1)
      /\ c + 2 <= Len(line) => /\ input[2] = line[c + 2]
                               /\ Stands(spoken, SubSeq(input, 2 + 1, Len(input)), c + 2)
  BY <1>2, <1>5, AtCursor
<1>7. p.style \in {"bare", "escaped", "single", "double"}
  BY <1>1, WrittenIs
<1> HIDE DEF w, p, c, line
<1>8. CASE p.style = "bare"
  <2>1. Head(input) = p.text /\ Stands(spoken, SubSeq(input, 1 + 1, Len(input)), mark[i][J])
    BY <1>5, <1>6, <1>8
  <2>2. p.text \notin Special
    BY <1>3, <1>8 DEF Plain
  <2>3. Literal
    BY <1>2, <2>1, <2>2, SignsDiffer DEF Reads, BlankEnds, MetaRejected, QuoteOpens, QuoteCloses, Escape
  <2>4. input' = SubSeq(input, 1 + 1, Len(input)) /\ buf' = Texts(w, J) /\ quote' = quote
        /\ words' = words /\ result' = result
    BY <1>4, <2>1, <2>3 DEF Literal, Takes, Adds
  <2>5. J # 0
    BY <1>1
  <2> QED BY <1>1, <1>2, <2>1, <2>4, <2>5 DEF Between, J, w
<1>9. CASE p.style = "escaped"
  <2>1. Head(input) = "\\" /\ input[2] = p.text /\ Stands(spoken, SubSeq(input, 2 + 1, Len(input)), mark[i][J])
        /\ Len(input) # 1
    BY <1>5, <1>6, <1>9
  <2>2. Escape
    BY <1>2, <2>1, SignsDiffer DEF Reads, BlankEnds, MetaRejected, QuoteOpens, QuoteCloses, Literal
  <2>3. input' = SubSeq(input, 2 + 1, Len(input)) /\ buf' = Texts(w, J) /\ quote' = quote
        /\ words' = words /\ result' = result
    BY <1>2, <1>4, <2>1, <2>2 DEF Escape, Takes, Adds
  <2>4. J # 0
    BY <1>1
  <2> QED BY <1>1, <1>2, <2>1, <2>3, <2>4 DEF Between, J, w
<1>10. CASE p.style \in {"single", "double"}
  <2> DEFINE q == IF p.style = "single" THEN "'" ELSE "\""
  <2>1. Head(input) = q /\ Stands(spoken, SubSeq(input, 1 + 1, Len(input)), c + 1) /\ q \in {"'", "\""}
    <3>1. c + 1 <= Len(line) /\ line[c + 1] = q
      <4>1. mark[i][J] = c + 3 /\ line[c + 1] = q
        BY <1>5, <1>10
      <4>2. c + 3 <= Len(line) /\ c \in Nat /\ Len(line) \in Nat
        BY <1>5, <1>6, <4>1
      <4>3. c + 1 <= Len(line)
        BY <4>2, CursorSums, Zenon
      <4> HIDE DEF q
      <4> QED BY <4>1, <4>3
    <3> QED BY <1>6, <3>1
  <2>2. QuoteOpens
    BY <1>2, <2>1, SignsDiffer DEF Reads, BlankEnds, MetaRejected, Escape, QuoteCloses, Literal
  <2>3. input' = SubSeq(input, 1 + 1, Len(input)) /\ buf' = Texts(w, j) /\ quote' = q
        /\ words' = words /\ result' = result
    BY <1>4, <2>1, <2>2 DEF QuoteOpens, Takes, Adds
  <2>4. mark[i][J - 1] + 1 + 0 = c + 1 /\ (J - 1) + 0 = j
    <3>1. mark[i][J - 1] = c /\ J - 1 = j
      BY <1>1 DEF c
    <3>2. c + 1 + 0 = c + 1 /\ j + 0 = j
      <4>1. c \in Nat
        BY <1>5
      <4> QED BY <4>1, CursorSums, Zenon
    <3> QED BY <3>1, <3>2
  <2>5. Inside(spoken, mark, input', quote', buf', words', i, J, 0)
    <3> HIDE DEF q
    <3>1. Stands(spoken, input', mark[i][J - 1] + 1 + 0) /\ buf' = Texts(spoken[i], (J - 1) + 0)
      BY <2>1, <2>3, <2>4 DEF w
    <3>2. words' = SaidUpTo(spoken, i - 1)
      BY <1>2, <2>3
    <3>3. spoken[i][J].style \in {"single", "double"} /\ quote' = IF spoken[i][J].style = "single" THEN "'" ELSE "\""
      BY <1>10, <2>3 DEF p, q, w
    <3>4. i \in 1..Len(spoken) /\ J \in 1..Len(spoken[i])
      BY <1>1 DEF w
    <3> QED BY <3>1, <3>2, <3>3, <3>4 DEF Inside
  <2> QED BY <2>3, <2>5 DEF J
<1> QED BY <1>7, <1>8, <1>9, <1>10
\* A quoted text is read, or its quote is closed.
LEMMA QuotedReads ==
  ASSUME spoken \in Seq(Seq(Piece) \ {<<>>}), AllPlain, NEW mark, Marked(spoken, Line(spoken), mark),
         NEW i \in Nat, NEW j \in Nat, NEW r \in {0, 1},
         Inside(spoken, mark, input, quote, buf, words, i, j, r), Reads
  PROVE  /\ result' = result
         /\ \/ Inside(spoken, mark, input', quote', buf', words', i, j, 1)
            \/ Between(spoken, mark, input', quote', buf', words', i, j)
<1> DEFINE w == spoken[i]
           p == w[j]
           c == mark[i][j - 1]
           o == j - 1
           line == Line(spoken)
           q == IF p.style = "single" THEN "'" ELSE "\""
<1>1. /\ i \in 1..Len(spoken) /\ j \in 1..Len(w) /\ o \in 0..Len(w) /\ j \in 0..Len(w)
      /\ w \in Seq(Piece) /\ p \in Piece /\ Len(w) \in Nat /\ j # 0 /\ o < Len(w) /\ o + 1 = j
  <2>1. i \in 1..Len(spoken) /\ j \in 1..Len(spoken[i])
    BY DEF Inside
  <2>2. w \in Seq(Piece) /\ Len(w) \in Nat
    <3>1. spoken[i] \in Seq(Piece)
      BY <2>1
    <3> QED BY <3>1
  <2>3. j \in 1..Len(w)
    BY <2>1
  <2> HIDE DEF w
  <2>4. o \in 0..Len(w) /\ j \in 0..Len(w) /\ j # 0 /\ o < Len(w) /\ o + 1 = j
    BY <2>2, <2>3
  <2>5. p \in Piece
    BY <2>2, <2>3
  <2> QED BY <2>1, <2>2, <2>3, <2>4, <2>5
<1>2. /\ Stands(spoken, input, c + 1 + r) /\ quote = q /\ words = SaidUpTo(spoken, i - 1)
      /\ buf = Texts(w, o + r) /\ p.style \in {"single", "double"}
  BY DEF Inside
<1>3. Plain(p)
  BY <1>1 DEF AllPlain
<1>4. /\ c \in Nat /\ mark[i][j] \in Nat /\ mark[i][j] <= Len(line)
      /\ p.style = "single" => /\ line[c + 1] = "'" /\ line[c + 2] = p.text /\ line[c + 3] = "'"
                               /\ mark[i][j] = c + 3
      /\ p.style = "double" => /\ line[c + 1] = "\"" /\ line[c + 2] = p.text /\ line[c + 3] = "\""
                               /\ mark[i][j] = c + 3
  <2>1. i \in 1..Len(spoken) /\ j \in 1..Len(spoken[i])
    BY <1>1
  <2> QED BY <2>1, PieceAt
<1> HIDE DEF o
<1>5. Len(line) \in Nat
  <2>1. line \in Seq(Signs)
    BY LineIs
  <2> HIDE DEF line
  <2> QED BY <2>1
<1> HIDE DEF w, p, c, line
<1>6. /\ q \in {"'", "\""} /\ line[c + 2] = p.text /\ line[c + 3] = q /\ mark[i][j] = c + 3
      /\ (q = "'" => p.text # "'") /\ (q = "\"" => p.text \notin {"$", "\"", "\\"})
  <2>1. CASE p.style = "single"
    BY <1>3, <1>4, <2>1, SignsDiffer DEF Plain
  <2>2. CASE p.style = "double"
    BY <1>3, <1>4, <2>2, SignsDiffer DEF Plain
  <2> QED BY <1>2, <2>1, <2>2
<1>7. c + 1 \in Nat /\ c + 2 \in Nat /\ c + 1 + 0 = c + 1 /\ c + 1 + 1 = c + 2 /\ c + 2 <= Len(line)
      /\ c + 3 <= Len(line) /\ c + 2 + 1 = c + 3 /\ o + 0 = o
  <2>1. \A x, z \in Nat : x + 3 <= z =>
          x + 1 \in Nat /\ x + 2 \in Nat /\ x + 1 + 0 = x + 1 /\ x + 1 + 1 = x + 2 /\ x + 2 <= z
          /\ x + 2 + 1 = x + 3
    OBVIOUS
  <2>2. c \in Nat /\ mark[i][j] \in Nat /\ mark[i][j] <= Len(line)
    BY <1>4
  <2>3. mark[i][j] = c + 3
    BY <1>6
  <2>4. o \in Nat /\ o + 0 = o
    BY <1>1
  <2>5. c + 3 <= Len(line)
    BY <2>2, <2>3
  <2> QED BY <1>5, <2>1, <2>2, <2>4, <2>5, Zenon
<1> HIDE DEF q
<1>8. CASE r = 0
  <2>1. Stands(spoken, input, c + 1) /\ buf = Texts(w, o)
    BY <1>2, <1>7, <1>8
  <2>2. Head(input) = p.text /\ Stands(spoken, SubSeq(input, 1 + 1, Len(input)), c + 1 + 1)
    <3>1. c + 1 \in Nat /\ c + 1 + 1 <= Len(Line(spoken))
      BY <1>7 DEF line
    <3> DEFINE d == c + 1
    <3>2. d \in Nat /\ Stands(spoken, input, d) /\ d + 1 <= Len(Line(spoken))
      BY <2>1, <3>1
    <3> HIDE DEF d
    <3>3. Head(input) = Line(spoken)[d + 1] /\ Stands(spoken, SubSeq(input, 1 + 1, Len(input)), d + 1)
      BY <3>2, AtCursor
    <3> QED BY <1>6, <1>7, <3>3 DEF d, line
  <2>3. Literal
    BY <1>2, <1>6, <2>2, SignsDiffer
    DEF Reads, BlankEnds, MetaRejected, QuoteOpens, QuoteCloses, Escape
  <2>4. Word \o <<p.text>> = Texts(w, j)
    <3>1. Word \o <<w[o + 1].text>> = Texts(w, o + 1)
      BY <1>1, <2>1, WordIs
    <3> QED BY <1>1, <3>1 DEF p
  <2>5. input' = SubSeq(input, 1 + 1, Len(input)) /\ buf' = Texts(w, j) /\ quote' = quote
        /\ words' = words /\ result' = result
    BY <2>2, <2>3, <2>4 DEF Literal, Takes, Adds
  <2>6. Inside(spoken, mark, input', quote', buf', words', i, j, 1)
    <3>1. Stands(spoken, input', mark[i][j - 1] + 1 + 1)
      BY <2>2, <2>5 DEF c
    <3>2. buf' = Texts(spoken[i], (j - 1) + 1)
      BY <1>1, <2>5 DEF o, w
    <3>3. i \in 1..Len(spoken) /\ j \in 1..Len(spoken[i]) /\ spoken[i][j].style \in {"single", "double"}
          /\ quote' = IF spoken[i][j].style = "single" THEN "'" ELSE "\""
      BY <1>1, <1>2, <2>5 DEF p, q, w
    <3>4. words' = SaidUpTo(spoken, i - 1)
      BY <1>2, <2>5
    <3> QED BY <3>1, <3>2, <3>3, <3>4 DEF Inside
  <2> QED BY <2>5, <2>6
<1>9. CASE r = 1
  <2>1. Stands(spoken, input, c + 2) /\ buf = Texts(w, j)
    BY <1>1, <1>2, <1>7, <1>9
  <2>2. Head(input) = q /\ Stands(spoken, SubSeq(input, 1 + 1, Len(input)), mark[i][j])
    <3> DEFINE d == c + 2
    <3>1. d \in Nat /\ Stands(spoken, input, d) /\ d + 1 <= Len(Line(spoken)) /\ d + 1 = mark[i][j]
      BY <1>6, <1>7, <2>1 DEF line
    <3> HIDE DEF d
    <3>2. Head(input) = Line(spoken)[d + 1] /\ Stands(spoken, SubSeq(input, 1 + 1, Len(input)), d + 1)
      BY <3>1, AtCursor
    <3> QED BY <1>6, <1>7, <3>1, <3>2 DEF line
  <2>3. QuoteCloses
    BY <1>2, <1>6, <2>2, SignsDiffer
    DEF Reads, BlankEnds, MetaRejected, QuoteOpens, Literal, Escape
  <2>4. input' = SubSeq(input, 1 + 1, Len(input)) /\ buf' = buf /\ quote' = "no"
        /\ words' = words /\ result' = result
    BY <2>3 DEF QuoteCloses, Takes
  <2>5. Between(spoken, mark, input', quote', buf', words', i, j)
    <3>1. Stands(spoken, input', mark[i][j]) /\ buf' = Texts(spoken[i], j) /\ j # 0
      BY <1>1, <2>1, <2>2, <2>4 DEF w
    <3>2. i \in 1..Len(spoken) /\ j \in 0..Len(spoken[i]) /\ quote' = "no" /\ words' = SaidUpTo(spoken, i - 1)
      BY <1>1, <1>2, <2>4 DEF w
    <3> QED BY <3>1, <3>2 DEF Between
  <2> QED BY <2>4, <2>5
<1> QED BY <1>8, <1>9

\* A word ends at a blank, the last one at the end.
LEMMA WordEnds ==
  ASSUME spoken \in Seq(Seq(Piece) \ {<<>>}), NEW mark, Marked(spoken, Line(spoken), mark),
         NEW i \in Nat, NEW j \in Nat, Between(spoken, mark, input, quote, buf, words, i, j),
         j = Len(spoken[i]), Reads \/ EndOfInput
  PROVE  \/ result' = result /\ Between(spoken, mark, input', quote', buf', words', i + 1, 0)
         \/ result' = "check" /\ words' = Meant(spoken)
<1> DEFINE w == spoken[i]
           c == mark[i][j]
           line == Line(spoken)
           n == Len(spoken)
<1>1. i \in 1..n /\ n \in Nat /\ w \in Seq(Piece) /\ w # <<>> /\ Len(w) \in Nat /\ j = Len(w)
  <2>1. i \in 1..n /\ n \in Nat
    BY DEF Between
  <2>2. w \in Seq(Piece) /\ w # <<>>
    BY <2>1
  <2>3. Len(w) \in Nat
    <3> HIDE DEF w
    <3> QED BY <2>2
  <2> QED BY <2>1, <2>2, <2>3
<1>2. j # 0 /\ j \in 0..Len(w) /\ j \in Nat
  <2> HIDE DEF w
  <2> QED BY <1>1
<1>3. Stands(spoken, input, c) /\ quote = "no" /\ words = SaidUpTo(spoken, i - 1) /\ buf = Texts(w, j)
      /\ buf # NoWord
  <2>1. Stands(spoken, input, c) /\ quote = "no" /\ words = SaidUpTo(spoken, i - 1) /\ buf = Texts(w, j)
    BY <1>2 DEF Between
  <2>2. Texts(w, j) # NoWord
    BY <1>1, <1>2, TextsGrow
  <2> QED BY <2>1, <2>2
<1>4. Append(words, buf) = SaidUpTo(spoken, i) /\ SaidUpTo(spoken, n) = Meant(spoken)
  <2>1. Append(SaidUpTo(spoken, i - 1), Texts(spoken[i], Len(spoken[i]))) = SaidUpTo(spoken, i)
        /\ SaidUpTo(spoken, n) = Meant(spoken)
    BY <1>1, WordsGrow
  <2> QED BY <1>1, <1>3, <2>1
<1>5. c \in 0..Len(line) /\ c \in Nat
  <2>1. c \in 0..Len(line)
    BY <1>1, <1>2 DEF Marked
  <2> HIDE DEF c, line
  <2> QED BY <2>1
<1> HIDE DEF w, n
<1>6. /\ Len(line) \in Nat /\ c <= Len(line)
      /\ (input = <<>>) <=> c = Len(line)
      /\ c + 1 <= Len(line) => /\ Head(input) = line[c + 1]
                               /\ Stands(spoken, SubSeq(input, 1 + 1, Len(input)), c + 1)
  BY <1>3, <1>5, AtCursor
<1>7. CASE i = n
  <2>1. c = Len(line)
    BY <1>1, <1>7 DEF Marked, n, w
  <2>2. input = <<>>
    BY <1>6, <2>1
  <2>3. EndOfInput
    BY <2>2 DEF Reads
  <2>4. result' = "check" /\ words' = Append(words, buf)
    BY <1>3, <2>3 DEF EndOfInput
  <2> QED BY <1>4, <1>7, <2>4
<1>8. CASE i # n
  <2> DEFINE m == i + 1
  <2>1. m \in 2..n /\ m - 1 = i /\ m \in 1..n
    BY <1>1, <1>8
  <2> HIDE DEF m
  <2>2. mark[m][0] = c + 1 /\ line[mark[m][0]] = Blank /\ mark[m][0] \in 0..Len(line)
    <3>1. mark[m][0] = mark[m - 1][Len(spoken[m - 1])] + 1 /\ line[mark[m][0]] = Blank
      BY <2>1 DEF Marked, n
    <3>2. 0 \in 0..Len(spoken[m]) 
      <4>1. spoken[m] \in Seq(Piece)
        BY <2>1 DEF n
      <4>2. Len(spoken[m]) \in Nat
        BY <4>1
      <4> QED BY <4>2
    <3>3. mark[m][0] \in 0..Len(line)
      BY <2>1, <3>2 DEF Marked, n
    <3> QED BY <1>1, <2>1, <3>1, <3>3 DEF w
  <2> HIDE DEF c, line
  <2>3. c + 1 <= Len(line) /\ c # Len(line)
    <3>1. \A x, y \in Nat : x + 1 \in 0..y => x + 1 <= y /\ x # y
      OBVIOUS
    <3>2. c + 1 \in 0..Len(line)
      BY <2>2
    <3> QED BY <1>5, <1>6, <3>1, <3>2, Zenon
  <2>4. Head(input) = Blank /\ input # <<>> /\ Stands(spoken, SubSeq(input, 1 + 1, Len(input)), mark[m][0])
    BY <1>6, <2>2, <2>3
  <2>5. BlankEnds
    BY <1>3, <2>4, SignsDiffer
    DEF EndOfInput, Reads, MetaRejected, QuoteOpens, QuoteCloses, Escape, Literal
  <2>6. input' = SubSeq(input, 1 + 1, Len(input)) /\ words' = SaidUpTo(spoken, i) /\ buf' = NoWord
        /\ quote' = "no" /\ result' = result
    BY <1>3, <1>4, <2>5 DEF BlankEnds, Takes
  <2>7. Between(spoken, mark, input', quote', buf', words', m, 0)
    <3>1. 0 \in 0..Len(spoken[m])
      <4>1. spoken[m] \in Seq(Piece)
        BY <2>1 DEF n
      <4>2. Len(spoken[m]) \in Nat
        BY <4>1
      <4> QED BY <4>2
    <3> QED BY <2>1, <2>4, <2>6, <3>1 DEF Between, n
  <2> QED BY <2>6, <2>7 DEF m
<1> QED BY <1>7, <1>8
\* The line is not over before a piece, nor inside quotes.
LEMMA NotOver ==
  ASSUME NEW ws \in Seq(Seq(Piece) \ {<<>>}), NEW mark, Marked(ws, Line(ws), mark),
         NEW i \in 1..Len(ws), NEW J \in 1..Len(ws[i]), NEW inp,
         \/ Stands(ws, inp, mark[i][J - 1])
         \/ ws[i][J].style \in {"single", "double"} /\ \E r \in {0, 1} : Stands(ws, inp, mark[i][J - 1] + 1 + r)
  PROVE  inp # <<>>
<1> DEFINE c == mark[i][J - 1]
           e == mark[i][J]
           line == Line(ws)
           style == ws[i][J].style
<1>1. /\ c \in Nat /\ e \in Nat /\ e <= Len(line) /\ (style = "bare" => e = c + 1)
      /\ (style = "escaped" => e = c + 2) /\ (style = "single" => e = c + 3) /\ (style = "double" => e = c + 3)
      /\ ws[i][J] \in Piece
  BY PieceAt
<1>2. style \in {"bare", "escaped", "single", "double"}
  BY <1>1, WrittenIs
<1>3. Len(line) \in Nat
  <2>1. line \in Seq(Signs)
    BY LineIs
  <2> HIDE DEF line
  <2> QED BY <2>1
<1> HIDE DEF c, e, line, style
<1>4. \A x, y, z \in Nat : (y = x + 1 \/ y = x + 2 \/ y = x + 3) /\ y <= z => x # z
  OBVIOUS
<1>5. \A x, y, z \in Nat : y = x + 3 /\ y <= z => \A r \in {0, 1} : x + 1 + r \in Nat /\ x + 1 + r # z
  OBVIOUS
<1>6. CASE Stands(ws, inp, c)
  <2>1. e = c + 1 \/ e = c + 2 \/ e = c + 3
    BY <1>1, <1>2
  <2>2. c # Len(line) /\ c \in Nat
    BY <1>1, <1>3, <1>4, <2>1, Zenon
  <2>3. (inp = <<>>) <=> c = Len(Line(ws))
    BY <1>6, <2>2, AtCursor
  <2> QED BY <2>2, <2>3 DEF line
<1>7. ASSUME style \in {"single", "double"}, NEW r \in {0, 1}, Stands(ws, inp, c + 1 + r)
      PROVE  inp # <<>>
  <2>1. e = c + 3
    BY <1>1, <1>7
  <2>2. c + 1 + r # Len(line) /\ c + 1 + r \in Nat
    BY <1>1, <1>3, <1>5, <2>1, Zenon
  <2> DEFINE d == c + 1 + r
  <2> HIDE DEF d
  <2>3. d \in Nat /\ Stands(ws, inp, d)
    BY <1>7, <2>2 DEF d
  <2>4. (inp = <<>>) <=> d = Len(Line(ws))
    BY <2>3, AtCursor
  <2> QED BY <2>2, <2>4 DEF line, d
<1> QED BY <1>6, <1>7 DEF c, style

\* A step of the parser goes on as it should, or it has read what was meant.
LEMMA ParserGoesOn ==
  ASSUME spoken \in Seq(Seq(Piece) \ {<<>>}), AllPlain, ReadSoFar, Parse
  PROVE  \/ result' = "parse" /\ ReadSoFar'
         \/ result' = "check" /\ words' = Meant(spoken)
<1>1. result = "parse" /\ spoken' = spoken /\ (Reads \/ EndOfInput) /\ (EndOfInput => input = <<>>)
  BY DEF Parse, Reads, EndOfInput
<1>2. CASE spoken = <<>> /\ input = <<>> /\ quote = "no" /\ buf = NoWord /\ words = <<>>
  <2>1. EndOfInput
    BY <1>1, <1>2 DEF Reads
  <2>2. result' = "check" /\ words' = <<>>
    BY <1>2, <2>1 DEF EndOfInput
  <2>3. Meant(spoken) = <<>>
    BY <1>2 DEF Meant
  <2> QED BY <2>2, <2>3
<1>3. CASE Somewhere(spoken, input, quote, buf, words)
  <2>1. PICK mark : /\ Marked(spoken, Line(spoken), mark)
                    /\ \E i, j \in Nat : \/ Between(spoken, mark, input, quote, buf, words, i, j)
                                         \/ \E r \in {0, 1} : Inside(spoken, mark, input, quote, buf, words, i, j, r)
    BY <1>3 DEF Somewhere
  <2>2. PICK i \in Nat, j \in Nat : \/ Between(spoken, mark, input, quote, buf, words, i, j)
                                    \/ \E r \in {0, 1} : Inside(spoken, mark, input, quote, buf, words, i, j, r)
    BY <2>1
  <2>3. ASSUME NEW I \in Nat, NEW J \in Nat, result' = result,
               \/ Between(spoken, mark, input', quote', buf', words', I, J)
               \/ \E r \in {0, 1} : Inside(spoken, mark, input', quote', buf', words', I, J, r)
        PROVE  result' = "parse" /\ ReadSoFar'
    <3>1. Somewhere(spoken, input', quote', buf', words')
      BY <2>1, <2>3 DEF Somewhere
    <3> QED BY <1>1, <2>3, <3>1 DEF ReadSoFar
  <2>4. CASE Between(spoken, mark, input, quote, buf, words, i, j) /\ j = Len(spoken[i])
    <3>1. \/ result' = result /\ Between(spoken, mark, input', quote', buf', words', i + 1, 0)
          \/ result' = "check" /\ words' = Meant(spoken)
      BY <1>1, <2>1, <2>4, WordEnds
    <3>2. i + 1 \in Nat /\ 0 \in Nat
      OBVIOUS
    <3> QED BY <2>3, <3>1, <3>2
  <2>5. CASE Between(spoken, mark, input, quote, buf, words, i, j) /\ j # Len(spoken[i])
    <3>1. /\ i \in 1..Len(spoken) /\ j < Len(spoken[i]) /\ j + 1 \in 1..Len(spoken[i]) /\ (j + 1) - 1 = j
          /\ j + 1 \in Nat /\ Stands(spoken, input, mark[i][j])
      <4>1. i \in 1..Len(spoken) /\ j \in 0..Len(spoken[i]) /\ Stands(spoken, input, mark[i][j])
        BY <2>5 DEF Between
      <4>2. spoken[i] \in Seq(Piece)
        BY <4>1
      <4>3. Len(spoken[i]) \in Nat
        BY <4>2
      <4>4. \A x, z \in Nat : x \in 0..z /\ x # z => x < z /\ x + 1 \in 1..z /\ (x + 1) - 1 = x /\ x + 1 \in Nat
        OBVIOUS
      <4> QED BY <2>5, <4>1, <4>3, <4>4, Zenon
    <3>2. input # <<>>
      <4> DEFINE J == j + 1
      <4>1. J \in 1..Len(spoken[i]) /\ Stands(spoken, input, mark[i][J - 1])
        BY <3>1
      <4> HIDE DEF J
      <4> QED BY <2>1, <3>1, <4>1, NotOver
    <3>3. Reads
      BY <1>1, <3>2
    <3>4. /\ result' = result
          /\ \/ Between(spoken, mark, input', quote', buf', words', i, j + 1)
             \/ Inside(spoken, mark, input', quote', buf', words', i, j + 1, 0)
      BY <2>1, <2>5, <3>1, <3>3, PieceBegins
    <3> QED BY <2>3, <3>1, <3>4
  <2>6. ASSUME NEW r \in {0, 1}, Inside(spoken, mark, input, quote, buf, words, i, j, r)
        PROVE  result' = "parse" /\ ReadSoFar'
    <3>1. /\ i \in 1..Len(spoken) /\ j \in 1..Len(spoken[i]) /\ spoken[i][j].style \in {"single", "double"}
          /\ Stands(spoken, input, mark[i][j - 1] + 1 + r)
      BY <2>6 DEF Inside
    <3>2. input # <<>>
      BY <2>1, <3>1, NotOver
    <3>3. Reads
      BY <1>1, <3>2
    <3>4. /\ result' = result
          /\ \/ Inside(spoken, mark, input', quote', buf', words', i, j, 1)
             \/ Between(spoken, mark, input', quote', buf', words', i, j)
      BY <2>1, <2>6, <3>3, QuotedReads
    <3> QED BY <2>3, <3>4
  <2> QED BY <2>2, <2>4, <2>5, <2>6
<1> QED BY <1>2, <1>3 DEF ReadSoFar

LEMMA ReadingStarts ==
  ASSUME spoken \in Seq(Seq(Piece) \ {<<>>}), ShellInit
  PROVE  ReadSoFar /\ input \in Seq(Signs)
<1> DEFINE line == Line(spoken)
<1>1. line \in Seq(Signs) /\ \E mark : Marked(spoken, line, mark)
  BY LineIs
<1>2. PICK mark : Marked(spoken, line, mark)
  BY <1>1
<1>3. input = line /\ quote = "no" /\ buf = NoWord /\ words = <<>>
  BY DEF ShellInit
<1>4. Len(spoken) \in Nat
  OBVIOUS
<1>5. CASE Len(spoken) = 0
  <2>1. Len(line) = 0
    BY <1>2, <1>5 DEF Marked
  <2> HIDE DEF line
  <2>2. line = <<>> /\ spoken = <<>>
    BY <1>1, <1>5, <2>1
  <2> QED BY <1>1, <1>3, <2>2 DEF ReadSoFar
<1>6. CASE Len(spoken) > 0
  <2>1. mark[1][0] = 0 /\ 1 \in 1..Len(spoken) /\ 1 - 1 = 0
    BY <1>4, <1>6, <1>2 DEF Marked
  <2>2. spoken[1] \in Seq(Piece)
    BY <2>1
  <2>3. 0 \in 0..Len(spoken[1])
    <3>1. Len(spoken[1]) \in Nat
      BY <2>2
    <3> QED BY <3>1
  <2>4. SaidUpTo(spoken, 0) = <<>>
    BY WordsGrow
  <2> HIDE DEF line
  <2>5. 0 \in 0..Len(line) /\ line = SubSeq(line, 0 + 1, Len(line))
    <3>1. Len(line) \in Nat /\ 0 \in 0..Len(line) /\ 0 + 1 = 1
      BY <1>1
    <3> DEFINE z == SubSeq(line, 0 + 1, Len(line))
    <3>2. z \in Seq(Signs) /\ Len(z) = Len(line) - 0 /\ \A k \in 1..Len(line) - 0 : z[k] = line[0 + k]
      BY <1>1, <3>1, Dropped
    <3> HIDE DEF z
    <3>3. Len(z) = Len(line) /\ \A k \in 1..Len(line) : z[k] = line[k]
      BY <3>1, <3>2
    <3>4. z = line
      BY <1>1, <3>2, <3>3
    <3> QED BY <3>1, <3>4 DEF z
  <2>6. Stands(spoken, input, mark[1][0])
    BY <1>3, <2>1, <2>5 DEF Stands, line
  <2>7. Between(spoken, mark, input, quote, buf, words, 1, 0)
    BY <1>3, <2>1, <2>3, <2>4, <2>6 DEF Between
  <2>8. Somewhere(spoken, input, quote, buf, words)
    BY <1>2, <2>7 DEF Somewhere, line
  <2> QED BY <1>1, <1>3, <2>8 DEF ReadSoFar
<1> QED BY <1>4, <1>5, <1>6
\* What a step of the parser leaves behind is text.
Texted(inp, b, wds) == inp \in Seq(Signs) /\ b \in Seq(Signs) /\ wds \in Seq(Seq(Signs))

\* The invariant: as much has been read as was meant; links lead to what is no
\* link; what runs names no link, and only what may be read.
ShellInv ==
  /\ spoken \in Spoken /\ ShellTypeOK /\ Texted(input, buf, words)
  /\ AllPlain /\ result = "parse" => ReadSoFar
  /\ AllPlain /\ result # "parse" => words = Meant(spoken)
  /\ \A p \in DOMAIN Path : real[p] \notin Links /\ (p \notin Links => real[p] = p)
  /\ result \in {"spawn", "runs", "ok"} =>
       \A i \in DOMAIN argv : IsPath(argv[i]) =>
         argv[i][1] \notin Links /\ Allowed(argv[i][1]) /\ ~Denied(argv[i][1])

LEMMA NoWordIsText == NoWord \in Seq(Signs)
<1> DEFINE a == "no word"
<1>1. a \in Signs
  BY DEF Signs
<1> HIDE DEF a
<1>2. <<a>> \in Seq(Signs)
  BY <1>1, Tuples, Zenon
<1> QED BY <1>2 DEF NoWord, a

LEMMA ShellStarts == ShellAssumption /\ ShellInit => ShellInv
<1> SUFFICES ASSUME ShellAssumption, ShellInit PROVE ShellInv
  OBVIOUS
<1>1. spoken \in Seq(Seq(Piece) \ {<<>>})
  BY DEF ShellAssumption, ShellInit
<1>2. ReadSoFar /\ input \in Seq(Signs)
  BY <1>1, ReadingStarts
<1>3. NoWord \in Seq(Signs)
  BY NoWordIsText
<1>4. <<>> \in Seq(Seq(Signs))
  BY EmptySeq
<1>5. Texted(input, buf, words)
  BY <1>2, <1>3, <1>4 DEF Texted, ShellInit
<1>6. ShellTypeOK
  BY DEF ShellTypeOK, ShellInit, ShellAssumption
<1>7. \A p \in DOMAIN Path : real[p] \notin Links /\ (p \notin Links => real[p] = p)
  BY DEF ShellInit
<1> QED BY <1>2, <1>5, <1>6, <1>7 DEF ShellInv, ShellInit

LEMMA CheckedIsAllowed ==
  ASSUME ShellAssumption, ShellInv, Check, result' = "spawn"
  PROVE  \A i \in DOMAIN argv' : IsPath(argv'[i]) =>
           argv'[i][1] \notin Links /\ Allowed(argv'[i][1]) /\ ~Denied(argv'[i][1])
<1> DEFINE v == Verb
<1>1. v \in DOMAIN Verbs /\ FitsSchema(v) /\ argv' = Substituted(v)
  BY DEF Check
<1>2. Len(words) \in Nat
  <2>1. words \in Seq(Seq(Signs))
    BY DEF ShellInv, Texted
  <2> QED BY <2>1
<1>3. argv' = [i \in 1..Len(words) |-> IF i \in Positionals(v) THEN <<real[words[i][1]]>> ELSE words[i]]
  BY <1>1 DEF Substituted
<1>4. \A i \in Positionals(v) : IsPath(words[i]) /\ Resolves(words[i][1])
  BY <1>1 DEF FitsSchema
<1>5. ({v, "5"} \cup Verbs[v].flags \cup Verbs[v].values) \cap DOMAIN Path = {}
  BY <1>1 DEF ShellAssumption
<1>6. ASSUME NEW i \in 1..Len(words), i \in Positionals(v)
      PROVE  argv'[i][1] \notin Links /\ Allowed(argv'[i][1]) /\ ~Denied(argv'[i][1])
  <2>1. words[i][1] \in DOMAIN Path /\ ~Denied(real[words[i][1]]) /\ Allowed(real[words[i][1]])
    BY <1>4, <1>6 DEF IsPath, Resolves
  <2>2. real[words[i][1]] \notin Links
    BY <2>1 DEF ShellInv
  <2>3. argv'[i][1] = real[words[i][1]]
    BY <1>3, <1>6
  <2> QED BY <2>1, <2>2, <2>3
<1>7. ASSUME NEW i \in 1..Len(words), i \notin Positionals(v) PROVE ~IsPath(words[i])
  <2>1. CASE i = 1
    <3>1. Len(words[1]) = 1 => words[1][1] = v
      BY <1>2, <2>1 DEF Verb
    <3> QED BY <1>5, <2>1, <3>1 DEF IsPath
  <2>2. CASE i # 1
    <3>1. i \in 2..Len(words)
      BY <1>2, <2>2
    <3>2. IsFlag(v, i) \/ IsValue(v, i)
      BY <1>7, <3>1 DEF Positionals
    <3>3. CASE IsFlag(v, i)
      BY <1>5, <3>3 DEF IsPath, IsFlag
    <3>4. CASE IsValue(v, i)
      <4>1. words[i] = <<"5">>
        BY <1>1, <3>1, <3>4 DEF FitsSchema
      <4> QED BY <1>5, <4>1 DEF IsPath
    <3> QED BY <3>2, <3>3, <3>4
  <2> QED BY <2>1, <2>2
<1>8. \A i \in 1..Len(words) : i \notin Positionals(v) => argv'[i] = words[i]
  BY <1>3
<1>9. DOMAIN argv' = 1..Len(words)
  BY <1>3
<1> QED BY <1>6, <1>7, <1>8, <1>9 DEF IsPath

LEMMA TextStays ==
  ASSUME Texted(input, buf, words), Parse
  PROVE  Texted(input', buf', words') /\ quote' \in {quote, "no", "'", "\""}
<1>1. input \in Seq(Signs) /\ buf \in Seq(Signs) /\ words \in Seq(Seq(Signs))
  BY DEF Texted
<1>2. \A n \in 1..2 : SubSeq(input, n + 1, Len(input)) \in Seq(Signs)
  <2> TAKE n \in 1..2
  <2>1. Len(input) \in Nat /\ \A k \in 1..Len(input) : input[k] \in Signs
    BY <1>1
  <2>2. \A k \in (n + 1)..Len(input) : input[k] \in Signs
    BY <2>1
  <2> DEFINE a == n + 1
             z == Len(input)
  <2>3. a \in Int /\ z \in Int /\ \A k \in a..z : input[k] \in Signs
    BY <2>1, <2>2
  <2> HIDE DEF a, z
  <2>4. SubSeq(input, a, z) \in Seq(Signs)
    BY <2>3, SubSeqProperties
  <2> QED BY <2>4 DEF a, z
<1>13. \A n \in 1..2 : Takes(n) => input' \in Seq(Signs)
  BY <1>2 DEF Takes
<1>14. (Takes(1) => input' \in Seq(Signs)) /\ (Takes(2) => input' \in Seq(Signs))
  <2>1. 1 \in 1..2 /\ 2 \in 1..2
    OBVIOUS
  <2> QED BY <1>13, <2>1, Zenon
<1>3. \A s \in Seq(Signs) : buf \o s \in Seq(Signs) /\ <<>> \o s \in Seq(Signs)
  <2>1. <<>> \in Seq(Signs)
    BY EmptySeq
  <2> QED BY <1>1, <2>1, PutTogether
<1>4. \A s \in Seq(Signs) : Adds(s) => buf' \in Seq(Signs)
  BY <1>3 DEF Adds, Word
<1>5. Append(words, buf) \in Seq(Seq(Signs)) /\ NoWord \in Seq(Signs)
  <2>1. NoWord \in Seq(Signs)
    BY NoWordIsText
  <2>2. Append(words, buf) \in Seq(Seq(Signs))
    BY <1>1, AppendProperties
  <2> QED BY <2>1, <2>2
<1>6. CASE EndOfInput
  BY <1>1, <1>5, <1>6 DEF EndOfInput, Rejects, Texted
<1>7. CASE input # <<>> /\ BlankEnds
  BY <1>1, <1>2, <1>5, <1>7 DEF BlankEnds, Takes, Texted
<1>8. CASE input # <<>> /\ MetaRejected
  BY <1>1, <1>8 DEF MetaRejected, Rejects, Texted
<1>9. CASE input # <<>> /\ QuoteOpens
  <2>1. <<>> \in Seq(Signs)
    BY EmptySeq
  <2>2. buf' \in Seq(Signs) /\ input' \in Seq(Signs) /\ words' = words
    BY <1>4, <1>9, <1>14, <2>1 DEF QuoteOpens
  <2> QED BY <1>1, <1>9, <2>2 DEF Texted, QuoteOpens
<1>10. CASE input # <<>> /\ QuoteCloses
  BY <1>1, <1>2, <1>10 DEF QuoteCloses, Takes, Texted
<1>11. CASE input # <<>> /\ Escape
  <2>1. CASE Len(input) = 1
    BY <1>1, <1>11, <2>1 DEF Escape, Rejects, Texted
  <2>2. CASE Len(input) # 1
    <3>1. input[2] \in Signs
      <4>1. Len(input) \in Nat /\ Len(input) # 0
        BY <1>1, <1>11
      <4>2. \A z \in Nat : z # 0 /\ z # 1 => 2 \in 1..z
        OBVIOUS
      <4>3. 2 \in 1..Len(input)
        BY <2>2, <4>1, <4>2, Zenon
      <4> QED BY <1>1, <4>3
    <3> DEFINE a == input[2]
               bar == "\\"
    <3>2. a \in Signs /\ bar \in Signs
      BY <3>1 DEF Signs, Special
    <3> HIDE DEF a, bar
    <3>3. <<a>> \in Seq(Signs) /\ <<bar, a>> \in Seq(Signs)
      BY <3>2, Tuples, Zenon
    <3>4. Adds(<<a>>) \/ Adds(<<bar, a>>)
      BY <1>11, <2>2 DEF Escape, a, bar
    <3>5. buf' \in Seq(Signs)
      BY <1>4, <3>3, <3>4
    <3>6. input' \in Seq(Signs) /\ words' = words /\ quote' = quote
      BY <1>11, <1>14, <2>2 DEF Escape
    <3> QED BY <1>1, <3>5, <3>6 DEF Texted
  <2> QED BY <2>1, <2>2
<1>12. CASE input # <<>> /\ Literal
  <2>1. Head(input) \in Signs
    BY <1>1, <1>12
  <2>2. <<Head(input)>> \in Seq(Signs)
    BY <2>1
  <2>3. buf' \in Seq(Signs) /\ input' \in Seq(Signs) /\ words' = words /\ quote' = quote
    BY <1>4, <1>12, <1>14, <2>2 DEF Literal
  <2> QED BY <1>1, <2>3 DEF Texted
<1> QED BY <1>6, <1>7, <1>8, <1>9, <1>10, <1>11, <1>12 DEF Parse

LEMMA ShellStep == ShellAssumption /\ ShellInv /\ [ShellNext]_shellVars => ShellInv'
<1> SUFFICES ASSUME ShellAssumption, ShellInv, [ShellNext]_shellVars PROVE ShellInv'
  OBVIOUS
<1>0. /\ spoken \in Spoken /\ ShellTypeOK /\ Texted(input, buf, words)
      /\ AllPlain /\ result = "parse" => ReadSoFar
      /\ AllPlain /\ result # "parse" => words = Meant(spoken)
      /\ \A p \in DOMAIN Path : real[p] \notin Links /\ (p \notin Links => real[p] = p)
  BY DEF ShellInv
<1>1. spoken \in Seq(Seq(Piece) \ {<<>>})
  BY <1>0 DEF ShellAssumption
<1>2. CASE Parse
  <2>1. result = "parse" /\ spoken' = spoken /\ real' = real /\ argv' = argv /\ printed' = printed /\ got' = got
        /\ result' \in {"parse", "check", "rejected"}
    BY <1>2 DEF Parse, EndOfInput, BlankEnds, MetaRejected, QuoteOpens, QuoteCloses, Escape, Literal, Rejects
  <2>2. Texted(input', buf', words') /\ quote' \in {quote, "no", "'", "\""}
    BY <1>0, <1>2, TextStays
  <2>3. AllPlain => \/ result' = "parse" /\ ReadSoFar'
                    \/ result' = "check" /\ words' = Meant(spoken)
    BY <1>0, <1>1, <1>2, <2>1, ParserGoesOn
  <2>4. AllPlain' <=> AllPlain
    BY <2>1 DEF AllPlain
  <2>5. ShellTypeOK'
    BY <1>0, <2>1, <2>2 DEF ShellTypeOK
  <2>6. Texted(input, buf, words)'
    BY <2>2 DEF Texted
  <2>7. /\ (AllPlain /\ result = "parse" => ReadSoFar)'
        /\ (AllPlain /\ result # "parse" => words = Meant(spoken))'
    BY <2>1, <2>3, <2>4
  <2> QED BY <1>0, <2>1, <2>5, <2>6, <2>7 DEF ShellInv
<1>3. ASSUME UNCHANGED <<spoken, input, quote, buf, words>>, result # "parse" /\ result' # "parse"
      PROVE  /\ spoken' \in Spoken /\ Texted(input, buf, words)' /\ (AllPlain /\ result = "parse" => ReadSoFar)'
             /\ (AllPlain /\ result # "parse" => words = Meant(spoken))'
  BY <1>0, <1>3 DEF Texted, AllPlain
<1>4. CASE Check
  <2>1. UNCHANGED <<spoken, input, quote, buf, words, real, printed, got>> /\ result = "check"
        /\ result' \in {"spawn", "rejected"}
    BY <1>4 DEF Check
  <2>2. ShellTypeOK'
    BY <1>0, <2>1 DEF ShellTypeOK
  <2>3. CASE result' = "spawn"
    BY <1>0, <1>3, <1>4, <2>1, <2>2, <2>3, CheckedIsAllowed DEF ShellInv
  <2>4. CASE result' = "rejected"
    BY <1>0, <1>3, <2>1, <2>2, <2>4 DEF ShellInv
  <2> QED BY <2>1, <2>3, <2>4
<1>5. ASSUME NEW to \in {"runs", "failed", "ok", "timeout"}, result \in {"spawn", "runs"}, Runs(to)
      PROVE  ShellInv'
  <2>1. UNCHANGED <<spoken, input, quote, buf, words, real, argv, printed, got>> /\ result' = to
    BY <1>5 DEF Runs
  <2>2. ShellTypeOK'
    BY <1>0, <2>1 DEF ShellTypeOK
  <2> QED BY <1>0, <1>3, <1>5, <2>1, <2>2 DEF ShellInv
<1>6. CASE Spawn
  BY <1>5, <1>6 DEF Spawn
<1>7. CASE Exit
  BY <1>5, <1>7 DEF Exit
<1>8. CASE Prints \/ Data
  <2>1. UNCHANGED <<spoken, input, quote, buf, words, real, argv>> /\ result = "runs" /\ result' \in {"runs", "cap"}
    BY <1>8 DEF Prints, Data
  <2>2. ShellTypeOK'
    <3>1. OutputCap \in Nat
      BY DEF ShellAssumption
    <3>2. got' \in 0..OutputCap /\ printed' \in 0..OutputCap + 1
      <4>1. got \in 0..OutputCap /\ printed \in 0..OutputCap + 1
        BY <1>0 DEF ShellTypeOK
      <4>2. CASE Prints
        <5>1. printed <= OutputCap /\ printed' = printed + 1 /\ got' = got
          BY <4>2 DEF Prints
        <5> QED BY <3>1, <4>1, <5>1
      <4>3. CASE Data
        <5>1. printed' = printed /\ (got' = got \/ (got + 1 <= OutputCap /\ got' = got + 1))
          <6>1. got + 1 > OutputCap \/ got + 1 <= OutputCap
            BY <3>1, <4>1
          <6> QED BY <4>3, <6>1 DEF Data
        <5> QED BY <3>1, <4>1, <5>1
      <4> QED BY <1>8, <4>2, <4>3
    <3> QED BY <1>0, <2>1, <3>2 DEF ShellTypeOK
  <2> QED BY <1>0, <1>3, <2>1, <2>2 DEF ShellInv
<1>9. CASE LinkMoves
  <2>1. UNCHANGED <<spoken, input, quote, buf, words, argv, printed, got, result>> /\ result \in {"check", "spawn"}
    BY <1>9 DEF LinkMoves
  <2>2. PICK l \in Links, p \in DOMAIN Path \ Links : real' = [real EXCEPT ![l] = p]
    BY <1>9 DEF LinkMoves
  <2>3. ShellTypeOK'
    BY <1>0, <2>1, <2>2 DEF ShellTypeOK
  <2>4. \A x \in DOMAIN Path : real'[x] \notin Links /\ (x \notin Links => real'[x] = x)
    BY <1>0, <2>2 DEF ShellTypeOK
  <2> QED BY <1>0, <1>3, <2>1, <2>3, <2>4 DEF ShellInv
<1>10. CASE UNCHANGED shellVars
  <2>1. UNCHANGED <<spoken, input, quote, buf, words, real, argv, printed, got, result>>
    BY <1>10 DEF shellVars
  <2> QED BY <2>1 DEF ShellInv, ShellTypeOK, Texted, AllPlain, ReadSoFar
<1> QED BY <1>2, <1>4, <1>6, <1>7, <1>8, <1>9, <1>10 DEF ShellNext

LEMMA ShellKeepsFaith == ShellInv => RunsWhatWasMeant
<1> SUFFICES ASSUME ShellInv PROVE RunsWhatWasMeant
  OBVIOUS
<1>1. AllPlain /\ result # "parse" => words = Meant(spoken)
  BY DEF ShellInv
<1>2. ASSUME result \in {"spawn", "runs", "ok"}, NEW i \in DOMAIN argv, IsPath(argv[i])
      PROVE  Allowed(real[argv[i][1]]) /\ ~Denied(real[argv[i][1]])
  <2>1. argv[i][1] \in DOMAIN Path /\ argv[i][1] \notin Links /\ Allowed(argv[i][1]) /\ ~Denied(argv[i][1])
    BY <1>2 DEF ShellInv, IsPath
  <2>2. real[argv[i][1]] = argv[i][1]
    BY <2>1 DEF ShellInv
  <2> QED BY <2>1, <2>2
<1> QED BY <1>1, <1>2 DEF RunsWhatWasMeant, AllPlain

\* What runs is what was meant: whatever was said, and wherever the links are
\* moved between the check and the run, the parser's words are those meant and
\* each path that is opened is one that may be read.
THEOREM WhatRunsWasMeant == ShellSpec => []RunsWhatWasMeant
<1>1. ShellInit => ShellInv
  BY ShellStarts, ShellAssumption
<1>2. ShellInv /\ [ShellNext]_shellVars => ShellInv'
  BY ShellStep, ShellAssumption
<1> QED BY <1>1, <1>2, ShellKeepsFaith, PTL DEF ShellSpec

-----------------------------------------------------------------------------
(* The types of the services *)

\* The rows a round takes are queued messages.
LEMMA PendingAreQueued == ASSUME order \in Seq(Msg) PROVE PendingRows \in Seq(Msg)
<1> DEFINE T == Seq(Msg)
           m == Len(order)
           nil == <<>>
           F == [p \in T \X Msg |-> Taken(p[1], p[2])]
           Value(h, s) == IF s = {} THEN <<>> ELSE Taken(h[s \ {Max(s)}], order[Max(s)])
           Run(h) == h = [s \in SUBSET (DOMAIN order) |-> Value(h, s)]
           it == CHOOSE h : Run(h)
<1>1. m \in Nat /\ DOMAIN order = 1..m /\ \A i \in 1..m : order[i] \in Msg
  OBVIOUS
<1>2. nil \in T
  BY EmptySeq
<1>3. \A ready \in T, x \in Msg : Taken(ready, x) \in T
  BY AppendProperties DEF Taken
<1> HIDE DEF T
<1>4. F \in [T \X Msg -> T]
  BY <1>3
<1>5. PICK h \in [SUBSET (1..m) -> T] : Folds(order, nil, F, h)
  <2>1. order \in Seq(Msg)
    OBVIOUS
  <2> HIDE DEF F, nil
  <2>2. \E h \in [SUBSET (1..Len(order)) -> T] : Folds(order, nil, F, h)
    BY <1>2, <1>4, <2>1, FoldRuns
  <2> QED BY <2>2
<1>6. Run(h)
  <2>1. h = [s \in SUBSET (1..m) |-> IF s = {} THEN <<>> ELSE F[<<h[s \ {Max(s)}], order[Max(s)]>>]]
    BY <1>5 DEF Folds
  <2>2. ASSUME NEW s \in SUBSET (1..m), s # {}
        PROVE  F[<<h[s \ {Max(s)}], order[Max(s)]>>] = Taken(h[s \ {Max(s)}], order[Max(s)])
    <3>1. Max(s) \in 1..m
      <4>1. s \in SUBSET (0..m)
        BY <1>1
      <4> QED BY <1>1, <2>2, <4>1, MaxIs
    <3>2. h[s \ {Max(s)}] \in T /\ order[Max(s)] \in Msg
      BY <1>1, <1>5, <3>1
    <3> QED BY <3>2
  <2> HIDE DEF F
  <2> QED BY <1>1, <2>1, <2>2
<1>7. Run(it)
  BY <1>6
<1>8. \A s \in SUBSET (1..m) : it[s] = Value(it, s)
  <2> HIDE DEF it
  <2> QED BY <1>1, <1>7
<1>9. PendingRows = it[1..m]
  BY <1>1 DEF PendingRows, FoldLeft, MapThenFoldSet
<1> HIDE DEF it
<1>10. it[{}] \in T
  BY <1>2, <1>8
<1>11. ASSUME NEW n \in Nat, n + 1 <= m, it[1..n] \in T PROVE it[1..(n + 1)] \in T
  <2>1. n + 1 \in 1..m /\ 1..(n + 1) \in SUBSET (1..m) /\ 1..(n + 1) # {}
    <3>1. n + 1 \in 1..(n + 1)
      OBVIOUS
    <3> QED BY <1>1, <1>11, <3>1
  <2>2. Max(1..(n + 1)) = n + 1 /\ (1..(n + 1)) \ {n + 1} = 1..n
    BY MaxOfPrefix
  <2>3. it[1..(n + 1)] = Taken(it[1..n], order[n + 1])
    BY <1>8, <2>1, <2>2
  <2> QED BY <1>1, <1>3, <1>11, <2>1, <2>3
<1>12. it[1..m] \in T
  <2> HIDE DEF m
  <2> QED BY <1>1, <1>10, <1>11, AllAlong
<1> QED BY <1>9, <1>12 DEF T

LEMMA QueueTypes ==
  /\ QueueInit => QueueTypeOK
  /\ QueueTypeOK /\ [QueueNext]_queueVars => QueueTypeOK'
<1>1. QueueInit => QueueTypeOK
  <2>1. <<>> \in Seq(Msg) /\ 0 \in 0..Restarts
    BY EmptySeq, QueueAssumption
  <2> QED BY <2>1 DEF QueueInit, QueueTypeOK, NoRow
<1>2. ASSUME QueueTypeOK, [QueueNext]_queueVars PROVE QueueTypeOK'
  <2>0. /\ order \in Seq(Msg) /\ whole \subseteq Msg /\ looping \in BOOLEAN
        /\ entry \in [Msg -> [status : {"none", "pending", "delivered", "failed"},
                              tries : Nat, due : BOOLEAN]]
        /\ round \in [Round -> Seq(Msg)] /\ restarts \in 0..Restarts
    BY <1>2 DEF QueueTypeOK
  <2>1. ASSUME NEW m \in Msg, Enqueue(m) PROVE QueueTypeOK'
    <3>1. order' \in Seq(Msg)
      BY <2>0, <2>1, AppendProperties DEF Enqueue
    <3> QED BY <2>0, <2>1, <3>1 DEF Enqueue, QueueTypeOK
  <2>2. ASSUME NEW m \in Msg, RowDue(m) PROVE QueueTypeOK'
    BY <2>0, <2>2 DEF RowDue, QueueTypeOK
  <2>3. ASSUME NEW r \in Round, QueueTick(r) PROVE QueueTypeOK'
    <3>1. PendingRows \in Seq(Msg)
      BY <2>0, PendingAreQueued
    <3> QED BY <2>0, <2>3, <3>1 DEF QueueTick, QueueTypeOK
  <2>4. ASSUME NEW r \in Round, SendEnds(r) PROVE QueueTypeOK'
    <3> DEFINE m == Head(round[r])
    <3>1. round[r] \in Seq(Msg) /\ round[r] # <<>>
      BY <2>0, <2>4 DEF SendEnds
    <3>2. m \in Msg /\ Tail(round[r]) \in Seq(Msg)
      BY <3>1
    <3>3. round' \in [Round -> Seq(Msg)]
      BY <2>0, <2>4, <3>2 DEF SendEnds
    <3>4. SendSettles(r, m)
      BY <2>4 DEF SendEnds
    <3> HIDE DEF m
    <3>5. whole' \subseteq Msg /\ (Delivered(m) \/ Failed(m))
      BY <2>0, <3>2, <3>4 DEF SendSettles
    <3>6. entry[m].tries \in Nat /\ entry[m].tries + 1 \in Nat
      BY <2>0, <3>2
    <3>7. entry' \in [Msg -> [status : {"none", "pending", "delivered", "failed"},
                              tries : Nat, due : BOOLEAN]]
      BY <2>0, <3>2, <3>5, <3>6 DEF Delivered, Failed
    <3> QED BY <2>0, <2>4, <3>3, <3>5, <3>7 DEF SendEnds, QueueTypeOK
  <2>5. CASE QueueStop
    BY <2>0, <2>5 DEF QueueStop, QueueTypeOK
  <2>6. CASE QueueRestart
    <3>1. \A r \in Round : round[r] # <<>> => round[r][1] \in Msg
      <4> TAKE r \in Round
      <4>1. round[r] \in Seq(Msg)
        BY <2>0
      <4> QED BY <4>1
    <3>2. whole' \subseteq Msg
      BY <2>0, <2>6, <3>1 DEF QueueRestart
    <3>3. restarts' \in 0..Restarts
      BY <2>0, <2>6, QueueAssumption DEF QueueRestart
    <3>4. <<>> \in Seq(Msg)
      BY EmptySeq
    <3> QED BY <2>0, <2>6, <3>2, <3>3, <3>4 DEF QueueRestart, QueueTypeOK
  <2>7. CASE UNCHANGED queueVars
    BY <2>0, <2>7 DEF queueVars, QueueTypeOK
  <2> QED BY <1>2, <2>1, <2>2, <2>3, <2>4, <2>5, <2>6, <2>7 DEF QueueNext
<1> QED BY <1>1, <1>2

LEMMA SwitchTypes ==
  /\ SwitchInit => SwitchTypeOK
  /\ SwitchTypeOK /\ [SwitchNext]_switchVars => SwitchTypeOK'
<1>1. SwitchInit => SwitchTypeOK
  <2> SUFFICES ASSUME SwitchInit PROVE SwitchTypeOK
    OBVIOUS
  <2>1. reqAt \in [Req -> SwitchStage]
    BY DEF SwitchInit, SwitchStage
  <2>2. confirms \in 0..MaxConfirms /\ spent \in [Req -> Nat]
    BY SwitchAssumption DEF SwitchInit
  <2>3. limitsBy \in Req \cup {NoReq} /\ pendingEnable \in Req \cup {NoReq}
    BY DEF SwitchInit
  <2> QED BY <2>1, <2>2, <2>3 DEF SwitchInit, SwitchTypeOK
<1>2. ASSUME SwitchTypeOK, [SwitchNext]_switchVars PROVE SwitchTypeOK'
  <2>0. /\ tradingEnabled \in BOOLEAN /\ codeFresh \in BOOLEAN
        /\ limitsBy \in Req \cup {NoReq} /\ pendingEnable \in Req \cup {NoReq}
        /\ reqAt \in [Req -> SwitchStage] /\ confirms \in 0..MaxConfirms
        /\ codesTold \subseteq Req /\ cancelled \subseteq Req /\ spent \in [Req -> Nat]
    BY <1>2 DEF SwitchTypeOK
  <2>1. ASSUME NEW r \in Req, NEW from, NEW to \in SwitchStage, Goes(r, from, to) PROVE reqAt' \in [Req -> SwitchStage]
    BY <2>0, <2>1 DEF Goes
  <2>2. {"new", "limits", "sending", "disabling", "saving", "enabling", "done"} = SwitchStage
    BY DEF SwitchStage
  <2> USE DEF SwitchTypeOK
  <2>3. ASSUME NEW r \in Req, EnableRequested(r) \/ SaveRequested(r) \/ BadLimits(r) PROVE SwitchTypeOK'
    BY <2>0, <2>1, <2>2, <2>3 DEF EnableRequested, SaveRequested, BadLimits
  <2>4. ASSUME NEW r \in Req, EnableSends(r) \/ FieldsWritten(r) PROVE SwitchTypeOK'
    BY <2>0, <2>1, <2>2, <2>4 DEF EnableSends, FieldsWritten, LimitsWritten
  <2>5. ASSUME NEW r \in Req, CodeSent(r) PROVE SwitchTypeOK'
    BY <2>0, <2>1, <2>2, <2>5 DEF CodeSent
  <2>6. ASSUME NEW r \in Req, DisableRequested(r) PROVE SwitchTypeOK'
    BY <2>0, <2>1, <2>2, <2>6 DEF DisableRequested
  <2>7. ASSUME NEW r \in Req, ConfirmRequested(r) PROVE SwitchTypeOK'
    <3>1. confirms' \in 0..MaxConfirms
      BY <2>0, <2>7, SwitchAssumption DEF ConfirmRequested
    <3>2. PICK code \in codesTold \cup {NoReq} :
             IF CheckOtp(code)
             THEN /\ Goes(r, "new", "enabling")
                  /\ pendingEnable' = NoReq
                  /\ spent' = [spent EXCEPT ![code] = @ + 1]
             ELSE Goes(r, "new", "done") /\ UNCHANGED <<pendingEnable, spent>>
      BY <2>7 DEF ConfirmRequested
    <3>3. reqAt' \in [Req -> SwitchStage]
      BY <2>1, <2>2, <3>2
    <3>4. spent' \in [Req -> Nat] /\ pendingEnable' \in Req \cup {NoReq}
      BY <2>0, <3>2
    <3> QED BY <2>0, <2>7, <3>1, <3>3, <3>4 DEF ConfirmRequested
  <2>8. ASSUME NEW r \in Req, EnableWritten(r) PROVE SwitchTypeOK'
    BY <2>0, <2>1, <2>2, <2>8 DEF EnableWritten
  <2>9. CASE CodeExpires
    BY <2>0, <2>9 DEF CodeExpires
  <2>10. CASE ConfirmWindowEnds
    BY <2>0, <2>10, SwitchAssumption DEF ConfirmWindowEnds
  <2>11. CASE UNCHANGED switchVars
    BY <2>0, <2>11 DEF switchVars
  <2> QED BY <1>2, <2>3, <2>4, <2>5, <2>6, <2>7, <2>8, <2>9, <2>10, <2>11 DEF SwitchNext
<1> QED BY <1>1, <1>2

LEMMA BoardTypes ==
  /\ BoardInit => BoardTypeOK
  /\ BoardTypeOK /\ [BoardNext]_boardVars => BoardTypeOK'
<1>1. BoardInit => BoardTypeOK
  BY BoardAssumption DEF BoardInit, BoardTypeOK, ItemStatus, DraftStatus
<1>2. ASSUME BoardTypeOK, [BoardNext]_boardVars PROVE BoardTypeOK'
  <2>0. /\ content \in [Item -> ItemStatus] /\ dated \in [Item -> {"never", "later", "due"}]
        /\ postTries \in [Item -> 0..PublishTries] /\ fetched \in [Item -> 0..PublishTries]
        /\ draft \in [Draft -> DraftStatus]
        /\ slot \in [Draft -> 0..LastDay] /\ picked \in [Draft -> 0..LastDay]
        /\ today \in 0..LastDay /\ lostCalls \in 0..MaxLost
        /\ lacking \subseteq Draft /\ regens \subseteq Item
        /\ hooks \subseteq Row /\ publishing \subseteq Row /\ signedOff \subseteq Row
        /\ posted \subseteq Row
    BY <1>2 DEF BoardTypeOK
  <2>1. BoardTypeOK' <=>
        /\ content' \in [Item -> ItemStatus] /\ dated' \in [Item -> {"never", "later", "due"}]
        /\ postTries' \in [Item -> 0..PublishTries] /\ fetched' \in [Item -> 0..PublishTries]
        /\ draft' \in [Draft -> DraftStatus]
        /\ slot' \in [Draft -> 0..LastDay] /\ picked' \in [Draft -> 0..LastDay]
        /\ today' \in 0..LastDay /\ lostCalls' \in 0..MaxLost
        /\ lacking' \subseteq Draft /\ regens' \subseteq Item
        /\ hooks' \subseteq Row /\ publishing' \subseteq Row /\ signedOff' \subseteq Row
        /\ posted' \subseteq Row
    BY DEF BoardTypeOK, Row
  <2>2. /\ {"none", "pending_review", "approved", "rejected", "published", "failed"} \subseteq ItemStatus
        /\ {"none", "pending_approval", "approved", "rejected", "published", "partially_published"}
             \subseteq DraftStatus
        /\ Item \subseteq Row /\ Draft \subseteq Row
    BY DEF ItemStatus, DraftStatus, Row
  <2>3. Loses => lostCalls' \in 0..MaxLost
    BY <2>0, BoardAssumption DEF Loses
  <2>4. ASSUME NEW i \in Item,
               \/ PostContent(i) \/ ApproveContent(i) \/ RejectContent(i)
               \/ RegenerateContent(i) \/ EditContent(i) \/ ContentDue(i) \/ ContentRewritten(i)
        PROVE  BoardTypeOK'
    <3>1. UNCHANGED <<postTries, draftVars, runVars, today>>
      BY <2>4 DEF PostContent, ApproveContent, RejectContent, RegenerateContent, EditContent,
                  ContentDue, ContentRewritten
    <3>2. /\ content' \in [Item -> ItemStatus] /\ dated' \in [Item -> {"never", "later", "due"}]
          /\ regens' \subseteq Item /\ hooks' \subseteq Row /\ signedOff' \subseteq Row
      BY <2>0, <2>2, <2>4 DEF PostContent, ApproveContent, RejectContent, RegenerateContent,
                  EditContent, ContentDue, ContentRewritten, Marks, Fires
    <3> QED BY <2>0, <2>1, <3>1, <3>2 DEF draftVars, runVars
  <2>5. ASSUME NEW d \in Draft,
               \/ DraftArrives(d) \/ SchedulePicks(d) \/ ScheduleWrites(d) \/ ScheduleCustom(d)
               \/ PostNow(d) \/ RejectDraft(d) \/ TelegramGo(d)
        PROVE  BoardTypeOK'
    <3>1. UNCHANGED <<itemVars, lacking, runVars, today, regens>>
      BY <2>5 DEF DraftArrives, SchedulePicks, ScheduleWrites, ScheduleCustom, PostNow,
                  RejectDraft, TelegramGo
    <3>2. ASSUME NEW day \in 0..LastDay, DraftApproved(d, day)
          PROVE  /\ draft' \in [Draft -> DraftStatus] /\ slot' \in [Draft -> 0..LastDay]
                 /\ signedOff' \subseteq Row
      BY <2>0, <2>2, <3>2 DEF DraftApproved
    <3>3. \A day \in Days : day \in 0..LastDay
      BY BoardAssumption DEF Days
    <3>4. picked[d] \in 0..LastDay /\ slot[d] \in 0..LastDay /\ 0 \in 0..LastDay
      BY <2>0, BoardAssumption
    <3>5. /\ draft' \in [Draft -> DraftStatus] /\ slot' \in [Draft -> 0..LastDay]
          /\ signedOff' \subseteq Row /\ picked' \in [Draft -> 0..LastDay] /\ hooks' \subseteq Row
      <4>1. CASE DraftArrives(d) \/ RejectDraft(d)
        BY <2>0, <2>2, <4>1 DEF DraftArrives, RejectDraft
      <4>2. CASE SchedulePicks(d)
        BY <2>0, <3>3, <4>2 DEF SchedulePicks
      <4>3. CASE ScheduleWrites(d)
        BY <2>0, <3>2, <3>4, <4>3 DEF ScheduleWrites
      <4>4. CASE ScheduleCustom(d)
        BY <2>0, <3>2, <3>3, <4>4 DEF ScheduleCustom
      <4>5. CASE PostNow(d) \/ TelegramGo(d)
        BY <2>0, <2>2, <3>2, <3>4, <4>5 DEF PostNow, TelegramGo, Fires
      <4> QED BY <2>5, <4>1, <4>2, <4>3, <4>4, <4>5
    <3> QED BY <2>0, <2>1, <3>1, <3>5 DEF itemVars, runVars
  <2>6. ASSUME NEW i \in Item, PublishContent(i) PROVE BoardTypeOK'
    <3>1. fetched[i] \in 0..PublishTries /\ PublishTries \in Nat \ {0}
      BY <2>0, BoardAssumption
    <3> DEFINE n == IF fetched[i] < PublishTries THEN fetched[i] + 1 ELSE PublishTries
    <3>2. n \in 0..PublishTries
      BY <3>1
    <3>3. /\ \/ content' = content
             \/ \E s \in ItemStatus : content' = [content EXCEPT ![i] = s]
          /\ postTries' = postTries \/ postTries' = [postTries EXCEPT ![i] = n]
          /\ lostCalls' = lostCalls \/ Loses
          /\ posted' \in {posted, posted \cup {i}} /\ publishing' = publishing \ {i}
          /\ UNCHANGED <<dated, draftVars, fetched, today, hooks, regens, signedOff>>
      BY <2>2, <2>6 DEF PublishContent, MayPost
    <3> HIDE DEF n
    <3>4. content' \in [Item -> ItemStatus] /\ postTries' \in [Item -> 0..PublishTries]
      BY <2>0, <3>2, <3>3
    <3>5. lostCalls' \in 0..MaxLost
      BY <2>0, <2>3, <3>3
    <3> QED BY <2>0, <2>1, <2>2, <3>3, <3>4, <3>5 DEF draftVars
  <2>7. ASSUME NEW d \in Draft, PublishDraft(d) \/ PlatformRetry(d) PROVE BoardTypeOK'
    <3>1. /\ draft' \in [Draft -> DraftStatus] /\ lacking' \subseteq Draft /\ posted' \subseteq Row
      BY <2>0, <2>2, <2>7 DEF PublishDraft, PlatformRetry, Shown, MayPost
    <3>2. publishing' \subseteq Row /\ lostCalls' \in 0..MaxLost
      BY <2>0, <2>3, <2>7 DEF PublishDraft, PlatformRetry
    <3>3. UNCHANGED <<itemVars, slot, picked, fetched, today, hooks, regens, signedOff>>
      BY <2>7 DEF PublishDraft, PlatformRetry
    <3> QED BY <2>0, <2>1, <3>1, <3>2, <3>3 DEF itemVars
  <2>8. ASSUME NEW r \in Row, PublishStarts(r) PROVE BoardTypeOK'
    <3>1. fetched' \in [Item -> 0..PublishTries] /\ publishing' \subseteq Row
      BY <2>0, <2>8 DEF PublishStarts
    <3>2. lostCalls' \in 0..MaxLost /\ hooks' \subseteq Row
      BY <2>0, <2>3, <2>8 DEF PublishStarts
    <3> QED BY <2>0, <2>1, <2>8, <3>1, <3>2 DEF PublishStarts, itemVars, draftVars
  <2>9. CASE DayPasses
    <3>1. today' \in 0..LastDay
      BY <2>0, <2>9, BoardAssumption DEF DayPasses
    <3> QED BY <2>0, <2>1, <2>9, <3>1 DEF DayPasses, itemVars, draftVars, runVars
  <2>10. CASE ContentTick \/ DraftTick
    <3>1. PICK due : TimerFires(due) /\ due \subseteq Row
      BY <2>2, <2>10 DEF ContentTick, DraftTick
    <3>2. hooks' \subseteq Row /\ lostCalls' \in 0..MaxLost
      BY <2>0, <2>3, <3>1 DEF TimerFires
    <3> QED BY <2>0, <2>1, <3>1, <3>2 DEF TimerFires, itemVars, draftVars
  <2>11. CASE UNCHANGED boardVars
    BY <2>0, <2>1, <2>11 DEF boardVars
  <2> QED BY <1>2, <2>4, <2>5, <2>6, <2>7, <2>8, <2>9, <2>10, <2>11 DEF BoardNext
<1> QED BY <1>1, <1>2

LEMMA AccessTypes ==
  /\ AccessInit => AccessTypeOK
  /\ AccessTypeOK /\ [AccessNext]_accessVars => AccessTypeOK'
<1>1. AccessInit => AccessTypeOK
  <2> SUFFICES ASSUME AccessInit PROVE AccessTypeOK
    OBVIOUS
  <2>1. Zero \in [Ip -> Nat]
    BY DEF Zero
  <2>2. /\ lock \in [Ip -> {"none", "ahead", "past"}]
        /\ cookie \in [Ip -> {"none", "live", "dead"}]
    BY DEF AccessInit
  <2>3. tokenOld \in BOOLEAN /\ ownToken \in BOOLEAN
    BY DEF AccessInit
  <2> QED BY <2>1, <2>2, <2>3 DEF AccessInit, AccessTypeOK
<1>2. ASSUME AccessTypeOK, [AccessNext]_accessVars PROVE AccessTypeOK'
  <2>0. /\ attempts \in [Ip -> Nat] /\ wrong \in [Ip -> Nat]
        /\ lock \in [Ip -> {"none", "ahead", "past"}]
        /\ window \in [Ip -> Nat] /\ served \in [Ip -> Nat]
        /\ cookie \in [Ip -> {"none", "live", "dead"}]
        /\ tokenOld \in BOOLEAN /\ ownToken \in BOOLEAN
    BY <1>2 DEF AccessTypeOK
  <2>1. ASSUME NEW ip \in Ip, Forgiven(ip) \/ Counted(ip)
        PROVE  /\ attempts' \in [Ip -> Nat] /\ wrong' \in [Ip -> Nat]
               /\ lock' \in [Ip -> {"none", "ahead", "past"}]
    <3>1. attempts[ip] \in Nat /\ wrong[ip] \in Nat /\ attempts[ip] + 1 \in Nat /\ wrong[ip] + 1 \in Nat
      BY <2>0
    <3>2. CASE Forgiven(ip)
      BY <2>0, <3>2 DEF Forgiven
    <3>3. CASE Counted(ip)
      <4>1. attempts' \in [Ip -> Nat]
        BY <2>0, <3>1, <3>3 DEF Counted
      <4>2. wrong' \in [Ip -> Nat] /\ lock' \in [Ip -> {"none", "ahead", "past"}]
        BY <2>0, <3>1, <3>3 DEF Counted
      <4> QED BY <4>1, <4>2
    <3> QED BY <2>1, <3>2, <3>3
  <2>2. ASSUME NEW ip \in Ip, RateChecked(ip) PROVE window' \in [Ip -> Nat] /\ served' \in [Ip -> Nat]
    <3>1. window[ip] + 1 \in Nat /\ served[ip] + 1 \in Nat /\ served[ip] \in Nat
      BY <2>0
    <3>2. window' = [window EXCEPT ![ip] = window[ip] + 1] \/ window' = [window EXCEPT ![ip] = 1] \/ window' = window
      BY <2>2 DEF RateChecked
    <3>3. \/ served' = [served EXCEPT ![ip] = served[ip] + 1]
          \/ served' = [served EXCEPT ![ip] = IF window[ip] < RateLimit THEN @ + 1 ELSE @]
          \/ served' = served
      BY <2>2 DEF RateChecked
    <3>4. window' \in [Ip -> Nat]
      BY <2>0, <3>1, <3>2
    <3>5. served' \in [Ip -> Nat]
      BY <2>0, <3>1, <3>3
    <3> QED BY <3>4, <3>5
  <2>3. ASSUME NEW ip \in Ip, NEW right \in BOOLEAN, Login(ip, right) PROVE AccessTypeOK'
    <3>1. Forgiven(ip) \/ Counted(ip)
      BY <2>3 DEF Login
    <3>2. cookie' \in [Ip -> {"none", "live", "dead"}]
      BY <2>0, <2>3 DEF Login
    <3> QED BY <2>0, <2>1, <2>3, <3>1, <3>2 DEF Login, AccessTypeOK
  <2>4. ASSUME NEW ip \in Ip, NEW right \in BOOLEAN, VerifyPin(ip, right) PROVE AccessTypeOK'
    <3>1. Forgiven(ip) \/ Counted(ip)
      BY <2>4 DEF VerifyPin
    <3> QED BY <2>0, <2>1, <2>4, <3>1 DEF VerifyPin, AccessTypeOK
  <2>5. ASSUME NEW ip \in Ip, Logout(ip) \/ LockEnds(ip) \/ MinuteEnds(ip) PROVE AccessTypeOK'
    BY <2>0, <2>5 DEF Logout, LockEnds, MinuteEnds, AccessTypeOK
  <2>6. ASSUME NEW ip \in Ip, NEW means \in Credential, Request(ip, means) PROVE AccessTypeOK'
    <3>1. cookie' \in [Ip -> {"none", "live", "dead"}]
      BY <2>0, <2>6 DEF Request
    <3>2. Forgiven(ip) \/ Counted(ip) \/ UNCHANGED <<attempts, lock, wrong>>
      BY <2>6 DEF Request
    <3>3. RateChecked(ip) \/ UNCHANGED <<window, served>>
      BY <2>6 DEF Request
    <3>4. UNCHANGED <<tokenOld, ownToken>>
      BY <2>6 DEF Request
    <3> QED BY <2>0, <2>1, <2>2, <3>1, <3>2, <3>3, <3>4 DEF AccessTypeOK
  <2>7. CASE DayEnds
    BY <2>0, <2>7 DEF DayEnds, AccessTypeOK
  <2>8. CASE Cleanup
    BY <2>0, <2>8 DEF Cleanup, AccessTypeOK
  <2>9. CASE UNCHANGED accessVars
    BY <2>0, <2>9 DEF accessVars, AccessTypeOK
  <2> QED BY <1>2, <2>3, <2>4, <2>5, <2>6, <2>7, <2>8, <2>9 DEF AccessNext
<1> QED BY <1>1, <1>2

LEMMA ServerTypes ==
  /\ ServerInit => ServerTypeOK
  /\ ServerTypeOK /\ [ServerNext]_serverVars => ServerTypeOK'
<1>1. ServerInit => ServerTypeOK
  BY DEF ServerInit, ServerTypeOK
<1>2. ASSUME ServerTypeOK, [ServerNext]_serverVars PROVE ServerTypeOK'
  <2> USE <1>2 DEF ServerTypeOK, tunnelVars, portVars, sockVars, fileVars
  <2>1. CASE Listen
    BY <2>1 DEF Listen
  <2>2. CASE TunnelOpens
    BY <2>2 DEF TunnelOpens
  <2>3. CASE TunnelTimesOut
    BY <2>3 DEF TunnelTimesOut
  <2>4. CASE TunnelExits
    BY <2>4 DEF TunnelExits
  <2>5. ASSUME NEW b \in Browser, SocketConnects(b) \/ GoSilent(b) \/ Close(b) \/ Pong(b) PROVE ServerTypeOK'
    BY <2>5 DEF SocketConnects, GoSilent, Close, Pong
  <2>6. CASE SocketBeat
    BY <2>6 DEF SocketBeat
  <2>7. CASE PollQuestions
    BY <2>7 DEF PollQuestions
  <2>8. CASE StopServer
    BY <2>8 DEF StopServer
  <2>9. ASSUME NEW q \in Question, QuestionFiled(q) PROVE ServerTypeOK'
    BY <2>9 DEF QuestionFiled
  <2>10. CASE UNCHANGED serverVars
    BY <2>10 DEF serverVars
  <2> QED BY <2>1, <2>2, <2>3, <2>4, <2>5, <2>6, <2>7, <2>8, <2>9, <2>10 DEF ServerNext
<1> QED BY <1>1, <1>2

LEMMA LifeTypes ==
  /\ LifeInit => LifeTypeOK
  /\ LifeTypeOK /\ [LifeNext]_lifeVars => LifeTypeOK'
<1>1. LifeInit => LifeTypeOK
  <2> SUFFICES ASSUME LifeInit PROVE LifeTypeOK
    OBVIOUS
  <2>1. Defaults \in Settings /\ file \in Settings
    BY DEF LifeInit, Defaults, Settings
  <2>2. loaded \in [Proc -> Settings] /\ layer \in [Proc -> 1..LastLayer]
    BY <2>1 DEF LifeInit, LastLayer
  <2>3. cli \in [name : {"none", "restart", "update", "tool", "write"}, has : Settings]
    BY <2>1 DEF LifeInit, Idle
  <2> QED BY <2>1, <2>2, <2>3 DEF LifeInit, LifeTypeOK
<1>2. ASSUME LifeTypeOK, [LifeNext]_lifeVars PROVE LifeTypeOK'
  <2> DEFINE States == {"none", "booting", "ready", "stopping", "gone"}
             Cli == [name : {"none", "restart", "update", "tool", "write"}, has : Settings]
  <2>0. /\ proc \in [Proc -> States] /\ layer \in [Proc -> 1..5]
        /\ loaded \in [Proc -> Settings] /\ pidFile \in Proc \cup {NoProc}
        /\ file \in Settings \cup {Broken} /\ cli \in Cli /\ overlap \in BOOLEAN
    BY <1>2 DEF LifeTypeOK, LastLayer
  <2>1. /\ Defaults \in Settings /\ LoadConfig \in Settings /\ Idle \in Cli
        /\ \A s \in Settings, k \in Key \cup {Token} : s \cup {k} \in Settings
    BY <2>0 DEF Defaults, LoadConfig, Idle, Settings
  <2>2. ASSUME NEW ps, Signalled(ps)
        PROVE  /\ proc' \in [Proc -> States] /\ layer' \in [Proc -> 1..5]
               /\ loaded' \in [Proc -> Settings]
    <3>1. \A p \in Proc : proc'[p] \in States /\ layer'[p] \in 1..5 /\ loaded'[p] \in Settings
      BY <2>0, <2>1, <2>2 DEF Signalled
    <3> QED BY <2>2, <3>1 DEF Signalled
  <2>4. ASSUME NEW p \in Proc, Boots(p)
        PROVE  /\ proc' \in [Proc -> States] /\ loaded' \in [Proc -> Settings]
               /\ overlap' \in BOOLEAN /\ UNCHANGED <<layer, pidFile, file>>
    BY <2>0, <2>1, <2>4 DEF Boots
  <2>5. ASSUME NEW p \in Proc, NEW n \in 1..4, Starts(p, n) PROVE layer' \in [Proc -> 1..5]
    BY <2>0, <2>5 DEF Starts
  <2>6. ASSUME NEW p \in Proc, Ends(p) PROVE proc' \in [Proc -> States]
    BY <2>0, <2>6 DEF Ends
  <2>7. ASSUME NEW p \in Proc, Forgets(p)
        PROVE  layer' \in [Proc -> 1..5] /\ loaded' \in [Proc -> Settings]
    BY <2>0, <2>1, <2>7 DEF Forgets
  <2>8. LifeTypeOK' <=> /\ proc' \in [Proc -> States] /\ layer' \in [Proc -> 1..5]
                        /\ loaded' \in [Proc -> Settings] /\ pidFile' \in Proc \cup {NoProc}
                        /\ file' \in Settings \cup {Broken} /\ cli' \in Cli /\ overlap' \in BOOLEAN
    BY DEF LifeTypeOK, LastLayer
  <2> HIDE DEF States
  <2>9. ASSUME NEW p \in Proc, Start(p) \/ RestartStarts(p) \/ UpdateRestarts(p) PROVE LifeTypeOK'
    <3>1. Boots(p) /\ cli' \in Cli
      BY <2>0, <2>1, <2>9 DEF Start, RestartStarts, UpdateRestarts
    <3> QED BY <2>0, <2>4, <2>8, <3>1
  <2>10. ASSUME NEW p \in Proc, CoreStarts(p) \/ AgentsStart(p) \/ ChannelsStart(p) PROVE LifeTypeOK'
    <3>1. layer' \in [Proc -> 1..5] /\ loaded' \in [Proc -> Settings]
      BY <2>0, <2>5, <2>7, <2>10 DEF CoreStarts, AgentsStart, ChannelsStart, LayerFails
    <3>2. proc' \in [Proc -> States]
      BY <2>0, <2>6, <2>10 DEF CoreStarts, AgentsStart, ChannelsStart, LayerFails
    <3> QED BY <2>0, <2>8, <2>10, <3>1, <3>2 DEF CoreStarts, AgentsStart, ChannelsStart
  <2>11. ASSUME NEW p \in Proc, DashboardStarts(p) PROVE LifeTypeOK'
    <3>1. layer' \in [Proc -> 1..5]
      BY <2>5, <2>11 DEF DashboardStarts
    <3>2. loaded[p] \cup {Token} \in Settings
      BY <2>0, <2>1
    <3>3. loaded' \in [Proc -> Settings] /\ file' \in Settings \cup {Broken}
      BY <2>0, <2>11, <3>2 DEF DashboardStarts
    <3> QED BY <2>0, <2>8, <2>11, <3>1, <3>3 DEF DashboardStarts
  <2>12. ASSUME NEW p \in Proc, Ready(p) PROVE LifeTypeOK'
    <3>1. proc' \in [Proc -> States]
      BY <2>0, <2>12 DEF Ready, States
    <3> QED BY <2>0, <2>8, <2>12, <3>1 DEF Ready
  <2>13. ASSUME NEW p \in Proc, ShutdownEnds(p) \/ Dies(p) PROVE LifeTypeOK'
    BY <2>0, <2>6, <2>7, <2>8, <2>13 DEF ShutdownEnds, Dies
  <2>14. ASSUME NEW p \in Proc, NEW k \in Key, AgentSaves(p, k) PROVE LifeTypeOK'
    <3>1. loaded[p] \cup {k} \in Settings
      BY <2>0, <2>1
    <3>2. loaded' \in [Proc -> Settings] /\ file' \in Settings
      BY <2>0, <2>14, <3>1 DEF AgentSaves
    <3> QED BY <2>0, <2>8, <2>14, <3>2 DEF AgentSaves
  <2>15. CASE Stop
    BY <2>0, <2>2, <2>8, <2>15 DEF Stop, Kill
  <2>16. CASE RestartKills \/ UpdateKills \/ UpdateEnds
    <3>1. cli' \in Cli
      BY <2>1, <2>16 DEF RestartKills, UpdateKills, UpdateEnds, Idle
    <3>2. /\ proc' \in [Proc -> States] /\ layer' \in [Proc -> 1..5]
          /\ loaded' \in [Proc -> Settings]
      BY <2>0, <2>2, <2>16 DEF RestartKills, UpdateKills, UpdateEnds, Kill
    <3> QED BY <2>0, <2>8, <2>16, <3>1, <3>2 DEF RestartKills, UpdateKills, UpdateEnds
  <2>17. ASSUME NEW k \in Key \cup {Token}, CliSaves(k) PROVE LifeTypeOK'
    BY <2>0, <2>1, <2>8, <2>17 DEF CliSaves
  <2>18. CASE ToolLoads \/ ToolTruncates \/ ToolFails
    <3>1. cli' \in Cli
      BY <2>0, <2>1, <2>18 DEF ToolLoads, ToolTruncates, ToolFails
    <3> QED BY <2>0, <2>8, <2>18, <3>1 DEF ToolLoads, ToolTruncates, ToolFails
  <2>19. ASSUME NEW k \in Key, ToolWrites(k) PROVE LifeTypeOK'
    <3>1. cli.has \cup {k} \in Settings
      BY <2>0, <2>1
    <3> QED BY <2>0, <2>1, <2>8, <2>19, <3>1 DEF ToolWrites
  <2>20. CASE UNCHANGED lifeVars
    BY <2>0, <2>8, <2>20 DEF lifeVars
  <2>21. DashboardCommand => CliSaves(Token)
    BY DEF DashboardCommand
  <2> QED BY <1>2, <2>9, <2>10, <2>11, <2>12, <2>13, <2>14, <2>15, <2>16, <2>17, <2>18, <2>19, <2>20, <2>21
          DEF LifeNext
<1> QED BY <1>1, <1>2

LEMMA CogTypes ==
  /\ CogInit => CogTypeOK
  /\ CogTypeOK /\ [CogNext]_cogVars => CogTypeOK'
<1>1. CogInit => CogTypeOK
  BY DEF CogInit, CogTypeOK, Header
<1>2. ASSUME CogTypeOK, [CogNext]_cogVars PROVE CogTypeOK'
  <2> USE <1>2 DEF CogTypeOK, cogSetting, Header, StartLoop
  <2>1. ASSUME NEW a \in Attempt, CogneeConnects(a) \/ ReconnectTick(a) PROVE CogTypeOK'
    BY <2>1 DEF CogneeConnects, ReconnectTick
  <2>2. ASSUME NEW a \in Attempt, HealthFails(a) \/ HealthOk(a) PROVE CogTypeOK'
    <3>1. CASE HealthFails(a)
      BY <3>1 DEF HealthFails
    <3>2. CASE HealthOk(a)
      BY <3>2 DEF HealthOk
    <3> QED BY <2>2, <3>1, <3>2
  <2>3. ASSUME NEW a \in Attempt, CogneeLogin(a) \/ Settle(a) PROVE CogTypeOK'
    <3>1. CASE CogneeLogin(a)
      BY <3>1 DEF CogneeLogin
    <3>2. CASE Settle(a)
      BY <3>2 DEF Settle
    <3> QED BY <2>3, <3>1, <3>2
  <2>4. ASSUME NEW c \in CogneeCall, CallStarts(c) \/ CallRefused(c) \/ CallEnds(c) PROVE CogTypeOK'
    <3>1. CASE CallStarts(c)
      BY <3>1 DEF CallStarts
    <3>2. CASE CallRefused(c)
      BY <3>2 DEF CallRefused
    <3>3. CASE CallEnds(c)
      BY <3>3 DEF CallEnds
    <3> QED BY <2>4, <3>1, <3>2, <3>3
  <2>5. CASE Disconnect
    BY <2>5 DEF Disconnect
  <2>6. CASE ServerChanges
    BY <2>6 DEF ServerChanges
  <2>7. CASE UNCHANGED cogVars
    BY <2>7 DEF cogVars
  <2> QED BY <2>1, <2>2, <2>3, <2>4, <2>5, <2>6, <2>7 DEF CogNext
<1> QED BY <1>1, <1>2

LEMMA CredTypes ==
  /\ CredInit => CredTypeOK
  /\ CredTypeOK /\ [CredNext]_credVars => CredTypeOK'
<1>1. CredInit => CredTypeOK
  <2> SUFFICES ASSUME CredInit PROVE CredTypeOK
    OBVIOUS
  <2>1. NoSecrets \in Secrets
    BY DEF NoSecrets, Secrets
  <2>2. /\ life \in [Process -> {"down", "boots", "up", "closed"}] /\ copy \in [Process -> Secrets]
        /\ sdk \in [Process -> {"untried", "loaded", "failed"}]
        /\ hubUrl \in [Process -> {"remote", "local"}]
    BY <2>1 DEF CredInit
  <2>3. try \in [Process -> [Try -> {"none", "load", "health", "start", "identity", "make", "client"}]]
    BY DEF CredInit
  <2>4. /\ available \in [Process -> BOOLEAN] /\ hubTimer \in [Process -> {"null", "runs", "cleared"}]
        /\ given \in [Process -> {"nothing", "lease", "agex", "local"}]
    BY DEF CredInit
  <2> QED BY <2>1, <2>2, <2>3, <2>4 DEF CredInit, CredTypeOK
<1>2. ASSUME CredTypeOK, [CredNext]_credVars PROVE CredTypeOK'
  <2> DEFINE Steps == {"none", "load", "health", "start", "identity", "make", "client"}
  <2>0. /\ life \in [Process -> {"down", "boots", "up", "closed"}]
        /\ secretsFile \in Secrets /\ copy \in [Process -> Secrets] /\ aidFile \in Process \cup {Nobody}
        /\ sdk \in [Process -> {"untried", "loaded", "failed"}] /\ remoteUp \in BOOLEAN
        /\ lite \in Process \cup {Nobody} /\ hubUrl \in [Process -> {"remote", "local"}]
        /\ try \in [Process -> [Try -> Steps]]
        /\ available \in [Process -> BOOLEAN] /\ hubTimer \in [Process -> {"null", "runs", "cleared"}]
        /\ given \in [Process -> {"nothing", "lease", "agex", "local"}]
    BY <1>2 DEF CredTypeOK
  <2>1. ASSUME NEW p \in Process, NEW t \in Try, NEW s \in Steps, MovesTo(p, t, s)
        PROVE  try' \in [Process -> [Try -> Steps]]
    <3>1. [try[p] EXCEPT ![t] = s] \in [Try -> Steps]
      BY <2>0
    <3> HIDE DEF Steps
    <3> QED BY <2>0, <2>1, <3>1 DEF MovesTo
  <2>2. ASSUME NEW p \in Process, NEW t \in Try, HubFails(p, t)
        PROVE  /\ try' \in [Process -> [Try -> Steps]]
               /\ life' \in [Process -> {"down", "boots", "up", "closed"}]
               /\ hubTimer' \in [Process -> {"null", "runs", "cleared"}]
    <3>1. MovesTo(p, t, "none") /\ "none" \in Steps
      BY <2>2 DEF HubFails
    <3>2. try' \in [Process -> [Try -> Steps]]
      BY <2>1, <3>1
    <3>3. /\ life' \in [Process -> {"down", "boots", "up", "closed"}]
          /\ hubTimer' \in [Process -> {"null", "runs", "cleared"}]
      BY <2>0, <2>2 DEF HubFails
    <3> QED BY <3>2, <3>3
  <2>3. ASSUME NEW p \in Process, NEW s \in Secrets, Save(p, s)
        PROVE  copy' \in [Process -> Secrets] /\ secretsFile' \in Secrets
    BY <2>0, <2>3 DEF Save
  <2>4. "load" \in Steps /\ "health" \in Steps /\ "start" \in Steps /\ "identity" \in Steps
        /\ "make" \in Steps /\ "client" \in Steps /\ "none" \in Steps
    OBVIOUS
  <2>5. CredTypeOK' <=>
          /\ life' \in [Process -> {"down", "boots", "up", "closed"}]
          /\ secretsFile' \in Secrets /\ copy' \in [Process -> Secrets] /\ aidFile' \in Process \cup {Nobody}
          /\ sdk' \in [Process -> {"untried", "loaded", "failed"}] /\ remoteUp' \in BOOLEAN
          /\ lite' \in Process \cup {Nobody} /\ hubUrl' \in [Process -> {"remote", "local"}]
          /\ try' \in [Process -> [Try -> Steps]]
          /\ available' \in [Process -> BOOLEAN] /\ hubTimer' \in [Process -> {"null", "runs", "cleared"}]
          /\ given' \in [Process -> {"nothing", "lease", "agex", "local"}]
    BY DEF CredTypeOK
  <2> HIDE DEF Steps
  <2>6. ASSUME NEW p \in Process, NEW t \in Try, Init1(p, t) PROVE CredTypeOK'
    <3>1. try' \in [Process -> [Try -> Steps]]
      BY <2>1, <2>4, <2>6 DEF Init1
    <3> QED BY <2>0, <2>5, <2>6, <3>1 DEF Init1
  <2>7. ASSUME NEW p \in Process, NEW t \in Try, HubTick(p, t) PROVE CredTypeOK'
    <3>1. try' \in [Process -> [Try -> Steps]]
      BY <2>1, <2>4, <2>7 DEF HubTick
    <3> QED BY <2>0, <2>5, <2>7, <3>1 DEF HubTick, credKept
  <2>8. ASSUME NEW p \in Process, NEW t \in Try, LoadAgexSDK(p, t) PROVE CredTypeOK'
    <3>1. sdk' \in [Process -> {"untried", "loaded", "failed"}]
      BY <2>0, <2>8 DEF LoadAgexSDK
    <3>2. /\ (MovesTo(p, t, "health") /\ UNCHANGED <<life, hubTimer>>) \/ HubFails(p, t)
          /\ UNCHANGED <<secretsFile, copy, aidFile, remoteUp, lite, hubUrl, available, given>>
      BY <2>8 DEF LoadAgexSDK, credKept
    <3> QED BY <2>0, <2>1, <2>2, <2>4, <2>5, <3>1, <3>2
  <2>9. ASSUME NEW p \in Process, NEW t \in Try, Health(p, t) PROVE CredTypeOK'
    <3>1. try' \in [Process -> [Try -> Steps]]
      BY <2>1, <2>4, <2>9 DEF Health
    <3> QED BY <2>0, <2>5, <2>9, <3>1 DEF Health, credKept
  <2>10. ASSUME NEW p \in Process, NEW t \in Try, StartHubLite(p, t) PROVE CredTypeOK'
    <3>1. /\ (MovesTo(p, t, "identity") /\ UNCHANGED <<life, hubTimer>>) \/ HubFails(p, t)
          /\ UNCHANGED <<secretsFile, copy, aidFile, sdk, remoteUp, available, given>>
      BY <2>10 DEF StartHubLite, credKept
    <3>2. lite' \in Process \cup {Nobody} /\ hubUrl' \in [Process -> {"remote", "local"}]
      BY <2>0, <2>10 DEF StartHubLite
    <3> QED BY <2>0, <2>1, <2>2, <2>4, <2>5, <3>1, <3>2
  <2>11. ASSUME NEW p \in Process, NEW t \in Try, LoadAID(p, t) PROVE CredTypeOK'
    <3>1. /\ \/ MovesTo(p, t, "make") /\ UNCHANGED <<life, hubTimer>>
             \/ MovesTo(p, t, "client") /\ UNCHANGED <<life, hubTimer>>
             \/ HubFails(p, t)
          /\ UNCHANGED <<secretsFile, copy, aidFile, sdk, remoteUp, lite, hubUrl, available, given>>
      BY <2>11 DEF LoadAID, credKept
    <3> QED BY <2>0, <2>1, <2>2, <2>4, <2>5, <3>1
  <2>12. ASSUME NEW p \in Process, NEW t \in Try, CreateAID(p, t) PROVE CredTypeOK'
    <3>1. [copy[p] EXCEPT !.id = p] \in Secrets
      BY <2>0 DEF Secrets
    <3>2. copy' \in [Process -> Secrets] /\ secretsFile' \in Secrets
      BY <2>3, <2>12, <3>1 DEF CreateAID
    <3>3. try' \in [Process -> [Try -> Steps]]
      BY <2>1, <2>4, <2>12 DEF CreateAID
    <3> QED BY <2>0, <2>5, <2>12, <3>2, <3>3 DEF CreateAID
  <2>13. ASSUME NEW p \in Process, NEW t \in Try, HubConnects(p, t) PROVE CredTypeOK'
    <3>1. try' \in [Process -> [Try -> Steps]]
      BY <2>1, <2>2, <2>4, <2>13 DEF HubConnects
    <3>2. /\ life' \in [Process -> {"down", "boots", "up", "closed"}]
          /\ hubTimer' \in [Process -> {"null", "runs", "cleared"}]
      <4>1. CASE HubFails(p, t)
        BY <2>2, <4>1
      <4>2. CASE /\ hubTimer' = [hubTimer EXCEPT ![p] = "null"]
                 /\ life' = [life EXCEPT ![p] = IF @ = "boots" THEN "up" ELSE @]
        BY <2>0, <4>2
      <4> QED BY <2>13, <4>1, <4>2 DEF HubConnects
    <3>3. available' \in [Process -> BOOLEAN]
      BY <2>0, <2>13 DEF HubConnects
    <3> QED BY <2>0, <2>5, <2>13, <3>1, <3>2, <3>3 DEF HubConnects, credKept
  <2>14. ASSUME NEW p \in Process, NEW has \in BOOLEAN, SetSecret(p, has) PROVE CredTypeOK'
    <3>1. [copy[p] EXCEPT !.other = has] \in Secrets
      BY <2>0 DEF Secrets
    <3>2. copy' \in [Process -> Secrets] /\ secretsFile' \in Secrets
      BY <2>3, <2>14, <3>1 DEF SetSecret
    <3> QED BY <2>0, <2>5, <2>14, <3>2 DEF SetSecret
  <2>15. ASSUME NEW p \in Process, UseCredential(p) PROVE CredTypeOK'
    BY <2>0, <2>5, <2>15 DEF UseCredential, credKept
  <2>16. ASSUME NEW p \in Process, CredShutdown(p) PROVE CredTypeOK'
    BY <2>0, <2>5, <2>16 DEF CredShutdown, credKept
  <2>17. ASSUME NEW p \in Process, ProcessEnds(p) PROVE CredTypeOK'
    <3>1. [t \in Try |-> "none"] \in [Try -> Steps] /\ NoSecrets \in Secrets
      BY <2>4 DEF NoSecrets, Secrets
    <3>2. try' \in [Process -> [Try -> Steps]] /\ copy' \in [Process -> Secrets]
      BY <2>0, <2>17, <3>1 DEF ProcessEnds
    <3>3. aidFile' \in Process \cup {Nobody} /\ lite' \in Process \cup {Nobody}
      BY <2>0, <2>17 DEF ProcessEnds
    <3>4. /\ life' \in [Process -> {"down", "boots", "up", "closed"}]
          /\ sdk' \in [Process -> {"untried", "loaded", "failed"}]
          /\ hubUrl' \in [Process -> {"remote", "local"}]
          /\ available' \in [Process -> BOOLEAN] /\ hubTimer' \in [Process -> {"null", "runs", "cleared"}]
          /\ given' \in [Process -> {"nothing", "lease", "agex", "local"}]
      BY <2>0, <2>17 DEF ProcessEnds
    <3> QED BY <2>0, <2>5, <2>17, <3>2, <3>3, <3>4 DEF ProcessEnds
  <2>18. CASE RemoteChanges
    BY <2>0, <2>5, <2>18 DEF RemoteChanges, credKept
  <2>19. CASE UNCHANGED credVars
    BY <2>0, <2>5, <2>19 DEF credVars
  <2> QED BY <1>2, <2>6, <2>7, <2>8, <2>9, <2>10, <2>11, <2>12, <2>13, <2>14, <2>15, <2>16, <2>17,
             <2>18, <2>19 DEF CredNext
<1> QED BY <1>1, <1>2

LEMMA McpTypes ==
  /\ McpInit => McpTypeOK
  /\ McpTypeOK /\ [McpNext]_mcpVars => McpTypeOK'
<1> DEFINE Asking == {NoAsk} \cup [client : Client, method : {"initialize", "list", "call", "left"}]
           Stages == {"new", "opening", "initialize", "list", "ready", "failed"}
<1>1. McpInit => McpTypeOK
  BY DEF McpInit, McpTypeOK
<1>2. ASSUME McpTypeOK, [McpNext]_mcpVars PROVE McpTypeOK'
  <2>0. /\ transport \in [Client -> {"stdio", "sse"}] /\ stage \in [Client -> Stages]
        /\ serving \in [Client -> BOOLEAN] /\ mcpConnected \in [Client -> BOOLEAN]
        /\ held \in Client \cup {NoClient} /\ toolsOf \in Client \cup {NoClient}
        /\ ask \in [RpcId -> Asking] /\ pending \subseteq RpcId /\ reached \subseteq RpcId
        /\ askOutcome \in [RpcId -> {"waits", "ok", "error"}]
    BY <1>2 DEF McpTypeOK
  <2>1. ASSUME NEW c \in Client, NEW r \in RpcId, NEW m \in {"initialize", "call"}, Sends(c, r, m)
        PROVE  /\ ask' \in [RpcId -> Asking] /\ pending' \subseteq RpcId /\ reached' \subseteq RpcId
               /\ askOutcome' \in [RpcId -> {"waits", "ok", "error"}]
    <3>1. [client |-> c, method |-> m] \in Asking
      OBVIOUS
    <3> HIDE DEF Asking
    <3> QED BY <2>0, <2>1, <3>1 DEF Sends
  <2>2. ASSUME NEW c \in Client, ConnectFails(c)
        PROVE  /\ stage' \in [Client -> Stages] /\ mcpConnected' \in [Client -> BOOLEAN]
               /\ held' \in Client /\ UNCHANGED toolsOf
    BY <2>0, <2>2 DEF ConnectFails
  <2>3. ASSUME NEW r \in RpcId, NEW m \in {"list", "left"}, ask[r].client \in Client
        PROVE  [ask EXCEPT ![r].method = m] \in [RpcId -> Asking]
    <3>1. ask[r] \in Asking
      BY <2>0
    <3>2. [ask[r] EXCEPT !.method = m] = [client |-> ask[r].client, method |-> m]
      BY <3>1 DEF NoAsk
    <3>3. [ask[r] EXCEPT !.method = m] \in Asking
      BY <2>3, <3>2
    <3> HIDE DEF Asking
    <3> QED BY <2>0, <3>3
  <2>4. McpTypeOK' <=>
          /\ transport' \in [Client -> {"stdio", "sse"}] /\ stage' \in [Client -> Stages]
          /\ serving' \in [Client -> BOOLEAN] /\ mcpConnected' \in [Client -> BOOLEAN]
          /\ held' \in Client \cup {NoClient} /\ toolsOf' \in Client \cup {NoClient}
          /\ ask' \in [RpcId -> Asking] /\ pending' \subseteq RpcId /\ reached' \subseteq RpcId
          /\ askOutcome' \in [RpcId -> {"waits", "ok", "error"}]
    BY DEF McpTypeOK
  <2>5. NoAsk \in Asking
    OBVIOUS
  <2> HIDE DEF Asking
  <2>6. ASSUME NEW c \in Client, ConnectServer(c) PROVE McpTypeOK'
    BY <2>0, <2>4, <2>6 DEF ConnectServer, mcpCalls
  <2>7. ASSUME NEW c \in Client, OpenFails(c) PROVE McpTypeOK'
    BY <2>0, <2>2, <2>4, <2>7 DEF OpenFails, mcpCalls
  <2>8. ASSUME NEW c \in Client, ServerEnds(c) PROVE McpTypeOK'
    <3>1. mcpConnected' \in [Client -> BOOLEAN]
      <4>1. (mcpConnected[c] /\ transport[c] = "sse") \in BOOLEAN
        OBVIOUS
      <4> QED BY <2>0, <2>8, <4>1 DEF ServerEnds
    <3> QED BY <2>0, <2>4, <2>8, <3>1 DEF ServerEnds
  <2>9. ASSUME NEW c \in Client, NEW r \in RpcId, Opened(c, r) PROVE McpTypeOK'
    BY <2>0, <2>1, <2>4, <2>9 DEF Opened
  <2>10. ASSUME NEW c \in Client, NEW r \in RpcId, Handshake(c, r) PROVE McpTypeOK'
    <3>1. UNCHANGED <<transport, serving>>
      BY <2>10 DEF Handshake
    <3>2. CASE Asks(c, r, "initialize") /\ stage[c] = "initialize" /\ stage' = [stage EXCEPT ![c] = "list"]
               /\ pending' = pending \cup {r} /\ ask' = [ask EXCEPT ![r].method = "list"]
               /\ \/ reached' = reached \cup {r} /\ askOutcome' = [askOutcome EXCEPT ![r] = "waits"]
                  \/ askOutcome' = [askOutcome EXCEPT ![r] = "error"] /\ UNCHANGED reached
               /\ UNCHANGED <<mcpConnected, held, toolsOf>>
      <4>1. ask[r].client \in Client
        BY <3>2 DEF Asks
      <4>2. ask' \in [RpcId -> Asking]
        BY <2>3, <3>2, <4>1
      <4>3. reached' \subseteq RpcId /\ askOutcome' \in [RpcId -> {"waits", "ok", "error"}]
        BY <2>0, <3>2
      <4> QED BY <2>0, <2>4, <3>1, <3>2, <4>2, <4>3
    <3>3. CASE stage' = [stage EXCEPT ![c] = "ready"] /\ mcpConnected' = [mcpConnected EXCEPT ![c] = TRUE]
               /\ held' = c /\ toolsOf' = c
               /\ ask' = [ask EXCEPT ![r] = NoAsk] /\ UNCHANGED <<pending, reached, askOutcome>>
      BY <2>0, <2>4, <2>5, <3>1, <3>3
    <3>4. CASE ask[r].client = c /\ ConnectFails(c) /\ Opening(c)
               /\ ask' = [ask EXCEPT ![r].method = "left"] /\ UNCHANGED <<pending, reached, askOutcome>>
      <4>1. ask' \in [RpcId -> Asking]
        BY <2>3, <3>4
      <4> QED BY <2>0, <2>2, <2>4, <3>1, <3>4, <4>1
    <3> QED BY <2>10, <3>2, <3>3, <3>4 DEF Handshake
  <2>11. ASSUME NEW r \in RpcId, Answered(r) \/ RequestTimesOut(r) PROVE McpTypeOK'
    BY <2>0, <2>4, <2>11 DEF Answered, RequestTimesOut, mcpLink
  <2>12. ASSUME NEW r \in RpcId, CallReturns(r) PROVE McpTypeOK'
    BY <2>0, <2>4, <2>5, <2>12 DEF CallReturns, mcpLink
  <2>13. ASSUME NEW r \in RpcId, CallTool(r) PROVE McpTypeOK'
    <3>1. held \in Client
      BY <2>0, <2>13 DEF CallTool
    <3> QED BY <2>0, <2>1, <2>4, <2>13, <3>1 DEF CallTool, mcpLink
  <2>14. CASE McpDisconnect
    BY <2>0, <2>4, <2>14 DEF McpDisconnect
  <2>15. CASE UNCHANGED mcpVars
    BY <2>0, <2>4, <2>15 DEF mcpVars
  <2> QED BY <1>2, <2>6, <2>7, <2>8, <2>9, <2>10, <2>11, <2>12, <2>13, <2>14, <2>15 DEF McpNext
<1> QED BY <1>1, <1>2

\* A recovery timer that is armed has an attempt left to make.
ChannelInv == ChannelTypeOK /\ (recoveryTimer => recoveries < MaxRecovery)

LEMMA ChannelTypes ==
  /\ ChannelInit => ChannelInv
  /\ ChannelInv /\ [ChannelNext]_channelVars => ChannelInv'
<1> DEFINE Spots == InRecovery \cup {"idle", "enter", "unwind"}
           Causes == {"failure", "recovery"}
<1>1. ChannelInit => ChannelInv
  <2> SUFFICES ASSUME ChannelInit PROVE ChannelInv
    OBVIOUS
  <2>1. at \in [Task -> Spots] /\ frames \in [Task -> Nat] /\ cause \in [Task -> Causes]
    BY DEF ChannelInit
  <2>2. retries \in 0..MaxRetry /\ recoveries \in 0..MaxRecovery
    BY ChannelAssumption DEF ChannelInit
  <2> QED BY <2>1, <2>2 DEF ChannelInit, ChannelInv, ChannelTypeOK, ChannelStatuses
<1>2. ASSUME ChannelInv, [ChannelNext]_channelVars PROVE ChannelInv'
  <2>0. /\ channelStatus \in ChannelStatuses
        /\ retries \in 0..MaxRetry /\ recoveries \in 0..MaxRecovery
        /\ inFlightRecovery \in BOOLEAN /\ pendingFailure \in BOOLEAN
        /\ runner \in Runner \cup {NoRunner} /\ bot \in BOOLEAN /\ recoveryTimer \in BOOLEAN
        /\ backoffResolve \in Task \cup {NoTask} /\ polling \subseteq Runner
        /\ at \in [Task -> Spots] /\ frames \in [Task -> Nat] /\ cause \in [Task -> Causes]
        /\ stopping \in {"no", "waiting", "done"}
        /\ recoveryTimer => recoveries < MaxRecovery
    BY <1>2 DEF ChannelInv, ChannelTypeOK
  <2>1. ChannelInv' <=>
        /\ channelStatus' \in ChannelStatuses
        /\ retries' \in 0..MaxRetry /\ recoveries' \in 0..MaxRecovery
        /\ inFlightRecovery' \in BOOLEAN /\ pendingFailure' \in BOOLEAN
        /\ runner' \in Runner \cup {NoRunner} /\ bot' \in BOOLEAN /\ recoveryTimer' \in BOOLEAN
        /\ backoffResolve' \in Task \cup {NoTask} /\ polling' \subseteq Runner
        /\ at' \in [Task -> Spots] /\ frames' \in [Task -> Nat] /\ cause' \in [Task -> Causes]
        /\ stopping' \in {"no", "waiting", "done"}
        /\ recoveryTimer' => recoveries' < MaxRecovery
    BY DEF ChannelInv, ChannelTypeOK
  <2>2. /\ {"idle", "enter", "unwind", "sleeping", "woken", "tearing", "building", "committed"} = Spots
        /\ {"starting", "active", "retrying", "degraded", "stopped"} = ChannelStatuses
    BY DEF InRecovery, ChannelStatuses
  <2> HIDE DEF Spots
  <2>3. \A q \in [Task -> Spots], t \in Task, s \in Spots : [q EXCEPT ![t] = s] \in [Task -> Spots]
    OBVIOUS
  <2>4. ASSUME NEW t \in Task, NEW d \in Nat, Finally(t, d)
        PROVE  /\ inFlightRecovery' \in BOOLEAN /\ pendingFailure' \in BOOLEAN
               /\ at' \in [Task -> Spots] /\ frames' \in [Task -> Nat] /\ cause' \in [Task -> Causes]
    <3> DEFINE q == [at EXCEPT ![t] = IF d = 0 THEN "idle" ELSE "unwind"]
    <3>1. q \in [Task -> Spots]
      BY <2>0, <2>2, <2>3
    <3>2. DrainPendingFailure(q) /\ inFlightRecovery' = FALSE
          /\ frames' = [frames EXCEPT ![t] = IF d = 0 THEN 0 ELSE d - 1]
      BY <2>4 DEF Finally
    <3> HIDE DEF q
    <3>3. at' \in [Task -> Spots] /\ cause' \in [Task -> Causes] /\ pendingFailure' \in BOOLEAN
      <4>1. CASE at' = q /\ cause' = cause
        BY <2>0, <3>1, <3>2, <4>1 DEF DrainPendingFailure
      <4>2. ASSUME NEW u \in Task, at' = [q EXCEPT ![u] = "enter"],
                   cause' = [cause EXCEPT ![u] = "failure"]
            PROVE  at' \in [Task -> Spots] /\ cause' \in [Task -> Causes]
        BY <2>0, <2>2, <2>3, <3>1, <4>2
      <4>3. pendingFailure' = FALSE
        BY <3>2 DEF DrainPendingFailure
      <4> QED BY <3>2, <4>1, <4>2, <4>3 DEF DrainPendingFailure
    <3>4. frames' \in [Task -> Nat]
      BY <2>0, <3>2
    <3> QED BY <3>2, <3>3, <3>4
  <2>5. ASSUME NEW t \in Task, NEW d \in Nat, NEW k \in ErrorKinds, Classified(t, d, k)
        PROVE  /\ inFlightRecovery' \in BOOLEAN /\ pendingFailure' \in BOOLEAN
               /\ at' \in [Task -> Spots] /\ frames' \in [Task -> Nat] /\ cause' \in [Task -> Causes]
               /\ channelStatus' \in ChannelStatuses /\ retries' \in 0..MaxRetry
               /\ recoveries' = recoveries /\ recoveryTimer' \in BOOLEAN
               /\ recoveryTimer' => recoveries' < MaxRecovery
               /\ backoffResolve' \in Task \cup {NoTask}
    <3>1. CASE Backoff(t, d)
      <4>1. retries' \in 0..MaxRetry
        BY <2>0, <3>1, ChannelAssumption DEF Backoff
      <4>2. at' \in [Task -> Spots] /\ frames' \in [Task -> Nat]
        BY <2>0, <2>2, <2>3, <3>1 DEF Backoff
      <4> QED BY <2>0, <2>2, <3>1, <4>1, <4>2 DEF Backoff
    <3>2. CASE Degrade(t, d)
      <4>1. Finally(t, d) /\ channelStatus' = "degraded" /\ ScheduleRecovery(recoveries)
            /\ UNCHANGED <<retries, recoveries, backoffResolve>>
        BY <3>2 DEF Degrade
      <4> QED BY <2>0, <2>2, <2>4, <4>1 DEF ScheduleRecovery
    <3> QED BY <2>5, <3>1, <3>2 DEF Classified
  <2>6. ASSUME NEW t \in Task, ReinitBegins(t)
        PROVE  polling' \subseteq Runner /\ at' \in [Task -> Spots] /\ bot' \in BOOLEAN
    <3>1. \/ at' = [at EXCEPT ![t] = "building"] /\ bot' = FALSE
          \/ at' = [at EXCEPT ![t] = "tearing"] /\ bot' = bot
      BY <2>6 DEF ReinitBegins
    <3>2. at' \in [Task -> Spots] /\ bot' \in BOOLEAN
      BY <2>0, <2>2, <2>3, <3>1
    <3> QED BY <2>0, <2>6, <3>2 DEF ReinitBegins
  <2>7. CASE ChannelStart
    BY <2>0, <2>1, <2>2, <2>7 DEF ChannelStart, Fresh
  <2>8. CASE ChannelStop
    <3>1. at' \in [Task -> Spots]
      BY <2>0, <2>2, <2>8 DEF ChannelStop, ResolveBackoff
    <3> QED BY <2>0, <2>1, <2>2, <2>8, <3>1 DEF ChannelStop
  <2>9. CASE ChannelStopped
    BY <2>0, <2>1, <2>2, <2>9 DEF ChannelStopped
  <2>10. ASSUME NEW r \in Runner, RunnerFails(r) PROVE ChannelInv'
    <3>1. PICK t \in FreeTasks : /\ at' = [at EXCEPT ![t] = "enter"]
                                 /\ cause' = [cause EXCEPT ![t] = "failure"]
                                 /\ frames' = [frames EXCEPT ![t] = 0]
      BY <2>10 DEF RunnerFails
    <3>2. t \in Task
      BY DEF FreeTasks
    <3>3. at' \in [Task -> Spots] /\ cause' \in [Task -> Causes] /\ frames' \in [Task -> Nat]
      BY <2>0, <2>2, <2>3, <3>1, <3>2
    <3> QED BY <2>0, <2>1, <2>10, <3>3 DEF RunnerFails
  <2>11. ASSUME NEW t \in Task, OnRunnerFailure(t) PROVE ChannelInv'
    <3>1. UNCHANGED <<runner, bot, polling, stopping>>
      BY <2>11 DEF OnRunnerFailure
    <3>2. CASE \E k \in ErrorKinds : Classified(t, 0, k)
      BY <2>0, <2>1, <2>5, <3>1, <3>2
    <3>3. CASE /\ at' = [at EXCEPT ![t] = "idle"] /\ pendingFailure' \in {pendingFailure, TRUE}
               /\ UNCHANGED <<channelStatus, retries, recoveries, inFlightRecovery,
                              recoveryTimer, backoffResolve, frames, cause>>
      BY <2>0, <2>1, <2>2, <2>3, <3>1, <3>3
    <3> QED BY <2>11, <3>2, <3>3 DEF OnRunnerFailure
  <2>12. ASSUME NEW t \in Task, Wake(t) PROVE ChannelInv'
    <3>1. backoffResolve' \in Task \cup {NoTask}
          /\ UNCHANGED <<channelStatus, retries, recoveries, runner, recoveryTimer, stopping>>
      BY <2>0, <2>12 DEF Wake
    <3>2. \/ Finally(t, frames[t]) /\ UNCHANGED <<bot, polling>>
          \/ ReinitBegins(t) /\ UNCHANGED <<inFlightRecovery, pendingFailure, frames, cause>>
      BY <2>12 DEF Wake
    <3>3. frames[t] \in Nat
      BY <2>0
    <3> QED BY <2>0, <2>1, <2>4, <2>6, <3>1, <3>2, <3>3
  <2>13. ASSUME NEW t \in Task, TornDown(t) PROVE ChannelInv'
    BY <2>0, <2>1, <2>2, <2>3, <2>13 DEF TornDown
  <2>14. ASSUME NEW t \in Task, Reinit(t) PROVE ChannelInv'
    <3>1. retries' \in 0..MaxRetry /\ recoveries' \in 0..MaxRecovery
          /\ (recoveryTimer' => recoveries' < MaxRecovery)
      BY <2>0, <2>14, ChannelAssumption DEF Reinit
    <3>2. at' \in [Task -> Spots] /\ polling' \subseteq Runner /\ runner' \in Runner
      BY <2>0, <2>2, <2>3, <2>14 DEF Reinit, Fresh
    <3> QED BY <2>0, <2>1, <2>2, <2>14, <3>1, <3>2 DEF Reinit
  <2>15. ASSUME NEW t \in Task, ReinitFails(t) PROVE ChannelInv'
    <3>1. UNCHANGED <<runner, bot, polling, stopping>>
      BY <2>15 DEF ReinitFails
    <3>2. frames[t] \in Nat /\ frames[t] + 1 \in Nat /\ 0 \in Nat
      BY <2>0
    <3>3. CASE channelStatus' = "degraded" /\ ScheduleRecovery(recoveries) /\ Finally(t, 0)
               /\ UNCHANGED <<retries, recoveries, backoffResolve>>
      BY <2>0, <2>1, <2>2, <2>4, <3>1, <3>2, <3>3 DEF ScheduleRecovery
    <3>4. CASE channelStatus' = channelStatus /\ Finally(t, frames[t])
               /\ UNCHANGED <<retries, recoveries, recoveryTimer, backoffResolve>>
      BY <2>0, <2>1, <2>4, <3>1, <3>2, <3>4
    <3>5. CASE \E k \in ErrorKinds : Classified(t, frames[t] + 1, k)
      BY <2>0, <2>1, <2>5, <3>1, <3>2, <3>5
    <3> QED BY <2>15, <3>3, <3>4, <3>5 DEF ReinitFails
  <2>16. ASSUME NEW t \in Task, Committed(t) \/ Unwind(t) PROVE ChannelInv'
    <3>1. Finally(t, frames[t]) /\ frames[t] \in Nat
      BY <2>0, <2>16 DEF Committed, Unwind
    <3>2. recoveries' \in 0..MaxRecovery /\ (recoveryTimer' => recoveries' < MaxRecovery)
      BY <2>0, <2>16, ChannelAssumption DEF Committed, Unwind
    <3>3. UNCHANGED <<channelStatus, retries, runner, bot, recoveryTimer, backoffResolve, polling, stopping>>
      BY <2>16 DEF Committed, Unwind
    <3> QED BY <2>0, <2>1, <2>4, <3>1, <3>2, <3>3
  <2>17. ASSUME NEW t \in Task, RecoveryTick(t) PROVE ChannelInv'
    <3>1. UNCHANGED <<channelStatus, retries, pendingFailure, runner, backoffResolve, stopping>>
      BY <2>17 DEF RecoveryTick
    <3>2. CASE UNCHANGED <<recoveries, inFlightRecovery, at, frames, cause, bot, polling>>
      <4>1. recoveryTimer' = FALSE \/ recoveryTimer' = (recoveries < MaxRecovery)
        BY <2>17, <3>2 DEF RecoveryTick, ScheduleRecovery
      <4>2. recoveryTimer' \in BOOLEAN
        <5>1. (recoveries < MaxRecovery) \in BOOLEAN
          OBVIOUS
        <5> QED BY <4>1, <5>1, Zenon
      <4>3. recoveryTimer' => recoveries < MaxRecovery
        BY <4>1
      <4>4. recoveries' = recoveries
        BY <3>2
      <4> QED BY <2>0, <2>1, <3>1, <3>2, <4>2, <4>3, <4>4
    <3>3. CASE inFlightRecovery' = TRUE /\ recoveries' = recoveries + 1 /\ recoveryTimer' = FALSE
               /\ cause' = [cause EXCEPT ![t] = "recovery"]
               /\ frames' = [frames EXCEPT ![t] = 0] /\ ReinitBegins(t)
      <4>1. frames' \in [Task -> Nat] /\ cause' \in [Task -> Causes]
        BY <2>0, <3>3
      <4>2. recoveries' \in 0..MaxRecovery
        BY <2>0, <2>17, <3>3, ChannelAssumption DEF RecoveryTick
      <4> QED BY <2>0, <2>1, <2>6, <3>1, <3>3, <4>1, <4>2
    <3> QED BY <2>17, <3>2, <3>3, Zenon DEF RecoveryTick
  <2>18. CASE UNCHANGED channelVars
    BY <2>0, <2>1, <2>18 DEF channelVars
  <2> QED BY <1>2, <2>7, <2>8, <2>9, <2>10, <2>11, <2>12, <2>13, <2>14, <2>15, <2>16, <2>17, <2>18
          DEF ChannelNext, TaskStep
<1> QED BY <1>1, <1>2

LEMMA CallTypes == RequestInv => CallTypeOK
<1> SUFFICES ASSUME RequestInv PROVE CallTypeOK
  OBVIOUS
<1>1. ASSUME NEW a \in Caller
      PROVE  /\ turn[a].step \in {"idle", "call", "wait", "retry"}
             /\ turn[a].blocks.mark \in 0..turn[a].blocks.stable
  <2>1. turn[a] \in TurnStates /\ turn[a].blocks.mark <= turn[a].blocks.stable
    BY DEF RequestInv
  <2>2. turn[a].blocks \in BlockSets /\ turn[a].step \in {"idle", "call", "wait", "retry"}
    BY <2>1 DEF TurnStates
  <2>3. turn[a].blocks.mark \in 0..2 /\ turn[a].blocks.stable \in 0..2
    BY <2>2 DEF BlockSets
  <2> QED BY <2>1, <2>2, <2>3
<1> QED BY <1>1 DEF RequestInv, CallTypeOK, PastMsgs

\* The money of the whole hours of a day is what its hours can have spent.
SpendInv ==
  /\ QuietInv /\ hour \in 0..DayHours - 1
  /\ hourSpend \in 0..MaxSpend /\ lastHour \in 0..MaxSpend /\ rollHour \in 0..MaxSpend
  /\ daySpend \in 0..MaxSpend * hour
  /\ yesterday \in 0..MaxSpend * DayHours /\ rollDay \in 0..MaxSpend * DayHours
  /\ ledgerIs \in {"ok", "corrupt", "unwritable"} /\ reading \in BOOLEAN /\ sending \in BOOLEAN

LEMMA Hourly ==
  ASSUME NEW n \in Nat, NEW h \in Nat
  PROVE  /\ n * h \in Nat /\ n * (h + 1) = n * h + n /\ n * 0 = 0
         /\ \A k \in Nat : h <= k => n * h <= n * k
<1>1. n * h \in Nat /\ n * (h + 1) = n * h + n /\ n * 0 = 0
  OBVIOUS
<1>2. \A k \in Nat : h <= k => n * h <= n * k
  <2> TAKE k \in Nat
  <2> HAVE h <= k
  <2> DEFINE j == k - h
  <2>1. j \in Nat /\ k = h + j
    OBVIOUS
  <2> HIDE DEF j
  <2>2. n * j \in Nat /\ n * (h + j) = n * h + n * j
    BY <2>1
  <2> QED BY <1>1, <2>1, <2>2
<1> QED BY <1>1, <1>2

LEMMA SpendTypes ==
  /\ SpendInit => SpendInv
  /\ SpendInv /\ [SpendNext]_spendVars => SpendInv'
  /\ SpendInv => SpendTypeOK
<1> USE SpendAssumption
<1>0. MaxSpend * DayHours \in Nat
  BY Hourly
<1>1. SpendInit => SpendInv
  <2> SUFFICES ASSUME SpendInit PROVE SpendInv
    OBVIOUS
  <2>1. QuietInv
    BY QuietStart
  <2>2. MaxSpend * hour = 0 /\ hour = 0
    BY Hourly DEF SpendInit
  <2> QED BY <1>0, <2>1, <2>2 DEF SpendInit, SpendInv
<1>2. ASSUME SpendInv, [SpendNext]_spendVars PROVE SpendInv'
  <2>0. /\ hour \in 0..DayHours - 1
        /\ hourSpend \in 0..MaxSpend /\ lastHour \in 0..MaxSpend /\ rollHour \in 0..MaxSpend
        /\ daySpend \in 0..MaxSpend * hour
        /\ yesterday \in 0..MaxSpend * DayHours /\ rollDay \in 0..MaxSpend * DayHours
        /\ ledgerIs \in {"ok", "corrupt", "unwritable"} /\ reading \in BOOLEAN /\ sending \in BOOLEAN
    BY <1>2 DEF SpendInv
  <2>1. QuietInv'
    BY <1>2, QuietStep DEF SpendInv
  <2>2. CASE Turn
    <3>1. hourSpend' \in 0..MaxSpend
      BY <2>0, <2>2 DEF Turn
    <3> QED BY <2>0, <2>1, <2>2, <3>1 DEF Turn, SpendInv
  <2>3. CASE HourEnds
    <3>0. hour \in Nat /\ hour + 1 <= DayHours /\ DayHours \in Nat
      BY <2>0
    <3> DEFINE past  == MaxSpend * hour
               more == MaxSpend * (hour + 1)
               all == MaxSpend * DayHours
    <3>1. past \in Nat /\ more = past + MaxSpend /\ more <= all /\ all \in Nat
      BY <1>0, <3>0, Hourly
    <3>2. lastHour' \in 0..MaxSpend /\ hourSpend' \in 0..MaxSpend
      BY <2>0, <2>3 DEF HourEnds
    <3>3. CASE hour = DayHours - 1
      <4>1. hour' = 0
        BY <2>3, <3>0, <3>3 DEF HourEnds
      <4>2. daySpend' = 0 /\ yesterday' = daySpend + hourSpend
        BY <2>3, <3>3 DEF HourEnds
      <4>3. MaxSpend * hour' = 0
        BY <4>1, Hourly
      <4> HIDE DEF past, more, all
      <4>4. yesterday' \in 0..all
        BY <2>0, <3>1, <4>2 DEF past
      <4> QED BY <2>0, <2>1, <2>3, <3>0, <3>2, <4>1, <4>2, <4>3, <4>4 DEF HourEnds, SpendInv, all
    <3>4. CASE hour # DayHours - 1
      <4>1. hour' = hour + 1
        BY <2>3, <3>0, <3>4 DEF HourEnds
      <4>2. daySpend' = daySpend + hourSpend /\ yesterday' = yesterday
        BY <2>3, <3>4 DEF HourEnds
      <4>3. MaxSpend * hour' = more
        BY <4>1
      <4> HIDE DEF past, more, all
      <4>4. daySpend' \in 0..more
        BY <2>0, <3>1, <4>2 DEF past
      <4> QED BY <2>0, <2>1, <2>3, <3>0, <3>2, <3>4, <4>1, <4>2, <4>3, <4>4 DEF HourEnds, SpendInv
    <3> QED BY <3>3, <3>4
  <2>4. CASE Aggregate
    BY <2>0, <2>1, <2>4 DEF Aggregate, spendMoney, SpendInv
  <2>5. ASSUME NEW e \in BOOLEAN, RunAlerter(e) PROVE SpendInv'
    <3>1. ledgerIs' \in {"ok", "corrupt", "unwritable"}
      BY <2>0, <2>5 DEF RunAlerter, Alert
    <3> QED BY <2>0, <2>1, <2>5, <3>1 DEF RunAlerter, spendMoney, SpendInv
  <2>6. CASE SpendWorld
    BY <2>0, <2>1, <2>6 DEF SpendWorld, spendMoney, SpendInv
  <2>7. CASE UNCHANGED spendVars
    BY <2>0, <2>1, <2>7 DEF spendVars, SpendInv
  <2> QED BY <1>2, <2>2, <2>3, <2>4, <2>5, <2>6, <2>7 DEF SpendNext
<1>3. ASSUME SpendInv PROVE SpendTypeOK
  <2>0. hour \in 0..DayHours - 1 /\ daySpend \in 0..MaxSpend * hour
    BY <1>3 DEF SpendInv
  <2>1. hour \in Nat /\ hour <= DayHours /\ DayHours \in Nat
    BY <2>0
  <2>2. MaxSpend * hour \in Nat /\ MaxSpend * hour <= MaxSpend * DayHours
    BY <2>1, Hourly
  <2>3. daySpend \in 0..MaxSpend * DayHours
    BY <1>0, <2>0, <2>2
  <2> QED BY <1>3, <2>3 DEF SpendInv, QuietInv, SpendTypeOK
<1> QED BY <1>1, <1>2, <1>3

LEMMA FilesTypes ==
  /\ FilesInit => FilesTypeOK
  /\ FilesTypeOK /\ [FilesNext]_skillFileVars => FilesTypeOK'
<1>1. FilesInit => FilesTypeOK
  BY DEF FilesInit, FilesTypeOK
<1>2. ASSUME FilesTypeOK, [FilesNext]_skillFileVars PROVE FilesTypeOK'
  <2>1. CASE LoadAgent
    <3>1. ParseSkill(skillFile) \in Seq(Endpoints)
      BY <1>2, FilesAssumption, ParsedSkill DEF FilesTypeOK
    <3>2. PICK n \in SUBSET {"get_item", "update_item"} : tools' \in [n -> Endpoints]
      BY <2>1, <3>1, ToolsTyped DEF LoadAgent, ToolTable
    <3> QED BY <1>2, <2>1, <3>2 DEF LoadAgent, FilesTypeOK
  <2>2. CASE ReportSkills
    <3>1. report' = Inspect(skillFile)
      BY <2>2 DEF ReportSkills
    <3>2. Inspect(skillFile) \in {"none", "fine", "no_base", "base_outside_auth", "no_tools", "dash",
                                  "no_endpoints"}
      BY DEF Inspect, Diagnose
    <3> QED BY <1>2, <2>2, <3>1, <3>2 DEF ReportSkills, FilesTypeOK
  <2>3. ASSUME NEW spoke \in SUBSET MessageWord, MessageArrives(spoke) PROVE FilesTypeOK'
    BY <1>2, <2>3 DEF MessageArrives, FilesTypeOK, LoadSkills
  <2>4. CASE UNCHANGED skillFileVars
    BY <1>2, <2>4 DEF skillFileVars, FilesTypeOK
  <2> QED BY <1>2, <2>1, <2>2, <2>3, <2>4 DEF FilesNext
<1> QED BY <1>1, <1>2

\* For any constants: every variable of the twenty modules keeps to its type, in
\* every behaviour of any of them.
THEOREM ServicesKeepTypes == ServicesSpec => []ServicesTypeOK
<1> DEFINE Typed == /\ ChannelInv /\ CapsInv /\ QueueTypeOK /\ SwitchTypeOK /\ BoardTypeOK
                    /\ AccessTypeOK /\ ServerTypeOK /\ LifeTypeOK /\ CogTypeOK /\ ConvInv
                    /\ KnowInv /\ RequestInv /\ GatesTypeOK /\ ShellInv /\ CredTypeOK
                    /\ McpTypeOK /\ CallInv /\ FilesTypeOK /\ WatchInv /\ SpendInv
<1>1. ServicesInit => Typed
  <2> SUFFICES ASSUME ServicesInit PROVE Typed
    OBVIOUS
  <2>1. /\ ChannelInv /\ CapsInv /\ QueueTypeOK /\ SwitchTypeOK /\ BoardTypeOK
        /\ AccessTypeOK /\ ServerTypeOK /\ LifeTypeOK
    BY EachBegins, ChannelTypes, CapsStart, QueueTypes, SwitchTypes, BoardTypes, AccessTypes,
       ServerTypes, LifeTypes
  <2>2. CogTypeOK /\ ConvInv /\ KnowInv /\ RequestInv /\ GatesTypeOK /\ ShellInv
    BY EachBegins, CogTypes, ConvStart, KnowStart, RequestStart, GatesStart, ShellStarts,
       ShellAssumption
  <2>3. CredTypeOK /\ McpTypeOK /\ CallInv /\ FilesTypeOK /\ WatchInv /\ SpendInv
    BY EachBegins, CredTypes, McpTypes, CallStart, FilesTypes, WatchStart, SpendTypes
  <2> QED BY <2>1, <2>2, <2>3
<1>2. Typed /\ [ServicesNext]_servicesVars => Typed'
  <2> SUFFICES ASSUME Typed, [ServicesNext]_servicesVars PROVE Typed'
    OBVIOUS
  <2>1. (/\ ChannelInv /\ CapsInv /\ QueueTypeOK /\ SwitchTypeOK /\ BoardTypeOK
         /\ AccessTypeOK /\ ServerTypeOK /\ LifeTypeOK)'
    BY EachMoves, ChannelTypes, CapsStep, QueueTypes, SwitchTypes, BoardTypes, AccessTypes,
       ServerTypes, LifeTypes
  <2>2. (CogTypeOK /\ ConvInv /\ KnowInv /\ RequestInv /\ GatesTypeOK /\ ShellInv)'
    BY EachMoves, CogTypes, ConvStep, KnowStep, RequestStep, GatesStep, ShellStep,
       ShellAssumption
  <2>3. (CredTypeOK /\ McpTypeOK /\ CallInv /\ FilesTypeOK /\ WatchInv /\ SpendInv)'
    BY EachMoves, CredTypes, McpTypes, CallStep, FilesTypes, WatchStep, SpendTypes
  <2> QED BY <2>1, <2>2, <2>3
<1>3. Typed => ServicesTypeOK
  BY CallTypes, SpendTypes
     DEF ServicesTypeOK, ChannelInv, CapsInv, HeartbeatTypeOK, ConvInv, KnowInv, ShellInv, CallInv,
         WatchInv
<1> HIDE DEF Typed
<1> QED BY <1>1, <1>2, <1>3, PTL DEF ServicesSpec
=============================================================================
