----------------------------- MODULE Lifecycle -----------------------------
(***************************************************************************)
(* How the agent starts and stops (src/src/index.js), the commands of      *)
(* src/src/cli/index.js that act on it, and the one settings file both     *)
(* write (src/src/core/config.js): each loads it whole, changes its copy   *)
(* and writes it back whole.                                               *)
(***************************************************************************)
EXTENDS Integers

CONSTANTS Proc,         \* agent processes, numbered as they start
          NoProc,
          Key,          \* settings the owner may set
          Token         \* the generated dashboard token, a setting too

ASSUME LifecycleAssumption ==
  Proc \subseteq Nat /\ NoProc \notin Proc /\ Token \notin Key /\ NoProc \notin Key \cup {Token}

VARIABLES proc,         \* each process: its state
          layer,        \* the next layer to start
          loaded,       \* the settings each process works with
          pidFile,      \* the process qclaw.pid names
          file,         \* config.json: the settings it holds, or Broken
          cli,          \* the command under way, and the settings it has loaded
          overlap       \* two processes have been alive at once

lifeVars == <<proc, layer, loaded, pidFile, file, cli, overlap>>

\* a file cut short by a write under way: it does not parse
Broken == {NoProc}
Settings == SUBSET (Key \cup {Token})
Defaults == {}          \* DEFAULTS: nothing the owner set
LastLayer == 5       \* the layers: core, agents, channels, dashboard, all started
Idle == [name |-> "none", has |-> Defaults]

LifeTypeOK ==
  /\ proc \in [Proc -> {"none", "booting", "ready", "stopping", "gone"}]
  /\ layer \in [Proc -> 1..LastLayer]
  /\ loaded \in [Proc -> Settings]
  /\ pidFile \in Proc \cup {NoProc}
  /\ file \in Settings \cup {Broken}
  /\ cli \in [name : {"none", "restart", "update", "tool", "write"}, has : Settings]
  /\ overlap \in BOOLEAN

LifeInit ==
  /\ proc = [p \in Proc |-> "none"] /\ layer = [p \in Proc |-> 1]
  /\ loaded = [p \in Proc |-> Defaults]
  /\ pidFile = NoProc /\ file \in SUBSET Key /\ cli = Idle /\ overlap = FALSE

Alive(p) == proc[p] \in {"booting", "ready", "stopping"}

\* loadConfig: a file that does not parse gives the defaults.
LoadConfig == IF file = Broken THEN Defaults ELSE file

-----------------------------------------------------------------------------
(* The agent *)

Boots(p) ==
  /\ proc[p] = "none" /\ \A q \in Proc : proc[q] = "none" => p <= q
  /\ proc' = [proc EXCEPT ![p] = "booting"]
  /\ loaded' = [loaded EXCEPT ![p] = LoadConfig]
  /\ overlap' = (overlap \/ \E q \in Proc : Alive(q))
  /\ UNCHANGED <<layer, pidFile, file>>

\* `qclaw start`, or pm2
Start(p) == cli = Idle /\ Boots(p) /\ UNCHANGED cli

Starts(p, n) == proc[p] = "booting" /\ layer[p] = n /\ layer' = [layer EXCEPT ![p] = n + 1]
Ends(p) == proc' = [proc EXCEPT ![p] = "gone"]

\* What a process had in memory goes with it.
Forgets(p) == layer' = [layer EXCEPT ![p] = 1] /\ loaded' = [loaded EXCEPT ![p] = Defaults]
LayerFails(p, n) == proc[p] = "booting" /\ layer[p] = n /\ Ends(p) /\ Forgets(p)

\* Security, credentials, database and memory: without the first the process
\* ends, the others are done without.
CoreStarts(p) ==
  /\ (Starts(p, 1) /\ UNCHANGED <<proc, loaded>>) \/ LayerFails(p, 1)
  /\ UNCHANGED <<pidFile, file, cli, overlap>>

\* Router, tools, agents and specialists: without the router or an agent the
\* process ends.
AgentsStart(p) ==
  /\ (Starts(p, 2) /\ UNCHANGED <<proc, loaded>>) \/ LayerFails(p, 2)
  /\ UNCHANGED <<pidFile, file, cli, overlap>>

\* Channels, liveness and the approval notifier: all can be done without.
ChannelsStart(p) ==
  /\ Starts(p, 3) /\ UNCHANGED <<proc, loaded, pidFile, file, cli, overlap>>

\* Fault: the token is saved without the rest.
DashboardSavesToken(p) ==
  /\ Starts(p, 4)
  /\ \/ /\ Token \notin loaded[p]
        /\ loaded' = [loaded EXCEPT ![p] = @ \cup {Token}] /\ file' = {Token}
     \/ UNCHANGED <<loaded, file>>
  /\ UNCHANGED <<proc, pidFile, cli, overlap>>

\* The dashboard saves the token it had to make, with the whole copy, unless it
\* failed to start.
DashboardStarts(p) ==
  /\ Starts(p, 4)
  /\ \/ /\ Token \notin loaded[p]
        /\ loaded' = [loaded EXCEPT ![p] = @ \cup {Token}] /\ file' = loaded'[p]
     \/ UNCHANGED <<loaded, file>>
  /\ UNCHANGED <<proc, pidFile, cli, overlap>>

\* Fault: a pid file that is there is left as it is.
ReadyKeepsFile(p) ==
  /\ proc[p] = "booting" /\ layer[p] = LastLayer
  /\ proc' = [proc EXCEPT ![p] = "ready"]
  /\ pidFile' = IF pidFile = NoProc THEN p ELSE pidFile
  /\ UNCHANGED <<layer, loaded, file, cli, overlap>>

\* Ready: the pid file is written, then the signals are handled.
Ready(p) ==
  /\ proc[p] = "booting" /\ layer[p] = LastLayer
  /\ proc' = [proc EXCEPT ![p] = "ready"] /\ pidFile' = p
  /\ UNCHANGED <<layer, loaded, file, cli, overlap>>

\* A signal: shutdown() once ready, the end of the process before that.
Signalled(ps) ==
  /\ proc' = [p \in Proc |-> CASE p \in ps /\ proc[p] = "booting" -> "gone"
                               [] p \in ps /\ proc[p] = "ready" -> "stopping"
                               [] OTHER -> proc[p]]
  /\ layer' = [p \in Proc |-> IF proc'[p] = "gone" THEN 1 ELSE layer[p]]
  /\ loaded' = [p \in Proc |-> IF proc'[p] = "gone" THEN Defaults ELSE loaded[p]]

\* shutdown() has stopped every part: the pid file goes, whoever it names.
ShutdownEnds(p) ==
  /\ proc[p] = "stopping" /\ Ends(p) /\ Forgets(p)
  /\ pidFile' = NoProc
  /\ UNCHANGED <<file, cli, overlap>>

\* A crash, or POST /api/restart: the process ends at once.
Dies(p) ==
  /\ Alive(p) /\ Ends(p) /\ Forgets(p)
  /\ UNCHANGED <<pidFile, file, cli, overlap>>

\* POST /api/config, /api/scheduled and a pairing: the process changes its own
\* copy and saves all of it.
AgentSaves(p, k) ==
  /\ proc[p] \in {"ready", "stopping"}
  /\ loaded' = [loaded EXCEPT ![p] = @ \cup {k}] /\ file' = loaded'[p]
  /\ UNCHANGED <<proc, layer, pidFile, cli, overlap>>

-----------------------------------------------------------------------------
(* The commands *)

\* The process the pid file names is signalled; without a file, every one that
\* ps finds.
Kill == Signalled(IF pidFile # NoProc THEN {pidFile} ELSE Proc)

\* `qclaw stop` also removes a pid file whose process is gone.
Stop ==
  /\ cli = Idle /\ Kill
  /\ pidFile' = IF pidFile # NoProc /\ ~Alive(pidFile) THEN NoProc ELSE pidFile
  /\ UNCHANGED <<file, cli, overlap>>

\* `qclaw restart`: the signal, two seconds, and the agent starts in this
\* process whether the other has ended or not.
RestartKills ==
  /\ cli = Idle /\ Kill /\ cli' = [Idle EXCEPT !.name = "restart"]
  /\ UNCHANGED <<pidFile, file, overlap>>
RestartStarts(p) == cli.name = "restart" /\ Boots(p) /\ cli' = Idle

\* `qclaw update`: the agent is signalled first; it is started again only by
\* pm2, and not if there was nothing to update.
UpdateKills ==
  /\ cli = Idle /\ cli' = [Idle EXCEPT !.name = "update"]
  /\ \/ Signalled({pidFile})               \* without a file, none
     \/ \E p \in Proc : Signalled({p})     \* pm2 stop
  /\ UNCHANGED <<pidFile, file, overlap>>
UpdateEnds ==
  /\ cli.name = "update" /\ cli' = Idle
  /\ UNCHANGED <<proc, layer, loaded, pidFile, file, overlap>>
UpdateRestarts(p) == cli.name = "update" /\ Boots(p) /\ cli' = Idle

\* `qclaw config set` and `autolearn`: loaded, changed and saved at once, by a
\* rename.
CliSaves(k) ==
  /\ cli = Idle /\ file' = LoadConfig \cup {k}
  /\ UNCHANGED <<proc, layer, loaded, pidFile, cli, overlap>>

\* `qclaw dashboard` makes a token where it finds none.
DashboardCommand == Token \notin LoadConfig /\ CliSaves(Token)

\* `qclaw tool enable`, `add` and `disable` and `setup-cognee`: the file is
\* loaded before a server is tried, and written in place.
ToolLoads ==
  /\ cli = Idle /\ cli' = [name |-> "tool", has |-> LoadConfig]
  /\ UNCHANGED <<proc, layer, loaded, pidFile, file, overlap>>
ToolTruncates ==
  /\ cli.name = "tool" /\ cli' = [cli EXCEPT !.name = "write"] /\ file' = Broken
  /\ UNCHANGED <<proc, layer, loaded, pidFile, overlap>>
ToolWrites(k) ==
  /\ cli.name = "write" /\ cli' = Idle /\ file' = cli.has \cup {k}
  /\ UNCHANGED <<proc, layer, loaded, pidFile, overlap>>
ToolFails ==
  /\ cli.name \in {"tool", "write"} /\ cli' = Idle
  /\ UNCHANGED <<proc, layer, loaded, pidFile, file, overlap>>

LifeNext ==
  \/ \E p \in Proc : \/ Start(p) \/ CoreStarts(p) \/ AgentsStart(p) \/ ChannelsStart(p)
                     \/ DashboardStarts(p) \/ Ready(p) \/ ShutdownEnds(p) \/ Dies(p)
                     \/ RestartStarts(p) \/ UpdateRestarts(p)
                     \/ \E k \in Key : AgentSaves(p, k)
  \/ Stop \/ RestartKills \/ UpdateKills \/ UpdateEnds
  \/ \E k \in Key : CliSaves(k)
  \/ DashboardCommand
  \/ ToolLoads \/ ToolTruncates \/ \E k \in Key : ToolWrites(k)
  \/ ToolFails

LifeSpec == LifeInit /\ [][LifeNext]_lifeVars

-----------------------------------------------------------------------------
\* `qclaw stop` finds the agent: as long as no two processes were alive at
\* once, the one that is ready is the one the pid file names, or no file sends
\* stop to look for it, and one that shut down in order is named no more.
RunningIsFindable ==
  ~overlap => \A p \in Proc :
    /\ proc[p] = "ready" => pidFile = p
    /\ proc[p] \in {"none", "booting"} => pidFile # p

\* config.json forgets a setting only by way of an older copy: one that the
\* agent, or a command that loads and then writes, read before it was set, or the
\* defaults after a write in place was cut short (saveConfig, loadConfig).
OnlyOldCopiesForget ==
  [][\A k \in file \ file' :
       \/ Broken \in {file, file'}
       \/ (cli.name = "write" /\ k \notin cli.has)
       \/ \E p \in Proc : Alive(p) /\ file' = loaded'[p] /\ k \notin loaded[p]]_lifeVars
=============================================================================
