-------------------------- MODULE DashboardServer --------------------------
(***************************************************************************)
(* The server of src/src/dashboard/server.js: it takes a port, opens a     *)
(* tunnel to it if one is configured, keeps the websockets of the browsers *)
(* alive and shows them the auto-learn questions it finds in the queue     *)
(* directory.                                                              *)
(***************************************************************************)
EXTENDS Integers, FiniteSets

CONSTANTS Browser,      \* browsers that may connect
          Question,     \* auto-learn questions, one file each
          Port          \* the configured port; the next one is Port + 1

ASSUME ServerAssumption == Port \in Nat

VARIABLES serverAt,     \* "down", "tunnel" (start awaits it), "up", "failed", "stopped"
          busyPorts,    \* ports other programs have
          boundPort,    \* the port the server listens on; 0 is none
          toldPort,     \* actualPort, which the address shown is made of
          tunnelKind,   \* which tunnel is configured
          tunnelProc,   \* its process: "none", "running", "killed" or "gone"
          tunnelHeld,   \* this.tunnel is set
          tunnelUrl,    \* whether the dashboard has a tunnel address
          savedUrl,     \* config.dashboard.tunnelUrl is set
          sock,         \* each browser's websocket
          silentSockets, \* browsers that went away without closing
          files,        \* questions waiting in the directory
          shown         \* questions some browser was sent

serverVars == <<serverAt, busyPorts, boundPort, toldPort, tunnelKind, tunnelProc, tunnelHeld,
                tunnelUrl, savedUrl, sock, silentSockets, files, shown>>
tunnelVars == <<tunnelKind, tunnelProc, tunnelHeld, tunnelUrl, savedUrl>>
portVars == <<busyPorts, boundPort, toldPort>>
sockVars == <<sock, silentSockets>>
fileVars == <<files, shown>>

ServerTypeOK ==
  /\ serverAt \in {"down", "tunnel", "up", "failed", "stopped"}
  /\ busyPorts \subseteq {Port} /\ {boundPort, toldPort} \subseteq {0, Port, Port + 1}
  /\ tunnelKind \in {"none", "lt", "named", "quick", "ngrok"}
  /\ tunnelProc \in {"none", "running", "killed", "gone"}
  /\ {tunnelHeld, tunnelUrl, savedUrl} \subseteq BOOLEAN
  /\ sock \in [Browser -> {"none", "alive", "unproven"}] /\ silentSockets \subseteq Browser
  /\ files \subseteq Question /\ shown \subseteq Question

ServerInit ==
  /\ serverAt = "down" /\ boundPort = 0 /\ toldPort = 0
  /\ busyPorts \in SUBSET {Port}
  /\ tunnelKind \in {"none", "lt", "named", "quick", "ngrok"}
  /\ tunnelProc = "none" /\ tunnelHeld = FALSE /\ tunnelUrl = FALSE
  /\ savedUrl \in BOOLEAN
  /\ sock = [b \in Browser |-> "none"] /\ silentSockets = {}
  /\ files = {} /\ shown = {}

\* _listen: a busy port is passed over (autoPort), but the handler of the first
\* try is still there when the second succeeds, and answers first; without
\* autoPort the start fails.
Listen ==
  /\ serverAt = "down"
  /\ \/ /\ boundPort' = (IF Port \in busyPorts THEN Port + 1 ELSE Port) /\ toldPort' = Port
        /\ serverAt' = IF tunnelKind = "none" THEN "up" ELSE "tunnel"
        /\ tunnelProc' = IF tunnelKind = "none" THEN "none" ELSE "running"
        /\ tunnelHeld' = (tunnelKind # "none")
     \/ /\ Port \in busyPorts /\ serverAt' = "failed"
        /\ UNCHANGED <<boundPort, toldPort, tunnelProc, tunnelHeld>>
  /\ UNCHANGED <<busyPorts, tunnelKind, tunnelUrl, savedUrl, sock, silentSockets, files, shown>>

-----------------------------------------------------------------------------
(* The tunnel: start() waits until it has an address, fails or runs out of time. *)

\* An address is printed, or a named tunnel reports that it is connected and
\* its address is known; that of a named tunnel is saved.
TunnelOpens ==
  /\ serverAt = "tunnel" /\ tunnelProc = "running"
  /\ serverAt' = "up" /\ tunnelUrl' = TRUE
  /\ savedUrl' = (savedUrl \/ tunnelKind = "named")
  /\ UNCHANGED <<portVars, tunnelKind, tunnelProc, tunnelHeld, sockVars, fileVars>>

TunnelTimesOut ==
  /\ serverAt = "tunnel" /\ tunnelProc = "running" /\ serverAt' = "up"
  /\ IF tunnelKind = "named" /\ savedUrl
     THEN tunnelUrl' = TRUE /\ UNCHANGED tunnelProc
     ELSE tunnelUrl' = FALSE /\ tunnelProc' = "killed"
  /\ UNCHANGED <<portVars, tunnelKind, tunnelHeld, savedUrl, sockVars, fileVars>>

\* The process exits: the address, once given, stays.
TunnelExits ==
  /\ tunnelProc \in {"running", "killed"} /\ tunnelProc' = "gone"
  /\ tunnelHeld' = FALSE
  /\ serverAt' = IF serverAt = "tunnel" THEN "up" ELSE serverAt
  /\ UNCHANGED <<portVars, tunnelKind, tunnelUrl, savedUrl, sockVars, fileVars>>

-----------------------------------------------------------------------------
(* The websockets *)

Open(b) == sock[b] # "none"

SocketConnects(b) ==
  /\ serverAt \in {"tunnel", "up"} /\ ~Open(b)
  /\ sock' = [sock EXCEPT ![b] = "alive"] /\ silentSockets' = silentSockets \ {b}
  /\ UNCHANGED <<serverAt, portVars, tunnelVars, fileVars>>

GoSilent(b) ==
  /\ Open(b) /\ b \notin silentSockets /\ silentSockets' = silentSockets \cup {b}
  /\ UNCHANGED <<serverAt, portVars, tunnelVars, sock, fileVars>>

Close(b) ==
  /\ Open(b) /\ b \notin silentSockets /\ sock' = [sock EXCEPT ![b] = "none"]
  /\ UNCHANGED <<serverAt, portVars, tunnelVars, silentSockets, fileVars>>

\* pong
Pong(b) ==
  /\ sock[b] = "unproven" /\ b \notin silentSockets
  /\ sock' = [sock EXCEPT ![b] = "alive"]
  /\ UNCHANGED <<serverAt, portVars, tunnelVars, silentSockets, fileVars>>

\* Fault: the beat pings and never ends a socket.
SocketBeatPings ==
  /\ serverAt \in {"tunnel", "up"} /\ \E b \in Browser : Open(b)
  /\ sock' = [b \in Browser |-> IF sock[b] = "none" THEN "none" ELSE "unproven"]
  /\ UNCHANGED <<serverAt, portVars, tunnelVars, silentSockets, fileVars>>

\* The 30-second beat: a socket that has not answered the last ping goes.
SocketBeat ==
  /\ serverAt \in {"tunnel", "up"} /\ \E b \in Browser : Open(b)
  /\ sock' = [b \in Browser |-> IF sock[b] = "alive" THEN "unproven" ELSE "none"]
  /\ UNCHANGED <<serverAt, portVars, tunnelVars, silentSockets, fileVars>>

-----------------------------------------------------------------------------
(* The auto-learn questions *)

QuestionFiled(q) ==
  /\ q \notin files \cup shown /\ files' = files \cup {q}
  /\ UNCHANGED <<serverAt, portVars, tunnelVars, sockVars, shown>>

\* The 15-second poll broadcasts what it finds and deletes it, seen or not; a
\* file that cannot be read or deleted stays.
PollQuestions ==
  /\ serverAt = "up"
  /\ \E Q \in SUBSET files :
       /\ Q # {} /\ files' = files \ Q
       /\ shown' = IF \E b \in Browser : Open(b) THEN shown \cup Q ELSE shown
  /\ UNCHANGED <<serverAt, portVars, tunnelVars, sockVars>>

\* Fault: the tunnel is let go of, not told to end.
StopForgetsTunnel ==
  /\ serverAt = "up" /\ serverAt' = "stopped"
  /\ tunnelHeld' = FALSE /\ tunnelUrl' = FALSE /\ boundPort' = 0
  /\ UNCHANGED <<busyPorts, toldPort, tunnelKind, tunnelProc, savedUrl, sockVars, fileVars>>

\* stop(): the timers go, the tunnel is told to end, nothing new is accepted.
StopServer ==
  /\ serverAt = "up" /\ serverAt' = "stopped"
  /\ tunnelProc' = IF tunnelHeld THEN "killed" ELSE tunnelProc
  /\ tunnelUrl' = IF tunnelHeld THEN FALSE ELSE tunnelUrl
  /\ tunnelHeld' = FALSE
  /\ boundPort' = 0
  /\ UNCHANGED <<busyPorts, toldPort, tunnelKind, savedUrl, sockVars, fileVars>>

ServerNext ==
  \/ Listen \/ TunnelOpens \/ TunnelTimesOut \/ TunnelExits
  \/ \E b \in Browser : SocketConnects(b) \/ GoSilent(b) \/ Close(b) \/ Pong(b)
  \/ SocketBeat \/ PollQuestions \/ StopServer
  \/ \E q \in Question : QuestionFiled(q)

\* A timer that is set fires, and a process that is told to end does.
ServerFairness ==
  /\ WF_serverVars(SocketBeat) /\ WF_serverVars(TunnelTimesOut)
  /\ WF_serverVars(tunnelProc = "killed" /\ TunnelExits)

ServerSpec == ServerInit /\ [][ServerNext]_serverVars /\ ServerFairness

-----------------------------------------------------------------------------
\* No tunnel outlives the server: whatever the order of its output, its exit,
\* the time limit and stop(), a process still running when the server has
\* stopped has been told to end (_startTunnel, _stopTunnel).
NoStrayTunnel ==
  /\ serverAt = "stopped" => tunnelProc # "running"
  /\ tunnelProc = "running" => tunnelHeld

\* A browser that went away without a word does not keep its socket for ever
\* (the heartbeat of _setupWebSocket).
SilentSocketsGo == \A b \in Browser :
  (b \in silentSockets /\ Open(b)) ~> (~Open(b) \/ b \notin silentSockets \/ serverAt = "stopped")
=============================================================================
