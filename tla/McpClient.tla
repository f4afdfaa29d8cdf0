------------------------------ MODULE McpClient ------------------------------
(***************************************************************************)
(* One MCP server of the tool registry (src/src/tools/mcp-client.js and    *)
(* the connection part of src/src/tools/registry.js): the client started   *)
(* each time the server is enabled, its handshake, the JSON-RPC requests   *)
(* waiting for an answer, the server's exit and the disconnection.         *)
(***************************************************************************)
EXTENDS FiniteSets

CONSTANTS Client,       \* the clients made, one each time the server is enabled
          RpcId,        \* requests under way at once
          NoClient

VARIABLES transport,    \* of each client: "stdio" or "sse"
          stage,        \* of connect(): "new", "opening", "initialize",
                        \* "list", "ready", "failed"
          serving,      \* the child process runs, or the event stream is open
          mcpConnected, \* _connected
          held,         \* the client in _clients
          toolsOf,      \* the client whose tools are registered
          ask,          \* the client and method of each request, or NoClient
          pending,      \* the requests in _pending, whose timer runs
          reached,      \* the requests the server has received
          askOutcome    \* what the caller of each got: "waits", "ok", "error"

mcpVars == <<transport, stage, serving, mcpConnected, held, toolsOf, ask, pending, reached, askOutcome>>
mcpLink == <<transport, stage, serving, mcpConnected, held, toolsOf>>
mcpCalls == <<ask, pending, reached, askOutcome>>

NoAsk == [client |-> NoClient, method |-> "none"]

McpTypeOK ==
  /\ transport \in [Client -> {"stdio", "sse"}]
  /\ stage \in [Client -> {"new", "opening", "initialize", "list", "ready", "failed"}]
  /\ serving \in [Client -> BOOLEAN] /\ mcpConnected \in [Client -> BOOLEAN]
  /\ held \in Client \cup {NoClient} /\ toolsOf \in Client \cup {NoClient}
  /\ ask \in [RpcId -> {NoAsk} \cup [client: Client, method: {"initialize", "list", "call", "left"}]]
  /\ pending \subseteq RpcId /\ reached \subseteq RpcId
  /\ askOutcome \in [RpcId -> {"waits", "ok", "error"}]

McpInit ==
  /\ transport \in [Client -> {"stdio", "sse"}]
  /\ stage = [c \in Client |-> "new"] /\ serving = [c \in Client |-> FALSE]
  /\ mcpConnected = [c \in Client |-> FALSE] /\ held = NoClient /\ toolsOf = NoClient
  /\ ask = [r \in RpcId |-> NoAsk] /\ pending = {} /\ reached = {}
  /\ askOutcome = [r \in RpcId |-> "waits"]

Opening(c) == stage[c] \in {"opening", "initialize", "list"}
Asks(c, r, m) == ask[r] = [client |-> c, method |-> m]

-----------------------------------------------------------------------------
(* Requests *)

\* _request: pending and its timer set, then sent; where it cannot be sent the
\* caller is told at once, and the entry stays until its timer.
Sends(c, r, m) ==
  /\ ask[r] = NoAsk /\ ask' = [ask EXCEPT ![r] = [client |-> c, method |-> m]]
  /\ pending' = pending \cup {r}
  /\ \/ serving[c] /\ reached' = reached \cup {r} /\ askOutcome' = [askOutcome EXCEPT ![r] = "waits"]
     \/ reached' = reached /\ askOutcome' = [askOutcome EXCEPT ![r] = "error"]

\* _handleMessage: an answer, or an error, to a request still pending; a later
\* one is dropped.
Answered(r) ==
  /\ r \in reached /\ serving[ask[r].client] /\ reached' = reached \ {r}
  /\ pending' = pending \ {r}
  /\ \/ askOutcome' = [askOutcome EXCEPT ![r] = IF r \in pending /\ @ = "waits" THEN "ok" ELSE @]
     \/ askOutcome' = [askOutcome EXCEPT ![r] = IF r \in pending /\ @ = "waits" THEN "error" ELSE @]
  /\ UNCHANGED <<mcpLink, ask>>

\* Fault: the entry goes, the promise is left as it is.
RequestForgotten(r) ==
  /\ r \in pending /\ pending' = pending \ {r}
  /\ UNCHANGED <<mcpLink, ask, reached, askOutcome>>

RequestTimesOut(r) ==
  /\ r \in pending /\ pending' = pending \ {r}
  /\ askOutcome' = [askOutcome EXCEPT ![r] = IF @ = "waits" THEN "error" ELSE @]
  /\ UNCHANGED <<mcpLink, ask, reached>>

\* A settled call whose timer has gone is over.
CallReturns(r) ==
  /\ ask[r].method \in {"call", "left"} /\ askOutcome[r] # "waits" /\ r \notin pending
  /\ ask' = [ask EXCEPT ![r] = NoAsk] /\ reached' = reached \ {r}
  /\ UNCHANGED <<mcpLink, pending, askOutcome>>

-----------------------------------------------------------------------------
(* Connecting *)

\* enablePreset, addCustom, addRemote: a client is made, whatever client there
\* is; the process is spawned or the stream asked for.
ConnectServer(c) ==
  /\ stage[c] = "new" /\ \A d \in Client : ~Opening(d)
  /\ stage' = [stage EXCEPT ![c] = "opening"]
  /\ serving' = [serving EXCEPT ![c] = TRUE]
  /\ UNCHANGED <<transport, mcpConnected, held, toolsOf, mcpCalls>>

\* connect() caught an error: no tools, but the client is kept in _clients.
ConnectFails(c) ==
  /\ stage' = [stage EXCEPT ![c] = "failed"] /\ mcpConnected' = [mcpConnected EXCEPT ![c] = FALSE]
  /\ held' = c /\ UNCHANGED toolsOf

\* 500 ms after the spawn, or at the endpoint event: initialize.
Opened(c, r) ==
  /\ stage[c] = "opening" /\ stage' = [stage EXCEPT ![c] = "initialize"]
  /\ Sends(c, r, "initialize")
  /\ UNCHANGED <<transport, serving, mcpConnected, held, toolsOf>>

\* The spawn fails, or the stream is refused or names no endpoint in 10 s.
OpenFails(c) ==
  /\ stage[c] = "opening" /\ ConnectFails(c)
  /\ \/ serving' = [serving EXCEPT ![c] = FALSE]
     \/ transport[c] = "sse" /\ UNCHANGED serving
  /\ UNCHANGED <<transport, mcpCalls>>

\* The answer to initialize, then the one to tools/list, with which the client
\* is connected and its tools are registered.
Handshake(c, r) ==
  /\ \/ /\ Asks(c, r, "initialize") /\ stage[c] = "initialize" /\ askOutcome[r] = "ok"
        /\ stage' = [stage EXCEPT ![c] = "list"]
        /\ pending' = pending \cup {r} /\ ask' = [ask EXCEPT ![r].method = "list"]
        /\ \/ serving[c] /\ reached' = reached \cup {r} /\ askOutcome' = [askOutcome EXCEPT ![r] = "waits"]
           \/ askOutcome' = [askOutcome EXCEPT ![r] = "error"] /\ UNCHANGED reached
        /\ UNCHANGED <<mcpConnected, held, toolsOf>>
     \/ /\ Asks(c, r, "list") /\ stage[c] = "list" /\ askOutcome[r] = "ok"
        /\ stage' = [stage EXCEPT ![c] = "ready"] /\ mcpConnected' = [mcpConnected EXCEPT ![c] = TRUE]
        /\ held' = c /\ toolsOf' = c
        /\ ask' = [ask EXCEPT ![r] = NoAsk] /\ UNCHANGED <<pending, reached, askOutcome>>
     \/ /\ ask[r].client = c /\ Opening(c) /\ askOutcome[r] = "error" /\ ConnectFails(c)
        /\ ask' = [ask EXCEPT ![r].method = "left"] /\ UNCHANGED <<pending, reached, askOutcome>>
  /\ UNCHANGED <<transport, serving>>

-----------------------------------------------------------------------------
(* A connected server *)

\* callTool: refused at once by a client that is not connected.
CallTool(r) ==
  /\ toolsOf # NoClient /\ held # NoClient /\ mcpConnected[held] /\ Sends(held, r, "call")
  /\ UNCHANGED mcpLink

\* A child that exits is noticed, a stream that ends is not; what is pending
\* waits for its timer.
ServerEnds(c) ==
  /\ serving[c] /\ stage[c] # "opening" /\ serving' = [serving EXCEPT ![c] = FALSE]
  /\ mcpConnected' = [mcpConnected EXCEPT ![c] = @ /\ transport[c] = "sse"]
  /\ reached' = {r \in reached : ask[r].client # c}
  /\ UNCHANGED <<transport, stage, held, toolsOf, ask, pending, askOutcome>>

\* disconnect(): the client in _clients is stopped and everything pending on it
\* rejected; the tools are forgotten.
McpDisconnect ==
  /\ held # NoClient /\ \A c \in Client : ~Opening(c)
  /\ LET mine == {r \in RpcId : ask[r].client = held} IN
       /\ pending' = pending \ mine /\ reached' = reached \ mine
       /\ askOutcome' = [r \in RpcId |-> IF r \in pending \cap mine /\ askOutcome[r] = "waits"
                                        THEN "error" ELSE askOutcome[r]]
  /\ mcpConnected' = [mcpConnected EXCEPT ![held] = FALSE]
  /\ serving' = [serving EXCEPT ![held] = FALSE]
  /\ held' = NoClient /\ toolsOf' = NoClient
  /\ UNCHANGED <<transport, stage, ask>>

McpNext ==
  \/ \E c \in Client : ConnectServer(c) \/ OpenFails(c) \/ ServerEnds(c)
  \/ \E c \in Client, r \in RpcId : Opened(c, r) \/ Handshake(c, r)
  \/ \E r \in RpcId : Answered(r) \/ RequestTimesOut(r) \/ CallReturns(r) \/ CallTool(r)
  \/ McpDisconnect

\* The timers run out and settled promises are acted on.
McpFairness ==
  /\ \A r \in RpcId : WF_mcpVars(RequestTimesOut(r)) /\ WF_mcpVars(CallReturns(r))
  /\ \A c \in Client : /\ WF_mcpVars(\E r \in RpcId : Opened(c, r)) /\ WF_mcpVars(OpenFails(c))
                       /\ WF_mcpVars(\E r \in RpcId : Handshake(c, r))

McpSpec == McpInit /\ [][McpNext]_mcpVars /\ McpFairness

-----------------------------------------------------------------------------
\* No caller waits for good: one that still waits has an entry whose timer
\* runs, whatever came of the server, of the answer, or of the client.
WaitersHaveTimers == \A r \in RpcId : ask[r] # NoAsk /\ askOutcome[r] = "waits" => r \in pending

\* Every call of a tool comes back, and every connect() ends.
CallsComeBack ==
  /\ \A r \in RpcId : (ask[r] # NoAsk) ~> (ask[r] = NoAsk \/ ask[r].method # "call" \/ askOutcome[r] # "waits")
  /\ \A c \in Client : Opening(c) ~> ~Opening(c)
=============================================================================
