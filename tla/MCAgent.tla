------------------------------ MODULE MCAgent ------------------------------
(***************************************************************************)
(* The parts of the agent, for one run: its tables, the service worker     *)
(* with its page, the actions between these two, the tools it offers and   *)
(* the login to an MCP server.                                             *)
(* They share no variable, so a behaviour is of one of them: part names    *)
(* it, and the others stay in their initial state.                         *)
(***************************************************************************)
EXTENDS AgentBackend, AgentWorker, AgentActions, AgentTools, McpLogin

(* Two servers: one is discovered at its root, the other, whose well-known document *)
(* names a server that is gone, only by its 401.                                    *)
mcSite(path, root, header) ==
  [path |-> path, root |-> root, header |-> header, answer |-> <<>>, refuses |-> TRUE]
mcSites ==
  [s \in McpServers |->
    IF s = "s1" THEN mcSite(<<>>, <<<<"as">>>>, <<>>) ELSE mcSite(<<<<"gone">>>>, <<>>, <<<<"as", "gone">>>>)]
mcMcpServers == {"s1", "s2"}
mcAuthServers == {"as"}

VARIABLE part

agentVars == <<part, backendVars, workerVars, actionVars, toolVars, loginVars>>

Parts == {"backend", "worker", "port", "pair", "actions", "tools", "login"}

(* In the part "pair" a second run begins while the first goes on and may be       *)
(* cancelled, without chunks, tools, pulls, settings and ends of the worker; in    *)
(* the part "worker" one run meets all of these, an end of the worker or a change  *)
(* of another kind; in both the page holds its port.  In the part "port" it drops  *)
(* and takes it in the middle of a run without chunks and settings.                *)
OneRun == CHOOSE r \in Runs : TRUE
OtherRuns == Runs \ {OneRun}
PairBound ==
  /\ UNCHANGED <<pull, updates, restarts>> /\ Len(applies') <= 2
  /\ \A i \in DOMAIN applies' : applies'[i].change.kind # "stream.chunk"
  /\ \A r \in OtherRuns :
       /\ ~run'[r].aborted /\ run'[r].pc # "fail"
       /\ run'[r].pc # "idle" => run'[OneRun].mine # {}
AloneBound ==
  /\ \A r \in OtherRuns : run'[r].pc = "idle"
  /\ Len(applies') <= 2 /\ (restarts' = 0 \/ updates' = 0)
PortBound ==
  /\ UNCHANGED restarts /\ Len(applies') <= 1
  /\ \A i \in DOMAIN applies' : applies'[i].change.kind # "settings.updated"
  /\ \A r \in Runs : run'[r].chunks = 0

(* A run loads one tool in a round, and none begins after a kill of the worker. *)
RoundBound ==
  /\ \A r \in ToolRuns : Cardinality(trun'[r].round) <= 1
  /\ kills > 0 => trun' = [r \in ToolRuns |-> NoRun]

AgentInit ==
  /\ part \in Parts
  /\ AgentBackendInit /\ AgentWorkerInit /\ AgentActionsInit /\ AgentToolsInit
  /\ McpLoginInit

AgentNext ==
  /\ UNCHANGED part
  /\ \/ /\ part = "backend" /\ AgentBackendNext
        /\ UNCHANGED <<workerVars, actionVars, toolVars, loginVars>>
     \/ /\ part \in {"worker", "port", "pair"} /\ AgentWorkerNext
        /\ IF part = "pair" THEN PairBound ELSE AloneBound
        /\ IF part = "port" THEN PortBound ELSE link.open /\ link'.open
        /\ UNCHANGED <<backendVars, actionVars, toolVars, loginVars>>
     \/ /\ part = "actions" /\ AgentActionsNext
        /\ UNCHANGED <<backendVars, workerVars, toolVars, loginVars>>
     \/ /\ part = "tools" /\ AgentToolsNext /\ RoundBound
        /\ UNCHANGED <<backendVars, workerVars, actionVars, loginVars>>
     \/ /\ part = "login" /\ McpLoginNext
        /\ UNCHANGED <<backendVars, workerVars, actionVars, toolVars>>

(* The page's timers fire and the page posts what it asked, see                  *)
(* AgentActionsSpec; the pages of a login run on, see McpLoginFairness.          *)
AgentSpec ==
  /\ AgentInit /\ [][AgentNext]_agentVars
  /\ \A a \in Actions : WF_actionVars(Post(a)) /\ WF_actionVars(Timeout(a))
  /\ McpLoginFairness

(* The variables of every part have their types. *)
AgentTypeOK ==
  /\ part \in Parts
  /\ AgentBackendTypeOK /\ AgentWorkerTypeOK /\ AgentActionsTypeOK /\ AgentToolsTypeOK
  /\ McpLoginTypeOK
=============================================================================
