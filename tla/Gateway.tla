------------------------------- MODULE Gateway -------------------------------
(***************************************************************************)
(* The gateway: the servers a user registered, the logins at them, and the *)
(* runtime that gives a bound tool a branch of the drive to work in.       *)
(* Logins that wait for their callback are in the memory of one process;   *)
(* rows of servers and of tokens are in DynamoDB.  The drive, the tool's   *)
(* server and the authorization server are external: a call of theirs is   *)
(* done or not, and its answer arrives or is an error.                     *)
(***************************************************************************)
EXTENDS Naturals, Sequences

CONSTANTS
  Servers,       \* ids that add_server can allocate
  DriveServers,  \* those of them whose id, name or url says drive
  GatewayCalls,  \* requests that can be in flight at once
  MaxLogins,     \* bound on logins started
  MaxRuntimes    \* bound on runtime executions

ASSUME GatewayAssumption ==
  /\ DriveServers \subseteq Servers
  /\ {MaxLogins, MaxRuntimes} \subseteq Nat \ {0}

VARIABLES
  allocated,  \* ids given to a server so far
  registered, \* ids with a row in the registry
  token,      \* per server: the row of its token ("none", "live", "expired")
  login,      \* the logins, in the order they were started
  runtime,    \* the runtime executions, in the order they were started
  gcall,      \* the requests in flight
  crossed     \* servers that were removed while a login at them was under way

gatewayVars == <<allocated, registered, token, login, runtime, gcall, crossed>>

NoRequest == [pc |-> "none", server |-> "none", n |-> 0]
AtCall(q, pc) == gcall[q].pc = pc
CallGoes(q, pc) == gcall' = [gcall EXCEPT ![q].pc = pc]
CallEnds(q) == gcall' = [gcall EXCEPT ![q] = NoRequest]

(* What the handlers of the drive and of a tool's server do to a branch *)
NewRuntime(input, wanted) ==
  [branch |-> "none", input |-> input, wanted |-> wanted, moved |-> FALSE, tool |-> "not run",
   landed |-> FALSE, answer |-> "none", excused |-> FALSE]

GatewayInit ==
  /\ allocated = {} /\ registered = {} /\ crossed = {}
  /\ token = [s \in Servers |-> "none"]
  /\ login = <<>> /\ runtime = <<>>
  /\ gcall = [q \in GatewayCalls |-> NoRequest]

-----------------------------------------------------------------------------
(* add_server and POST /api/servers: a fresh id, then one put *)
AddServer(s) ==
  /\ s \notin allocated
  /\ allocated' = allocated \union {s} /\ registered' = registered \union {s}
  /\ UNCHANGED <<token, login, runtime, gcall, crossed>>

UnderWay(s) ==
  \/ \E n \in DOMAIN login : login[n].server = s /\ login[n].state = "pending"
  \/ \E q \in GatewayCalls : gcall[q].server = s /\ gcall[q].pc \in {"discover", "exchange", "store"}

(* remove_server: the row of the server, then the row of its token *)
RemoveRow(q, s) ==
  /\ AtCall(q, "none") /\ s \in allocated
  /\ registered' = registered \ {s}
  /\ gcall' = [gcall EXCEPT ![q] = [pc |-> "forget", server |-> s, n |-> 0]]
  /\ UNCHANGED <<allocated, token, login, runtime, crossed>>

(* A plausible bug: the token of a removed server is kept. *)
ForgetNothing(q) ==
  /\ AtCall(q, "forget")
  /\ crossed' = IF UnderWay(gcall[q].server) THEN crossed \union {gcall[q].server} ELSE crossed
  /\ CallEnds(q)
  /\ UNCHANGED <<allocated, registered, token, login, runtime>>

ForgetToken(q) ==
  /\ AtCall(q, "forget")
  /\ token' = [token EXCEPT ![gcall[q].server] = "none"]
  /\ crossed' = IF UnderWay(gcall[q].server) THEN crossed \union {gcall[q].server} ELSE crossed
  /\ CallEnds(q)
  /\ UNCHANGED <<allocated, registered, login, runtime>>

LogOutOf(s) ==
  /\ token[s] # "none"
  /\ token' = [token EXCEPT ![s] = "none"]
  /\ UNCHANGED <<allocated, registered, login, runtime, gcall, crossed>>

(* The time in expiresAt passes; nothing refreshes a token. *)
TokenExpires(s) ==
  /\ token[s] = "live"
  /\ token' = [token EXCEPT ![s] = "expired"]
  /\ UNCHANGED <<allocated, registered, login, runtime, gcall, crossed>>

-----------------------------------------------------------------------------
(* oauth/start: the server must be registered; discovery, registration of the *)
(* client and PKCE are awaited; then the login waits for its callback.        *)
StartLogin(q, s) ==
  /\ AtCall(q, "none") /\ s \in registered
  /\ gcall' = [gcall EXCEPT ![q] = [pc |-> "discover", server |-> s, n |-> 0]]
  /\ UNCHANGED <<allocated, registered, token, login, runtime, crossed>>

Discovered(q) ==
  /\ AtCall(q, "discover") /\ Len(login) < MaxLogins
  /\ login' = Append(login, [server |-> gcall[q].server, state |-> "pending"])
  /\ CallEnds(q)
  /\ UNCHANGED <<allocated, registered, token, runtime, crossed>>

(* oauth/server/callback: the state must be pending and of this user. *)
Callback(q, n) ==
  /\ AtCall(q, "none") /\ n \in DOMAIN login /\ login[n].state = "pending"
  /\ gcall' = [gcall EXCEPT ![q] = [pc |-> "exchange", server |-> login[n].server, n |-> n]]
  /\ UNCHANGED <<allocated, registered, token, login, runtime, crossed>>

(* The token endpoint answers; a refusal leaves the login pending. *)
Exchanged(q) ==
  /\ AtCall(q, "exchange")
  /\ CallGoes(q, "store") \/ CallEnds(q)
  /\ UNCHANGED <<allocated, registered, token, login, runtime, crossed>>

StoreToken(q) ==
  /\ AtCall(q, "store")
  /\ token' = [token EXCEPT ![gcall[q].server] = "live"]
  /\ login' = [login EXCEPT ![gcall[q].n].state = "done"]
  /\ CallEnds(q)
  /\ UNCHANGED <<allocated, registered, runtime, crossed>>

(* The ten minutes of a login pass, or the process that remembers it ends. *)
LoginLapses(n) ==
  /\ login[n].state = "pending"
  /\ login' = [login EXCEPT ![n].state = "done"]
  /\ UNCHANGED <<allocated, registered, token, runtime, gcall, crossed>>

-----------------------------------------------------------------------------
(* call_tool of a bound tool: the server, then the list of all servers, for one *)
(* of the drive.  What an unbound tool does is the server's own.                *)
CallTool(q, s, input, wanted) ==
  /\ AtCall(q, "none") /\ s \in registered /\ Len(runtime) < MaxRuntimes
  /\ runtime' = Append(runtime, NewRuntime(input, wanted))
  /\ gcall' = [gcall EXCEPT ![q] = [pc |-> "list", server |-> s, n |-> Len(runtime) + 1]]
  /\ UNCHANGED <<allocated, registered, token, login, crossed>>

Execution(q) == runtime[gcall[q].n]
(* The execution of q gets the fields of change; q goes to pc. *)
RuntimeStep(q, pc, execution) ==
  /\ runtime' = [runtime EXCEPT ![gcall[q].n] = execution]
  /\ CallGoes(q, pc)
  /\ UNCHANGED <<allocated, registered, token, login, crossed>>

RuntimeAnswers(q, execution) ==
  /\ runtime' = [runtime EXCEPT ![gcall[q].n] = execution]
  /\ CallEnds(q)
  /\ UNCHANGED <<allocated, registered, token, login, crossed>>

FindDrive(q) ==
  /\ AtCall(q, "list")
  /\ IF registered \intersect DriveServers = {}
     THEN RuntimeAnswers(q, [Execution(q) EXCEPT !.answer = "error"])
     ELSE RuntimeStep(q, "create", Execution(q))

(* createBranch: create_branch at the drive, whose answer may not arrive, then *)
(* a request at the branch's own url for the id of its parent.                 *)
CreateRuntimeBranch(q) ==
  /\ AtCall(q, "create")
  /\ \/ RuntimeStep(q, "parent", [Execution(q) EXCEPT !.branch = "open"])
     \/ RuntimeAnswers(q, [Execution(q) EXCEPT !.branch = "open", !.excused = TRUE, !.answer = "error"])
     \/ RuntimeAnswers(q, [Execution(q) EXCEPT !.answer = "error"])

ResolveParent(q) ==
  /\ AtCall(q, "parent")
  /\ \/ RuntimeStep(q, IF Execution(q).input THEN "input" ELSE "run", Execution(q))
     \/ RuntimeAnswers(q, [Execution(q) EXCEPT !.excused = TRUE, !.answer = "error"])

TransferInput(q) ==
  /\ AtCall(q, "input")
  /\ \/ RuntimeStep(q, "run", [Execution(q) EXCEPT !.moved = TRUE])
     \/ RuntimeStep(q, "abort", Execution(q))

(* A tool that answers isError has failed, as much as one that throws.        *)
RunTool(q) ==
  /\ AtCall(q, "run")
  /\ \/ RuntimeStep(q, IF Execution(q).wanted THEN "output" ELSE "close", [Execution(q) EXCEPT !.tool = "done"])
     \/ RuntimeStep(q, "abort", [Execution(q) EXCEPT !.tool = "failed"])

(* The output goes to the parent, or its transfer answers an error. *)
TransferOutput(q) ==
  /\ AtCall(q, "output")
  /\ \/ RuntimeStep(q, "close", [Execution(q) EXCEPT !.landed = TRUE])
     \/ \E done \in BOOLEAN : RuntimeStep(q, "abort", [Execution(q) EXCEPT !.landed = done])

(* closeBranch on both ways out; its errors are swallowed.  A plausible bug is  *)
(* to close the branch of a success only.                                       *)
CloseOnSuccess(q) ==
  /\ AtCall(q, "close") \/ AtCall(q, "abort")
  /\ \E closed \in BOOLEAN :
       RuntimeAnswers(q, [Execution(q) EXCEPT !.answer = IF AtCall(q, "close") THEN "ok" ELSE "error",
                                     !.branch = IF closed /\ AtCall(q, "close") THEN "closed" ELSE "open",
                                     !.excused = AtCall(q, "close") /\ ~closed])

CloseRuntimeBranch(q) ==
  /\ AtCall(q, "close") \/ AtCall(q, "abort")
  /\ \E closed \in BOOLEAN :
       RuntimeAnswers(q, [Execution(q) EXCEPT !.answer = IF AtCall(q, "close") THEN "ok" ELSE "error",
                                     !.branch = IF closed THEN "closed" ELSE "open",
                                     !.excused = ~closed])

(* The process ends, or a call of DynamoDB rejects, while it handles q. *)
GatewayFails(q) ==
  /\ ~AtCall(q, "none")
  /\ crossed' = IF AtCall(q, "forget") THEN crossed \union {gcall[q].server} ELSE crossed
  /\ IF gcall[q].pc \in {"forget", "discover", "exchange", "store"}
     THEN UNCHANGED runtime
     ELSE runtime' = [runtime EXCEPT ![gcall[q].n].excused = TRUE]
  /\ CallEnds(q)
  /\ UNCHANGED <<allocated, registered, token, login>>

GatewayNext ==
  \/ \E s \in Servers : AddServer(s) \/ LogOutOf(s) \/ TokenExpires(s)
  \/ \E n \in DOMAIN login : LoginLapses(n)
  \/ \E q \in GatewayCalls :
       \/ \E s \in Servers : RemoveRow(q, s) \/ StartLogin(q, s)
       \/ \E s \in Servers \ DriveServers, input, wanted \in BOOLEAN : CallTool(q, s, input, wanted)
       \/ \E n \in DOMAIN login : Callback(q, n)
       \/ ForgetToken(q) \/ Discovered(q) \/ Exchanged(q) \/ StoreToken(q)
       \/ FindDrive(q) \/ CreateRuntimeBranch(q) \/ ResolveParent(q) \/ TransferInput(q)
       \/ RunTool(q) \/ TransferOutput(q) \/ CloseRuntimeBranch(q) \/ GatewayFails(q)

GatewaySpec == GatewayInit /\ [][GatewayNext]_gatewayVars

-----------------------------------------------------------------------------
GatewayTypeOK ==
  /\ registered \subseteq allocated /\ allocated \subseteq Servers /\ crossed \subseteq allocated
  /\ token \in [Servers -> {"none", "live", "expired"}]
  /\ \A n \in DOMAIN login : login[n] \in [server : allocated, state : {"pending", "done"}]
  /\ \A n \in DOMAIN runtime :
       runtime[n] \in [branch : {"none", "open", "closed"}, input : BOOLEAN, wanted : BOOLEAN,
                       moved : BOOLEAN, tool : {"not run", "done", "failed"}, landed : BOOLEAN,
                       answer : {"none", "ok", "error"}, excused : BOOLEAN]
  /\ \A q \in GatewayCalls : AtCall(q, "none") \/ gcall[q].server \in allocated

(* A server that was removed leaves no token behind, unless a login at it was  *)
(* under way when it was removed, or the removal itself failed: the callback   *)
(* does not look whether the server is still there.                            *)
TokensHaveServers ==
  \A s \in allocated \ registered :
    token[s] # "none" =>
      s \in crossed \/ \E q \in GatewayCalls : AtCall(q, "forget") /\ gcall[q].server = s

(* Where the call of a runtime execution can be *)
RuntimePcs == {"list", "create", "parent", "input", "run", "output", "close", "abort"}

(* The branch of a runtime execution is closed when the call is over, however  *)
(* the transfers and the tool ended.  The exceptions: the drive did not close  *)
(* it, the process ended, or the id of the parent could not be had.            *)
RuntimeCleansUp ==
  \A n \in DOMAIN runtime :
    (runtime[n].branch = "open" /\ ~runtime[n].excused) =>
      \E q \in GatewayCalls : gcall[q].pc \in RuntimePcs /\ gcall[q].n = n

(* What reaches the parent is the output of a tool that succeeded, on the      *)
(* input it was to work on; a call that answers success delivered its output.  *)
OutputIsOfTheTool ==
  \A n \in DOMAIN runtime :
    LET e == runtime[n]
    IN  /\ e.landed => e.tool = "done" /\ (e.input => e.moved)
        /\ e.answer = "ok" => e.tool = "done" /\ (e.wanted => e.landed)

(* A bound tool's call is all or nothing to the drive: its branch does not stay *)
(* (RuntimeCleansUp), and what it leaves is the output it had (OutputIsOfTheTool). *)
RuntimeHolds == RuntimeCleansUp /\ OutputIsOfTheTool
=============================================================================
