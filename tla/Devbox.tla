------------------------------- MODULE Devbox -------------------------------
(***************************************************************************)
(* The devbox of one machine: `cell devbox prepare`, `start` and `stop`,   *)
(* the proxy that leads a host name to the port of a cell by the routes    *)
(* file, and the `cell dev` commands that register their hosts in it       *)
(* (cell-cli commands/devbox/, commands/dev.ts, local/devbox-*.ts).        *)
(*                                                                         *)
(* The routes file has no lock.  A write truncates it and then fills it,   *)
(* and a file that does not parse reads as no routes at all.               *)
(*                                                                         *)
(* Bounds: MaxDevs `cell dev` commands, MaxBoxes devbox commands, and      *)
(* MaxDeaths processes that die by themselves.  PIDs are not used again.   *)
(* The routes and the daemons share no state, so that a behaviour is of    *)
(* one side.                                                               *)
(***************************************************************************)
EXTENDS Naturals, FiniteSets

CONSTANTS
  BoxCells,     \* cells with a domain that run `cell dev`
  BoxHost,      \* the dev host of each
  BoxPort,      \* the frontend port of each
  BoxCommands,  \* devbox commands that may run at the same time
  NoRoute,      \* no port for a host
  MaxDevs, MaxBoxes, MaxDeaths

VARIABLES
  registry,     \* devbox-routes.json: routes, and what a write left of it
  devs,         \* cell dev: step, and the routes it has read
  disturbed,    \* cells whose route another writer may have dropped
  boxer,        \* devbox commands: step, and the PIDs they have read
  daemons,      \* proxy and tunnel processes that run, by the start that made them
  pids,         \* devbox-daemon.json
  besides,      \* a start or a stop ran beside another
  boxed         \* which side, and how many commands and deaths so far

devboxVars == <<registry, devs, disturbed, boxer, daemons, pids, besides, boxed>>

Hosts == {BoxHost[c] : c \in BoxCells}
Ports == {BoxPort[c] : c \in BoxCells}
Nothing == [h \in Hosts |-> NoRoute]
NoPids == 0
BoxIdle == [at |-> "idle", pids |-> NoPids, turn |-> 0]

DevboxInit ==
  /\ registry = [routes |-> Nothing, whole |-> TRUE, writers |-> 0]
  /\ devs = [c \in BoxCells |-> [at |-> "idle", read |-> Nothing, stale |-> FALSE]]
  /\ disturbed = {}
  /\ boxer = [b \in BoxCommands |-> BoxIdle]
  /\ daemons = {}
  /\ pids = NoPids
  /\ besides = FALSE
  /\ boxed = [side |-> "any", devs |-> 0, boxes |-> 0, deaths |-> 0]

fileVars == <<registry, devs, disturbed>>
daemonVars == <<boxer, daemons, pids, besides>>

(* The routes file *)

ReadRoutes == IF registry.whole THEN registry.routes ELSE Nothing

(* writeFileSync truncates; what it then writes stands, unless another writer *)
(* had the file open too, which may leave text that does not parse.           *)
Truncated == [registry EXCEPT !.whole = FALSE, !.writers = @ + 1]
Filled(routes) ==
  {[routes |-> routes, whole |-> w, writers |-> registry.writers - 1] :
     w \in IF registry.writers > 1 THEN BOOLEAN ELSE {TRUE}}

At(c, at) == [devs EXCEPT ![c].at = at]
(* Whoever has read the routes and not yet written them has old ones now. *)
Stale(d) == [c \in BoxCells |-> [d[c] EXCEPT !.stale = @ \/ d[c].at \in
                                   {"truncates", "writes", "untruncates", "unwrites"}]]

(* registerRoute and unregisterRoute: read, change one host, write all. *)
Reads(c, at) ==
  devs' = [devs EXCEPT ![c] = [at |-> at, read |-> ReadRoutes, stale |-> ~registry.whole]]
BeginDev(c) ==
  /\ devs[c].at = "idle" /\ boxed.devs < MaxDevs /\ boxed.side # "daemons"
  /\ Reads(c, "truncates")
  /\ boxed' = [boxed EXCEPT !.side = "routes", !.devs = @ + 1]
  /\ UNCHANGED <<registry, disturbed, daemonVars>>

Truncate(c) ==
  /\ devs[c].at \in {"truncates", "untruncates"}
  /\ registry' = Truncated
  /\ devs' = At(c, IF devs[c].at = "truncates" THEN "writes" ELSE "unwrites")
  /\ UNCHANGED <<disturbed, daemonVars, boxed>>

Registered(c) == [devs[c].read EXCEPT ![BoxHost[c]] = BoxPort[c]]
UnregisteredAll(c) == Nothing
Unregistered(c) == [devs[c].read EXCEPT ![BoxHost[c]] = NoRoute]
WriteRoutes(c) ==
  LET adds == devs[c].at = "writes"
  IN  /\ devs[c].at \in {"writes", "unwrites"}
      /\ registry' \in Filled(IF adds THEN Registered(c) ELSE Unregistered(c))
      /\ devs' = Stale([devs EXCEPT ![c].at = IF adds THEN "opens" ELSE "idle",
                                    ![c].read = Nothing])
      /\ disturbed' = IF devs[c].stale \/ registry.writers > 1
                        THEN disturbed \union (BoxCells \ {c})
                        ELSE disturbed \ (IF adds THEN {c} ELSE {})
      /\ UNCHANGED <<daemonVars, boxed>>

(* cell dev between the registration and its servers *)

(* The CNAME of the host and its certificate, where no failure stops the command; *)
(* containers, Cognito, backend and Vite, where one does and leaves the route.    *)
Open(c) ==
  /\ devs[c].at = "opens"
  /\ devs' = At(c, "serves")
  /\ UNCHANGED <<registry, disturbed, daemonVars, boxed>>
OpenFails(c) ==
  /\ devs[c].at = "opens"
  /\ devs' = At(c, "idle")
  /\ UNCHANGED <<registry, disturbed, daemonVars, boxed>>

(* A signal, or the end of a backend process, leads to the cleanup. *)
Cleanup(c) ==
  /\ devs[c].at = "serves"
  /\ Reads(c, "untruncates")
  /\ UNCHANGED <<registry, disturbed, daemonVars, boxed>>
DevKilled(c) ==
  /\ devs[c].at # "idle" /\ boxed.deaths < MaxDeaths
  /\ registry' = [registry EXCEPT !.writers =
                    IF devs[c].at \in {"writes", "unwrites"} THEN @ - 1 ELSE @]
  /\ devs' = [devs EXCEPT ![c] = [at |-> "idle", read |-> Nothing, stale |-> FALSE]]
  /\ boxed' = [boxed EXCEPT !.deaths = @ + 1]
  /\ UNCHANGED <<disturbed, daemonVars>>

(* The devbox commands *)

Alone(b) == \A o \in BoxCommands \ {b} : boxer[o].at = "idle"
BeginBox(b, at, side) ==
  /\ boxer[b].at = "idle" /\ boxed.boxes < MaxBoxes /\ boxed.side \in {"any", side}
  /\ boxer' = [boxer EXCEPT ![b] = [at |-> at, pids |-> pids, turn |-> boxed.boxes + 1]]
  /\ boxed' = [boxed EXCEPT !.side = side, !.boxes = @ + 1]

(* prepare writes the configuration and empties the routes, whoever runs. *)
Prepare(b) ==
  /\ BeginBox(b, "prepares", "routes")
  /\ registry' = Truncated
  /\ UNCHANGED <<devs, disturbed, daemons, pids, besides>>
Prepared(b) ==
  /\ boxer[b].at = "prepares"
  /\ boxer' = [boxer EXCEPT ![b] = BoxIdle]
  /\ registry' \in Filled(Nothing)
  /\ devs' = Stale(devs)
  /\ disturbed' = BoxCells
  /\ UNCHANGED <<daemons, pids, besides, boxed>>

(* start: with a process of the PID file alive nothing is started, else both are. *)
RunsAlready(start) == \E d \in daemons : d.start = start
BeginStart(b) == BeginBox(b, "starts", "daemons") /\ UNCHANGED <<fileVars, daemons, pids, besides>>
AlreadyRuns(b) ==
  /\ boxer[b].at = "starts" /\ RunsAlready(boxer[b].pids)
  /\ boxer' = [boxer EXCEPT ![b] = BoxIdle]
  /\ UNCHANGED <<fileVars, daemons, pids, besides, boxed>>
Spawn(b) ==
  /\ boxer[b].at = "starts" /\ ~RunsAlready(boxer[b].pids)
  /\ boxer' = [boxer EXCEPT ![b] = BoxIdle]
  /\ daemons' = daemons \union {[kind |-> k, start |-> boxer[b].turn] : k \in {"proxy", "tunnel"}}
  /\ pids' = boxer[b].turn
  /\ besides' = (besides \/ ~Alone(b))
  /\ UNCHANGED <<fileVars, boxed>>

(* stop: both processes of the file get a signal, and the file goes. *)
Stop(b) == pids # NoPids /\ BeginBox(b, "stops", "daemons")
             /\ UNCHANGED <<fileVars, daemons, pids, besides>>
Kill(b) ==
  /\ boxer[b].at = "stops"
  /\ daemons' = {d \in daemons : d.start # boxer[b].pids}
  /\ boxer' = [boxer EXCEPT ![b].at = "removes"]
  /\ besides' = (besides \/ ~Alone(b))
  /\ UNCHANGED <<fileVars, pids, boxed>>
RemovePids(b) ==
  /\ boxer[b].at = "removes"
  /\ pids' = NoPids
  /\ boxer' = [boxer EXCEPT ![b] = BoxIdle]
  /\ besides' = (besides \/ ~Alone(b))
  /\ UNCHANGED <<fileVars, daemons, boxed>>

DaemonDies(d) ==
  /\ boxed.deaths < MaxDeaths
  /\ daemons' = daemons \ {d}
  /\ boxed' = [boxed EXCEPT !.deaths = @ + 1]
  /\ UNCHANGED <<fileVars, boxer, pids, besides>>

DevStep(c) ==
  \/ BeginDev(c) \/ Truncate(c) \/ WriteRoutes(c)
  \/ Open(c) \/ OpenFails(c) \/ Cleanup(c) \/ DevKilled(c)
BoxStep(b) ==
  \/ Prepare(b) \/ Prepared(b)
  \/ BeginStart(b) \/ AlreadyRuns(b) \/ Spawn(b)
  \/ Stop(b) \/ Kill(b) \/ RemovePids(b)

DevboxNext ==
  \/ \E c \in BoxCells : DevStep(c)
  \/ \E b \in BoxCommands : BoxStep(b)
  \/ \E d \in daemons : DaemonDies(d)

DevboxSpec == DevboxInit /\ [][DevboxNext]_devboxVars

DevboxTypeOK ==
  /\ registry \in [routes : [Hosts -> Ports \union {NoRoute}], whole : BOOLEAN,
                   writers : 0..Cardinality(BoxCells) + Cardinality(BoxCommands)]
  /\ \A c \in BoxCells : devs[c].read \in [Hosts -> Ports \union {NoRoute}]
  /\ disturbed \subseteq BoxCells /\ besides \in BOOLEAN

(* The proxy: the cell that a request of this host comes to. *)
Led(h) == {c \in BoxCells : devs[c].at = "serves" /\ ReadRoutes[h] = BoxPort[c]}

(* A cell that serves is what its host leads to, whatever other cells begin, end  *)
(* and die around it, unless a write of the routes file besides another's or   *)
(* `devbox prepare` emptied it.  Two cells on one host or port are not promised   *)
(* this: the last to register has the host.                                       *)
Shares(c) ==
  \E o \in BoxCells \ {c} : BoxHost[o] = BoxHost[c] \/ BoxPort[o] = BoxPort[c]
HostsLeadHome ==
  \A c \in BoxCells \ disturbed :
    devs[c].at = "serves" /\ registry.whole /\ ~Shares(c) => Led(BoxHost[c]) = {c}

(* Every process that a start left running can be stopped: the PID file names it, *)
(* unless a start or a stop ran beside another one.                               *)
DaemonsCanBeStopped == ~besides => \A d \in daemons : d.start = pids

DevboxStands == HostsLeadHome /\ DaemonsCanBeStopped
=============================================================================
