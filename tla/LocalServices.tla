--------------------------- MODULE LocalServices ---------------------------
(***************************************************************************)
(* The DynamoDB Local and MinIO containers of one developer's machine, and *)
(* the commands that share them: `cell dev` of each cell, `otavia dev` of  *)
(* each stack and `otavia test e2e` (cell-cli commands/dev.ts and local/,  *)
(* otavia commands/dev.ts, commands/test.ts and local/).                   *)
(*                                                                         *)
(* A container binds its host port when it starts and keeps it: ports come *)
(* from PORT_BASE, which may change between two runs of a command, and a   *)
(* container outlives the command that made it.  A command never asks who  *)
(* answers on a port.                                                      *)
(*                                                                         *)
(* Bounds: MaxRuns commands begun; MaxMishaps containers that run and do   *)
(* not answer in time, commands interrupted on their way, and restarts of  *)
(* the machine, together.  A behaviour is of one tool's commands: those of *)
(* cell-cli and of otavia share neither names nor ports.                   *)
(***************************************************************************)
EXTENDS Naturals, FiniteSets

CONSTANTS
  LocalCells,   \* cells that run `cell dev`
  LocalStacks,  \* stacks that run `otavia dev`
  E2e,          \* the one `otavia test e2e`
  Bases,        \* values of PORT_BASE
  MaxRuns, MaxMishaps

(* Commands differ, and no container of one has the name of another's. *)
ASSUME LocalAssumption ==
  /\ LocalCells \intersect LocalStacks = {} /\ E2e \notin LocalCells \union LocalStacks
  /\ "otavia-dev" \notin LocalCells \union {E2e}
  /\ Bases # {}

VARIABLES
  boxes,        \* containers by name: state, host port, whose tables and buckets
  runners,      \* commands: where they are, of which service, with which base
  displaced,    \* stacks that another stack's `otavia dev` ran beside
  happened      \* whose commands ran, how many, and how many mishaps

localVars == <<boxes, runners, displaced, happened>>

Runners == LocalCells \union LocalStacks \union {E2e}
Services == <<"dynamodb", "minio">>

(* The names: one pair of containers per cell, one for every `otavia dev` of the *)
(* machine, and one for the e2e tests.                                           *)
OwnerOf(r) == IF r \in LocalStacks THEN "otavia-dev" ELSE r
BoxOf(r, s) == [owner |-> OwnerOf(r), service |-> s]
Boxes == [owner : LocalCells \union {"otavia-dev", E2e}, service : {Services[i] : i \in 1..2}]

(* Offsets from the base differ by command and by service, and keep apart. *)
KindOf(r) == IF r \in LocalCells THEN "cell" ELSE IF r = E2e THEN "test" ELSE "dev"
HostPort(kind, base, s) == [kind |-> kind, base |-> base, service |-> s]
NoPort == HostPort("none", CHOOSE b \in Bases : TRUE, Services[1])
PortFor(r) == HostPort(KindOf(r), runners[r].base, runners[r].service)
HostPorts ==
  [kind : {"cell", "test", "dev"}, base : Bases, service : {Services[i] : i \in 1..2}]

NoBox == [state |-> "none", port |-> NoPort, tables |-> {}]
Idle == [at |-> "idle", base |-> CHOOSE b \in Bases : TRUE, service |-> Services[1],
         tried |-> FALSE]

LocalInit ==
  /\ boxes = [n \in Boxes |-> NoBox]
  /\ runners = [r \in Runners |-> Idle]
  /\ displaced = {}
  /\ happened = [tool |-> "any", runs |-> 0, mishaps |-> 0]

(* docker: run makes a container and starts it, start starts one that exists, and *)
(* either fails to start on a host port that a running container holds.            *)
PortTaken(p) == \E n \in Boxes : boxes[n].state = "running" /\ boxes[n].port = p
Made(p) ==
  [state |-> IF PortTaken(p) THEN "created" ELSE "running", port |-> p, tables |-> {}]
Started(box) == IF PortTaken(box.port) THEN box ELSE [box EXCEPT !.state = "running"]
Answering(p) == PortTaken(p)

Own(r) == BoxOf(r, runners[r].service)
RunGoes(r, at) == runners' = [runners EXCEPT ![r].at = at]
(* A command that gives up: the tests remove their containers first (finally). *)
GivesUp(r) == runners' = [runners EXCEPT ![r] = IF r = E2e THEN [@ EXCEPT !.at = "stopping"]
                                                ELSE Idle]
BoxBecomes(r, box) == boxes' = [boxes EXCEPT ![Own(r)] = box]

Mishap ==
  /\ happened.mishaps < MaxMishaps
  /\ happened' = [happened EXCEPT !.mishaps = @ + 1]

ToolOf(r) == IF r \in LocalCells THEN "cell" ELSE "otavia"
Starting(r) == runners[r].at \notin {"idle", "serving"}
BeginRun(r, base) ==
  /\ runners[r].at = "idle" /\ happened.runs < MaxRuns /\ happened.tool \in {"any", ToolOf(r)}
  /\ runners' = [runners EXCEPT ![r] = [Idle EXCEPT !.at = "start", !.base = base]]
  /\ LET others == {k \in LocalStacks \ {r} : runners[k].at # "idle"}
     IN  displaced' =
           IF r \notin LocalStacks THEN displaced
           ELSE (displaced \ {r}) \union others
                  \union {k \in {r} : \E o \in others : Starting(o)}
  /\ happened' = [happened EXCEPT !.tool = ToolOf(r), !.runs = @ + 1]
  /\ UNCHANGED boxes

(* cell dev: a running container is taken as it is, one that exists is started *)
(* whatever comes of it, and a new one must start.                             *)
StartOwn(r) ==
  LET box == boxes[Own(r)]
  IN  /\ runners[r].at = "start" /\ r \in LocalCells
      /\ \/ box.state = "running" /\ RunGoes(r, "check") /\ UNCHANGED boxes
         \/ box.state = "created" /\ RunGoes(r, "check") /\ BoxBecomes(r, Started(box))
         \/ /\ box.state = "none" /\ BoxBecomes(r, Made(PortFor(r)))
            /\ IF PortTaken(PortFor(r)) THEN GivesUp(r) ELSE RunGoes(r, "check")
      /\ UNCHANGED <<displaced, happened>>

(* A container that runs on another port is removed, with what it holds, when *)
(* the developer says yes; without a yes the command ends.                    *)
MisplacedNever(r) == FALSE
Misplaced(r) == boxes[Own(r)].state = "running" /\ boxes[Own(r)].port # PortFor(r)
CheckPort(r) ==
  /\ runners[r].at = "check"
  /\ \/ ~Misplaced(r) /\ RunGoes(r, "wait") /\ UNCHANGED boxes
     \/ Misplaced(r) /\ GivesUp(r) /\ UNCHANGED boxes
     \/ Misplaced(r) /\ BoxBecomes(r, NoBox) /\ RunGoes(r, "start")
  /\ UNCHANGED <<displaced, happened>>

(* otavia: a container on another port, or one that does not start on this port, *)
(* is removed and made anew without a question.                                  *)
StartShared(r) ==
  LET box == boxes[Own(r)]
      started == IF box.state = "created" THEN Started(box) ELSE box
      serves == started.state = "running" /\ started.port = PortFor(r)
  IN  /\ runners[r].at = "start" /\ r \notin LocalCells
      /\ \/ /\ box.state # "none" /\ serves
            /\ BoxBecomes(r, started) /\ RunGoes(r, "wait")
         \/ /\ box.state # "none" /\ ~serves
            /\ BoxBecomes(r, NoBox) /\ UNCHANGED runners
         \/ /\ box.state = "none" /\ BoxBecomes(r, Made(PortFor(r)))
            /\ IF PortTaken(PortFor(r)) THEN GivesUp(r) ELSE RunGoes(r, "wait")
      /\ UNCHANGED <<displaced, happened>>

(* Whoever answers on the port makes the service ready. *)
Ready(r) ==
  /\ runners[r].at = "wait" /\ Answering(PortFor(r))
  /\ RunGoes(r, "tables")
  /\ UNCHANGED <<boxes, displaced, happened>>

(* No answer in time: cell dev makes MinIO's container anew once, and gives up *)
(* on DynamoDB; otavia gives up on either.                                     *)
TimesOut(r) ==
  /\ runners[r].at = "wait"
  /\ \/ ~Answering(PortFor(r)) /\ UNCHANGED happened
     \/ Answering(PortFor(r)) /\ Mishap
  /\ IF r \in LocalCells /\ runners[r].service = "minio" /\ ~runners[r].tried
       THEN /\ BoxBecomes(r, NoBox)
            /\ runners' = [runners EXCEPT ![r].at = "start", ![r].tried = TRUE]
       ELSE GivesUp(r) /\ UNCHANGED boxes
  /\ UNCHANGED displaced

(* Tables and buckets are made in the container that answers, once: what exists *)
(* is left.  With the last service the servers start.                           *)
EnsureTables(r) ==
  /\ runners[r].at = "tables"
  /\ \/ /\ Answering(PortFor(r))
        /\ boxes' = [n \in Boxes |->
                       IF boxes[n].state = "running" /\ boxes[n].port = PortFor(r)
                         THEN [boxes[n] EXCEPT !.tables = @ \union {r}] ELSE boxes[n]]
        /\ runners' = [runners EXCEPT ![r] =
                         IF @.service = Services[1]
                           THEN [@ EXCEPT !.service = Services[2], !.at = "start"]
                           ELSE [@ EXCEPT !.at = IF r = E2e THEN "gateway" ELSE "serving"]]
     \/ ~Answering(PortFor(r)) /\ GivesUp(r) /\ UNCHANGED boxes
  /\ UNCHANGED <<displaced, happened>>

(* The tests start `otavia dev` for a gateway: it takes its port from the base of *)
(* the dev stage, and the tests wait on the port of the test stage; the two are   *)
(* the same port or not as the env files have it.                                 *)
GatewayStarts(r) ==
  /\ runners[r].at = "gateway"
  /\ RunGoes(r, "serving") \/ GivesUp(r)
  /\ UNCHANGED <<boxes, displaced, happened>>

(* The end: of the tests by themselves, of a server by a signal; a signal may end *)
(* any command anywhere.  Only the tests take their containers away.              *)
TestsEnd(r) ==
  /\ runners[r].at = "serving" /\ r = E2e
  /\ RunGoes(r, "stopping")
  /\ UNCHANGED <<boxes, displaced, happened>>
RemoveBoxes(r) ==
  /\ runners[r].at = "stopping"
  /\ boxes' = [n \in Boxes |-> IF n.owner = OwnerOf(r) THEN NoBox ELSE boxes[n]]
  /\ runners' = [runners EXCEPT ![r] = Idle]
  /\ UNCHANGED <<displaced, happened>>
Signalled(r) ==
  /\ runners[r].at # "idle"
  /\ IF runners[r].at = "serving" THEN UNCHANGED happened ELSE Mishap
  /\ runners' = [runners EXCEPT ![r] = Idle]
  /\ UNCHANGED <<boxes, displaced>>

(* docker run --rm: such a container does not survive its stop. *)
Fleeting(n) == n.owner = E2e \/ n = [owner |-> "otavia-dev", service |-> Services[1]]
Reboot ==
  /\ Mishap
  /\ runners' = [r \in Runners |-> Idle]
  /\ boxes' = [n \in Boxes |->
                 IF Fleeting(n) /\ boxes[n].state = "running" THEN NoBox
                 ELSE [boxes[n] EXCEPT !.state = IF @ = "running" THEN "created" ELSE @]]
  /\ UNCHANGED displaced

RunnerStep(r) ==
  \/ \E base \in Bases : BeginRun(r, base)
  \/ StartOwn(r) \/ CheckPort(r) \/ StartShared(r)
  \/ Ready(r) \/ TimesOut(r) \/ EnsureTables(r)
  \/ GatewayStarts(r) \/ TestsEnd(r) \/ RemoveBoxes(r) \/ Signalled(r)

LocalNext == Reboot \/ \E r \in Runners : RunnerStep(r)

LocalSpec == LocalInit /\ [][LocalNext]_localVars

LocalTypeOK ==
  /\ boxes \in [Boxes -> [state : {"none", "created", "running"},
                          port : HostPorts \union {NoPort}, tables : SUBSET Runners]]
  /\ runners \in [Runners -> [at : {"idle", "start", "check", "wait", "tables", "gateway",
                                    "serving", "stopping"},
                              base : Bases, service : {Services[i] : i \in 1..2},
                              tried : BOOLEAN]]
  /\ displaced \subseteq LocalStacks

(* What serves is backed by its own containers: they run on the ports that it was *)
(* given, and hold its tables and buckets.  A stack loses this to the `otavia     *)
(* dev` of another stack beside it, which removes containers of the same names;   *)
(* a cell whose own container could not start works on in whatever answered on    *)
(* its port, its own container being down.  The code never asks a container whose *)
(* it is: it compares ports of names, in steps between which others act.          *)
Backed(r, s) ==
  LET box == boxes[BoxOf(r, s)]
  IN  \/ /\ box.state = "running" /\ r \in box.tables
         /\ box.port = HostPort(KindOf(r), runners[r].base, s)
      \/ r \in LocalCells /\ box.state = "created"
OwnData ==
  \A r \in Runners \ displaced :
    runners[r].at = "serving" => \A i \in 1..2 : Backed(r, Services[i])
=============================================================================
