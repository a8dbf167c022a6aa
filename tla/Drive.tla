------------------------------- MODULE Drive -------------------------------
(***************************************************************************)
(* The requests of cells/drive that change a tree, and its gc, at the      *)
(* grain of their awaits: uploads, which run one after the other under the *)
(* per-key mutex of their process; mkdir, rm, mv, cp, PUT root, transfer   *)
(* and the branch operations, which take no lock; and the gc of a realm,   *)
(* which reads the roots of the realm one by one and then collects the     *)
(* node store, one store for all realms.                                   *)
(*                                                                         *)
(* The node store is here what module CasStore shows it to promise: a put  *)
(* stores a node, and a gc marks one root after the other and then deletes *)
(* one node after the other, any that it has not marked and that was first *)
(* stored before its cut-off.  Which of these it does delete depends on    *)
(* blobs that puts and gcs overwrite, or that are never written again, so  *)
(* that it is left open.  The root record of a realm exists from the start. *)
(***************************************************************************)
EXTENDS DriveTree, Naturals, Sequences

CONSTANTS
  Realms,      \* realms, each the name of its root record
  Branches,    \* ids of branches
  NoRealm,     \* no realm: the branch is not in the table
  Processes,   \* server processes, each with its own mutex map
  NoProcess,   \* no process
  Requests,    \* requests that can be in flight at once
  Collectors,  \* gc requests that can be in flight at once
  Kinds,       \* the kinds of requests that are made
  Overlap,     \* whether requests on one record overlap, other than uploads to one process
  Grace,       \* whether a cut-off is never later than the start of a request in flight
  Handover,    \* whether a request that copies from a branch overlaps a gc
  MaxTime,     \* bound on the clock
  MaxRequests, \* bound on the requests of a behaviour
  MaxGcs       \* bound on the gc requests of a behaviour

Records == Realms \union Branches

ASSUME DriveAssumption ==
  /\ NoRealm \notin Realms /\ Realms \intersect Branches = {}
  /\ NoProcess \notin Processes
  /\ Overlap \in BOOLEAN /\ Grace \in BOOLEAN /\ Handover \in BOOLEAN
  /\ MaxTime \in Nat \ {0} /\ MaxRequests \in Nat /\ MaxGcs \in Nat

AllOps ==
  [kind : {"upload"}, rec : Records, name : Names, child : Files]
    \union [kind : {"mkdir"}, rec : Records, name : Names, child : {Empty}]
    \union [kind : {"rm"}, rec : Records, name : Names]
    \union [kind : {"mv", "cp"}, rec : Records, name : Names, to : Names]
    \union [kind : {"rootfile"}, rec : Branches, child : Files]
    \union [kind : {"transfer"}, rec : Records, src : Records, name : Names, to : Names,
            mode : {"replace", "fail_if_exists"}]
    \union [kind : {"create"}, rec : Branches, src : Records, name : Names, realm : Realms]
    \union [kind : {"close"}, rec : Branches]

Ops == {o \in AllOps : o.kind \in Kinds}

NoOp == [kind |-> "none"]

VARIABLES
  store,    \* the nodes in storage
  first,    \* when a node was stored for the first time, NoTime if never
  clock,    \* Date.now()
  root,     \* the root key of each record
  owner,    \* the realm of each branch in the table
  made,     \* the branch ids given out
  revived,  \* history: the nodes linked again, see Revives
  requests, \* requests made so far
  gcs,      \* gc requests made so far
  req,      \* the requests in flight: where each is, and its variables
  queue,    \* per process and record: the uploads that hold or wait for the mutex
  gc        \* the gc requests in flight

casVars == <<store, first>>
treeVars == <<root, owner, made, revived>>
bounds == <<clock, requests, gcs>>
vars == <<casVars, treeVars, bounds, req, queue, gc>>

NoTime == 0

States == {"idle", "queued", "branch", "init", "root", "hasEmpty", "setEmpty", "put",
           "source", "find", "remove", "unlink", "dict", "add", "link", "insert", "set",
           "unlist", "drop"}

Idle == [pc |-> "idle", op |-> NoOp, process |-> NoProcess,
         began |-> NoTime,   \* when it began
         snap |-> NoNode,    \* rootKey: the root it has read, then the one it has built
         source |-> NoNode,  \* the root it has read of the record it copies from
         child |-> NoNode]   \* the node it links

GcIdle == [pc |-> "idle", realm |-> NoRealm, cut |-> NoTime,
           todo |-> {},      \* the branches whose roots it has not read yet
           roots |-> {},     \* rootKeys, as far as they are not marked yet
           seen |-> {}]      \* the keys that are marked

-----------------------------------------------------------------------------
Init ==
  /\ store = {Empty} /\ first = [k \in Nodes |-> IF k = Empty THEN 1 ELSE NoTime]
  /\ clock = 1 /\ requests = 0 /\ gcs = 0
  /\ root = [r \in Records |-> IF r \in Realms THEN Empty ELSE NoNode]
  /\ owner = [b \in Branches |-> NoRealm] /\ made = {}
  /\ revived = {}
  /\ req = [q \in Requests |-> Idle]
  /\ queue = [p \in Processes |-> [r \in Records |-> <<>>]]
  /\ gc = [g \in Collectors |-> GcIdle]

Tick ==
  /\ clock < MaxTime
  /\ clock' = clock + 1
  /\ UNCHANGED <<casVars, treeVars, requests, gcs, req, queue, gc>>

-----------------------------------------------------------------------------
(* The node store *)

(* putNode, from storage.put on: what it writes to the blobs of gc is left open. *)
Put(k) ==
  /\ store' = store \union {k}
  /\ first' = [first EXCEPT ![k] = IF @ = NoTime THEN clock ELSE @]

PutIfMissing(k) == IF k \in store THEN UNCHANGED casVars ELSE Put(k)

(* The keys gc marks from its roots: a node that is missing has no children. *)
Visited(roots) == roots \union UNION {ChildrenOf(k) : k \in roots \intersect store}

(* What a gc may delete once it has marked.  The time that it reads of a node is  *)
(* never older than the node (CasStore, YoungNodesKept).  A plausible bug: it     *)
(* takes the nodes of the moment of its cut-off too.                              *)
DoomedAtCut(c) == {k \in store \ c.seen : first[k] <= c.cut}

Doomed(c) == {k \in store \ c.seen : first[k] < c.cut}

-----------------------------------------------------------------------------
(* Requests: how one begins, waits and ends *)

InFlight == {q \in Requests : req[q].pc # "idle"}

Collecting == \E g \in Collectors : gc[g].pc # "idle"

RealmOf(r) == IF r \in Realms THEN r ELSE owner[r]

Present(r) == RealmOf(r) # NoRealm

Uses(o) == {o.rec} \union (IF o.kind \in {"transfer", "create"} THEN {o.src} ELSE {})

(* A node leaves one record for another: a transfer, or a branch of a branch.   *)
HandsOver(o) == o.kind = "transfer" \/ (o.kind = "create" /\ o.src \in Branches)

(* Without overlap, a request starts only when those in flight use other        *)
(* records, or are uploads like it to the same process.                         *)
Admitted(o, p) ==
  /\ Overlap \/ \A q \in InFlight :
       \/ Uses(req[q].op) \intersect Uses(o) = {}
       \/ req[q].op.kind = "upload" /\ o.kind = "upload" /\ req[q].process = p
  /\ HandsOver(o) => Handover \/ ~Collecting

(* withMutex: an upload waits for the one that came last; a plausible bug is    *)
(* to take the place of that one.                                               *)
JoinAlone(uploads, q) == <<q>>

Join(uploads, q) == Append(uploads, q)

(* The first step of a request, once past its mutex: fs.ts makes sure of the    *)
(* root of a realm before it reads it, files.ts does if it finds none.          *)
Opening(o) ==
  CASE o.kind = "close" -> "unlist"
    [] o.kind = "create" -> IF o.src \in Realms THEN "init" ELSE "branch"
    [] o.kind = "transfer" -> "branch"
    [] OTHER -> CASE o.rec \in Branches -> "branch"
                  [] o.kind = "upload" -> "root"
                  [] OTHER -> "init"

(* The caller may use the record; create makes a new one in the realm it is of. *)
Allowed(o) ==
  IF o.kind = "create" THEN o.rec \notin made /\ RealmOf(o.src) = o.realm
  ELSE Present(o.rec)

Begin(q, o, p) ==
  /\ requests < MaxRequests
  /\ req[q].pc = "idle" /\ Allowed(o) /\ Admitted(o, p)
  /\ requests' = requests + 1
  /\ made' = IF o.kind = "create" THEN made \union {o.rec} ELSE made
  /\ LET waits == o.kind = "upload"
     IN  /\ req' = [req EXCEPT ![q] =
              [Idle EXCEPT !.pc = IF waits THEN "queued" ELSE Opening(o),
                           !.op = o, !.process = p, !.began = clock,
                           !.child = IF o.kind \in {"upload", "mkdir", "rootfile"}
                                     THEN o.child ELSE NoNode]]
         /\ queue' = IF waits THEN [queue EXCEPT ![p][o.rec] = Join(@, q)] ELSE queue
  /\ UNCHANGED <<casVars, root, owner, revived, clock, gcs, gc>>

Waiting(q) == queue[req[q].process][req[q].op.rec]

(* An upload runs when those that came before it to the process are done; a     *)
(* plausible bug is not to await them.                                          *)
EnterAtOnce(q) ==
  /\ req[q].pc = "queued"
  /\ req' = [req EXCEPT ![q].pc = Opening(req[q].op)]
  /\ UNCHANGED <<casVars, treeVars, bounds, queue, gc>>

Enter(q) ==
  /\ req[q].pc = "queued" /\ Head(Waiting(q)) = q
  /\ req' = [req EXCEPT ![q].pc = Opening(req[q].op)]
  /\ UNCHANGED <<casVars, treeVars, bounds, queue, gc>>

(* The upload that has the mutex leaves it to the next. *)
Leave(uploads, q) == IF uploads # <<>> /\ Head(uploads) = q THEN Tail(uploads) ELSE uploads

(* A request is answered; an upload lets the next one in. *)
Answer(q) ==
  /\ req' = [req EXCEPT ![q] = Idle]
  /\ queue' = IF req[q].op.kind = "upload"
              THEN [queue EXCEPT ![req[q].process][req[q].op.rec] = Leave(@, q)]
              ELSE queue

(* A plausible bug: an upload that throws keeps the mutex. *)
ThrowLocked(q) == req' = [req EXCEPT ![q] = Idle] /\ UNCHANGED queue

(* A request throws; an upload fails those that wait behind it, each of which   *)
(* awaits the promise of the one before.                                        *)
Throw(q) ==
  IF req[q].op.kind = "upload"
  THEN LET failed == {Waiting(q)[i] : i \in DOMAIN Waiting(q)}
       IN  /\ req' = [p \in Requests |-> IF p \in failed THEN Idle ELSE req[p]]
           /\ queue' = [queue EXCEPT ![req[q].process][req[q].op.rec] = <<>>]
  ELSE Answer(q)

(* A call of the store or of the table fails, at any point. *)
Fail(q) ==
  /\ req[q].pc \notin {"idle", "queued"}
  /\ Throw(q)
  /\ UNCHANGED <<casVars, treeVars, bounds, gc>>

-----------------------------------------------------------------------------
(* The steps of a request.  None of them changes the bounds or a gc request. *)

At(q, s) == req[q].pc = s /\ UNCHANGED <<bounds, gc>>

Goto(q, s) == req' = [req EXCEPT ![q].pc = s] /\ UNCHANGED queue

GotoWith(q, s, k) == req' = [req EXCEPT ![q].pc = s, ![q].snap = k] /\ UNCHANGED queue

(* Where a request goes once it has the root it changes *)
AfterRoot(kind) ==
  CASE kind \in {"upload", "mkdir"} -> "put"
    [] kind = "rm" -> "remove"
    [] OTHER -> "find"

(* getBranch: the branch is in the table; transfer needs two, of one realm. *)
CheckBranch(q) ==
  /\ At(q, "branch")
  /\ LET o == req[q].op
         found == CASE o.kind = "transfer" -> Present(o.src) /\ RealmOf(o.src) = RealmOf(o.rec)
                    [] o.kind = "create" -> Present(o.src)
                    [] OTHER -> Present(o.rec)
     IN  IF found
         THEN Goto(q, CASE o.kind = "rootfile" -> "put"
                        [] o.kind \in {"transfer", "create"} -> "source"
                        [] OTHER -> "root")
         ELSE Answer(q)
  /\ UNCHANGED <<casVars, treeVars>>

(* ensureEmptyRoot and ensureRealmRoot of a realm that has its root *)
InitRealm(q) ==
  /\ At(q, "init")
  /\ PutIfMissing(Empty)
  /\ Goto(q, IF req[q].op.kind = "create" THEN "source" ELSE "root")
  /\ UNCHANGED treeVars

(* The root that is copied from; there is nothing to do without one. *)
ReadSource(q) ==
  /\ At(q, "source")
  /\ LET o == req[q].op
         r == root[o.src]
     IN  IF r # NoNode
         THEN /\ req' = [req EXCEPT ![q].source = r,
                                    ![q].pc = IF o.kind = "transfer" THEN "root" ELSE "find"]
              /\ UNCHANGED queue
         ELSE Answer(q)
  /\ UNCHANGED <<casVars, treeVars>>

(* The root that is changed; a branch that has none gets the empty dict first.  *)
(* A plausible bug: so does one whose root is a file.                           *)
ReadRootOfDict(q) ==
  /\ At(q, "root")
  /\ LET o == req[q].op
         r == root[o.rec]
     IN  GotoWith(q, IF r \notin Dicts THEN "hasEmpty" ELSE AfterRoot(o.kind), r)
  /\ UNCHANGED <<casVars, treeVars>>

ReadRoot(q) ==
  /\ At(q, "root")
  /\ LET o == req[q].op
         r == root[o.rec]
     IN  GotoWith(q, IF r = NoNode THEN "hasEmpty" ELSE AfterRoot(o.kind), r)
  /\ UNCHANGED <<casVars, treeVars>>

EnsureEmptyRoot(q) ==
  /\ At(q, "hasEmpty")
  /\ PutIfMissing(Empty)
  /\ Goto(q, "setEmpty")
  /\ UNCHANGED treeVars

(* The nodes that a request links although they were stored before it began, and  *)
(* are neither in the root it changes nor in the one it copies from, while a gc   *)
(* is under way, or after one has deleted them: that gc may not have marked them, *)
(* and judges them by their age.  With a root, what is below it.                  *)
Revives(q, new) ==
  LET again == {k \in Tree(new) \ (Tree(root[req[q].op.rec]) \union Tree(req[q].source)) :
                  first[k] < req[q].began /\ (Collecting \/ k \notin store)}
  IN  IF new \in again THEN Tree(new) ELSE again

SetRoot(q, new) ==
  /\ root' = [root EXCEPT ![req[q].op.rec] = new]
  /\ revived' = revived \union Revives(q, new)

SetEmptyRoot(q) ==
  /\ At(q, "setEmpty")
  /\ SetRoot(q, Empty)
  /\ GotoWith(q, AfterRoot(req[q].op.kind), Empty)
  /\ UNCHANGED <<casVars, owner, made>>

PutChild(q) ==
  /\ At(q, "put")
  /\ Put(req[q].child)
  /\ IF req[q].op.kind = "rootfile" THEN GotoWith(q, "set", req[q].child) ELSE Goto(q, "dict")
  /\ UNCHANGED treeVars

(* resolvePath of a one-segment path *)
Resolves(k, n) == k \in store \intersect Dicts /\ n \in DOMAIN k

(* What a request copies from, and whether its target is in the way. *)
From(q) == IF req[q].op.kind \in {"mv", "cp"} THEN req[q].snap ELSE req[q].source

(* A plausible bug: the mode is ignored. *)
ExistsNever(q) == FALSE

Exists(q) ==
  LET o == req[q].op
  IN  o.kind = "transfer" /\ o.mode = "fail_if_exists" /\ Resolves(req[q].snap, o.to)

(* The entry to mount, move, copy or transfer.  A branch may be created without. *)
Find(q) ==
  /\ At(q, "find")
  /\ LET kind == req[q].op.kind
         name == req[q].op.name
         found == Resolves(From(q), name)
     IN  IF kind = "create" \/ (found /\ ~Exists(q))
         THEN /\ req' = [req EXCEPT ![q].child = IF found THEN From(q)[name] ELSE NoNode,
                                    ![q].pc = CASE kind = "create" -> "insert"
                                                [] kind = "mv" -> "remove"
                                                [] OTHER -> "dict"]
              /\ UNCHANGED queue
         ELSE Answer(q)
  /\ UNCHANGED <<casVars, treeVars>>

(* removeEntryAtPath: reads the dict, then puts it without the entry. *)
ReadToRemove(q) ==
  /\ At(q, "remove")
  /\ IF Resolves(req[q].snap, req[q].op.name) THEN Goto(q, "unlink") ELSE Answer(q)
  /\ UNCHANGED <<casVars, treeVars>>

(* putNode refuses a dict a child of which is not in storage. *)
PutDict(q, d) == ChildrenOf(d) \subseteq store /\ Put(d)

RefuseDict(q, d) == ~(ChildrenOf(d) \subseteq store) /\ Throw(q) /\ UNCHANGED casVars

Unlink(q) ==
  /\ At(q, "unlink")
  /\ LET d == Without(req[q].snap, req[q].op.name)
     IN  \/ PutDict(q, d) /\ GotoWith(q, IF req[q].op.kind = "rm" THEN "set" ELSE "dict", d)
         \/ RefuseDict(q, d)
  /\ UNCHANGED treeVars

(* ensurePathThenAddOrReplace: has the empty dict at hand, reads the dict, then  *)
(* puts it with the entry.                                                       *)
EnsureDict(q) ==
  /\ At(q, "dict")
  /\ PutIfMissing(Empty)
  /\ Goto(q, "add")
  /\ UNCHANGED treeVars

ReadToAdd(q) ==
  /\ At(q, "add")
  /\ IF req[q].snap \in store \intersect Dicts THEN Goto(q, "link") ELSE Throw(q)
  /\ UNCHANGED <<casVars, treeVars>>

(* A transfer that changes nothing does not set the root. *)
Link(q) ==
  /\ At(q, "link")
  /\ LET o == req[q].op
         d == With(req[q].snap, IF o.kind \in {"upload", "mkdir"} THEN o.name ELSE o.to,
                   req[q].child)
     IN  \/ /\ PutDict(q, d)
            /\ IF o.kind = "transfer" /\ d = req[q].snap THEN Answer(q) ELSE GotoWith(q, "set", d)
         \/ RefuseDict(q, d)
  /\ UNCHANGED treeVars

InsertBranch(q) ==
  /\ At(q, "insert")
  /\ owner' = [owner EXCEPT ![req[q].op.rec] = req[q].op.realm]
  /\ IF req[q].child = NoNode THEN Answer(q) ELSE GotoWith(q, "set", req[q].child)
  /\ UNCHANGED <<casVars, root, made, revived>>

SetBranchRoot(q) ==
  /\ At(q, "set")
  /\ SetRoot(q, req[q].snap)
  /\ Answer(q)
  /\ UNCHANGED <<casVars, owner, made>>

(* removeBranch: the row of the branch, then the row of its root. *)
RemoveBranch(q) ==
  /\ At(q, "unlist")
  /\ owner' = [owner EXCEPT ![req[q].op.rec] = NoRealm]
  /\ Goto(q, "drop")
  /\ UNCHANGED <<casVars, root, made, revived>>

RemoveRoot(q) ==
  /\ At(q, "drop")
  /\ root' = [root EXCEPT ![req[q].op.rec] = NoNode]
  /\ Answer(q)
  /\ UNCHANGED <<casVars, owner, made, revived>>

-----------------------------------------------------------------------------
(* gc of a realm *)

GcBegin(g, r, cut) ==
  /\ gcs < MaxGcs /\ gc[g].pc = "idle"
  /\ \A q \in InFlight : /\ Grace => cut <= req[q].began
                         /\ Handover \/ ~HandsOver(req[q].op)
  /\ gcs' = gcs + 1
  /\ gc' = [gc EXCEPT ![g] = [GcIdle EXCEPT !.pc = "realm", !.realm = r, !.cut = cut]]
  /\ revived' = IF revived \subseteq store THEN {} ELSE revived
  /\ UNCHANGED <<casVars, root, owner, made, clock, requests, req, queue>>

GcReadRealm(g) ==
  /\ gc[g].pc = "realm"
  /\ gc' = [gc EXCEPT ![g].pc = "list", ![g].roots = {root[gc[g].realm]} \ {NoNode}]
  /\ UNCHANGED <<casVars, treeVars, bounds, req, queue>>

(* Plausible bugs: only the root of the realm counts; a branch with no root     *)
(* counts as one.                                                               *)
GcListNone(g) ==
  /\ gc[g].pc = "list"
  /\ gc' = [gc EXCEPT ![g].pc = "branches", ![g].todo = {}]
  /\ UNCHANGED <<casVars, treeVars, bounds, req, queue>>

GcListBranches(g) ==
  /\ gc[g].pc = "list"
  /\ gc' = [gc EXCEPT ![g].pc = "branches",
                      ![g].todo = {b \in Branches : owner[b] = gc[g].realm}]
  /\ UNCHANGED <<casVars, treeVars, bounds, req, queue>>

GcReadBranch(g) ==
  /\ gc[g].pc = "branches"
  /\ \E b \in gc[g].todo :
       gc' = [gc EXCEPT ![g].todo = @ \ {b}, ![g].roots = (@ \union {root[b]}) \ {NoNode}]
  /\ UNCHANGED <<casVars, treeVars, bounds, req, queue>>

GcMark(g) ==
  /\ gc[g].pc = "branches" /\ gc[g].todo = {}
  /\ \E k \in gc[g].roots :
       gc' = [gc EXCEPT ![g].roots = @ \ {k}, ![g].seen = @ \union Visited({k})]
  /\ UNCHANGED <<casVars, treeVars, bounds, req, queue>>

HasMarked(g) == gc[g].pc = "branches" /\ gc[g].todo = {} /\ gc[g].roots = {}

GcDelete(g) ==
  /\ HasMarked(g)
  /\ \E k \in Doomed(gc[g]) : store' = store \ {k}
  /\ UNCHANGED <<first, treeVars, bounds, req, queue, gc>>

GcEnd(g) ==
  /\ HasMarked(g)
  /\ gc' = [gc EXCEPT ![g] = GcIdle]
  /\ UNCHANGED <<casVars, treeVars, bounds, req, queue>>

GcFail(g) ==
  /\ gc[g].pc # "idle"
  /\ gc' = [gc EXCEPT ![g] = GcIdle]
  /\ UNCHANGED <<casVars, treeVars, bounds, req, queue>>

-----------------------------------------------------------------------------
Step(q) ==
  \/ Enter(q) \/ CheckBranch(q) \/ InitRealm(q) \/ ReadSource(q) \/ ReadRoot(q)
  \/ EnsureEmptyRoot(q) \/ SetEmptyRoot(q) \/ PutChild(q) \/ Find(q) \/ ReadToRemove(q)
  \/ Unlink(q) \/ EnsureDict(q) \/ ReadToAdd(q) \/ Link(q) \/ InsertBranch(q)
  \/ SetBranchRoot(q) \/ RemoveBranch(q) \/ RemoveRoot(q)

GcStep(g) ==
  \/ \E r \in Realms, cut \in 1 .. clock : GcBegin(g, r, cut)
  \/ GcReadRealm(g) \/ GcListBranches(g) \/ GcReadBranch(g) \/ GcMark(g)
  \/ GcDelete(g) \/ GcEnd(g) \/ GcFail(g)

Next ==
  \/ Tick
  \/ \E q \in Requests :
       (\E o \in Ops, p \in Processes : Begin(q, o, p)) \/ Step(q) \/ Fail(q)
  \/ \E g \in Collectors : GcStep(g)

(* The event loop runs on: a request that can take a step takes one. *)
Fairness == \A q \in Requests : WF_vars(Step(q))

Spec == Init /\ [][Next]_vars /\ Fairness

-----------------------------------------------------------------------------
RequestType ==
  [pc : States, op : AllOps \union {NoOp}, process : Processes \union {NoProcess},
   began : Nat, snap : Nodes \union {NoNode}, source : Nodes \union {NoNode},
   child : Nodes \union {NoNode}]

GcType ==
  [pc : {"idle", "realm", "list", "branches"}, realm : Realms \union {NoRealm}, cut : Nat,
   todo : SUBSET Branches, roots : SUBSET Nodes, seen : SUBSET Nodes]

(* Every variable has its type. *)
TypeOK ==
  /\ store \subseteq Nodes /\ first \in [Nodes -> Nat] /\ revived \subseteq Nodes
  /\ clock \in Nat /\ requests \in Nat /\ gcs \in Nat
  /\ root \in [Records -> Nodes \union {NoNode}]
  /\ owner \in [Branches -> Realms \union {NoRealm}] /\ made \subseteq Branches
  /\ req \in [Requests -> RequestType]
  /\ queue \in [Processes -> [Records -> Seq(Requests)]]
  /\ gc \in [Collectors -> GcType]

(* No update is lost: when no requests overlap but uploads to one process, each *)
(* change of a root is the whole of one operation on the roots as they are at   *)
(* that moment (withMutex, upload-mutex.ts).                                    *)
Promised == INSTANCE FileTree WITH tree <- root

NoLostUpdate == Promised!Spec

(* A transfer that is to fail if its target exists never replaces an entry,     *)
(* though it looks for the target long before it sets the root                  *)
(* (executeTransfer, transfer-paths.ts).  It sees no entries in a root that a   *)
(* gc has deleted, which RootsWhole leaves to the nodes linked again.           *)
TransferKeepsTarget ==
  [][\A q \in Requests :
       LET o == req[q].op
           r == root[o.rec]
       IN  SetBranchRoot(q) /\ o.kind = "transfer" /\ o.mode = "fail_if_exists"
             => r \in Dicts /\ (o.to \notin DOMAIN r \/ r \in revived)]_vars

(* One upload at a time runs in a process for a realm or a branch: the block of *)
(* withMutex excludes the others of its key.                                    *)
Running(q) == req[q].op.kind = "upload" /\ req[q].pc # "queued"

OneUploadAtATime ==
  \A q1, q2 \in Requests :
    /\ Running(q1) /\ Running(q2)
    /\ req[q1].process = req[q2].process /\ req[q1].op.rec = req[q2].op.rec
    => q1 = q2

(* The root of a realm, and of a branch in the table, is whole: the nodes of    *)
(* its tree are in storage, whatever gc marks and deletes meanwhile.  Only nodes *)
(* that were linked again under a gc may be gone (gc of realm-info.ts, putNode   *)
(* and gc of cas-service.ts): a put of a node that is there already does not     *)
(* keep it from a gc that has judged it.                                         *)
RootsWhole ==
  \A r \in Records :
    Present(r) /\ root[r] # NoNode => Tree(root[r]) \subseteq store \union revived

(* Every request is answered: an upload waits for those before it to the same   *)
(* process, and fails with them.                                                *)
Answered == \A q \in Requests : req[q].pc # "idle" ~> req[q].pc = "idle"
=============================================================================
