---------------------------- MODULE DriveProofs ----------------------------
(***************************************************************************)
(* What holds of Drive for every set of names, files, realms, branches,    *)
(* processes, requests and collectors, and with every admission of them.   *)
(***************************************************************************)
EXTENDS Drive, TLAPS

USE TreeAssumption, DriveAssumption

-----------------------------------------------------------------------------
(* The inductive invariants *)

(* A request in flight is on the way of its operation: what it links, and what *)
(* it links it to, are at hand when it needs them.                             *)
OnItsWay(r) ==
  /\ r.pc = "idle" => r.op = NoOp
  /\ r.pc # "idle" => r.op \in AllOps /\ r.process \in Processes
  /\ r.pc = "queued" => r.op.kind = "upload"
  /\ r.pc = "put" => r.op.kind \in {"upload", "mkdir", "rootfile"}
  /\ r.op.kind \in {"upload", "mkdir", "rootfile"} => r.child \in Entries
  /\ r.pc = "source" => r.op.kind \in {"transfer", "create"}
  /\ r.pc = "find" => r.op.kind \in {"mv", "cp", "transfer", "create"}
  /\ r.pc \in {"remove", "unlink"} => r.op.kind \in {"rm", "mv"}
  /\ r.op.kind = "mv" /\ r.pc \in {"remove", "unlink"} => r.child \in Entries
  /\ r.pc \in {"dict", "add", "link"} =>
       r.child \in Entries /\ r.op.kind \in {"upload", "mkdir", "mv", "cp", "transfer"}
  /\ r.pc \in {"unlink", "link"} => r.snap \in Dicts
  /\ r.pc = "set" => r.snap \in Nodes
  /\ r.source # NoNode => r.op.kind \in {"transfer", "create"}
  /\ r.pc = "insert" => r.op.kind = "create"
  /\ r.pc \in {"unlist", "drop"} => r.op.kind = "close"
  /\ r.pc \in {"branch", "init", "root", "hasEmpty", "setEmpty"} => r.op.kind # "close"
  /\ r.pc = "init" => r.op.kind \notin {"rootfile", "transfer"}
  /\ r.pc \in {"root", "hasEmpty", "setEmpty"} => r.op.kind \notin {"create", "rootfile"}

AllOnTheirWay == \A q \in Requests : OnItsWay(req[q])

GcOfRealm == \A g \in Collectors : gc[g].pc # "idle" => gc[g].realm \in Realms

(* Each queue holds uploads to its process and record, each once, and every     *)
(* upload in flight is in its queue; the one that runs comes first.             *)
HoldsItsUploads ==
  \A p \in Processes, r \in Records : \A i \in 1 .. Len(queue[p][r]) :
    LET q == queue[p][r][i]
    IN  req[q].op.kind = "upload" /\ req[q].process = p /\ req[q].op.rec = r

EachOnce ==
  \A p \in Processes, r \in Records : \A i, j \in 1 .. Len(queue[p][r]) :
    queue[p][r][i] = queue[p][r][j] => i = j

InItsQueue ==
  \A q \in Requests :
    req[q].op.kind = "upload" => \E i \in 1 .. Len(Waiting(q)) : Waiting(q)[i] = q

RunsFirst ==
  \A q \in Requests :
    Running(q) => Len(Waiting(q)) > 0 /\ Waiting(q)[1] = q

MutexInv == HoldsItsUploads /\ EachOnce /\ InItsQueue /\ RunsFirst

-----------------------------------------------------------------------------
(* What operations and trees are made of *)

LEMMA OpParts ==
  ASSUME NEW o \in AllOps
  PROVE  /\ o.rec \in Records
         /\ o.kind \in {"upload", "mkdir", "rm", "mv", "cp", "rootfile", "transfer",
                        "create", "close"}
         /\ o.kind \in {"upload", "mkdir"} => o.name \in Names /\ o.child \in Entries
         /\ o.kind = "rootfile" => o.child \in Files
         /\ o.kind \in {"mv", "cp"} => o.name \in Names /\ o.to \in Names
         /\ o.kind = "rm" => o.name \in Names
         /\ o.kind = "transfer" => o.src \in Records /\ o.to \in Names
         /\ o.kind = "create" => o.rec \in Branches /\ o.src \in Records /\ o.realm \in Realms
         /\ o.kind \in {"rootfile", "create", "close"} => o.rec \in Branches
BY DEF AllOps, Records, Entries

LEMMA NoOpIsNone == NoOp \notin AllOps /\ NoOp.kind = "none"
BY DEF AllOps, NoOp

LEMMA EmptyIsDict == Empty \in Dicts /\ Empty \in Nodes /\ Empty \in Entries
<1>1. Empty \in [{} -> Entries]
  BY DEF Empty
<1>2. Empty \in Dicts
  BY <1>1 DEF Dicts
<1> QED
  BY <1>2 DEF Nodes, Entries

LEMMA EntriesAreNodes == Entries \subseteq Nodes /\ Files \subseteq Nodes /\ Dicts \subseteq Nodes
BY EmptyIsDict DEF Entries, Nodes

LEMMA DictParts ==
  ASSUME NEW d \in Dicts
  PROVE  /\ DOMAIN d \in SUBSET Names
         /\ d \in [DOMAIN d -> Entries]
         /\ \A n \in DOMAIN d : d[n] \in Entries
BY DEF Dicts

LEMMA WithIsDict ==
  ASSUME NEW d \in Dicts, NEW n \in Names, NEW k \in Entries
  PROVE  With(d, n, k) \in Dicts
<1>1. DOMAIN d \union {n} \in SUBSET Names
  BY DictParts
<1>2. With(d, n, k) \in [DOMAIN d \union {n} -> Entries]
  BY DictParts DEF With
<1> QED
  BY <1>1, <1>2 DEF Dicts

LEMMA WithoutIsDict ==
  ASSUME NEW d \in Dicts, NEW n
  PROVE  Without(d, n) \in Dicts
<1>1. DOMAIN d \ {n} \in SUBSET Names
  BY DictParts
<1>2. Without(d, n) \in [DOMAIN d \ {n} -> Entries]
  BY DictParts DEF Without
<1> QED
  BY <1>1, <1>2 DEF Dicts

LEMMA TreesAreNodes ==
  ASSUME NEW k \in Nodes
  PROVE  Tree(k) \subseteq Nodes
BY DictParts, EntriesAreNodes DEF Tree, ChildrenOf

-----------------------------------------------------------------------------
(* What a step does to the requests in flight *)

IsInFlight(r) == r \in RequestType /\ OnItsWay(r)

RequestsInv == req \in [Requests -> RequestType] /\ AllOnTheirWay

LEMMA IdleIsRequest == IsInFlight(Idle)
BY NoOpIsNone DEF IsInFlight, Idle, OnItsWay, RequestType, States, NoTime, NoOp

LEMMA OneChanges ==
  ASSUME RequestsInv, NEW q \in Requests, NEW r, IsInFlight(r),
         req' = [req EXCEPT ![q] = r]
  PROVE  RequestsInv'
<1>1. req' \in [Requests -> RequestType]
  BY DEF RequestsInv, IsInFlight
<1>2. ASSUME NEW p \in Requests PROVE OnItsWay(req[p])'
  <2>1. req'[p] = IF p = q THEN r ELSE req[p]
    BY DEF RequestsInv
  <2>2. OnItsWay(req'[p])
    BY <2>1 DEF RequestsInv, AllOnTheirWay, IsInFlight
  <2> QED
    BY <2>2 DEF OnItsWay
<1> QED
  BY <1>1, <1>2 DEF RequestsInv, AllOnTheirWay

LEMMA AnswerKeeps ==
  ASSUME RequestsInv, NEW q \in Requests, Answer(q)
  PROVE  RequestsInv'
BY IdleIsRequest, OneChanges DEF Answer

LEMMA ThrowKeeps ==
  ASSUME RequestsInv, NEW q \in Requests, Throw(q)
  PROVE  RequestsInv'
<1>1. CASE req[q].op.kind # "upload"
  BY <1>1, AnswerKeeps DEF Throw
<1>2. CASE req[q].op.kind = "upload"
  <2>1. PICK failed : req' = [p \in Requests |-> IF p \in failed THEN Idle ELSE req[p]]
    BY <1>2 DEF Throw
  <2>2. \A p \in Requests : IsInFlight(req'[p])
    BY <2>1, IdleIsRequest DEF RequestsInv, AllOnTheirWay, IsInFlight
  <2>3. req' \in [Requests -> RequestType]
    BY <2>1, <2>2 DEF IsInFlight
  <2> QED
    BY <2>2, <2>3 DEF RequestsInv, AllOnTheirWay, IsInFlight, OnItsWay
<1> QED
  BY <1>1, <1>2

-----------------------------------------------------------------------------
(* Types *)

StoreType == store \subseteq Nodes /\ first \in [Nodes -> Nat]

TreeType ==
  /\ root \in [Records -> Nodes \union {NoNode}]
  /\ owner \in [Branches -> Realms \union {NoRealm}] /\ made \subseteq Branches
  /\ revived \subseteq Nodes

BoundsType == clock \in Nat /\ requests \in Nat /\ gcs \in Nat

QueueType == queue \in [Processes -> [Records -> Seq(Requests)]]

TypeInv == TypeOK /\ AllOnTheirWay /\ GcOfRealm

LEMMA PutKeepsTypes ==
  ASSUME StoreType, BoundsType, NEW k \in Nodes, Put(k) \/ PutIfMissing(k)
  PROVE  StoreType'
BY DEF StoreType, BoundsType, Put, PutIfMissing, casVars, NoTime

LEMMA GotoKeeps ==
  ASSUME RequestsInv, NEW q \in Requests, NEW s \in States, Goto(q, s),
         OnItsWay([req[q] EXCEPT !.pc = s])
  PROVE  RequestsInv'
<1>1. [req[q] EXCEPT !.pc = s] \in RequestType
  BY DEF RequestsInv, RequestType
<1>2. req' = [req EXCEPT ![q] = [req[q] EXCEPT !.pc = s]]
  BY DEF Goto
<1> QED
  BY <1>1, <1>2, OneChanges DEF IsInFlight

LEMMA GotoWithKeeps ==
  ASSUME RequestsInv, NEW q \in Requests, NEW s \in States, NEW k \in Nodes \union {NoNode},
         GotoWith(q, s, k), OnItsWay([req[q] EXCEPT !.pc = s, !.snap = k])
  PROVE  RequestsInv'
<1>1. [req[q] EXCEPT !.pc = s, !.snap = k] \in RequestType
  BY DEF RequestsInv, RequestType
<1>2. req' = [req EXCEPT ![q] = [req[q] EXCEPT !.pc = s, !.snap = k]]
  BY DEF GotoWith
<1> QED
  BY <1>1, <1>2, OneChanges DEF IsInFlight

(* A request leaves its state for the next one of its operation. *)
LEMMA BeginKeeps ==
  ASSUME TypeInv, NEW q \in Requests, NEW o \in Ops, NEW p \in Processes, Begin(q, o, p)
  PROVE  RequestsInv' /\ QueueType' /\ BoundsType' /\ TreeType'
<1> USE DEF TypeInv, TypeOK
<1>0. o \in AllOps /\ o.rec \in Records
  BY OpParts DEF Ops
<1> DEFINE waits == o.kind = "upload"
           pc == IF waits THEN "queued" ELSE Opening(o)
           child == IF o.kind \in {"upload", "mkdir", "rootfile"} THEN o.child ELSE NoNode
           r == [Idle EXCEPT !.pc = pc, !.op = o, !.process = p, !.began = clock, !.child = child]
<1>1. /\ req' = [req EXCEPT ![q] = r]
      /\ queue' = IF waits THEN [queue EXCEPT ![p][o.rec] = Join(@, q)] ELSE queue
      /\ requests' = requests + 1 /\ UNCHANGED <<root, owner, revived, clock, gcs>>
      /\ made' = IF o.kind = "create" THEN made \union {o.rec} ELSE made
  BY DEF Begin
<1>2. child \in Nodes \union {NoNode} /\ (o.kind \in {"upload", "mkdir", "rootfile"} => child \in Entries)
  BY <1>0, OpParts, EntriesAreNodes DEF Entries
<1>3. pc \in {"queued", "unlist", "init", "branch", "root"}
  BY DEF Opening
<1>4. /\ pc = "queued" => o.kind = "upload"
      /\ pc = "unlist" <=> o.kind = "close"
      /\ pc # "root" /\ (pc = "init" => o.kind \notin {"rootfile", "transfer"})
  BY <1>3, <1>0, OpParts DEF Opening
<1> HIDE DEF pc, child
<1>5. r \in RequestType
  BY <1>0, <1>2, <1>3 DEF RequestType, States, Idle, NoTime
<1>6. OnItsWay(r)
  BY <1>0, <1>2, <1>3, <1>4 DEF OnItsWay, Idle
<1> HIDE DEF r
<1>7. RequestsInv'
  BY <1>1, <1>5, <1>6, OneChanges DEF RequestsInv, IsInFlight
<1>8. QueueType'
  BY <1>0, <1>1 DEF QueueType, Join
<1>9. BoundsType' /\ TreeType'
  BY <1>0, <1>1, OpParts DEF BoundsType, TreeType
<1> QED
  BY <1>7, <1>8, <1>9

(* From holds a dict when the entry resolves in it. *)
LEMMA FoundIsEntry ==
  ASSUME NEW k, NEW n, Resolves(k, n)
  PROVE  k \in Dicts /\ k[n] \in Entries
BY DictParts DEF Resolves

LEMMA StepKeepsRequests ==
  ASSUME TypeInv, NEW q \in Requests, Step(q)
  PROVE  RequestsInv'
<1> DEFINE o == req[q].op
<1>0. /\ RequestsInv /\ req[q] \in RequestType /\ OnItsWay(req[q])
      /\ TreeType
  BY DEF TypeInv, TypeOK, RequestsInv, AllOnTheirWay, TreeType
<1>a. req[q].pc # "idle" => o \in AllOps /\ o.rec \in Records
  BY <1>0, OpParts DEF OnItsWay
<1>1. CASE Enter(q)
  <2>1. req[q].pc = "queued" /\ o.kind = "upload"
    BY <1>0, <1>1 DEF Enter, OnItsWay
  <2>2. req' = [req EXCEPT ![q] = [req[q] EXCEPT !.pc = Opening(o)]]
    BY <1>1 DEF Enter
  <2>3. Opening(o) \in {"branch", "root"}
    BY <2>1 DEF Opening
  <2>4. IsInFlight([req[q] EXCEPT !.pc = Opening(o)])
    BY <1>0, <2>1, <2>3 DEF IsInFlight, RequestType, States, OnItsWay
  <2> QED
    BY <1>0, <2>2, <2>4, OneChanges
<1>2. CASE CheckBranch(q)
  <2> DEFINE s == CASE o.kind = "rootfile" -> "put"
                    [] o.kind \in {"transfer", "create"} -> "source"
                    [] OTHER -> "root"
  <2>1. req[q].pc = "branch" /\ (Goto(q, s) \/ Answer(q))
    BY <1>2 DEF CheckBranch, At
  <2>2. /\ s \in {"put", "source", "root"}
        /\ s = "put" => o.kind = "rootfile"
        /\ s = "source" => o.kind \in {"transfer", "create"}
        /\ s = "root" => o.kind \notin {"transfer", "create", "rootfile"}
    OBVIOUS
  <2> HIDE DEF s
  <2>3. s \in States /\ OnItsWay([req[q] EXCEPT !.pc = s])
    BY <1>0, <2>1, <2>2 DEF OnItsWay, States, RequestType
  <2> QED
    BY <1>0, <2>1, <2>3, GotoKeeps, AnswerKeeps
<1>3. CASE InitRealm(q)
  <2> DEFINE s == IF o.kind = "create" THEN "source" ELSE "root"
  <2>1. req[q].pc = "init" /\ Goto(q, s)
    BY <1>3 DEF InitRealm, At
  <2>2. s \in States /\ OnItsWay([req[q] EXCEPT !.pc = s])
    BY <1>0, <2>1 DEF OnItsWay, States, RequestType
  <2> QED
    BY <1>0, <2>1, <2>2, GotoKeeps
<1>4. CASE ReadSource(q)
  <2> DEFINE s == IF o.kind = "transfer" THEN "root" ELSE "find"
             k == root[o.src]
  <2>1. /\ req[q].pc = "source"
        /\ \/ k # NoNode /\ req' = [req EXCEPT ![q] = [req[q] EXCEPT !.source = k, !.pc = s]]
           \/ Answer(q)
    BY <1>4 DEF ReadSource, At
  <2>2. o \in AllOps /\ o.kind \in {"transfer", "create"} /\ k \in Nodes \union {NoNode}
    BY <1>0, <1>a, <2>1, OpParts DEF OnItsWay, TreeType
  <2>3. IsInFlight([req[q] EXCEPT !.source = k, !.pc = s])
    BY <1>0, <2>1, <2>2 DEF IsInFlight, OnItsWay, States, RequestType
  <2> HIDE DEF s, k
  <2> QED
    BY <1>0, <2>1, <2>3, OneChanges, AnswerKeeps
<1>5. CASE ReadRoot(q)
  <2> DEFINE k == root[o.rec]
             s == IF k = NoNode THEN "hasEmpty" ELSE AfterRoot(o.kind)
  <2>1. req[q].pc = "root" /\ GotoWith(q, s, k)
    BY <1>5 DEF ReadRoot, At
  <2>2. k \in Nodes \union {NoNode}
    BY <1>0, <1>a, <2>1 DEF TreeType
  <2>3. o.kind \in {"upload", "mkdir", "rm", "mv", "cp", "transfer"}
    BY <1>0, <1>a, <2>1, OpParts DEF OnItsWay
  <2>4. s \in States /\ OnItsWay([req[q] EXCEPT !.pc = s, !.snap = k])
    BY <1>0, <2>1, <2>3 DEF OnItsWay, States, RequestType, AfterRoot
  <2> HIDE DEF s, k
  <2> QED
    BY <1>0, <2>1, <2>2, <2>4, GotoWithKeeps
<1>6. CASE EnsureEmptyRoot(q)
  <2>1. req[q].pc = "hasEmpty" /\ Goto(q, "setEmpty")
    BY <1>6 DEF EnsureEmptyRoot, At
  <2>2. "setEmpty" \in States /\ OnItsWay([req[q] EXCEPT !.pc = "setEmpty"])
    BY <1>0, <2>1 DEF OnItsWay, States, RequestType
  <2> QED
    BY <1>0, <2>1, <2>2, GotoKeeps
<1>7. CASE SetEmptyRoot(q)
  <2> DEFINE s == AfterRoot(o.kind)
  <2>1. req[q].pc = "setEmpty" /\ GotoWith(q, s, Empty)
    BY <1>7 DEF SetEmptyRoot, At
  <2>2. o.kind \in {"upload", "mkdir", "rm", "mv", "cp", "transfer"}
    BY <1>0, <1>a, <2>1, OpParts DEF OnItsWay
  <2>3. s \in States /\ OnItsWay([req[q] EXCEPT !.pc = s, !.snap = Empty])
    BY <1>0, <2>1, <2>2 DEF OnItsWay, States, RequestType, AfterRoot
  <2> HIDE DEF s
  <2> QED
    BY <1>0, <2>1, <2>3, EmptyIsDict, GotoWithKeeps
<1>8. CASE PutChild(q)
  <2>1. /\ req[q].pc = "put"
        /\ IF o.kind = "rootfile" THEN GotoWith(q, "set", req[q].child) ELSE Goto(q, "dict")
    BY <1>8 DEF PutChild, At
  <2>2. req[q].child \in Entries /\ o.kind \in {"upload", "mkdir", "rootfile"}
    BY <1>0, <2>1 DEF OnItsWay
  <2>3. CASE o.kind = "rootfile"
    <3>1. "set" \in States /\ OnItsWay([req[q] EXCEPT !.pc = "set", !.snap = req[q].child])
      BY <1>0, <2>1, <2>2, EntriesAreNodes DEF OnItsWay, States, RequestType
    <3> QED
      BY <1>0, <2>1, <2>2, <2>3, <3>1, EntriesAreNodes, GotoWithKeeps
  <2>4. CASE o.kind # "rootfile"
    <3>1. "dict" \in States /\ OnItsWay([req[q] EXCEPT !.pc = "dict"])
      BY <1>0, <2>1, <2>2, <2>4 DEF OnItsWay, States, RequestType
    <3> QED
      BY <1>0, <2>1, <2>4, <3>1, GotoKeeps
  <2> QED
    BY <2>3, <2>4
<1>9. CASE Find(q)
  <2> DEFINE found == Resolves(From(q), o.name)
             s == CASE o.kind = "create" -> "insert" [] o.kind = "mv" -> "remove" [] OTHER -> "dict"
             k == IF found THEN From(q)[o.name] ELSE NoNode
  <2>1. /\ req[q].pc = "find"
        /\ \/ /\ o.kind = "create" \/ found
              /\ req' = [req EXCEPT ![q] = [req[q] EXCEPT !.child = k, !.pc = s]]
           \/ Answer(q)
    BY <1>9 DEF Find, At
  <2>2. o.kind \in {"mv", "cp", "transfer", "create"}
    BY <1>0, <2>1 DEF OnItsWay
  <2>3. k \in Entries \union {NoNode} /\ (found => k \in Entries)
    BY FoundIsEntry
  <2>4. /\ s \in {"insert", "remove", "dict"}
        /\ s = "insert" <=> o.kind = "create"
        /\ s = "remove" <=> o.kind = "mv"
    OBVIOUS
  <2> HIDE DEF found, s, k
  <2>5. ASSUME o.kind = "create" \/ found
        PROVE  IsInFlight([req[q] EXCEPT !.child = k, !.pc = s])
    <3>1. [req[q] EXCEPT !.child = k, !.pc = s] \in RequestType
      BY <1>0, <2>3, <2>4, EntriesAreNodes DEF States, RequestType
    <3>2. OnItsWay([req[q] EXCEPT !.child = k, !.pc = s])
      BY <1>0, <2>1, <2>2, <2>3, <2>4, <2>5 DEF OnItsWay, RequestType
    <3> QED
      BY <3>1, <3>2 DEF IsInFlight
  <2> QED
    BY <1>0, <2>1, <2>5, OneChanges, AnswerKeeps
<1>10. CASE ReadToRemove(q)
  <2>1. req[q].pc = "remove" /\ ((Goto(q, "unlink") /\ Resolves(req[q].snap, o.name)) \/ Answer(q))
    BY <1>10 DEF ReadToRemove, At
  <2>2. ASSUME Resolves(req[q].snap, o.name)
        PROVE  "unlink" \in States /\ OnItsWay([req[q] EXCEPT !.pc = "unlink"])
    BY <1>0, <2>1, <2>2 DEF OnItsWay, States, RequestType, Resolves
  <2> QED
    BY <1>0, <2>1, <2>2, GotoKeeps, AnswerKeeps
<1>11. CASE Unlink(q)
  <2> DEFINE d == Without(req[q].snap, o.name)
             s == IF o.kind = "rm" THEN "set" ELSE "dict"
  <2>1. req[q].pc = "unlink" /\ (GotoWith(q, s, d) \/ Throw(q))
    BY <1>11 DEF Unlink, At, RefuseDict
  <2>2. d \in Dicts
    BY <1>0, <2>1, WithoutIsDict DEF OnItsWay
  <2> HIDE DEF d
  <2>3. s \in States /\ OnItsWay([req[q] EXCEPT !.pc = s, !.snap = d])
    BY <1>0, <2>1, <2>2, EntriesAreNodes DEF OnItsWay, States, RequestType
  <2> HIDE DEF s
  <2> QED
    BY <1>0, <2>1, <2>2, <2>3, EntriesAreNodes, GotoWithKeeps, ThrowKeeps
<1>12. CASE EnsureDict(q)
  <2>1. req[q].pc = "dict" /\ Goto(q, "add")
    BY <1>12 DEF EnsureDict, At
  <2>2. "add" \in States /\ OnItsWay([req[q] EXCEPT !.pc = "add"])
    BY <1>0, <2>1 DEF OnItsWay, States, RequestType
  <2> QED
    BY <1>0, <2>1, <2>2, GotoKeeps
<1>13. CASE ReadToAdd(q)
  <2>1. req[q].pc = "add" /\ ((req[q].snap \in Dicts /\ Goto(q, "link")) \/ Throw(q))
    BY <1>13 DEF ReadToAdd, At
  <2>2. ASSUME req[q].snap \in Dicts
        PROVE  "link" \in States /\ OnItsWay([req[q] EXCEPT !.pc = "link"])
    BY <1>0, <2>1, <2>2 DEF OnItsWay, States, RequestType
  <2> QED
    BY <1>0, <2>1, <2>2, GotoKeeps, ThrowKeeps
<1>14. CASE Link(q)
  <2> DEFINE n == IF o.kind \in {"upload", "mkdir"} THEN o.name ELSE o.to
             d == With(req[q].snap, n, req[q].child)
  <2>1. req[q].pc = "link" /\ (GotoWith(q, "set", d) \/ Answer(q) \/ Throw(q))
    BY <1>14 DEF Link, At, RefuseDict
  <2>2. /\ req[q].snap \in Dicts /\ req[q].child \in Entries
        /\ o.kind \in {"upload", "mkdir", "mv", "cp", "transfer"}
    BY <1>0, <2>1 DEF OnItsWay
  <2>3. n \in Names
    BY <1>a, <2>1, <2>2, OpParts
  <2> HIDE DEF n
  <2>4. d \in Dicts
    BY <2>2, <2>3, WithIsDict
  <2> HIDE DEF d
  <2>5. "set" \in States /\ OnItsWay([req[q] EXCEPT !.pc = "set", !.snap = d])
    BY <1>0, <2>1, <2>4, EntriesAreNodes DEF OnItsWay, States, RequestType
  <2> QED
    BY <1>0, <2>1, <2>4, <2>5, EntriesAreNodes, GotoWithKeeps, AnswerKeeps, ThrowKeeps
<1>15. CASE InsertBranch(q)
  <2>1. /\ req[q].pc = "insert"
        /\ (req[q].child # NoNode /\ GotoWith(q, "set", req[q].child)) \/ Answer(q)
    BY <1>15 DEF InsertBranch, At
  <2>2. ASSUME req[q].child # NoNode
        PROVE  /\ "set" \in States
               /\ OnItsWay([req[q] EXCEPT !.pc = "set", !.snap = req[q].child])
               /\ req[q].child \in Nodes
    BY <1>0, <2>1, <2>2 DEF OnItsWay, States, RequestType
  <2> QED
    BY <1>0, <2>1, <2>2, GotoWithKeeps, AnswerKeeps
<1>16. CASE SetBranchRoot(q)
  BY <1>0, <1>16, AnswerKeeps DEF SetBranchRoot
<1>17. CASE RemoveBranch(q)
  <2>1. req[q].pc = "unlist" /\ Goto(q, "drop")
    BY <1>17 DEF RemoveBranch, At
  <2>2. "drop" \in States /\ OnItsWay([req[q] EXCEPT !.pc = "drop"])
    BY <1>0, <2>1 DEF OnItsWay, States, RequestType
  <2> QED
    BY <1>0, <2>1, <2>2, GotoKeeps
<1>18. CASE RemoveRoot(q)
  BY <1>0, <1>18, AnswerKeeps DEF RemoveRoot
<1> QED
  BY <1>1, <1>2, <1>3, <1>4, <1>5, <1>6, <1>7, <1>8, <1>9, <1>10, <1>11, <1>12, <1>13, <1>14,
     <1>15, <1>16, <1>17, <1>18 DEF Step

-----------------------------------------------------------------------------
(* A step of a request leaves the other variables in their types. *)

LEMMA TailIsSeq ==
  ASSUME NEW S, NEW s \in Seq(S), s # <<>>
  PROVE  Tail(s) \in Seq(S)
OBVIOUS

LEMMA OneQueueChanges ==
  ASSUME QueueType, NEW p \in Processes, NEW r \in Records, NEW s \in Seq(Requests),
         queue' = [queue EXCEPT ![p][r] = s]
  PROVE  /\ QueueType'
         /\ \A p2 \in Processes, r2 \in Records :
              queue'[p2][r2] = IF p2 = p /\ r2 = r THEN s ELSE queue[p2][r2]
<1>1. queue' = [queue EXCEPT ![p] = [queue[p] EXCEPT ![r] = s]]
  OBVIOUS
<1>2. [queue[p] EXCEPT ![r] = s] \in [Records -> Seq(Requests)]
  BY DEF QueueType
<1>3. \A p2 \in Processes, r2 \in Records :
        queue'[p2][r2] = IF p2 = p /\ r2 = r THEN s ELSE queue[p2][r2]
  BY <1>1 DEF QueueType
<1> QED
  BY <1>1, <1>2, <1>3 DEF QueueType

LEMMA EndKeepsQueues ==
  ASSUME QueueType, RequestsInv, NEW q \in Requests, Answer(q) \/ Throw(q)
  PROVE  QueueType'
<1>1. CASE req[q].op.kind # "upload"
  BY <1>1 DEF Answer, Throw, QueueType
<1>2. CASE req[q].op.kind = "upload"
  <2>1. req[q].process \in Processes /\ req[q].op.rec \in Records
    BY <1>2, NoOpIsNone, OpParts DEF RequestsInv, AllOnTheirWay, OnItsWay
  <2> DEFINE uploads == queue[req[q].process][req[q].op.rec]
  <2>2. uploads \in Seq(Requests)
    BY <2>1 DEF QueueType
  <2>3. Leave(uploads, q) \in Seq(Requests)
    BY <2>2, TailIsSeq DEF Leave
  <2>4. <<>> \in Seq(Requests)
    OBVIOUS
  <2>5. \/ queue' = [queue EXCEPT ![req[q].process][req[q].op.rec] = Leave(uploads, q)]
        \/ queue' = [queue EXCEPT ![req[q].process][req[q].op.rec] = <<>>]
    BY <1>2, <2>1 DEF Answer, Throw
  <2> HIDE DEF uploads
  <2> QED
    BY <2>1, <2>3, <2>4, <2>5, OneQueueChanges
<1> QED
  BY <1>1, <1>2

(* A request carries on: it is the same operation, to the same process, and it  *)
(* has its mutex still.                                                         *)
CarriesOn(q) ==
  /\ UNCHANGED queue
  /\ req'[q].pc # "queued"
  /\ \A p \in Requests : /\ p # q => req'[p] = req[p]
                         /\ req'[p].op = req[p].op /\ req'[p].process = req[p].process

LEMMA GotoCarriesOn ==
  ASSUME RequestsInv, NEW q \in Requests, NEW s, NEW k, s # "queued",
         Goto(q, s) \/ GotoWith(q, s, k)
  PROVE  CarriesOn(q)
BY DEF Goto, GotoWith, CarriesOn, RequestsInv, RequestType

LEMMA StepIsOfOneKind ==
  ASSUME TypeInv, NEW q \in Requests, Step(q)
  PROVE  \/ Enter(q)
         \/ req[q].pc \notin {"idle", "queued"} /\ (CarriesOn(q) \/ Answer(q) \/ Throw(q))
<1>0. RequestsInv
  BY DEF TypeInv, TypeOK, RequestsInv
<1>1. CASE CheckBranch(q)
  BY <1>0, <1>1, GotoCarriesOn DEF CheckBranch, At
<1>2. CASE InitRealm(q) \/ EnsureEmptyRoot(q) \/ EnsureDict(q) \/ RemoveBranch(q)
  BY <1>0, <1>2, GotoCarriesOn DEF InitRealm, EnsureEmptyRoot, EnsureDict, RemoveBranch, At
<1>3. CASE ReadSource(q) \/ Find(q)
  <2>1. CarriesOn(q) \/ Answer(q)
    BY <1>0, <1>3 DEF ReadSource, Find, CarriesOn, RequestsInv, RequestType
  <2> QED
    BY <1>3, <2>1 DEF ReadSource, Find, At
<1>4. CASE ReadRoot(q) \/ SetEmptyRoot(q)
  BY <1>0, <1>4, GotoCarriesOn DEF ReadRoot, SetEmptyRoot, AfterRoot, At
<1>5. CASE PutChild(q)
  BY <1>0, <1>5, GotoCarriesOn DEF PutChild, At
<1>6. CASE ReadToRemove(q) \/ ReadToAdd(q)
  BY <1>0, <1>6, GotoCarriesOn DEF ReadToRemove, ReadToAdd, At
<1>7. CASE Unlink(q) \/ Link(q)
  BY <1>0, <1>7, GotoCarriesOn DEF Unlink, Link, RefuseDict, At
<1>8. CASE InsertBranch(q)
  BY <1>0, <1>8, GotoCarriesOn DEF InsertBranch, At
<1>9. CASE SetBranchRoot(q) \/ RemoveRoot(q)
  BY <1>9 DEF SetBranchRoot, RemoveRoot, At
<1> QED
  BY <1>1, <1>2, <1>3, <1>4, <1>5, <1>6, <1>7, <1>8, <1>9 DEF Step

LEMMA StepKeepsStore ==
  ASSUME TypeInv, NEW q \in Requests, Step(q)
  PROVE  StoreType'
<1>0. StoreType /\ BoundsType /\ req[q] \in RequestType /\ OnItsWay(req[q])
  BY DEF TypeInv, TypeOK, StoreType, BoundsType, AllOnTheirWay
<1>1. CASE UNCHANGED casVars
  BY <1>0, <1>1 DEF casVars, StoreType
<1>2. CASE InitRealm(q) \/ EnsureEmptyRoot(q) \/ EnsureDict(q)
  BY <1>0, <1>2, EmptyIsDict, PutKeepsTypes DEF InitRealm, EnsureEmptyRoot, EnsureDict
<1>3. CASE PutChild(q)
  <2>1. req[q].child \in Nodes /\ Put(req[q].child)
    BY <1>0, <1>3, EntriesAreNodes DEF PutChild, At, OnItsWay
  <2> QED
    BY <1>0, <2>1, PutKeepsTypes
<1>4. CASE Unlink(q)
  <2> DEFINE d == Without(req[q].snap, req[q].op.name)
  <2>1. req[q].pc = "unlink" /\ (Put(d) \/ UNCHANGED casVars)
    BY <1>4 DEF Unlink, At, PutDict, RefuseDict
  <2>2. d \in Nodes
    BY <1>0, <2>1, WithoutIsDict, EntriesAreNodes DEF OnItsWay
  <2> HIDE DEF d
  <2> QED
    BY <1>0, <1>1, <2>1, <2>2, PutKeepsTypes
<1>5. CASE Link(q)
  <2> DEFINE o == req[q].op
             n == IF o.kind \in {"upload", "mkdir"} THEN o.name ELSE o.to
             d == With(req[q].snap, n, req[q].child)
  <2>1. req[q].pc = "link" /\ (Put(d) \/ UNCHANGED casVars)
    BY <1>5 DEF Link, At, PutDict, RefuseDict
  <2>2. /\ req[q].snap \in Dicts /\ req[q].child \in Entries /\ o \in AllOps
        /\ o.kind \in {"upload", "mkdir", "mv", "cp", "transfer"}
    BY <1>0, <2>1 DEF OnItsWay
  <2>3. n \in Names
    BY <2>2, OpParts
  <2> HIDE DEF n
  <2>4. d \in Nodes
    BY <2>2, <2>3, WithIsDict, EntriesAreNodes
  <2> HIDE DEF d
  <2> QED
    BY <1>0, <1>1, <2>1, <2>4, PutKeepsTypes
<1> QED
  BY <1>1, <1>2, <1>3, <1>4, <1>5
  DEF Step, Enter, CheckBranch, ReadSource, ReadRoot, SetEmptyRoot, Find, ReadToRemove,
      ReadToAdd, InsertBranch, SetBranchRoot, RemoveBranch, RemoveRoot

LEMMA StepKeepsTrees ==
  ASSUME TypeInv, NEW q \in Requests, Step(q)
  PROVE  TreeType'
<1>0. TreeType /\ req[q] \in RequestType /\ OnItsWay(req[q])
  BY DEF TypeInv, TypeOK, TreeType, AllOnTheirWay
<1>1. CASE UNCHANGED treeVars
  BY <1>0, <1>1 DEF treeVars, TreeType
<1>2. ASSUME NEW k \in Nodes, SetRoot(q, k), UNCHANGED <<owner, made>>
      PROVE  TreeType'
  <2>1. Revives(q, k) \subseteq Nodes
    BY TreesAreNodes DEF Revives
  <2>2. root' = [root EXCEPT ![req[q].op.rec] = k] /\ revived' = revived \union Revives(q, k)
    BY <1>2 DEF SetRoot
  <2> QED
    BY <1>0, <1>2, <2>1, <2>2 DEF TreeType
<1>5. CASE SetEmptyRoot(q)
  <2>1. SetRoot(q, Empty) /\ UNCHANGED <<owner, made>> /\ Empty \in Nodes
    BY <1>5, EmptyIsDict DEF SetEmptyRoot
  <2> QED
    BY <1>2, <2>1
<1>6. CASE SetBranchRoot(q)
  <2>1. req[q].pc = "set" /\ SetRoot(q, req[q].snap) /\ UNCHANGED <<owner, made>>
    BY <1>6 DEF SetBranchRoot, At
  <2>2. req[q].snap \in Nodes
    BY <1>0, <2>1, EntriesAreNodes DEF OnItsWay
  <2> QED
    BY <1>2, <2>1, <2>2
<1>7. CASE RemoveRoot(q)
  BY <1>0, <1>7 DEF RemoveRoot, TreeType
<1>3. CASE InsertBranch(q)
  <2>1. /\ req[q].pc = "insert" /\ UNCHANGED <<root, made, revived>>
        /\ owner' = [owner EXCEPT ![req[q].op.rec] = req[q].op.realm]
    BY <1>3 DEF InsertBranch, At
  <2>2. req[q].op \in AllOps /\ req[q].op.kind = "create"
    BY <1>0, <2>1 DEF OnItsWay
  <2>3. req[q].op.realm \in Realms
    BY <2>2, OpParts
  <2> QED
    BY <1>0, <2>1, <2>3 DEF TreeType
<1>4. CASE RemoveBranch(q)
  BY <1>0, <1>4 DEF RemoveBranch, TreeType
<1> QED
  BY <1>1, <1>3, <1>4, <1>5, <1>6, <1>7
  DEF Step, Enter, CheckBranch, InitRealm, ReadSource, ReadRoot, EnsureEmptyRoot, PutChild, Find,
      ReadToRemove, Unlink, EnsureDict, ReadToAdd, Link

(* The steps of gc *)

GcTypes == gc \in [Collectors -> GcType]

LEMMA VisitedAreNodes ==
  ASSUME NEW roots \in SUBSET Nodes
  PROVE  Visited(roots) \subseteq Nodes
BY DictParts, EntriesAreNodes DEF Visited, ChildrenOf

LEMMA GcIdleIsTyped == GcIdle \in GcType
BY DEF GcIdle, GcType, NoTime

LEMMA OneGcChanges ==
  ASSUME TypeInv, NEW g \in Collectors, NEW c \in GcType, c.pc # "idle" => c.realm \in Realms,
         gc' = [gc EXCEPT ![g] = c]
  PROVE  GcTypes' /\ GcOfRealm'
BY DEF TypeInv, TypeOK, GcTypes, GcOfRealm

LEMMA GcStepKeepsTypes ==
  ASSUME TypeInv, NEW g \in Collectors, GcStep(g)
  PROVE  TypeOK' /\ GcOfRealm' /\ UNCHANGED <<req, queue>>
<1>0. /\ StoreType /\ BoundsType /\ TreeType /\ QueueType /\ TypeOK
      /\ gc[g] \in GcType /\ (gc[g].pc # "idle" => gc[g].realm \in Realms)
  BY DEF TypeInv, TypeOK, StoreType, BoundsType, TreeType, QueueType, GcOfRealm
<1> DEFINE Elsewhere == UNCHANGED <<req, queue>> /\ BoundsType' /\ StoreType' /\ TreeType'
           Goal == TypeOK' /\ GcOfRealm' /\ UNCHANGED <<req, queue>>
<1>1. Elsewhere /\ GcTypes' /\ GcOfRealm' => Goal
  BY <1>0 DEF TypeOK, StoreType, BoundsType, GcTypes, TreeType, QueueType
<1>2. (UNCHANGED casVars => StoreType') /\ (UNCHANGED treeVars => TreeType')
  BY <1>0 DEF StoreType, casVars, TreeType, treeVars
<1>3. UNCHANGED bounds => BoundsType'
  BY <1>0 DEF BoundsType, bounds
<1> HIDE DEF Goal
<1> SUFFICES Goal
  BY DEF Goal
<1>4. ASSUME NEW r \in Realms, NEW cut \in 1 .. clock, GcBegin(g, r, cut)
      PROVE  Goal
  <2> DEFINE c == [GcIdle EXCEPT !.pc = "realm", !.realm = r, !.cut = cut]
  <2>1. cut \in Nat
    BY <1>0 DEF BoundsType
  <2>2. c \in GcType /\ c.realm \in Realms
    BY <2>1 DEF GcIdle, GcType
  <2>3. gc' = [gc EXCEPT ![g] = c] /\ UNCHANGED <<casVars, req, queue>> /\ BoundsType'
    BY <1>0, <1>4 DEF GcBegin, BoundsType
  <2>4. TreeType'
    BY <1>0, <1>4 DEF GcBegin, TreeType
  <2> HIDE DEF c
  <2> QED
    BY <1>1, <1>2, <2>2, <2>3, <2>4, OneGcChanges
<1>5. CASE GcReadRealm(g)
  <2> DEFINE c == [gc[g] EXCEPT !.pc = "list", !.roots = {root[gc[g].realm]} \ {NoNode}]
  <2>1. gc' = [gc EXCEPT ![g] = c] /\ UNCHANGED <<casVars, treeVars, bounds, req, queue>>
    BY <1>5 DEF GcReadRealm
  <2>2. gc[g].realm \in Realms
    BY <1>0, <1>5 DEF GcReadRealm
  <2>3. root[gc[g].realm] \in Nodes \union {NoNode}
    BY <1>0, <2>2 DEF TreeType, Records
  <2>4. c \in GcType /\ c.realm \in Realms
    BY <1>0, <2>2, <2>3 DEF GcType
  <2> HIDE DEF c
  <2> QED
    BY <1>1, <1>2, <1>3, <2>1, <2>4, OneGcChanges
<1>6. CASE GcListBranches(g)
  <2> DEFINE c == [gc[g] EXCEPT !.pc = "branches",
                                !.todo = {b \in Branches : owner[b] = gc[g].realm}]
  <2>1. gc' = [gc EXCEPT ![g] = c] /\ UNCHANGED <<casVars, treeVars, bounds, req, queue>>
    BY <1>6 DEF GcListBranches
  <2>2. c \in GcType /\ c.realm \in Realms
    BY <1>0, <1>6 DEF GcType, GcListBranches
  <2> HIDE DEF c
  <2> QED
    BY <1>1, <1>2, <1>3, <2>1, <2>2, OneGcChanges
<1>7. CASE GcReadBranch(g)
  <2>1. PICK b \in gc[g].todo :
             gc' = [gc EXCEPT ![g] = [gc[g] EXCEPT !.todo = @ \ {b},
                                                  !.roots = (@ \union {root[b]}) \ {NoNode}]]
    BY <1>7 DEF GcReadBranch
  <2> DEFINE c == [gc[g] EXCEPT !.todo = @ \ {b}, !.roots = (@ \union {root[b]}) \ {NoNode}]
  <2>2. b \in Branches /\ root[b] \in Nodes \union {NoNode}
    BY <1>0 DEF GcType, TreeType, Records
  <2>3. c \in GcType /\ c.realm \in Realms
    BY <1>0, <1>7, <2>2 DEF GcType, GcReadBranch
  <2>4. gc' = [gc EXCEPT ![g] = c] /\ UNCHANGED <<casVars, treeVars, bounds, req, queue>>
    BY <1>7, <2>1 DEF GcReadBranch
  <2> HIDE DEF c
  <2> QED
    BY <1>1, <1>2, <1>3, <2>3, <2>4, OneGcChanges
<1>8. CASE GcMark(g)
  <2>1. PICK k \in gc[g].roots :
             gc' = [gc EXCEPT ![g] = [gc[g] EXCEPT !.roots = @ \ {k},
                                                  !.seen = @ \union Visited({k})]]
    BY <1>8 DEF GcMark
  <2> DEFINE c == [gc[g] EXCEPT !.roots = @ \ {k}, !.seen = @ \union Visited({k})]
  <2>2. k \in Nodes /\ Visited({k}) \subseteq Nodes
    BY <1>0, VisitedAreNodes DEF GcType
  <2>3. c \in GcType /\ c.realm \in Realms
    BY <1>0, <1>8, <2>2 DEF GcType, GcMark
  <2>4. gc' = [gc EXCEPT ![g] = c] /\ UNCHANGED <<casVars, treeVars, bounds, req, queue>>
    BY <1>8, <2>1 DEF GcMark
  <2> HIDE DEF c
  <2> QED
    BY <1>1, <1>2, <1>3, <2>3, <2>4, OneGcChanges
<1>9. CASE GcEnd(g) \/ GcFail(g)
  <2>1. gc' = [gc EXCEPT ![g] = GcIdle] /\ UNCHANGED <<casVars, treeVars, bounds, req, queue>>
    BY <1>9 DEF GcEnd, GcFail
  <2>3. GcIdle.pc = "idle"
    BY DEF GcIdle
  <2> QED
    BY <1>1, <1>2, <1>3, <2>1, <2>3, GcIdleIsTyped, OneGcChanges
<1>10. CASE GcDelete(g)
  <2>1. UNCHANGED <<first, treeVars, bounds, req, queue, gc>> /\ store' \subseteq store
    BY <1>10 DEF GcDelete
  <2>2. StoreType' /\ GcTypes' /\ GcOfRealm'
    BY <1>0, <2>1 DEF StoreType, GcTypes, GcOfRealm, TypeInv, TypeOK
  <2> QED
    BY <1>1, <1>2, <1>3, <2>1, <2>2
<1> QED
  BY <1>4, <1>5, <1>6, <1>7, <1>8, <1>9, <1>10 DEF GcStep

-----------------------------------------------------------------------------
LEMMA InitIsTyped == Init => TypeInv
<1> SUFFICES ASSUME Init PROVE TypeInv
  OBVIOUS
<1>1. store \subseteq Nodes /\ first \in [Nodes -> Nat] /\ revived \subseteq Nodes
  BY EmptyIsDict DEF Init, NoTime
<1>2. root \in [Records -> Nodes \union {NoNode}]
  BY EmptyIsDict DEF Init
<1>3. req \in [Requests -> RequestType] /\ AllOnTheirWay
  BY IdleIsRequest DEF Init, IsInFlight, AllOnTheirWay
<1>4. queue \in [Processes -> [Records -> Seq(Requests)]]
  BY DEF Init
<1>5. gc \in [Collectors -> GcType] /\ GcOfRealm
  BY GcIdleIsTyped DEF Init, GcOfRealm, GcIdle
<1> QED
  BY <1>1, <1>2, <1>3, <1>4, <1>5 DEF TypeInv, TypeOK, Init

LEMMA NextKeepsTypes == TypeInv /\ [Next]_vars => TypeInv'
<1> SUFFICES ASSUME TypeInv, [Next]_vars
             PROVE  TypeInv'
  OBVIOUS
<1>0. RequestsInv /\ QueueType /\ StoreType /\ TreeType /\ BoundsType /\ GcTypes /\ GcOfRealm
  BY DEF TypeInv, TypeOK, RequestsInv, QueueType, StoreType, TreeType, BoundsType, GcTypes
<1>a. ASSUME RequestsInv', QueueType', StoreType', TreeType', BoundsType', UNCHANGED gc
      PROVE  TypeInv'
  BY <1>0, <1>a
  DEF TypeInv, TypeOK, RequestsInv, QueueType, StoreType, TreeType, BoundsType, GcTypes, GcOfRealm
<1>b. UNCHANGED casVars => StoreType'
  BY <1>0 DEF StoreType, casVars
<1>1. CASE Tick
  <2>1. UNCHANGED <<casVars, treeVars, requests, gcs, req, queue, gc>> /\ clock' = clock + 1
    BY <1>1 DEF Tick
  <2>2. RequestsInv' /\ QueueType' /\ TreeType' /\ BoundsType'
    BY <1>0, <2>1
    DEF RequestsInv, AllOnTheirWay, OnItsWay, QueueType, TreeType, treeVars, BoundsType
  <2> QED
    BY <1>a, <1>b, <2>1, <2>2
<1>2. ASSUME NEW q \in Requests, NEW o \in Ops, NEW p \in Processes, Begin(q, o, p)
      PROVE  TypeInv'
  <2>1. UNCHANGED casVars /\ UNCHANGED gc
    BY <1>2 DEF Begin
  <2> QED
    BY <1>a, <1>b, <1>2, <2>1, BeginKeeps
<1>3. ASSUME NEW q \in Requests, Step(q)
      PROVE  TypeInv'
  <2>1. UNCHANGED <<bounds, gc>>
    BY <1>3
    DEF Step, At, Enter, CheckBranch, InitRealm, ReadSource, ReadRoot, EnsureEmptyRoot,
        SetEmptyRoot, PutChild, Find, ReadToRemove, Unlink, EnsureDict, ReadToAdd, Link,
        InsertBranch, SetBranchRoot, RemoveBranch, RemoveRoot
  <2>2. BoundsType'
    BY <1>0, <2>1 DEF bounds, BoundsType
  <2>3. QueueType'
    <3>1. UNCHANGED queue \/ Answer(q) \/ Throw(q)
      BY <1>3, StepIsOfOneKind DEF Enter, CarriesOn
    <3> QED
      BY <1>0, <3>1, EndKeepsQueues DEF QueueType
  <2> QED
    BY <1>a, <1>3, <2>1, <2>2, <2>3, StepKeepsRequests, StepKeepsStore, StepKeepsTrees
<1>4. ASSUME NEW q \in Requests, Fail(q)
      PROVE  TypeInv'
  <2>1. Throw(q) /\ UNCHANGED <<casVars, treeVars, bounds, gc>>
    BY <1>4 DEF Fail
  <2>2. RequestsInv' /\ QueueType'
    BY <1>0, <2>1, ThrowKeeps, EndKeepsQueues
  <2>3. TreeType' /\ BoundsType'
    BY <1>0, <2>1 DEF TreeType, treeVars, BoundsType, bounds
  <2> QED
    BY <1>a, <1>b, <2>1, <2>2, <2>3
<1>5. ASSUME NEW g \in Collectors, GcStep(g)
      PROVE  TypeInv'
  <2>1. TypeOK' /\ GcOfRealm' /\ UNCHANGED <<req, queue>>
    BY <1>5, GcStepKeepsTypes
  <2>2. AllOnTheirWay'
    BY <1>0, <2>1 DEF RequestsInv, AllOnTheirWay, OnItsWay
  <2> QED
    BY <2>1, <2>2 DEF TypeInv
<1>6. CASE UNCHANGED vars
  <2>1. RequestsInv' /\ QueueType' /\ TreeType' /\ BoundsType'
    BY <1>0, <1>6
    DEF vars, RequestsInv, AllOnTheirWay, OnItsWay, QueueType, TreeType, treeVars, BoundsType,
        bounds
  <2> QED
    BY <1>a, <1>b, <1>6, <2>1 DEF vars
<1> QED
  BY <1>1, <1>2, <1>3, <1>4, <1>5, <1>6 DEF Next

(* Every variable keeps its type, and every request its way: the steps of each *)
(* operation, taken in any order with those of the others, find what they need *)
(* (files.ts, fs.ts, branches.ts).                                             *)
THEOREM TypeInvHolds == Spec => []TypeInv
BY InitIsTyped, NextKeepsTypes, PTL DEF Spec

(* Every variable has its type. *)
THEOREM TypeCorrect == Spec => []TypeOK
<1>1. TypeInv => TypeOK
  BY DEF TypeInv
<1> QED
  BY <1>1, TypeInvHolds, PTL

-----------------------------------------------------------------------------
(* The mutex *)

(* What the invariant says of a request and of a queue, in the words of both states *)
LEMMA UploadParts ==
  ASSUME TypeInv, NEW q \in Requests, req[q].op.kind = "upload"
  PROVE  /\ req[q].pc # "idle"
         /\ req[q].process \in Processes /\ req[q].op.rec \in Records
         /\ Waiting(q) \in Seq(Requests)
<1>1. OnItsWay(req[q]) /\ QueueType
  BY DEF TypeInv, TypeOK, AllOnTheirWay, QueueType
<1>2. req[q].pc # "idle"
  BY <1>1, NoOpIsNone DEF OnItsWay
<1>3. req[q].process \in Processes /\ req[q].op.rec \in Records
  BY <1>1, <1>2, OpParts DEF OnItsWay
<1> QED
  BY <1>1, <1>2, <1>3 DEF QueueType, Waiting

(* Nothing changes of the queues and of who is in them. *)
LEMMA MutexStays ==
  ASSUME TypeInv, MutexInv, UNCHANGED queue,
         \A p \in Requests : req'[p].op = req[p].op /\ req'[p].process = req[p].process,
         \A p \in Requests :
           Running(p)' => Running(p) \/ (Len(Waiting(p)) > 0 /\ Waiting(p)[1] = p)
  PROVE  MutexInv'
<1>0. queue \in [Processes -> [Records -> Seq(Requests)]]
  BY DEF TypeInv, TypeOK
<1>1. \A p \in Requests : Waiting(p)' = Waiting(p)
  BY DEF Waiting
<1>2. HoldsItsUploads'
  BY <1>0 DEF MutexInv, HoldsItsUploads
<1>3. EachOnce'
  BY DEF MutexInv, EachOnce
<1>4. InItsQueue'
  BY <1>1 DEF MutexInv, InItsQueue
<1>5. RunsFirst'
  BY <1>1 DEF MutexInv, RunsFirst
<1> QED
  BY <1>2, <1>3, <1>4, <1>5 DEF MutexInv

LEMMA EnterKeepsMutex ==
  ASSUME TypeInv, MutexInv, NEW q \in Requests, Enter(q)
  PROVE  MutexInv'
<1>1. /\ req[q].pc = "queued" /\ Head(Waiting(q)) = q /\ UNCHANGED queue
      /\ req' = [req EXCEPT ![q] = [req[q] EXCEPT !.pc = Opening(req[q].op)]]
  BY DEF Enter
<1>2. req[q].op.kind = "upload"
  BY <1>1 DEF TypeInv, AllOnTheirWay, OnItsWay
<1>3. Waiting(q) \in Seq(Requests) /\ Len(Waiting(q)) > 0
  BY <1>2, UploadParts DEF MutexInv, InItsQueue
<1>4. Waiting(q)[1] = q
  BY <1>1, <1>3
<1>5. /\ \A p \in Requests : req'[p].op = req[p].op /\ req'[p].process = req[p].process
      /\ \A p \in Requests \ {q} : req'[p] = req[p]
  BY <1>1 DEF TypeInv, TypeOK, RequestType
<1>6. \A p \in Requests \ {q} : Running(p)' => Running(p)
  BY <1>5 DEF Running
<1> QED
  BY <1>1, <1>3, <1>4, <1>5, <1>6, MutexStays

LEMMA CarryingOnKeepsMutex ==
  ASSUME TypeInv, MutexInv, NEW q \in Requests, CarriesOn(q), req[q].pc \notin {"idle", "queued"}
  PROVE  MutexInv'
<1>1. \A p \in Requests : Running(p)' => Running(p)
  BY DEF CarriesOn, Running
<1> QED
  BY <1>1, MutexStays DEF CarriesOn

(* A request that is not an upload, or that becomes one, comes and goes. *)
LEMMA NotInQueues ==
  ASSUME TypeInv, MutexInv, NEW q \in Requests, req[q].op.kind # "upload",
         NEW p \in Processes, NEW r \in Records, NEW i \in 1 .. Len(queue[p][r])
  PROVE  queue[p][r][i] # q
BY DEF MutexInv, HoldsItsUploads

LEMMA OtherRequestKeepsMutex ==
  ASSUME TypeInv, MutexInv, NEW q \in Requests, req[q].op.kind # "upload", UNCHANGED queue,
         NEW r, r.op.kind # "upload", req' = [req EXCEPT ![q] = r]
  PROVE  MutexInv'
<1>0. queue \in [Processes -> [Records -> Seq(Requests)]] /\ req \in [Requests -> RequestType]
  BY DEF TypeInv, TypeOK
<1>1. \A p \in Requests \ {q} : req'[p] = req[p]
  BY <1>0
<1>2. req'[q].op.kind # "upload"
  BY <1>0
<1>3. HoldsItsUploads'
  <2> SUFFICES ASSUME NEW p \in Processes, NEW s \in Records, NEW i \in 1 .. Len(queue[p][s])
               PROVE  LET x == queue[p][s][i]
                      IN  req'[x].op.kind = "upload" /\ req'[x].process = p /\ req'[x].op.rec = s
    BY DEF HoldsItsUploads
  <2>1. queue[p][s][i] # q /\ queue[p][s][i] \in Requests
    BY <1>0, NotInQueues
  <2> QED
    BY <1>1, <2>1 DEF MutexInv, HoldsItsUploads
<1>4. EachOnce'
  BY DEF MutexInv, EachOnce
<1>5. InItsQueue' /\ RunsFirst'
  <2>1. \A p \in Requests \ {q} : Waiting(p)' = Waiting(p)
    BY <1>1 DEF Waiting
  <2> QED
    BY <1>1, <1>2, <2>1 DEF MutexInv, InItsQueue, RunsFirst, Running
<1> QED
  BY <1>3, <1>4, <1>5 DEF MutexInv

LEMMA BeginKeepsMutex ==
  ASSUME TypeInv, MutexInv, NEW q \in Requests, NEW o \in Ops, NEW p \in Processes, Begin(q, o, p)
  PROVE  MutexInv'
<1>0. /\ queue \in [Processes -> [Records -> Seq(Requests)]] /\ req \in [Requests -> RequestType]
      /\ QueueType /\ o.rec \in Records
  BY OpParts DEF TypeInv, TypeOK, QueueType, Ops
<1>1. req[q].op.kind # "upload"
  BY NoOpIsNone DEF Begin, TypeInv, AllOnTheirWay, OnItsWay
<1>2. CASE o.kind # "upload"
  <2>1. PICK pc, child : req' = [req EXCEPT ![q] = [Idle EXCEPT !.pc = pc, !.op = o, !.process = p,
                                                          !.began = clock, !.child = child]]
    BY DEF Begin
  <2>2. UNCHANGED queue
    BY <1>2 DEF Begin
  <2>3. [Idle EXCEPT !.pc = pc, !.op = o, !.process = p, !.began = clock, !.child = child].op = o
    BY DEF Idle
  <2> QED
    BY <1>1, <1>2, <2>1, <2>2, <2>3, OtherRequestKeepsMutex
<1>3. CASE o.kind = "upload"
  <2> DEFINE uploads == queue[p][o.rec]
             joined == Append(uploads, q)
  <2>1. PICK child : req' = [req EXCEPT ![q] = [Idle EXCEPT !.pc = "queued", !.op = o, !.process = p,
                                                      !.began = clock, !.child = child]]
    BY <1>3 DEF Begin
  <2>2. /\ req'[q].op = o /\ req'[q].process = p /\ req'[q].pc = "queued"
        /\ \A x \in Requests \ {q} : req'[x] = req[x]
    BY <1>0, <2>1 DEF Idle
  <2>3. uploads \in Seq(Requests) /\ joined \in Seq(Requests) /\ Len(joined) = Len(uploads) + 1
        /\ (\A i \in 1 .. Len(uploads) : joined[i] = uploads[i]) /\ joined[Len(joined)] = q
    BY <1>0
  <2>4. queue' = [queue EXCEPT ![p][o.rec] = joined]
    BY <1>3 DEF Begin, Join
  <2>5. \A p2 \in Processes, r2 \in Records :
          queue'[p2][r2] = IF p2 = p /\ r2 = o.rec THEN joined ELSE queue[p2][r2]
    BY <1>0, <2>3, <2>4, OneQueueChanges
  <2>6. \A i \in 1 .. Len(uploads) : uploads[i] # q
    BY <1>0, <1>1, NotInQueues
  <2>7. Len(uploads) \in Nat
    BY <2>3
  <2>a. \A x \in Requests \ {q} : req[x].op.kind = "upload" =>
          Waiting(x)' = IF req[x].process = p /\ req[x].op.rec = o.rec THEN joined ELSE Waiting(x)
    BY <2>2, <2>5, UploadParts DEF Waiting
  <2>b. Waiting(q)' = joined
    BY <1>0, <2>2, <2>5 DEF Waiting
  <2>c. \A x \in Requests : req[x].process = p /\ req[x].op.rec = o.rec => Waiting(x) = uploads
    BY DEF Waiting
  <2> HIDE DEF uploads, joined
  <2>8. HoldsItsUploads'
    <3> SUFFICES ASSUME NEW p2 \in Processes, NEW r2 \in Records, NEW i \in 1 .. Len(queue'[p2][r2])
                 PROVE  LET x == queue'[p2][r2][i]
                        IN  req'[x].op.kind = "upload" /\ req'[x].process = p2 /\ req'[x].op.rec = r2
      BY DEF HoldsItsUploads
    <3>1. CASE p2 = p /\ r2 = o.rec /\ i = Len(joined)
      BY <1>3, <2>2, <2>3, <2>5, <3>1
    <3>2. CASE p2 = p /\ r2 = o.rec /\ i # Len(joined)
      <4>1. i \in 1 .. Len(uploads) /\ queue'[p2][r2][i] = uploads[i]
        BY <2>3, <2>5, <2>7, <3>2
      <4>2. uploads[i] \in Requests /\ uploads[i] # q
        BY <2>3, <2>6, <4>1
      <4> QED
        BY <2>2, <3>2, <4>1, <4>2 DEF MutexInv, HoldsItsUploads, uploads
    <3>3. CASE ~(p2 = p /\ r2 = o.rec)
      <4>1. queue'[p2][r2] = queue[p2][r2] /\ i \in 1 .. Len(queue[p2][r2])
        BY <2>5, <3>3
      <4>2. queue[p2][r2][i] \in Requests /\ queue[p2][r2][i] # q
        BY <1>0, <1>1, <4>1, NotInQueues
      <4> QED
        BY <2>2, <4>1, <4>2 DEF MutexInv, HoldsItsUploads
    <3> QED
      BY <3>1, <3>2, <3>3
  <2>9. EachOnce'
    <3> SUFFICES ASSUME NEW p2 \in Processes, NEW r2 \in Records,
                        NEW i \in 1 .. Len(queue'[p2][r2]), NEW j \in 1 .. Len(queue'[p2][r2]),
                        queue'[p2][r2][i] = queue'[p2][r2][j]
                 PROVE  i = j
      BY DEF EachOnce
    <3>1. \A m, n \in 1 .. Len(uploads) : uploads[m] = uploads[n] => m = n
      BY <1>0 DEF MutexInv, EachOnce, uploads
    <3>2. CASE p2 = p /\ r2 = o.rec
      BY <2>3, <2>5, <2>6, <2>7, <3>1, <3>2
    <3>3. CASE ~(p2 = p /\ r2 = o.rec)
      BY <2>5, <3>3 DEF MutexInv, EachOnce
    <3> QED
      BY <3>2, <3>3
  <2>10. InItsQueue'
    <3> SUFFICES ASSUME NEW x \in Requests, req'[x].op.kind = "upload"
                 PROVE  \E i \in 1 .. Len(Waiting(x)') : Waiting(x)'[i] = x
      BY DEF InItsQueue
    <3>1. CASE x = q
      BY <2>3, <2>7, <2>b, <3>1
    <3>2. CASE x # q
      <4>1. req[x].op.kind = "upload"
        BY <2>2, <3>2
      <4>2. PICK i \in 1 .. Len(Waiting(x)) : Waiting(x)[i] = x
        BY <4>1 DEF MutexInv, InItsQueue
      <4> QED
        BY <2>3, <2>7, <2>a, <2>c, <3>2, <4>1, <4>2
    <3> QED
      BY <3>1, <3>2
  <2>11. RunsFirst'
    <3> SUFFICES ASSUME NEW x \in Requests, Running(x)'
                 PROVE  Len(Waiting(x)') > 0 /\ Waiting(x)'[1] = x
      BY DEF RunsFirst
    <3>1. x # q /\ Running(x) /\ req[x].op.kind = "upload"
      BY <2>2 DEF Running
    <3>2. Len(Waiting(x)) > 0 /\ Waiting(x)[1] = x
      BY <3>1 DEF MutexInv, RunsFirst
    <3> QED
      BY <2>3, <2>7, <2>a, <2>c, <3>1, <3>2
  <2> QED
    BY <2>8, <2>9, <2>10, <2>11 DEF MutexInv
<1> QED
  BY <1>2, <1>3

LEMMA QueueHolds ==
  ASSUME MutexInv, NEW p \in Processes, NEW r \in Records, NEW i \in 1 .. Len(queue[p][r])
  PROVE  /\ req[queue[p][r][i]].op.kind = "upload"
         /\ req[queue[p][r][i]].process = p /\ req[queue[p][r][i]].op.rec = r
BY DEF MutexInv, HoldsItsUploads

LEMMA AnswerKeepsMutex ==
  ASSUME TypeInv, MutexInv, NEW q \in Requests, req[q].pc # "queued", Answer(q)
  PROVE  MutexInv'
<1>0. /\ queue \in [Processes -> [Records -> Seq(Requests)]] /\ req \in [Requests -> RequestType]
      /\ QueueType
  BY DEF TypeInv, TypeOK, QueueType
<1>a. Idle.op.kind # "upload"
  BY NoOpIsNone DEF Idle
<1>1. CASE req[q].op.kind # "upload"
  BY <1>a, <1>1, OtherRequestKeepsMutex DEF Answer
<1>2. CASE req[q].op.kind = "upload"
  <2> DEFINE p == req[q].process
             r == req[q].op.rec
             uploads == queue[p][r]
             left == Tail(uploads)
  <2>1. p \in Processes /\ r \in Records /\ uploads \in Seq(Requests) /\ Waiting(q) = uploads
    BY <1>2, UploadParts DEF Waiting
  <2>2. Len(uploads) > 0 /\ uploads[1] = q
    BY <1>2, <2>1 DEF MutexInv, RunsFirst, Running
  <2>3. /\ left \in Seq(Requests) /\ Len(left) = Len(uploads) - 1 /\ Len(uploads) \in Nat
        /\ \A i \in 1 .. Len(left) : left[i] = uploads[i + 1]
    BY <2>1, <2>2
  <2>4. queue' = [queue EXCEPT ![p][r] = left]
    <3>1. Leave(uploads, q) = left
      BY <2>1, <2>2 DEF Leave
    <3>2. queue' = [queue EXCEPT ![p][r] = Leave(uploads, q)]
      BY <1>2 DEF Answer
    <3> QED
      BY <3>1, <3>2
  <2>5. \A p2 \in Processes, r2 \in Records :
          queue'[p2][r2] = IF p2 = p /\ r2 = r THEN left ELSE queue[p2][r2]
    <3> HIDE DEF p, r, uploads, left
    <3> QED
      BY <1>0, <2>1, <2>3, <2>4, OneQueueChanges
  <2>6. /\ req'[q].op.kind # "upload"
        /\ \A x \in Requests \ {q} : req'[x] = req[x]
    BY <1>0, <1>a DEF Answer
  <2>7. \A i, j \in 1 .. Len(uploads) : uploads[i] = uploads[j] => i = j
    BY <2>1 DEF MutexInv, EachOnce
  <2>8. \A x \in Requests \ {q} : req[x].op.kind = "upload" =>
          IF req[x].process = p /\ req[x].op.rec = r
          THEN Waiting(x)' = left /\ Waiting(x) = uploads
          ELSE Waiting(x)' = Waiting(x)
    BY <2>5, <2>6, UploadParts DEF Waiting
  <2>9. \A p2 \in Processes, r2 \in Records : \A i \in 1 .. Len(queue[p2][r2]) :
          queue[p2][r2][i] = q => p2 = p /\ r2 = r
    BY DEF MutexInv, HoldsItsUploads
  <2>10. \A i \in 1 .. Len(uploads) :
           req[uploads[i]].op.kind = "upload" /\ req[uploads[i]].process = p /\ req[uploads[i]].op.rec = r
    <3> HIDE DEF p, r
    <3> QED
      BY <2>1, QueueHolds
  <2> HIDE DEF p, r, uploads, left
  <2>11. HoldsItsUploads'
    <3> SUFFICES ASSUME NEW p2 \in Processes, NEW r2 \in Records, NEW i \in 1 .. Len(queue'[p2][r2])
                 PROVE  LET x == queue'[p2][r2][i]
                        IN  req'[x].op.kind = "upload" /\ req'[x].process = p2 /\ req'[x].op.rec = r2
      BY DEF HoldsItsUploads
    <3>1. CASE p2 = p /\ r2 = r
      <4>1. i + 1 \in 1 .. Len(uploads) /\ queue'[p2][r2][i] = uploads[i + 1] /\ i + 1 # 1
            /\ 1 \in 1 .. Len(uploads)
        BY <2>3, <2>5, <3>1
      <4>2. uploads[i + 1] \in Requests \ {q}
        BY <2>1, <2>2, <2>7, <4>1
      <4> QED
        BY <2>6, <2>10, <3>1, <4>1, <4>2
    <3>2. CASE ~(p2 = p /\ r2 = r)
      <4>1. queue'[p2][r2] = queue[p2][r2] /\ i \in 1 .. Len(queue[p2][r2])
        BY <2>5, <3>2
      <4>2. queue[p2][r2][i] \in Requests \ {q}
        BY <1>0, <2>9, <3>2, <4>1
      <4> QED
        BY <2>6, <4>1, <4>2 DEF MutexInv, HoldsItsUploads
    <3> QED
      BY <3>1, <3>2
  <2>12. EachOnce'
    <3> SUFFICES ASSUME NEW p2 \in Processes, NEW r2 \in Records,
                        NEW i \in 1 .. Len(queue'[p2][r2]), NEW j \in 1 .. Len(queue'[p2][r2]),
                        queue'[p2][r2][i] = queue'[p2][r2][j]
                 PROVE  i = j
      BY DEF EachOnce
    <3>1. CASE p2 = p /\ r2 = r
      <4>1. i + 1 \in 1 .. Len(uploads) /\ j + 1 \in 1 .. Len(uploads)
            /\ uploads[i + 1] = uploads[j + 1]
        BY <2>3, <2>5, <3>1
      <4>2. i + 1 = j + 1
        BY <2>7, <4>1
      <4> QED
        BY <4>2
    <3>2. CASE ~(p2 = p /\ r2 = r)
      BY <2>5, <3>2 DEF MutexInv, EachOnce
    <3> QED
      BY <3>1, <3>2
  <2>13. InItsQueue'
    <3> SUFFICES ASSUME NEW x \in Requests, req'[x].op.kind = "upload"
                 PROVE  \E i \in 1 .. Len(Waiting(x)') : Waiting(x)'[i] = x
      BY DEF InItsQueue
    <3>1. x # q /\ req[x].op.kind = "upload"
      BY <2>6
    <3>2. PICK i \in 1 .. Len(Waiting(x)) : Waiting(x)[i] = x
      BY <3>1 DEF MutexInv, InItsQueue
    <3>3. CASE req[x].process = p /\ req[x].op.rec = r
      <4>1. Waiting(x)' = left /\ i \in 1 .. Len(uploads) /\ uploads[i] = x
        BY <2>8, <3>1, <3>2, <3>3
      <4>2. i - 1 \in 1 .. Len(left) /\ left[i - 1] = x
        BY <2>2, <2>3, <3>1, <4>1
      <4> QED
        BY <4>1, <4>2
    <3>4. CASE ~(req[x].process = p /\ req[x].op.rec = r)
      BY <2>8, <3>1, <3>2, <3>4
    <3> QED
      BY <3>3, <3>4
  <2>14. RunsFirst'
    <3> SUFFICES ASSUME NEW x \in Requests, Running(x)'
                 PROVE  Len(Waiting(x)') > 0 /\ Waiting(x)'[1] = x
      BY DEF RunsFirst
    <3>1. x # q /\ Running(x) /\ req[x].op.kind = "upload"
      BY <2>6 DEF Running
    <3>2. Len(Waiting(x)) > 0 /\ Waiting(x)[1] = x
      BY <3>1 DEF MutexInv, RunsFirst
    <3>3. Waiting(x)' = Waiting(x)
      BY <2>2, <2>8, <3>1, <3>2
    <3> QED
      BY <3>2, <3>3
  <2> QED
    BY <2>11, <2>12, <2>13, <2>14 DEF MutexInv
<1> QED
  BY <1>1, <1>2

LEMMA ThrowKeepsMutex ==
  ASSUME TypeInv, MutexInv, NEW q \in Requests, req[q].pc # "queued", Throw(q)
  PROVE  MutexInv'
<1>0. /\ queue \in [Processes -> [Records -> Seq(Requests)]] /\ req \in [Requests -> RequestType]
      /\ QueueType
  BY DEF TypeInv, TypeOK, QueueType
<1>1. CASE req[q].op.kind # "upload"
  BY <1>1, AnswerKeepsMutex DEF Throw
<1>2. CASE req[q].op.kind = "upload"
  <2> DEFINE p == req[q].process
             r == req[q].op.rec
             failed == {Waiting(q)[i] : i \in DOMAIN Waiting(q)}
             Mine(x) == req[x].op.kind = "upload" /\ req[x].process = p /\ req[x].op.rec = r
  <2>1. p \in Processes /\ r \in Records /\ Waiting(q) \in Seq(Requests)
        /\ Waiting(q) = queue[p][r]
    BY <1>2, UploadParts DEF Waiting
  <2>2. /\ req' = [x \in Requests |-> IF x \in failed THEN Idle ELSE req[x]]
        /\ queue' = [queue EXCEPT ![p][r] = <<>>]
    BY <1>2 DEF Throw
  <2>3. <<>> \in Seq(Requests) /\ Len(<<>>) = 0
    OBVIOUS
  <2>4. \A p2 \in Processes, r2 \in Records :
          queue'[p2][r2] = IF p2 = p /\ r2 = r THEN <<>> ELSE queue[p2][r2]
    BY <1>0, <2>1, <2>2, <2>3, OneQueueChanges
  <2>5. \A x \in failed : Mine(x)
    BY <2>1, QueueHolds
  <2>6. \A x \in Requests : Mine(x) => x \in failed
    <3> SUFFICES ASSUME NEW x \in Requests, Mine(x) PROVE x \in failed
      OBVIOUS
    <3>1. PICK i \in 1 .. Len(Waiting(x)) : Waiting(x)[i] = x
      BY DEF MutexInv, InItsQueue
    <3>2. Waiting(x) = Waiting(q)
      BY DEF Waiting
    <3> QED
      BY <2>1, <3>1, <3>2
  <2>7. \A x \in Requests : ~Mine(x) => req'[x] = req[x]
    BY <2>2, <2>5
  <2>8. \A x \in Requests : Mine(x) => req'[x].op.kind # "upload"
    BY <2>2, <2>6, NoOpIsNone DEF Idle
  <2> HIDE DEF failed
  <2>9. \A x \in Requests : req'[x].op.kind = "upload" =>
          ~Mine(x) /\ req'[x] = req[x] /\ Waiting(x)' = Waiting(x)
    BY <2>4, <2>7, <2>8, UploadParts DEF Waiting
  <2>10. HoldsItsUploads'
    <3> SUFFICES ASSUME NEW p2 \in Processes, NEW r2 \in Records, NEW i \in 1 .. Len(queue'[p2][r2])
                 PROVE  LET x == queue'[p2][r2][i]
                        IN  req'[x].op.kind = "upload" /\ req'[x].process = p2 /\ req'[x].op.rec = r2
      BY DEF HoldsItsUploads
    <3>1. ~(p2 = p /\ r2 = r) /\ queue'[p2][r2] = queue[p2][r2]
      BY <2>3, <2>4
    <3> DEFINE x == queue[p2][r2][i]
    <3>2. x \in Requests /\ req[x].op.kind = "upload" /\ req[x].process = p2 /\ req[x].op.rec = r2
      BY <1>0, <3>1 DEF MutexInv, HoldsItsUploads
    <3> HIDE DEF x
    <3>3. req'[x] = req[x]
      BY <2>7, <3>1, <3>2
    <3> QED
      BY <3>1, <3>2, <3>3 DEF x
  <2>11. EachOnce'
    BY <2>3, <2>4 DEF MutexInv, EachOnce
  <2>12. InItsQueue' /\ RunsFirst'
    BY <2>9 DEF MutexInv, InItsQueue, RunsFirst, Running
  <2> QED
    BY <2>10, <2>11, <2>12 DEF MutexInv
<1> QED
  BY <1>1, <1>2

LEMMA NextKeepsMutex == TypeInv /\ MutexInv /\ [Next]_vars => MutexInv'
<1> SUFFICES ASSUME TypeInv, MutexInv, [Next]_vars
             PROVE  MutexInv'
  OBVIOUS
<1>1. CASE UNCHANGED <<req, queue>>
  BY <1>1, MutexStays DEF Running
<1>2. ASSUME NEW q \in Requests, NEW o \in Ops, NEW p \in Processes, Begin(q, o, p)
      PROVE  MutexInv'
  BY <1>2, BeginKeepsMutex
<1>3. ASSUME NEW q \in Requests, Step(q)
      PROVE  MutexInv'
  BY <1>3, StepIsOfOneKind, EnterKeepsMutex, CarryingOnKeepsMutex, AnswerKeepsMutex, ThrowKeepsMutex
<1>4. ASSUME NEW q \in Requests, Fail(q)
      PROVE  MutexInv'
  BY <1>4, ThrowKeepsMutex DEF Fail
<1>5. ASSUME NEW g \in Collectors, GcStep(g)
      PROVE  MutexInv'
  BY <1>1, <1>5, GcStepKeepsTypes
<1>6. CASE Tick \/ UNCHANGED vars
  BY <1>1, <1>6 DEF Tick, vars
<1> QED
  BY <1>2, <1>3, <1>4, <1>5, <1>6 DEF Next

LEMMA InitIsFree == Init => MutexInv
<1> SUFFICES ASSUME Init PROVE MutexInv
  OBVIOUS
<1>1. \A p \in Processes, r \in Records : queue[p][r] = <<>> /\ Len(queue[p][r]) = 0
  BY DEF Init
<1>2. \A q \in Requests : req[q].op.kind # "upload"
  BY NoOpIsNone DEF Init, Idle
<1> QED
  BY <1>1, <1>2 DEF MutexInv, HoldsItsUploads, EachOnce, InItsQueue, RunsFirst, Running

(* The queues of the mutex are right: each holds the uploads in flight to its  *)
(* process and record, each once, and the one that runs comes first            *)
(* (withMutex, whose chain of promises the queue is).                          *)
THEOREM MutexInvHolds == Spec => [](TypeInv /\ MutexInv)
<1>1. Init => TypeInv /\ MutexInv
  BY InitIsTyped, InitIsFree
<1>2. TypeInv /\ MutexInv /\ [Next]_vars => (TypeInv /\ MutexInv)'
  BY NextKeepsTypes, NextKeepsMutex
<1> QED
  BY <1>1, <1>2, PTL DEF Spec

(* The block of withMutex excludes the others of its key: for any number of    *)
(* processes, requests and records, whatever fails and however requests        *)
(* overlap, one upload at a time runs in a process for a record.               *)
THEOREM UploadsExclude == Spec => []OneUploadAtATime
<1>1. TypeInv /\ MutexInv => OneUploadAtATime
  BY DEF MutexInv, RunsFirst, OneUploadAtATime, Waiting
<1> QED
  BY <1>1, MutexInvHolds, PTL
=============================================================================
