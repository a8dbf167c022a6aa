---------------------------- MODULE DriveRootsProofs ----------------------------
(***************************************************************************)
(* gc of a drive deletes no node of a root.  What the proof needs is what  *)
(* the runs show to be needed: requests on one record do not overlap, a    *)
(* cut-off is no later than the start of a request in flight, nothing is   *)
(* handed from a branch to another record during a gc, and there is one    *)
(* realm and one gc at a time.  Any number of requests, processes,         *)
(* branches and steps is covered, and every failure of a call.  What a     *)
(* request links again under a gc is not: those nodes may be gone.         *)
(***************************************************************************)
EXTENDS DrivePromiseProofs

USE TreeAssumption, DriveAssumption

Sheltered ==
  /\ Overlap = FALSE /\ Grace = TRUE /\ Handover = FALSE
  /\ \A r1, r2 \in Realms : r1 = r2
  /\ \A g1, g2 \in Collectors : g1 = g2

-----------------------------------------------------------------------------
(* The inductive invariant *)

Live(r) == Present(r) /\ root[r] # NoNode

(* The nodes of a root that gc must keep *)
Kept(r) == Tree(root[r]) \ revived

Active(g) == gc[g].pc # "idle"

(* The nodes gc deletes unless it marks them, and those it has marked or will *)
Due(k, cut) == first[k] < cut

Marked(c) == c.seen \union Visited(c.roots)

(* The records whose roots a gc has yet to read *)
Unread(c) == CASE c.pc = "realm" -> Records [] c.pc = "list" -> Branches [] OTHER -> c.todo

(* The nodes of T are in storage, and survive a gc that has read the root of r. *)
Covered(r, T) ==
  /\ T \subseteq store
  /\ \A g \in Collectors : Active(g) /\ r \notin Unread(gc[g]) =>
       \A k \in T : Due(k, gc[g].cut) => k \in Marked(gc[g])

RootsCovered == \A r \in Records : Live(r) => Covered(r, Kept(r))

(* A dict that was linked again counts with its children: gc does not find them *)
(* where the dict is gone.                                                      *)
RevivedWhole == \A k \in revived : ChildrenOf(k) \subseteq revived

(* A request in flight began after the cut-off of every gc, and hands nothing   *)
(* over while there is one.                                                     *)
CutsAreEarly ==
  /\ \A q \in InFlight : req[q].began <= clock
  /\ \A g \in Collectors : Active(g) =>
       /\ gc[g].cut <= clock
       /\ \A q \in InFlight : gc[g].cut <= req[q].began /\ ~HandsOver(req[q].op)

(* What a request changes or copies from stays in the table meanwhile. *)
Needs(o) ==
  IF o.kind = "close" THEN {} ELSE IF o.kind = "create" THEN {o.src} ELSE {o.rec}

InTable == \A q \in InFlight : \A r \in Needs(req[q].op) : Present(r)

(* In storage, if it was stored for the first time at t or later *)
Fresh(k, t) == first[k] >= t => k \in store

(* The root a request is about to set *)
Built(r) == IF r.pc = "setEmpty" THEN Empty ELSE r.snap

Setting(r) == r.pc \in {"setEmpty", "set"}

(* The nodes a request has put since it began *)
PutAnew(r) ==
  /\ r.op.kind \in {"upload", "mkdir"} /\ r.pc \in {"dict", "add", "link", "set"} =>
       Fresh(r.op.child, r.began)
  /\ Setting(r) /\ r.op.kind # "create" => Fresh(Built(r), r.began)
  /\ Setting(r) /\ r.op.kind = "transfer" => Tree(Built(r)) \subseteq store

AllPutAnew == \A q \in InFlight : PutAnew(req[q])

(* A transfer that is to fail if its target exists has found it free, or the    *)
(* root it looked in gone.                                                      *)
TargetFree(r, t) ==
  /\ r.op.kind = "transfer" /\ r.op.mode = "fail_if_exists"
  /\ r.pc \in {"dict", "add", "link", "set"}
  /\ t \in Dicts
  => r.op.to \notin DOMAIN t \/ t \in revived

TargetsFree == \A q \in InFlight : TargetFree(req[q], root[req[q].op.rec])

RootsInv ==
  RootsCovered /\ RevivedWhole /\ CutsAreEarly /\ InTable /\ AllPutAnew /\ TargetsFree

AllInv == TypeInv /\ MutexInv /\ PromiseInv /\ RootsInv

-----------------------------------------------------------------------------
(* What the trees are made of *)

LEMMA LeafTree ==
  ASSUME NEW k \in Entries
  PROVE  Tree(k) = {k} /\ k \in Nodes
<1>1. ChildrenOf(k) = {}
  BY DEF Entries, ChildrenOf, Empty
<1> QED
  BY <1>1, EntriesAreNodes DEF Tree

LEMMA WithChildren ==
  ASSUME NEW d \in Dicts, NEW n \in Names, NEW k \in Entries
  PROVE  ChildrenOf(With(d, n, k)) \subseteq ChildrenOf(d) \union {k}
BY WithIsDict DEF ChildrenOf, With

LEMMA WithoutChildren ==
  ASSUME NEW d \in Dicts, NEW n
  PROVE  ChildrenOf(Without(d, n)) \subseteq ChildrenOf(d)
BY WithoutIsDict DEF ChildrenOf, Without

LEMMA EntryHasNone ==
  ASSUME NEW k \in Entries
  PROVE  ChildrenOf(k) = {}
BY DEF Entries, ChildrenOf, Empty

LEMMA EmptyHasNone == ChildrenOf(Empty) = {} /\ DOMAIN Empty = {}
BY DEF ChildrenOf, Empty

-----------------------------------------------------------------------------
(* The node store while no gc deletes: it grows, what is fresh stays so, and   *)
(* nothing becomes one of the nodes to be deleted.                             *)

Grows ==
  /\ store \subseteq store'
  /\ \A k \in Nodes, cut \in 0 .. clock : Due(k, cut)' => Due(k, cut)
  /\ \A k \in Nodes, t \in Nat : Fresh(k, t) => Fresh(k, t)'

LEMMA KeptOrPutGrows ==
  ASSUME TypeInv, UNCHANGED casVars \/ \E k \in Nodes : Put(k) \/ PutIfMissing(k)
  PROVE  Grows
<1>0. StoreType /\ clock \in Nat
  BY DEF TypeInv, TypeOK, StoreType
<1>1. CASE UNCHANGED casVars
  BY <1>1 DEF casVars, Grows, Due, Fresh
<1>2. ASSUME NEW n \in Nodes, Put(n)
      PROVE  Grows
  <2>1. \A k \in Nodes : first'[k] = first[k] \/ (k = n /\ first'[k] = clock)
    BY <1>0, <1>2 DEF Put, StoreType
  <2>2. store' = store \union {n}
    BY <1>2 DEF Put
  <2> QED
    BY <1>0, <2>1, <2>2 DEF Grows, Due, Fresh, StoreType
<1> QED
  BY <1>1, <1>2 DEF PutIfMissing

LEMMA StepGrows ==
  ASSUME TypeInv, NEW q \in Requests, Step(q) \/ Fail(q)
  PROVE  Grows
<1>0. OnItsWay(req[q])
  BY DEF TypeInv, AllOnTheirWay
<1>1. CASE UNCHANGED casVars
  BY <1>1, KeptOrPutGrows
<1>2. CASE InitRealm(q) \/ EnsureEmptyRoot(q) \/ EnsureDict(q)
  BY <1>2, EmptyIsDict, KeptOrPutGrows DEF InitRealm, EnsureEmptyRoot, EnsureDict
<1>3. CASE PutChild(q)
  <2>1. req[q].child \in Nodes /\ Put(req[q].child)
    BY <1>0, <1>3, EntriesAreNodes DEF PutChild, At, OnItsWay
  <2> QED
    BY <2>1, KeptOrPutGrows
<1>4. CASE Unlink(q)
  <2> DEFINE d == Without(req[q].snap, req[q].op.name)
  <2>1. req[q].pc = "unlink" /\ (Put(d) \/ UNCHANGED casVars)
    BY <1>4 DEF Unlink, At, PutDict, RefuseDict
  <2>2. d \in Nodes
    BY <1>0, <2>1, WithoutIsDict, EntriesAreNodes DEF OnItsWay
  <2> HIDE DEF d
  <2> QED
    BY <1>1, <2>1, <2>2, KeptOrPutGrows
<1>5. CASE Link(q)
  <2> DEFINE o == req[q].op
             n == IF o.kind \in {"upload", "mkdir"} THEN o.name ELSE o.to
             d == With(req[q].snap, n, req[q].child)
  <2>1. req[q].pc = "link" /\ (Put(d) \/ UNCHANGED casVars)
    BY <1>5 DEF Link, At, PutDict, RefuseDict
  <2>2. /\ req[q].snap \in Dicts /\ req[q].child \in Entries /\ o \in AllOps
        /\ o.kind \in {"upload", "mkdir", "mv", "cp", "transfer"}
    BY <1>0, <2>1 DEF OnItsWay
  <2>3. n \in Names
    BY <2>2, OpParts
  <2> HIDE DEF n
  <2>4. d \in Nodes
    BY <2>2, <2>3, WithIsDict, EntriesAreNodes
  <2> HIDE DEF d
  <2> QED
    BY <1>1, <2>1, <2>4, KeptOrPutGrows
<1> QED
  BY <1>1, <1>2, <1>3, <1>4, <1>5
  DEF Step, Fail, Enter, CheckBranch, ReadSource, ReadRoot, SetEmptyRoot, Find, ReadToRemove,
      ReadToAdd, InsertBranch, SetBranchRoot, RemoveBranch, RemoveRoot

LEMMA CoveredStays ==
  ASSUME TypeInv, CutsAreEarly, Grows, UNCHANGED gc, NEW r, NEW T \in SUBSET Nodes, Covered(r, T)
  PROVE  Covered(r, T)'
<1>1. T \subseteq store'
  BY DEF Covered, Grows
<1>2. ASSUME NEW g \in Collectors, gc[g].pc # "idle", r \notin Unread(gc[g]), NEW k \in T,
             Due(k, gc[g].cut)'
      PROVE  k \in Marked(gc[g])'
  <2>1. gc[g].cut \in 0 .. clock
    BY <1>2 DEF TypeInv, TypeOK, GcType, CutsAreEarly, Active
  <2>2. Due(k, gc[g].cut)
    <3>1. \A c : c = gc[g].cut => Due(k, c)'
      BY <1>2 DEF Due
    <3> QED
      BY <2>1, <3>1 DEF Grows
  <2>3. k \in Marked(gc[g])
    BY <1>2, <2>2 DEF Covered, Active
  <2> QED
    BY <2>3 DEF Marked, Visited, Grows
<1> QED
  BY <1>1, <1>2 DEF Covered, Active, Unread, Due, Marked

-----------------------------------------------------------------------------
(* What the next root of a record is made of *)

LEMMA PartsInFlight ==
  ASSUME TypeInv, PromiseInv, NEW q \in InFlight
  PROVE  /\ q \in Requests /\ req[q] \in RequestType /\ OnItsWay(req[q])
         /\ req[q].op \in AllOps /\ req[q].op.rec \in Records
         /\ req[q].op.kind \in Copies => req[q].op.src \in Records
         /\ Right(req[q], root[req[q].op.rec], Other(req[q].op))
         /\ root \in [Records -> Nodes \union {NoNode}]
BY OpParts
DEF InFlight, TypeInv, TypeOK, AllOnTheirWay, OnItsWay, PromiseInv, AllRight, RightNow, Copies

LEMMA PartIsCovered ==
  ASSUME NEW r, NEW T, NEW U \in SUBSET T, Covered(r, T)
  PROVE  Covered(r, U)
BY DEF Covered

LEMMA EachIsCovered ==
  ASSUME NEW r, NEW T, \A k \in T : Covered(r, {k})
  PROVE  Covered(r, T)
BY DEF Covered

(* The root of a record in the table, if it has one *)
LEMMA OldIsCovered ==
  ASSUME RootsCovered, NEW r \in Records, Present(r)
  PROVE  Covered(r, Kept(r) \ {NoNode})
<1>1. CASE root[r] = NoNode
  <2>1. Kept(r) \subseteq {NoNode}
    BY <1>1, EntriesAreNodes DEF Kept, Tree, ChildrenOf
  <2> QED
    BY <2>1 DEF Covered
<1>2. CASE root[r] # NoNode
  <2>1. Covered(r, Kept(r))
    BY <1>2 DEF RootsCovered, Live
  <2> QED
    BY <2>1, PartIsCovered
<1> QED
  BY <1>1, <1>2

(* A node that a request has put and links is not deleted: it was in the root   *)
(* before, or is as new as the request, or no gc is under way, or it counts as  *)
(* linked again.                                                                *)
LEMMA LinkedIsCovered ==
  ASSUME TypeInv, PromiseInv, RootsInv, NEW q \in InFlight, req[q].source = NoNode,
         Present(req[q].op.rec), NEW new \in Nodes, NEW k \in Tree(new),
         Fresh(k, req[q].began), k \notin revived \union Revives(q, new)
  PROVE  Covered(req[q].op.rec, {k})
<1> DEFINE o == req[q].op
<1>0. k \in Nodes /\ o.rec \in Records /\ NoNode \notin Nodes
  BY PartsInFlight, TreesAreNodes, TreeAssumption
<1>1. CASE k \in Tree(root[o.rec])
  <2>1. Covered(o.rec, Kept(o.rec) \ {NoNode})
    BY <1>0, OldIsCovered DEF RootsInv
  <2> QED
    BY <1>0, <1>1, <2>1, PartIsCovered DEF Kept
<1>2. CASE first[k] >= req[q].began
  <2>1. ASSUME NEW g \in Collectors, Active(g)
        PROVE  ~Due(k, gc[g].cut)
    <3>1. gc[g].cut <= req[q].began
      BY <2>1 DEF RootsInv, CutsAreEarly
    <3>2. gc[g].cut \in Nat /\ req[q].began \in Nat /\ first[k] \in Nat
      BY <1>0 DEF TypeInv, TypeOK, GcType, RequestType, InFlight
    <3> QED
      BY <1>2, <3>1, <3>2 DEF Due
  <2> QED
    BY <1>2, <2>1 DEF Fresh, Covered
<1>3. CASE k \notin Tree(root[o.rec]) /\ ~(first[k] >= req[q].began)
  <2>1. k \notin Tree(req[q].source)
    BY <1>0, EntriesAreNodes DEF Tree, ChildrenOf
  <2>2. first[k] < req[q].began
    BY <1>0, <1>3 DEF TypeInv, TypeOK, RequestType, InFlight
  <2>3. ~Collecting /\ k \in store
    BY <1>3, <2>1, <2>2 DEF Revives
  <2> QED
    BY <2>3 DEF Covered, Collecting, Active
<1> QED
  BY <1>1, <1>2, <1>3

LEMMA NextTree ==
  ASSUME NEW o \in AllOps, NEW t, NEW k, NEW d, Makes(o, t, k, d),
         o.kind \notin {"transfer", "create"}
  PROVE  /\ d \in Nodes /\ (t \in Dicts \/ o.kind = "rootfile")
         /\ \/ ChildrenOf(d) \subseteq ChildrenOf(t)
            \/ /\ o.kind \in {"upload", "mkdir"}
               /\ ChildrenOf(d) \subseteq ChildrenOf(t) \union {o.child}
            \/ o.kind = "rootfile" /\ ChildrenOf(d) = {}
<1>1. CASE o.kind \in {"upload", "mkdir"}
  <2>1. t \in Dicts /\ d = With(t, o.name, o.child) /\ o.name \in Names /\ o.child \in Entries
    BY <1>1, OpParts DEF Makes
  <2> QED
    BY <1>1, <2>1, WithIsDict, WithChildren, EntriesAreNodes
<1>2. CASE o.kind = "rm"
  BY <1>2, WithoutIsDict, WithoutChildren, EntriesAreNodes DEF Makes
<1>3. CASE o.kind \in {"mv", "cp"}
  <2>1. /\ t \in Dicts /\ o.name \in DOMAIN t /\ o.to \in Names
        /\ d = With(t, o.to, t[o.name]) \/ d = With(Without(t, o.name), o.to, t[o.name])
    BY <1>3, OpParts DEF Makes
  <2>2. t[o.name] \in Entries /\ t[o.name] \in ChildrenOf(t)
    BY <2>1, DictParts DEF ChildrenOf
  <2>3. \A c \in Dicts : ChildrenOf(c) \subseteq ChildrenOf(t) =>
          /\ With(c, o.to, t[o.name]) \in Nodes
          /\ ChildrenOf(With(c, o.to, t[o.name])) \subseteq ChildrenOf(t)
    BY <2>1, <2>2, WithIsDict, WithChildren, EntriesAreNodes
  <2> QED
    BY <2>1, <2>3, WithoutIsDict, WithoutChildren
<1>4. CASE o.kind = "rootfile"
  BY <1>4, OpParts, EntriesAreNodes DEF Makes, ChildrenOf
<1> QED
  BY <1>1, <1>2, <1>3, <1>4 DEF Makes

LEMMA NextIsCovered ==
  ASSUME TypeInv, PromiseInv, RootsInv, NEW q \in InFlight, Setting(req[q])
  PROVE  Covered(req[q].op.rec,
                 Tree(Built(req[q])) \ (revived \union Revives(q, Built(req[q]))))
<1> DEFINE o == req[q].op
           t == root[o.rec]
           d == Built(req[q])
           spared == revived \union Revives(q, d)
<1>0. /\ o \in AllOps /\ o.rec \in Records /\ OnItsWay(req[q]) /\ req[q] \in RequestType
      /\ req[q].pc = "set" => Makes(o, t, Other(o), d)
      /\ req[q].pc = "setEmpty" => d = Empty /\ t = NoNode
      /\ o.kind \notin {"create", "close"} \/ (o.kind = "create" /\ req[q].pc = "set")
  BY PartsInFlight DEF Right, Setting, Built, OnItsWay, Makes
<1>a. RootsCovered /\ CutsAreEarly /\ InTable /\ PutAnew(req[q])
  BY DEF RootsInv, AllPutAnew
<1>b. d \in Nodes
  BY <1>0, EmptyIsDict DEF OnItsWay, Setting, Built
<1>1. CASE o.kind = "transfer"
  <2>1. \A g \in Collectors : ~Active(g)
    BY <1>1, <1>a DEF CutsAreEarly, HandsOver
  <2> QED
    BY <1>1, <1>a, <2>1 DEF PutAnew, Covered
<1>2. CASE o.kind = "create"
  <2> DEFINE k == root[o.src]
  <2>1. k \in Dicts /\ o.name \in DOMAIN k /\ d = k[o.name] /\ o.src \in Records /\ o.rec \in Branches
    BY <1>0, <1>2, OpParts DEF Makes, Other, Copies
  <2>2. d \in Entries /\ d \in ChildrenOf(k)
    BY <2>1, DictParts DEF ChildrenOf
  <2>3. Covered(o.src, Kept(o.src))
    <3>1. Present(o.src) /\ k # NoNode
      BY <1>2, <1>a, <2>1, EntriesAreNodes DEF InTable, Needs
    <3> QED
      BY <1>a, <2>1, <3>1 DEF RootsCovered, Live
  <2>4. Covered(o.src, Tree(d) \ spared)
    <3>1. Tree(d) \ spared \subseteq Kept(o.src)
      BY <2>2, LeafTree DEF Kept, Tree
    <3> QED
      BY <2>3, <3>1, PartIsCovered
  <2>5. ASSUME NEW g \in Collectors, Active(g), o.rec \notin Unread(gc[g])
        PROVE  o.src \notin Unread(gc[g])
    <3>1. o.src \notin Branches
      BY <1>2, <1>a, <2>5 DEF CutsAreEarly, HandsOver
    <3>2. gc[g].pc \notin {"realm", "list"}
      BY <1>0, <2>1, <2>5 DEF Unread
    <3>3. Unread(gc[g]) \subseteq Branches
      BY <3>2 DEF Unread, TypeInv, TypeOK, GcType
    <3> QED
      BY <3>1, <3>3
  <2> QED
    BY <2>4, <2>5 DEF Covered
<1>3. CASE o.kind \notin {"transfer", "create"}
  <2>0. Present(o.rec) /\ req[q].source = NoNode
    BY <1>0, <1>3, <1>a DEF InTable, Needs, OnItsWay
  <2>1. ASSUME NEW k \in Tree(d) \ spared, Fresh(k, req[q].began)
        PROVE  Covered(o.rec, {k})
    BY <1>b, <2>0, <2>1, LinkedIsCovered
  <2>2. Fresh(d, req[q].began)
    BY <1>3, <1>a DEF PutAnew
  <2>3. ASSUME NEW k \in ChildrenOf(d) \ spared
        PROVE  Covered(o.rec, {k})
    <3>1. req[q].pc = "set"
      BY <1>0, <2>3, EmptyHasNone DEF Setting
    <3>2. k \in ChildrenOf(t) \/ (o.kind \in {"upload", "mkdir"} /\ k = o.child)
      BY <1>0, <1>3, <2>3, <3>1, NextTree
    <3>3. CASE k \in ChildrenOf(t)
      <4>1. Covered(o.rec, Kept(o.rec) \ {NoNode})
        BY <1>0, <1>a, <2>0, OldIsCovered
      <4>2. k # NoNode
        BY <1>b, <2>3, TreesAreNodes DEF Tree
      <4> QED
        BY <2>3, <3>3, <4>1, <4>2, PartIsCovered DEF Kept, Tree
    <3>4. CASE o.kind \in {"upload", "mkdir"} /\ k = o.child
      <4>1. Fresh(k, req[q].began)
        BY <1>a, <3>1, <3>4 DEF PutAnew
      <4> QED
        BY <2>1, <2>3, <4>1 DEF Tree
    <3> QED
      BY <3>2, <3>3, <3>4
  <2>4. ASSUME NEW k \in Tree(d) \ spared
        PROVE  Covered(o.rec, {k})
    BY <2>1, <2>2, <2>3, <2>4 DEF Tree
  <2> QED
    BY <2>4, EachIsCovered
<1> QED
  BY <1>1, <1>2, <1>3

-----------------------------------------------------------------------------
(* What the step of a request does to roots, to branches and to the requests *)

LEMMA StepLeavesGc ==
  ASSUME NEW q \in Requests, Step(q) \/ Fail(q)
  PROVE  UNCHANGED <<gc, clock>>
BY DEF Step, Fail, At, Enter, CheckBranch, InitRealm, ReadSource, ReadRoot, EnsureEmptyRoot,
       SetEmptyRoot, PutChild, Find, ReadToRemove, Unlink, EnsureDict, ReadToAdd, Link,
       InsertBranch, SetBranchRoot, RemoveBranch, RemoveRoot, bounds

LEMMA RunnerInFlight ==
  ASSUME TypeInv, NEW q \in Requests, Step(q) \/ Fail(q)
  PROVE  q \in InFlight
BY StepIsOfOneKind DEF Enter, Fail, InFlight

LEMMA RootAfter ==
  ASSUME TypeInv, NEW q \in Requests, Step(q) \/ Fail(q), NEW r \in Records,
         root'[r] \notin {root[r], NoNode}
  PROVE  /\ r = req[q].op.rec /\ Setting(req[q]) /\ SetRoot(q, Built(req[q]))
         /\ root'[r] = Built(req[q]) /\ UNCHANGED casVars
<1>0. root \in [Records -> Nodes \union {NoNode}]
  BY DEF TypeInv, TypeOK
<1>1. CASE RemoveRoot(q)
  BY <1>0, <1>1 DEF RemoveRoot
<1>2. CASE SetEmptyRoot(q) \/ SetBranchRoot(q)
  <2>1. Setting(req[q]) /\ SetRoot(q, Built(req[q])) /\ UNCHANGED casVars
    BY <1>2 DEF SetEmptyRoot, SetBranchRoot, At, Setting, Built
  <2> QED
    BY <1>0, <2>1 DEF SetRoot
<1> QED
  BY <1>1, <1>2
  DEF Step, Fail, Enter, CheckBranch, InitRealm, ReadSource, ReadRoot, EnsureEmptyRoot, PutChild,
      Find, ReadToRemove, Unlink, EnsureDict, ReadToAdd, Link, InsertBranch, RemoveBranch, treeVars

(* The table changes when a branch is inserted or removed. *)
LEMMA OwnerAfter ==
  ASSUME TypeInv, NEW q \in Requests, Step(q) \/ Fail(q)
  PROVE  \/ UNCHANGED owner
         \/ /\ req[q].pc = "insert" /\ UNCHANGED root
            /\ \A b \in Branches : b # req[q].op.rec => owner'[b] = owner[b]
         \/ /\ req[q].pc = "unlist" /\ UNCHANGED root
            /\ \A b \in Branches : b # req[q].op.rec => owner'[b] = owner[b]
            /\ req[q].op.rec \in Branches => owner'[req[q].op.rec] = NoRealm
<1>0. owner \in [Branches -> Realms \union {NoRealm}]
  BY DEF TypeInv, TypeOK
<1>1. CASE InsertBranch(q)
  BY <1>0, <1>1 DEF InsertBranch, At
<1>2. CASE RemoveBranch(q)
  BY <1>0, <1>2 DEF RemoveBranch, At
<1> QED
  BY <1>1, <1>2
  DEF Step, Fail, Enter, CheckBranch, InitRealm, ReadSource, ReadRoot, EnsureEmptyRoot, PutChild,
      Find, ReadToRemove, Unlink, EnsureDict, ReadToAdd, Link, SetEmptyRoot, SetBranchRoot,
      RemoveRoot, treeVars

(* The nodes linked again are kept in mind, each dict with its children. *)
LEMMA RevivedAfter ==
  ASSUME TypeInv, RevivedWhole, NEW q \in Requests, Step(q) \/ Fail(q)
  PROVE  revived \subseteq revived' /\ RevivedWhole'
<1>1. CASE UNCHANGED revived
  BY <1>1 DEF RevivedWhole
<1>2. ASSUME NEW k \in Nodes, SetRoot(q, k)
      PROVE  revived \subseteq revived' /\ RevivedWhole'
  <2> DEFINE new == Revives(q, k)
  <2>1. revived' = revived \union new
    BY <1>2 DEF SetRoot
  <2>2. \A x \in ChildrenOf(k) : ChildrenOf(x) = {}
    BY DictParts, LeafTree, EntriesAreNodes, EntryHasNone DEF ChildrenOf
  <2>3. k \in new => new = Tree(k)
    BY DEF Revives
  <2>4. new \subseteq Tree(k)
    BY DEF Revives
  <2> HIDE DEF new
  <2>5. \A x \in new : ChildrenOf(x) \subseteq new
    BY <2>2, <2>3, <2>4 DEF Tree
  <2> QED
    BY <2>1, <2>5 DEF RevivedWhole
<1>3. CASE SetEmptyRoot(q) \/ SetBranchRoot(q)
  <2>1. SetRoot(q, Empty) \/ (req[q].pc = "set" /\ SetRoot(q, req[q].snap))
    BY <1>3 DEF SetEmptyRoot, SetBranchRoot, At
  <2>2. req[q].pc = "set" => req[q].snap \in Nodes
    BY DEF TypeInv, AllOnTheirWay, OnItsWay
  <2> QED
    BY <1>2, <2>1, <2>2, EmptyIsDict
<1> QED
  BY <1>1, <1>3
  DEF Step, Fail, Enter, CheckBranch, InitRealm, ReadSource, ReadRoot, EnsureEmptyRoot, PutChild,
      Find, ReadToRemove, Unlink, EnsureDict, ReadToAdd, Link, InsertBranch, RemoveBranch,
      RemoveRoot, treeVars

LEMMA LiveBefore ==
  ASSUME TypeInv, PromiseInv, NEW q \in Requests, Step(q) \/ Fail(q),
         NEW r \in Records, Live(r)', root'[r] = root[r]
  PROVE  Live(r)
<1>1. root[r] # NoNode
  BY DEF Live
<1>2. q \in InFlight
  BY RunnerInFlight
<1>3. CASE UNCHANGED owner
  BY <1>1, <1>3 DEF Live, Present, RealmOf
<1>4. CASE /\ req[q].pc = "insert" \/ req[q].pc = "unlist"
           /\ \A b \in Branches : b # req[q].op.rec => owner'[b] = owner[b]
           /\ r # req[q].op.rec
  BY <1>1, <1>4 DEF Live, Present, RealmOf, Records
<1>5. CASE req[q].pc = "insert" /\ r = req[q].op.rec
  <2>1. root[r] = NoNode
    BY <1>2, <1>5, PartsInFlight DEF OnItsWay, Right
  <2> QED
    BY <1>1, <2>1
<1>6. CASE req[q].pc = "unlist" /\ r = req[q].op.rec /\ owner'[r] = NoRealm
  <2>1. r \in Branches
    BY <1>2, <1>6, PartsInFlight, OpParts DEF OnItsWay
  <2> QED
    BY <1>6, <2>1 DEF Live, Present, RealmOf
<1>7. CASE req[q].pc = "unlist" /\ r = req[q].op.rec
  <2>1. r \in Branches
    BY <1>2, <1>7, PartsInFlight, OpParts DEF OnItsWay
  <2> QED
    BY <1>3, <1>6, <1>7, <2>1, OwnerAfter
<1> QED
  BY <1>3, <1>4, <1>5, <1>7, OwnerAfter

LEMMA SameRun ==
  ASSUME TypeInv, NEW q \in Requests, Step(q) \/ Fail(q)
  PROVE  req'[q].pc # "idle" => req'[q].began = req[q].began
<1>0. req \in [Requests -> RequestType] /\ Idle.pc = "idle"
  BY DEF TypeInv, TypeOK, Idle
<1>1. CASE Answer(q)
  BY <1>0, <1>1 DEF Answer
<1>2. CASE Throw(q)
  <2>1. CASE req[q].op.kind = "upload"
    <3>1. req'[q] = Idle \/ req'[q] = req[q]
      BY <1>2, <2>1 DEF Throw
    <3> QED
      BY <1>0, <3>1
  <2> QED
    BY <1>1, <1>2, <2>1 DEF Throw
<1>3. ASSUME NEW s, NEW k, Goto(q, s) \/ GotoWith(q, s, k)
      PROVE  req'[q].began = req[q].began
  BY <1>0, <1>3 DEF Goto, GotoWith, RequestType
<1>4. CASE Enter(q) \/ ReadSource(q) \/ Find(q)
  BY <1>0, <1>1, <1>4 DEF Enter, ReadSource, Find, RequestType
<1>5. CASE CheckBranch(q) \/ InitRealm(q) \/ ReadRoot(q) \/ EnsureEmptyRoot(q) \/ SetEmptyRoot(q)
  BY <1>1, <1>3, <1>5 DEF CheckBranch, InitRealm, ReadRoot, EnsureEmptyRoot, SetEmptyRoot
<1>6. CASE PutChild(q) \/ ReadToRemove(q) \/ Unlink(q) \/ EnsureDict(q) \/ ReadToAdd(q) \/ Link(q)
  BY <1>1, <1>2, <1>3, <1>6 DEF PutChild, ReadToRemove, Unlink, EnsureDict, ReadToAdd, Link, RefuseDict
<1>7. CASE InsertBranch(q) \/ SetBranchRoot(q) \/ RemoveBranch(q) \/ RemoveRoot(q)
  BY <1>1, <1>3, <1>7 DEF InsertBranch, SetBranchRoot, RemoveBranch, RemoveRoot
<1> QED
  BY <1>2, <1>4, <1>5, <1>6, <1>7 DEF Step, Fail

LEMMA InFlightBefore ==
  ASSUME TypeInv, NEW q \in Requests, Step(q) \/ Fail(q), NEW x \in InFlight'
  PROVE  /\ x \in InFlight /\ x \in Requests
         /\ req'[x].op = req[x].op /\ req'[x].began = req[x].began
         /\ x # q => req'[x] = req[x]
<1>1. OnlyOwn(q) /\ x \in Requests /\ req'[x].pc # "idle" /\ Idle.pc = "idle"
  BY StepIsOwn DEF InFlight, Idle
<1>2. x \in InFlight /\ req'[x].op = req[x].op /\ (x # q => req'[x] = req[x])
  BY <1>1 DEF OnlyOwn
<1> QED
  BY <1>1, <1>2, SameRun

-----------------------------------------------------------------------------
(* The step of a request keeps the invariant. *)

LEMMA StepKeepsCovered ==
  ASSUME TypeInv, PromiseInv, RootsInv, NEW q \in Requests, Step(q) \/ Fail(q)
  PROVE  RootsCovered'
<1> SUFFICES ASSUME NEW r \in Records, Live(r)'
             PROVE  Covered(r, Kept(r))'
  BY DEF RootsCovered
<1>0. /\ RootsCovered /\ CutsAreEarly /\ Grows /\ UNCHANGED gc /\ q \in InFlight
      /\ revived \subseteq revived'
  BY StepGrows, StepLeavesGc, RunnerInFlight, RevivedAfter DEF RootsInv
<1>a. \A T \in SUBSET Nodes : Covered(r, T) => Covered(r, T)'
  BY <1>0, CoveredStays
<1>b. ASSUME NEW T \in SUBSET Nodes, Covered(r, T), Kept(r)' \subseteq T
      PROVE  Covered(r, Kept(r))'
  <2>1. \A U \in SUBSET Nodes : U = Kept(r)' => Covered(r, U)'
    BY <1>a, <1>b, PartIsCovered
  <2> QED
    BY <1>b, <2>1 DEF Covered
<1>1. CASE root'[r] = root[r]
  <2>1. Live(r)
    BY <1>1, LiveBefore
  <2>2. Covered(r, Kept(r)) /\ root[r] \in Nodes
    BY <1>0, <2>1 DEF RootsCovered, Live, TypeInv, TypeOK
  <2>3. Kept(r) \in SUBSET Nodes
    BY <2>2, TreesAreNodes DEF Kept
  <2>4. Kept(r)' \subseteq Kept(r)
    BY <1>0, <1>1 DEF Kept
  <2> QED
    BY <1>b, <2>2, <2>3, <2>4
<1>2. CASE root'[r] # root[r]
  <2> DEFINE d == Built(req[q])
             T == Tree(d) \ (revived \union Revives(q, d))
  <2>1. /\ r = req[q].op.rec /\ Setting(req[q]) /\ root'[r] = d
        /\ revived' = revived \union Revives(q, d)
    BY <1>2, RootAfter DEF Live, SetRoot
  <2>2. Covered(r, T)
    BY <1>0, <2>1, NextIsCovered
  <2>3. d \in Nodes
    BY <2>1, EmptyIsDict DEF Setting, Built, TypeInv, AllOnTheirWay, OnItsWay
  <2>4. T \in SUBSET Nodes
    BY <2>3, TreesAreNodes
  <2>5. Kept(r)' = T
    BY <2>1 DEF Kept
  <2> HIDE DEF T
  <2> QED
    BY <1>b, <2>2, <2>4, <2>5
<1> QED
  BY <1>1, <1>2

LEMMA StepKeepsCuts ==
  ASSUME TypeInv, CutsAreEarly, NEW q \in Requests, Step(q) \/ Fail(q)
  PROVE  CutsAreEarly'
<1>1. UNCHANGED <<gc, clock>>
  BY StepLeavesGc
<1>2. \A x \in InFlight' : x \in InFlight /\ req'[x].op = req[x].op /\ req'[x].began = req[x].began
  BY InFlightBefore
<1> QED
  BY <1>1, <1>2 DEF CutsAreEarly, Active, HandsOver

LEMMA StepKeepsTable ==
  ASSUME TypeInv, PromiseInv, InTable, NEW q \in Requests, Step(q) \/ Fail(q)
  PROVE  InTable'
<1>0. q \in InFlight
  BY RunnerInFlight
<1>1. ASSUME NEW x \in InFlight', NEW r \in Needs(req'[x].op)
      PROVE  Present(r)'
  <2>1. x \in InFlight /\ req'[x].op = req[x].op
    BY InFlightBefore
  <2>2. /\ req[x].op.kind # "close" /\ Present(r)
        /\ r \in Uses(req[x].op) /\ r \in Records
    BY <2>1, PartsInFlight, UsesRecords DEF Needs, InTable, Copies
  <2>3. CASE UNCHANGED owner
    BY <2>2, <2>3 DEF Present, RealmOf
  <2>4. CASE /\ r # req[q].op.rec
             /\ \A b \in Branches : b # req[q].op.rec => owner'[b] = owner[b]
    BY <2>2, <2>4 DEF Present, RealmOf, Records
  <2>5. CASE r = req[q].op.rec /\ req[q].pc = "unlist"
    <3>1. req[q].op.kind = "close" /\ req[q].op.rec \in Uses(req[q].op)
      BY <1>0, <2>5, PartsInFlight, UsesRecords DEF OnItsWay
    <3> QED
      BY <1>0, <2>1, <2>2, <2>5, <3>1 DEF PromiseInv, Apart
  <2>6. CASE r = req[q].op.rec /\ req[q].pc = "insert"
    <3>1. /\ req[q].op.kind = "create" /\ req[q].op.rec \in Uses(req[q].op)
          /\ req[q].op \in AllOps
      BY <1>0, <2>6, PartsInFlight, UsesRecords DEF OnItsWay
    <3>2. x = q
      BY <1>0, <2>1, <2>2, <2>6, <3>1 DEF PromiseInv, Apart
    <3>3. InsertBranch(q) \/ Fail(q)
      BY <2>6 DEF Step, At, Enter, CheckBranch, InitRealm, ReadSource, ReadRoot, EnsureEmptyRoot,
         SetEmptyRoot, PutChild, Find, ReadToRemove, Unlink, EnsureDict, ReadToAdd, Link,
         SetBranchRoot, RemoveBranch, RemoveRoot
    <3>4. CASE InsertBranch(q)
      <4>1. owner' = [owner EXCEPT ![r] = req[q].op.realm] /\ req[q].op.realm \in Realms
        BY <2>6, <3>1, <3>4, OpParts DEF InsertBranch
      <4> QED
        BY <2>2, <4>1 DEF Present, RealmOf, Records, TypeInv, TypeOK
    <3> QED
      BY <2>3, <3>3, <3>4 DEF Fail, treeVars
  <2> QED
    BY <2>3, <2>4, <2>5, <2>6, OwnerAfter
<1> QED
  BY <1>1 DEF InTable, Needs

(* What was put anew stays so, whatever other requests put. *)
LEMMA AnewStays ==
  ASSUME TypeInv, NEW x \in InFlight, PutAnew(req[x]), Grows, req'[x] = req[x]
  PROVE  PutAnew(req[x])'
<1>0. OnItsWay(req[x]) /\ req[x].op \in AllOps /\ req[x].began \in Nat
  BY DEF TypeInv, TypeOK, RequestType, InFlight, AllOnTheirWay, OnItsWay
<1>1. ASSUME NEW k \in Nodes, Fresh(k, req[x].began)
      PROVE  Fresh(k, req[x].began)'
  <2>1. \A t \in Nat : Fresh(k, t) => Fresh(k, t)'
    BY DEF Grows
  <2>2. \A t : t = req[x].began => Fresh(k, t)'
    BY <1>0, <1>1, <2>1
  <2> QED
    BY <2>2 DEF Fresh
<1>2. store \subseteq store'
  BY DEF Grows
<1>3. Setting(req[x]) => Built(req[x]) \in Nodes
  BY <1>0, EmptyIsDict DEF Setting, Built, OnItsWay
<1>4. req[x].op.kind \in {"upload", "mkdir"} => req[x].op.child \in Nodes
  BY <1>0, OpParts, EntriesAreNodes
<1> QED
  BY <1>1, <1>2, <1>3, <1>4 DEF PutAnew, Fresh, Setting, Built

FreshAfter(k, t) == first'[k] >= t => k \in store'

LEMMA PutIsFresh ==
  ASSUME NEW k, Put(k), NEW t
  PROVE  FreshAfter(k, t)
BY DEF Put, FreshAfter

LEMMA OwnStaysAnew ==
  ASSUME TypeInv, PromiseInv, RootsInv, NEW q \in InFlight, Step(q), req'[q].pc # "idle"
  PROVE  PutAnew(req[q])'
<1> DEFINE o == req[q].op
           anew == {"dict", "add", "link", "set"}
<1>0. /\ q \in Requests /\ OnItsWay(req[q]) /\ o \in AllOps
      /\ Right(req[q], root[o.rec], Other(o)) /\ PutAnew(req[q]) /\ Grows
      /\ req[q].began \in Nat /\ req \in [Requests -> RequestType]
  BY PartsInFlight, StepGrows DEF RootsInv, AllPutAnew, RequestType, TypeInv, TypeOK
<1>a. req'[q].op = o /\ req'[q].began = req[q].began
  BY <1>0, InFlightBefore DEF InFlight
<1>b. ASSUME Answer(q) \/ (Throw(q) /\ (o.kind # "upload"))
      PROVE  FALSE
  <2>1. req'[q] = Idle
    BY <1>0, <1>b DEF Answer, Throw
  <2> QED
    BY <2>1 DEF Idle
<1>1. CASE req'[q].pc \notin anew \union {"setEmpty"}
  BY <1>1 DEF PutAnew, Setting
<1>2. ASSUME req'[q].pc \in anew \ {"set"}, o.kind \notin {"upload", "mkdir"}
      PROVE  PutAnew(req[q])'
  BY <1>a, <1>2 DEF PutAnew, Setting
<1>3. ASSUME NEW k \in Nodes, Fresh(k, req[q].began)
      PROVE  FreshAfter(k, req[q].began)
  <2>1. \A t \in Nat : Fresh(k, t) => Fresh(k, t)'
    BY <1>0 DEF Grows
  <2>2. \A t \in Nat : Fresh(k, t) => FreshAfter(k, t)
    BY <2>1 DEF Fresh, FreshAfter
  <2> QED
    BY <1>0, <1>3, <2>2
<1>4. ASSUME NEW k \in Nodes, Put(k)
      PROVE  FreshAfter(k, req[q].began)
  BY <1>4, PutIsFresh
<1>c. ASSUME req'[q].pc # "setEmpty",
             o.kind \in {"upload", "mkdir"} => FreshAfter(o.child, req[q].began),
             req'[q].pc = "set" => FreshAfter(req'[q].snap, req[q].began),
             req'[q].pc = "set" /\ o.kind = "transfer" => Tree(req'[q].snap) \subseteq store'
      PROVE  PutAnew(req[q])'
  BY <1>a, <1>c DEF PutAnew, Fresh, FreshAfter, Setting, Built
<1>5. o.kind \in {"upload", "mkdir", "rootfile"} => o.child \in Nodes
  BY <1>0, OpParts, EntriesAreNodes
<1>6. CASE PutChild(q)
  <2>1. req[q].pc = "put" /\ Put(req[q].child) /\ o.kind \in {"upload", "mkdir", "rootfile"}
    BY <1>0, <1>6 DEF PutChild, At, OnItsWay
  <2>2. req[q].child = o.child /\ FreshAfter(o.child, req[q].began)
    BY <1>0, <1>4, <1>5, <2>1 DEF Right
  <2>3. CASE o.kind = "rootfile"
    <3>1. req'[q].pc = "set" /\ req'[q].snap = o.child
      BY <1>0, <1>6, <2>2, <2>3 DEF PutChild, GotoWith, RequestType
    <3> QED
      BY <1>c, <2>2, <2>3, <3>1
  <2>4. CASE o.kind # "rootfile"
    <3>1. req'[q].pc = "dict"
      BY <1>0, <1>6, <2>4 DEF PutChild, Goto, RequestType
    <3> QED
      BY <1>c, <2>1, <2>2, <2>4, <3>1
  <2> QED
    BY <2>3, <2>4
<1>7. CASE EnsureDict(q) \/ ReadToAdd(q)
  <2>1. /\ req[q].pc \in {"dict", "add"}
        /\ o.kind \in {"upload", "mkdir"} => Fresh(o.child, req[q].began)
    BY <1>0, <1>7 DEF EnsureDict, ReadToAdd, At, PutAnew
  <2>2. req'[q].pc \in {"add", "link"} \/ Throw(q)
    BY <1>0, <1>7 DEF EnsureDict, ReadToAdd, Goto, RequestType
  <2>3. o.kind \in {"upload", "mkdir"} => FreshAfter(o.child, req[q].began)
    BY <1>3, <1>5, <2>1
  <2>4. req'[q].pc \in {"add", "link"} \/ req'[q].pc = req[q].pc
    <3>1. Throw(q) /\ o.kind = "upload" => req'[q] \in {Idle, req[q]}
      BY <1>0 DEF Throw
    <3> QED
      BY <1>b, <2>2, <3>1 DEF Idle
  <2> QED
    BY <1>c, <2>1, <2>3, <2>4
<1>8. CASE Unlink(q)
  <2> DEFINE d == Without(req[q].snap, o.name)
  <2>1. req[q].pc = "unlink" /\ o.kind \in {"rm", "mv"} /\ req[q].snap \in Dicts
    BY <1>0, <1>8 DEF Unlink, At, OnItsWay
  <2>2. PutDict(q, d) /\ GotoWith(q, IF o.kind = "rm" THEN "set" ELSE "dict", d)
    BY <1>8, <1>b, <2>1 DEF Unlink, RefuseDict
  <2>3. d \in Nodes /\ Put(d)
    BY <2>1, <2>2, WithoutIsDict, EntriesAreNodes DEF PutDict
  <2>4. /\ req'[q].snap = d /\ req'[q].pc \in {"set", "dict"}
        /\ o.kind = "mv" => req'[q].pc = "dict"
    BY <1>0, <2>2 DEF GotoWith, RequestType
  <2> HIDE DEF d
  <2>5. FreshAfter(d, req[q].began)
    BY <1>4, <2>3
  <2> QED
    BY <1>c, <2>1, <2>4, <2>5
<1>9. CASE Link(q)
  <2> DEFINE n == IF o.kind \in {"upload", "mkdir"} THEN o.name ELSE o.to
             d == With(req[q].snap, n, req[q].child)
  <2>1. /\ req[q].pc = "link" /\ req[q].snap \in Dicts /\ req[q].child \in Entries
        /\ o.kind \in {"upload", "mkdir", "mv", "cp", "transfer"}
    BY <1>0, <1>9 DEF Link, At, OnItsWay
  <2>2. n \in Names
    BY <1>0, <2>1, OpParts
  <2>3. \/ PutDict(q, d) /\ GotoWith(q, "set", d)
        \/ Throw(q)
    BY <1>9, <1>b DEF Link, RefuseDict
  <2> HIDE DEF n
  <2>4. d \in Nodes
    BY <2>1, <2>2, WithIsDict, EntriesAreNodes
  <2>5. o.kind \in {"upload", "mkdir"} => FreshAfter(o.child, req[q].began)
    BY <1>0, <1>3, <1>5, <2>1 DEF PutAnew
  <2>6. CASE PutDict(q, d) /\ GotoWith(q, "set", d)
    <3> HIDE DEF d
    <3>1. req'[q].snap = d /\ req'[q].pc = "set"
      BY <1>0, <2>6 DEF GotoWith, RequestType
    <3>2. FreshAfter(d, req[q].began)
      BY <1>4, <2>4, <2>6 DEF PutDict
    <3>3. Tree(d) \subseteq store'
      BY <2>6 DEF PutDict, Put, Tree
    <3> QED
      BY <1>c, <2>1, <2>5, <3>1, <3>2, <3>3
  <2>7. CASE Throw(q)
    <3>1. o.kind = "upload" /\ req'[q] = req[q]
      <4>1. Throw(q) /\ o.kind = "upload" => req'[q] \in {Idle, req[q]}
        BY <1>0 DEF Throw
      <4> QED
        BY <1>b, <2>7, <4>1 DEF Idle
    <3> QED
      BY <1>c, <2>1, <2>5, <3>1
  <2> QED
    BY <2>3, <2>6, <2>7
<1>10. CASE InsertBranch(q)
  <2>1. o.kind = "create"
    BY <1>0, <1>10 DEF InsertBranch, At, OnItsWay
  <2> QED
    BY <1>a, <2>1 DEF PutAnew, Setting
<1>11. CASE Find(q)
  <2>1. o.kind \in {"mv", "cp", "transfer", "create"}
    BY <1>0, <1>11 DEF Find, At, OnItsWay
  <2>2. req'[q].pc \notin {"set", "setEmpty"}
    BY <1>0, <1>b, <1>11 DEF Find, RequestType
  <2> QED
    BY <1>1, <1>2, <2>1, <2>2
<1>12. CASE SetBranchRoot(q) \/ RemoveRoot(q)
  BY <1>b, <1>12 DEF SetBranchRoot, RemoveRoot
<1>13. CASE Enter(q)
  <2>1. req[q].pc = "queued" /\ req'[q].pc = Opening(o) /\ o.kind = "upload"
    BY <1>0, <1>13 DEF Enter, RequestType, OnItsWay
  <2>2. req'[q].pc \notin anew \union {"setEmpty"}
    BY <2>1 DEF Opening
  <2> QED
    BY <1>1, <2>2
<1>14. CASE CheckBranch(q) \/ InitRealm(q) \/ ReadSource(q) \/ RemoveBranch(q)
  <2>1. req'[q].pc \notin anew \union {"setEmpty"}
    BY <1>0, <1>b, <1>14
    DEF CheckBranch, InitRealm, ReadSource, RemoveBranch, Goto, RequestType
  <2> QED
    BY <1>1, <2>1
<1>15. CASE ReadRoot(q) \/ SetEmptyRoot(q)
  <2>1. req'[q].pc \in {"hasEmpty", "put", "remove", "find"}
    BY <1>0, <1>15 DEF ReadRoot, SetEmptyRoot, GotoWith, AfterRoot, RequestType
  <2> QED
    BY <1>1, <2>1
<1>16. CASE ReadToRemove(q)
  <2>1. req'[q].pc = "unlink"
    BY <1>0, <1>b, <1>16 DEF ReadToRemove, Goto, RequestType
  <2> QED
    BY <1>1, <2>1
<1>17. CASE EnsureEmptyRoot(q)
  <2>1. PutIfMissing(Empty) /\ req'[q].pc = "setEmpty"
    BY <1>0, <1>17 DEF EnsureEmptyRoot, Goto, RequestType
  <2>2. Empty \in store'
    BY <2>1 DEF PutIfMissing, Put, casVars
  <2> QED
    BY <1>a, <2>1, <2>2, EmptyHasNone DEF PutAnew, Fresh, Setting, Built, Tree
<1> QED
  BY <1>6, <1>7, <1>8, <1>9, <1>10, <1>11, <1>12, <1>13, <1>14, <1>15, <1>16, <1>17 DEF Step

LEMMA StepKeepsAnew ==
  ASSUME TypeInv, MutexInv, PromiseInv, RootsInv, NEW q \in Requests, Step(q) \/ Fail(q)
  PROVE  AllPutAnew'
<1> SUFFICES ASSUME NEW x \in InFlight'
             PROVE  PutAnew(req[x])'
  BY DEF AllPutAnew
<1>0. x \in InFlight /\ q \in InFlight /\ req'[x].pc # "idle"
  BY InFlightBefore, RunnerInFlight DEF InFlight
<1>1. CASE x # q
  <2>1. req'[x] = req[x]
    BY <1>1, InFlightBefore
  <2> QED
    BY <1>0, <2>1, StepGrows, AnewStays DEF RootsInv, AllPutAnew
<1>2. CASE x = q /\ Step(q)
  BY <1>0, <1>2, OwnStaysAnew
<1>3. CASE x = q /\ Fail(q)
  <2>1. Throw(q) /\ req[q].pc # "queued"
    BY <1>3 DEF Fail
  <2> QED
    BY <1>0, <1>3, <2>1, EndsIdle DEF Running, Idle
<1> QED
  BY <1>1, <1>2, <1>3

(* A transfer looks for its target in the root it changes, which is in storage  *)
(* unless it was linked again.                                                  *)
LEMMA FindLooksWell ==
  ASSUME TypeInv, PromiseInv, RootsInv, NEW q \in InFlight, Find(q),
         req[q].op.kind = "transfer", req[q].op.mode = "fail_if_exists", req'[q].pc # "idle",
         root[req[q].op.rec] \in Dicts
  PROVE  req[q].op.to \notin DOMAIN root[req[q].op.rec] \/ root[req[q].op.rec] \in revived
<1> DEFINE o == req[q].op
           t == root[o.rec]
<1>0. /\ q \in Requests /\ o.rec \in Records /\ req \in [Requests -> RequestType]
      /\ Right(req[q], t, Other(o)) /\ Present(o.rec)
  BY PartsInFlight DEF TypeInv, TypeOK, RootsInv, InTable, Needs
<1>1. ~Answer(q)
  BY <1>0 DEF Answer, Idle
<1>2. ~Exists(q)
  BY <1>1 DEF Find
<1>3. req[q].snap = t
  BY <1>0 DEF Find, At, Right
<1>4. t \in store \/ t \in revived
  <2>1. Live(o.rec)
    BY <1>0, EntriesAreNodes DEF Live
  <2>2. Covered(o.rec, Kept(o.rec))
    BY <1>0, <2>1 DEF RootsInv, RootsCovered
  <2> QED
    BY <2>2 DEF Covered, Kept, Tree
<1> QED
  BY <1>2, <1>3, <1>4 DEF Exists, Resolves

LEMMA OwnTargetStaysFree ==
  ASSUME TypeInv, MutexInv, PromiseInv, RootsInv, NEW q \in InFlight, Step(q),
         req'[q].pc # "idle"
  PROVE  TargetFree(req[q], root[req[q].op.rec])'
<1> DEFINE o == req[q].op
           t == root[o.rec]
<1>0. /\ q \in Requests /\ OnItsWay(req[q]) /\ o \in AllOps /\ req \in [Requests -> RequestType]
      /\ TargetFree(req[q], t) /\ revived \subseteq revived'
  BY PartsInFlight, RevivedAfter DEF RootsInv, TargetsFree, TypeInv, TypeOK
<1>a. req'[q].op = o
  BY <1>0, InFlightBefore DEF InFlight
<1>b. ~Answer(q) /\ (o.kind = "transfer" => ~Throw(q))
  BY <1>0 DEF Answer, Throw, Idle
<1> SUFFICES ASSUME o.kind = "transfer", o.mode = "fail_if_exists",
                    req'[q].pc \in {"dict", "add", "link", "set"}, root'[o.rec] \in Dicts
             PROVE  o.to \notin DOMAIN root'[o.rec] \/ root'[o.rec] \in revived'
  BY <1>a DEF TargetFree
<1>1. CASE Find(q)
  <2>1. root' = root
    BY <1>1 DEF Find, treeVars
  <2> QED
    BY <1>0, <1>1, <2>1, FindLooksWell
<1>2. CASE EnsureDict(q) \/ ReadToAdd(q) \/ Link(q)
  <2>1. root' = root /\ req[q].pc \in {"dict", "add", "link"}
    BY <1>2 DEF EnsureDict, ReadToAdd, Link, At, treeVars
  <2> QED
    BY <1>0, <2>1 DEF TargetFree
<1>3. CASE PutChild(q) \/ InsertBranch(q) \/ RemoveBranch(q) \/ RemoveRoot(q) \/ Unlink(q)
           \/ ReadToRemove(q) \/ Enter(q)
  BY <1>0, <1>3
  DEF OnItsWay, At, PutChild, InsertBranch, RemoveBranch, RemoveRoot, Unlink, ReadToRemove, Enter
<1>4. CASE SetBranchRoot(q)
  BY <1>b, <1>4 DEF SetBranchRoot
<1>5. CASE CheckBranch(q) \/ InitRealm(q) \/ ReadSource(q) \/ EnsureEmptyRoot(q)
  BY <1>0, <1>b, <1>5
  DEF CheckBranch, InitRealm, ReadSource, EnsureEmptyRoot, Goto, RequestType
<1>6. CASE ReadRoot(q) \/ SetEmptyRoot(q)
  BY <1>0, <1>6 DEF ReadRoot, SetEmptyRoot, GotoWith, AfterRoot, RequestType
<1> QED
  BY <1>1, <1>2, <1>3, <1>4, <1>5, <1>6 DEF Step

LEMMA StepKeepsTargets ==
  ASSUME TypeInv, MutexInv, PromiseInv, RootsInv, NEW q \in Requests, Step(q) \/ Fail(q)
  PROVE  TargetsFree'
<1> SUFFICES ASSUME NEW x \in InFlight'
             PROVE  TargetFree(req[x], root[req[x].op.rec])'
  BY DEF TargetsFree
<1>0. /\ x \in InFlight /\ q \in InFlight /\ req'[x].pc # "idle"
      /\ revived \subseteq revived'
  BY InFlightBefore, RunnerInFlight, RevivedAfter DEF InFlight, RootsInv
<1>1. CASE x # q
  <2>1. req'[x] = req[x] /\ TargetFree(req[x], root[req[x].op.rec])
    BY <1>0, <1>1, InFlightBefore DEF RootsInv, TargetsFree
  <2>2. CASE req[x].op.kind # "transfer"
    BY <2>1, <2>2 DEF TargetFree
  <2>3. CASE req[x].op.kind = "transfer"
    <3>1. req[x].op.rec # req[q].op.rec
      BY <1>0, <1>1, <2>3, PartsInFlight, UsesRecords DEF PromiseInv, Apart
    <3>2. root'[req[x].op.rec] = root[req[x].op.rec]
      BY <1>0, <3>1, PartsInFlight, RootIsOwn
    <3> QED
      BY <1>0, <2>1, <3>2 DEF TargetFree
  <2> QED
    BY <2>2, <2>3
<1>2. CASE x = q /\ Step(q)
  BY <1>0, <1>2, OwnTargetStaysFree
<1>3. CASE x = q /\ Fail(q)
  <2>1. Throw(q) /\ req[q].pc # "queued"
    BY <1>3 DEF Fail
  <2> QED
    BY <1>0, <1>3, <2>1, EndsIdle DEF Running, Idle
<1> QED
  BY <1>1, <1>2, <1>3

LEMMA StepKeepsRoots ==
  ASSUME TypeInv, MutexInv, PromiseInv, RootsInv, NEW q \in Requests, Step(q) \/ Fail(q)
  PROVE  RootsInv'
BY StepKeepsCovered, StepKeepsCuts, StepKeepsTable, StepKeepsAnew, StepKeepsTargets, RevivedAfter
   DEF RootsInv

(* A request begins after every cut-off, with records that are in the table. *)
LEMMA BeginKeepsRoots ==
  ASSUME Sheltered, TypeInv, PromiseInv, RootsInv,
         NEW q \in Requests, NEW o \in Ops, NEW p \in Processes, Begin(q, o, p)
  PROVE  RootsInv'
<1>0. /\ req \in [Requests -> RequestType] /\ o \in AllOps /\ o.rec \in Records /\ clock \in Nat
      /\ \A g \in Collectors : gc[g].cut \in Nat
  BY OpParts DEF TypeInv, TypeOK, Ops, GcType
<1>1. /\ q \notin InFlight /\ Allowed(o) /\ Admitted(o, p)
      /\ UNCHANGED <<store, first, root, owner, revived, clock, gc>>
  BY DEF Begin, InFlight, casVars
<1>2. /\ req'[q].op = o /\ req'[q].began = clock
      /\ req'[q].pc \in {"queued", "unlist", "init", "branch", "root"}
      /\ \A x \in Requests : x # q => req'[x] = req[x]
  BY <1>0 DEF Begin, Opening, Idle
<1>3. \A x \in InFlight' : x = q \/ (x \in InFlight /\ req'[x] = req[x])
  BY <1>2 DEF InFlight
<1>4. RootsCovered' /\ RevivedWhole'
  BY <1>1
  DEF RootsInv, RootsCovered, Live, Kept, Present, RealmOf, Covered, Active, Due, Marked, Visited,
      RevivedWhole
<1>5. CutsAreEarly'
  <2>1. \A g \in Collectors : Active(g) => ~HandsOver(o)
    BY <1>1 DEF Admitted, Collecting, Active, Sheltered
  <2> QED
    BY <1>0, <1>1, <1>2, <1>3, <2>1 DEF RootsInv, CutsAreEarly, Active, HandsOver
<1>6. InTable'
  <2>1. \A r \in Needs(o) : Present(r)
    <3>1. o.kind = "create" => Present(o.src)
      BY <1>0, <1>1, OpParts DEF Allowed, Present
    <3> QED
      BY <1>1, <3>1 DEF Needs, Allowed
  <2> SUFFICES ASSUME NEW x \in InFlight', NEW r \in Needs(req'[x].op)
               PROVE  Present(r)'
    BY DEF InTable, Needs
  <2>2. Present(r)
    BY <1>2, <1>3, <2>1 DEF RootsInv, InTable
  <2> QED
    BY <1>1, <2>2 DEF Present, RealmOf
<1>7. AllPutAnew'
  BY <1>1, <1>2, <1>3 DEF RootsInv, AllPutAnew, PutAnew, Fresh, Setting, Built
<1>8. TargetsFree'
  BY <1>1, <1>2, <1>3 DEF RootsInv, TargetsFree, TargetFree
<1> QED
  BY <1>4, <1>5, <1>6, <1>7, <1>8 DEF RootsInv

LEMMA TickKeepsRoots ==
  ASSUME TypeInv, RootsInv, Tick \/ UNCHANGED vars
  PROVE  RootsInv'
<1>0. /\ UNCHANGED <<store, first, root, owner, revived, gc, req>>
      /\ clock' = clock \/ clock' = clock + 1
  BY DEF Tick, vars, casVars, treeVars, bounds
<1>1. /\ clock \in Nat /\ \A g \in Collectors : gc[g].cut \in Nat
      /\ \A q \in Requests : req[q].began \in Nat
  BY DEF TypeInv, TypeOK, GcType, RequestType
<1>2. RootsCovered' /\ RevivedWhole' /\ InTable' /\ AllPutAnew' /\ TargetsFree'
  BY <1>0
  DEF RootsInv, RootsCovered, Live, Kept, Present, RealmOf, Covered, Active, Due, Marked, Visited,
      RevivedWhole, InTable, AllPutAnew, PutAnew, Fresh, Setting, Built, TargetsFree, TargetFree,
      InFlight
<1>3. CutsAreEarly'
  BY <1>0, <1>1 DEF RootsInv, CutsAreEarly, Active, InFlight
<1> QED
  BY <1>2, <1>3 DEF RootsInv

-----------------------------------------------------------------------------
(* The steps of gc keep the invariant. *)

(* When gc g is as in c afterwards, what it has read before is covered still,  *)
(* and what it has read since is among its roots.                              *)
LEMMA GcReads ==
  ASSUME Sheltered, TypeInv, RootsInv, NEW g \in Collectors, NEW c,
         gc' = [gc EXCEPT ![g] = c],
         UNCHANGED <<casVars, treeVars, bounds, req, queue>>,
         gc[g].pc # "idle", c.pc # "idle", c.cut = gc[g].cut,
         \A r \in Records : Live(r) /\ r \notin Unread(c) =>
            \/ r \notin Unread(gc[g]) /\ Marked(gc[g]) \subseteq Marked(c)
            \/ root[r] \in c.roots
  PROVE  RootsInv'
<1>0. /\ UNCHANGED <<store, first, root, owner, revived, clock, req>> /\ gc'[g] = c
      /\ \A h \in Collectors : h = g
  BY DEF casVars, treeVars, bounds, TypeInv, TypeOK, Sheltered
<1>1. RootsCovered'
  <2> SUFFICES ASSUME NEW r \in Records, Live(r)
               PROVE  /\ Kept(r) \subseteq store
                      /\ r \notin Unread(c) =>
                           \A k \in Kept(r) : Due(k, c.cut) => k \in Marked(c)
    BY <1>0 DEF RootsCovered, Covered, Live, Kept, Present, RealmOf, Active, Due, Marked, Visited
  <2>1. Covered(r, Kept(r))
    BY DEF RootsInv, RootsCovered
  <2>2. CASE r \in Unread(c)
    BY <2>1, <2>2 DEF Covered
  <2>3. CASE r \notin Unread(gc[g]) /\ Marked(gc[g]) \subseteq Marked(c)
    BY <2>1, <2>3 DEF Covered, Active
  <2>4. CASE root[r] \in c.roots /\ root[r] \in revived
    <3>1. Kept(r) = {}
      BY <2>4 DEF RootsInv, RevivedWhole, Kept, Tree
    <3> QED
      BY <3>1
  <2>5. CASE root[r] \in c.roots /\ root[r] \notin revived
    <3>1. root[r] \in store
      BY <2>1, <2>5 DEF Covered, Kept, Tree
    <3>2. Tree(root[r]) \subseteq Marked(c)
      BY <2>5, <3>1 DEF Tree, Visited, Marked
    <3> QED
      BY <2>1, <3>2 DEF Covered, Kept
  <2> QED
    BY <2>2, <2>3, <2>4, <2>5
<1>2. CutsAreEarly'
  BY <1>0 DEF RootsInv, CutsAreEarly, Active, InFlight
<1>3. RevivedWhole' /\ InTable' /\ AllPutAnew' /\ TargetsFree'
  BY <1>0
  DEF RootsInv, RevivedWhole, InTable, Present, RealmOf, AllPutAnew, PutAnew, Fresh, Setting, Built,
      TargetsFree, TargetFree, InFlight
<1> QED
  BY <1>1, <1>2, <1>3 DEF RootsInv

(* A gc that begins treats the nodes linked again like all others, if they are *)
(* all in storage.                                                             *)
LEMMA GcBeginKeepsRoots ==
  ASSUME Sheltered, TypeInv, RootsInv, NEW g \in Collectors, NEW r \in Realms,
         NEW cut \in 1 .. clock, GcBegin(g, r, cut)
  PROVE  RootsInv'
<1>0. /\ UNCHANGED <<store, first, root, owner, clock, req>>
      /\ gc'[g].pc = "realm" /\ gc'[g].cut = cut
      /\ \A h \in Collectors : h = g
      /\ \A q \in InFlight : cut <= req[q].began /\ ~HandsOver(req[q].op)
      /\ cut <= clock
      /\ revived' = revived \/ (revived' = {} /\ revived \subseteq store)
  BY DEF GcBegin, GcIdle, casVars, TypeInv, TypeOK, Sheltered
<1>1. RootsCovered'
  <2>1. \A h \in Collectors : Unread(gc[h])' = Records
    BY <1>0 DEF Unread
  <2>2. ASSUME NEW x \in Records, Live(x)
        PROVE  Tree(root[x]) \ revived' \subseteq store
    <3>1. Kept(x) \subseteq store
      BY <2>2 DEF RootsInv, RootsCovered, Covered
    <3> QED
      BY <1>0, <3>1 DEF Kept
  <2> QED
    BY <1>0, <2>1, <2>2 DEF RootsCovered, Covered, Live, Kept, Present, RealmOf, Active
<1>2. CutsAreEarly'
  BY <1>0 DEF RootsInv, CutsAreEarly, Active, InFlight
<1>3. RevivedWhole' /\ InTable' /\ AllPutAnew'
  BY <1>0
  DEF RootsInv, RevivedWhole, InTable, Present, RealmOf, AllPutAnew, PutAnew, Fresh, Setting, Built,
      InFlight
<1>4. TargetsFree'
  BY <1>0 DEF TargetsFree, TargetFree, InFlight, HandsOver
<1> QED
  BY <1>1, <1>2, <1>3, <1>4 DEF RootsInv

(* When gc deletes, it has read and marked every root: no node that a live one *)
(* must keep is among those it may delete.                                     *)
LEMMA DeleteKeepsRoots ==
  ASSUME Sheltered, TypeInv, RootsInv, NEW g \in Collectors, GcDelete(g)
  PROVE  RootsInv'
<1> DEFINE c == gc[g]
<1>0. /\ UNCHANGED <<first, root, owner, revived, clock, req, gc>>
      /\ \A h \in Collectors : h = g
      /\ Active(g) /\ Unread(c) = {} /\ Marked(c) = c.seen
  BY DEF GcDelete, HasMarked, treeVars, bounds, Sheltered, Active, Unread, Marked, Visited
<1>1. \A k \in store : ~Due(k, c.cut) \/ k \in Marked(c) => k \in store'
  BY <1>0 DEF GcDelete, Doomed, Due
<1>a. store' \subseteq store /\ Visited(c.roots)' = Visited(c.roots)
  BY <1>0 DEF GcDelete, HasMarked, Visited
<1>2. RootsCovered'
  <2> SUFFICES ASSUME NEW r \in Records, Live(r)
               PROVE  /\ Kept(r) \subseteq store'
                      /\ \A k \in Kept(r) : Due(k, c.cut) => k \in Marked(c)
    BY <1>0, <1>a DEF RootsCovered, Covered, Live, Kept, Present, RealmOf, Active, Due, Marked
  <2>1. Covered(r, Kept(r))
    BY DEF RootsInv, RootsCovered
  <2> QED
    BY <1>0, <1>1, <2>1 DEF Covered
<1>3. CutsAreEarly' /\ RevivedWhole' /\ InTable' /\ TargetsFree'
  BY <1>0
  DEF RootsInv, CutsAreEarly, Active, InFlight, RevivedWhole, InTable, Present, RealmOf, TargetsFree,
      TargetFree
<1>5. ASSUME NEW q \in InFlight, NEW k \in Nodes, Fresh(k, req[q].began)
      PROVE  FreshAfter(k, req[q].began)
  <2>1. c.cut <= req[q].began /\ c.cut \in Nat /\ req[q].began \in Nat /\ first[k] \in Nat
    BY <1>0 DEF RootsInv, CutsAreEarly, TypeInv, TypeOK, GcType, RequestType, InFlight
  <2> QED
    BY <1>0, <1>1, <1>5, <2>1 DEF Fresh, FreshAfter, Due
<1>6. AllPutAnew'
  <2> SUFFICES ASSUME NEW q \in InFlight
               PROVE  PutAnew(req[q])'
    BY <1>0 DEF AllPutAnew, InFlight
  <2>1. req'[q] = req[q] /\ PutAnew(req[q]) /\ OnItsWay(req[q]) /\ req[q].op \in AllOps
    BY <1>0 DEF RootsInv, AllPutAnew, TypeInv, AllOnTheirWay, InFlight, OnItsWay
  <2>2. req[q].op.kind # "transfer"
    BY <1>0 DEF RootsInv, CutsAreEarly, HandsOver
  <2>3. Setting(req[q]) => Built(req[q]) \in Nodes
    BY <2>1, EmptyIsDict DEF Setting, Built, OnItsWay
  <2>4. req[q].op.kind \in {"upload", "mkdir"} => req[q].op.child \in Nodes
    BY <2>1, OpParts, EntriesAreNodes
  <2>5. \A k \in Nodes : Fresh(k, req[q].began) => FreshAfter(k, req[q].began)
    BY <1>5
  <2> QED
    BY <2>1, <2>2, <2>3, <2>4, <2>5 DEF PutAnew, Fresh, FreshAfter, Setting, Built
<1> QED
  BY <1>2, <1>3, <1>6 DEF RootsInv

LEMMA GcStopsKeepsRoots ==
  ASSUME Sheltered, TypeInv, RootsInv, NEW g \in Collectors, GcEnd(g) \/ GcFail(g)
  PROVE  RootsInv'
<1>0. /\ UNCHANGED <<store, first, root, owner, revived, clock, req>> /\ gc'[g].pc = "idle"
      /\ \A h \in Collectors : h = g
  BY DEF GcEnd, GcFail, GcIdle, casVars, treeVars, bounds, TypeInv, TypeOK, Sheltered
<1>1. RootsCovered' /\ CutsAreEarly'
  BY <1>0
  DEF RootsInv, RootsCovered, Covered, Live, Kept, Present, RealmOf, Active, CutsAreEarly, InFlight
<1>2. RevivedWhole' /\ InTable' /\ AllPutAnew' /\ TargetsFree'
  BY <1>0
  DEF RootsInv, RevivedWhole, InTable, Present, RealmOf, AllPutAnew, PutAnew, Fresh, Setting, Built,
      TargetsFree, TargetFree, InFlight
<1> QED
  BY <1>1, <1>2 DEF RootsInv

LEMMA GcKeepsRoots ==
  ASSUME Sheltered, TypeInv, RootsInv, NEW g \in Collectors, GcStep(g)
  PROVE  RootsInv'
<1>0. /\ gc[g] \in GcType /\ root \in [Records -> Nodes \union {NoNode}]
      /\ gc[g].pc # "idle" => gc[g].realm \in Realms
      /\ owner \in [Branches -> Realms \union {NoRealm}]
  BY DEF TypeInv, TypeOK, GcOfRealm
<1>1. CASE GcReadRealm(g)
  <2> DEFINE c == [gc[g] EXCEPT !.pc = "list", !.roots = {root[gc[g].realm]} \ {NoNode}]
  <2>1. /\ gc' = [gc EXCEPT ![g] = c] /\ gc[g].pc = "realm"
        /\ UNCHANGED <<casVars, treeVars, bounds, req, queue>>
    BY <1>1 DEF GcReadRealm
  <2>2. c.pc = "list" /\ c.cut = gc[g].cut /\ c.roots = {root[gc[g].realm]} \ {NoNode}
    BY <1>0 DEF GcType
  <2> HIDE DEF c
  <2>3. ASSUME NEW r \in Records, Live(r), r \notin Unread(c)
        PROVE  root[r] \in c.roots
    <3>1. r \in Realms
      BY <2>2, <2>3 DEF Unread, Records
    <3>2. r = gc[g].realm
      BY <1>0, <2>1, <3>1 DEF Sheltered
    <3> QED
      BY <2>2, <2>3, <3>2 DEF Live
  <2> QED
    BY <2>1, <2>2, <2>3, GcReads
<1>2. CASE GcListBranches(g)
  <2> DEFINE c == [gc[g] EXCEPT !.pc = "branches",
                                !.todo = {b \in Branches : owner[b] = gc[g].realm}]
  <2>1. /\ gc' = [gc EXCEPT ![g] = c] /\ gc[g].pc = "list"
        /\ UNCHANGED <<casVars, treeVars, bounds, req, queue>>
    BY <1>2 DEF GcListBranches
  <2>2. /\ c.pc = "branches" /\ c.cut = gc[g].cut
        /\ c.roots = gc[g].roots /\ c.seen = gc[g].seen
        /\ c.todo = {b \in Branches : owner[b] = gc[g].realm}
    BY <1>0 DEF GcType
  <2> HIDE DEF c
  <2>3. ASSUME NEW r \in Records, Live(r), r \notin Unread(c)
        PROVE  r \notin Unread(gc[g])
    <3>1. r \in Branches => owner[r] \in Realms
      BY <1>0, <2>3, DriveAssumption DEF Live, Present, RealmOf
    <3>2. r \in Branches => owner[r] = gc[g].realm
      BY <1>0, <2>1, <3>1 DEF Sheltered
    <3> QED
      BY <2>1, <2>2, <2>3, <3>2 DEF Unread
  <2> QED
    BY <2>1, <2>2, <2>3, GcReads DEF Marked
<1>3. CASE GcReadBranch(g)
  <2>1. PICK b \in gc[g].todo :
             gc' = [gc EXCEPT ![g] = [gc[g] EXCEPT !.todo = @ \ {b},
                                                  !.roots = (@ \union {root[b]}) \ {NoNode}]]
    BY <1>3 DEF GcReadBranch
  <2> DEFINE c == [gc[g] EXCEPT !.todo = @ \ {b}, !.roots = (@ \union {root[b]}) \ {NoNode}]
  <2>2. /\ gc' = [gc EXCEPT ![g] = c] /\ gc[g].pc = "branches"
        /\ UNCHANGED <<casVars, treeVars, bounds, req, queue>>
    BY <1>3, <2>1 DEF GcReadBranch
  <2>3. /\ c.pc = "branches" /\ c.cut = gc[g].cut /\ c.todo = gc[g].todo \ {b}
        /\ c.roots = (gc[g].roots \union {root[b]}) \ {NoNode} /\ c.seen = gc[g].seen
    BY <1>0, <2>2 DEF GcType
  <2> HIDE DEF c
  <2>4. gc[g].roots \subseteq c.roots /\ c.seen = gc[g].seen
    BY <1>0, <2>3, TreeAssumption DEF GcType
  <2>5. Marked(gc[g]) \subseteq Marked(c)
    BY <2>4 DEF Marked, Visited
  <2>6. ASSUME NEW r \in Records, Live(r), r \notin Unread(c)
        PROVE  r \notin Unread(gc[g]) \/ root[r] \in c.roots
    BY <2>2, <2>3, <2>6 DEF Unread, Live
  <2> QED
    BY <2>2, <2>3, <2>5, <2>6, GcReads
<1>4. CASE GcMark(g)
  <2>1. PICK k \in gc[g].roots :
             gc' = [gc EXCEPT ![g] = [gc[g] EXCEPT !.roots = @ \ {k},
                                                  !.seen = @ \union Visited({k})]]
    BY <1>4 DEF GcMark
  <2> DEFINE c == [gc[g] EXCEPT !.roots = @ \ {k}, !.seen = @ \union Visited({k})]
  <2>2. /\ gc' = [gc EXCEPT ![g] = c] /\ gc[g].pc = "branches"
        /\ UNCHANGED <<casVars, treeVars, bounds, req, queue>>
    BY <1>4, <2>1 DEF GcMark
  <2>3. /\ c.pc = gc[g].pc /\ c.cut = gc[g].cut /\ c.todo = gc[g].todo
        /\ c.roots = gc[g].roots \ {k} /\ c.seen = gc[g].seen \union Visited({k})
    BY <1>0 DEF GcType
  <2> HIDE DEF c
  <2>4. Marked(gc[g]) \subseteq Marked(c)
    BY <2>3 DEF Marked, Visited
  <2>5. Unread(c) = Unread(gc[g])
    BY <2>3 DEF Unread
  <2> QED
    BY <2>2, <2>3, <2>4, <2>5, GcReads
<1> QED
  BY <1>1, <1>2, <1>3, <1>4, GcBeginKeepsRoots, DeleteKeepsRoots, GcStopsKeepsRoots DEF GcStep

-----------------------------------------------------------------------------
LEMMA InitKeepsRoots == Init => RootsInv
<1> SUFFICES ASSUME Init PROVE RootsInv
  OBVIOUS
<1>1. InFlight = {} /\ \A g \in Collectors : ~Active(g)
  BY DEF Init, InFlight, Idle, Active, GcIdle
<1>2. \A r \in Records : Live(r) => Kept(r) \subseteq store
  BY EmptyHasNone DEF Init, Live, Kept, Tree
<1>3. RevivedWhole
  BY DEF Init, RevivedWhole
<1> QED
  BY <1>1, <1>2, <1>3
  DEF RootsInv, RootsCovered, Covered, CutsAreEarly, InTable, AllPutAnew, TargetsFree

LEMMA AllInvIsInductive ==
  ASSUME Sheltered
  PROVE  /\ Init => AllInv
         /\ AllInv /\ [Next]_vars => AllInv'
<1>1. Init => AllInv
  BY InitIsTyped, InitIsFree, InitKeepsPromise, InitKeepsRoots DEF AllInv
<1>2. ASSUME AllInv, [Next]_vars
      PROVE  AllInv'
  <2>1. TypeInv /\ MutexInv /\ PromiseInv /\ RootsInv
    BY <1>2 DEF AllInv
  <2>2. (TypeInv /\ MutexInv /\ PromiseInv)'
    BY <1>2, <2>1, NextKeepsTypes, NextKeepsMutex, NextKeepsPromise DEF Sheltered
  <2>3. RootsInv'
    BY <1>2, <2>1, TickKeepsRoots, BeginKeepsRoots, StepKeepsRoots, GcKeepsRoots DEF Next
  <2> QED
    BY <2>2, <2>3 DEF AllInv
<1> QED
  BY <1>1, <1>2

(* The roots of a realm and of its branches are whole whatever gc collects      *)
(* meanwhile, but for nodes linked again under it, for any number of branches,  *)
(* requests, processes and steps, when the requests are sheltered as the        *)
(* definition says (gc of realm-info.ts, and the requests of files.ts, fs.ts    *)
(* and branches.ts).                                                            *)
THEOREM RootsStayWhole ==
  ASSUME Sheltered
  PROVE  Spec => []RootsWhole
<1>1. AllInv => RootsWhole
  BY DEF AllInv, RootsInv, RootsCovered, Covered, Live, Kept, RootsWhole
<1> QED
  BY <1>1, AllInvIsInductive, PTL DEF Spec

(* A transfer that is to fail if its target exists never replaces an entry, in  *)
(* the same circumstances: between its look at the target and its set of the    *)
(* root no other request changes the root, and the root it looked in was there, *)
(* unless it was linked again under a gc (executeTransfer, transfer-paths.ts).  *)
THEOREM TransfersKeepTargets ==
  ASSUME Sheltered
  PROVE  Spec => TransferKeepsTarget
<1>1. ASSUME AllInv, NEW q \in Requests, SetBranchRoot(q),
             req[q].op.kind = "transfer", req[q].op.mode = "fail_if_exists"
      PROVE  /\ root[req[q].op.rec] \in Dicts
             /\ \/ req[q].op.to \notin DOMAIN root[req[q].op.rec]
                \/ root[req[q].op.rec] \in revived
  <2>1. req[q].pc = "set" /\ q \in InFlight
    BY <1>1 DEF SetBranchRoot, At, InFlight
  <2>2. root[req[q].op.rec] \in Dicts
    BY <1>1, <2>1, PartsInFlight DEF AllInv, Right, Makes
  <2> QED
    BY <1>1, <2>1, <2>2 DEF AllInv, RootsInv, TargetsFree, TargetFree
<1>2. AllInv /\ [Next]_vars =>
        [\A q \in Requests :
           LET o == req[q].op
               r == root[o.rec]
           IN  SetBranchRoot(q) /\ o.kind = "transfer" /\ o.mode = "fail_if_exists"
                 => r \in Dicts /\ (o.to \notin DOMAIN r \/ r \in revived)]_vars
  BY <1>1
<1> QED
  BY <1>2, AllInvIsInductive, PTL DEF Spec, TransferKeepsTarget
=============================================================================
