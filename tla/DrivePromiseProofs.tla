------------------------- MODULE DrivePromiseProofs -------------------------
(***************************************************************************)
(* Drive implements FileTree when requests do not overlap but for uploads  *)
(* to one process: each change of a root is the whole of one operation on  *)
(* the roots as they are at that moment, however many requests, processes  *)
(* and records there are, and whatever fails or is collected meanwhile.    *)
(***************************************************************************)
EXTENDS DriveProofs

(* What operation o makes of tree t, and of tree k if it copies from another *)
(* record, is d.                                                             *)
Makes(o, t, k, d) ==
  \/ o.kind \in {"upload", "mkdir"} /\ t \in Dicts /\ d = With(t, o.name, o.child)
  \/ o.kind = "rm" /\ t \in Dicts /\ o.name \in DOMAIN t /\ d = Without(t, o.name)
  \/ /\ o.kind = "mv" /\ t \in Dicts /\ o.name \in DOMAIN t
     /\ d = With(Without(t, o.name), o.to, t[o.name])
  \/ o.kind = "cp" /\ t \in Dicts /\ o.name \in DOMAIN t /\ d = With(t, o.to, t[o.name])
  \/ /\ o.kind = "transfer" /\ t \in Dicts /\ k \in Dicts /\ o.name \in DOMAIN k
     /\ d = With(t, o.to, k[o.name])
  \/ o.kind = "rootfile" /\ d = o.child
  \/ o.kind = "create" /\ t = NoNode /\ k \in Dicts /\ o.name \in DOMAIN k /\ d = k[o.name]

Copies == {"transfer", "create"}

(* What a request has at hand is what its operation makes of the trees as they *)
(* are: t of the record it changes, k of the one it copies from.               *)
Right(r, t, k) ==
  LET o == r.op
  IN  /\ o.kind \in {"upload", "mkdir", "rootfile"} => r.child = o.child
      /\ o.kind = "create" => t = NoNode
      /\ r.pc \in {"hasEmpty", "setEmpty"} => t = NoNode
      /\ o.kind = "transfer" /\ r.pc \in {"root", "hasEmpty", "setEmpty", "find"} =>
           r.source = k /\ k # NoNode
      /\ o.kind = "create" /\ r.pc = "find" => r.source = k
      /\ o.kind \notin {"create", "rootfile"} /\ r.pc \in {"put", "find", "remove", "unlink"} =>
           r.snap = t
      /\ r.pc = "unlink" => t \in Dicts /\ o.name \in DOMAIN t
      /\ o.kind = "mv" /\ r.pc \in {"remove", "unlink"} => r.child = t[o.name]
      /\ r.pc \in {"dict", "add", "link"} =>
           /\ o.kind \in {"upload", "mkdir", "cp", "transfer"} => r.snap = t
           /\ o.kind = "mv" => r.snap = Without(t, o.name)
           /\ o.kind \in {"mv", "cp"} => t \in Dicts /\ o.name \in DOMAIN t /\ r.child = t[o.name]
           /\ o.kind = "transfer" => k \in Dicts /\ o.name \in DOMAIN k /\ r.child = k[o.name]
      /\ r.pc = "insert" /\ r.child # NoNode =>
           k \in Dicts /\ o.name \in DOMAIN k /\ r.child = k[o.name]
      /\ r.pc = "set" => Makes(o, t, k, r.snap)

Other(o) == IF o.kind \in Copies THEN root[o.src] ELSE NoNode

RightNow(q) == Right(req[q], root[req[q].op.rec], Other(req[q].op))

AllRight == \A q \in InFlight : RightNow(q)

(* Requests that use the same record are uploads to one process. *)
Apart ==
  \A q1, q2 \in InFlight :
    \/ q1 = q2
    \/ Uses(req[q1].op) \intersect Uses(req[q2].op) = {}
    \/ /\ req[q1].op.kind = "upload" /\ req[q2].op.kind = "upload"
       /\ req[q1].process = req[q2].process

(* Nobody uses a branch that is not made yet. *)
OnlyMade ==
  /\ \A q \in InFlight : req[q].op \in Ops /\ req[q].op.rec \in Realms \union made
  /\ \A b \in Branches \ made : root[b] = NoNode /\ owner[b] = NoRealm

PromiseInv == AllRight /\ Apart /\ OnlyMade

-----------------------------------------------------------------------------
(* The step of a request keeps what it has at hand right. *)

LEMMA RightAfter ==
  ASSUME RequestsInv, NEW q \in Requests, NEW r, req' = [req EXCEPT ![q] = r],
         r.op = req[q].op, UNCHANGED root, Right(r, root[req[q].op.rec], Other(req[q].op))
  PROVE  RightNow(q)'
<1>1. req'[q] = r
  BY DEF RequestsInv
<1> QED
  BY <1>1 DEF RightNow, Other

LEMMA EndsIdle ==
  ASSUME TypeInv, PromiseInv, MutexInv, NEW q \in Requests, Answer(q) \/ (Throw(q) /\ Running(q)) \/ (Throw(q) /\ req[q].op.kind # "upload")
  PROVE  req'[q] = Idle
<1>0. req \in [Requests -> RequestType]
  BY DEF TypeInv, TypeOK
<1>1. CASE Answer(q) \/ (Throw(q) /\ req[q].op.kind # "upload")
  BY <1>0, <1>1 DEF Answer, Throw
<1>2. CASE Throw(q) /\ Running(q)
  <2>1. req[q].op.kind = "upload"
    BY <1>2 DEF Running
  <2>2. Waiting(q)[1] = q /\ 1 \in DOMAIN Waiting(q)
    BY <1>2, <2>1, UploadParts DEF MutexInv, RunsFirst
  <2> QED
    BY <1>2, <2>1, <2>2 DEF Throw
<1> QED
  BY <1>1, <1>2

LEMMA StepStaysRight ==
  ASSUME TypeInv, MutexInv, PromiseInv, NEW q \in Requests, Step(q)
  PROVE  req'[q] = Idle \/ RightNow(q)'
<1> DEFINE o == req[q].op
           t == root[o.rec]
           k == Other(o)
<1>0. RequestsInv /\ req[q] \in RequestType /\ OnItsWay(req[q])
  BY DEF TypeInv, TypeOK, RequestsInv, AllOnTheirWay
<1>a. req[q].pc # "idle" => Right(req[q], t, k) /\ o \in AllOps
  BY <1>0 DEF PromiseInv, AllRight, RightNow, InFlight, OnItsWay
<1>b. ASSUME Answer(q) \/ Throw(q), req[q].pc # "queued"
      PROVE  req'[q] = Idle
  BY <1>b, EndsIdle DEF Running
<1> HIDE DEF k
<1>1. CASE Enter(q)
  <2>1. req[q].pc = "queued" /\ o.kind = "upload" /\ UNCHANGED root
    BY <1>0, <1>1 DEF Enter, OnItsWay, treeVars
  <2> DEFINE r == [req[q] EXCEPT !.pc = Opening(o)]
  <2>2. req' = [req EXCEPT ![q] = r]
    BY <1>1 DEF Enter
  <2>3. Opening(o) \in {"branch", "root"}
    BY <2>1 DEF Opening
  <2>4. Right(r, t, k) /\ r.op = o
    BY <1>0, <1>a, <2>1, <2>3 DEF Right, RequestType
  <2> QED
    BY <1>0, <2>1, <2>2, <2>4, RightAfter DEF k
<1>2. CASE CheckBranch(q)
  <2> DEFINE s == CASE o.kind = "rootfile" -> "put"
                    [] o.kind \in {"transfer", "create"} -> "source"
                    [] OTHER -> "root"
             r == [req[q] EXCEPT !.pc = s]
  <2>1. req[q].pc = "branch" /\ UNCHANGED root /\ (Goto(q, s) \/ Answer(q))
    BY <1>2 DEF CheckBranch, At, treeVars
  <2>2. /\ s \in {"put", "source", "root"}
        /\ s = "put" => o.kind = "rootfile"
        /\ s = "root" => o.kind \notin {"transfer", "create", "rootfile"}
    OBVIOUS
  <2> HIDE DEF s
  <2>3. Right(r, t, k) /\ r.op = o
    BY <1>0, <1>a, <2>1, <2>2 DEF Right, RequestType
  <2>4. Goto(q, s) => req' = [req EXCEPT ![q] = r]
    BY DEF Goto
  <2> QED
    BY <1>0, <1>b, <2>1, <2>3, <2>4, RightAfter DEF k
<1>3. CASE InitRealm(q)
  <2> DEFINE s == IF o.kind = "create" THEN "source" ELSE "root"
             r == [req[q] EXCEPT !.pc = s]
  <2>1. req[q].pc = "init" /\ UNCHANGED root /\ req' = [req EXCEPT ![q] = r]
    BY <1>3 DEF InitRealm, At, treeVars, Goto
  <2>2. Right(r, t, k) /\ r.op = o
    BY <1>0, <1>a, <2>1 DEF Right, OnItsWay, RequestType
  <2> QED
    BY <1>0, <2>1, <2>2, RightAfter DEF k
<1>4. CASE ReadSource(q)
  <2> DEFINE s == IF o.kind = "transfer" THEN "root" ELSE "find"
             r == [req[q] EXCEPT !.source = root[o.src], !.pc = s]
  <2>1. /\ req[q].pc = "source" /\ UNCHANGED root
        /\ \/ root[o.src] # NoNode /\ req' = [req EXCEPT ![q] = r]
           \/ Answer(q)
    BY <1>4 DEF ReadSource, At, treeVars
  <2>2. o.kind \in Copies /\ k = root[o.src]
    BY <1>0, <2>1 DEF OnItsWay, Copies, Other, k
  <2>3. root[o.src] # NoNode => Right(r, t, k) /\ r.op = o
    BY <1>0, <1>a, <2>1, <2>2 DEF Right, RequestType, Copies
  <2> HIDE DEF r
  <2> QED
    BY <1>0, <1>b, <2>1, <2>3, RightAfter DEF k
<1>5. CASE ReadRoot(q)
  <2> DEFINE s == IF t = NoNode THEN "hasEmpty" ELSE AfterRoot(o.kind)
             r == [req[q] EXCEPT !.pc = s, !.snap = t]
  <2>1. req[q].pc = "root" /\ UNCHANGED root /\ req' = [req EXCEPT ![q] = r]
    BY <1>5 DEF ReadRoot, At, treeVars, GotoWith
  <2>2. o.kind \in {"upload", "mkdir", "rm", "mv", "cp", "transfer"}
    BY <1>0, <1>a, <2>1, OpParts DEF OnItsWay
  <2>3. r.op = o /\ r.snap = t /\ r.source = req[q].source /\ r.child = req[q].child /\ r.pc = s
    BY <1>0 DEF RequestType
  <2>4. /\ s = "hasEmpty" => t = NoNode
        /\ \/ s = "hasEmpty"
           \/ s = "put" /\ o.kind \in {"upload", "mkdir"}
           \/ s = "remove" /\ o.kind = "rm"
           \/ s = "find" /\ o.kind \in {"mv", "cp", "transfer"}
    BY <2>2 DEF AfterRoot
  <2> HIDE DEF s, r
  <2>5. Right(r, t, k)
    BY <1>a, <2>1, <2>2, <2>3, <2>4 DEF Right
  <2> QED
    BY <1>0, <2>1, <2>3, <2>5, RightAfter DEF k
<1>6. CASE EnsureEmptyRoot(q)
  <2> DEFINE r == [req[q] EXCEPT !.pc = "setEmpty"]
  <2>1. req[q].pc = "hasEmpty" /\ UNCHANGED root /\ req' = [req EXCEPT ![q] = r]
    BY <1>6 DEF EnsureEmptyRoot, At, treeVars, Goto
  <2>2. Right(r, t, k) /\ r.op = o
    BY <1>0, <1>a, <2>1 DEF Right, RequestType
  <2> QED
    BY <1>0, <2>1, <2>2, RightAfter DEF k
<1>7. CASE SetEmptyRoot(q)
  <2> DEFINE s == AfterRoot(o.kind)
             r == [req[q] EXCEPT !.pc = s, !.snap = Empty]
  <2>1. /\ req[q].pc = "setEmpty" /\ req' = [req EXCEPT ![q] = r]
        /\ root' = [root EXCEPT ![o.rec] = Empty]
    BY <1>7 DEF SetEmptyRoot, SetRoot, At, GotoWith
  <2>2. o.kind \in {"upload", "mkdir", "rm", "mv", "cp", "transfer"} /\ o \in AllOps
    BY <1>0, <1>a, <2>1, OpParts DEF OnItsWay
  <2>3. /\ r.op = o /\ r.snap = Empty /\ r.source = req[q].source /\ r.child = req[q].child
        /\ r.pc = s /\ req'[q] = r
    BY <1>0, <2>1 DEF RequestType, RequestsInv
  <2>4. \/ s = "put" /\ o.kind \in {"upload", "mkdir"}
        \/ s = "remove" /\ o.kind = "rm"
        \/ s = "find" /\ o.kind \in {"mv", "cp", "transfer"}
    BY <2>2 DEF AfterRoot
  <2>5. root'[o.rec] = Empty
    BY <2>1, <2>2, OpParts DEF TypeInv, TypeOK
  <2>6. t = NoNode /\ (o.kind = "transfer" => req[q].source = k /\ k # NoNode)
    BY <1>a, <2>1 DEF Right
  <2>7. o.kind = "transfer" => Other(o)' = k /\ o.kind \in Copies
    <3> SUFFICES ASSUME o.kind = "transfer" PROVE Other(o)' = k
      BY DEF Copies
    <3>1. k = root[o.src] /\ o.src \in Records /\ o.src # o.rec
      BY <2>2, <2>6, OpParts DEF k, Other, Copies
    <3>2. root'[o.src] = root[o.src]
      BY <2>1, <3>1 DEF TypeInv, TypeOK
    <3>3. Other(o)' = root'[o.src]
      BY <2>3 DEF Other, Copies
    <3> QED
      BY <3>1, <3>2, <3>3
  <2> HIDE DEF s, r
  <2>8. \A k2 : (o.kind = "transfer" => k2 = k) => Right(r, Empty, k2)
    <3> SUFFICES ASSUME NEW k2, o.kind = "transfer" => k2 = k
                 PROVE  Right(r, Empty, k2)
      OBVIOUS
    <3> QED
      BY <1>a, <2>1, <2>2, <2>3, <2>4, <2>6 DEF Right
  <2>9. Right(r, root'[o.rec], Other(o)')
    BY <2>5, <2>7, <2>8
  <2> QED
    BY <2>3, <2>9 DEF RightNow, Other
<1>8. CASE PutChild(q)
  <2>1. /\ req[q].pc = "put" /\ UNCHANGED root
        /\ IF o.kind = "rootfile" THEN GotoWith(q, "set", req[q].child) ELSE Goto(q, "dict")
    BY <1>8 DEF PutChild, At, treeVars
  <2>2. o.kind \in {"upload", "mkdir", "rootfile"} /\ Right(req[q], t, k)
    BY <1>0, <1>a, <2>1 DEF OnItsWay
  <2>3. CASE o.kind = "rootfile"
    <3> DEFINE r == [req[q] EXCEPT !.pc = "set", !.snap = req[q].child]
    <3>1. req' = [req EXCEPT ![q] = r]
      BY <2>1, <2>3 DEF GotoWith
    <3>2. Right(r, t, k) /\ r.op = o
      BY <1>0, <2>2, <2>3 DEF Right, Makes, RequestType
    <3> QED
      BY <1>0, <2>1, <3>1, <3>2, RightAfter DEF k
  <2>4. CASE o.kind # "rootfile"
    <3> DEFINE r == [req[q] EXCEPT !.pc = "dict"]
    <3>1. req' = [req EXCEPT ![q] = r]
      BY <2>1, <2>4 DEF Goto
    <3>2. Right(r, t, k) /\ r.op = o
      BY <1>0, <2>1, <2>2, <2>4 DEF Right, RequestType
    <3> QED
      BY <1>0, <2>1, <3>1, <3>2, RightAfter DEF k
  <2> QED
    BY <2>3, <2>4
<1>9. CASE Find(q)
  <2> DEFINE found == Resolves(From(q), o.name)
             s == CASE o.kind = "create" -> "insert" [] o.kind = "mv" -> "remove" [] OTHER -> "dict"
             c == IF found THEN From(q)[o.name] ELSE NoNode
             r == [req[q] EXCEPT !.child = c, !.pc = s]
  <2>1. /\ req[q].pc = "find" /\ UNCHANGED root
        /\ \/ /\ o.kind = "create" \/ found
              /\ req' = [req EXCEPT ![q] = r]
           \/ Answer(q)
    BY <1>9 DEF Find, At, treeVars
  <2>2. o.kind \in {"mv", "cp", "transfer", "create"} /\ Right(req[q], t, k)
    BY <1>0, <1>a, <2>1 DEF OnItsWay
  <2>3. From(q) = IF o.kind \in {"mv", "cp"} THEN t ELSE k
    BY <2>1, <2>2 DEF From, Right
  <2>4. found => From(q) \in Dicts /\ o.name \in DOMAIN From(q)
    BY DEF Resolves
  <2>5. /\ o.kind = "create" => s = "insert"
        /\ o.kind = "mv" => s = "remove"
        /\ o.kind \in {"cp", "transfer"} => s = "dict"
    OBVIOUS
  <2>6. r.op = o /\ r.pc = s /\ r.child = c /\ r.snap = req[q].snap /\ r.source = req[q].source
    BY <1>0 DEF RequestType
  <2>7. c = IF found THEN IF o.kind \in {"mv", "cp"} THEN t[o.name] ELSE k[o.name] ELSE NoNode
    BY <2>3
  <2>8. req[q].snap = t \/ o.kind = "create"
    BY <2>1, <2>2 DEF Right
  <2> HIDE DEF found, s, c, r
  <2>9. ASSUME o.kind = "create" \/ found
        PROVE  Right(r, t, k)
    <3>1. CASE o.kind = "create"
      BY <2>2, <2>3, <2>4, <2>5, <2>6, <2>7, <3>1 DEF Right
    <3>2. CASE o.kind \in {"mv", "cp"} /\ found
      BY <2>3, <2>4, <2>5, <2>6, <2>7, <2>8, <3>2 DEF Right
    <3>3. CASE o.kind = "transfer" /\ found
      BY <2>3, <2>4, <2>5, <2>6, <2>7, <2>8, <3>3 DEF Right
    <3> QED
      BY <2>2, <2>9, <3>1, <3>2, <3>3
  <2> QED
    BY <1>0, <1>b, <2>1, <2>6, <2>9, RightAfter DEF k
<1>10. CASE ReadToRemove(q)
  <2> DEFINE r == [req[q] EXCEPT !.pc = "unlink"]
  <2>1. /\ req[q].pc = "remove" /\ UNCHANGED root
        /\ \/ Resolves(req[q].snap, o.name) /\ req' = [req EXCEPT ![q] = r]
           \/ Answer(q)
    BY <1>10 DEF ReadToRemove, At, treeVars, Goto
  <2>2. o.kind \in {"rm", "mv"} /\ Right(req[q], t, k)
    BY <1>0, <1>a, <2>1 DEF OnItsWay
  <2>3. Resolves(req[q].snap, o.name) => Right(r, t, k) /\ r.op = o
    BY <1>0, <2>1, <2>2 DEF Right, RequestType, Resolves
  <2> HIDE DEF r
  <2> QED
    BY <1>0, <1>b, <2>1, <2>3, RightAfter DEF k
<1>11. CASE Unlink(q)
  <2> DEFINE d == Without(req[q].snap, o.name)
             s == IF o.kind = "rm" THEN "set" ELSE "dict"
             r == [req[q] EXCEPT !.pc = s, !.snap = d]
  <2>1. /\ req[q].pc = "unlink" /\ UNCHANGED root
        /\ req' = [req EXCEPT ![q] = r] \/ Throw(q)
    BY <1>11 DEF Unlink, At, RefuseDict, treeVars, GotoWith
  <2>2. o.kind \in {"rm", "mv"} /\ Right(req[q], t, k)
    BY <1>0, <1>a, <2>1 DEF OnItsWay
  <2>3. /\ req[q].snap = t /\ d = Without(t, o.name) /\ t \in Dicts /\ o.name \in DOMAIN t
        /\ o.kind = "mv" => req[q].child = t[o.name]
    BY <2>1, <2>2 DEF Right
  <2>4. r.op = o /\ r.pc = s /\ r.child = req[q].child /\ r.snap = d
    BY <1>0 DEF RequestType
  <2>5. Right(r, t, k)
    <3> HIDE DEF d, r
    <3>1. CASE o.kind = "rm"
      BY <2>3, <2>4, <3>1 DEF Right, Makes
    <3>2. CASE o.kind = "mv"
      BY <2>3, <2>4, <3>2 DEF Right
    <3> QED
      BY <2>2, <3>1, <3>2
  <2> HIDE DEF r
  <2> QED
    BY <1>0, <1>b, <2>1, <2>4, <2>5, RightAfter DEF k
<1>12. CASE EnsureDict(q)
  <2> DEFINE r == [req[q] EXCEPT !.pc = "add"]
  <2>1. req[q].pc = "dict" /\ UNCHANGED root /\ req' = [req EXCEPT ![q] = r]
    BY <1>12 DEF EnsureDict, At, treeVars, Goto
  <2>2. Right(r, t, k) /\ r.op = o
    BY <1>0, <1>a, <2>1 DEF Right, RequestType
  <2> QED
    BY <1>0, <2>1, <2>2, RightAfter DEF k
<1>13. CASE ReadToAdd(q)
  <2> DEFINE r == [req[q] EXCEPT !.pc = "link"]
  <2>1. /\ req[q].pc = "add" /\ UNCHANGED root
        /\ req' = [req EXCEPT ![q] = r] \/ Throw(q)
    BY <1>13 DEF ReadToAdd, At, treeVars, Goto
  <2>2. Right(r, t, k) /\ r.op = o
    BY <1>0, <1>a, <2>1 DEF Right, RequestType
  <2> QED
    BY <1>0, <1>b, <2>1, <2>2, RightAfter DEF k
<1>14. CASE Link(q)
  <2> DEFINE n == IF o.kind \in {"upload", "mkdir"} THEN o.name ELSE o.to
             d == With(req[q].snap, n, req[q].child)
             r == [req[q] EXCEPT !.pc = "set", !.snap = d]
  <2>1. /\ req[q].pc = "link" /\ UNCHANGED root
        /\ req' = [req EXCEPT ![q] = r] \/ Answer(q) \/ Throw(q)
    BY <1>14 DEF Link, At, RefuseDict, treeVars, GotoWith
  <2>2. /\ o.kind \in {"upload", "mkdir", "mv", "cp", "transfer"} /\ Right(req[q], t, k)
        /\ req[q].snap \in Dicts
    BY <1>0, <1>a, <2>1 DEF OnItsWay
  <2>3. r.op = o /\ r.pc = "set" /\ r.child = req[q].child /\ r.snap = d
    BY <1>0 DEF RequestType
  <2>4. Makes(o, t, k, d)
    <3>1. CASE o.kind \in {"upload", "mkdir"}
      BY <2>1, <2>2, <3>1 DEF Right, Makes
    <3>2. CASE o.kind \in {"mv", "cp"}
      BY <2>1, <2>2, <3>2 DEF Right, Makes
    <3>3. CASE o.kind = "transfer"
      BY <2>1, <2>2, <3>3 DEF Right, Makes
    <3> QED
      BY <2>2, <3>1, <3>2, <3>3
  <2> HIDE DEF d, r
  <2>5. Right(r, t, k)
    BY <2>2, <2>3, <2>4 DEF Right
  <2> QED
    BY <1>0, <1>b, <2>1, <2>3, <2>5, RightAfter DEF k
<1>15. CASE InsertBranch(q)
  <2> DEFINE r == [req[q] EXCEPT !.pc = "set", !.snap = req[q].child]
  <2>1. /\ req[q].pc = "insert" /\ UNCHANGED root
        /\ \/ req[q].child # NoNode /\ req' = [req EXCEPT ![q] = r]
           \/ Answer(q)
    BY <1>15 DEF InsertBranch, At, GotoWith
  <2>2. o.kind = "create" /\ Right(req[q], t, k)
    BY <1>0, <1>a, <2>1 DEF OnItsWay
  <2>3. req[q].child # NoNode => Right(r, t, k) /\ r.op = o
    BY <1>0, <2>1, <2>2 DEF Right, Makes, RequestType
  <2> HIDE DEF r
  <2> QED
    BY <1>0, <1>b, <2>1, <2>3, RightAfter DEF k
<1>16. CASE SetBranchRoot(q) \/ RemoveRoot(q)
  <2>1. Answer(q) /\ req[q].pc # "queued"
    BY <1>16 DEF SetBranchRoot, RemoveRoot, At
  <2> QED
    BY <1>b, <2>1
<1>17. CASE RemoveBranch(q)
  <2> DEFINE r == [req[q] EXCEPT !.pc = "drop"]
  <2>1. req[q].pc = "unlist" /\ UNCHANGED root /\ req' = [req EXCEPT ![q] = r]
    BY <1>17 DEF RemoveBranch, At, Goto
  <2>2. Right(r, t, k) /\ r.op = o
    BY <1>0, <1>a, <2>1 DEF Right, RequestType
  <2> QED
    BY <1>0, <2>1, <2>2, RightAfter DEF k
<1> QED
  BY <1>1, <1>2, <1>3, <1>4, <1>5, <1>6, <1>7, <1>8, <1>9, <1>10, <1>11, <1>12, <1>13, <1>14,
     <1>15, <1>16, <1>17 DEF Step

-----------------------------------------------------------------------------
(* What the step of a request means to the others *)

(* A request changes no other, but for those it fails. *)
OnlyOwn(q) ==
  /\ \A x \in Requests \ {q} : req'[x] = req[x] \/ req'[x] = Idle
  /\ \A x \in Requests :
       req'[x].pc # "idle" => x \in InFlight /\ req'[x].op = req[x].op /\ req'[x].process = req[x].process

LEMMA StepIsOwn ==
  ASSUME TypeInv, NEW q \in Requests, Step(q) \/ Fail(q)
  PROVE  OnlyOwn(q)
<1>0. req \in [Requests -> RequestType] /\ \A x \in Requests : OnItsWay(req[x])
  BY DEF TypeInv, TypeOK, AllOnTheirWay
<1>a. q \in InFlight
  BY StepIsOfOneKind DEF Enter, Fail, InFlight
<1>1. CASE Enter(q) \/ CarriesOn(q)
  <2>1. /\ \A x \in Requests \ {q} : req'[x] = req[x]
        /\ req'[q].op = req[q].op /\ req'[q].process = req[q].process
    BY <1>0, <1>1 DEF Enter, CarriesOn, RequestType
  <2> QED
    BY <1>a, <2>1 DEF OnlyOwn, InFlight
<1>2. CASE Answer(q) \/ Throw(q)
  <2>1. \A x \in Requests : req'[x] = Idle \/ req'[x] = req[x]
    <3>1. CASE Answer(q)
      BY <1>0, <3>1 DEF Answer
    <3>2. CASE Throw(q) /\ req[q].op.kind = "upload"
      BY <3>2 DEF Throw
    <3>3. CASE Throw(q) /\ req[q].op.kind # "upload"
      BY <1>0, <3>3 DEF Throw, Answer
    <3> QED
      BY <1>2, <3>1, <3>2, <3>3
  <2>2. Idle.pc = "idle"
    BY DEF Idle
  <2> QED
    BY <2>1, <2>2 DEF OnlyOwn, InFlight
<1> QED
  BY <1>1, <1>2, StepIsOfOneKind DEF Fail

(* It changes no root but that of its record, and that only while it runs. *)
LEMMA RootIsOwn ==
  ASSUME TypeInv, NEW q \in Requests, Step(q) \/ Fail(q)
  PROVE  /\ UNCHANGED root \/ req[q].pc \notin {"idle", "queued"}
         /\ \A r \in Records : r # req[q].op.rec => root'[r] = root[r]
<1>0. root \in [Records -> Nodes \union {NoNode}]
  BY DEF TypeInv, TypeOK
<1>1. CASE SetEmptyRoot(q) \/ SetBranchRoot(q) \/ RemoveRoot(q)
  <2>1. req[q].pc \notin {"idle", "queued"}
    BY <1>1 DEF SetEmptyRoot, SetRoot, SetBranchRoot, RemoveRoot, At
  <2>2. \/ root' = [root EXCEPT ![req[q].op.rec] = Empty]
        \/ root' = [root EXCEPT ![req[q].op.rec] = req[q].snap]
        \/ root' = [root EXCEPT ![req[q].op.rec] = NoNode]
    BY <1>1 DEF SetEmptyRoot, SetRoot, SetBranchRoot, RemoveRoot
  <2> QED
    BY <1>0, <2>1, <2>2
<1>2. CASE UNCHANGED root
  BY <1>2
<1> QED
  BY <1>1, <1>2
  DEF Step, Fail, Enter, CheckBranch, InitRealm, ReadSource, ReadRoot, EnsureEmptyRoot, PutChild,
      Find, ReadToRemove, Unlink, EnsureDict, ReadToAdd, Link, InsertBranch, RemoveBranch, treeVars

LEMMA UsesRecords ==
  ASSUME NEW o \in AllOps
  PROVE  /\ o.rec \in Uses(o) /\ Uses(o) \subseteq Records
         /\ o.kind \in Copies => o.src \in Uses(o)
         /\ o.kind \notin Copies => Uses(o) = {o.rec}
BY OpParts DEF Uses, Copies

LEMMA OthersStayRight ==
  ASSUME TypeInv, MutexInv, PromiseInv, NEW q \in InFlight, Step(q) \/ Fail(q),
         NEW x \in InFlight, x # q, req'[x] = req[x]
  PROVE  RightNow(x)'
<1> DEFINE o == req[x].op
<1>0. /\ x \in Requests /\ q \in Requests /\ o \in AllOps /\ req[q].op \in AllOps
      /\ RightNow(x)
  BY DEF InFlight, TypeInv, AllOnTheirWay, OnItsWay, PromiseInv, AllRight
<1>1. /\ UNCHANGED root \/ req[q].pc \notin {"idle", "queued"}
      /\ \A r \in Records : r # req[q].op.rec => root'[r] = root[r]
  BY <1>0, RootIsOwn
<1>2. CASE \A r \in Uses(o) : root'[r] = root[r]
  <2>1. root'[o.rec] = root[o.rec]
    BY <1>0, <1>2, UsesRecords
  <2>2. Other(req[x].op)' = Other(req[x].op)
    BY <1>0, <1>2, UsesRecords DEF Other
  <2> QED
    BY <1>0, <2>1, <2>2 DEF RightNow
<1>3. CASE Uses(o) \intersect Uses(req[q].op) = {}
  BY <1>0, <1>1, <1>2, <1>3, UsesRecords
<1>4. CASE /\ o.kind = "upload" /\ req[q].op.kind = "upload" /\ req[x].process = req[q].process
  <2>1. CASE o.rec # req[q].op.rec
    <3>1. Uses(o) = {o.rec} /\ o.rec \in Records
      BY <1>0, <1>4, UsesRecords DEF Copies
    <3> QED
      BY <1>1, <1>2, <2>1, <3>1
  <2>2. CASE o.rec = req[q].op.rec /\ UNCHANGED root
    BY <1>2, <2>2
  <2>3. CASE o.rec = req[q].op.rec /\ ~(UNCHANGED root)
    <3>1. Running(q)
      BY <1>1, <1>4, <2>3 DEF Running
    <3>2. Waiting(x) = Waiting(q)
      BY <1>4, <2>3 DEF Waiting
    <3>3. ~Running(x)
      BY <1>0, <3>1, <3>2 DEF MutexInv, RunsFirst
    <3>4. req[x].pc = "queued"
      BY <1>4, <3>3 DEF Running
    <3>5. req[x].child = o.child
      BY <1>0, <1>4 DEF RightNow, Right
    <3>6. \A t, k : Right(req[x], t, k)
      BY <1>4, <3>4, <3>5 DEF Right
    <3> QED
      BY <3>6 DEF RightNow
  <2> QED
    BY <2>1, <2>2, <2>3
<1> QED
  BY <1>0, <1>3, <1>4 DEF PromiseInv, Apart

-----------------------------------------------------------------------------
(* The invariant *)

LEMMA StepKeepsPromise ==
  ASSUME TypeInv, MutexInv, PromiseInv, NEW q \in Requests, Step(q) \/ Fail(q)
  PROVE  PromiseInv'
<1>0. OnlyOwn(q) /\ Idle.pc = "idle"
  BY StepIsOwn DEF Idle
<1>1. q \in InFlight
  BY StepIsOfOneKind DEF Enter, Fail, InFlight
<1>2. InFlight' \subseteq InFlight
  BY <1>0 DEF OnlyOwn, InFlight
<1>3. AllRight'
  <2> SUFFICES ASSUME NEW x \in Requests, req'[x].pc # "idle" PROVE RightNow(x)'
    BY DEF AllRight, InFlight
  <2>1. x \in InFlight
    BY <1>0 DEF OnlyOwn
  <2>2. CASE x # q
    BY <1>0, <1>1, <2>1, <2>2, OthersStayRight DEF OnlyOwn
  <2>3. CASE x = q /\ Step(q)
    BY <1>0, <2>3, StepStaysRight
  <2>4. CASE x = q /\ Fail(q)
    <3>1. Throw(q) /\ req[q].pc # "queued"
      BY <2>4 DEF Fail
    <3> QED
      BY <1>0, <2>4, <3>1, EndsIdle DEF Running
  <2> QED
    BY <2>2, <2>3, <2>4
<1>4. Apart'
  <2> SUFFICES ASSUME NEW x \in InFlight', NEW y \in InFlight'
               PROVE  \/ x = y
                      \/ Uses(req'[x].op) \intersect Uses(req'[y].op) = {}
                      \/ /\ req'[x].op.kind = "upload" /\ req'[y].op.kind = "upload"
                         /\ req'[x].process = req'[y].process
    BY DEF Apart, Uses
  <2>1. /\ x \in InFlight /\ req'[x].op = req[x].op /\ req'[x].process = req[x].process
        /\ y \in InFlight /\ req'[y].op = req[y].op /\ req'[y].process = req[y].process
    BY <1>0 DEF OnlyOwn, InFlight
  <2> QED
    BY <2>1 DEF PromiseInv, Apart
<1>5. OnlyMade'
  <2>0. /\ req[q].op.rec \in Realms \union made /\ req[q].op.rec \in Records
        /\ owner \in [Branches -> Realms \union {NoRealm}] /\ made \subseteq Branches
    <3>1. req[q].op \in Ops
      BY <1>1 DEF PromiseInv, OnlyMade
    <3> QED
      BY <1>1, <3>1, OpParts DEF PromiseInv, OnlyMade, Ops, TypeInv, TypeOK
  <2>1. \A x \in InFlight' : req'[x].op \in Ops /\ req'[x].op.rec \in Realms \union made
    BY <1>0 DEF OnlyOwn, InFlight, PromiseInv, OnlyMade
  <2>2. UNCHANGED made
    BY DEF Step, Fail, Enter, CheckBranch, InitRealm, ReadSource, ReadRoot, EnsureEmptyRoot,
           SetEmptyRoot, PutChild, Find, ReadToRemove, Unlink, EnsureDict, ReadToAdd, Link,
           InsertBranch, SetBranchRoot, RemoveBranch, RemoveRoot, treeVars
  <2>3. \A r \in Branches : r # req[q].op.rec => owner'[r] = owner[r]
    <3>1. CASE InsertBranch(q) \/ RemoveBranch(q)
      BY <2>0, <3>1 DEF InsertBranch, RemoveBranch
    <3>2. CASE UNCHANGED owner
      BY <3>2
    <3> QED
      BY <3>1, <3>2
      DEF Step, Fail, Enter, CheckBranch, InitRealm, ReadSource, ReadRoot, EnsureEmptyRoot,
          SetEmptyRoot, PutChild, Find, ReadToRemove, Unlink, EnsureDict, ReadToAdd, Link,
          SetBranchRoot, RemoveRoot, treeVars
  <2>4. \A b \in Branches \ made : b \in Records /\ b # req[q].op.rec
    BY <2>0, DriveAssumption DEF Records
  <2>5. \A b \in Branches \ made : root'[b] = root[b]
    BY <2>4, RootIsOwn
  <2> QED
    BY <2>1, <2>2, <2>3, <2>4, <2>5 DEF PromiseInv, OnlyMade
<1> QED
  BY <1>3, <1>4, <1>5 DEF PromiseInv

(* A request begins apart from the others, and with nothing at hand yet. *)
LEMMA BeginKeepsPromise ==
  ASSUME Overlap = FALSE, TypeInv, PromiseInv,
         NEW q \in Requests, NEW o \in Ops, NEW p \in Processes, Begin(q, o, p)
  PROVE  PromiseInv'
<1> DEFINE pc == IF o.kind = "upload" THEN "queued" ELSE Opening(o)
           child == IF o.kind \in {"upload", "mkdir", "rootfile"} THEN o.child ELSE NoNode
           r == [Idle EXCEPT !.pc = pc, !.op = o, !.process = p, !.began = clock, !.child = child]
<1>0. /\ o \in AllOps /\ o.rec \in Records /\ req \in [Requests -> RequestType]
      /\ owner \in [Branches -> Realms \union {NoRealm}]
  BY OpParts DEF Ops, TypeInv, TypeOK
<1>1. /\ q \notin InFlight /\ Allowed(o) /\ Admitted(o, p) /\ UNCHANGED <<root, owner>>
      /\ req' = [req EXCEPT ![q] = r]
      /\ made' = IF o.kind = "create" THEN made \union {o.rec} ELSE made
  BY DEF Begin, InFlight
<1>2. r.op = o /\ r.process = p /\ r.child = child /\ r.pc = pc
  BY DEF Idle
<1>3. pc \in {"queued", "unlist", "init", "branch"}
  BY DEF Opening
<1> HIDE DEF pc, r
<1>4. req'[q] = r /\ \A x \in Requests \ {q} : req'[x] = req[x]
  BY <1>0, <1>1
<1>5. InFlight' \subseteq InFlight \union {q} /\ \A x \in InFlight : x # q /\ req'[x] = req[x]
  BY <1>1, <1>4 DEF InFlight
<1>6. o.rec \in Realms \union made'
  <2>1. CASE o.kind = "create"
    BY <1>1, <2>1
  <2>2. CASE o.kind # "create"
    <3>1. o.rec \in Realms \/ owner[o.rec] # NoRealm
      BY <1>1, <2>2 DEF Allowed, Present, RealmOf
    <3> QED
      BY <1>0, <1>1, <2>2, <3>1 DEF PromiseInv, OnlyMade, Records
  <2> QED
    BY <2>1, <2>2
<1>7. AllRight'
  <2>1. RightNow(q)'
    <3>1. o.kind = "create" => root'[o.rec] = NoNode
      BY <1>0, <1>1, OpParts DEF Allowed, PromiseInv, OnlyMade
    <3>2. Right(r, root'[o.rec], Other(o)')
      BY <1>2, <1>3, <3>1 DEF Right
    <3> QED
      BY <1>2, <1>4, <3>2 DEF RightNow, Other
  <2>2. \A x \in InFlight : RightNow(x)'
    <3> SUFFICES ASSUME NEW x \in InFlight PROVE RightNow(x)'
      OBVIOUS
    <3> QED
      BY <1>1, <1>5 DEF PromiseInv, AllRight, RightNow, Other
  <2> QED
    BY <1>5, <2>1, <2>2 DEF AllRight
<1>8. Apart'
  <2>1. \A x \in InFlight : \/ Uses(req[x].op) \intersect Uses(o) = {}
                           \/ /\ req[x].op.kind = "upload" /\ o.kind = "upload"
                              /\ req[x].process = p
    BY <1>1 DEF Admitted
  <2> SUFFICES ASSUME NEW x \in InFlight', NEW y \in InFlight', x # y
               PROVE  \/ Uses(req'[x].op) \intersect Uses(req'[y].op) = {}
                      \/ /\ req'[x].op.kind = "upload" /\ req'[y].op.kind = "upload"
                         /\ req'[x].process = req'[y].process
    BY DEF Apart, Uses
  <2>2. CASE x \in InFlight /\ y \in InFlight
    BY <1>5, <2>2 DEF PromiseInv, Apart
  <2>3. CASE x = q
    BY <1>2, <1>4, <1>5, <2>1, <2>3
  <2>4. CASE y = q
    BY <1>2, <1>4, <1>5, <2>1, <2>4
  <2> QED
    BY <1>5, <2>2, <2>3, <2>4
<1>9. OnlyMade'
  <2>1. \A x \in InFlight' : req'[x].op \in Ops /\ req'[x].op.rec \in Realms \union made'
    BY <1>1, <1>2, <1>4, <1>5, <1>6 DEF PromiseInv, OnlyMade
  <2> QED
    BY <1>1, <2>1 DEF PromiseInv, OnlyMade
<1> QED
  BY <1>7, <1>8, <1>9 DEF PromiseInv

LEMMA NextKeepsPromise ==
  ASSUME Overlap = FALSE, TypeInv, MutexInv, PromiseInv, [Next]_vars
  PROVE  PromiseInv'
<1>1. CASE UNCHANGED <<root, owner, made, req>>
  <2>1. InFlight' = InFlight
    BY <1>1 DEF InFlight
  <2>2. AllRight'
    BY <1>1, <2>1 DEF PromiseInv, AllRight, RightNow, Other
  <2>3. Apart' /\ OnlyMade'
    BY <1>1, <2>1 DEF PromiseInv, Apart, OnlyMade
  <2> QED
    BY <2>2, <2>3 DEF PromiseInv
<1>2. ASSUME NEW q \in Requests, NEW o \in Ops, NEW p \in Processes, Begin(q, o, p)
      PROVE  PromiseInv'
  BY <1>2, BeginKeepsPromise
<1>3. ASSUME NEW q \in Requests, Step(q) \/ Fail(q)
      PROVE  PromiseInv'
  BY <1>3, StepKeepsPromise
<1>4. ASSUME NEW g \in Collectors, GcStep(g)
      PROVE  PromiseInv'
  BY <1>1, <1>4
  DEF GcStep, GcBegin, GcReadRealm, GcListBranches, GcReadBranch, GcMark, GcDelete, GcEnd,
      GcFail, treeVars
<1>5. CASE Tick \/ UNCHANGED vars
  BY <1>1, <1>5 DEF Tick, vars, treeVars
<1> QED
  BY <1>2, <1>3, <1>4, <1>5 DEF Next

LEMMA InitKeepsPromise == Init => PromiseInv
<1> SUFFICES ASSUME Init PROVE PromiseInv
  OBVIOUS
<1>1. InFlight = {}
  BY DEF Init, InFlight, Idle
<1>2. \A b \in Branches : root[b] = NoNode /\ owner[b] = NoRealm
  BY DriveAssumption DEF Init, Records
<1> QED
  BY <1>1, <1>2 DEF PromiseInv, AllRight, Apart, OnlyMade

-----------------------------------------------------------------------------
(* The refinement: the dicts and the tree operators of FileTree are those of *)
(* Drive, and each step of Drive is an operation of FileTree or a stutter.   *)

LEMMA SameTrees ==
  /\ Promised!Empty = Empty /\ Promised!Dicts = Dicts /\ Promised!Nodes = Nodes
  /\ \A d, n, k : Promised!With(d, n, k) = With(d, n, k)
  /\ \A d, n : Promised!Without(d, n) = Without(d, n)
<1>1. Promised!Empty = Empty
  BY DEF Promised!Empty, Empty
<1>2. Promised!Dicts = Dicts
  BY <1>1 DEF Promised!Dicts, Dicts, Promised!Entries, Entries
<1> QED
  BY <1>1, <1>2
  DEF Promised!Nodes, Nodes, Promised!With, With, Promised!Without, Without

LEMMA MakesIsPromised ==
  ASSUME NEW o \in Ops,
         Makes(o, root[o.rec], Other(o), root'[o.rec]),
         root' = [root EXCEPT ![o.rec] = root'[o.rec]]
  PROVE  Promised!Next
<1> DEFINE t == root[o.rec]
           d == root'[o.rec]
<1>1. CASE o.kind \in {"upload", "mkdir"}
  BY <1>1, SameTrees DEF Makes, Promised!Next, Promised!Add, Promised!Becomes
<1>2. CASE o.kind = "rm"
  BY <1>2, SameTrees DEF Makes, Promised!Next, Promised!Remove, Promised!Becomes, Promised!Holds
<1>3. CASE o.kind = "mv"
  BY <1>3, SameTrees DEF Makes, Promised!Next, Promised!Move, Promised!Becomes, Promised!Holds
<1>4. CASE o.kind = "cp"
  BY <1>4, SameTrees DEF Makes, Promised!Next, Promised!Copy, Promised!Becomes, Promised!Holds
<1>5. CASE o.kind = "transfer"
  BY <1>5, SameTrees
  DEF Makes, Other, Copies, Promised!Next, Promised!Transfer, Promised!Becomes, Promised!Holds
<1>6. CASE o.kind = "rootfile"
  BY <1>6, SameTrees DEF Makes, Promised!Next, Promised!Replace
<1>7. CASE o.kind = "create"
  BY <1>7, SameTrees DEF Makes, Other, Copies, Promised!Next, Promised!Mount, Promised!Holds
<1> QED
  BY <1>1, <1>2, <1>3, <1>4, <1>5, <1>6, <1>7 DEF Makes

LEMMA StepIsPromised ==
  ASSUME TypeInv, MutexInv, PromiseInv, [Next]_vars
  PROVE  [Promised!Next]_root
<1>0. root \in [Records -> Nodes \union {NoNode}]
  BY DEF TypeInv, TypeOK
<1>a. ASSUME NEW q \in Requests, req[q].pc # "idle"
      PROVE  /\ req[q].op \in Ops /\ req[q].op.rec \in Records
             /\ Right(req[q], root[req[q].op.rec], Other(req[q].op)) /\ OnItsWay(req[q])
  BY <1>a, OpParts
  DEF PromiseInv, OnlyMade, AllRight, RightNow, InFlight, Ops, TypeInv, AllOnTheirWay
<1>1. CASE UNCHANGED root
  BY <1>1
<1>2. ASSUME NEW q \in Requests, SetEmptyRoot(q)
      PROVE  Promised!Next
  <2>1. req[q].pc = "setEmpty" /\ root' = [root EXCEPT ![req[q].op.rec] = Empty]
    BY <1>2 DEF SetEmptyRoot, SetRoot, At
  <2>2. req[q].op.rec \in Records /\ root[req[q].op.rec] = NoNode
    BY <1>a, <2>1 DEF Right
  <2> QED
    BY <2>1, <2>2, SameTrees DEF Promised!Next, Promised!Start
<1>3. ASSUME NEW q \in Requests, SetBranchRoot(q)
      PROVE  Promised!Next
  <2>1. req[q].pc = "set" /\ root' = [root EXCEPT ![req[q].op.rec] = req[q].snap]
    BY <1>3 DEF SetBranchRoot, SetRoot, At
  <2>2. /\ req[q].op \in Ops /\ req[q].op.rec \in Records
        /\ Makes(req[q].op, root[req[q].op.rec], Other(req[q].op), req[q].snap)
    BY <1>a, <2>1 DEF Right
  <2>3. root'[req[q].op.rec] = req[q].snap
    BY <1>0, <2>1, <2>2
  <2> QED
    BY <2>1, <2>2, <2>3, MakesIsPromised
<1>4. ASSUME NEW q \in Requests, RemoveRoot(q)
      PROVE  Promised!Next
  <2>1. req[q].pc = "drop" /\ root' = [root EXCEPT ![req[q].op.rec] = NoNode]
    BY <1>4 DEF RemoveRoot, At
  <2>2. req[q].op \in Ops /\ req[q].op.kind = "close"
    BY <1>a, <2>1 DEF OnItsWay
  <2> QED
    BY <2>1, <2>2 DEF Promised!Next, Promised!Drop
<1> QED
  <2>1. ASSUME NEW q \in Requests, Step(q)
        PROVE  UNCHANGED root \/ SetEmptyRoot(q) \/ SetBranchRoot(q) \/ RemoveRoot(q)
    BY <2>1
    DEF Step, Enter, CheckBranch, InitRealm, ReadSource, ReadRoot, EnsureEmptyRoot, PutChild,
        Find, ReadToRemove, Unlink, EnsureDict, ReadToAdd, Link, InsertBranch, RemoveBranch, treeVars
  <2>2. ASSUME NEW g \in Collectors, GcStep(g)
        PROVE  UNCHANGED root
    BY <2>2
    DEF GcStep, GcBegin, GcReadRealm, GcListBranches, GcReadBranch, GcMark, GcDelete, GcEnd,
      GcFail, treeVars
  <2>3. ASSUME NEW q \in Requests, NEW o \in Ops, NEW p \in Processes, Begin(q, o, p)
        PROVE  UNCHANGED root
    BY <2>3 DEF Begin
  <2>4. ASSUME NEW q \in Requests, Fail(q)
        PROVE  UNCHANGED root
    BY <2>4 DEF Fail, treeVars
  <2>5. CASE Tick \/ UNCHANGED vars
    BY <1>1, <2>5 DEF Tick, vars, treeVars
  <2> QED
    BY <1>1, <1>2, <1>3, <1>4, <2>1, <2>2, <2>3, <2>4, <2>5 DEF Next

(* Drive implements FileTree when Overlap is FALSE: no update is lost. *)
THEOREM NoUpdateIsLost ==
  ASSUME Overlap = FALSE
  PROVE  Spec => NoLostUpdate
<1>1. Init => TypeInv /\ MutexInv /\ PromiseInv
  BY InitIsTyped, InitIsFree, InitKeepsPromise
<1>2. TypeInv /\ MutexInv /\ PromiseInv /\ [Next]_vars => (TypeInv /\ MutexInv /\ PromiseInv)'
  BY NextKeepsTypes, NextKeepsMutex, NextKeepsPromise
<1>3. TypeInv /\ MutexInv /\ PromiseInv /\ [Next]_vars => [Promised!Next]_root
  BY StepIsPromised
<1>4. Init => Promised!Init
  BY InitIsTyped, SameTrees DEF TypeInv, TypeOK, Promised!Init
<1> QED
  BY <1>1, <1>2, <1>3, <1>4, PTL DEF Spec, NoLostUpdate, Promised!Spec
=============================================================================
