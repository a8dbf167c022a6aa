------------------------------ MODULE Explorer ------------------------------
(***************************************************************************)
(* The drive's page (directory-tree.tsx): the list of the directory it     *)
(* shows and the operations that the user starts on it, which overlap.  An *)
(* operation is steps one after another, of which one that fails ends it,  *)
(* and then files, of which a folder upload puts two at once.              *)
(***************************************************************************)
EXTENDS Naturals, Sequences, FiniteSets, SequencesExt, FiniteSetsExt

CONSTANTS
  Ops,         \* operations that the user starts
  FolderNames, \* the names of directories; the other names are of files
  Uploads,     \* selections for an upload: sets of relative paths
  Targets,     \* paths that moves and copies name
  StartTree,   \* the paths that the realm has at first
  MaxLoads,    \* bound on the lists in flight
  MaxEvents    \* bound on the changes of the directory, refreshes, cancels and
               \* calls that fail

ASSUME ExplorerAssumption ==
  /\ MaxLoads \in Nat \ {0} /\ MaxEvents \in Nat
  /\ \A sel \in Uploads : IsFiniteSet(sel)

VARIABLES
  tree,      \* the paths that the realm has
  cwd,       \* currentPath
  loads,     \* lists in flight, in order: path, whether answered, names, not cancelled
  view,      \* entries and loading, with the error if there is one
  op,        \* the operations
  uploading, cancel,
  unsure,    \* an answer was lost, or a failed step left what earlier ones did
  events

explorerVars == <<tree, cwd, loads, view, op, uploading, cancel, unsure, events>>

TreeBelow(p) == {x \in tree : IsPrefix(p, x)}
Above(p) == {SubSeq(p, 1, i) : i \in 1..(Len(p) - 1)}
Children(p) == {x \in tree : Len(x) = Len(p) + 1 /\ IsPrefix(p, x)}
IsFolder(p) == IF p = <<>> THEN TRUE ELSE p[Len(p)] \in FolderNames

NotBegun ==
  [kind |-> "none", steps |-> {}, files |-> {}, sent |-> {}, back |-> {}, landed |-> {}]
Call(do, p, to) == [do |-> do, path |-> p, to |-> to]
Under(q) == op[q].kind \notin {"none", "over"}
Flying(o) == o.sent \union {b.call : b \in o.back}

ExplorerInit ==
  /\ tree = StartTree /\ cwd = <<>>
  /\ loads = <<[path |-> <<>>, answer |-> "none", names |-> {}, live |-> TRUE]>>
  /\ view = [names |-> {}, loading |-> TRUE, error |-> FALSE]
  /\ op = [q \in Ops |-> NotBegun] /\ uploading = FALSE /\ cancel = FALSE
  /\ unsure = FALSE /\ events = 0

-----------------------------------------------------------------------------
(* loadEntries: the list of p in place of the one in flight, which is cancelled *)
(* by the clean-up of the effect; a plausible bug is an effect without one.     *)
CancelNone(ls) == ls
CancelOlder(ls) == [i \in DOMAIN ls |-> [ls[i] EXCEPT !.live = FALSE]]
LoadEntries(p) ==
  /\ Len(loads) < MaxLoads
  /\ loads' = Append(CancelOlder(loads),
                     [path |-> p, answer |-> "none", names |-> {}, live |-> TRUE])
  /\ view' = [view EXCEPT !.loading = TRUE, !.error = FALSE]

UserMoves ==
  /\ events < MaxEvents /\ events' = events + 1
  /\ UNCHANGED <<tree, op, uploading, unsure>>

(* onPathChange, from the breadcrumb, the button up or a directory of the list *)
GoTo(p) ==
  /\ p # cwd /\ p \in Above(cwd) \union {<<>>} \union view.names /\ IsFolder(p)
  /\ cwd' = p /\ LoadEntries(p)
  /\ UserMoves /\ UNCHANGED cancel

HandleRefresh == ~view.loading /\ LoadEntries(cwd) /\ UserMoves /\ UNCHANGED <<cwd, cancel>>

CancelUpload ==
  /\ \E q \in Ops : op[q].kind = "folder"
  /\ cancel' = TRUE
  /\ UserMoves /\ UNCHANGED <<cwd, loads, view>>

Refusal(failed) ==
  /\ failed => events < MaxEvents
  /\ events' = IF failed THEN events + 1 ELSE events

(* The realm answers a list, or not. *)
AnswerList(i, failed) ==
  /\ loads[i].answer = "none"
  /\ LET found == ~failed /\ loads[i].path \in tree \union {<<>>}
     IN  loads' = [loads EXCEPT ![i].answer = IF found THEN "list" ELSE "error",
                                ![i].names = Children(loads[i].path)]
  /\ Refusal(failed)
  /\ UNCHANGED <<tree, cwd, view, op, uploading, cancel, unsure>>

ShowList(i) ==
  /\ loads[i].answer # "none"
  /\ loads' = SubSeq(loads, 1, i - 1) \o SubSeq(loads, i + 1, Len(loads))
  /\ view' = IF ~loads[i].live THEN view
             ELSE IF loads[i].answer = "error"
             THEN [view EXCEPT !.loading = FALSE, !.error = TRUE]
             ELSE [view EXCEPT !.loading = FALSE, !.names = loads[i].names]
  /\ UNCHANGED <<tree, cwd, op, uploading, cancel, unsure, events>>

-----------------------------------------------------------------------------
(* What an operation sends next: its steps in the order of the paths, and only  *)
(* then its files.                                                              *)
LeastCall(calls) == CHOOSE c \in calls : ~\E d \in calls : d # c /\ IsPrefix(d.path, c.path)
NextSteps(o) == IF o.steps # {} /\ Flying(o) = {} THEN {LeastCall(o.steps)} ELSE {}
NextFiles(o) ==
  LET width == IF o.kind = "folder" THEN 2 ELSE 1
      calls == {Call("put", f, <<>>) : f \in o.files}
  IN  CHOOSE S \in SUBSET calls :
        Cardinality(S) = Min({Cardinality(calls), width - Cardinality(Flying(o))})

NextCalls(o) ==
  IF o.steps # {} \/ \E c \in Flying(o) : c.do # "put" THEN NextSteps(o) ELSE NextFiles(o)

(* A folder upload looks at cancel before every call. *)
Sends(o, stop) ==
  LET calls == IF o.kind = "drop" \/ (o.kind = "folder" /\ stop) THEN {} ELSE NextCalls(o)
  IN  [o EXCEPT !.steps = @ \ calls, !.files = @ \ {c.path : c \in calls},
                !.sent = @ \union calls]

(* An operation begins; dialogs and menus keep a second one of its kind away. *)
Begin(q, kind, steps, files) ==
  /\ op[q].kind = "none"
  /\ ~\E r \in Ops : op[r].kind = kind
  /\ op' = [op EXCEPT ![q] = Sends([NotBegun EXCEPT !.kind = kind, !.steps = steps,
                                                   !.files = files], FALSE)]
  /\ UNCHANGED <<tree, cwd, loads, view, unsure, events>>

Same == UNCHANGED <<uploading, cancel>>
CreateFolder(q, n) == Begin(q, "create", {Call("mkdir", Append(cwd, n), <<>>)}, {}) /\ Same
DeletePath(q, p) == Begin(q, "delete", {Call("rm", p, <<>>)}, {}) /\ Same
MoveCopy(q, do, p, to) ==
  /\ ~IsPrefix(p, to) /\ ~IsPrefix(to, p)
  /\ Begin(q, "moveCopy", {Call(do, p, to)}, {})
  /\ Same

(* getMkdirPaths, and the uploads of a selection below the directory of now *)
MkdirPaths(sel) == {Call("mkdir", cwd \o a, <<>>) : a \in UNION {Above(f) : f \in sel}}
Placed(sel) == {cwd \o f : f \in sel}
DoUploadFiles(q, sel) ==
  /\ ~uploading /\ \A f \in sel : Len(f) = 1
  /\ Begin(q, "files", {}, Placed(sel))
  /\ uploading' = TRUE /\ UNCHANGED cancel

UploadFolder(q, sel) ==
  /\ ~uploading /\ \E f \in sel : Len(f) > 1
  /\ Begin(q, "folder", MkdirPaths(sel), Placed(sel))
  /\ uploading' = TRUE /\ cancel' = FALSE

(* A drop looks at uploading, then collects what was dropped and uploads it; a    *)
(* drop of empty directories makes these.                                         *)
DropFiles(q, sel) == ~uploading /\ Begin(q, "drop", MkdirPaths(sel), Placed(sel)) /\ Same
Collected(q) ==
  /\ op[q].kind = "drop"
  /\ \/ /\ op' = [op EXCEPT ![q] = Sends([@ EXCEPT !.kind = "folder"], FALSE)]
        /\ uploading' = TRUE /\ cancel' = FALSE
     \/ /\ op[q].steps # {}
        /\ op' = [op EXCEPT ![q] = Sends([@ EXCEPT !.kind = "dirs", !.files = {}], FALSE)]
        /\ Same
  /\ UNCHANGED <<tree, cwd, loads, view, unsure, events>>

-----------------------------------------------------------------------------
(* What the realm does; mkdir puts an empty directory in place of what was there. *)
After(c) ==
  LET moved == {c.to \o SubSeq(x, Len(c.path) + 1, Len(x)) : x \in TreeBelow(c.path)}
      put(t, new, p) == (t \ TreeBelow(p)) \union new \union Above(p)
  IN  CASE c.do \in {"mkdir", "put"} -> put(tree, {c.path}, c.path)
        [] c.do = "rm" -> tree \ TreeBelow(c.path)
        [] c.do = "cp" -> put(tree, moved, c.to)
        [] c.do = "mv" -> put(tree \ TreeBelow(c.path), moved, c.to)

Missing(c) == c.do \notin {"mkdir", "put"} /\ c.path \notin tree

(* A call is done and answered, or refused, or done and its answer is lost. *)
Perform(q, c, how) ==
  /\ c \in op[q].sent
  /\ Missing(c) => how = "refused"
  /\ Refusal(how # "done" /\ ~Missing(c))
  /\ tree' = IF how = "refused" THEN tree ELSE After(c)
  /\ unsure' = (unsure \/ how = "lost")
  /\ op' = [op EXCEPT ![q].sent = @ \ {c},
                      ![q].back = @ \union {[call |-> c, ok |-> how = "done"]}]
  /\ UNCHANGED <<cwd, loads, view, uploading, cancel>>

(* The operation goes on.  A step that failed ends it, without a list; else it    *)
(* ends when it has no call left, and the list is read again.                     *)
Hear(q, b) ==
  /\ b \in op[q].back
  /\ LET fails == ~b.ok /\ b.call.do # "put"
         heard == [op[q] EXCEPT !.back = @ \ {b},
                                !.landed = IF b.ok THEN @ \union {b.call.path} ELSE @]
         next == IF fails THEN heard ELSE Sends(heard, cancel)
         over == fails \/ Flying(next) = {}
     IN  /\ op' = [op EXCEPT ![q] = IF over THEN [next EXCEPT !.kind = "over"] ELSE next]
         /\ unsure' = (unsure \/ (fails /\ op[q].kind \in {"folder", "dirs"}))
         /\ uploading' = IF over /\ op[q].kind \in {"files", "folder"} THEN FALSE ELSE uploading
         /\ IF over /\ ~fails /\ (op[q].kind = "files" => next.landed # {})
            THEN LoadEntries(cwd) ELSE UNCHANGED <<loads, view>>
  /\ UNCHANGED <<tree, cwd, cancel, events>>

ExplorerNext ==
  \/ \E p \in tree \union {<<>>} : GoTo(p)
  \/ HandleRefresh \/ CancelUpload
  \/ \E i \in DOMAIN loads : ShowList(i) \/ \E failed \in BOOLEAN : AnswerList(i, failed)
  \/ \E q \in Ops :
       \/ \E n \in FolderNames : CreateFolder(q, n)
       \/ \E p \in view.names : DeletePath(q, p)
       \/ \E p \in view.names, to \in Targets, do \in {"mv", "cp"} : MoveCopy(q, do, p, to)
       \/ \E sel \in Uploads :
            DoUploadFiles(q, sel) \/ UploadFolder(q, sel) \/ DropFiles(q, sel)
       \/ Collected(q)
       \/ \E c \in op[q].sent, how \in {"done", "refused", "lost"} : Perform(q, c, how)
       \/ \E b \in op[q].back : Hear(q, b)

ExplorerSpec == ExplorerInit /\ [][ExplorerNext]_explorerVars

-----------------------------------------------------------------------------
(* The types of the variables *)
ExplorerTypeOK ==
  /\ \A p \in tree : p # <<>> /\ Above(p) \subseteq tree
  /\ IsFolder(cwd) /\ Len(loads) <= MaxLoads
  /\ \A q \in Ops : op[q].kind \in {"none", "create", "delete", "moveCopy", "files", "folder",
                                    "drop", "dirs", "over"}
  /\ uploading \in BOOLEAN /\ cancel \in BOOLEAN

(* Once nothing is under way, the page shows what its directory holds: a list   *)
(* that was read before a change never stays after one that was read later, and *)
(* every operation that changed something was followed by a list; unless the    *)
(* list failed, an answer was lost, or a step failed after others had been done.*)
ListIsFresh ==
  (~view.loading /\ ~view.error /\ ~unsure /\ ~\E q \in Ops : Under(q))
    => view.names = Children(cwd)
=============================================================================
