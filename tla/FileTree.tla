------------------------------ MODULE FileTree ------------------------------
(***************************************************************************)
(* What the drive promises of the trees of a set of records (the root of a *)
(* realm, the root of a branch): each operation changes one tree, at once, *)
(* from what it is at that moment.                                         *)
(***************************************************************************)
EXTENDS DriveTree

CONSTANTS
  Records,   \* the records that have a tree
  Ops        \* the operations

VARIABLE tree   \* the tree of each record, NoNode if it has none

Init == tree \in [Records -> Nodes \union {NoNode}]

(* The dict of record r becomes d. *)
Becomes(r, d) == tree[r] \in Dicts /\ tree' = [tree EXCEPT ![r] = d]

Holds(r, n) == tree[r] \in Dicts /\ n \in DOMAIN tree[r]

(* A tree is made for a record that has none. *)
Start(r) == tree[r] = NoNode /\ tree' = [tree EXCEPT ![r] = Empty]

(* upload and mkdir *)
Add(o) == o.kind \in {"upload", "mkdir"} /\ Becomes(o.rec, With(tree[o.rec], o.name, o.child))

Remove(o) ==
  o.kind = "rm" /\ Holds(o.rec, o.name) /\ Becomes(o.rec, Without(tree[o.rec], o.name))

Move(o) ==
  /\ o.kind = "mv" /\ Holds(o.rec, o.name)
  /\ Becomes(o.rec, With(Without(tree[o.rec], o.name), o.to, tree[o.rec][o.name]))

Copy(o) ==
  /\ o.kind = "cp" /\ Holds(o.rec, o.name)
  /\ Becomes(o.rec, With(tree[o.rec], o.to, tree[o.rec][o.name]))

(* An entry of another record, or of the same, is linked here. *)
Transfer(o) ==
  /\ o.kind = "transfer" /\ Holds(o.src, o.name)
  /\ Becomes(o.rec, With(tree[o.rec], o.to, tree[o.src][o.name]))

(* PUT root: the tree becomes a file. *)
Replace(o) == o.kind = "rootfile" /\ tree' = [tree EXCEPT ![o.rec] = o.child]

(* A new record gets the entry of another as its tree. *)
Mount(o) ==
  /\ o.kind = "create" /\ tree[o.rec] = NoNode /\ Holds(o.src, o.name)
  /\ tree' = [tree EXCEPT ![o.rec] = tree[o.src][o.name]]

(* A record is closed. *)
Drop(o) == o.kind = "close" /\ tree' = [tree EXCEPT ![o.rec] = NoNode]

Next ==
  \/ \E r \in Records : Start(r)
  \/ \E o \in Ops :
       Add(o) \/ Remove(o) \/ Move(o) \/ Copy(o) \/ Transfer(o) \/ Replace(o) \/ Mount(o) \/ Drop(o)

Spec == Init /\ [][Next]_tree
=============================================================================
