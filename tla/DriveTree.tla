----------------------------- MODULE DriveTree -----------------------------
(***************************************************************************)
(* The trees of cells/drive as content-addressed nodes.  A key is the node *)
(* it addresses: a file is its content, a dict maps the names it holds to  *)
(* its children.  Paths have one segment: a root is a dict of files and    *)
(* empty dicts, or a file (PUT root).                                      *)
(***************************************************************************)
CONSTANTS
  Names,     \* names of entries
  Files,     \* contents of files, which are their own keys
  NoNode     \* no key (null)

Empty == [n \in {} |-> NoNode]

Entries == Files \union {Empty}

Dicts == UNION {[S -> Entries] : S \in SUBSET Names}

Nodes == Files \union Dicts

ChildrenOf(k) == IF k \in Dicts THEN {k[n] : n \in DOMAIN k} ELSE {}

Tree(k) == {k} \union ChildrenOf(k)

ASSUME TreeAssumption ==
  /\ NoNode \notin Nodes
  /\ Files \intersect Dicts = {}

(* addOrReplaceInDict, and removeEntryAtPath of a dict *)
With(d, n, k) == [m \in DOMAIN d \union {n} |-> IF m = n THEN k ELSE d[m]]

(* Its plausible bug: the name is kept, only the child is taken out. *)
WithoutChild(d, n) == [d EXCEPT ![n] = NoNode]

Without(d, n) == [m \in DOMAIN d \ {n} |-> d[m]]
=============================================================================
