---------------------------- MODULE ParamValues ----------------------------
(***************************************************************************)
(* Values of the params in cell.yaml and otavia.yaml: trees whose inner    *)
(* nodes are objects and arrays and whose leaves are strings and tags.  A  *)
(* value is given by its paths, so a walk over it is what it comes to, and *)
(* the walks of the code differ in which nodes they enter.                 *)
(***************************************************************************)
EXTENDS Naturals, Sequences

CONSTANT ParamKeys   \* the keys of objects and the indices of arrays

Tags == {"env", "secret"}
Inner == {"object", "array"}

(* A value: the node at each of its paths. *)
ParamNode(kind, name) == [kind |-> kind, name |-> name]
Leaf(kind, name) == [p \in {<<>>} |-> ParamNode(kind, name)]
Absent == Leaf("undefined", "")

(* A walk comes to a path which enters the given kinds of nodes. *)
Entered(v, p, kinds) ==
  \A n \in 0..(Len(p) - 1) :
    SubSeq(p, 1, n) \in DOMAIN v /\ v[SubSeq(p, 1, n)].kind \in kinds

IsValue(v) ==
  /\ v = [p \in DOMAIN v |-> v[p]]
  /\ <<>> \in DOMAIN v /\ DOMAIN v \subseteq Seq(ParamKeys)
  /\ \A p \in DOMAIN v : Entered(v, p, Inner)

(* The nodes that such a walk reaches *)
Reached(v, kinds) == {v[p] : p \in {q \in DOMAIN v : Entered(v, q, kinds)}}

(* Every !Param of a value becomes the value of that name as it is. *)
ParamValue(node, values) == IF node.name \in DOMAIN values THEN values[node.name] ELSE Absent
WithParams(v, values) ==
  LET params == {p \in DOMAIN v : v[p].kind = "param"}
      value(q) == ParamValue(v[q], values)
      below(q) == {q \o r : r \in DOMAIN value(q)}
      above(p) == CHOOSE q \in params : p \in below(q)
  IN [p \in (DOMAIN v \ params) \union UNION {below(q) : q \in params} |->
        IF p \in DOMAIN v \ params THEN v[p]
        ELSE value(above(p))[SubSeq(p, Len(above(p)) + 1, Len(p))]]
=============================================================================
