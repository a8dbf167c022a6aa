---------------------------- MODULE StackConfig ----------------------------
(***************************************************************************)
(* otavia.yaml and the params of its cells (apps/otavia/src/config): what  *)
(* loadOtaviaYaml accepts, and the environment that a cell gets from the   *)
(* params of the stack, its own, and the .env files.                       *)
(***************************************************************************)
EXTENDS ParamValues, SequencesExt

CONSTANTS
  Stacks,          \* otavia.yaml: params, cells (mount, params), defaultCell, callback
  Declarations,    \* the param keys that the cell.yaml of the cells declares
  StackEnvs        \* what the .env files define

VARIABLES
  stkInput,     \* the stack, what its cells declare, the environment, onMissing
  stkStep,      \* "load", "cells", "done" or "failed"
  stkEnv        \* the resolved params of the cells done so far, in order

stackVars == <<stkInput, stkStep, stkEnv>>

ASSUME StacksAssumption ==
  \A s \in Stacks :
    /\ DOMAIN s.cells = 1..Len(s.cells) /\ Len(s.cells) \in Nat
    /\ \A params \in {s.params} \union {s.cells[i].params : i \in DOMAIN s.cells} :
         \A k \in DOMAIN params : IsValue(params[k])

(* walkParamTree stops at arrays. *)
WalkParamTree(params) ==
  UNION {Reached(params[k], {"object"}) : k \in DOMAIN params}

MountsOf(stack) == {cell.mount : cell \in ToSet(stack.cells)}

(* loadOtaviaYaml: cells, a default and a callback among their mounts, no !Param *)
(* in the params of the stack, no !Env or !Secret in those of a cell.            *)
LoadOtaviaYaml(stack) ==
  /\ stack.cells # <<>>
  /\ stack.defaultCell \in MountsOf(stack) \union {""}
  /\ stack.callback \in MountsOf(stack) \union {""}
  /\ \A n \in WalkParamTree(stack.params) : n.kind # "param"
  /\ \A i \in DOMAIN stack.cells : \A n \in WalkParamTree(stack.cells[i].params) : n.kind \notin Tags

(* resolveCellValue: !Param becomes the value of the stack as it is. *)
CellValue(v, stack) == WithParams(v, stack)

(* The bug of the params of the stack over those of the cell. *)
MergeStackFirst(stack, cell) == stack @@ [k \in DOMAIN cell |-> CellValue(cell[k], stack)]

MergeParams(stack, cell) ==
  [k \in DOMAIN cell \union DOMAIN stack |->
     IF k \in DOMAIN cell THEN CellValue(cell[k], stack) ELSE stack[k]]

AssertDeclaredParamsProvided(declared, params) ==
  \A k \in declared : k \in DOMAIN params /\ params[k] # Absent

(* resolveValue enters objects and stops at arrays. *)
Resolved(node, env) ==
  IF node.kind \notin Tags THEN node
  ELSE IF node.name \in DOMAIN env THEN ParamNode("string", env[node.name])
  ELSE ParamNode("missing", node.name)
ResolveValue(v, env) ==
  [p \in DOMAIN v |-> IF Entered(v, p, {"object"}) THEN Resolved(v[p], env) ELSE v[p]]

ResolveParams(params, env) == [k \in DOMAIN params |-> ResolveValue(params[k], env)]

MissingParams(params) == {n \in WalkParamTree(params) : n.kind = "missing"}

------------------------------------------------------------------------------
StackInputs ==
  [stack : Stacks, declared : Declarations, env : StackEnvs, placeholder : BOOLEAN]

StackConfigInit ==
  /\ stkInput \in StackInputs
  /\ stkStep = "load" /\ stkEnv = <<>>

LoadStack ==
  /\ stkStep = "load"
  /\ stkStep' = IF LoadOtaviaYaml(stkInput.stack) THEN "cells" ELSE "failed"
  /\ UNCHANGED <<stkInput, stkEnv>>

(* The loop over the cells of dev and deploy: merge, check, resolve. *)
ResolveCell ==
  LET i == Len(stkEnv) + 1
      stack == stkInput.stack
      merged == MergeParams(stack.params, stack.cells[i].params)
      resolved == ResolveParams(merged, stkInput.env)
  IN /\ stkStep = "cells" /\ i <= Len(stack.cells)
     /\ IF /\ AssertDeclaredParamsProvided(stkInput.declared, merged)
           /\ stkInput.placeholder \/ MissingParams(resolved) = {}
        THEN /\ stkEnv' = Append(stkEnv, resolved)
             /\ stkStep' = IF i = Len(stack.cells) THEN "done" ELSE "cells"
        ELSE stkStep' = "failed" /\ UNCHANGED stkEnv
     /\ UNCHANGED stkInput

StackConfigNext == LoadStack \/ ResolveCell

StackConfigTypeOK ==
  /\ stkStep \in {"load", "cells", "done", "failed"}
  /\ stkEnv # <<>> => Len(stkEnv) <= Len(stkInput.stack.cells)

------------------------------------------------------------------------------
(* What a node of the files stands for: a tag for what the .env files say of it. *)
StandsFor(got, node, env) ==
  /\ node.kind \notin Tags => got = node
  /\ node.kind \in Tags /\ node.name \in DOMAIN env => got = ParamNode("string", env[node.name])
  /\ node.kind \in Tags /\ node.name \notin DOMAIN env => got = ParamNode("missing", node.name)

(* A value of the files has, at the end, what it says at every path: its own nodes, *)
(* and below a !Param those of the stack's value of that name, and nothing else.    *)
Stands(got, value, stack, env) ==
  LET is(s, node) == s \in DOMAIN got /\ StandsFor(got[s], node, env)
      params == {p \in DOMAIN value : value[p].kind = "param"}
      of(p) == ParamValue(value[p], stack)
  IN /\ \A p \in DOMAIN value \ params : is(p, value[p])
     /\ \A p \in params : \A r \in DOMAIN of(p) : is(p \o r, of(p)[r])
     /\ \A s \in DOMAIN got :
          s \in DOMAIN value \ params \/ \E p \in params : \E r \in DOMAIN of(p) : s = p \o r

NoArrays(params) ==
  \A k \in DOMAIN params : \A n \in Reached(params[k], Inner) : n.kind # "array"

(* A cell that starts gets, for every key of its own and of the stack, what the files  *)
(* say: its own value before the stack's, every tag replaced by what it stands for; no *)
(* tag of either kind is left in its environment unless it sits inside an array, and   *)
(* everything the cell declares is there.                                              *)
CellParamsStand ==
  \A i \in DOMAIN stkEnv :
    LET cell == stkInput.stack.cells[i].params
        stack == stkInput.stack.params
    IN /\ stkInput.declared \subseteq DOMAIN stkEnv[i]
       /\ ~ stkInput.placeholder => MissingParams(stkEnv[i]) = {}
       /\ NoArrays(cell) /\ NoArrays(stack) =>
            \A k \in DOMAIN stkEnv[i] :
              /\ Stands(stkEnv[i][k], IF k \in DOMAIN cell THEN cell[k] ELSE stack[k],
                        stack, stkInput.env)
              /\ \A n \in Reached(stkEnv[i][k], Inner) : n.kind \notin Tags \union {"param"}
=============================================================================
