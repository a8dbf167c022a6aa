---------------------------- MODULE MCCasStore ----------------------------
(***************************************************************************)
(* A small instance of CasStore: a root directory and a sibling that share *)
(* a file, so that garbage and a live tree have a node in common.          *)
(***************************************************************************)
EXTENDS CasStore, TLC

CONSTANTS file, root, other

MCKeys == {file, root, other}
MCChildren == [k \in MCKeys |-> IF k = file THEN {} ELSE {file}]
MCPinned == {root}
MCRootSets == {{root}}

WriterSymmetry == Permutations(Writers)
=============================================================================
