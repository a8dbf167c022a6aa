------------------------------ MODULE CoreTree ------------------------------
(***************************************************************************)
(* Files as trees of nodes (packages/core): the layout of a file of a size *)
(* (topology.ts), its nodes put one by one with the children first, and    *)
(* its bytes read back through them, also while they are put               *)
(* (controller.ts).  The bytes of a file are the numbers 1, 2, ... ; a     *)
(* node's key is its content, so the storage is a set of nodes.  Both      *)
(* calls are recursive: each variable for a call is the stack of its       *)
(* frames, the innermost last.                                             *)
(***************************************************************************)
EXTENDS Naturals, Sequences, SequencesExt

CONSTANTS
  Hash,      \* HASH_SIZE, what a child takes of its parent
  InfoSize,  \* FILEINFO_SIZE, what a file node has beside data and children
  Usable,    \* computeUsableSpace, what a node has for children and data
  Rounded,   \* the whole part of computeCapacity(2)
  FileSizes, \* the sizes of the files that are written
  MaxFiles   \* bound on the writeFile calls of a behaviour

Ratio == Usable \div Hash

(* computeCapacity as far as whole sizes are compared with it: exact for a leaf.   *)
(* For two levels it is the exponential of a difference of logarithms, which may   *)
(* fall short of Ratio * Usable; one that is too large is to whole sizes as if     *)
(* exact.  A third level is modelled as long as one child is enough, so that no    *)
(* child is cut at the fraction that its capacity has.                             *)
Capacity == <<Usable, Rounded>>
Room == <<Usable, Rounded, Rounded + Usable - Hash>>

ASSUME CoreTreeAssumption ==
  /\ Hash \in Nat \ {0} /\ InfoSize \in Nat
  /\ Usable = Hash * Ratio /\ Ratio \in Nat \ {0, 1}
  /\ Rounded \in {Ratio * Usable - 1, Ratio * Usable}
  /\ FileSizes \subseteq 0..Room[3]

VARIABLES
  nodes,     \* the nodes in storage
  files,     \* how many writeFile calls there were
  upload,    \* the frames of uploadFileNode
  reading,   \* the frames of streamFileNodeData
  got        \* the bytes that the reader has been given

treeVars == <<nodes, files, upload, reading, got>>

Least(a, b) == IF a < b THEN a ELSE b

(* computeDepth *)
DepthOf(size) == IF size <= Usable THEN 1 ELSE IF size <= Rounded THEN 2 ELSE 3

(* How many children a node needs beside its data, rounded up; each of them     *)
(* takes space of the node.  A plausible bug is to round down.                  *)
ChildCountDown(size, d) ==
  IF d = 1 \/ size <= Usable THEN 0 ELSE (size - Usable) \div (Capacity[d - 1] - Hash)

ChildCount(size, d) ==
  IF d = 1 \/ size <= Usable THEN 0
  ELSE LET gain == Capacity[d - 1] - Hash IN (size - Usable + gain - 1) \div gain

(* computeLayoutAtDepth, as far as it is a node's own: the node of size bytes    *)
(* from offset on has data bytes and count children, for which left bytes remain; *)
(* total is computeLayoutTotalSize, as far as the children are uploaded.         *)
LayoutAt(offset, size, d) ==
  LET count == ChildCount(size, d)
      data == Least(size, Usable - count * Hash)
  IN [offset |-> offset, size |-> size, depth |-> d, data |-> data, count |-> count,
      left |-> size - data, children |-> <<>>, total |-> data]

CoreTreeInit == nodes = {} /\ files = 0 /\ upload = <<>> /\ reading = <<>> /\ got = <<>>

(* writeFile *)
WriteFile(size) ==
  /\ upload = <<>> /\ files < MaxFiles
  /\ upload' = <<LayoutAt(0, size, DepthOf(size))>> /\ files' = files + 1
  /\ UNCHANGED <<nodes, reading, got>>

(* The next child: the leftmost is filled first, and begins where what has been *)
(* uploaded of this node ends.                                                  *)
UploadChild ==
  LET f == Last(upload)
      size == Least(f.left, Capacity[f.depth - 1])
  IN /\ upload # <<>> /\ Len(f.children) < f.count
     /\ upload' = Append([upload EXCEPT ![Len(upload)].left = @ - size],
                         LayoutAt(f.offset + f.total, size, f.depth - 1))
     /\ UNCHANGED <<nodes, files, reading, got>>

(* encodeFileNode, encodeSuccessorNode; a file node also has its FileInfo.  span is *)
(* what the node's layout comes to, a history that no code reads.                  *)
NodeOf(f, isRoot) ==
  [kind |-> IF isRoot THEN "file" ELSE "successor", offset |-> f.offset, data |-> f.data,
   info |-> IF isRoot THEN InfoSize ELSE 0, children |-> f.children,
   fileSize |-> IF isRoot THEN f.size ELSE 0, span |-> f.total]

(* What it takes beside its header *)
TakenBy(n) == n.info + n.data + Hash * Len(n.children)

WithChild(f, child, total) ==
  [f EXCEPT !.children = Append(@, child), !.total = @ + total]

(* A node whose children are all there is put, and its caller goes on. *)
PutNode ==
  LET f == Last(upload)
      k == Len(upload) - 1
      node == NodeOf(f, k = 0)
  IN /\ upload # <<>> /\ Len(f.children) = f.count
     /\ nodes' = nodes \union {node}
     /\ upload' = IF k = 0 THEN <<>>
                  ELSE [Front(upload) EXCEPT ![k] = WithChild(@, node, f.total)]
     /\ UNCHANGED <<files, reading, got>>

(* The storage fails, or the process ends. *)
WriterFails == upload # <<>> /\ upload' = <<>> /\ UNCHANGED <<nodes, files, reading, got>>

(* streamFileNodeData gives the bytes of a node, then goes through its children. *)
Frame(node) == [node |-> node, next |-> 1]
BytesOf(node) == [i \in 1..node.data |-> node.offset + i]

(* openFileStream, readFile *)
OpenFile(node) ==
  /\ reading = <<>> /\ node \in nodes
  /\ reading' = <<Frame(node)>> /\ got' = BytesOf(node)
  /\ UNCHANGED <<nodes, files, upload>>

(* The next child; one that the storage does not have is passed over. *)
ReadChild ==
  LET f == Last(reading)
      child == f.node.children[f.next]
      here == [reading EXCEPT ![Len(reading)].next = @ + 1]
  IN /\ reading # <<>> /\ f.next <= Len(f.node.children)
     /\ reading' = IF child \in nodes THEN Append(here, Frame(child)) ELSE here
     /\ got' = IF child \in nodes THEN got \o BytesOf(child) ELSE got
     /\ UNCHANGED <<nodes, files, upload>>

NodeIsRead == LET f == Last(reading) IN reading # <<>> /\ f.next > Len(f.node.children)

ReadReturns ==
  /\ NodeIsRead
  /\ reading' = Front(reading)
  /\ got' = IF Len(reading) = 1 THEN <<>> ELSE got
  /\ UNCHANGED <<nodes, files, upload>>

CoreTreeNext ==
  \/ \E size \in FileSizes : WriteFile(size)
  \/ UploadChild \/ PutNode \/ WriterFails
  \/ \E node \in nodes : OpenFile(node)
  \/ ReadChild \/ ReadReturns

CoreTreeSpec == CoreTreeInit /\ [][CoreTreeNext]_treeVars

-----------------------------------------------------------------------------
(* The types of the variables *)
CoreTreeTypeOK ==
  /\ files \in Nat
  /\ \A n \in nodes : n.kind \in {"file", "successor"} /\ n.data \in 0..Usable
  /\ \A i \in 1..Len(upload) : upload[i].depth \in 1..3 /\ upload[i].left \in Nat
  /\ \A i \in 1..Len(reading) : reading[i].node \in nodes

(* Whatever node is in storage, a read that starts there gives a piece of the   *)
(* file without a gap, from the node's first byte on, and the whole file from   *)
(* the file node: also while a writer writes, and after one that came to no end.  *)
(* A successor takes no more than the space that the limit leaves it; a file node  *)
(* no more than that and its FileInfo, which the layout does not reserve.         *)
StoredReadsBack ==
  /\ \A n \in nodes : TakenBy(n) <= IF n.kind = "file" THEN Usable + InfoSize ELSE Usable
  /\ reading # <<>> =>
       LET n == reading[1].node
       IN /\ \A i \in 1..Len(got) : got[i] = n.offset + i
          /\ n.kind = "file" /\ Len(reading) = 1 /\ NodeIsRead => Len(got) = n.fileSize
=============================================================================
