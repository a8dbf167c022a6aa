--------------------------- MODULE CasStoreProofs ---------------------------
(***************************************************************************)
(* What holds of CoreTree for every size of keys, nodes and files, and of  *)
(* CasStore for every set of keys, every shape of the tree, any number of  *)
(* putNode and gc calls and both kinds of provider.                        *)
(***************************************************************************)
EXTENDS CasStore, CoreTree, TLAPS

-----------------------------------------------------------------------------
(* Numbers: what the levels hold, and how a quotient is rounded up. *)
LEMMA Sizes ==
  /\ Hash \in Nat \ {0} /\ Ratio \in Nat /\ Ratio >= 2 /\ Usable = Hash * Ratio
  /\ Usable \in Nat /\ Usable >= Hash + Hash /\ InfoSize \in Nat
<1>1. Hash \in Nat /\ Hash >= 1 /\ Ratio \in Nat /\ Ratio >= 2 /\ Usable = Hash * Ratio
      /\ InfoSize \in Nat
  BY CoreTreeAssumption
<1>. QED BY <1>1

LEMMA RoundedIs ==
  Rounded \in Nat /\ Rounded >= Usable /\ Rounded <= Ratio * Usable /\ Ratio * Usable \in Nat
<1>1. Rounded = Ratio * Usable - 1 \/ Rounded = Ratio * Usable
  BY CoreTreeAssumption
<1>2. Ratio * Usable \in Nat /\ Ratio * Usable >= Usable + Usable /\ Usable >= 2
  BY Sizes
<1>. QED BY <1>1, <1>2, Sizes

LEMMA CapacityHolds ==
  \A d \in 1..2 : Capacity[d] \in Nat /\ Capacity[d] >= Usable /\ Room[d] = Capacity[d]
<1>1. Capacity[1] = Usable /\ Room[1] = Usable /\ Capacity[2] = Rounded /\ Room[2] = Rounded
  BY DEF Capacity, Room
<1>. QED BY <1>1, Sizes, RoundedIs

LEMMA RoomIs ==
  /\ Room[1] = Usable /\ Room[2] = Rounded /\ Room[3] = Rounded + Usable - Hash
  /\ \A d \in 1..3 : Room[d] \in Nat
<1>1. Room[1] = Usable /\ Room[2] = Rounded /\ Room[3] = Rounded + Usable - Hash
  BY DEF Room
<1>. QED BY <1>1, Sizes, RoundedIs

LEMMA Quotient ==
  ASSUME NEW a \in Nat, NEW g \in Nat, g > 0
  PROVE  a \div g \in Nat /\ g * (a \div g) <= a /\ a < g * (a \div g) + g
BY Z3

LEMMA RoundedUp ==
  ASSUME NEW a \in Nat, a > 0, NEW g \in Nat, g > 0
  PROVE  LET n == (a + g - 1) \div g IN n \in Nat /\ n > 0 /\ a <= g * n /\ g * n - g < a
<1>. DEFINE n == (a + g - 1) \div g
<1>1. a + g - 1 \in Nat
  OBVIOUS
<1>2. n \in Nat /\ g * n <= a + g - 1 /\ a + g - 1 < g * n + g
  BY <1>1, Quotient
<1>. HIDE DEF n
<1>3. g * n \in Nat
  BY <1>2
<1>4. n # 0
  BY <1>2
<1>. QED BY <1>2, <1>3, <1>4

(* The children that a node still has room for, and what is left for them: all  *)
(* but the last of them are full.                                               *)
RestFits(left, m, d) ==
  /\ left \in Nat /\ m \in Nat
  /\ m = 0 => left = 0
  /\ m > 0 => d > 1 /\ left <= m * Capacity[d - 1] /\ left > (m - 1) * Capacity[d - 1]

LEMMA RestShrinks ==
  ASSUME NEW d \in 1..3, NEW m \in Nat, m > 0, NEW left \in Nat, RestFits(left, m, d)
  PROVE  LET size == Least(left, Capacity[d - 1])
         IN /\ d - 1 \in 1..2 /\ size \in 0..Capacity[d - 1] /\ size <= left
            /\ RestFits(left - size, m - 1, d)
<1>. DEFINE c == Capacity[d - 1]
            size == Least(left, c)
<1>1. d - 1 \in 1..2
  BY Sizes DEF RestFits
<1>2. c \in Nat /\ c >= Usable
  BY <1>1, CapacityHolds
<1>3. left <= m * c /\ left > (m - 1) * c
  BY DEF RestFits
<1>. HIDE DEF c
<1>4. size \in Nat /\ size <= c /\ size <= left
  BY <1>2 DEF Least
<1>5. m * c = (m - 1) * c + c /\ (m - 1) * c \in Nat
  BY <1>2
<1>6. CASE m = 1
  <2>1. left <= c
    BY <1>2, <1>3, <1>6
  <2>2. size = left
    BY <1>2, <2>1 DEF Least
  <2>. QED BY <1>1, <1>4, <1>6, <2>2 DEF RestFits, c
<1>7. CASE m > 1
  <2>1. (m - 1) * c = (m - 2) * c + c /\ (m - 2) * c \in Nat
    BY <1>2, <1>7
  <2>2. size = c
    BY <1>2, <1>3, <2>1 DEF Least
  <2>3. left - size <= (m - 1) * c /\ left - size > (m - 1 - 1) * c
    BY <1>2, <1>3, <1>5, <1>7, <2>1, <2>2
  <2>. QED BY <1>1, <1>4, <1>7, <2>3 DEF RestFits, c
<1>. QED BY <1>6, <1>7

(* The layout of a node takes no more than its space, and has children enough. *)
LEMMA LayoutFits ==
  ASSUME NEW offset \in Nat, NEW d \in 1..3, NEW size \in 0..Room[d]
  PROVE  LET f == LayoutAt(offset, size, d)
         IN /\ f.data \in Nat /\ f.data + f.left = size
            /\ f.data + Hash * f.count <= Usable
            /\ RestFits(f.left, f.count, d)
<1>. DEFINE n == ChildCount(size, d)
            data == Least(size, Usable - n * Hash)
            f == LayoutAt(offset, size, d)
<1>1. Room[d] \in Nat /\ size \in Nat /\ size <= Room[d] /\ (d = 1 => Room[d] = Usable)
  BY RoomIs
<1>2. f.data = data /\ f.left = size - data /\ f.count = n
  BY DEF LayoutAt
<1>3. CASE d = 1 \/ size <= Usable
  <2>1. n = 0
    BY <1>3 DEF ChildCount
  <2>2. size <= Usable
    BY <1>1, <1>3
  <2>3. n * Hash = 0 /\ Hash * n = 0
    BY <2>1, Sizes
  <2>4. data = size
    BY <1>1, <2>2, <2>3, Sizes DEF Least
  <2>. HIDE DEF data, n
  <2>. QED BY <1>1, <1>2, <2>1, <2>2, <2>3, <2>4, Sizes DEF RestFits
<1>4. CASE d # 1 /\ size > Usable
  <2>. DEFINE c == Capacity[d - 1]
              gain == c - Hash
  <2>1. d - 1 \in 1..2 /\ d > 1
    BY <1>4
  <2>2. c \in Nat /\ c >= Usable
    BY <2>1, CapacityHolds
  <2>3. n = (size - Usable + gain - 1) \div gain
    BY <1>1, <1>4, Sizes DEF ChildCount
  <2>4. size <= gain * Ratio + Usable
    <3>1. CASE d = 2
      <4>1. c = Usable /\ size <= Ratio * Usable
        <5>1. size <= Rounded
          BY <1>1, <3>1, RoomIs
        <5>. QED BY <1>1, <3>1, <5>1, RoundedIs DEF Capacity
      <4>. HIDE DEF c
      <4>2. gain * Ratio + Usable = Ratio * Usable
        BY <4>1, Sizes
      <4>. QED BY <4>1, <4>2
    <3>2. CASE d = 3
      <4>1. c = Rounded /\ size <= Rounded + Usable - Hash
        BY <1>1, <3>2, RoomIs DEF Capacity
      <4>. HIDE DEF c
      <4>2. gain \in Nat /\ gain * Ratio >= gain /\ gain + Hash = Rounded
        BY <4>1, Sizes, RoundedIs
      <4>. HIDE DEF gain
      <4>3. gain * Ratio \in Nat
        BY <4>2, Sizes
      <4>. QED BY <1>1, <4>1, <4>2, <4>3, Sizes, RoundedIs
    <3>. QED BY <1>4, <3>1, <3>2
  <2>. HIDE DEF c
  <2>5. gain \in Nat /\ gain > 0 /\ size - Usable \in Nat /\ size - Usable > 0
    BY <1>1, <1>4, <2>2, Sizes
  <2>7. c = gain + Hash
    BY <2>2, Sizes
  <2>. HIDE DEF gain
  <2>6. n \in Nat /\ n > 0 /\ size - Usable <= gain * n /\ gain * n - gain < size - Usable
    BY <2>3, <2>5, RoundedUp
  <2>. HIDE DEF n
  <2>8. n <= Ratio
    <3>1. gain * n - gain < gain * Ratio
      BY <1>1, <2>4, <2>5, <2>6, Sizes
    <3>2. gain * (n - 1) < gain * Ratio
      BY <2>5, <2>6, <3>1, Sizes
    <3>3. n - 1 < Ratio
      BY <2>5, <2>6, <3>2, Sizes
    <3>. QED BY <2>6, <3>3, Sizes
  <2>9. Hash * n \in Nat /\ n * Hash = Hash * n /\ Hash * n <= Usable
    BY <2>6, <2>8, Sizes
  <2>10. data = Usable - Hash * n /\ data \in Nat
    BY <1>1, <1>4, <2>9, Sizes DEF Least
  <2>. HIDE DEF data
  <2>11. n * c = gain * n + Hash * n /\ (n - 1) * c = gain * n - gain + Hash * n - Hash
    BY <2>2, <2>5, <2>6, <2>7, Sizes
  <2>12. size - data \in Nat /\ size - data <= n * c /\ size - data > (n - 1) * c
    <3>1. gain * n \in Nat
      BY <2>5, <2>6
    <3>. QED BY <1>1, <1>4, <2>5, <2>6, <2>9, <2>10, <2>11, <3>1, Sizes
  <2>13. RestFits(f.left, f.count, d)
    BY <1>2, <2>1, <2>6, <2>12 DEF RestFits, c
  <2>. QED BY <1>1, <1>2, <2>9, <2>10, <2>13, Sizes
<1>. QED BY <1>1, <1>3, <1>4, Sizes

LEMMA DepthHolds ==
  ASSUME NEW size \in FileSizes
  PROVE  DepthOf(size) \in 1..3 /\ size \in 0..Room[DepthOf(size)]
<1>1. size \in 0..Room[3]
  BY CoreTreeAssumption
<1>2. size \in Nat /\ size <= Room[3]
  BY <1>1, RoomIs
<1>. QED BY <1>2, RoomIs, Sizes, RoundedIs DEF DepthOf

-----------------------------------------------------------------------------
(* Where the first i children of a node end, whose data ends at start. *)
EndOf(start, children, i) ==
  IF i = 0 THEN start ELSE children[i].offset + children[i].span

(* Each child begins where the one before it ends. *)
Adjoin(start, children) ==
  \A i \in 1..Len(children) : children[i].offset = EndOf(start, children, i - 1)

(* A node in storage has its children there, one beside the other. *)
NodeFits(n, S) ==
  /\ n.kind \in {"file", "successor"}
  /\ n.offset \in Nat /\ n.data \in Nat /\ n.span \in Nat
  /\ n.children \in Seq(S)
  /\ Adjoin(n.offset + n.data, n.children)
  /\ n.offset + n.span = EndOf(n.offset + n.data, n.children, Len(n.children))
  /\ n.data + Hash * Len(n.children) <= Usable
  /\ n.info = IF n.kind = "file" THEN InfoSize ELSE 0
  /\ n.kind = "file" => n.fileSize = n.span

NodesFit == \A n \in nodes : NodeFits(n, nodes)

(* A frame of the writer of which busy children, one or none, are under way *)
Frames(S) == [offset : Nat, size : Nat, depth : 1..3, data : Nat, count : Nat,
              left : Nat, children : Seq(S), total : Nat]

FrameFits(f, busy) ==
  /\ f.data + Hash * f.count <= Usable
  /\ Len(f.children) + busy <= f.count
  /\ RestFits(f.left, f.count - Len(f.children) - busy, f.depth)
  /\ Adjoin(f.offset + f.data, f.children)
  /\ f.offset + f.total = EndOf(f.offset + f.data, f.children, Len(f.children))

(* The frame c is that of the child under way of f. *)
Calls(f, c) == c.offset = f.offset + f.total /\ f.total + c.size + f.left = f.size

UploadFits ==
  LET n == Len(upload)
  IN /\ upload \in Seq(Frames(nodes))
     /\ \A i \in 1..n : FrameFits(upload[i], IF i = n THEN 0 ELSE 1)
     /\ \A i \in 1..(n - 1) : Calls(upload[i], upload[i + 1])
     /\ n # 0 => upload[n].total + upload[n].left = upload[n].size

Readers(S) == [node : S, next : Nat]

(* The frames of the reader: the last one has given what is up to its next child. *)
ReadingFits ==
  LET n == Len(reading)
  IN /\ reading \in Seq(Readers(nodes))
     /\ \A i \in 1..n : reading[i].next \in 1..(Len(reading[i].node.children) + 1)
     /\ \A i \in 1..(n - 1) :
          /\ reading[i].next > 1
          /\ reading[i].node.children[reading[i].next - 1] = reading[i + 1].node
     /\ n # 0 =>
          LET f == reading[n].node
              first == reading[1].node.offset
          IN /\ got \in Seq(Nat)
             /\ first + Len(got) = EndOf(f.offset + f.data, f.children, reading[n].next - 1)
             /\ \A i \in 1..Len(got) : got[i] = first + i

TreeInv == files \in Nat /\ NodesFit /\ UploadFits /\ ReadingFits

(* A node that fits still does when others are put. *)
LEMMA FramesGrow ==
  ASSUME NEW S, NEW T, S \subseteq T
  PROVE  Seq(S) \subseteq Seq(T) /\ Frames(S) \subseteq Frames(T)
         /\ Seq(Frames(S)) \subseteq Seq(Frames(T))
<1>1. \A A, B : A \subseteq B => Seq(A) \subseteq Seq(B)
  OBVIOUS
<1>2. Seq(S) \subseteq Seq(T)
  BY <1>1
<1>3. Frames(S) \subseteq Frames(T)
  BY <1>2 DEF Frames
<1>. QED BY <1>1, <1>2, <1>3

LEMMA NodeGrows ==
  ASSUME NEW S, NEW T, S \subseteq T, NEW n, NodeFits(n, S)
  PROVE  NodeFits(n, T)
BY FramesGrow DEF NodeFits

LEMMA FrameFields ==
  ASSUME NEW S, NEW f \in Frames(S)
  PROVE  /\ f.offset \in Nat /\ f.total \in Nat /\ f.depth \in 1..3 /\ f.left \in Nat
         /\ f.count \in Nat /\ f.size \in Nat /\ f.data \in Nat
         /\ f.children \in Seq(S) /\ Len(f.children) \in Nat
BY DEF Frames

(* A frame that begins fits. *)
LEMMA FrameBegins ==
  ASSUME NEW offset \in Nat, NEW d \in 1..3, NEW size \in 0..Room[d], NEW S,
         NEW f, f = LayoutAt(offset, size, d)
  PROVE  /\ f \in Frames(S) /\ FrameFits(f, 0)
         /\ f.offset = offset /\ f.size = size /\ f.total + f.left = size
<1>1. /\ f = [offset |-> offset, size |-> size, depth |-> d, data |-> f.data, count |-> f.count,
              left |-> f.left, children |-> <<>>, total |-> f.data]
      /\ f.offset = offset /\ f.size = size /\ f.depth = d /\ f.children = <<>> /\ f.total = f.data
  BY DEF LayoutAt
<1>2. /\ f.data \in Nat /\ f.data + f.left = size /\ f.data + Hash * f.count <= Usable
      /\ RestFits(f.left, f.count, d)
  BY LayoutFits
<1>3. Room[d] \in Nat /\ size \in Nat
  BY RoomIs
<1>4. f.left \in Nat /\ f.count \in Nat /\ <<>> \in Seq(S) /\ Len(<<>>) = 0
  BY <1>2 DEF RestFits
<1>5. f \in Frames(S)
  BY <1>1, <1>2, <1>3, <1>4 DEF Frames
<1>6. f.count - Len(f.children) - 0 = f.count /\ Len(f.children) + 0 <= f.count
  BY <1>1, <1>4
<1>7. FrameFits(f, 0)
  BY <1>1, <1>2, <1>4, <1>6 DEF FrameFits, Adjoin, EndOf
<1>. QED BY <1>1, <1>2, <1>5, <1>7

LEMMA CoreInit == CoreTreeInit => TreeInv
BY DEF CoreTreeInit, TreeInv, NodesFit, UploadFits, ReadingFits

LEMMA WriteKeeps ==
  ASSUME TreeInv, NEW size \in FileSizes, WriteFile(size)
  PROVE  TreeInv'
<1>. DEFINE f == LayoutAt(0, size, DepthOf(size))
<1>1. f \in Frames(nodes) /\ FrameFits(f, 0) /\ f.total + f.left = f.size
  BY DepthHolds, FrameBegins
<1>2. /\ upload' = <<f>> /\ files' = files + 1 /\ nodes' = nodes /\ reading' = reading /\ got' = got
  BY DEF WriteFile
<1>. HIDE DEF f
<1>3. UploadFits'
  <2>1. upload' \in Seq(Frames(nodes')) /\ Len(upload') = 1 /\ upload'[1] = f
    <3>. HIDE DEF Frames
    <3>. QED BY <1>1, <1>2
  <2>2. /\ \A i \in 1..Len(upload') : i = 1 /\ i = Len(upload')
        /\ \A i \in 1..(Len(upload') - 1) : FALSE
    BY <2>1
  <2>3. \A i \in 1..Len(upload') : FrameFits(upload'[i], IF i = Len(upload') THEN 0 ELSE 1)
    BY <1>1, <2>1, <2>2
  <2>4. upload'[Len(upload')].total + upload'[Len(upload')].left = upload'[Len(upload')].size
    BY <1>1, <2>1
  <2>. QED BY <2>1, <2>2, <2>3, <2>4 DEF UploadFits
<1>4. files' \in Nat
  BY <1>2 DEF TreeInv
<1>5. NodesFit' /\ ReadingFits'
  <2>1. NodesFit /\ ReadingFits
    BY DEF TreeInv
  <2>. QED BY <1>2, <2>1 DEF NodesFit, ReadingFits
<1>. QED BY <1>3, <1>4, <1>5 DEF TreeInv

LEMMA ChildKeeps ==
  ASSUME TreeInv, UploadChild
  PROVE  TreeInv'
<1>. DEFINE n == Len(upload)
            f == upload[n]
            size == Least(f.left, Capacity[f.depth - 1])
            g == [f EXCEPT !.left = @ - size]
            c == LayoutAt(f.offset + f.total, size, f.depth - 1)
            up == [upload EXCEPT ![n].left = @ - size]
<1>1. /\ upload # <<>> /\ Len(f.children) < f.count /\ upload' = Append(up, c)
      /\ nodes' = nodes /\ files' = files /\ reading' = reading /\ got' = got
  BY DEF UploadChild, Last
<1>2. /\ upload \in Seq(Frames(nodes)) /\ n \in Nat /\ n > 0 /\ f \in Frames(nodes)
      /\ FrameFits(f, 0) /\ f.total + f.left = f.size
  BY <1>1 DEF TreeInv, UploadFits
<1>3. /\ f.offset \in Nat /\ f.total \in Nat /\ f.depth \in 1..3 /\ f.left \in Nat
      /\ f.count \in Nat /\ f.size \in Nat /\ f.data \in Nat
      /\ f.children \in Seq(nodes) /\ Len(f.children) \in Nat
  BY <1>2, FrameFields
<1>. DEFINE m == f.count - Len(f.children)
<1>4. m \in Nat /\ m > 0 /\ RestFits(f.left, m, f.depth)
  <2>1. m = f.count - Len(f.children) - 0 /\ m \in Nat /\ m > 0
    BY <1>1, <1>3
  <2>. QED BY <1>2, <2>1 DEF FrameFits
<1>5. /\ f.depth - 1 \in 1..2 /\ size \in 0..Capacity[f.depth - 1] /\ size <= f.left
      /\ RestFits(f.left - size, m - 1, f.depth)
  <2>. HIDE DEF m
  <2>. QED BY <1>3, <1>4, RestShrinks
<1>6. /\ c \in Frames(nodes) /\ FrameFits(c, 0) /\ c.offset = f.offset + f.total
      /\ c.size = size /\ c.total + c.left = c.size
  <2>1. f.offset + f.total \in Nat
    BY <1>3
  <2>. DEFINE o == f.offset + f.total
              e == f.depth - 1
  <2>2. c = LayoutAt(o, size, e) /\ o \in Nat /\ e \in 1..3 /\ size \in 0..Room[e]
    <3>1. e \in 1..2 /\ size \in 0..Capacity[e]
      BY <1>5
    <3>2. Room[e] = Capacity[e]
      <4>. HIDE DEF e
      <4>. QED BY <3>1, CapacityHolds
    <3>3. size \in 0..Room[e]
      BY <3>1, <3>2
    <3>4. e \in 1..3
      <4>. HIDE DEF e
      <4>. QED BY <3>1
    <3>. QED BY <2>1, <3>3, <3>4
  <2>. HIDE DEF f, size, c, o, e
  <2>3. /\ c \in Frames(nodes) /\ FrameFits(c, 0)
        /\ c.offset = o /\ c.size = size /\ c.total + c.left = size
    BY <2>2, FrameBegins
  <2>. QED BY <2>3 DEF o
<1>7. size \in Nat /\ f.left - size \in Nat
  BY <1>3, <1>5, CapacityHolds
<1>. HIDE DEF size, c
<1>8. /\ g \in Frames(nodes) /\ g.data = f.data /\ g.count = f.count /\ g.offset = f.offset
      /\ g.children = f.children /\ g.total = f.total /\ g.size = f.size /\ g.depth = f.depth
      /\ g.left = f.left - size
  BY <1>2, <1>7 DEF Frames
<1>9. FrameFits(g, 1) /\ Calls(g, c)
  <2>1. g.count - Len(g.children) - 1 = m - 1 /\ Len(g.children) + 1 <= g.count
    BY <1>3, <1>4, <1>8
  <2>2. g.total + c.size + g.left = g.size
    BY <1>2, <1>3, <1>6, <1>7, <1>8
  <2>. QED BY <1>2, <1>5, <1>6, <1>8, <2>1, <2>2 DEF FrameFits, Calls
<1>. HIDE DEF g, m
<1>10. up \in Seq(Frames(nodes)) /\ Len(up) = n /\ up[n] = g /\ \A i \in 1..n : i # n => up[i] = upload[i]
  BY <1>2, <1>8 DEF g
<1>11. UploadFits'
  <2>. DEFINE now == Append(up, c)
  <2>1. /\ now \in Seq(Frames(nodes)) /\ Len(now) = n + 1 /\ now[n + 1] = c /\ now[n] = g
        /\ \A i \in 1..n : i # n => now[i] = upload[i]
    <3>. HIDE DEF up
    <3>. QED BY <1>2, <1>6, <1>10
  <2>. HIDE DEF now
  <2>2. \A i \in 1..n : i # n => FrameFits(upload[i], 1)
    BY DEF TreeInv, UploadFits
  <2>3. \A i \in 1..(n - 1) : Calls(upload[i], upload[i + 1])
    BY DEF TreeInv, UploadFits
  <2>4. ASSUME NEW i \in 1..(n + 1) PROVE FrameFits(now[i], IF i = n + 1 THEN 0 ELSE 1)
    <3>1. i = n + 1 \/ i = n \/ (i \in 1..n /\ i # n)
      BY <1>2
    <3>2. i \in 1..n => i # n + 1
      BY <1>2
    <3>3. n \in 1..n
      BY <1>2
    <3>. QED BY <1>6, <1>9, <2>1, <2>2, <3>1, <3>2, <3>3
  <2>5. ASSUME NEW i \in 1..n PROVE Calls(now[i], now[i + 1])
    <3>1. CASE i = n
      BY <1>9, <2>1, <3>1
    <3>2. CASE i # n
      <4>1. i \in 1..(n - 1) /\ i + 1 \in 1..n /\ Calls(upload[i], upload[i + 1])
            /\ now[i] = upload[i]
        BY <1>2, <2>1, <2>3, <3>2
      <4>2. now[i + 1].offset = upload[i + 1].offset /\ now[i + 1].size = upload[i + 1].size
        BY <1>8, <2>1, <4>1
      <4>. QED BY <4>1, <4>2 DEF Calls
    <3>. QED BY <3>1, <3>2
  <2>6. n + 1 - 1 = n /\ Len(upload') = n + 1 /\ upload' = now
    BY <1>1, <1>2, <2>1 DEF now
  <2>7. upload'[n + 1].total + upload'[n + 1].left = upload'[n + 1].size
    BY <1>6, <2>1, <2>6
  <2>8. upload' \in Seq(Frames(nodes')) /\ Len(upload') - 1 = n
    <3>1. upload' \in Seq(Frames(nodes)) /\ nodes' = nodes
      BY <1>1, <2>1, <2>6
    <3>2. Len(upload') - 1 = n
      BY <1>2, <2>6
    <3>. QED BY <3>1, <3>2, Zenon
  <2>9. \A i \in 1..Len(upload') : FrameFits(upload'[i], IF i = Len(upload') THEN 0 ELSE 1)
    BY <2>4, <2>6
  <2>10. \A i \in 1..(Len(upload') - 1) : Calls(upload'[i], upload'[i + 1])
    BY <2>5, <2>6, <2>8
  <2>. QED BY <2>6, <2>7, <2>8, <2>9, <2>10, Zenon DEF UploadFits
<1>. QED BY <1>1, <1>11 DEF TreeInv, NodesFit, ReadingFits

(* The node of a frame whose children are all there fits. *)
LEMMA NodeComes ==
  ASSUME NEW S, NEW f \in Frames(S), FrameFits(f, 0), f.total + f.left = f.size,
         Len(f.children) = f.count, NEW isRoot \in BOOLEAN,
         NEW node, node = NodeOf(f, isRoot)
  PROVE  NodeFits(node, S) /\ node.offset = f.offset /\ node.span = f.total /\ f.total = f.size
<1>1. /\ f.offset \in Nat /\ f.total \in Nat /\ f.depth \in 1..3 /\ f.left \in Nat
      /\ f.count \in Nat /\ f.size \in Nat /\ f.data \in Nat
      /\ f.children \in Seq(S) /\ Len(f.children) \in Nat
  BY FrameFields
<1>2. /\ node.kind = (IF isRoot THEN "file" ELSE "successor") /\ node.offset = f.offset
      /\ node.data = f.data /\ node.children = f.children
      /\ node.fileSize = (IF isRoot THEN f.size ELSE 0) /\ node.span = f.total
      /\ node.info = (IF isRoot THEN InfoSize ELSE 0)
  BY DEF NodeOf
<1>3. f.count - Len(f.children) - 0 = 0
  BY <1>1
<1>4. f.left = 0
  BY <1>3 DEF FrameFits, RestFits
<1>5. f.total = f.size
  BY <1>1, <1>4
<1>6. /\ node.kind \in {"file", "successor"}
      /\ node.kind = "file" => node.fileSize = node.span
      /\ node.info = IF node.kind = "file" THEN InfoSize ELSE 0
  <2>1. CASE isRoot
    BY <1>2, <1>5, <2>1
  <2>2. CASE ~ isRoot
    BY <1>2, <2>2
  <2>. QED BY <2>1, <2>2
<1>. QED BY <1>1, <1>2, <1>5, <1>6 DEF FrameFits, NodeFits

(* One more child, put beside those that are there *)
LEMMA ChildReturns ==
  ASSUME NEW S, NEW p \in Frames(S), FrameFits(p, 1), NEW node \in S, NEW total \in Nat,
         node.offset = p.offset + p.total, node.span = total,
         NEW g, g = WithChild(p, node, total)
  PROVE  /\ g \in Frames(S) /\ FrameFits(g, 0) /\ g.offset = p.offset /\ g.size = p.size
         /\ g.total = p.total + total /\ g.left = p.left
<1>. DEFINE m == Len(p.children)
            start == p.offset + p.data
<1>1. /\ p.offset \in Nat /\ p.total \in Nat /\ p.depth \in 1..3 /\ p.left \in Nat
      /\ p.count \in Nat /\ p.size \in Nat /\ p.data \in Nat
      /\ p.children \in Seq(S) /\ m \in Nat
  BY FrameFields
<1>2. /\ g.offset = p.offset /\ g.size = p.size /\ g.depth = p.depth /\ g.data = p.data
      /\ g.count = p.count /\ g.left = p.left
      /\ g.children = Append(p.children, node) /\ g.total = p.total + total
      /\ g = [offset |-> g.offset, size |-> g.size, depth |-> g.depth, data |-> g.data,
              count |-> g.count, left |-> g.left, children |-> g.children, total |-> g.total]
  BY DEF Frames, WithChild
<1>3. /\ g.children \in Seq(S) /\ Len(g.children) = m + 1 /\ g.children[m + 1] = node
      /\ \A i \in 1..m : g.children[i] = p.children[i]
  BY <1>1, <1>2
<1>4. g \in Frames(S)
  <2>1. /\ g.offset \in Nat /\ g.size \in Nat /\ g.depth \in 1..3 /\ g.data \in Nat
        /\ g.count \in Nat /\ g.left \in Nat /\ g.children \in Seq(S) /\ g.total \in Nat
    BY <1>1, <1>2, <1>3
  <2>. HIDE DEF m, start
  <2>. QED BY <1>2, <2>1 DEF Frames
<1>5. \A i \in 0..m : EndOf(start, g.children, i) = EndOf(start, p.children, i)
  BY <1>1, <1>3 DEF EndOf
<1>6. EndOf(start, g.children, m + 1) = g.offset + g.total
  <2>1. EndOf(start, g.children, m + 1) = node.offset + node.span
    BY <1>1, <1>3 DEF EndOf
  <2>. QED BY <1>1, <1>2, <2>1
<1>7. p.offset + p.total = EndOf(start, p.children, m) /\ Adjoin(start, p.children)
  BY DEF FrameFits
<1>8. Adjoin(start, g.children)
  <2>1. ASSUME NEW i \in 1..(m + 1) PROVE g.children[i].offset = EndOf(start, g.children, i - 1)
    <3>1. CASE i = m + 1
      <4>1. i - 1 = m /\ m \in 0..m /\ g.children[i] = node
        BY <1>1, <1>3, <3>1
      <4>. QED BY <1>5, <1>7, <4>1
    <3>2. CASE i # m + 1
      <4>1. i \in 1..m /\ i - 1 \in 0..m
        BY <1>1, <3>2
      <4>2. p.children[i].offset = EndOf(start, p.children, i - 1)
        BY <1>7, <4>1 DEF Adjoin
      <4>. QED BY <1>3, <1>5, <4>1, <4>2
    <3>. QED BY <3>1, <3>2
  <2>. QED BY <1>3, <2>1 DEF Adjoin
<1>9. p.count - m - 1 = g.count - Len(g.children) - 0 /\ Len(g.children) + 0 <= g.count
  <2>1. m + 1 <= p.count
    BY DEF FrameFits
  <2>. QED BY <1>1, <1>2, <1>3, <2>1
<1>10. RestFits(g.left, g.count - Len(g.children) - 0, g.depth)
  BY <1>2, <1>9 DEF FrameFits
<1>11. g.offset + g.data = start /\ g.data + Hash * g.count <= Usable
  BY <1>2 DEF FrameFits
<1>. HIDE DEF start, m
<1>12. FrameFits(g, 0)
  BY <1>3, <1>6, <1>8, <1>9, <1>10, <1>11 DEF FrameFits
<1>. QED BY <1>2, <1>4, <1>12

LEMMA ReaderGrows ==
  ASSUME TreeInv, nodes \subseteq nodes', UNCHANGED <<reading, got>>
  PROVE  ReadingFits'
<1>1. reading \in Seq(Readers(nodes))
  BY DEF TreeInv, ReadingFits
<1>2. Readers(nodes) \subseteq Readers(nodes')
  BY DEF Readers
<1>3. reading \in Seq(Readers(nodes'))
  BY <1>1, <1>2
<1>. QED BY <1>3 DEF TreeInv, ReadingFits

LEMMA PutKeeps ==
  ASSUME TreeInv, PutNode
  PROVE  TreeInv'
<1>. DEFINE n == Len(upload)
            f == upload[n]
            k == n - 1
            node == NodeOf(f, k = 0)
            p == upload[k]
            g == WithChild(p, node, f.total)
<1>1. /\ upload # <<>> /\ Len(f.children) = f.count
      /\ nodes' = nodes \union {node} /\ files' = files /\ reading' = reading /\ got' = got
      /\ k = 0 => upload' = <<>>
      /\ k # 0 => upload' = [SubSeq(upload, 1, k) EXCEPT ![k] = WithChild(@, node, f.total)]
  BY DEF PutNode, Last, Front
<1>2. /\ upload \in Seq(Frames(nodes)) /\ n \in Nat /\ n > 0 /\ f \in Frames(nodes)
      /\ FrameFits(f, 0) /\ f.total + f.left = f.size /\ k \in Nat /\ Len(upload) = n
  BY <1>1 DEF TreeInv, UploadFits
<1>. HIDE DEF n
<1>3. NodeFits(node, nodes) /\ node.offset = f.offset /\ node.span = f.total /\ f.total = f.size
  <2>. DEFINE isRoot == k = 0
  <2>1. isRoot \in BOOLEAN /\ node = NodeOf(f, isRoot)
    OBVIOUS
  <2>2. Len(f.children) = f.count
    BY <1>1
  <2>. HIDE DEF f, k, node, isRoot
  <2>. QED BY <1>2, <2>1, <2>2, NodeComes
<1>. HIDE DEF node
<1>4. NodesFit'
  <2>1. \A x \in nodes' : NodeFits(x, nodes)
    BY <1>1, <1>3 DEF TreeInv, NodesFit
  <2>2. \A x \in nodes' : NodeFits(x, nodes')
    BY <1>1, <2>1, NodeGrows
  <2>. QED BY <2>2 DEF NodesFit
<1>5. ReadingFits'
  BY <1>1, ReaderGrows
<1>6. UploadFits'
  <2>1. CASE k = 0
    <3>1. upload' = <<>>
      BY <1>1, <2>1
    <3>. QED BY <3>1 DEF UploadFits
  <2>2. CASE k # 0
    <3>1. /\ k \in 1..n /\ k \in 1..(n - 1) /\ k # n /\ k + 1 = n
      BY <1>2, <2>2
    <3>2. p \in Frames(nodes) /\ FrameFits(p, 1) /\ Calls(p, f)
      <4>1. p \in Frames(nodes)
        BY <1>2, <3>1
      <4>2. FrameFits(upload[k], 1) /\ Calls(upload[k], upload[k + 1])
        <5>1. /\ \A i \in 1..n : FrameFits(upload[i], IF i = n THEN 0 ELSE 1)
              /\ \A i \in 1..(n - 1) : Calls(upload[i], upload[i + 1])
          BY <1>2 DEF TreeInv, UploadFits
        <5>. HIDE DEF k
        <5>. QED BY <3>1, <5>1
      <4>. QED BY <3>1, <4>1, <4>2
    <3>3. p \in Frames(nodes') /\ f.total \in Nat /\ upload \in Seq(Frames(nodes'))
      <4>1. Frames(nodes) \subseteq Frames(nodes') /\ Seq(Frames(nodes)) \subseteq Seq(Frames(nodes'))
        BY <1>1, FramesGrow
      <4>2. f.total \in Nat
        <5>. HIDE DEF f
        <5>. QED BY <1>2, FrameFields
      <4>. QED BY <1>2, <3>2, <4>1, <4>2
    <3>4. /\ g \in Frames(nodes') /\ FrameFits(g, 0) /\ g.offset = p.offset /\ g.size = p.size
          /\ g.total = p.total + f.total /\ g.left = p.left
      <4>1. node \in nodes' /\ node.offset = p.offset + p.total /\ node.span = f.total
        BY <1>1, <1>3, <3>2 DEF Calls
      <4>. DEFINE total == f.total
                  S == nodes'
      <4>2. g = WithChild(p, node, total)
        OBVIOUS
      <4>3. /\ total \in Nat /\ node.span = total /\ node \in S /\ node.offset = p.offset + p.total
            /\ p \in Frames(S) /\ FrameFits(p, 1)
        BY <3>2, <3>3, <4>1
      <4>. HIDE DEF p, g, total, S, k
      <4>4. /\ g \in Frames(S) /\ FrameFits(g, 0) /\ g.offset = p.offset /\ g.size = p.size
            /\ g.total = p.total + total /\ g.left = p.left
        BY <4>2, <4>3, ChildReturns
      <4>. QED BY <4>4 DEF total, S
    <3>. DEFINE up == SubSeq(upload, 1, k)
    <3>5. up \in Seq(Frames(nodes')) /\ Len(up) = k /\ \A i \in 1..k : up[i] = upload[i]
      <4>. DEFINE F == Frames(nodes')
      <4>1. upload \in Seq(F) /\ Len(upload) = n /\ k \in 1..n
        BY <1>2, <3>1, <3>3
      <4>. HIDE DEF F, k
      <4>2. up \in Seq(F) /\ Len(up) = k /\ \A i \in 1..k : up[i] = upload[i]
        BY <1>2, <4>1
      <4>. QED BY <4>2 DEF F
    <3>6. upload' = [up EXCEPT ![k] = g]
      <4>1. up[k] = p
        BY <3>1, <3>5
      <4>2. upload' = [up EXCEPT ![k] = WithChild(@, node, f.total)]
        BY <1>1, <2>2
      <4>. HIDE DEF up, p, k
      <4>. QED BY <4>1, <4>2
    <3>. HIDE DEF up, g
    <3>7. /\ upload' \in Seq(Frames(nodes')) /\ Len(upload') = k /\ upload'[k] = g
          /\ \A i \in 1..k : i # k => upload'[i] = upload[i]
      <4>. DEFINE F == Frames(nodes')
      <4>1. up \in Seq(F) /\ Len(up) = k /\ k \in 1..k /\ g \in F /\ k \in Nat
        BY <1>2, <3>1, <3>4, <3>5
      <4>. HIDE DEF F, k
      <4>2. upload' \in Seq(F) /\ Len(upload') = k /\ upload'[k] = g
            /\ \A i \in 1..k : i # k => upload'[i] = upload[i]
        BY <3>5, <3>6, <4>1
      <4>. QED BY <4>2 DEF F
    <3>8. \A i \in 1..(n - 1) : FrameFits(upload[i], 1)
      BY <1>2 DEF TreeInv, UploadFits
    <3>9. \A i \in 1..(n - 1) : Calls(upload[i], upload[i + 1])
      BY <1>2 DEF TreeInv, UploadFits
    <3>10. \A i \in 1..Len(upload') : FrameFits(upload'[i], IF i = Len(upload') THEN 0 ELSE 1)
      <4>1. ASSUME NEW i \in 1..k PROVE FrameFits(upload'[i], IF i = k THEN 0 ELSE 1)
        <5>1. i \in 1..(n - 1)
          BY <1>2, <3>1
        <5>. QED BY <3>4, <3>7, <3>8, <5>1
      <4>. QED BY <3>7, <4>1
    <3>11. \A i \in 1..(Len(upload') - 1) : Calls(upload'[i], upload'[i + 1])
      <4>1. ASSUME NEW i \in 1..(k - 1) PROVE Calls(upload'[i], upload'[i + 1])
        <5>1. i \in 1..(n - 1) /\ i \in 1..k /\ i # k /\ i + 1 \in 1..k
          BY <1>2, <3>1
        <5>2. upload'[i] = upload[i] /\ Calls(upload[i], upload[i + 1])
          BY <3>7, <3>9, <5>1
        <5>3. upload'[i + 1].offset = upload[i + 1].offset /\ upload'[i + 1].size = upload[i + 1].size
          <6>1. CASE i + 1 = k
            BY <3>4, <3>7, <6>1
          <6>2. CASE i + 1 # k
            BY <3>7, <5>1, <6>2
          <6>. QED BY <6>1, <6>2
        <5>. QED BY <5>2, <5>3 DEF Calls
      <4>. QED BY <3>7, <4>1
    <3>12. upload'[k].total + upload'[k].left = upload'[k].size
      <4>1. p.total + f.size + p.left = p.size /\ f.total = f.size
        BY <1>3, <3>2 DEF Calls
      <4>2. p.total \in Nat /\ p.left \in Nat /\ f.total \in Nat
        BY <3>2, <3>3, FrameFields
      <4>. QED BY <3>4, <3>7, <4>1, <4>2
    <3>. QED BY <3>7, <3>10, <3>11, <3>12, Zenon DEF UploadFits
  <2>. QED BY <2>1, <2>2
<1>. QED BY <1>1, <1>4, <1>5, <1>6 DEF TreeInv

LEMMA FailKeeps ==
  ASSUME TreeInv, WriterFails
  PROVE  TreeInv'
<1>1. upload' = <<>> /\ nodes' = nodes /\ files' = files /\ reading' = reading /\ got' = got
  BY DEF WriterFails
<1>2. UploadFits'
  BY <1>1 DEF UploadFits
<1>. QED BY <1>1, <1>2 DEF TreeInv, NodesFit, ReadingFits

(* What a node in storage is, for its reader *)
LEMMA NodeFields ==
  ASSUME TreeInv, NEW n \in nodes
  PROVE  /\ n.offset \in Nat /\ n.data \in Nat /\ n.span \in Nat
         /\ n.children \in Seq(nodes) /\ Len(n.children) \in Nat
         /\ \A i \in 1..Len(n.children) :
              n.children[i].offset = EndOf(n.offset + n.data, n.children, i - 1)
         /\ n.offset + n.span = EndOf(n.offset + n.data, n.children, Len(n.children))
         /\ n.kind = "file" => n.fileSize = n.span
BY DEF TreeInv, NodesFit, NodeFits, Adjoin

LEMMA BytesAre ==
  ASSUME NEW n, n.data \in Nat, n.offset \in Nat
  PROVE  /\ BytesOf(n) \in Seq(Nat) /\ Len(BytesOf(n)) = n.data
         /\ \A i \in 1..n.data : BytesOf(n)[i] = n.offset + i
BY DEF BytesOf

LEMMA ReaderFields ==
  ASSUME TreeInv, NEW r \in Readers(nodes)
  PROVE  /\ r.node \in nodes /\ r.next \in Nat
         /\ r.node.offset \in Nat /\ r.node.data \in Nat /\ r.node.span \in Nat
         /\ r.node.children \in Seq(nodes) /\ Len(r.node.children) \in Nat
<1>1. r.node \in nodes /\ r.next \in Nat
  BY DEF Readers
<1>. QED BY <1>1, NodeFields

LEMMA FrameIs ==
  ASSUME NEW S, NEW node \in S
  PROVE  Frame(node) \in Readers(S) /\ Frame(node).node = node /\ Frame(node).next = 1
BY DEF Frame, Readers

(* What the frames of a read under way are *)
LEMMA ReaderIs ==
  ASSUME TreeInv, reading # <<>>, NEW n, n = Len(reading)
  PROVE  /\ reading \in Seq(Readers(nodes)) /\ n \in Nat /\ n > 0 /\ 1 \in 1..n /\ n \in 1..n
         /\ \A i \in 1..n : /\ reading[i] \in Readers(nodes)
                            /\ reading[i].next \in 1..(Len(reading[i].node.children) + 1)
         /\ \A i \in 1..(n - 1) :
              /\ reading[i].next > 1
              /\ reading[i].node.children[reading[i].next - 1] = reading[i + 1].node
         /\ got \in Seq(Nat) /\ Len(got) \in Nat
         /\ \A i \in 1..Len(got) : got[i] = reading[1].node.offset + i
         /\ reading[1].node.offset + Len(got)
              = EndOf(reading[n].node.offset + reading[n].node.data, reading[n].node.children,
                      reading[n].next - 1)
<1>1. reading \in Seq(Readers(nodes))
  BY DEF TreeInv, ReadingFits
<1>2. n \in Nat /\ n > 0
  BY <1>1
<1>3. 1 \in 1..n /\ n \in 1..n /\ n # 0
  BY <1>2
<1>4. \A i \in 1..n : reading[i] \in Readers(nodes)
  BY <1>1
<1>5. /\ \A i \in 1..n : reading[i].next \in 1..(Len(reading[i].node.children) + 1)
      /\ \A i \in 1..(n - 1) :
           /\ reading[i].next > 1
           /\ reading[i].node.children[reading[i].next - 1] = reading[i + 1].node
  BY DEF TreeInv, ReadingFits
<1>6. /\ got \in Seq(Nat)
      /\ \A i \in 1..Len(got) : got[i] = reading[1].node.offset + i
      /\ reading[1].node.offset + Len(got)
           = EndOf(reading[n].node.offset + reading[n].node.data, reading[n].node.children,
                   reading[n].next - 1)
  BY <1>3 DEF TreeInv, ReadingFits
<1>7. Len(got) \in Nat
  BY <1>6
<1>. QED BY <1>1, <1>2, <1>3, <1>4, <1>5, <1>6, <1>7

(* The next child of a node of m children, and past the last one *)
LEMMA NextChild ==
  ASSUME NEW m \in Nat, NEW x \in 1..(m + 1)
  PROVE  /\ x > m => x - 1 = m
         /\ x <= m => x \in 1..m /\ x + 1 \in 1..(m + 1) /\ x + 1 - 1 = x /\ x + 1 > 1
OBVIOUS

LEMMA Moved ==
  ASSUME NEW a \in Nat, NEW b \in Nat, NEW c \in Nat, NEW i \in Nat, a + b = c
  PROVE  c + (i - b) = a + i
OBVIOUS

(* The bytes of a child go on where those before it end. *)
LEMMA BytesGoOn ==
  ASSUME NEW s \in Seq(Nat), NEW t \in Seq(Nat), NEW first \in Nat, NEW start \in Nat,
         \A i \in 1..Len(s) : s[i] = first + i,
         \A i \in 1..Len(t) : t[i] = start + i,
         first + Len(s) = start
  PROVE  /\ s \o t \in Seq(Nat) /\ Len(s \o t) = Len(s) + Len(t)
         /\ \A i \in 1..Len(s \o t) : (s \o t)[i] = first + i
<1>1. /\ s \o t \in Seq(Nat) /\ Len(s \o t) = Len(s) + Len(t) /\ Len(s) \in Nat /\ Len(t) \in Nat
      /\ \A i \in 1..(Len(s) + Len(t)) :
           (s \o t)[i] = IF i <= Len(s) THEN s[i] ELSE t[i - Len(s)]
  OBVIOUS
<1>2. ASSUME NEW i \in 1..(Len(s) + Len(t)) PROVE (s \o t)[i] = first + i
  <2>1. CASE i <= Len(s)
    <3>1. i \in 1..Len(s) /\ (s \o t)[i] = s[i]
      BY <1>1, <2>1
    <3>. QED BY <3>1
  <2>2. CASE ~ (i <= Len(s))
    <3>1. i - Len(s) \in 1..Len(t) /\ (s \o t)[i] = t[i - Len(s)]
      BY <1>1, <2>2
    <3>2. t[i - Len(s)] = start + (i - Len(s))
      BY <3>1
    <3>3. start + (i - Len(s)) = first + i
      <4>. DEFINE b == Len(s)
      <4>1. i \in Nat /\ b \in Nat /\ first + b = start
        BY <1>1
      <4>. HIDE DEF b
      <4>2. start + (i - b) = first + i
        BY <4>1, Moved
      <4>. QED BY <4>2 DEF b
    <3>. QED BY <3>1, <3>2, <3>3
  <2>. QED BY <2>1, <2>2
<1>. QED BY <1>1, <1>2

LEMMA OpenKeeps ==
  ASSUME TreeInv, NEW node \in nodes, OpenFile(node)
  PROVE  TreeInv'
<1>1. /\ reading' = <<Frame(node)>> /\ got' = BytesOf(node)
      /\ nodes' = nodes /\ files' = files /\ upload' = upload
  BY DEF OpenFile
<1>2. /\ node.offset \in Nat /\ node.data \in Nat /\ Len(node.children) \in Nat
  BY NodeFields
<1>3. /\ got' \in Seq(Nat) /\ Len(got') = node.data
      /\ \A i \in 1..Len(got') : got'[i] = node.offset + i
  BY <1>1, <1>2, BytesAre
<1>4. Frame(node) \in Readers(nodes) /\ Frame(node).node = node /\ Frame(node).next = 1
  BY FrameIs
<1>5. /\ reading' \in Seq(Readers(nodes')) /\ Len(reading') = 1
      /\ reading'[1].node = node /\ reading'[1].next = 1
  BY <1>1, <1>4
<1>6. node.offset + Len(got') = EndOf(node.offset + node.data, node.children, 1 - 1)
  BY <1>3 DEF EndOf
<1>7. ReadingFits'
  <2>1. 1 \in 1..(Len(node.children) + 1)
    BY <1>2
  <2>. QED BY <1>3, <1>5, <1>6, <2>1 DEF ReadingFits
<1>. QED BY <1>1, <1>7 DEF TreeInv, NodesFit, UploadFits

(* The frames of a read after a step, as ReadingFits has them *)
LEMMA ReaderFits ==
  ASSUME NEW n \in Nat, n > 0, NEW m, m = n - 1, reading' \in Seq(Readers(nodes')), Len(reading') = n,
         \A i \in 1..n : reading'[i].next \in 1..(Len(reading'[i].node.children) + 1),
         \A i \in 1..m :
           /\ reading'[i].next > 1
           /\ reading'[i].node.children[reading'[i].next - 1] = reading'[i + 1].node,
         got' \in Seq(Nat),
         \A i \in 1..Len(got') : got'[i] = reading'[1].node.offset + i,
         reading'[1].node.offset + Len(got')
           = EndOf(reading'[n].node.offset + reading'[n].node.data, reading'[n].node.children,
                   reading'[n].next - 1)
  PROVE  ReadingFits'
BY DEF ReadingFits

LEMMA ReaderDone ==
  ASSUME reading' \in Seq(Readers(nodes')), Len(reading') = 0
  PROVE  ReadingFits'
<1>1. 1..Len(reading') = {} /\ 1..(Len(reading') - 1) = {}
  OBVIOUS
<1>. QED BY <1>1 DEF ReadingFits

LEMMA ReadKeeps ==
  ASSUME TreeInv, ReadChild
  PROVE  TreeInv'
<1>. DEFINE n == Len(reading)
            f == reading[n]
            kids == f.node.children
            child == kids[f.next]
            g == [f EXCEPT !.next = @ + 1]
            here == [reading EXCEPT ![n].next = @ + 1]
            first == reading[1].node.offset
<1>1. /\ reading # <<>> /\ f.next <= Len(kids)
      /\ reading' = IF child \in nodes THEN Append(here, Frame(child)) ELSE here
      /\ got' = IF child \in nodes THEN got \o BytesOf(child) ELSE got
      /\ nodes' = nodes /\ files' = files /\ upload' = upload
  BY DEF ReadChild, Last
<1>2. /\ reading \in Seq(Readers(nodes)) /\ n \in Nat /\ n > 0 /\ 1 \in 1..n /\ n \in 1..n
      /\ \A i \in 1..n : /\ reading[i] \in Readers(nodes)
                         /\ reading[i].next \in 1..(Len(reading[i].node.children) + 1)
      /\ \A i \in 1..(n - 1) :
           /\ reading[i].next > 1
           /\ reading[i].node.children[reading[i].next - 1] = reading[i + 1].node
      /\ got \in Seq(Nat) /\ Len(got) \in Nat
      /\ \A i \in 1..Len(got) : got[i] = first + i
      /\ first + Len(got) = EndOf(f.node.offset + f.node.data, kids, f.next - 1)
  BY <1>1, ReaderIs
<1>. HIDE DEF n
<1>3. f \in Readers(nodes) /\ reading[1] \in Readers(nodes)
  BY <1>2
<1>4. /\ f.node \in nodes /\ f.next \in Nat /\ kids \in Seq(nodes) /\ Len(kids) \in Nat
      /\ first \in Nat
  BY <1>3, ReaderFields
<1>5. f.next \in 1..Len(kids) /\ f.next + 1 \in 1..(Len(kids) + 1) /\ f.next + 1 - 1 = f.next
      /\ f.next + 1 > 1
  <2>1. f.next \in 1..(Len(kids) + 1)
    BY <1>2
  <2>. HIDE DEF f, kids
  <2>. QED BY <1>1, <1>4, <2>1, NextChild
<1>6. child \in nodes /\ child.offset = EndOf(f.node.offset + f.node.data, kids, f.next - 1)
  <2>1. child \in nodes
    BY <1>4, <1>5
  <2>2. \A i \in 1..Len(kids) : kids[i].offset = EndOf(f.node.offset + f.node.data, kids, i - 1)
    BY <1>4, NodeFields
  <2>. QED BY <1>5, <2>1, <2>2
<1>. HIDE DEF child, first
<1>7. /\ child.offset \in Nat /\ child.data \in Nat /\ Len(child.children) \in Nat
      /\ first + Len(got) = child.offset
  BY <1>2, <1>6, NodeFields
<1>8. /\ got' \in Seq(Nat) /\ Len(got') = Len(got) + child.data
      /\ \A i \in 1..Len(got') : got'[i] = first + i
  <2>. DEFINE bytes == BytesOf(child)
  <2>1. /\ bytes \in Seq(Nat) /\ Len(bytes) = child.data
        /\ \A i \in 1..Len(bytes) : bytes[i] = child.offset + i
    BY <1>7, BytesAre
  <2>2. got' = got \o bytes
    BY <1>1, <1>6
  <2>. HIDE DEF bytes
  <2>3. /\ got \o bytes \in Seq(Nat) /\ Len(got \o bytes) = Len(got) + Len(bytes)
        /\ \A i \in 1..Len(got \o bytes) : (got \o bytes)[i] = first + i
    <3>. DEFINE start == child.offset
    <3>1. /\ start \in Nat /\ first \in Nat /\ first + Len(got) = start
          /\ \A i \in 1..Len(bytes) : bytes[i] = start + i
      BY <1>4, <1>7, <2>1
    <3>2. got \in Seq(Nat) /\ \A i \in 1..Len(got) : got[i] = first + i
      BY <1>2
    <3>. HIDE DEF start
    <3>. QED BY <2>1, <3>1, <3>2, BytesGoOn
  <2>. QED BY <2>1, <2>2, <2>3
<1>9. g \in Readers(nodes) /\ g.node = f.node /\ g.next = f.next + 1
  BY <1>3, <1>4 DEF Readers
<1>10. here = [reading EXCEPT ![n] = g]
  BY <1>2
<1>11. /\ here \in Seq(Readers(nodes)) /\ Len(here) = n /\ here[n] = g
       /\ \A i \in 1..n : i # n => here[i] = reading[i]
  <2>1. Len(reading) = n
    BY DEF n
  <2>. HIDE DEF here, g, f
  <2>. QED BY <1>2, <1>9, <1>10, <2>1
<1>. DEFINE top == Frame(child)
<1>12. top \in Readers(nodes) /\ top.node = child /\ top.next = 1
  BY <1>6, FrameIs
<1>13. reading' = Append(here, top)
  BY <1>1, <1>6
<1>. HIDE DEF here, top, g
<1>14. /\ reading' \in Seq(Readers(nodes)) /\ Len(reading') = n + 1 /\ reading'[n + 1] = top
       /\ \A i \in 1..n : reading'[i] = here[i]
  BY <1>2, <1>11, <1>12, <1>13
<1>15. /\ reading'[n] = g /\ \A i \in 1..n : i # n => reading'[i] = reading[i]
  BY <1>2, <1>11, <1>14
<1>. HIDE DEF f, kids
<1>16. f = reading[n] /\ kids = f.node.children /\ child = kids[f.next] /\ first = reading[1].node.offset
  BY DEF f, kids, child, first
<1>17. ASSUME NEW i \in 1..(n + 1)
       PROVE  reading'[i].next \in 1..(Len(reading'[i].node.children) + 1)
  <2>1. CASE i = n + 1
    <3>1. 1 \in 1..(Len(child.children) + 1)
      BY <1>7
    <3>. QED BY <1>12, <1>14, <2>1, <3>1
  <2>2. CASE i = n
    <3>1. reading'[i].next = f.next + 1 /\ reading'[i].node.children = kids
      BY <1>9, <1>15, <1>16, <2>2
    <3>. QED BY <1>5, <3>1
  <2>3. CASE i # n /\ i # n + 1
    <3>1. i \in 1..n
      BY <1>2, <2>3
    <3>2. reading'[i] = reading[i]
      BY <1>15, <2>3, <3>1
    <3>. QED BY <1>2, <3>1, <3>2
  <2>. QED BY <2>1, <2>2, <2>3
<1>18. ASSUME NEW i \in 1..n
       PROVE  /\ reading'[i].next > 1
              /\ reading'[i].node.children[reading'[i].next - 1] = reading'[i + 1].node
  <2>1. CASE i = n
    <3>1. /\ reading'[i].next = f.next + 1 /\ reading'[i].node.children = kids
          /\ reading'[i + 1].node = child
      BY <1>9, <1>12, <1>14, <1>15, <1>16, <2>1
    <3>. QED BY <1>5, <1>16, <3>1
  <2>2. CASE i # n
    <3>1. i \in 1..(n - 1) /\ i + 1 \in 1..n
      BY <1>2, <2>2
    <3>2. reading'[i] = reading[i]
      BY <1>15, <2>2
    <3>3. reading'[i + 1].node = reading[i + 1].node
      <4>1. CASE i + 1 = n
        BY <1>9, <1>15, <1>16, <4>1
      <4>2. CASE i + 1 # n
        BY <1>15, <3>1, <4>2
      <4>. QED BY <4>1, <4>2
    <3>4. /\ reading[i].next > 1
          /\ reading[i].node.children[reading[i].next - 1] = reading[i + 1].node
      BY <1>2, <3>1
    <3>. QED BY <3>2, <3>3, <3>4
  <2>. QED BY <2>1, <2>2
<1>19. reading'[1].node.offset = first
  <2>1. CASE n = 1
    BY <1>9, <1>15, <1>16, <2>1
  <2>2. CASE n # 1
    BY <1>2, <1>15, <1>16, <2>2
  <2>. QED BY <2>1, <2>2
<1>20. first + Len(got') = EndOf(child.offset + child.data, child.children, top.next - 1)
  <2>1. first + Len(got') = child.offset + child.data
    BY <1>2, <1>4, <1>7, <1>8
  <2>2. top.next - 1 = 0
    BY <1>12
  <2>. QED BY <2>1, <2>2 DEF EndOf
<1>21. ReadingFits'
  <2>2. reading' \in Seq(Readers(nodes')) /\ Len(reading') = n + 1
    BY <1>1, <1>14
  <2>3. \A i \in 1..(n + 1) : reading'[i].next \in 1..(Len(reading'[i].node.children) + 1)
    BY <1>17
  <2>4. /\ \A i \in 1..Len(got') : got'[i] = reading'[1].node.offset + i
        /\ reading'[1].node.offset + Len(got')
             = EndOf(reading'[n + 1].node.offset + reading'[n + 1].node.data,
                     reading'[n + 1].node.children, reading'[n + 1].next - 1)
    BY <1>8, <1>12, <1>14, <1>19, <1>20
  <2>5. got' \in Seq(Nat)
    BY <1>8
  <2>. DEFINE t == n + 1
  <2>6. t \in Nat /\ t > 0 /\ n = t - 1
    BY <1>2
  <2>7. /\ reading' \in Seq(Readers(nodes')) /\ Len(reading') = t
        /\ \A i \in 1..t : reading'[i].next \in 1..(Len(reading'[i].node.children) + 1)
        /\ reading'[1].node.offset + Len(got')
             = EndOf(reading'[t].node.offset + reading'[t].node.data, reading'[t].node.children,
                     reading'[t].next - 1)
    BY <2>2, <2>3, <2>4
  <2>8. \A i \in 1..Len(got') : got'[i] = reading'[1].node.offset + i
    BY <2>4
  <2>. HIDE DEF t
  <2>. QED BY <1>18, <2>5, <2>6, <2>7, <2>8, ReaderFits
<1>. QED BY <1>1, <1>21 DEF TreeInv, NodesFit, UploadFits

LEMMA ReturnKeeps ==
  ASSUME TreeInv, ReadReturns
  PROVE  TreeInv'
<1>. DEFINE n == Len(reading)
            f == reading[n]
            k == n - 1
            p == reading[k]
            first == reading[1].node.offset
<1>1. /\ reading # <<>> /\ f.next > Len(f.node.children)
      /\ reading' = SubSeq(reading, 1, k) /\ got' = IF n = 1 THEN <<>> ELSE got
      /\ nodes' = nodes /\ files' = files /\ upload' = upload
  BY DEF ReadReturns, NodeIsRead, Last, Front
<1>2. /\ reading \in Seq(Readers(nodes)) /\ n \in Nat /\ n > 0 /\ 1 \in 1..n /\ n \in 1..n
      /\ \A i \in 1..n : /\ reading[i] \in Readers(nodes)
                         /\ reading[i].next \in 1..(Len(reading[i].node.children) + 1)
      /\ \A i \in 1..(n - 1) :
           /\ reading[i].next > 1
           /\ reading[i].node.children[reading[i].next - 1] = reading[i + 1].node
      /\ got \in Seq(Nat) /\ Len(got) \in Nat
      /\ \A i \in 1..Len(got) : got[i] = first + i
      /\ first + Len(got) = EndOf(f.node.offset + f.node.data, f.node.children, f.next - 1)
  BY <1>1, ReaderIs
<1>3. f \in Readers(nodes) /\ Len(reading) = n
  BY <1>2
<1>. HIDE DEF n
<1>4. /\ f.node \in nodes /\ f.next \in 1..(Len(f.node.children) + 1)
      /\ Len(f.node.children) \in Nat /\ f.node.offset \in Nat /\ f.node.span \in Nat
  BY <1>2, <1>3, ReaderFields
<1>5. first + Len(got) = f.node.offset + f.node.span
  <2>1. f.next - 1 = Len(f.node.children)
    <3>. HIDE DEF f
    <3>. QED BY <1>1, <1>4, NextChild
  <2>2. f.node.offset + f.node.span
          = EndOf(f.node.offset + f.node.data, f.node.children, Len(f.node.children))
    BY <1>4, NodeFields
  <2>. QED BY <1>2, <2>1, <2>2
<1>6. k \in Nat /\ k <= n
  BY <1>2
<1>7. /\ reading' \in Seq(Readers(nodes)) /\ Len(reading') = k
      /\ \A i \in 1..k : reading'[i] = reading[i]
  <2>. HIDE DEF k
  <2>. QED BY <1>1, <1>2, <1>3, <1>6
<1>8. CASE k = 0
  <2>1. reading' \in Seq(Readers(nodes')) /\ Len(reading') = 0
    BY <1>1, <1>7, <1>8
  <2>2. ReadingFits'
    BY <2>1, ReaderDone
  <2>. QED BY <1>1, <2>2 DEF TreeInv, NodesFit, UploadFits
<1>9. CASE k # 0
  <2>1. /\ k \in 1..n /\ k \in 1..(n - 1) /\ k + 1 = n /\ n # 1 /\ k \in 1..k /\ 1 \in 1..k /\ k > 0
    BY <1>2, <1>6, <1>9
  <2>2. p \in Readers(nodes)
    BY <1>2, <2>1
  <2>3. p.next > 1 /\ p.node.children[p.next - 1] = f.node
    BY <1>2, <2>1
  <2>4. p.next \in Nat
    BY <2>2, ReaderFields
  <2>5. first + Len(got) = EndOf(p.node.offset + p.node.data, p.node.children, p.next - 1)
    <3>1. p.next - 1 # 0
      BY <2>3, <2>4
    <3>. QED BY <1>5, <2>3, <3>1 DEF EndOf
  <2>6. got' = got
    BY <1>1, <2>1
  <2>7. /\ reading'[k] = p /\ reading'[1] = reading[1]
    BY <1>7, <2>1
  <2>8. ASSUME NEW i \in 1..k
        PROVE  reading'[i].next \in 1..(Len(reading'[i].node.children) + 1)
    <3>1. i \in 1..n /\ reading'[i] = reading[i]
      BY <1>2, <1>7
    <3>. QED BY <1>2, <3>1
  <2>9. ASSUME NEW i \in 1..(k - 1)
        PROVE  /\ reading'[i].next > 1
               /\ reading'[i].node.children[reading'[i].next - 1] = reading'[i + 1].node
    <3>1. i \in 1..k /\ i + 1 \in 1..k /\ i \in 1..(n - 1)
      BY <1>2, <1>6, <2>1
    <3>2. reading'[i] = reading[i] /\ reading'[i + 1] = reading[i + 1]
      BY <1>7, <3>1
    <3>. QED BY <1>2, <3>1, <3>2
  <2>10. reading' \in Seq(Readers(nodes'))
    BY <1>1, <1>7
  <2>11. /\ got' \in Seq(Nat) /\ \A i \in 1..Len(got') : got'[i] = reading'[1].node.offset + i
         /\ reading'[1].node.offset + Len(got')
              = EndOf(reading'[k].node.offset + reading'[k].node.data, reading'[k].node.children,
                      reading'[k].next - 1)
    BY <1>2, <2>5, <2>6, <2>7
  <2>12. Len(reading') = k /\ k > 0 /\ k \in Nat
    BY <1>6, <1>7, <2>1
  <2>. DEFINE m == k - 1
  <2>13. m = k - 1
    OBVIOUS
  <2>14. \A i \in 1..m :
           /\ reading'[i].next > 1
           /\ reading'[i].node.children[reading'[i].next - 1] = reading'[i + 1].node
    BY <2>9
  <2>. HIDE DEF k, m
  <2>15. ReadingFits'
    BY <2>8, <2>10, <2>11, <2>12, <2>13, <2>14, ReaderFits
  <2>. QED BY <1>1, <2>15 DEF TreeInv, NodesFit, UploadFits
<1>. QED BY <1>8, <1>9

-----------------------------------------------------------------------------
LEMMA TreeKept ==
  ASSUME TreeInv, [CoreTreeNext]_treeVars
  PROVE  TreeInv'
<1>1. CASE UNCHANGED treeVars
  BY <1>1 DEF treeVars, TreeInv, NodesFit, UploadFits, ReadingFits
<1>. QED BY <1>1, WriteKeeps, ChildKeeps, PutKeeps, FailKeeps, OpenKeeps, ReadKeeps, ReturnKeeps
         DEF CoreTreeNext

(* Every read gives its piece of the file without a gap, and the whole file from its *)
(* file node, and no node takes more than its space: for every size of keys, nodes   *)
(* and files, any number of files, and a reader among the writer's steps.            *)
THEOREM FilesReadBack == CoreTreeSpec => [](StoredReadsBack /\ CoreTreeTypeOK)
<1>1. TreeInv => CoreTreeTypeOK
  <2>. SUFFICES ASSUME TreeInv PROVE CoreTreeTypeOK
    OBVIOUS
  <2>1. ASSUME NEW n \in nodes PROVE n.kind \in {"file", "successor"} /\ n.data \in 0..Usable
    <3>1. /\ n.kind \in {"file", "successor"} /\ n.data \in Nat /\ Len(n.children) \in Nat
          /\ n.data + Hash * Len(n.children) <= Usable
  /\ n.info = IF n.kind = "file" THEN InfoSize ELSE 0
      BY DEF TreeInv, NodesFit, NodeFits
    <3>2. Hash * Len(n.children) \in Nat
      BY <3>1, Sizes
    <3>. QED BY <3>1, <3>2, Sizes
  <2>2. ASSUME NEW i \in 1..Len(upload) PROVE upload[i].depth \in 1..3 /\ upload[i].left \in Nat
    <3>1. upload[i] \in Frames(nodes)
      BY DEF TreeInv, UploadFits
    <3>. QED BY <3>1, FrameFields
  <2>3. ASSUME NEW i \in 1..Len(reading) PROVE reading[i].node \in nodes
    <3>1. reading \in Seq(Readers(nodes))
      BY DEF TreeInv, ReadingFits
    <3>2. reading[i] \in Readers(nodes)
      BY <3>1
    <3>. QED BY <3>2, ReaderFields
  <2>. QED BY <2>1, <2>2, <2>3 DEF TreeInv, CoreTreeTypeOK
<1>2. TreeInv => StoredReadsBack
  <2>. SUFFICES ASSUME TreeInv PROVE StoredReadsBack
    OBVIOUS
  <2>1. \A n \in nodes :
          TakenBy(n) <= IF n.kind = "file" THEN Usable + InfoSize ELSE Usable
    <3>. SUFFICES ASSUME NEW n \in nodes
                  PROVE  TakenBy(n) <= IF n.kind = "file" THEN Usable + InfoSize ELSE Usable
      OBVIOUS
    <3>1. /\ n.data \in Nat /\ n.children \in Seq(nodes)
          /\ n.data + Hash * Len(n.children) <= Usable
          /\ n.info = IF n.kind = "file" THEN InfoSize ELSE 0
      BY DEF TreeInv, NodesFit, NodeFits
    <3>. DEFINE used == Hash * Len(n.children)
    <3>2. used \in Nat /\ n.data + used <= Usable
      BY <3>1, Sizes
    <3>3. TakenBy(n) = n.info + n.data + used
      BY DEF TakenBy
    <3>. HIDE DEF used
    <3>4. CASE n.kind = "file"
      <4>1. n.info = InfoSize
        BY <3>1, <3>4
      <4>. QED BY <3>1, <3>2, <3>3, <3>4, <4>1, Sizes
    <3>5. CASE n.kind # "file"
      <4>1. n.info = 0
        BY <3>1, <3>5
      <4>. QED BY <3>1, <3>2, <3>3, <3>5, <4>1, Sizes
    <3>. QED BY <3>4, <3>5
  <2>2. ASSUME reading # <<>>
        PROVE  LET n == reading[1].node
               IN /\ \A i \in 1..Len(got) : got[i] = n.offset + i
                  /\ n.kind = "file" /\ Len(reading) = 1 /\ NodeIsRead => Len(got) = n.fileSize
    <3>. DEFINE n == reading[1].node
    <3>1. /\ reading[1] \in Readers(nodes) /\ reading[1].next \in 1..(Len(n.children) + 1)
          /\ \A i \in 1..Len(got) : got[i] = n.offset + i
          /\ Len(got) \in Nat
      BY <2>2, ReaderIs
    <3>2. ASSUME n.kind = "file", Len(reading) = 1, NodeIsRead PROVE Len(got) = n.fileSize
      <4>1. n.offset + Len(got) = EndOf(n.offset + n.data, n.children, reading[1].next - 1)
        BY <2>2, <3>2, ReaderIs
      <4>2. reading[1].next > Len(n.children)
        BY <3>2 DEF NodeIsRead, Last
      <4>3. n \in nodes /\ Len(n.children) \in Nat
        BY <3>1, ReaderFields
      <4>4. /\ n.offset \in Nat /\ n.span \in Nat /\ n.fileSize = n.span
            /\ n.offset + n.span = EndOf(n.offset + n.data, n.children, Len(n.children))
        BY <3>2, <4>3, NodeFields
      <4>5. reading[1].next - 1 = Len(n.children)
        <5>. DEFINE x == reading[1].next
                    m == Len(n.children)
        <5>1. x \in 1..(m + 1) /\ m \in Nat /\ x > m
          BY <3>1, <4>2, <4>3
        <5>. HIDE DEF x, m
        <5>2. x - 1 = m
          BY <5>1, NextChild
        <5>. QED BY <5>2 DEF x, m
      <4>6. n.offset + Len(got) = n.offset + n.span
        BY <4>1, <4>4, <4>5
      <4>. QED BY <3>1, <4>4, <4>6
    <3>. QED BY <3>1, <3>2
  <2>. QED BY <2>1, <2>2 DEF StoredReadsBack
<1>. QED BY CoreInit, TreeKept, <1>1, <1>2, PTL DEF CoreTreeSpec

-----------------------------------------------------------------------------
USE KeysAssumption, BoundsAssumption

-----------------------------------------------------------------------------
(* Reach is a closed set that holds the roots, and the least such set. *)

LEMMA ReachHoldsRoots ==
  ASSUME NEW roots \in SUBSET Keys
  PROVE  roots \subseteq Reach(roots)
BY DEF Reach

LEMMA ReachIsClosed ==
  ASSUME NEW roots \in SUBSET Keys, NEW k \in Reach(roots)
  PROVE  Children[k] \subseteq Reach(roots)
BY DEF Reach, Closed

LEMMA ReachIsLeast ==
  ASSUME NEW roots \in SUBSET Keys, NEW S \in SUBSET Keys,
         roots \subseteq S, Closed(S)
  PROVE  Reach(roots) \subseteq S
BY DEF Reach

-----------------------------------------------------------------------------
(* Every variable keeps its type. *)
THEOREM TypeCorrect == Spec => []TypeOK
<1>1. Init => TypeOK
  BY DEF Init, TypeOK, NoTimes, NoTime, PutStates, GcStates
<1>2. TypeOK /\ [Next]_vars => TypeOK'
  <2> SUFFICES ASSUME TypeOK, [Next]_vars
               PROVE  TypeOK'
    OBVIOUS
  <2>0. NoTimes \in [Keys -> Nat] /\ NoTime \in Nat
    BY DEF NoTimes, NoTime
  <2>1. CASE Tick
    BY <2>1 DEF Tick, TypeOK, blobs, putVars, gcVars, hist
  <2>2. ASSUME NEW w \in Writers, PutStep(w)
        PROVE  TypeOK'
    <3>1. ASSUME NEW k \in Keys, PutBegin(w, k) PROVE TypeOK'
      BY <3>1 DEF PutBegin, PutGoto, TypeOK, blobs, gcVars, hist, PutStates
    <3>2. CASE PutCheckChild(w)
      BY <3>2 DEF PutCheckChild, TypeOK, blobs, bounds, gcVars, hist
    <3>3. CASE PutRejected(w)
      BY <3>3, <2>0 DEF PutRejected, PutReturn, TypeOK, blobs, bounds, gcVars, hist, PutStates
    <3>4. CASE PutStore(w)
      BY <3>4 DEF PutStore, PutGoto, TypeOK, blobs, bounds, gcVars, PutStates
    <3>5. CASE PutStamp(w)
      BY <3>5 DEF PutStamp, PutGoto, TypeOK, blobs, bounds, gcVars, hist, PutStates
    <3>6. CASE PutReadNew(w)
      BY <3>6 DEF PutReadNew, PutGoto, TypeOK, blobs, bounds, gcVars, hist, PutStates
    <3>7. CASE PutWriteNew(w)
      BY <3>7 DEF PutWriteNew, PutGoto, PutBlob, TypeOK, bounds, gcVars, hist, PutStates
    <3>8. CASE PutReadTimes(w)
      BY <3>8 DEF PutReadTimes, PutGoto, TypeOK, blobs, bounds, gcVars, hist, PutStates
    <3>9. CASE PutWriteTimes(w)
      <4>1. times' \in [Keys -> Nat]
        BY <3>9 DEF PutWriteTimes, PutBlob, TypeOK
      <4>2. /\ PutReturn(w)
            /\ written' = written \union {"TIMES"}
            /\ UNCHANGED <<store, retained, newKeys, lastGc, bounds, gcVars, hist>>
        BY <3>9 DEF PutWriteTimes
      <4>. QED
        BY <4>1, <4>2, <2>0 DEF PutReturn, TypeOK, bounds, gcVars, hist, PutStates
    <3>10. CASE PutAbort(w)
      BY <3>10, <2>0 DEF PutAbort, PutReturn, TypeOK, blobs, bounds, gcVars, hist, PutStates
    <3>. QED
      BY <2>2, <3>1, <3>2, <3>3, <3>4, <3>5, <3>6, <3>7, <3>8, <3>9, <3>10 DEF PutStep, PutRun
  <2>3. ASSUME NEW g \in Collectors, GcStep(g)
        PROVE  TypeOK'
    <3>1. ASSUME NEW roots \in RootSets, NEW cut \in CutOffs, GcBegin(g, roots, cut)
          PROVE  TypeOK'
      BY <3>1 DEF GcBegin, GcGoto, TypeOK, blobs, putVars, GcStates
    <3>2. CASE GcMark(g)
      BY <3>2 DEF GcMark, ChildrenRead, TypeOK, blobs, bounds, putVars, hist
    <3>3. CASE GcReadRetained(g)
      BY <3>3 DEF GcReadRetained, GcGoto, TypeOK, blobs, bounds, putVars, hist, GcStates
    <3>4. CASE GcReadNew(g)
      BY <3>4 DEF GcReadNew, GcGoto, TypeOK, blobs, bounds, putVars, hist, GcStates
    <3>5. CASE GcReadTimes(g)
      <4>1. ToDelete(gknown[g], gseen[g], times, gcut[g]) \in SUBSET Keys
        BY DEF ToDelete, TypeOK
      <4>. QED
        BY <3>5, <4>1 DEF GcReadTimes, GcGoto, TypeOK, blobs, bounds, putVars, hist, GcStates
    <3>6. CASE GcDelete(g)
      BY <3>6 DEF GcDelete, TypeOK, blobs, bounds, putVars
    <3>7. CASE GcWriteRetained(g)
      BY <3>7 DEF GcWriteRetained, GcGoto, PutBlob, TypeOK, bounds, putVars, hist, GcStates
    <3>8. CASE GcClearNew(g)
      BY <3>8 DEF GcClearNew, GcGoto, PutBlob, TypeOK, bounds, putVars, hist, GcStates
    <3>9. CASE GcWriteTimes(g)
      <4>1. [k \in Keys |-> IF k \in gseen[g] THEN gtimes[g][k] ELSE NoTime] \in [Keys -> Nat]
        BY <2>0 DEF TypeOK
      <4>2. times' \in [Keys -> Nat]
        BY <3>9, <4>1 DEF GcWriteTimes, PutBlob, TypeOK
      <4>. QED
        BY <3>9, <4>2 DEF GcWriteTimes, GcGoto, TypeOK, bounds, putVars, hist, GcStates
    <3>10. CASE GcWriteMeta(g)
      BY <3>10, <2>0 DEF GcWriteMeta, GcReturn, PutBlob, TypeOK, bounds, putVars, GcStates
    <3>11. CASE GcAbort(g)
      BY <3>11, <2>0 DEF GcAbort, GcReturn, TypeOK, blobs, bounds, putVars, GcStates
    <3>. QED
      BY <2>3, <3>1, <3>2, <3>3, <3>4, <3>5, <3>6, <3>7, <3>8, <3>9, <3>10, <3>11 DEF GcStep, GcRun
  <2>4. CASE UNCHANGED vars
    BY <2>4 DEF vars, TypeOK, blobs, bounds, putVars, gcVars, hist
  <2>. QED
    BY <2>1, <2>2, <2>3, <2>4 DEF Next
<1>. QED
  BY <1>1, <1>2, PTL DEF Spec

-----------------------------------------------------------------------------
(* The strengthening of YoungNodesKept.  A write time, wherever it is held: in *)
(* the times blob, in a snapshot of it that some call will write back or act   *)
(* on, or in a putNode call, is never older than the node; so what a gc call   *)
(* still has to delete was first stored before the largest cut-off.            *)
StoredBy(k, t) == firstPut[k] # NoTime /\ firstPut[k] <= t

TimesAreWriteTimes(tm) == \A k \in Keys : tm[k] # NoTime => StoredBy(k, tm[k])

StampedOnce(w) ==
  /\ wpc[w] \notin {"idle", "check"} => firstPut[wnode[w]] # NoTime
  /\ wpc[w] \notin {"idle", "check", "stamp"} => StoredBy(wnode[w], wnow[w])

DeletesOldOnly(g) ==
  /\ gcut[g] <= maxCut
  /\ \A k \in gdel[g] : firstPut[k] # NoTime /\ firstPut[k] < maxCut

AgeInv ==
  /\ TimesAreWriteTimes(times)
  /\ \A w \in Writers : TimesAreWriteTimes(wtimes[w])
  /\ \A g \in Collectors : TimesAreWriteTimes(gtimes[g])
  /\ \A k \in Keys : firstPut[k] <= clock
  /\ \A w \in Writers : StampedOnce(w)
  /\ \A g \in Collectors : DeletesOldOnly(g)
  /\ YoungNodesKept

(* The strengthening of MarkIsReach and TreeSurvives.  What a gc call has      *)
(* visited or will visit is reachable from its roots; while the pinned tree is *)
(* complete, its frontier is in the queue; and no visited key is to be deleted.*)
FrontierQueued(g) ==
  /\ gpc[g] # "idle"
  /\ Pinned \subseteq gseen[g] \union gqueue[g]
  /\ \A k \in gseen[g] \cap Reach(Pinned) : Children[k] \subseteq gseen[g] \union gqueue[g]

MarkInv ==
  /\ intact # {} => Complete(Pinned)
  /\ \A g \in Collectors :
       /\ gseen[g] \union gqueue[g] \subseteq Reach(groots[g])
       /\ g \in intact => FrontierQueued(g)
       /\ gpc[g] # "mark" => gqueue[g] = {}
       /\ gpc[g] = "idle" => gseen[g] = {}
       /\ gpc[g] # "delete" => gdel[g] = {}
       /\ gdel[g] \cap gseen[g] = {}

-----------------------------------------------------------------------------
ageVars == <<times, wtimes, gtimes, firstPut, clock, wpc, wnode, wnow, gcut, gdel, maxCut,
             store>>

(* A step of putNode keeps the ages right: a node gets its first-stored time   *)
(* when its blob is put, its write time afterwards, and a times blob that is   *)
(* written back holds that write time and what was read.                       *)
LEMMA PutKeepsAges ==
  ASSUME TypeOK, AgeInv, NEW w \in Writers, PutStep(w)
  PROVE  AgeInv'
<1>. USE DEF AgeInv, StoredBy, TimesAreWriteTimes, StampedOnce, DeletesOldOnly, YoungNodesKept
<1>0. NoTimes \in [Keys -> Nat] /\ NoTime = 0 /\ \A k \in Keys : NoTimes[k] = NoTime
  BY DEF NoTimes, NoTime
<1>1. ASSUME NEW k \in Keys, PutBegin(w, k)
      PROVE  AgeInv'
  BY <1>1 DEF PutBegin, PutGoto, TypeOK, blobs, gcVars, hist
<1>2. CASE PutCheckChild(w)
  BY <1>2 DEF PutCheckChild, TypeOK, blobs, bounds, gcVars, hist
<1>3. ASSUME PutReturn(w), UNCHANGED <<store, times, bounds, gcVars, hist>>
      PROVE  AgeInv'
  BY <1>3, <1>0 DEF PutReturn, TypeOK, bounds, gcVars, hist
<1>4. CASE PutStore(w)
  <2>1. wnode[w] \in Keys /\ clock \in Nat \ {0} /\ firstPut \in [Keys -> Nat]
    BY <1>4 DEF PutStore, PutGoto, TypeOK
  <2>2. /\ firstPut' \in [Keys -> Nat]
        /\ firstPut'[wnode[w]] # NoTime
        /\ \A k \in Keys : firstPut[k] # NoTime => firstPut'[k] = firstPut[k]
        /\ \A k \in Keys \ {wnode[w]} : firstPut'[k] = firstPut[k]
        /\ \A k \in Keys : firstPut'[k] <= clock
    BY <1>4, <2>1, <1>0 DEF PutStore
  <2>3. UNCHANGED <<times, wtimes, gtimes, wnode, wnow, gcut, gdel, maxCut, clock>>
    BY <1>4 DEF PutStore, blobs, bounds, gcVars
  <2>4. /\ store' = store \union {wnode[w]}
        /\ wpc' = [wpc EXCEPT ![w] = "stamp"]
    BY <1>4 DEF PutStore, PutGoto
  <2>5. TimesAreWriteTimes(times)' /\ \A v \in Writers : TimesAreWriteTimes(wtimes[v])'
    BY <2>2, <2>3 DEF TypeOK
  <2>6. \A g \in Collectors : TimesAreWriteTimes(gtimes[g])' /\ DeletesOldOnly(g)'
    BY <2>2, <2>3 DEF TypeOK
  <2>7. \A v \in Writers : StampedOnce(v)'
    BY <2>2, <2>3, <2>4, <1>0 DEF TypeOK
  <2>8. YoungNodesKept'
    BY <2>2, <2>3, <2>4
  <2>. QED
    BY <2>2, <2>3, <2>5, <2>6, <2>7, <2>8
<1>5. CASE PutStamp(w)
  <2>1. wnode[w] \in Keys /\ firstPut[wnode[w]] # NoTime /\ firstPut[wnode[w]] <= clock
    BY <1>5 DEF PutStamp, PutGoto, TypeOK
  <2>2. /\ wpc' = [wpc EXCEPT ![w] = "readNew"] /\ wnow' = [wnow EXCEPT ![w] = clock]
        /\ UNCHANGED <<times, wtimes, gtimes, firstPut, clock, wnode, gcut, gdel, maxCut, store>>
    BY <1>5 DEF PutStamp, PutGoto, blobs, bounds, gcVars, hist
  <2>3. \A v \in Writers : StampedOnce(v)'
    BY <2>1, <2>2 DEF TypeOK
  <2>. QED
    BY <2>2, <2>3
<1>6. ASSUME NEW from \in PutStates \ {"idle", "check", "stamp"},
             NEW to \in PutStates, PutGoto(w, from, to),
             UNCHANGED <<times, wtimes, gtimes, firstPut, clock, wnode, wnow, gcut, gdel,
                         maxCut, store>>
      PROVE  AgeInv'
  <2>1. \A v \in Writers : StampedOnce(v)'
    BY <1>6 DEF PutGoto, TypeOK
  <2>. QED
    BY <1>6, <2>1
<1>7. CASE PutReadNew(w) \/ PutWriteNew(w)
  BY <1>7, <1>6 DEF PutReadNew, PutWriteNew, PutStates, blobs, bounds, gcVars, hist
<1>8. CASE PutReadTimes(w)
  <2>1. \A v \in Writers : StampedOnce(v)'
    BY <1>8 DEF PutReadTimes, PutGoto, TypeOK, hist
  <2>2. \A v \in Writers : TimesAreWriteTimes(wtimes[v])'
    BY <1>8 DEF PutReadTimes, TypeOK, hist
  <2>. QED
    BY <1>8, <2>1, <2>2 DEF PutReadTimes, blobs, bounds, gcVars, hist
<1>9. CASE PutWriteTimes(w)
  <2>1. wnode[w] \in Keys /\ StoredBy(wnode[w], wnow[w])
    BY <1>9 DEF PutWriteTimes, TypeOK
  <2>2. TimesAreWriteTimes([wtimes[w] EXCEPT ![wnode[w]] = wnow[w]])
    BY <2>1 DEF TypeOK
  <2>3. TimesAreWriteTimes(times')
    BY <1>9, <2>2 DEF PutWriteTimes, PutBlob
  <2>4. PutReturn(w) /\ UNCHANGED <<store, bounds, gcVars, hist>>
    BY <1>9 DEF PutWriteTimes
  <2>. QED
    BY <2>3, <2>4, <1>0 DEF PutReturn, TypeOK, bounds, gcVars, hist
<1>10. CASE PutRejected(w) \/ PutAbort(w)
  BY <1>10, <1>3 DEF PutRejected, PutAbort, blobs
<1>. QED
  BY <1>1, <1>2, <1>4, <1>5, <1>6, <1>7, <1>8, <1>9, <1>10 DEF PutStep, PutRun

(* A step of gc keeps the ages right: what it deletes has, in the times it     *)
(* read, a write time before its cut-off, and so was first stored before it.   *)
LEMMA GcKeepsAges ==
  ASSUME TypeOK, AgeInv, NEW g \in Collectors, GcStep(g)
  PROVE  AgeInv'
<1>. USE DEF AgeInv, StoredBy, TimesAreWriteTimes, StampedOnce, DeletesOldOnly, YoungNodesKept
<1>0. NoTimes \in [Keys -> Nat] /\ NoTime = 0 /\ \A k \in Keys : NoTimes[k] = NoTime
  BY DEF NoTimes, NoTime
<1>1. ASSUME NEW roots \in RootSets, NEW cut \in CutOffs, GcBegin(g, roots, cut)
      PROVE  AgeInv'
  <2>1. cut \in Nat /\ maxCut \in Nat /\ maxCut' \in Nat /\ maxCut <= maxCut' /\ cut <= maxCut'
    BY <1>1 DEF GcBegin, TypeOK
  <2>2. gcut' = [gcut EXCEPT ![g] = cut]
    BY <1>1 DEF GcBegin
  <2>3. UNCHANGED <<times, wtimes, gtimes, firstPut, clock, wpc, wnode, wnow, gdel, store>>
    BY <1>1 DEF GcBegin, blobs, putVars
  <2>4. \A h \in Collectors : DeletesOldOnly(h)'
    BY <2>1, <2>2, <2>3 DEF TypeOK
  <2>. QED
    BY <2>1, <2>3, <2>4 DEF TypeOK
<1>2. CASE UNCHANGED ageVars
  BY <1>2 DEF ageVars
<1>3. CASE GcReadTimes(g)
  <2>1. \A k \in gdel'[g] : firstPut[k] # NoTime /\ firstPut[k] < maxCut
    BY <1>3 DEF GcReadTimes, ToDelete, TypeOK
  <2>2. UNCHANGED <<times, wtimes, firstPut, clock, wpc, wnode, wnow, gcut, maxCut, store>>
    BY <1>3 DEF GcReadTimes, blobs, bounds, putVars, hist
  <2>3. \A h \in Collectors : TimesAreWriteTimes(gtimes[h])'
    BY <1>3, <2>2 DEF GcReadTimes, TypeOK
  <2>4. \A h \in Collectors : DeletesOldOnly(h)'
    BY <1>3, <2>1, <2>2 DEF GcReadTimes, TypeOK
  <2>. QED
    BY <2>2, <2>3, <2>4
<1>4. CASE GcDelete(g)
  BY <1>4 DEF GcDelete, TypeOK, blobs, bounds, putVars
<1>5. CASE GcWriteTimes(g)
  <2>1. TimesAreWriteTimes([k \in Keys |-> IF k \in gseen[g] THEN gtimes[g][k] ELSE NoTime])
    BY DEF TypeOK
  <2>2. TimesAreWriteTimes(times')
    BY <1>5, <2>1 DEF GcWriteTimes, PutBlob
  <2>. QED
    BY <1>5, <2>2 DEF GcWriteTimes, TypeOK, bounds, putVars, hist
<1>6. ASSUME GcReturn(g), UNCHANGED <<store, times, bounds, putVars, firstPut, maxCut>>
      PROVE  AgeInv'
  BY <1>6, <1>0 DEF GcReturn, TypeOK, bounds, putVars
<1>7. CASE GcWriteMeta(g) \/ GcAbort(g)
  BY <1>7, <1>6 DEF GcWriteMeta, GcAbort, blobs
<1>8. CASE GcMark(g) \/ GcReadRetained(g) \/ GcReadNew(g) \/ GcWriteRetained(g) \/ GcClearNew(g)
  BY <1>8, <1>2 DEF GcMark, GcReadRetained, GcReadNew, GcWriteRetained, GcClearNew, ageVars,
     blobs, bounds, putVars, hist
<1>. QED
  BY <1>1, <1>3, <1>4, <1>5, <1>7, <1>8 DEF GcStep, GcRun

THEOREM AgesCorrect == Spec => []AgeInv
<1>1. Init => AgeInv
  BY DEF Init, AgeInv, StoredBy, TimesAreWriteTimes, StampedOnce, DeletesOldOnly,
     YoungNodesKept, NoTimes, NoTime
<1>2. TypeOK /\ AgeInv /\ [Next]_vars => AgeInv'
  <2> SUFFICES ASSUME TypeOK, AgeInv, [Next]_vars
               PROVE  AgeInv'
    OBVIOUS
  <2>1. CASE Tick
    BY <2>1 DEF Tick, AgeInv, StoredBy, TimesAreWriteTimes, StampedOnce, DeletesOldOnly,
       YoungNodesKept, TypeOK, blobs, putVars, gcVars, hist
  <2>2. CASE UNCHANGED vars
    BY <2>2 DEF vars, AgeInv, StoredBy, TimesAreWriteTimes, StampedOnce, DeletesOldOnly,
       YoungNodesKept, blobs, bounds, putVars, gcVars, hist
  <2>. QED
    BY <2>1, <2>2, PutKeepsAges, GcKeepsAges DEF Next
<1>. QED
  BY <1>1, <1>2, TypeCorrect, PTL DEF Spec

(* No interleaving, failure or lost update makes gc delete a node first stored *)
(* at or after every cut-off.                                                  *)
THEOREM YoungNodesAreKept == Spec => []YoungNodesKept
BY AgesCorrect, PTL DEF AgeInv

-----------------------------------------------------------------------------
(* A putNode step adds to the store and leaves every gc call alone. *)
LEMMA PutOnlyAdds ==
  ASSUME TypeOK, NEW w \in Writers, PutStep(w)
  PROVE  store \subseteq store' /\ UNCHANGED <<gcVars, intact>>
BY DEF PutStep, PutRun, PutBegin, PutCheckChild, PutRejected, PutStore, PutStamp, PutReadNew,
   PutWriteNew, PutReadTimes, PutWriteTimes, PutAbort, hist

(* When the frontier of a complete tree is queued and the queue is empty,      *)
(* every key of the tree was visited: the visited keys of the tree are closed. *)
LEMMA MarkedHoldsTree ==
  ASSUME TypeOK, NEW g \in Collectors, FrontierQueued(g), gqueue[g] = {}
  PROVE  Reach(Pinned) \subseteq gseen[g]
<1>. DEFINE T == gseen[g] \cap Reach(Pinned)
<1>1. T \in SUBSET Keys /\ Pinned \subseteq T
  BY ReachHoldsRoots DEF FrontierQueued, TypeOK
<1>2. Closed(T)
  BY ReachIsClosed DEF FrontierQueued, Closed
<1>3. Reach(Pinned) \subseteq T
  <2>. HIDE DEF T
  <2>. QED  BY <1>1, <1>2, ReachIsLeast
<1>. QED
  BY <1>3

(* A gc step keeps the invariant of the mark and sweep. *)
LEMMA GcKeepsMarks ==
  ASSUME TypeOK, MarkInv, NEW g \in Collectors, GcStep(g)
  PROVE  MarkInv'
<1>. USE DEF MarkInv
<1>1. ASSUME NEW roots \in RootSets, NEW cut \in CutOffs, GcBegin(g, roots, cut)
      PROVE  MarkInv'
  <2>1. roots \in SUBSET Keys /\ Pinned \subseteq roots /\ roots \subseteq Reach(roots)
    BY ReachHoldsRoots
  <2>2. /\ gpc[g] = "idle" /\ gpc' = [gpc EXCEPT ![g] = "mark"]
        /\ groots' = [groots EXCEPT ![g] = roots] /\ gqueue' = [gqueue EXCEPT ![g] = roots]
        /\ intact' = IF Complete(Pinned) THEN intact \union {g} ELSE intact
        /\ UNCHANGED <<store, gseen, gdel>>
    BY <1>1 DEF GcBegin, GcGoto
  <2>3. intact' # {} => Complete(Pinned)'
    BY <2>2 DEF Complete
  <2>4. ASSUME NEW h \in intact' PROVE FrontierQueued(h)'
    <3>1. CASE h = g
      BY <2>1, <2>2, <3>1 DEF FrontierQueued, TypeOK
    <3>2. CASE h # g
      BY <2>2, <3>2 DEF FrontierQueued, TypeOK
    <3>. QED  BY <3>1, <3>2
  <2>5. \A h \in Collectors : (gseen[h] \union gqueue[h] \subseteq Reach(groots[h]))'
    BY <2>1, <2>2 DEF TypeOK
  <2>. QED
    BY <2>2, <2>3, <2>4, <2>5 DEF TypeOK
<1>2. CASE GcMark(g)
  <2>. PICK k \in gqueue[g] :
         /\ gseen' = [gseen EXCEPT ![g] = @ \union {k}]
         /\ gqueue' = [gqueue EXCEPT ![g] =
                         (@ \union ChildrenRead(k)) \ (gseen[g] \union {k})]
    BY <1>2 DEF GcMark
  <2>1. gpc[g] = "mark" /\ UNCHANGED <<store, gpc, groots, gdel, intact>>
    BY <1>2 DEF GcMark, hist
  <2>2. k \in Keys /\ k \in Reach(groots[g]) /\ groots[g] \in SUBSET Keys
    BY DEF TypeOK
  <2>3. ChildrenRead(k) \subseteq Reach(groots[g])
    BY <2>2, ReachIsClosed DEF ChildrenRead
  <2>4. (gseen[g] \union gqueue[g])' = gseen[g] \union gqueue[g] \union ChildrenRead(k)
    BY DEF TypeOK
  <2>5. g \in intact => FrontierQueued(g)'
    <3> SUFFICES ASSUME g \in intact PROVE FrontierQueued(g)'
      OBVIOUS
    <3>1. k \in Reach(Pinned) => ChildrenRead(k) = Children[k]
      BY DEF Complete, ChildrenRead
    <3>2. gseen'[g] = gseen[g] \union {k}
      BY DEF TypeOK
    <3>. QED
      BY <2>1, <2>4, <3>1, <3>2 DEF FrontierQueued
  <2>6. \A h \in Collectors \ {g} : gseen'[h] = gseen[h] /\ gqueue'[h] = gqueue[h]
    BY DEF TypeOK
  <2>7. \A h \in Collectors \ {g} : h \in intact => FrontierQueued(h)'
    BY <2>1, <2>6 DEF FrontierQueued
  <2>8. gdel[g] = {}
    BY <2>1
  <2>. QED
    BY <2>1, <2>3, <2>4, <2>5, <2>6, <2>7, <2>8 DEF Complete, TypeOK
<1>3. ASSUME NEW to, to \notin {"idle", "mark", "delete"}, gpc[g] # "idle",
             gpc' = [gpc EXCEPT ![g] = to], gqueue[g] = {}, gdel[g] = {},
             UNCHANGED <<store, groots, gqueue, gseen, gdel, intact>>
      PROVE  MarkInv'
  BY <1>3 DEF FrontierQueued, Complete, TypeOK
<1>4. CASE GcReadRetained(g) \/ GcReadNew(g) \/ GcWriteRetained(g) \/ GcClearNew(g) \/ GcWriteTimes(g)
  BY <1>3, <1>4 DEF GcReadRetained, GcReadNew, GcWriteRetained, GcClearNew, GcWriteTimes,
     GcGoto, hist
<1>5. CASE GcReadTimes(g)
  <2>. DEFINE D == ToDelete(gknown[g], gseen[g], times, gcut[g])
  <2>1. D \cap gseen[g] = {}
    BY DEF ToDelete
  <2>2. /\ gpc[g] = "readTimes" /\ gpc' = [gpc EXCEPT ![g] = "delete"]
        /\ gdel' = [gdel EXCEPT ![g] = D]
        /\ UNCHANGED <<store, groots, gqueue, gseen, intact>>
    BY <1>5 DEF GcReadTimes, GcGoto, hist
  <2>. HIDE DEF D
  <2>3. \A h \in Collectors : (gdel[h] \cap gseen[h])' = {}
    BY <2>1, <2>2 DEF TypeOK
  <2>4. \A h \in Collectors : h \in intact => FrontierQueued(h)'
    BY <2>2 DEF FrontierQueued, TypeOK
  <2>. QED
    BY <2>2, <2>3, <2>4 DEF Complete, TypeOK
<1>6. CASE GcDelete(g)
  <2>. PICK k \in gdel[g] :
         /\ store' = store \ {k}
         /\ gdel' = [gdel EXCEPT ![g] = @ \ {k}]
         /\ intact' = IF k \in Reach(Pinned) THEN {} ELSE intact
    BY <1>6 DEF GcDelete
  <2>1. UNCHANGED <<gpc, groots, gqueue, gseen>>
    BY <1>6 DEF GcDelete
  <2>2. intact' # {} => Complete(Pinned)'
    BY DEF Complete
  <2>3. \A h \in Collectors : h \in intact' => FrontierQueued(h)'
    BY <2>1 DEF FrontierQueued
  <2>4. \A h \in Collectors : gdel'[h] \subseteq gdel[h]
    BY DEF TypeOK
  <2>. QED
    BY <2>1, <2>2, <2>3, <2>4
<1>7. CASE GcWriteMeta(g) \/ GcAbort(g)
  <2>1. GcReturn(g) /\ UNCHANGED store
    BY <1>7 DEF GcWriteMeta, GcAbort
  <2>. QED
    BY <2>1 DEF GcReturn, FrontierQueued, Complete, TypeOK
<1>. QED
  BY <1>1, <1>2, <1>4, <1>5, <1>6, <1>7 DEF GcStep, GcRun

THEOREM MarksCorrect == Spec => []MarkInv
<1>1. Init => MarkInv
  BY DEF Init, MarkInv, FrontierQueued
<1>2. TypeOK /\ MarkInv /\ [Next]_vars => MarkInv'
  <2> SUFFICES ASSUME TypeOK, MarkInv, [Next]_vars
               PROVE  MarkInv'
    OBVIOUS
  <2>1. ASSUME store \subseteq store', UNCHANGED <<gcVars, intact>>
        PROVE  MarkInv'
    BY <2>1 DEF MarkInv, FrontierQueued, Complete, gcVars
  <2>2. CASE Tick
    BY <2>1, <2>2 DEF Tick, hist
  <2>3. CASE UNCHANGED vars
    BY <2>1, <2>3 DEF vars, hist
  <2>. QED
    BY <2>1, <2>2, <2>3, PutOnlyAdds, GcKeepsMarks DEF Next
<1>. QED
  BY <1>1, <1>2, TypeCorrect, PTL DEF Spec

(* The breadth-first search of gc computes reachability. *)
THEOREM MarkComputesReach == Spec => []MarkIsReach
<1>1. TypeOK /\ MarkInv => MarkIsReach
  BY MarkedHoldsTree DEF MarkInv, MarkIsReach, Marked, FrontierQueued
<1>. QED
  BY <1>1, TypeCorrect, MarksCorrect, PTL

(* A gc call that is intact deletes no key of the tree. *)
THEOREM PinnedTreeSurvives == Spec => TreeSurvives
<1>1. TypeOK /\ MarkInv /\ [Next]_vars =>
        [AllIntact /\ Complete(Pinned) => Complete(Pinned)']_vars
  <2> SUFFICES ASSUME TypeOK, MarkInv, Next, AllIntact, Complete(Pinned)
               PROVE  Complete(Pinned)'
    OBVIOUS
  <2>1. ASSUME store \subseteq store' PROVE Complete(Pinned)'
    BY <2>1 DEF Complete
  <2>2. ASSUME NEW g \in Collectors, GcDelete(g) PROVE Complete(Pinned)'
    <3>1. g \in intact /\ gqueue[g] = {} /\ FrontierQueued(g)
      BY <2>2 DEF GcDelete, AllIntact, MarkInv
    <3>2. Reach(Pinned) \cap gdel[g] = {}
      BY <3>1, MarkedHoldsTree DEF MarkInv
    <3>. QED
      BY <2>2, <3>2 DEF GcDelete, Complete
  <2>3. ASSUME NEW g \in Collectors, GcStep(g), ~GcDelete(g) PROVE store' = store
    BY <2>3 DEF GcStep, GcRun, GcBegin, GcMark, GcReadRetained, GcReadNew, GcReadTimes,
       GcWriteRetained, GcClearNew, GcWriteTimes, GcWriteMeta, GcAbort
  <2>. QED
    BY <2>1, <2>2, <2>3, PutOnlyAdds DEF Next, Tick
<1>. QED
  BY <1>1, TypeCorrect, MarksCorrect, PTL DEF Spec, TreeSurvives
=============================================================================
