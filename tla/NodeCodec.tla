----------------------------- MODULE NodeCodec -----------------------------
(***************************************************************************)
(* The bytes of a node (packages/core): the encoders and the decoder of    *)
(* node.ts and header.ts, the checks of validation.ts, and the size that a *)
(* key carries (utils.ts).  The widths are constants, so that buffers of a *)
(* few bytes have every layout; the header is a record of its fields.      *)
(***************************************************************************)
EXTENDS Naturals, Sequences, SequencesExt

CONSTANTS
  Base,        \* how many values a byte has; 0 is NUL, and the last two see below
  ByHash,      \* HASH_SIZE
  HeaderBytes, \* HEADER_SIZE
  TypeMax,     \* CONTENT_TYPE_MAX_LENGTH
  NodeInputs,  \* what is given to the encoders
  Received,    \* the buffers that come from elsewhere
  NoBuffer     \* nothing is in hand

Bad == Base - 1      \* no UTF-8
Mark == Base - 2     \* UTF-8 but not ASCII: the byte order mark, as one byte
InfoBytes == 2 + TypeMax     \* FILEINFO_SIZE: the size of the file in two words
Kinds == {"set", "dict", "successor", "file"}     \* NODE_TYPE

ASSUME NodeCodecAssumption ==
  /\ {ByHash, HeaderBytes, TypeMax} \subseteq Nat \ {0} /\ Base \in Nat /\ Base > 3
  /\ \A b \in Received : b.kind \in Kinds /\ {b.size, b.count} \subseteq Nat
  /\ \A n \in NodeInputs : n.kind \in Kinds

VARIABLES
  given,     \* the node whose encoding is in hand
  buffer     \* the bytes in hand: the fields of the header, and what follows it

codecVars == <<given, buffer>>

-----------------------------------------------------------------------------
(* compareBytes *)
Before(a, b) ==
  \E i \in 1..Len(b) :
    /\ i <= Len(a) + 1 /\ \A j \in 1..(i - 1) : a[j] = b[j]
    /\ i <= Len(a) => a[i] < b[i]

Increasing(s) == \A i \in 1..(Len(s) - 1) : Before(s[i], s[i + 1])

(* slice: what lies outside of the bytes is left out. *)
Slice(bytes, from, n) ==
  SubSeq(bytes, from + 1, IF from + n < Len(bytes) THEN from + n ELSE Len(bytes))

Concat(parts) == FoldLeft(LAMBDA s, part : s \o part, <<>>, parts)

(* encodePascalStrings: the length and the bytes of one after the other *)
PascalStrings(names) == Concat([i \in DOMAIN names |-> <<Len(names[i])>> \o names[i]])

(* TextDecoder.decode: a mark at the beginning is dropped. *)
Text(bytes) == IF bytes # <<>> /\ bytes[1] = Mark THEN Tail(bytes) ELSE bytes

(* decodePascalStrings and validatePascalStringsWithNames: so many strings from *)
(* a place on; ok when each of them ends within the bytes.                      *)
ReadPascal(bytes, from, count) ==
  FoldLeft(LAMBDA r, i :
      LET n == IF r.ok /\ r.at < Len(bytes) THEN bytes[r.at + 1] ELSE 0
      IN  IF r.ok /\ r.at + 1 + n <= Len(bytes)
          THEN [ok |-> TRUE, at |-> r.at + 1 + n,
                names |-> Append(r.names, Text(Slice(bytes, r.at + 1, n)))]
          ELSE [r EXCEPT !.ok = FALSE],
    [ok |-> TRUE, at |-> from, names |-> <<>>], [i \in 1..count |-> i])

(* computeSizeFlagByte: the least L * 16^H that is no less than the size, as    *)
(* the two halves of a byte; decodeSizeFlagByte.                                *)
SizeFlag(size) ==
  LET digits(h) == (size + 16^h - 1) \div 16^h
      least == CHOOSE h \in 0..3 : digits(h) <= 15 /\ \A g \in 0..(h - 1) : digits(g) > 15
  IN  IF size = 0 THEN 0 ELSE 16 * least + digits(least)
SizeBound(flag) == (flag % 16) * 16^(flag \div 16)

-----------------------------------------------------------------------------
(* The encoders *)

Buffer(kind, size, count, body) ==
  [kind |-> kind, reserved |-> 0, size |-> size, count |-> count, body |-> body]

(* sortChildrenByName: the names in order, and each child with its name; a      *)
(* plausible bug is to leave the children in the order they came in.            *)
SortNamesOnly(n) ==
  [n EXCEPT !.names = SortSeq(@, Before)]
SortByName(n) ==
  LET order == SortSeq([i \in DOMAIN n.names |-> i],
                       LAMBDA i, j : Before(n.names[i], n.names[j]))
  IN  [n EXCEPT !.names = [i \in DOMAIN order |-> n.names[order[i]]],
                !.children = [i \in DOMAIN order |-> n.children[order[i]]]]

(* encodeFileInfo: the size in two words, the type padded with zeros *)
FileInfo(n) ==
  <<n.size % Base, (n.size \div Base) % Base>> \o n.type \o [i \in 1..(TypeMax - Len(n.type)) |-> 0]

(* What an encoder refuses *)
Refused(n) ==
  CASE n.kind = "set" -> Len(n.children) < 2 \/ ~IsInjective(n.children)
    [] n.kind = "dict" -> Len(n.children) # Len(n.names) \/ \E i \in DOMAIN n.names : Len(n.names[i]) > Bad
    [] n.kind = "file" -> Len(n.type) > TypeMax
    [] OTHER -> FALSE

(* encodeSetNode, encodeDictNode, encodeSuccessorNode, encodeFileNode *)
Encoded(n) ==
  LET count == Len(n.children)
      children == Concat(n.children)
  IN  CASE n.kind = "set" -> Buffer("set", 0, count, Concat(SortSeq(n.children, Before)))
        [] n.kind = "dict" ->
             LET sorted == SortByName(n)
                 names == PascalStrings(sorted.names)
             IN  Buffer("dict", Len(names), count, Concat(sorted.children) \o names)
        [] n.kind = "successor" -> Buffer("successor", Len(n.data), count, children \o n.data)
        [] OTHER ->
             Buffer("file", InfoBytes + Len(n.data), count, children \o FileInfo(n) \o n.data)

-----------------------------------------------------------------------------
(* The decoder and the checks *)

ChildrenEnd(b) == b.count * ByHash
ChildrenOfBuffer(b) == [i \in 1..b.count |-> Slice(b.body, (i - 1) * ByHash, ByHash)]
Names(b) == ReadPascal(b.body, ChildrenEnd(b), b.count)
TypeBytes(b) == Slice(b.body, ChildrenEnd(b) + 2, TypeMax)

(* Where the content type ends: at the first zero *)
TypeLength(bytes) ==
  IF 0 \in Range(bytes) THEN (CHOOSE i \in DOMAIN bytes : bytes[i] = 0 /\ 0 \notin Range(SubSeq(bytes, 1, i - 1))) - 1
  ELSE Len(bytes)

TypeText(bytes) == Text(SubSeq(bytes, 1, TypeLength(bytes)))

(* decodeNode throws where a name or the FileInfo runs out of the bytes. *)
Decodes(b) ==
  /\ b.kind = "dict" => Names(b).ok
  /\ b.kind = "file" => Len(b.body) >= ChildrenEnd(b) + InfoBytes

Decoded(b) ==
  LET children == ChildrenOfBuffer(b)
      after(from) == Slice(b.body, from, Len(b.body))
      info == ChildrenEnd(b)
  IN  CASE b.kind = "set" -> [kind |-> "set", children |-> children]
        [] b.kind = "dict" -> [kind |-> "dict", children |-> children, names |-> Names(b).names]
        [] b.kind = "successor" -> [kind |-> "successor", children |-> children, data |-> after(info)]
        [] OTHER ->
             [kind |-> "file", children |-> children, data |-> after(info + InfoBytes),
              size |-> b.body[info + 1] + b.body[info + 2] * Base,
              type |-> TypeText(TypeBytes(b))]

(* The checks of the names of a dict, which compare them as they are decoded *)
NamesValid(b) ==
  /\ Names(b).ok /\ Increasing(Names(b).names)
  /\ \A i \in DOMAIN Names(b).names : Bad \notin Range(Names(b).names[i])

(* The checks of the FileInfo: printable ASCII, then zeros to the end *)
InfoValid(b) ==
  LET type == TypeBytes(b)
  IN  /\ b.size >= InfoBytes
      /\ {Mark, Bad} \cap Range(SubSeq(type, 1, TypeLength(type))) = {}
      /\ Range(SubSeq(type, TypeLength(type) + 1, Len(type))) \subseteq {0}

(* The checks of the header: the reserved bits, and the length of the whole *)
HeaderValid(b) == b.reserved = 0 /\ Len(b.body) = ChildrenEnd(b) + b.size

SetValid(b) == b.count >= 2 /\ b.size = 0 /\ Increasing(ChildrenOfBuffer(b))

(* validateNodeStructure, and validateNode before it comes to the key *)
Valid(b) ==
  /\ HeaderValid(b)
  /\ b.kind = "set" => SetValid(b)
  /\ b.kind = "file" => InfoValid(b)
  /\ b.kind = "dict" => NamesValid(b)

-----------------------------------------------------------------------------
CodecInit == given = NoBuffer /\ buffer = NoBuffer

Encode(n) == ~Refused(n) /\ given' = n /\ buffer' = Encoded(n)

Receive(b) == buffer' = b /\ UNCHANGED given

(* One buffer a behaviour: it is either written here or it comes from elsewhere. *)
CodecNext ==
  /\ buffer = NoBuffer
  /\ (\E n \in NodeInputs : Encode(n)) \/ (\E b \in Received : Receive(b))

CodecSpec == CodecInit /\ [][CodecNext]_codecVars

-----------------------------------------------------------------------------
CodecTypeOK == buffer = NoBuffer \/ (buffer.kind \in Kinds /\ {buffer.size, buffer.count} \subseteq Nat)

(* The same node, whatever the order of its entries *)
SameNode(n, d) ==
  IF n.kind \in {"set", "dict"}
  THEN /\ d.kind = n.kind /\ Len(d.children) = Len(n.children)
       /\ Range(d.children) = Range(n.children)
       /\ n.kind = "dict" =>
            {<<d.names[i], d.children[i]>> : i \in DOMAIN d.names} =
              {<<n.names[i], n.children[i]>> : i \in DOMAIN n.names}
  ELSE d = n

(* A node as it is read back: of its names and its type what decoding leaves *)
AsRead(n) ==
  CASE n.kind = "dict" -> [n EXCEPT !.names = [i \in DOMAIN n.names |-> Text(n.names[i])]]
    [] n.kind = "file" -> [n EXCEPT !.type = TypeText(n.type)]
    [] OTHER -> n

(* Nothing of it is lost: the encoders take other nodes as well, two entries of one *)
(* name, a mark, a type that is not printable.                                      *)
Tame(n) ==
  /\ n.kind = "dict" => IsInjective(n.names) /\ AsRead(n) = n
  /\ n.kind = "file" => {0, Mark, Bad} \cap Range(n.type) = {}

(* What the encoders make can be decoded and has a key whose size is no less than  *)
(* the node's and orders it.  Of a tame node it is accepted; and whatever is      *)
(* accepted is decoded to the node that was given, each child under its name, up   *)
(* to what decoding drops: never to another node.  What is accepted from elsewhere *)
(* can be decoded, has no name twice, and, when it has no second mark, encodes to  *)
(* a node that decodes to the same.                                                *)
CodecAgrees ==
  /\ given # NoBuffer =>
       LET length == HeaderBytes + Len(buffer.body)
       IN  /\ Decodes(buffer) /\ (Tame(given) => Valid(buffer))
           /\ Valid(buffer) => SameNode(AsRead(given), Decoded(buffer))
           /\ SizeBound(SizeFlag(length)) >= length
           /\ \A n \in 0..length : SizeFlag(n) <= SizeFlag(length)
  /\ buffer # NoBuffer /\ Valid(buffer) =>
       /\ Decodes(buffer)
       /\ LET n == Decoded(buffer)
          IN  /\ ~Refused(n) /\ (AsRead(n) = n => Decoded(Encoded(n)) = n)
              /\ n.kind = "dict" => IsInjective(n.names)
=============================================================================
