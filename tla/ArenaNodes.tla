---------------------------- MODULE ArenaNodes -----------------------------
(***************************************************************************)
(* serialize of the TypeScript runtime: the writers of serialize-arena.ts  *)
(* pack a value into nodes in the arena, and SerializeNode of              *)
(* serialize_arena.cc turns the nodes into the words of the format.        *)
(*                                                                         *)
(* A node is four words (kind, auxiliary, count, size in words) and its    *)
(* payload.  Segments hold only relative offsets, so a segment is the      *)
(* sequence of its words wherever it lies in the buffer; that SerializeArray*)
(* and SerializeMap move their segments as described here is what module   *)
(* Container checks.                                                       *)
(***************************************************************************)
EXTENDS TsTypes

-----------------------------------------------------------------------------
(* serialize-arena.ts: from a value to nodes.                              *)

\* begin and finish.
Node(kind, auxiliary, count, payload) ==
  <<kind, auxiliary, count, 4 + Len(payload)>> \o payload
NoneNode == Node("none", 0, 0, <<>>)

\* A scalar lies in the words of count and size.
WriteScalar(kind, v) ==
  IF v[1] \notin RangeOf(kind) THEN Bad
  ELSE Good(<<kind, 0>> \o
            (IF WidthWords(kind) = 2 THEN ScalarWords(kind, v[1])
             ELSE ScalarWords(kind, v[1]) \o <<4>>))

\* validatedUtf8Length refuses half of a surrogate pair; MAX_BYTES.
WriteBlob(kind, v) ==
  LET bytes == IF kind = "string" THEN Utf8(v) ELSE v
  IN  IF (kind = "string" /\ Contains(v, 3)) \/ Len(bytes) >= MaxBytes THEN Bad
      ELSE Good(Node(kind, 0, Len(bytes), PackBytes(bytes)))

WriteScalarArray(kind, v) ==
  LET items == [i \in DOMAIN v |-> v[i][1]]
  IN  IF \E i \in DOMAIN v : items[i] \notin RangeOf(kind) THEN Bad
      ELSE Good(Node("array", kind, Len(v),
                     IF kind = "bool" THEN PackBytes(items)
                     ELSE FlattenSeq([i \in DOMAIN v |-> ScalarWords(kind, items[i])])))

WriteKey(kind, key) ==
  IF kind = "string" THEN WriteBlob(kind, key) ELSE WriteScalar(kind, key)

IsDefault(f, v) ==
  v = <<>> \/ (IsScalar(f.kind) /\ v = <<0>>)

RECURSIVE WriteObject(_, _, _)

\* The writer of compileValueWriter; nextDepth limits the depth.
WriteValue(kind, child, v, depth) ==
  CASE IsBlob(kind) -> WriteBlob(kind, v)
    [] IsScalar(kind) -> WriteScalar(kind, v)
    [] OTHER ->
         IF depth >= MaxDepth THEN Bad ELSE WriteObject(Types[child], v, depth + 1)

\* A field: the array or map of a repeated field is on the level of its
\* message, and a message without any field is left out.
WriteField(f, v, depth) ==
  LET w == IF f.repeated THEN WriteObject(Types[f.child], v, depth)
           ELSE WriteValue(f.kind, f.child, v, depth)
  IN  IF w.ok /\ f.kind = "message" /\ w.v[3] = 0 THEN Good(NoneNode) ELSE w

WriteArray(t, v, depth) ==
  IF IsScalar(t.value) THEN WriteScalarArray(t.value, v)
  ELSE LET items == [i \in DOMAIN v |-> WriteValue(t.value, t.child, v[i], depth)]
       IN  IF AllGood(items) THEN Good(Node("array", t.value, Len(v), Joined(items)))
           ELSE Bad

WriteMap(t, v, depth) ==
  LET keys == SetToSeq(DOMAIN v)
      ks == [i \in DOMAIN keys |-> WriteKey(t.key, keys[i])]
      vs == [i \in DOMAIN keys |-> WriteValue(t.value, t.child, v[keys[i]], depth)]
  IN  IF AllGood(ks) /\ AllGood(vs)
        THEN Good(Node("map", <<t.key, t.value>>, Len(keys), Joined(Alternate(ks, vs))))
        ELSE Bad

\* fieldCapacity of compileMessageWriter.
Capacity(t) == Max({1} \union {t.fields[i].id + 1 : i \in DOMAIN t.fields})

WriteMessage(t, v, depth) ==
  LET written == SelectSeq([i \in DOMAIN t.fields |-> i],
                           LAMBDA i : ~IsDefault(t.fields[i], v[i]))
      nodes == [j \in DOMAIN written |->
                  WriteField(t.fields[written[j]], v[written[j]], depth)]
      records == [j \in DOMAIN nodes |-> <<t.fields[written[j]].id>> \o nodes[j].v]
  IN  IF AllGood(nodes)
        THEN Good(Node("message", Capacity(t), Len(written), FlattenSeq(records)))
        ELSE Bad

WriteObject(t, v, depth) ==
  CASE t.kind = "message" -> WriteMessage(t, v, depth)
    [] t.kind = "array" -> WriteArray(t, v, depth)
    [] t.kind = "map" -> WriteMap(t, v, depth)

\* compileRoot.
WriteRoot(handle, v) == WriteObject(Types[handle], v, 0)

-----------------------------------------------------------------------------
(* serialize_arena.cc and serialize.cc: from nodes to words.               *)

NoNodes == [ok |-> FALSE, nodes |-> <<>>]

\* ParseNode: the node at offset at, which ends by limit.
NodeFits(a, at, limit) ==
  /\ limit - at >= 4
  /\ ~IsScalar(a[at + 1]) /\ a[at + 1] # "none" =>
       a[at + 4] >= 4 /\ a[at + 4] <= limit - at
ParseNode(a, at) ==
  LET scalar == IsScalar(a[at + 1]) \/ a[at + 1] = "none"
      size == IF scalar THEN 4 ELSE a[at + 4]
  IN  [start |-> at, end |-> at + size, kind |-> a[at + 1],
       auxiliary |-> a[at + 2], count |-> a[at + 3]]

\* count nodes that fill [at, limit), each behind gap words.
RECURSIVE ParseNodes(_, _, _, _, _)
ParseNodes(a, at, limit, count, gap) ==
  IF count = 0 THEN [ok |-> at = limit, nodes |-> <<>>]
  ELSE IF limit < at + gap \/ ~NodeFits(a, at + gap, limit) THEN NoNodes
  ELSE LET node == ParseNode(a, at + gap)
           rest == ParseNodes(a, node.end, limit, count - 1, gap)
       IN  IF rest.ok THEN [ok |-> TRUE, nodes |-> <<node>> \o rest.nodes]
                      ELSE NoNodes

PayloadOf(a, node) == SubSeq(a, node.start + 5, node.end)

\* Unit: data inside it, or a segment of the buffer; false is BadUnit.
Inline(data) == [ok |-> TRUE, data |-> data, seg |-> <<>>]
Segment(words) == [ok |-> TRUE, data |-> <<>>, seg |-> words]
BadUnit == [ok |-> FALSE, data |-> <<>>, seg |-> <<>>]
Size(u) == Len(u.data) + Len(u.seg)

\* WriteVarInt: one bit a byte, with the continuation bit on all but the last.
RECURSIVE WriteVarInt(_)
WriteVarInt(n) == IF n < 2 THEN <<n>> ELSE <<2 + (n % 2)>> \o WriteVarInt(n \div 2)

\* Serialize(const Slice<char>&): a string of one word lies inside the Unit.
SerializeBytes(bytes) ==
  LET words == PackBytes(WriteVarInt(4 * Len(bytes)) \o bytes)
  IN  IF Len(bytes) >= MaxBytes THEN BadUnit
      ELSE IF Len(words) = 1 THEN Inline(words) ELSE Segment(words)

\* The bytes of a string node, whose payload has no other words.
SerializeBlob(a, node) ==
  LET words == PayloadOf(a, node)
  IN  IF Len(words) # Words(node.count) THEN BadUnit
      ELSE SerializeBytes(BytesAt(words, 0, node.count))

SerializeScalarArray(a, node) ==
  LET kind == node.auxiliary
      words == PayloadOf(a, node)
      expected == IF kind = "bool" THEN Words(node.count) ELSE node.count * WidthWords(kind)
  IN  IF Len(words) # expected THEN BadUnit
      ELSE IF kind = "bool" THEN SerializeBytes(BytesAt(words, 0, node.count))
      ELSE IF node.count = 0 THEN Inline(<<WidthWords(kind)>>)
      ELSE Segment(<<4 * node.count + WidthWords(kind)>> \o words)

\* BestArraySize: the least of the sizes for cells of one, two or three
\* words, the first of equals.
ArraySize(units, m) ==
  m * Len(units) +
  FoldLeft(LAMBDA n, u : n + (IF Size(u) > m THEN Size(u) ELSE 0), 0, units)
BestWidth(units) ==
  Min({m \in 1 .. 3 : \A x \in 1 .. 3 : ArraySize(units, m) <= ArraySize(units, x)})

OffsetWord(delta) == 4 * delta + 3

\* Pick and Mark: cells of width[i] words; what does not fit lies behind the
\* cells, in their order, and the cell has the offset from itself.
Padded(words, m) == words \o [i \in 1 .. m - Len(words) |-> 0]
Cells(units, width) ==
  LET out(i) == units[i].data = <<>> /\ Len(units[i].seg) > width[i]
      behind == [i \in DOMAIN units |-> IF out(i) THEN units[i].seg ELSE <<>>]
      from(i) == MapThenSumSet(LAMBDA j : IF j < i THEN Len(behind[j]) ELSE width[j],
                               DOMAIN units)
      cell(i) == IF out(i) THEN <<OffsetWord(from(i))>> ELSE units[i].data \o units[i].seg
  IN  FlattenSeq([i \in DOMAIN units |-> Padded(cell(i), width[i])])
      \o FlattenSeq(behind)

SerializeArray(units) ==
  IF units = <<>> THEN Inline(<<1>>)
  ELSE LET m == BestWidth(units)
       IN  Segment(<<4 * Len(units) + m>> \o Cells(units, [i \in DOMAIN units |-> m]))

\* The perfect hash of one key is one word, of a few keys four; all that is
\* read of it here is the count in the first word.
IndexWords(n) == IF n <= 1 THEN 1 ELSE 4

SerializeMap(keys, values) ==
  IF keys = <<>> THEN Inline(<<64 + 16>>)
  ELSE LET n == Len(keys)
           m1 == BestWidth(keys)
           m2 == BestWidth(values)
           head == 64 * m1 + 16 * m2 + n
       IN  Segment(Padded(<<head>>, IndexWords(n)) \o
                   Cells(Alternate(keys, values),
                         Alternate([i \in 1 .. n |-> m1], [i \in 1 .. n |-> m2])))

\* Fields of the head word and of a section: 12 and 25.
First == 3
Sect == 5
Sections(n) == (n + Sect - First - 1) \div Sect

\* 0xff: the count of the sections has 2 bits at this scale, not 8.
MaxSections == 3

\* SerializeMessage: units by field number; the segments that were not folded
\* lie behind the body in the order of the nodes.
SerializeMessage(units, ids) ==
  LET kept == {f \in DOMAIN units : \E g \in DOMAIN units : g >= f /\ Size(units[g]) # 0}
      width(f) == IF units[f].data # <<>> THEN Len(units[f].data)
                  ELSE IF units[f].seg # <<>> THEN 1 ELSE 0
      before(f) == MapThenSumSet(width, {g \in kept : g < f})
      total == MapThenSumSet(width, kept)
      section == Sections(Cardinality(kept))
      mark(from, n) == MapThenSumSet(LAMBDA f : width(f) * 4^(f - from),
                                     {f \in kept : f >= from /\ f < from + n})
      start(s) == First + Sect * s
      block(s) == <<mark(start(s), Sect - 1),
                    mark(start(s) + Sect - 1, 1) + 4 * before(start(s))>>
      place(f) == CHOOSE i \in DOMAIN ids : ids[i] = f
      ahead(f) == MapThenSumSet(LAMBDA i : Len(units[ids[i]].seg), 1 .. place(f) - 1)
      word(f) == IF units[f].seg # <<>>
                   THEN <<OffsetWord(total - before(f) + ahead(f))>>
                   ELSE units[f].data
  IN  IF kept = {} THEN Segment(<<0>>)
      ELSE IF section > MaxSections THEN BadUnit
      ELSE Segment(<<section + 4 * mark(0, First)>>
                   \o FlattenSeq([s \in 1 .. section |-> block(s - 1)])
                   \o FlattenSeq([i \in 1 .. Cardinality(kept) |-> word(i - 1)])
                   \o FlattenSeq([i \in DOMAIN ids |-> units[ids[i]].seg]))

\* Mutant: a segment of four words is folded too.
FoldFieldWide(u) ==
  IF Len(u.seg) <= 4 THEN [u EXCEPT !.data = @ \o u.seg, !.seg = <<>>] ELSE u

\* FoldField: a segment of at most three words moves into the Unit.
FoldField(u) == IF Len(u.seg) < 4 THEN [u EXCEPT !.data = @ \o u.seg, !.seg = <<>>] ELSE u

\* The unit of an array, a map or a message of n field numbers, unless one of
\* its parts failed; units[i] is the field ids[i].
ArrayUnit(units) == IF AllGood(units) THEN SerializeArray(units) ELSE BadUnit
MapUnit(keys, values) ==
  IF AllGood(keys) /\ AllGood(values) THEN SerializeMap(keys, values) ELSE BadUnit
MessageUnit(units, ids, n) ==
  LET unit(f) == IF Contains(ids, f)
                   THEN FoldField(units[CHOOSE i \in DOMAIN ids : ids[i] = f])
                   ELSE Inline(<<>>)
  IN  IF AllGood(units) THEN SerializeMessage([f \in 0 .. n - 1 |-> unit(f)], ids)
      ELSE BadUnit

RECURSIVE SerializeNode(_, _, _)
SerializeNodes(a, nodes, turned) ==
  [i \in DOMAIN nodes |-> SerializeNode(a, nodes[i], turned)]

SerializeArrayNode(a, node, turned) ==
  LET parsed == ParseNodes(a, node.start + 4, node.end, node.count, 0)
  IN  IF IsScalar(node.auxiliary) THEN SerializeScalarArray(a, node)
      ELSE IF parsed.ok THEN ArrayUnit(SerializeNodes(a, parsed.nodes, turned))
      ELSE BadUnit

\* No field twice, none behind fieldCapacity.
SerializeMessageNode(a, node, turned) ==
  LET parsed == ParseNodes(a, node.start + 4, node.end, node.count, 1)
      ids == [i \in DOMAIN parsed.nodes |-> a[parsed.nodes[i].start]]
  IN  IF /\ node.auxiliary \in 1 .. First + Sect * MaxSections
         /\ parsed.ok
         /\ IsInjective(ids) /\ ToSet(ids) \subseteq 0 .. node.auxiliary - 1
        THEN MessageUnit(SerializeNodes(a, parsed.nodes, turned), ids, node.auxiliary)
        ELSE BadUnit

\* Slots of the perfect hash: the pairs in some order.
SerializeMapNode(a, node, turned) ==
  LET parsed == ParseNodes(a, node.start + 4, node.end, 2 * node.count, 0)
      nodes == IF turned THEN Reverse(parsed.nodes) ELSE parsed.nodes
      keys == [i \in 1 .. Len(nodes) \div 2 |-> nodes[IF turned THEN 2*i ELSE 2*i - 1]]
      values == [i \in 1 .. Len(nodes) \div 2 |-> nodes[IF turned THEN 2*i - 1 ELSE 2*i]]
  IN  IF /\ parsed.ok
         /\ \A i \in DOMAIN keys : <<keys[i].kind, values[i].kind>> = node.auxiliary
        THEN MapUnit(SerializeNodes(a, keys, turned), SerializeNodes(a, values, turned))
        ELSE BadUnit

SerializeNode(a, node, turned) ==
  CASE node.kind = "none" -> Inline(<<>>)
    [] node.kind = "message" -> SerializeMessageNode(a, node, turned)
    [] node.kind = "array" -> SerializeArrayNode(a, node, turned)
    [] node.kind = "map" -> SerializeMapNode(a, node, turned)
    [] IsBlob(node.kind) -> SerializeBlob(a, node)
    [] IsScalar(node.kind) ->
         Inline(ScalarWords(node.kind,
                  ScalarOf(node.kind, SubSeq(a, node.start + 3, node.end))))

\* A unit whose data lies inside it is put into the buffer.
InBuffer(unit) == IF unit.ok THEN Good(unit.data \o unit.seg) ELSE Bad

\* pc_arena_serialize: one node, of the kind of the root, fills the arena.
ArenaSerialize(handle, a, turned) ==
  LET root == ParseNodes(a, 0, Len(a), 1, 0)
  IN  IF ~root.ok \/ root.nodes[1].kind # Types[handle].kind THEN Bad
      ELSE InBuffer(SerializeNode(a, root.nodes[1], turned))
=============================================================================
