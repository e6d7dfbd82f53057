---------------------------- MODULE TapeDecoder ----------------------------
(***************************************************************************)
(* deserialize of the TypeScript runtime: the decoder in WASM              *)
(* (decode_tape.cc) checks the words against the types and writes a tape   *)
(* of records; materialize (deserialize-tape.ts) builds the value from the *)
(* tape without checks of its own.                                         *)
(*                                                                         *)
(* Word offsets and the places of the tape count from 0.  A record does    *)
(* not depend on its place, so Visit returns the records of its subtree.   *)
(***************************************************************************)
EXTENDS TsTypes

-----------------------------------------------------------------------------
(* decode_tape.cc.  A location is where an object starts and the offset it *)
(* must end by.                                                            *)

RequireWords(at, width, limit) == at <= limit /\ width <= limit - at

Word(input, at) == input[at + 1]

Location(at, limit) == [ok |-> TRUE, at |-> at, limit |-> limit]
NoLocation == [ok |-> FALSE, at |-> 0, limit |-> 0]

\* ObjectLocation: a cell or field of width words at offset at is the object
\* or its offset.
ObjectLocation(input, at, width) ==
  IF width = 0 \/ ~RequireWords(at, 1, Len(input)) THEN NoLocation
  ELSE LET delta == Word(input, at) \div 4
       IN  IF Word(input, at) % 4 # 3
             THEN IF RequireWords(at, width, Len(input)) THEN Location(at, at + width)
                  ELSE NoLocation
           ELSE IF delta = 0 \/ ~RequireWords(at + delta, 1, Len(input)) THEN NoLocation
           ELSE Location(at + delta, Len(input))

Span(from, n) == [ok |-> TRUE, from |-> from, n |-> n]
NoSpan == [ok |-> FALSE, from |-> 0, n |-> 0]

\* Mutant: the length is compared with the words of the object, not with the
\* bytes that are left behind the header.
ParseBytesFromStart(input, loc) ==
  LET start == 4 * loc.at
      limit == 4 * Min({loc.limit, Len(input)})
      ends == {i \in 0 .. Min({5, limit - start}) - 1 : ByteAt(input, start + i) < 2}
      last == Min(ends)
      mark == MapThenSumSet(LAMBDA i : (ByteAt(input, start + i) % 2) * 2^i, 0 .. last)
  IN  IF ~loc.ok \/ ~RequireWords(loc.at, 1, loc.limit) \/ ends = {} THEN NoSpan
      ELSE IF mark % 4 # 0 \/ mark \div 4 > limit - start THEN NoSpan
      ELSE Span(start + last + 1, mark \div 4)

\* ParseBytes: offset and length in bytes, behind a length of at most five
\* bytes whose two lowest bits are 0.
ParseBytes(input, loc) ==
  LET start == 4 * loc.at
      limit == 4 * Min({loc.limit, Len(input)})
      ends == {i \in 0 .. Min({5, limit - start}) - 1 : ByteAt(input, start + i) < 2}
      last == Min(ends)
      mark == MapThenSumSet(LAMBDA i : (ByteAt(input, start + i) % 2) * 2^i, 0 .. last)
  IN  IF ~loc.ok \/ ~RequireWords(loc.at, 1, loc.limit) \/ ends = {} THEN NoSpan
      ELSE IF mark % 4 # 0 \/ mark \div 4 > limit - (start + last + 1) THEN NoSpan
      ELSE Span(start + last + 1, mark \div 4)

\* SumWidths
SumWidths(widths, n) == MapThenSumSet(LAMBDA i : (widths \div 4^i) % 4, 0 .. n - 1)

IndexWords(count) == IF count <= 1 THEN 1 ELSE 4

AppendHeader(kind, handle, count, data0, data1) ==
  <<KindCode[kind], handle, count, data0, data1>>

\* ValidateScalar: the descriptor of a string or bytes, and whether a number
\* has the words of its kind.
Descriptor(input, kind, at, width) ==
  IF IsBlob(kind)
    THEN LET span == ParseBytes(input, ObjectLocation(input, at, width))
         IN  IF span.ok THEN Good(<<span.from, span.n>>) ELSE Bad
    ELSE IF width = WidthWords(kind) THEN Good(<<at, width>>) ELSE Bad

RECURSIVE Visit(_, _, _, _)

\* header followed by all the records, unless one of them is refused.
Records(header, records) ==
  IF AllGood(records) THEN Good(header \o Joined(records)) ELSE Bad

\* The objects at the given locations, all of one type.
VisitAll(input, child, locations, depth) ==
  Records(<<>>, [i \in DOMAIN locations |->
                   IF locations[i].ok THEN Visit(input, child, locations[i], depth + 1)
                   ELSE Bad])

First == 3
Sect == 5

\* The fields marked in the head word (s = 0) and in section s, from the body
\* word the section starts with: place and width by field number.
Marks(input, at, s) ==
  LET low == Word(input, at + 2*s - 1)
      high == Word(input, at + 2*s)
      n == IF s = 0 THEN First ELSE Sect
      first == IF s = 0 THEN 0 ELSE First + Sect * (s - 1)
      widths == IF s = 0 THEN Word(input, at) \div 4 ELSE low + WordSize * (high % 4)
      before == IF s = 0 THEN 0 ELSE high \div 4
  IN  [id \in first .. first + n - 1 |->
         <<before + SumWidths(widths, id - first), (widths \div 4^(id - first)) % 4>>]

VisitMessage(input, handle, loc, depth) ==
  LET fields == Types[handle].fields
      sections == Word(input, loc.at) % 4
      body == loc.at + 1 + 2 * sections
      marks == [s \in 0 .. sections |-> Marks(input, loc.at, s)]
      ids(s) == {id \in DOMAIN marks[s] : marks[s][id][2] # 0}
      end(s) == Max({0} \union {marks[s][id][1] + marks[s][id][2] : id \in DOMAIN marks[s]})
      field(i) == LET s == {x \in 0 .. sections : fields[i].id \in ids(x)}
                  IN  IF s = {} THEN <<0, 0>>
                      ELSE LET m == marks[CHOOSE x \in s : TRUE][fields[i].id]
                           IN  <<body + m[1], m[2]>>
      record(i) ==
        IF field(i)[1] = 0 THEN Good(<<0, 0>>)
        ELSE IF IsComplex(fields[i].kind) THEN Good(field(i))
        ELSE Descriptor(input, fields[i].kind, field(i)[1], field(i)[2])
      child(i) ==
        IF field(i)[1] = 0 \/ ~IsComplex(fields[i].kind) THEN Good(<<>>)
        ELSE IF depth >= MaxDepth THEN Bad
        ELSE VisitAll(input, fields[i].child,
                      <<ObjectLocation(input, field(i)[1], field(i)[2])>>, depth)
  IN  IF ~RequireWords(loc.at, 1, loc.limit) THEN Bad
      ELSE IF ~RequireWords(loc.at, 1 + 2 * sections, loc.limit) THEN Bad
      ELSE IF \E s \in 0 .. sections :
                ~RequireWords(body, IF ids(s) = {} /\ s # sections THEN 0 ELSE end(s),
                              loc.limit)
        THEN Bad
      ELSE Records(AppendHeader("message", handle, Len(fields), 0, 0),
                   [i \in DOMAIN fields |-> record(i)] \o [i \in DOMAIN fields |-> child(i)])

VisitArray(input, handle, loc, depth) ==
  LET t == Types[handle]
      bytes == ParseBytes(input, loc)
      width == Word(input, loc.at) % 4
      count == Word(input, loc.at) \div 4
      body == loc.at + 1
      at(i) == body + (i - 1) * width
      header == AppendHeader("array", handle, count, body, width)
  IN  IF t.value = "bool"
        THEN IF bytes.ok THEN Good(AppendHeader("array", handle, bytes.n, bytes.from, 0))
             ELSE Bad
      ELSE IF ~RequireWords(loc.at, 1, loc.limit) THEN Bad
      ELSE IF width = 0 \/ ~RequireWords(body, width * count, loc.limit) THEN Bad
      ELSE IF IsBlob(t.value)
        THEN Records(header, [i \in 1 .. count |-> Descriptor(input, t.value, at(i), width)])
      ELSE IF IsScalar(t.value)
        THEN IF width = WidthWords(t.value) THEN Good(header) ELSE Bad
      ELSE IF depth >= MaxDepth THEN Bad
      ELSE Records(header, <<VisitAll(input, t.child,
                               [i \in 1 .. count |-> ObjectLocation(input, at(i), width)],
                               depth)>>)

VisitMap(input, handle, loc, depth) ==
  LET t == Types[handle]
      key_width == Word(input, loc.at) \div 64
      value_width == (Word(input, loc.at) \div 16) % 4
      count == Word(input, loc.at) % 16
      body == loc.at + IndexWords(count)
      stride == key_width + value_width
      key(i) == body + (i - 1) * stride
      keys == [i \in 1 .. count |-> Descriptor(input, t.key, key(i), key_width)]
      values == [i \in 1 .. count |->
                   Descriptor(input, t.value, key(i) + key_width, value_width)]
      pick(kind, descriptors) ==
        [i \in 1 .. count |-> IF IsBlob(kind) THEN descriptors[i].v ELSE <<>>]
      widthFits(kind, width) == IsScalar(kind) => width = WidthWords(kind)
      header == AppendHeader("map", handle, count, body, key_width + WordSize * value_width)
                \o FlattenSeq(Alternate(pick(t.key, keys), pick(t.value, values)))
      location(i) == ObjectLocation(input, key(i) + key_width, value_width)
  IN  IF ~RequireWords(loc.at, 1, loc.limit) THEN Bad
      ELSE IF key_width = 0 \/ value_width = 0
              \/ ~RequireWords(body, stride * count, loc.limit) THEN Bad
      ELSE IF ~widthFits(t.key, key_width) \/ ~widthFits(t.value, value_width) THEN Bad
      ELSE IF ~AllGood(keys) \/ (IsBlob(t.value) /\ ~AllGood(values)) THEN Bad
      ELSE IF ~IsComplex(t.value) THEN Good(header)
      ELSE IF depth >= MaxDepth THEN Bad
      ELSE Records(header, <<VisitAll(input, t.child,
                               [i \in 1 .. count |-> location(i)], depth)>>)

Visit(input, handle, loc, depth) ==
  CASE Types[handle].kind = "message" -> VisitMessage(input, handle, loc, depth)
    [] Types[handle].kind = "array" -> VisitArray(input, handle, loc, depth)
    [] Types[handle].kind = "map" -> VisitMap(input, handle, loc, depth)

\* pc_decode_tape
DecodeTape(handle, input) ==
  IF input = <<>> THEN Bad ELSE Visit(input, handle, Location(0, Len(input)), 0)

-----------------------------------------------------------------------------
(* deserialize-tape.ts.  A step of materialize yields a value, the cursor  *)
(* behind its records, whether the decoder of strings accepted it, and     *)
(* whether every read of tape and input was inside them.                   *)

Result(v, cursor, ok, inside) ==
  [v |-> v, cursor |-> cursor, ok |-> ok, inside |-> inside]

\* context.tape[i] ?? 0
Tape(tape, i) == IF i < Len(tape) THEN tape[i + 1] ELSE 0

\* decodeString, subarray and slice; a number is read through the DataView.
ScalarAt(input, kind, first, second) ==
  IF IsBlob(kind)
    THEN LET inside == first + second <= 4 * Len(input)
             bytes == IF inside THEN BytesAt(input, first, second) ELSE <<>>
         IN  IF kind = "bytes" THEN Result(bytes, 0, TRUE, inside)
             ELSE Result(Characters(bytes), 0, WellFormed(bytes), inside)
    ELSE LET inside == first + WidthWords(kind) <= Len(input)
         IN  Result(IF inside THEN <<ScalarOf(kind, SubSeq(input, first + 1, Len(input)))>>
                    ELSE <<0>>, 0, TRUE, inside)

\* Presence bits: words of WordBits bits, 32 in the code.
WordBits == 2
PresenceBits(present, n) ==
  [w \in 0 .. (n - 1) \div WordBits |->
     {b \in 0 .. WordBits - 1 : w * WordBits + b + 1 \in present}]
HasPresentField(bits, i) == (i - 1) % WordBits \in bits[(i - 1) \div WordBits]

\* defaultFactoryForField
DefaultOf(f) == IF IsScalar(f.kind) THEN <<0>> ELSE <<>>

RECURSIVE Materialize(_, _, _, _)

\* done, followed by one.
Then(done, one) ==
  Result(Append(done.v, one.v), one.cursor, done.ok /\ one.ok, done.inside /\ one.inside)

\* The objects whose records follow the cursor, one after the other.
MaterializeAll(input, tape, handles, cursor) ==
  FoldLeft(LAMBDA done, h : Then(done, Materialize(input, tape, h, done.cursor)),
           Result(<<>>, cursor, TRUE, TRUE), handles)

\* Values that are read one after the other, the last one before cursor.
Joint(results, cursor) ==
  Result([i \in DOMAIN results |-> results[i].v], cursor,
         \A i \in DOMAIN results : results[i].ok,
         \A i \in DOMAIN results : results[i].inside)

\* A field that is absent gets its default value; the others are marked as
\* present.
MessageOf(present, nested, simple, children) ==
  LET value(i) == IF Contains(nested, i)
                    THEN children.v[CHOOSE j \in DOMAIN nested : nested[j] = i]
                    ELSE simple.v[i]
  IN  Result(<<[i \in DOMAIN simple.v |-> value(i)], PresenceBits(present, Len(simple.v))>>,
             children.cursor, simple.ok /\ children.ok, simple.inside /\ children.inside)

MaterializeMessage(input, tape, t, start) ==
  LET n == Len(t.fields)
      at(i) == start + 5 + 2 * (i - 1)
      present == {i \in 1 .. n : Tape(tape, at(i)) # 0}
      nested == SelectSeq([i \in 1 .. n |-> i],
                          LAMBDA i : i \in present /\ IsComplex(t.fields[i].kind))
      simple(i) ==
        IF i \in present /\ ~IsComplex(t.fields[i].kind)
          THEN ScalarAt(input, t.fields[i].kind, Tape(tape, at(i)), Tape(tape, at(i) + 1))
          ELSE Result(DefaultOf(t.fields[i]), 0, TRUE, at(i) + 2 <= Len(tape))
  IN  MessageOf(present, nested, Joint([i \in 1 .. n |-> simple(i)], 0),
                MaterializeAll(input, tape,
                  [j \in DOMAIN nested |-> t.fields[nested[j]].child], at(n + 1)))

MaterializeBools(input, first, count, behind) ==
  LET inside == first + count <= 4 * Len(input)
      bytes == IF inside THEN BytesAt(input, first, count) ELSE <<>>
  IN  Result([i \in DOMAIN bytes |-> <<IF bytes[i] # 0 THEN 1 ELSE 0>>],
             behind, TRUE, inside)

MaterializeArray(input, tape, t, start) ==
  LET count == Tape(tape, start + 2)
      data0 == Tape(tape, start + 3)
      data1 == Tape(tape, start + 4)
      at(i) == start + 5 + 2 * (i - 1)
  IN  CASE IsComplex(t.value) ->
             MaterializeAll(input, tape, [i \in 1 .. count |-> t.child], start + 5)
        [] t.value = "bool" -> MaterializeBools(input, data0, count, start + 5)
        [] IsBlob(t.value) ->
             Joint([i \in 1 .. count |->
                      ScalarAt(input, t.value, Tape(tape, at(i)), Tape(tape, at(i) + 1))],
                   at(count + 1))
        [] OTHER ->
             Joint([i \in 1 .. count |->
                      ScalarAt(input, t.value, data0 + (i - 1) * data1, data1)], start + 5)

\* A later pair replaces an earlier one with the same key.
MapOf(keys, values) ==
  Result([k \in ToSet(keys.v) |->
            values.v[Max({i \in DOMAIN keys.v : keys.v[i] = k})]],
         values.cursor, keys.ok /\ values.ok, keys.inside /\ values.inside)

MaterializeMap(input, tape, t, start) ==
  LET count == Tape(tape, start + 2)
      data0 == Tape(tape, start + 3)
      key_width == Tape(tape, start + 4) % WordSize
      value_width == Tape(tape, start + 4) \div WordSize
      key_words == IF t.key = "string" THEN 2 ELSE 0
      descriptor_stride == key_words + (IF IsBlob(t.value) THEN 2 ELSE 0)
      descriptor(i) == start + 5 + (i - 1) * descriptor_stride
      key(i) == data0 + (i - 1) * (key_width + value_width)
      scalar(kind, d, at, width) ==
        IF IsBlob(kind) THEN ScalarAt(input, kind, Tape(tape, d), Tape(tape, d + 1))
                        ELSE ScalarAt(input, kind, at, width)
      keys == [i \in 1 .. count |-> scalar(t.key, descriptor(i), key(i), key_width)]
      values == [i \in 1 .. count |->
                   scalar(t.value, descriptor(i) + key_words, key(i) + key_width,
                          value_width)]
  IN  MapOf(Joint(keys, 0),
            IF IsComplex(t.value)
              THEN MaterializeAll(input, tape, [i \in 1 .. count |-> t.child],
                                  descriptor(count + 1))
              ELSE Joint(values, descriptor(count + 1)))

\* Records that end behind the tape were not all inside it.
Inside(r, tape) == [r EXCEPT !.inside = @ /\ r.cursor <= Len(tape)]

Materialize(input, tape, handle, start) ==
  LET t == Types[handle]
  IN  Inside(CASE t.kind = "message" -> MaterializeMessage(input, tape, t, start)
               [] t.kind = "array" -> MaterializeArray(input, tape, t, start)
               [] t.kind = "map" -> MaterializeMap(input, tape, t, start), tape)
=============================================================================
