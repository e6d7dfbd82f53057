----------------------------- MODULE Container -----------------------------
(***************************************************************************)
(* SerializeArray and SerializeMap (src/serialize.cc) over the buffer that *)
(* grows towards lower addresses, and the readers that walk the result     *)
(* (include/protocache/access.h).                                          *)
(*                                                                         *)
(* A place in the buffer is its distance from the end, so that it keeps    *)
(* its meaning when the buffer grows: Buffer::At(p) is place p, and the    *)
(* word after it in memory is place p-1.  An object with its head at place *)
(* pos and len words occupies places pos-len+1 .. pos.                     *)
(*                                                                         *)
(* A word is <<what, a, b, low>>; low is its two lowest bits, which is all *)
(* the readers look at to tell an offset (11) from an embedded object.     *)
(* The cells of a map are key, value, key, value ..., those of an array    *)
(* its elements.                                                           *)
(***************************************************************************)
EXTENDS IndexSize, Sequences, FiniteSets, FiniteSetsExt

CONSTANTS
  MaxElements,  \* bound on the elements of an array
  MaxPairs,     \* bound on the pairs of a map
  MaxLen,       \* bound on the words of one element, key or value
  MaxLast,      \* bound on what the buffer holds before the container
  SizeLimit     \* 1<<30: the size in words at which serialization fails

ASSUME BoundsAssumption ==
  /\ MaxElements \in Nat /\ MaxPairs \in Nat /\ MaxLast \in Nat
  /\ MaxLen \in Nat \ {0} /\ SizeLimit \in Nat

VARIABLES
  kind,   \* "array" or "map"
  n,      \* elements or pairs
  scalar, \* scalar[0]: width of scalar keys, scalar[1]: of values, 0: objects
  last,   \* buf.Size() before the first element
  mem,    \* the words of the buffer, by place: 1 .. size
  size,   \* buf.Size()
  units,  \* the Unit of each cell
  shape,  \* what was serialized for each cell (specification only)
  k,      \* cell to handle next, counting down (up in "count")
  sizes,  \* sizes[1], sizes[2]: the sizes[3] of BestArraySize for keys and values
  tail,   \* place of the tail pointer of Pick
  src,    \* place of the source pointer while words are moved
  width,  \* width[1], width[2]: the m1 and m2 of a map; width[2]: m of an array
  phase

vars == <<kind, n, scalar, last, mem, size, units, shape, k, sizes, tail, src,
          width, phase>>
input == <<kind, n, scalar, last>>

-----------------------------------------------------------------------------
(* Words, objects and units.                                               *)

Pad == <<"pad", 0, 0, 0>>
OldWord(p) == <<"old", p, 0, 0>>
DataWord(c, w, low) == <<"data", c, w, low>>
Offset(delta) == <<"offset", delta, 0, 3>>
Low(word) == word[4]
Delta(word) == word[2]

\* WordSize(index.size()): the words of the perfect hash index, which is only
\* the number of pairs if there is one.
IndexWords(pairs) == IF pairs > 1 THEN (BuildBytes(pairs) + 3) \div 4 ELSE 1

\* Two lowest bits and length of the objects that can be an element: strings
\* (header len<<2), messages (section count), arrays (width) and maps (count
\* in the low bits of the index), each with the words its format needs.
ObjectShapes ==
  LET Lens == 1 .. MaxLen
      Str == {<<0, l>> : l \in Lens \ {1}}
      Msg == UNION {{<<s % 4, l>> : l \in {x \in Lens : x >= 1 + 2*s}} : s \in 0 .. 3}
      Arr == UNION {{<<m, l>> : l \in {x \in Lens : x >= 1 + m}} : m \in 1 .. 3}
      Map == UNION {{<<p % 4, l>> : l \in {x \in Lens : x >= IndexWords(p) + 2*p}}
                      : p \in 1 .. 3}
  IN  Str \union Msg \union Arr \union Map

\* Objects that never get a segment: strings of one word, and the empty array
\* and map, whose headers end in 01 and 00.
InlineShapes == {<<0, 1>>, <<1, 1>>}

NoUnit == [len |-> 0, data |-> <<>>, pos |-> 0, slen |-> 0]
InlineUnit(data) == [len |-> Len(data), data |-> data, pos |-> 0, slen |-> 0]
Segment(from, now) == [len |-> 0, data |-> <<>>, pos |-> now, slen |-> now - from]

Count == IF kind = "map" THEN 2*n ELSE n
Cells == 0 .. Count - 1

\* 0 for the key cells of a map, 1 for values and elements.
Role(c) == IF kind = "map" THEN c % 2 ELSE 1

\* The words of cell c, as they were serialized.
DataOf(c) == [w \in 1 .. shape[c].len |->
                DataWord(c, w, IF w = 1 THEN shape[c].low ELSE 0)]

-----------------------------------------------------------------------------
(* Cell width.                                                             *)

UnitSize(u) == IF u.len = 0 THEN u.slen ELSE u.len

\* BestArraySize: the first of the smallest sums.
BestWidth(role) ==
  LET Smaller(a, b) == IF sizes[role + 1][b] < sizes[role + 1][a] THEN b ELSE a
  IN  Smaller(Smaller(1, 2), 3)

BestArraySize(role) == sizes[role + 1][BestWidth(role)]

\* index_size + key_size + value_size of SerializeMap, size of SerializeArray.
TotalSize == IF kind = "map"
               THEN IndexWords(n) + BestArraySize(0) + BestArraySize(1)
               ELSE BestArraySize(1)

-----------------------------------------------------------------------------
Init ==
  /\ \/ kind = "array" /\ n \in 0 .. MaxElements /\ scalar = <<0, 0>>
     \/ kind = "map" /\ n \in 0 .. MaxPairs
        /\ scalar \in {<<a, b>> : a \in 0 .. 2, b \in 0 .. 2}
  /\ last \in 0 .. MaxLast
  /\ mem = [p \in 1 .. last |-> OldWord(p)]
  /\ size = last
  /\ units = [c \in Cells |-> NoUnit]
  /\ shape = [c \in Cells |-> [len |-> 0, low |-> 0]]
  /\ k = Count - 1
  /\ sizes = <<<<0, 0, 0>>, <<0, 0, 0>>>>
  /\ tail = 0 /\ src = 0 /\ width = <<0, 0>>
  /\ phase = "elements"

\* No elements: the container is a single word in the unit itself.
SerializeEmpty ==
  /\ phase = "elements" /\ n = 0
  /\ phase' = "empty"
  /\ UNCHANGED <<input, mem, size, units, shape, k, sizes, tail, src, width>>

\* The caller serializes cell k, from the last one to the first, value
\* before key: a scalar or a small object goes into the unit ...
ElementInline ==
  /\ phase = "elements" /\ k >= 0
  /\ \E s \in IF scalar[Role(k) + 1] = 0 THEN InlineShapes
              ELSE {<<low, scalar[Role(k) + 1]>> : low \in {0, 3}} :
       LET data == [w \in 1 .. s[2] |-> DataWord(k, w, IF w = 1 THEN s[1] ELSE 0)]
       IN  /\ units' = [units EXCEPT ![k] = InlineUnit(data)]
           /\ shape' = [shape EXCEPT ![k] = [len |-> s[2], low |-> s[1]]]
  /\ k' = k - 1
  /\ UNCHANGED <<input, mem, size, sizes, tail, src, width, phase>>

\* ... any other object into the buffer.
ElementSegment ==
  /\ phase = "elements" /\ k >= 0
  /\ scalar[Role(k) + 1] = 0
  /\ \E s \in ObjectShapes :
       LET top == size + s[2]
       IN  /\ mem' = [p \in 1 .. top |->
                        IF p \in size + 1 .. top
                          THEN DataWord(k, top - p + 1, IF p = top THEN s[1] ELSE 0)
                          ELSE mem[p]]
           /\ size' = top
           /\ units' = [units EXCEPT ![k] = Segment(size, top)]
           /\ shape' = [shape EXCEPT ![k] = [len |-> s[2], low |-> s[1]]]
  /\ k' = k - 1
  /\ UNCHANGED <<input, sizes, tail, src, width, phase>>

\* Start of SerializeArray or SerializeMap.
CountStart ==
  /\ phase = "elements" /\ k < 0 /\ n > 0
  /\ phase' = "count" /\ k' = 0
  /\ UNCHANGED <<input, mem, size, units, shape, sizes, tail, src, width>>

\* Mutant: a unit that just fits its cell is counted as if it had an offset.
CountCellLoose ==
  /\ phase = "count" /\ k < Count
  /\ sizes' = [sizes EXCEPT ![Role(k) + 1] =
                 [m \in 1 .. 3 |-> @[m] + m + (IF UnitSize(units[k]) >= m
                                                 THEN UnitSize(units[k]) ELSE 0)]]
  /\ k' = k + 1
  /\ UNCHANGED <<input, mem, size, units, shape, tail, src, width, phase>>

\* The loop of BestArraySize: the total words with cells of one, two and three
\* words.  (A map has a loop for the keys and one for the values, each with
\* its sums.)
CountCell ==
  /\ phase = "count" /\ k < Count
  /\ sizes' = [sizes EXCEPT ![Role(k) + 1] =
                 [m \in 1 .. 3 |-> @[m] + m + (IF UnitSize(units[k]) > m
                                                 THEN UnitSize(units[k]) ELSE 0)]]
  /\ k' = k + 1
  /\ UNCHANGED <<input, mem, size, units, shape, tail, src, width, phase>>

\* Mutant: the tail starts at the end of the buffer, not where it stood.
ChooseWidthsFromEnd ==
  /\ phase = "count" /\ k = Count
  /\ IF TotalSize >= SizeLimit
       THEN phase' = "failed" /\ UNCHANGED <<k, tail, width>>
       ELSE /\ phase' = "pick"
            /\ width' = [r \in 1 .. 2 |-> IF r = 1 /\ kind = "array" THEN 0
                                          ELSE BestWidth(r - 1)]
            /\ k' = Count - 1
            /\ tail' = 0
  /\ UNCHANGED <<input, mem, size, units, shape, sizes, src>>

\* The widths, and tail = buf.At(last).
ChooseWidths ==
  /\ phase = "count" /\ k = Count
  /\ IF TotalSize >= SizeLimit
       THEN phase' = "failed" /\ UNCHANGED <<k, tail, width>>
       ELSE /\ phase' = "pick"
            /\ width' = [r \in 1 .. 2 |-> IF r = 1 /\ kind = "array" THEN 0
                                          ELSE BestWidth(r - 1)]
            /\ k' = Count - 1
            /\ tail' = last
  /\ UNCHANGED <<input, mem, size, units, shape, sizes, src>>

W(c) == width[Role(c) + 1]

\* Pick: nothing to do for a unit with its data inside.
PickInline ==
  /\ phase = "pick" /\ k >= 0
  /\ units[k].len # 0
  /\ k' = k - 1
  /\ UNCHANGED <<input, mem, size, units, shape, sizes, tail, src, width, phase>>

\* Pick: a segment that fits its cell is copied into the unit.
PickEmbed ==
  /\ phase = "pick" /\ k >= 0
  /\ units[k].len = 0 /\ units[k].slen <= W(k)
  /\ units' = [units EXCEPT ![k] =
                InlineUnit([w \in 1 .. @.slen |-> mem[@.pos - w + 1]])]
  /\ k' = k - 1
  /\ UNCHANGED <<input, mem, size, shape, sizes, tail, src, width, phase>>

\* Pick: a segment already at the tail stays.
PickStay ==
  /\ phase = "pick" /\ k >= 0
  /\ units[k].len = 0 /\ units[k].slen > W(k)
  /\ tail >= units[k].pos - units[k].slen
  /\ tail' = tail + units[k].slen
  /\ k' = k - 1
  /\ UNCHANGED <<input, mem, size, units, shape, sizes, src, width, phase>>

\* Pick: any other is moved towards the end, last word first.
PickMove ==
  /\ phase = "pick" /\ k >= 0
  /\ units[k].len = 0 /\ units[k].slen > W(k)
  /\ tail < units[k].pos - units[k].slen
  /\ src' = units[k].pos - units[k].slen
  /\ phase' = "move"
  /\ UNCHANGED <<input, mem, size, units, shape, k, sizes, tail, width>>

\* Mutant: the segment is copied first word first.
MoveWordForward ==
  LET done == src - (units[k].pos - units[k].slen)
  IN  /\ phase = "move"
      /\ mem' = [mem EXCEPT ![tail - done + units[k].slen - done] =
                              mem[units[k].pos - done]]
      /\ tail' = tail + 1
      /\ src' = src + 1
      /\ IF src + 1 = units[k].pos
           THEN /\ units' = [units EXCEPT ![k].pos = @ - (src - tail)]
                /\ k' = k - 1
                /\ phase' = "pick"
           ELSE UNCHANGED <<units, k, phase>>
      /\ UNCHANGED <<input, size, shape, sizes, width>>

\* *--tail = *--src; after the last word seg.pos is adjusted.
MoveWord ==
  /\ phase = "move"
  /\ mem' = [mem EXCEPT ![tail + 1] = mem[src + 1]]
  /\ tail' = tail + 1
  /\ src' = src + 1
  /\ IF src + 1 = units[k].pos
       THEN /\ units' = [units EXCEPT ![k].pos = @ - (src - tail)]
            /\ k' = k - 1
            /\ phase' = "pick"
       ELSE UNCHANGED <<units, k, phase>>
  /\ UNCHANGED <<input, size, shape, sizes, width>>

\* Mutant: the words set free by Pick are not given back.
ShrinkNot ==
  /\ phase = "pick" /\ k < 0
  /\ k' = Count - 1
  /\ phase' = "mark"
  /\ UNCHANGED <<input, mem, size, units, shape, sizes, tail, src, width>>

\* buf.Shrink(tail - buf.Head()).
Shrink ==
  /\ phase = "pick" /\ k < 0
  /\ size' = tail
  /\ mem' = [p \in 1 .. tail |-> mem[p]]
  /\ k' = Count - 1
  /\ phase' = "mark"
  /\ UNCHANGED <<input, units, shape, sizes, tail, src, width>>

\* Mutant: the offset is counted from the place before the cell.
MarkShort ==
  /\ phase = "mark" /\ k >= 0
  /\ LET u == units[k]
         top == size + W(k)
         Word(w) == IF w <= u.len THEN u.data[w]
                    ELSE IF u.len = 0 /\ w = 1 THEN Offset(size - u.pos) ELSE Pad
     IN  /\ mem' = [p \in 1 .. top |->
                      IF p \in size + 1 .. top \/ p \in top - u.len + 1 .. top
                        THEN Word(top - p + 1) ELSE mem[p]]
         /\ size' = top
  /\ k' = k - 1
  /\ UNCHANGED <<input, units, shape, sizes, tail, src, width, phase>>

\* Mark: the cell in front of the previous one, an offset or the data (all of
\* it, whatever the width), padded.
Mark ==
  /\ phase = "mark" /\ k >= 0
  /\ LET u == units[k]
         top == size + W(k)
         Word(w) == IF w <= u.len THEN u.data[w]
                    ELSE IF u.len = 0 /\ w = 1 THEN Offset(top - u.pos) ELSE Pad
     IN  /\ mem' = [p \in 1 .. top |->
                      IF p \in size + 1 .. top \/ p \in top - u.len + 1 .. top
                        THEN Word(top - p + 1) ELSE mem[p]]
         /\ size' = top
  /\ k' = k - 1
  /\ UNCHANGED <<input, units, shape, sizes, tail, src, width, phase>>

HeaderWords == IF kind = "map" THEN IndexWords(n) ELSE 1

\* buf.Put((n << 2) | m), or the index with the widths in its first word.
PutHeader ==
  /\ phase = "mark" /\ k < 0
  /\ LET top == size + HeaderWords
         first == IF kind = "map" THEN <<"index", n, width, n % 4>>
                                  ELSE <<"array", n, width, width[2]>>
     IN  /\ mem' = [p \in 1 .. top |->
                      IF p \in size + 1 .. top
                        THEN IF p = top THEN first ELSE <<"index", n, width, 0>>
                        ELSE mem[p]]
         /\ size' = top
  /\ phase' = "done"
  /\ UNCHANGED <<input, units, shape, k, sizes, tail, src, width>>

Finished == phase \in {"done", "empty", "failed"} /\ UNCHANGED vars

Next ==
  \/ SerializeEmpty \/ ElementInline \/ ElementSegment
  \/ CountStart \/ CountCell \/ ChooseWidths
  \/ PickInline \/ PickEmbed \/ PickStay \/ PickMove \/ MoveWord
  \/ Shrink \/ Mark \/ PutHeader \/ Finished

Spec == Init /\ [][Next]_vars

-----------------------------------------------------------------------------
(* The readers, over a finished container with its head at place size.     *)

\* Array::operator[] and Map::Iterator: the first place of cell c.
CellPlace(c) ==
  LET body == size - HeaderWords
  IN  IF kind = "map"
        THEN body - (width[1] + width[2]) * (c \div 2) - (IF c % 2 = 1 THEN width[1] ELSE 0)
        ELSE body - width[2] * c

\* Field::GetObject.
GetObject(place) ==
  IF Low(mem[place]) = 3 THEN place - Delta(mem[place]) ELSE place

\* Where a reader finds the words of cell c: GetValue for scalars.
FieldPlace(c) ==
  IF scalar[Role(c) + 1] # 0 THEN CellPlace(c) ELSE GetObject(CellPlace(c))

\* Array::Detect and Map::Detect: the end of the cells.
CellsEnd == size - HeaderWords
              - n * (IF kind = "map" THEN width[1] + width[2] ELSE width[2])

\* ArrayT::Detect and MapT::Detect: backwards over the cells, the end of the
\* first object found that lies behind the cells.
DetectEnd ==
  LET end(c) == FieldPlace(c) - shape[c].len
      out == {c \in Cells : scalar[Role(c) + 1] = 0 /\ end(c) < CellsEnd}
  IN  IF out = {} THEN CellsEnd ELSE end(Max(out))

-----------------------------------------------------------------------------
(* Properties.                                                             *)

Serialized(c) == phase # "elements" \/ c > k

\* While Pick moves segments over each other in place, no segment that has
\* still to be embedded, moved or referred to loses a word; words are only
\* overwritten when they have been copied.  (The segment being moved is the
\* exception, until its last word has arrived.)
SegmentsIntact ==
  \A c \in Cells :
    Serialized(c) /\ units[c].len = 0 /\ ~(phase = "move" /\ c = k) =>
      \A w \in 1 .. shape[c].len : mem[units[c].pos - w + 1] = DataOf(c)[w]

\* What the buffer held before the container is not touched.
OldContentKept == last <= size /\ \A p \in 1 .. last : mem[p] = OldWord(p)

\* Every element, key and value reads back word for word: an offset leads to
\* the moved object, and an embedded object is never taken for an offset.
ReadBack ==
  phase = "done" =>
    \A c \in Cells : \A w \in 1 .. shape[c].len :
      mem[FieldPlace(c) - w + 1] = DataOf(c)[w]

\* The size checked against 1<<30 is the size written: with it every offset
\* stays below 1<<30 and fits in the 30 bits of an offset word.
SizeAsPredicted ==
  phase = "done" =>
    /\ size - last = TotalSize + (IF kind = "map" THEN 0 ELSE 1)
    /\ \A c \in Cells : mem[CellPlace(c)][1] = "offset"
                        => Delta(mem[CellPlace(c)]) < SizeLimit

\* Detect, which stops at the first object behind the cells, finds the whole
\* container and nothing else: unaccessed fields are copied by it.
DetectIsExact == phase = "done" => DetectEnd = last
=============================================================================
