----------------------------- MODULE WordReader -----------------------------
(***************************************************************************)
(* The zero-copy readers of include/protocache/access.h, given the end of  *)
(* the data, over the words of TsTypes.  Places count from 0; a pointer    *)
(* is a place or Null.                                                     *)
(***************************************************************************)
EXTENDS TsTypes

Null == -1

Word(data, at) == data[at + 1]

-----------------------------------------------------------------------------
(* class String.                                                           *)

Bytes(from, n) == [ok |-> TRUE, from |-> from, n |-> n]
NoBytes == [ok |-> FALSE, from |-> 0, n |-> 0]

\* The constructor: a length of at most five bytes whose two lowest bits are
\* 0, and that many bytes before the end.
String(data, at) ==
  LET start == 4 * at
      limit == 4 * Len(data)
      ends == {i \in 0 .. Min({5, limit - start}) - 1 : ByteAt(data, start + i) < 2}
      last == Min(ends)
      mark == MapThenSumSet(LAMBDA i : (ByteAt(data, start + i) % 2) * 2^i, 0 .. last)
  IN  IF at = Null THEN NoBytes
      ELSE IF ends = {} THEN NoBytes
      ELSE IF mark % 4 # 0 \/ start + last + 1 + mark \div 4 > limit THEN NoBytes
      ELSE Bytes(start + last + 1, mark \div 4)

\* Get, GetBytes: an empty slice if there is no string.
BytesOf(data, at) ==
  LET s == String(data, at) IN BytesAt(data, s.from, s.n)

\* GetBoolArray: a byte each.
BoolsOf(data, at) ==
  LET bytes == BytesOf(data, at)
  IN  [i \in DOMAIN bytes |-> <<IF bytes[i] # 0 THEN 1 ELSE 0>>]

-----------------------------------------------------------------------------
(* class Field: the place and the width of a field, an element, a key or a *)
(* value.                                                                  *)

Cell(at, width) == [at |-> at, width |-> width]
NoCell == Cell(Null, 0)

\* GetValue
GetValue(data, cell) ==
  IF cell.at = Null \/ cell.at + cell.width > Len(data) THEN <<>>
  ELSE SubSeq(data, cell.at + 1, cell.at + cell.width)

\* GetObject: the object lies in the cell or at an offset from it.
GetObject(data, cell) ==
  LET word == Word(data, cell.at)
      at == IF word % 4 = 3 THEN cell.at + word \div 4 ELSE cell.at
  IN  IF cell.at = Null \/ cell.at >= Len(data) THEN Null
      ELSE IF at >= Len(data) THEN Null
      ELSE at

\* ScalarField::Get: 0 unless the cell has the width of the type; a bool is
\* the first byte.
ScalarAt(data, kind, cell) ==
  LET words == GetValue(data, cell)
  IN  IF Len(words) # WidthWords(kind) THEN 0
      ELSE IF kind = "bool" THEN (IF ByteAt(words, 0) # 0 THEN 1 ELSE 0)
      ELSE ScalarOf(kind, words)

\* StringField::Get
StringAt(data, cell) == BytesOf(data, GetObject(data, cell))

-----------------------------------------------------------------------------
(* class Message.                                                          *)

First == 3
Sect == 5

\* Count32, Count64: the widths of the first n marks.
CountWidths(marks, n) == MapThenSumSet(LAMBDA i : (marks \div 4^i) % 4, 0 .. n - 1)

Section(data, at) == Word(data, at) % 4
BodyOf(data, at) == at + 1 + 2 * Section(data, at)

\* The constructor and operator!: sections end inside the data.
IsMessage(data, at) == at # Null /\ BodyOf(data, at) <= Len(data)

\* The marks of the group of field id, its place in the group, and the words
\* of the body before the group; a section has 10 bits of marks, then a count.
GroupOf(data, at, id) ==
  LET a == (id - First) \div Sect
      vec == Word(data, at + 1 + 2*a) + WordSize * Word(data, at + 2 + 2*a)
  IN  IF id < First THEN <<Word(data, at) \div 4, id, 0>>
      ELSE IF a >= Section(data, at) THEN <<0, 0, 0>>
      ELSE <<vec % 4^Sect, (id - First) % Sect, vec \div 4^Sect>>

\* HasField
HasField(data, at, id) ==
  LET g == GroupOf(data, at, id) IN (g[1] \div 4^g[2]) % 4 # 0

\* GetField
GetField(data, at, id) ==
  LET g == GroupOf(data, at, id)
      width == (g[1] \div 4^g[2]) % 4
      place == BodyOf(data, at) + CountWidths(g[1], g[2]) + g[3]
  IN  IF width = 0 \/ place + width > Len(data) THEN NoCell ELSE Cell(place, width)

-----------------------------------------------------------------------------
(* classes Array, Pair and Map.                                            *)

\* The constructor of Array and operator!.
IsArray(data, at) ==
  LET width == Word(data, at) % 4
      size == Word(data, at) \div 4
  IN  at # Null /\ width # 0 /\ at + 1 + width * size <= Len(data)

\* The cells in the order of operator[] and of the iterator; what is no array
\* reads as an empty one.
ArrayCells(data, at) ==
  LET width == Word(data, at) % 4
      size == Word(data, at) \div 4
  IN  IF ~IsArray(data, at) THEN <<>>
      ELSE [i \in 1 .. size |-> Cell(at + 1 + width * (i - 1), width)]

\* Numbers: nothing unless the cells have the width of the type.
Numbers(data, kind, at) ==
  LET cells == ArrayCells(data, at)
  IN  IF cells # <<>> /\ cells[1].width # WidthWords(kind) THEN <<>>
      ELSE [i \in DOMAIN cells |-> <<ScalarAt(data, kind, cells[i])>>]

\* ArrayT<T> of a scalar type.
ScalarArray(data, kind, at) ==
  IF kind = "bool" THEN BoolsOf(data, at) ELSE Numbers(data, kind, at)

\* Words of the perfect hash in front of the pairs (see HashLayout).
IndexSize(count) == IF count <= 1 THEN 1 ELSE 4

IsMap(data, at) ==
  LET key_width == Word(data, at) \div 64
      value_width == (Word(data, at) \div 16) % 4
      count == Word(data, at) % 16
  IN  /\ at # Null
      /\ key_width # 0 /\ value_width # 0
      /\ at + IndexSize(count) + (key_width + value_width) * count <= Len(data)

\* Key and Value.
Pair(at, key_width, value_width) ==
  [key |-> Cell(at, key_width), value |-> Cell(at + key_width, value_width)]

\* The pairs in the order of the iterator.
Pairs(data, at) ==
  LET key_width == Word(data, at) \div 64
      value_width == (Word(data, at) \div 16) % 4
      count == Word(data, at) % 16
      body == at + IndexSize(count)
  IN  IF ~IsMap(data, at) THEN <<>>
      ELSE [i \in 1 .. count |->
              Pair(body + (key_width + value_width) * (i - 1), key_width, value_width)]

\* Find: the pair in the slot of the key, if it has that key (the slot of a
\* key in the map is its own, see PerfectHash; of any other key it is any).
Find(data, at, kind, key) ==
  LET pairs == Pairs(data, at)
      same(cell) == IF kind = "string" THEN StringAt(data, cell) = key
                    ELSE GetValue(data, cell) = key
      found == {i \in DOMAIN pairs : same(pairs[i].key)}
  IN  IF found = {} THEN NoCell ELSE pairs[Min(found)].value
=============================================================================
