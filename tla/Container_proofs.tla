------------------------- MODULE Container_proofs -------------------------
(***************************************************************************)
(* SerializeArray and SerializeMap keep what is in the buffer, for every   *)
(* number of elements, every length and every content of the buffer.       *)
(*                                                                         *)
(* Pick compacts the segments in place.  The argument is about where they  *)
(* lie: in the opposite order of their cells, without overlapping, the     *)
(* ones already picked below the tail and the others above it.  Mark then  *)
(* writes the cells above the tail, each as wide as what it has to hold.   *)
(***************************************************************************)
EXTENDS Container, WellFoundedInduction, TLAPS

IsSeg(c) == units[c].len = 0
Start(c) == units[c].pos - units[c].slen

\* The phases in which the widths are known.
Wide == {"pick", "move", "mark", "done"}

\* Cells that Pick is through with.
Picked(c) == phase \in {"mark", "done"} \/ (phase \in {"pick", "move"} /\ c > k)

\* The tail as it stood before the segment that is being moved.
Base == IF phase = "move" THEN tail - (src - Start(k)) ELSE tail

\* From the body of the container down to cell c.
Off(c) == IF kind = "map"
            THEN (width[1] + width[2]) * (c \div 2) + (IF c % 2 = 1 THEN width[1] ELSE 0)
            ELSE width[2] * c

\* The place of cell c.
Place(c) == tail + Off(Count) - Off(c)

-----------------------------------------------------------------------------
TypeInv ==
  /\ phase \in {"elements", "count", "pick", "move", "mark", "done", "empty", "failed"}
  /\ kind \in {"array", "map"} /\ n \in Nat /\ last \in Nat
  /\ scalar \in [1 .. 2 -> 0 .. 2]
  /\ kind = "array" => scalar[1] = 0 /\ scalar[2] = 0
  /\ size \in Nat /\ tail \in Nat /\ src \in Nat /\ last <= size
  /\ mem = [p \in 1 .. size |-> mem[p]]
  /\ units = [c \in Cells |-> units[c]]
  /\ shape = [c \in Cells |-> shape[c]]
  /\ sizes \in [1 .. 2 -> [1 .. 3 -> Nat]]
  /\ width \in [1 .. 2 -> 0 .. 3]
  /\ k \in Int /\ k >= -1 /\ k <= Count
  /\ phase \notin {"count", "failed"} => k < Count
  /\ phase \in {"count", "move"} => k >= 0
  /\ phase \notin {"elements", "empty"} => n > 0
  /\ phase = "done" => k = -1

\* What a serialized cell looks like.
CellOK(c) ==
  /\ shape[c].len \in Nat \ {0}
  /\ units[c] = [len |-> units[c].len, data |-> units[c].data,
                 pos |-> units[c].pos, slen |-> units[c].slen]
  /\ units[c].len \in Nat /\ units[c].pos \in Nat /\ units[c].slen \in Nat
  /\ units[c].len # 0 => units[c].len = shape[c].len /\ units[c].data = DataOf(c)
  /\ units[c].len = 0 => /\ scalar[Role(c) + 1] = 0
                         /\ units[c].slen = shape[c].len
                         /\ last <= Start(c)
                         /\ phase \notin {"mark", "done"} => units[c].pos <= size
  /\ scalar[Role(c) + 1] # 0 => shape[c].len = scalar[Role(c) + 1]
  /\ scalar[Role(c) + 1] = 0 /\ shape[c].low = 3 => shape[c].len >= 4

CellInv == \A c \in Cells : Serialized(c) => CellOK(c)

\* The segments lie in the opposite order of their cells.
OrderInv ==
  \A c, d \in Cells :
    c < d /\ Serialized(c) /\ IsSeg(c) /\ IsSeg(d) => units[d].pos <= Start(c)

\* The picked segments end below the tail, the others start above it.
TailInv ==
  phase \in Wide =>
    /\ last <= Base /\ Base <= size
    /\ \A c \in Cells : IsSeg(c) => IF Picked(c) THEN units[c].pos <= Base
                                    ELSE Base <= Start(c)

\* The segment being moved: its last words have arrived, the others are still
\* where they were.
MoveInv ==
  phase = "move" =>
    LET u == units[k]
    IN  /\ IsSeg(k) /\ W(k) < u.slen
        /\ Start(k) <= src /\ src < u.pos /\ tail < src
        /\ \A w \in 1 .. u.slen :
             DataOf(k)[w] = IF w <= u.pos - src THEN mem[u.pos - w + 1]
                            ELSE mem[Base + u.slen - w + 1]

\* An object that is in its unit fits the cell.
FitInv ==
  /\ phase \in {"elements", "count"} =>
       \A c \in Cells : Serialized(c) /\ ~IsSeg(c) /\ scalar[Role(c) + 1] = 0
                          => units[c].len = 1
  /\ phase \in Wide =>
       /\ width[2] >= 1 /\ (kind = "map" => width[1] >= 1)
       /\ \A c \in Cells : units[c].len <= W(c)

\* The sums start at zero, and over scalars of two words they tell that cells
\* of two words are best.
ScalarInv ==
  /\ phase = "elements" => \A r \in 1 .. 2 : \A m \in 1 .. 3 : sizes[r][m] = 0
  /\ phase = "count" =>
       \A r \in 1 .. 2 : scalar[r] = 2 =>
         /\ sizes[r][1] = sizes[r][3] /\ 2 * sizes[r][1] = 3 * sizes[r][2]
         /\ k >= r => sizes[r][2] > 0

\* Nothing is left between the old content and the picked segments.
TightInv ==
  phase \in Wide =>
    /\ (\A c \in Cells : Picked(c) => ~IsSeg(c)) => Base = last
    /\ \A c \in Cells :
         Picked(c) /\ IsSeg(c) /\ (\A d \in Cells : c < d => ~IsSeg(d)) => Start(c) = last

\* The cells that are written.
MarkInv ==
  phase \in {"mark", "done"} =>
    /\ size = tail + Off(Count) - Off(k + 1)
                + (IF phase = "done" THEN HeaderWords ELSE 0)
    /\ \A c \in Cells : k < c =>
         IF IsSeg(c) THEN mem[Place(c)] = Offset(Place(c) - units[c].pos)
         ELSE \A w \in 1 .. units[c].len : mem[Place(c) - w + 1] = DataOf(c)[w]

IInv ==
  /\ TypeInv /\ CellInv /\ OrderInv /\ TailInv /\ MoveInv /\ FitInv /\ ScalarInv
  /\ TightInv /\ MarkInv /\ SegmentsIntact /\ OldContentKept

-----------------------------------------------------------------------------
(* Cells, places and units.                                                *)

\* The cells of a container are numbered, keys before values.
LEMMA CellFacts ==
  ASSUME n \in Nat
  PROVE  /\ Count \in Nat /\ (n > 0 => Count > 0)
         /\ \A c \in Cells : c \in Nat /\ c < Count /\ Role(c) \in 0 .. 1
         /\ \A c \in Nat : c < Count => c \in Cells
         /\ kind = "map" => \A c \in Cells : Role(c) = c % 2
         /\ kind = "map" /\ n > 0 => Count >= 2
<1>1. Count \in Nat /\ (n > 0 => Count > 0) /\ (kind = "map" /\ n > 0 => Count >= 2)
  BY DEF Count
<1>2. QED BY <1>1 DEF Cells, Role

\* The types that say nothing of the contents of the buffer.
LEMMA TypeFacts ==
  ASSUME TypeInv
  PROVE  /\ kind \in {"array", "map"} /\ n \in Nat /\ last \in Nat
         /\ scalar \in [1 .. 2 -> 0 .. 2]
         /\ kind = "array" => scalar[1] = 0 /\ scalar[2] = 0
         /\ size \in Nat /\ tail \in Nat /\ src \in Nat /\ last <= size
         /\ sizes \in [1 .. 2 -> [1 .. 3 -> Nat]] /\ width \in [1 .. 2 -> 0 .. 3]
         /\ k \in Int /\ k >= -1 /\ k <= Count
         /\ phase \notin {"count", "failed"} => k < Count
         /\ phase \in {"count", "move"} => k >= 0
         /\ phase \notin {"elements", "empty"} => n > 0
         /\ phase = "done" => k = -1
BY Zenon DEF TypeInv

\* Cells do not overlap: the next one starts where this one ends.
LEMMA OffStep ==
  ASSUME n \in Nat, width \in [1 .. 2 -> 0 .. 3], kind \in {"array", "map"},
         NEW c \in Nat
  PROVE  Off(c) \in Nat /\ Off(c + 1) = Off(c) + W(c)
<1>1. width[1] \in 0 .. 3 /\ width[2] \in 0 .. 3
  OBVIOUS
<1>2. PICK a \in 0 .. 3, b \in 0 .. 3 : width[1] = a /\ width[2] = b
  BY <1>1
<1>3. CASE kind = "array"
  <2>1. Off(c) = b * c /\ Off(c + 1) = b * (c + 1) /\ W(c) = b
    BY <1>2, <1>3 DEF Off, W, Role
  <2>2. b = 0 \/ b = 1 \/ b = 2 \/ b = 3
    OBVIOUS
  <2>3. QED BY <2>1, <2>2
<1>4. CASE kind = "map"
  <2>1. PICK h \in Nat : c = 2 * h \/ c = 2 * h + 1
    <3>1. c \div 2 \in Nat /\ (c = 2 * (c \div 2) \/ c = 2 * (c \div 2) + 1)
      OBVIOUS
    <3>2. QED BY <3>1
  <2> DEFINE s == a + b
  <2>2. s \in {0, 1, 2, 3, 4, 5, 6}
    OBVIOUS
  <2>3. s * h \in Nat /\ s * (h + 1) = s * h + s
    BY <2>2
  <2>4. Off(c) = s * (c \div 2) + (IF c % 2 = 1 THEN a ELSE 0)
    BY <1>2, <1>4 DEF Off
  <2>5. Off(c + 1) = s * ((c + 1) \div 2) + (IF (c + 1) % 2 = 1 THEN a ELSE 0)
    BY <1>2, <1>4 DEF Off
  <2>6. W(c) = IF c % 2 = 1 THEN b ELSE a
    <3>1. c % 2 = 0 \/ c % 2 = 1
      OBVIOUS
    <3>2. QED BY <1>2, <1>4, <3>1 DEF W, Role
  <2> HIDE DEF s
  <2>7. CASE c = 2 * h
    <3>1. c \div 2 = h /\ (c + 1) \div 2 = h /\ c % 2 = 0 /\ (c + 1) % 2 = 1
      BY <2>7
    <3>2. QED BY <3>1, <2>3, <2>4, <2>5, <2>6
  <2>8. CASE c = 2 * h + 1
    <3>1. c \div 2 = h /\ (c + 1) \div 2 = h + 1 /\ c % 2 = 1 /\ (c + 1) % 2 = 0
      BY <2>8
    <3>2. s = a + b
      BY DEF s
    <3>3. QED BY <3>1, <3>2, <2>3, <2>4, <2>5, <2>6
  <2>9. QED BY <2>1, <2>7, <2>8
<1>5. QED BY <1>3, <1>4

\* No words above the first cell.
LEMMA OffZero ==
  ASSUME kind \in {"array", "map"}, width \in [1 .. 2 -> 0 .. 3]
  PROVE  Off(0) = 0
<1>1. 0 \div 2 = 0 /\ 0 % 2 = 0
  OBVIOUS
<1>2. PICK a \in 0 .. 3, b \in 0 .. 3 : width[1] = a /\ width[2] = b
  OBVIOUS
<1>3. CASE kind = "map"
  <2>1. Off(0) = (a + b) * (0 \div 2) + (IF 0 % 2 = 1 THEN a ELSE 0)
    BY <1>2, <1>3 DEF Off
  <2>2. QED BY <1>1, <2>1
<1>4. CASE kind = "array"
  BY <1>2, <1>4 DEF Off
<1>5. QED BY <1>3, <1>4

\* Later cells lie further from the body.
LEMMA OffMonotone ==
  ASSUME n \in Nat, width \in [1 .. 2 -> 0 .. 3], kind \in {"array", "map"},
         NEW c \in Nat, NEW d \in Nat, c <= d
  PROVE  Off(c) <= Off(d)
<1>1. width[1] \in 0 .. 3 /\ width[2] \in 0 .. 3
  OBVIOUS
<1>2. PICK a \in 0 .. 3, b \in 0 .. 3 : width[1] = a /\ width[2] = b
  BY <1>1
<1>3. CASE kind = "array"
  <2>1. Off(c) = b * c /\ Off(d) = b * d
    BY <1>2, <1>3 DEF Off
  <2>2. b = 0 \/ b = 1 \/ b = 2 \/ b = 3
    OBVIOUS
  <2>3. QED BY <2>1, <2>2
<1>4. CASE kind = "map"
  <2> DEFINE s == a + b
             g == c \div 2
             h == d \div 2
  <2>1. s \in {0, 1, 2, 3, 4, 5, 6} /\ a <= s
    OBVIOUS
  <2>2. Off(c) = s * g + (IF c % 2 = 1 THEN a ELSE 0) /\ Off(d) = s * h + (IF d % 2 = 1 THEN a ELSE 0)
    BY <1>2, <1>4 DEF Off
  <2>3. g \in Nat /\ h \in Nat /\ g <= h /\ (g = h => c % 2 <= d % 2)
    OBVIOUS
  <2>4. (c % 2 = 0 \/ c % 2 = 1) /\ (d % 2 = 0 \/ d % 2 = 1)
    OBVIOUS
  <2> HIDE DEF s, g, h
  <2>5. s * g \in Nat /\ s * h \in Nat /\ (g < h => s * g + s <= s * h)
    BY <2>1, <2>3
  <2>6. CASE g < h
    BY <2>1, <2>2, <2>5, <2>6
  <2>7. CASE g = h
    <3>1. Off(d) = s * g + (IF d % 2 = 1 THEN a ELSE 0)
      BY <2>2, <2>7
    <3>2. s * g \in Nat
      BY <2>5
    <3>3. QED BY <3>1, <3>2, <2>2, <2>3, <2>4, <2>7
  <2>8. QED BY <2>3, <2>6, <2>7
<1>5. QED BY <1>3, <1>4

\* An index takes at least a word.
LEMMA IndexWordsFacts ==
  ASSUME NEW p \in Nat
  PROVE  IndexWords(p) \in Nat \ {0}
<1> DEFINE q == (p * 105 + 255) \div 256
           s == Section(p)
           b == (s * 3 + 31) \div 32
<1>1. q \in Nat
  OBVIOUS
<1>2. s \in Nat
  BY <1>1 DEF Section
<1>3. b \in Nat
  BY <1>2
<1>4. BitmapSize(s) = 8 * b
  BY DEF BitmapSize
<1>5. BuildBytes(p) = 8 + 8 * b + (IF 8 * b > 8 THEN ((8 * b) \div 8) * WordSize(p) ELSE 0)
  BY <1>4 DEF BuildBytes
<1> HIDE DEF b
<1>6. (8 * b) \div 8 = b
  BY <1>3
<1>7. b * WordSize(p) \in Nat
  BY <1>3 DEF WordSize
<1> DEFINE y == BuildBytes(p)
<1>8. y \in Nat /\ y >= 8
  BY <1>3, <1>5, <1>6, <1>7
<1> HIDE DEF y
<1>9. (y + 3) \div 4 \in Nat \ {0}
  BY <1>8
<1>10. QED BY <1>9 DEF IndexWords, y

\* An object whose first word ends in 11 takes at least four words.
LEMMA ShapeFacts ==
  ASSUME NEW s \in ObjectShapes
  PROVE  s[2] \in Nat \ {0} /\ (s[1] = 3 => s[2] >= 4)
<1>1. MaxLen \in Nat
  BY BoundsAssumption
<1>2. CASE \E l \in 1 .. MaxLen : s = <<0, l>>
  BY <1>1, <1>2
<1>3. CASE \E t \in 0 .. 3 : \E l \in 1 .. MaxLen : l >= 1 + 2*t /\ s = <<t % 4, l>>
  <2>1. PICK t \in 0 .. 3, l \in 1 .. MaxLen : l >= 1 + 2*t /\ s = <<t % 4, l>>
    BY <1>3
  <2>2. t % 4 = t
    BY <2>1
  <2>3. QED BY <1>1, <2>1, <2>2
<1>4. CASE \E m \in 1 .. 3 : \E l \in 1 .. MaxLen : l >= 1 + m /\ s = <<m, l>>
  BY <1>1, <1>4
<1>5. CASE \E p \in 1 .. 3 : \E l \in 1 .. MaxLen :
             l >= IndexWords(p) + 2*p /\ s = <<p % 4, l>>
  <2>1. PICK p \in 1 .. 3, l \in 1 .. MaxLen : l >= IndexWords(p) + 2*p /\ s = <<p % 4, l>>
    BY <1>5
  <2>2. p % 4 = p /\ IndexWords(p) \in Nat
    BY <2>1, IndexWordsFacts
  <2>3. l >= 2*p
    BY <1>1, <2>1, <2>2
  <2>4. QED BY <1>1, <2>1, <2>2, <2>3
<1>6. QED BY <1>2, <1>3, <1>4, <1>5 DEF ObjectShapes

\* The scalar width of a column.
LEMMA ScalarFacts ==
  ASSUME TypeInv, NEW c \in Cells
  PROVE  scalar[Role(c) + 1] \in 0 .. 2
BY CellFacts, TypeFacts

\* A cell is as wide as its column, and the widths are known from Pick on.
LEMMA WidthFacts ==
  ASSUME TypeInv, FitInv, phase \in Wide, NEW c \in Cells
  PROVE  W(c) \in 1 .. 3
<1>1. c \in Nat /\ width[1] \in 0 .. 3 /\ width[2] \in 0 .. 3
  BY CellFacts, TypeFacts
<1>2. Role(c) = 1 \/ (kind = "map" /\ Role(c) = 0)
  BY <1>1, CellFacts, TypeFacts DEF Role
<1>3. QED BY <1>1, <1>2 DEF W, FitInv

-----------------------------------------------------------------------------
(* The inductive invariant, action by action.                              *)

LEMMA InitInv ==
  ASSUME Init
  PROVE  IInv
<1>1. n \in Nat /\ last \in Nat /\ kind \in {"array", "map"}
  BY BoundsAssumption DEF Init
<1>2. Count \in Nat
  BY <1>1, CellFacts
<1>3. scalar \in [1 .. 2 -> 0 .. 2] /\ (kind = "array" => scalar[1] = 0 /\ scalar[2] = 0)
  BY DEF Init
<1>4. TypeInv
  <2>1. sizes \in [1 .. 2 -> [1 .. 3 -> Nat]] /\ width \in [1 .. 2 -> 0 .. 3]
    BY DEF Init
  <2>2. mem = [p \in 1 .. size |-> mem[p]]
    BY DEF Init
  <2>3. units = [c \in Cells |-> units[c]] /\ shape = [c \in Cells |-> shape[c]]
    BY DEF Init
  <2>4. phase = "elements" /\ k = Count - 1 /\ size = last /\ tail = 0 /\ src = 0
    BY DEF Init
  <2>5. QED BY <1>1, <1>2, <1>3, <2>1, <2>2, <2>3, <2>4 DEF TypeInv
<1>5. phase = "elements" /\ \A c \in Cells : ~Serialized(c)
  BY <1>1, <1>2, CellFacts DEF Init, Serialized
<1>6. CellInv /\ OrderInv /\ SegmentsIntact
  BY <1>5 DEF CellInv, OrderInv, SegmentsIntact
<1>7. TailInv /\ MoveInv /\ FitInv /\ ScalarInv /\ TightInv /\ MarkInv
  <2>1. \A r \in 1 .. 2 : \A m \in 1 .. 3 : sizes[r][m] = 0
    BY DEF Init
  <2>2. QED BY <1>5, <2>1 DEF TailInv, MoveInv, FitInv, ScalarInv, TightInv, MarkInv, Wide
<1>8. OldContentKept
  BY <1>1 DEF Init, OldContentKept
<1>9. QED BY <1>4, <1>6, <1>7, <1>8 DEF IInv

\* What stays the same when the container and its elements are not changed.
LEMMA Frame ==
  ASSUME UNCHANGED input
  PROVE  /\ Count' = Count /\ Cells' = Cells
         /\ \A c \in Cells : Role(c)' = Role(c)
         /\ UNCHANGED shape => \A c \in Cells : DataOf(c)' = DataOf(c)
         /\ UNCHANGED width => \A c \in Cells : W(c)' = W(c)
         /\ UNCHANGED width => \A c \in Nat : Off(c)' = Off(c)
BY DEF input, Count, Cells, Role, DataOf, W, Off

\* A unit with its data inside.
LEMMA InlineFacts ==
  ASSUME NEW l \in Nat, NEW D, D = [w \in 1 .. l |-> D[w]]
  PROVE  InlineUnit(D) = [len |-> l, data |-> D, pos |-> 0, slen |-> 0]
<1>1. Len(D) = l
  OBVIOUS
<1>2. QED BY <1>1 DEF InlineUnit

LEMMA ElementInlineInv ==
  ASSUME IInv, ElementInline
  PROVE  IInv'
<1> USE DEF IInv
<1>1. k \in Cells /\ k \in Nat /\ phase = "elements" /\ phase' = "elements" /\ k' = k - 1
  BY CellFacts DEF ElementInline, TypeInv
<1>2. UNCHANGED <<input, mem, size, sizes, tail, src, width>>
  BY DEF ElementInline
<1>3. Count' = Count /\ Cells' = Cells /\ \A c \in Cells : Role(c)' = Role(c)
  BY <1>2, Frame
<1>a. PICK j \in Cells : j = k
  BY <1>1
<1>4. PICK s \in (IF scalar[Role(k) + 1] = 0 THEN InlineShapes
                  ELSE {<<low, scalar[Role(k) + 1]>> : low \in {0, 3}}) :
        LET data == [w \in 1 .. s[2] |-> DataWord(k, w, IF w = 1 THEN s[1] ELSE 0)]
        IN  /\ units' = [units EXCEPT ![k] = InlineUnit(data)]
            /\ shape' = [shape EXCEPT ![k] = [len |-> s[2], low |-> s[1]]]
  BY DEF ElementInline
<1>5. /\ s[2] \in Nat \ {0} /\ (scalar[Role(k) + 1] = 0 => s[2] = 1 /\ s[1] # 3)
      /\ (scalar[Role(k) + 1] # 0 => s[2] = scalar[Role(k) + 1])
  BY <1>1, ScalarFacts DEF InlineShapes
<1> DEFINE data == [w \in 1 .. s[2] |-> DataWord(k, w, IF w = 1 THEN s[1] ELSE 0)]
<1>6. InlineUnit(data) = [len |-> s[2], data |-> data, pos |-> 0, slen |-> 0]
  BY <1>5, InlineFacts
<1>7. units' = [units EXCEPT ![k] = [len |-> s[2], data |-> data, pos |-> 0, slen |-> 0]]
  BY <1>4, <1>6
<1>8. shape' = [shape EXCEPT ![k] = [len |-> s[2], low |-> s[1]]]
  BY <1>4
<1>9. units = [c \in Cells |-> units[c]] /\ shape = [c \in Cells |-> shape[c]]
  BY DEF TypeInv
<1>10. /\ units'[j] = [len |-> s[2], data |-> data, pos |-> 0, slen |-> 0]
       /\ shape'[j] = [len |-> s[2], low |-> s[1]]
       /\ \A c \in Cells : c # j => units'[c] = units[c] /\ shape'[c] = shape[c]
  BY <1>a, <1>7, <1>8, <1>9
<1>11. DataOf(j)' = data /\ \A c \in Cells : c # j => DataOf(c)' = DataOf(c)
  BY <1>a, <1>10 DEF DataOf
<1> HIDE DEF data
<1>12. \A c \in Cells : Serialized(c)' <=> c = j \/ Serialized(c)
  BY <1>1, <1>a, <1>3, CellFacts, TypeFacts DEF Serialized
<1>13. TypeInv'
  <2>1. units' = [c \in Cells |-> units'[c]] /\ shape' = [c \in Cells |-> shape'[c]]
    BY <1>7, <1>8, <1>9
  <2>2. k' \in Int /\ k' >= -1 /\ k' < Count /\ Count \in Nat
    BY <1>1, CellFacts, TypeFacts
  <2>3. /\ kind' = kind /\ n' = n /\ last' = last /\ scalar' = scalar /\ size' = size
        /\ tail' = tail /\ src' = src /\ mem' = mem /\ sizes' = sizes /\ width' = width
    BY <1>2 DEF input
  <2>4. QED BY <1>1, <1>3, <2>1, <2>2, <2>3 DEF TypeInv
<1>14. CellInv'
  <2>1. SUFFICES ASSUME NEW c \in Cells, Serialized(c)'
                 PROVE  CellOK(c)'
    BY <1>3 DEF CellInv
  <2>2. CASE c = j
    <3>1. Role(c)' = Role(c) /\ scalar' = scalar
      BY <1>2, <1>3 DEF input
    <3>2. QED BY <1>a, <1>5, <1>10, <1>11, <2>2, <3>1 DEF CellOK
  <2>3. CASE c # j
    <3>1. CellOK(c)
      BY <1>12, <2>1, <2>3 DEF CellInv
    <3>2. Role(c)' = Role(c) /\ scalar' = scalar /\ last' = last /\ size' = size /\ phase' = phase
      BY <1>1, <1>2, <1>3 DEF input
    <3>3. units'[c] = units[c] /\ shape'[c] = shape[c] /\ DataOf(c)' = DataOf(c)
      BY <1>10, <1>11, <2>3
    <3>4. QED BY <3>1, <3>2, <3>3 DEF CellOK, Start
  <2>4. QED BY <2>2, <2>3
<1>15. OrderInv'
  <2>1. \A c \in Cells : IsSeg(c)' => c # j /\ IsSeg(c) /\ units'[c] = units[c]
    BY <1>5, <1>10 DEF IsSeg
  <2>2. QED BY <1>3, <1>12, <2>1 DEF OrderInv, Start
<1>16. FitInv'
  <2>1. \A c \in Cells : c # j /\ Serialized(c)' => Serialized(c) /\ units'[c] = units[c]
    BY <1>10, <1>12
  <2>2. scalar' = scalar /\ phase' = "elements" /\ phase = "elements"
    BY <1>1, <1>2 DEF input
  <2>3. QED BY <1>a, <1>3, <1>5, <1>10, <2>1, <2>2 DEF FitInv, IsSeg, Wide
<1>17. SegmentsIntact'
  <2>1. \A c \in Cells : Serialized(c)' /\ units'[c].len = 0
          => c # j /\ Serialized(c) /\ units'[c] = units[c] /\ shape'[c] = shape[c]
    BY <1>5, <1>10, <1>12
  <2>2. mem' = mem
    BY <1>2
  <2>3. QED BY <1>1, <1>3, <1>11, <2>1, <2>2 DEF SegmentsIntact
<1>18. OldContentKept'
  BY <1>2 DEF OldContentKept, input, OldWord
<1>19. ScalarInv'
  BY <1>1, <1>2 DEF ScalarInv
<1>20. QED BY <1>1, <1>13, <1>14, <1>15, <1>16, <1>17, <1>18, <1>19
         DEF TailInv, MoveInv, TightInv, MarkInv, Wide

LEMMA ElementSegmentInv ==
  ASSUME IInv, ElementSegment
  PROVE  IInv'
<1> USE DEF IInv
<1>1. k \in Cells /\ k \in Nat /\ phase = "elements" /\ phase' = "elements" /\ k' = k - 1
  BY CellFacts DEF ElementSegment, TypeInv
<1>2. /\ kind' = kind /\ n' = n /\ last' = last /\ scalar' = scalar
      /\ tail' = tail /\ src' = src /\ sizes' = sizes /\ width' = width
  BY DEF ElementSegment, input
<1>3. Count' = Count /\ Cells' = Cells /\ \A c \in Cells : Role(c)' = Role(c)
  BY <1>2, Frame DEF input
<1>4. PICK j \in Cells : j = k
  BY <1>1
<1>5. PICK s \in ObjectShapes :
        LET top == size + s[2]
        IN  /\ mem' = [p \in 1 .. top |->
                         IF p \in size + 1 .. top
                           THEN DataWord(k, top - p + 1, IF p = top THEN s[1] ELSE 0)
                           ELSE mem[p]]
            /\ size' = top
            /\ units' = [units EXCEPT ![k] = Segment(size, top)]
            /\ shape' = [shape EXCEPT ![k] = [len |-> s[2], low |-> s[1]]]
  BY DEF ElementSegment
<1>6. s[2] \in Nat \ {0} /\ (s[1] = 3 => s[2] >= 4)
  BY ShapeFacts
<1>7. size \in Nat /\ last \in Nat /\ last <= size /\ size' = size + s[2]
  BY <1>5 DEF TypeInv
<1>8. units = [c \in Cells |-> units[c]] /\ shape = [c \in Cells |-> shape[c]]
  BY DEF TypeInv
<1>9. /\ units' = [units EXCEPT ![j] = [len |-> 0, data |-> <<>>, pos |-> size', slen |-> s[2]]]
      /\ shape' = [shape EXCEPT ![j] = [len |-> s[2], low |-> s[1]]]
  <2>1. Segment(size, size + s[2])
          = [len |-> 0, data |-> <<>>, pos |-> size', slen |-> s[2]]
    BY <1>6, <1>7 DEF Segment
  <2>2. QED BY <1>4, <1>5, <2>1
<1>10. /\ units'[j] = [len |-> 0, data |-> <<>>, pos |-> size', slen |-> s[2]]
       /\ shape'[j] = [len |-> s[2], low |-> s[1]]
       /\ \A c \in Cells : c # j => units'[c] = units[c] /\ shape'[c] = shape[c]
  BY <1>8, <1>9
<1>11. \A c \in Cells : c # j => DataOf(c)' = DataOf(c)
  BY <1>10 DEF DataOf
<1>12. \A c \in Cells : Serialized(c)' <=> c = j \/ Serialized(c)
  BY <1>1, <1>3, <1>4, CellFacts, TypeFacts DEF Serialized
<1>13. \A p \in 1 .. size : mem'[p] = mem[p]
  BY <1>5, <1>6, <1>7
<1>14. \A w \in 1 .. s[2] : mem'[size' - w + 1] = DataOf(j)'[w]
  <2>1. SUFFICES ASSUME NEW w \in 1 .. s[2]
                 PROVE  mem'[size' - w + 1] = DataOf(j)'[w]
    OBVIOUS
  <2>2. DataOf(j)'[w] = DataWord(j, w, IF w = 1 THEN s[1] ELSE 0)
    BY <1>6, <1>10 DEF DataOf
  <2> DEFINE p == size' - w + 1
  <2>3. p \in 1 .. size' /\ p \in size + 1 .. size' /\ size' - p + 1 = w /\ (p = size' <=> w = 1)
    BY <1>6, <1>7
  <2>4. mem'[p] = DataWord(k, size' - p + 1, IF p = size' THEN s[1] ELSE 0)
    <3> HIDE DEF p
    <3>1. QED BY <1>5, <2>3
  <2>5. QED BY <1>4, <2>2, <2>3, <2>4
<1>15. TypeInv'
  <2>1. units' = [c \in Cells |-> units'[c]] /\ shape' = [c \in Cells |-> shape'[c]]
    BY <1>8, <1>9
  <2>2. k' \in Int /\ k' >= -1 /\ k' < Count /\ Count \in Nat
    BY <1>1, CellFacts, TypeFacts
  <2>3. mem' = [p \in 1 .. size' |-> mem'[p]]
    BY <1>5
  <2>4. size' \in Nat /\ last <= size'
    BY <1>6, <1>7
  <2>5. QED BY <1>1, <1>2, <1>3, <2>1, <2>2, <2>3, <2>4 DEF TypeInv
<1>16. CellInv'
  <2>1. SUFFICES ASSUME NEW c \in Cells, Serialized(c)'
                 PROVE  CellOK(c)'
    BY <1>3 DEF CellInv
  <2>2. CASE c = j
    <3>1. Role(c)' = Role(c) /\ scalar[Role(c) + 1] = 0
      BY <1>3, <1>4, <2>2 DEF ElementSegment
    <3>2. Start(c)' = size
      BY <1>6, <1>7, <1>10, <2>2 DEF Start
    <3>3. size' \in Nat
      BY <1>6, <1>7
    <3>4. QED BY <1>2, <1>6, <1>7, <1>10, <2>2, <3>1, <3>2, <3>3 DEF CellOK
  <2>3. CASE c # j
    <3>1. CellOK(c)
      BY <1>12, <2>1, <2>3 DEF CellInv
    <3>2. Role(c)' = Role(c) /\ phase = "elements" /\ phase' = "elements" /\ size <= size'
      BY <1>1, <1>3, <1>6, <1>7
    <3>3. units'[c] = units[c] /\ shape'[c] = shape[c] /\ DataOf(c)' = DataOf(c)
      BY <1>10, <1>11, <2>3
    <3>4. units[c].len = 0 => units[c].pos <= size'
      BY <1>6, <1>7, <3>1, <3>2 DEF CellOK
    <3>5. QED BY <1>2, <3>1, <3>2, <3>3, <3>4 DEF CellOK, Start
  <2>4. QED BY <2>2, <2>3
<1>17. OrderInv'
  <2>1. SUFFICES ASSUME NEW c \in Cells, NEW d \in Cells,
                        c < d, Serialized(c)', IsSeg(c)', IsSeg(d)'
                 PROVE  units'[d].pos <= Start(c)'
    BY <1>3 DEF OrderInv
  <2>2. d # j /\ Serialized(d) /\ units'[d] = units[d] /\ IsSeg(d)
    <3>1. c \in Nat /\ d \in Nat /\ j \in Nat
      BY CellFacts, TypeFacts
    <3>2. c = j \/ c > j
      BY <1>1, <1>4, <1>12, <2>1 DEF Serialized
    <3>3. d > j /\ d # j
      BY <2>1, <3>1, <3>2
    <3>4. Serialized(d)
      BY <1>4, <3>3 DEF Serialized
    <3>5. QED BY <1>10, <2>1, <3>3, <3>4 DEF IsSeg
  <2>3. CASE c = j
    <3>1. Start(c)' = size
      BY <1>6, <1>7, <1>10, <2>3 DEF Start
    <3>2. units[d].pos <= size
      BY <1>1, <2>2 DEF CellInv, CellOK, IsSeg
    <3>3. QED BY <2>2, <3>1, <3>2
  <2>4. CASE c # j
    <3>1. Serialized(c) /\ IsSeg(c) /\ Start(c)' = Start(c)
      BY <1>10, <1>12, <2>1, <2>4 DEF IsSeg, Start
    <3>2. QED BY <2>1, <2>2, <3>1 DEF OrderInv
  <2>5. QED BY <2>3, <2>4
<1>18. FitInv'
  <2>1. \A c \in Cells : Serialized(c)' /\ ~IsSeg(c)' => Serialized(c) /\ ~IsSeg(c) /\ units'[c] = units[c]
    BY <1>10, <1>12 DEF IsSeg
  <2>2. QED BY <1>1, <1>2, <1>3, <2>1 DEF FitInv, Wide
<1>19. SegmentsIntact'
  <2>1. SUFFICES ASSUME NEW c \in Cells, Serialized(c)', units'[c].len = 0,
                        NEW w \in 1 .. shape'[c].len
                 PROVE  mem'[units'[c].pos - w + 1] = DataOf(c)'[w]
    BY <1>3 DEF SegmentsIntact
  <2>2. CASE c = j
    BY <1>10, <1>14, <2>1, <2>2
  <2>3. CASE c # j
    <3>1. Serialized(c) /\ units'[c] = units[c] /\ shape'[c] = shape[c] /\ DataOf(c)' = DataOf(c)
      BY <1>10, <1>11, <1>12, <2>1, <2>3
    <3>2. CellOK(c)
      BY <3>1 DEF CellInv
    <3>3. mem[units[c].pos - w + 1] = DataOf(c)[w]
      BY <1>1, <2>1, <3>1 DEF SegmentsIntact
    <3>4. units[c].pos - w + 1 \in 1 .. size
      BY <1>1, <1>7, <2>1, <3>1, <3>2 DEF CellOK, Start
    <3>5. QED BY <1>13, <3>1, <3>3, <3>4
  <2>4. QED BY <2>2, <2>3
<1>20. OldContentKept'
  BY <1>2, <1>6, <1>7, <1>13 DEF OldContentKept, OldWord
<1>21. ScalarInv'
  BY <1>1, <1>2 DEF ScalarInv
<1>22. QED BY <1>1, <1>15, <1>16, <1>17, <1>18, <1>19, <1>20, <1>21
         DEF TailInv, MoveInv, TightInv, MarkInv, Wide

\* A cell stays as it is while its unit and the buffer do.
LEMMA CellKept ==
  ASSUME NEW c \in Cells, CellOK(c), UNCHANGED input,
         units'[c] = units[c], shape'[c] = shape[c],
         size' = size, phase \notin {"mark", "done"} \/ phase' \in {"mark", "done"}
  PROVE  CellOK(c)'
<1>1. Role(c)' = Role(c) /\ DataOf(c)' = DataOf(c) /\ Start(c)' = Start(c)
  BY Frame DEF DataOf, Start
<1>2. scalar' = scalar /\ last' = last
  BY DEF input
<1>3. QED BY <1>1, <1>2 DEF CellOK

\* Steps that only change counters and the phase, once all cells are there.
LEMMA QuietStep ==
  ASSUME IInv, UNCHANGED <<input, mem, size, units, shape, src>>,
         \A c \in Cells : Serialized(c) /\ Serialized(c)',
         phase \notin {"mark", "done"} \/ phase' \in {"mark", "done"},
         phase # "move", phase' # "move"
  PROVE  /\ CellInv' /\ OrderInv' /\ SegmentsIntact' /\ OldContentKept'
         /\ Cells' = Cells /\ Count' = Count
         /\ \A c \in Cells : Role(c)' = Role(c) /\ DataOf(c)' = DataOf(c)
         /\ kind' = kind /\ n' = n /\ last' = last /\ scalar' = scalar
<1> USE DEF IInv
<1>1. Cells' = Cells /\ Count' = Count
  BY Frame
<1>2. \A c \in Cells : Role(c)' = Role(c) /\ DataOf(c)' = DataOf(c)
  BY Frame
<1>3. CellInv'
  BY <1>1, CellKept DEF CellInv
<1>4. OrderInv'
  BY <1>1 DEF OrderInv, IsSeg, Start
<1>5. SegmentsIntact'
  BY <1>1, <1>2 DEF SegmentsIntact
<1>6. OldContentKept'
  BY DEF OldContentKept, input, OldWord
<1>7. QED BY <1>1, <1>2, <1>3, <1>4, <1>5, <1>6 DEF input

LEMMA SerializeEmptyInv ==
  ASSUME IInv, SerializeEmpty
  PROVE  IInv'
<1> USE DEF IInv
<1>1. phase = "elements" /\ phase' = "empty" /\ n = 0 /\ n' = n /\ last' = last
  BY DEF SerializeEmpty, input
<1>2. UNCHANGED <<input, mem, size, units, shape, k, sizes, tail, src, width>>
  BY DEF SerializeEmpty
<1>3. Count' = Count /\ Cells' = Cells
  BY <1>2, Frame
<1>4. Cells = {} /\ Count = 0
  BY <1>1 DEF Cells, Count
<1>5. TypeInv'
  BY <1>1, <1>2, <1>3 DEF TypeInv, input
<1>6. CellInv' /\ OrderInv' /\ SegmentsIntact'
  BY <1>3, <1>4 DEF CellInv, OrderInv, SegmentsIntact
<1>7. OldContentKept'
  BY <1>1, <1>2 DEF OldContentKept, OldWord
<1>8. QED BY <1>1, <1>5, <1>6, <1>7
        DEF TailInv, MoveInv, FitInv, ScalarInv, TightInv, MarkInv, Wide

LEMMA CountStartInv ==
  ASSUME IInv, CountStart
  PROVE  IInv'
<1> USE DEF IInv
<1>1. phase = "elements" /\ phase' = "count" /\ n > 0 /\ k < 0 /\ k' = 0
  BY DEF CountStart
<1>2. UNCHANGED <<input, mem, size, units, shape, sizes, tail, src, width>>
  BY DEF CountStart
<1>3. \A c \in Cells : Serialized(c) /\ Serialized(c)'
  BY <1>1, CellFacts, TypeFacts DEF Serialized
<1>4. /\ CellInv' /\ OrderInv' /\ SegmentsIntact' /\ OldContentKept'
      /\ Cells' = Cells /\ Count' = Count
      /\ \A c \in Cells : Role(c)' = Role(c) /\ DataOf(c)' = DataOf(c)
      /\ kind' = kind /\ n' = n /\ last' = last /\ scalar' = scalar
  BY <1>1, <1>2, <1>3, QuietStep
<1>5. TypeInv'
  <2>1. Count \in Nat
    BY CellFacts, TypeFacts
  <2>2. QED BY <1>1, <1>2, <1>4, <2>1 DEF TypeInv
<1>6. FitInv'
  BY <1>1, <1>2, <1>3, <1>4 DEF FitInv, IsSeg, Wide
<1>7. ScalarInv'
  <2>1. \A r \in 1 .. 2 : \A m \in 1 .. 3 : sizes'[r][m] = 0
    BY <1>1, <1>2 DEF ScalarInv
  <2>2. QED BY <1>1, <2>1 DEF ScalarInv
<1>8. QED BY <1>1, <1>4, <1>5, <1>6, <1>7 DEF TailInv, MoveInv, TightInv, MarkInv, Wide

\* The buffer and the cells keep their extent.
LEMMA ExtentKept ==
  ASSUME TypeInv, UNCHANGED <<input, mem, size, units, shape>>
  PROVE  /\ mem' = [p \in 1 .. size' |-> mem'[p]]
         /\ units' = [c \in Cells' |-> units'[c]]
         /\ shape' = [c \in Cells' |-> shape'[c]]
<1>1. Cells' = Cells /\ mem' = mem /\ size' = size /\ units' = units /\ shape' = shape
  BY Frame
<1>2. mem = [p \in 1 .. size |-> mem[p]]
  BY Zenon DEF TypeInv
<1>3. units = [c \in Cells |-> units[c]]
  BY Zenon DEF TypeInv
<1>4. shape = [c \in Cells |-> shape[c]]
  BY Zenon DEF TypeInv
<1>5. QED BY <1>1, <1>2, <1>3, <1>4

LEMMA CountCellInv ==
  ASSUME IInv, CountCell
  PROVE  IInv'
<1> USE DEF IInv
<1>1. phase = "count" /\ phase' = "count" /\ k' = k + 1 /\ k < Count
  BY DEF CountCell
<1>2. UNCHANGED <<input, mem, size, units, shape, tail, src, width>>
  BY DEF CountCell
<1>3. \A c \in Cells : Serialized(c) /\ Serialized(c)'
  BY <1>1 DEF Serialized
<1>4. /\ CellInv' /\ OrderInv' /\ SegmentsIntact' /\ OldContentKept'
      /\ Cells' = Cells /\ Count' = Count
      /\ \A c \in Cells : Role(c)' = Role(c) /\ DataOf(c)' = DataOf(c)
      /\ kind' = kind /\ n' = n /\ last' = last /\ scalar' = scalar
  BY <1>1, <1>2, <1>3, QuietStep
<1>5. k \in Cells /\ k \in Nat /\ Role(k) \in 0 .. 1 /\ Count \in Nat
  BY <1>1, CellFacts, TypeFacts
<1>6. PICK q \in 1 .. 2 : q = Role(k) + 1
  BY <1>5
<1>7. PICK l \in Nat : l = UnitSize(units[k]) /\ l = shape[k].len
  BY <1>1, <1>3, <1>5 DEF UnitSize, CellInv, CellOK
<1>8. sizes \in [1 .. 2 -> [1 .. 3 -> Nat]]
  BY DEF TypeInv
<1>9. sizes' = [sizes EXCEPT ![q] = [m \in 1 .. 3 |-> @[m] + m + (IF l > m THEN l ELSE 0)]]
  BY <1>6, <1>7 DEF CountCell
<1>10. /\ \A r \in 1 .. 2 : r # q => sizes'[r] = sizes[r]
       /\ \A m \in 1 .. 3 : sizes'[q][m] = sizes[q][m] + m + (IF l > m THEN l ELSE 0)
  BY <1>8, <1>9
<1>11. sizes' \in [1 .. 2 -> [1 .. 3 -> Nat]]
  <2>1. [m \in 1 .. 3 |-> sizes[q][m] + m + (IF l > m THEN l ELSE 0)] \in [1 .. 3 -> Nat]
    BY <1>8
  <2>2. QED BY <1>8, <1>9, <2>1
<1>12. TypeInv'
  <2>1. k' \in Int /\ k' >= 0 /\ k' <= Count
    BY <1>1, <1>5
  <2>2. /\ mem' = [p \in 1 .. size' |-> mem'[p]]
        /\ units' = [c \in Cells' |-> units'[c]] /\ shape' = [c \in Cells' |-> shape'[c]]
    BY <1>2, ExtentKept
  <2>3. /\ kind' \in {"array", "map"} /\ n' \in Nat /\ last' \in Nat
        /\ scalar' \in [1 .. 2 -> 0 .. 2]
        /\ kind' = "array" => scalar'[1] = 0 /\ scalar'[2] = 0
        /\ size' \in Nat /\ tail' \in Nat /\ src' \in Nat /\ last' <= size'
        /\ width' \in [1 .. 2 -> 0 .. 3] /\ n' > 0
    BY <1>1, <1>2, <1>4, TypeFacts
  <2>4. k' >= -1 /\ k' <= Count' /\ phase' = "count"
    BY <1>1, <1>4, <2>1
  <2> HIDE DEF IInv
  <2>5. QED BY <1>11, <2>1, <2>2, <2>3, <2>4 DEF TypeInv
<1>13. FitInv'
  BY <1>1, <1>2, <1>3, <1>4 DEF FitInv, IsSeg, Wide
<1>14. ScalarInv'
  <2>1. SUFFICES ASSUME NEW r \in 1 .. 2, scalar[r] = 2
                 PROVE  /\ sizes'[r][1] = sizes'[r][3] /\ 2 * sizes'[r][1] = 3 * sizes'[r][2]
                        /\ k + 1 >= r => sizes'[r][2] > 0
    BY <1>1, <1>4 DEF ScalarInv
  <2>2. /\ sizes[r][1] = sizes[r][3] /\ 2 * sizes[r][1] = 3 * sizes[r][2]
        /\ k >= r => sizes[r][2] > 0
    BY <1>1, <2>1 DEF ScalarInv
  <2>3. sizes[r][1] \in Nat /\ sizes[r][2] \in Nat /\ sizes[r][3] \in Nat
    BY <1>8
  <2>4. CASE r = q
    <3>1. l = 2
      <4>1. CellOK(k) /\ scalar[Role(k) + 1] = 2
        BY <1>3, <1>5, <1>6, <2>1, <2>4 DEF CellInv
      <4>2. QED BY <1>7, <4>1 DEF CellOK
    <3>2. /\ sizes'[r][1] = sizes[r][1] + 3
          /\ sizes'[r][2] = sizes[r][2] + 2
          /\ sizes'[r][3] = sizes[r][3] + 3
      BY <1>10, <2>3, <2>4, <3>1
    <3>3. sizes'[r][2] > 0 /\ sizes'[r][1] = sizes'[r][3]
      BY <2>2, <2>3, <3>2
    <3>4. 2 * sizes'[r][1] = 3 * sizes'[r][2]
      <4>1. PICK a \in Nat, b \in Nat : a = sizes[r][1] /\ b = sizes[r][2]
        BY <2>3
      <4>2. 2 * a = 3 * b
        BY <2>2, <4>1
      <4>3. 2 * (a + 3) = 3 * (b + 2)
        BY <4>2
      <4>4. QED BY <3>2, <4>1, <4>3
    <3>5. QED BY <3>3, <3>4
  <2>5. CASE r # q
    <3>1. sizes'[r] = sizes[r]
      BY <1>10, <2>5
    <3>2. kind = "map"
      BY <2>1, TypeFacts
    <3>3. Role(k) = k % 2
      BY <3>2 DEF Role
    <3>4. k + 1 >= r => k >= r
      BY <1>5, <1>6, <2>5, <3>3
    <3>5. QED BY <2>2, <3>1, <3>4
  <2>6. QED BY <2>4, <2>5
<1>15. QED BY <1>1, <1>4, <1>12, <1>13, <1>14 DEF TailInv, MoveInv, TightInv, MarkInv, Wide

\* The width BestArraySize chooses is one of the three, and it is two for a
\* column of scalars of two words.
LEMMA BestWidthFacts ==
  ASSUME sizes \in [1 .. 2 -> [1 .. 3 -> Nat]], NEW r \in 1 .. 2
  PROVE  /\ BestWidth(r - 1) \in 1 .. 3
         /\ sizes[r][1] = sizes[r][3] /\ 2 * sizes[r][1] = 3 * sizes[r][2] /\ sizes[r][2] > 0
              => BestWidth(r - 1) = 2
<1>1. (r - 1) + 1 = r
  OBVIOUS
<1>2. PICK a \in Nat, b \in Nat, c \in Nat : a = sizes[r][1] /\ b = sizes[r][2] /\ c = sizes[r][3]
  OBVIOUS
<1>3. CASE b < a
  <2>1. BestWidth(r - 1) = IF c < b THEN 3 ELSE 2
    BY <1>1, <1>2, <1>3 DEF BestWidth
  <2>2. QED BY <1>2, <2>1
<1>4. CASE ~(b < a)
  <2>1. BestWidth(r - 1) = IF c < a THEN 3 ELSE 1
    BY <1>1, <1>2, <1>4 DEF BestWidth
  <2>2. QED BY <1>2, <1>4, <2>1
<1>5. QED BY <1>3, <1>4

LEMMA ChooseWidthsInv ==
  ASSUME IInv, ChooseWidths
  PROVE  IInv'
<1> USE DEF IInv
<1>1. phase = "count" /\ k = Count /\ phase' \in {"failed", "pick"}
  BY DEF ChooseWidths
<1>2. UNCHANGED <<input, mem, size, units, shape, sizes, src>>
  BY DEF ChooseWidths
<1>3. \A c \in Cells : Serialized(c) /\ Serialized(c)'
  BY <1>1 DEF Serialized
<1>4. /\ CellInv' /\ OrderInv' /\ SegmentsIntact' /\ OldContentKept'
      /\ Cells' = Cells /\ Count' = Count
      /\ \A c \in Cells : Role(c)' = Role(c) /\ DataOf(c)' = DataOf(c)
      /\ kind' = kind /\ n' = n /\ last' = last /\ scalar' = scalar
  BY <1>1, <1>2, <1>3, QuietStep
<1>5. Count \in Nat /\ Count > 0 /\ (kind = "map" => Count >= 2) /\ last \in Nat /\ last <= size
  BY <1>1, CellFacts, TypeFacts
<1>6. CASE phase' = "failed"
  <2>1. UNCHANGED <<k, tail, width>>
    BY <1>6 DEF ChooseWidths
  <2>2. TypeInv'
    BY <1>1, <1>2, <1>4, <1>6, <2>1 DEF TypeInv
  <2>3. QED BY <1>4, <1>6, <2>2 DEF FitInv, ScalarInv, TailInv, MoveInv, TightInv, MarkInv, Wide
<1>7. CASE phase' = "pick"
  <2>1. /\ width' = [r \in 1 .. 2 |-> IF r = 1 /\ kind = "array" THEN 0 ELSE BestWidth(r - 1)]
        /\ k' = Count - 1 /\ tail' = last
    BY <1>7 DEF ChooseWidths
  <2>2. \A r \in 1 .. 2 : BestWidth(r - 1) \in 1 .. 3
    BY BestWidthFacts DEF TypeInv
  <2>3. width' \in [1 .. 2 -> 0 .. 3]
    BY <2>1, <2>2
  <2>4. TypeInv'
    <3>1. /\ mem' = [p \in 1 .. size' |-> mem'[p]]
          /\ units' = [c \in Cells' |-> units'[c]] /\ shape' = [c \in Cells' |-> shape'[c]]
      BY <1>2, ExtentKept
    <3>2. /\ kind' \in {"array", "map"} /\ n' \in Nat /\ last' \in Nat
          /\ scalar' \in [1 .. 2 -> 0 .. 2]
          /\ kind' = "array" => scalar'[1] = 0 /\ scalar'[2] = 0
          /\ size' \in Nat /\ tail' \in Nat /\ src' \in Nat /\ last' <= size'
          /\ sizes' \in [1 .. 2 -> [1 .. 3 -> Nat]] /\ n' > 0
      BY <1>1, <1>2, <1>4, <2>1, TypeFacts
    <3>3. k' \in Int /\ k' >= -1 /\ k' < Count' /\ k' <= Count'
      BY <1>4, <1>5, <2>1
    <3> HIDE DEF IInv
    <3>4. QED BY <1>7, <2>3, <3>1, <3>2, <3>3 DEF TypeInv
  <2>5. \A r \in 1 .. 2 : ~(r = 1 /\ kind = "array") => width'[r] = BestWidth(r - 1)
    BY <2>1
  <2>6. \A r \in 1 .. 2 : scalar[r] = 2 => width'[r] = 2
    <3>1. SUFFICES ASSUME NEW r \in 1 .. 2, scalar[r] = 2
                   PROVE  width'[r] = 2
      OBVIOUS
    <3>2. kind = "map"
      BY <3>1, TypeFacts
    <3>3. sizes[r][1] = sizes[r][3] /\ 2 * sizes[r][1] = 3 * sizes[r][2] /\ sizes[r][2] > 0
      BY <1>1, <1>5, <3>1, <3>2 DEF ScalarInv
    <3>4. BestWidth(r - 1) = 2
      BY <3>3, BestWidthFacts DEF TypeInv
    <3>5. QED BY <2>5, <3>2, <3>4
  <2>7. FitInv'
    <3>1. width'[2] >= 1 /\ (kind = "map" => width'[1] >= 1)
      BY <2>2, <2>5, TypeFacts
    <3>2. SUFFICES ASSUME NEW c \in Cells
                   PROVE  units[c].len <= W(c)'
      BY <1>2, <1>4, <1>7, <3>1 DEF FitInv, Wide
    <3>3. CellOK(c)
      BY <1>3 DEF CellInv
    <3>4. PICK r \in 1 .. 2 : r = Role(c) + 1 /\ (kind = "map" \/ r = 2)
      <4>1. Role(c) \in 0 .. 1 /\ (kind = "map" \/ Role(c) = 1)
        BY CellFacts DEF TypeInv, Role
      <4>2. QED BY <4>1
    <3>5. W(c)' = width'[r] /\ width'[r] \in 1 .. 3
      BY <1>4, <2>2, <2>5, <3>4 DEF W
    <3>6. CASE units[c].len = 0
      BY <3>5, <3>6
    <3>7. CASE units[c].len # 0 /\ scalar[r] = 0
      <4>1. units[c].len = 1
        BY <1>1, <1>3, <3>4, <3>7 DEF FitInv, IsSeg
      <4>2. QED BY <3>5, <4>1
    <3>8. CASE units[c].len # 0 /\ scalar[r] # 0
      <4>1. units[c].len = scalar[r] /\ scalar[r] \in 1 .. 2
        BY <3>3, <3>4, <3>8, ScalarFacts DEF CellOK
      <4>2. QED BY <2>6, <3>5, <4>1
    <3>9. QED BY <3>6, <3>7, <3>8
  <2>8. Base' = last /\ \A c \in Cells : ~Picked(c)'
    BY <1>4, <1>5, <1>7, <2>1, CellFacts, TypeFacts DEF Base, Picked
  <2>9. TailInv' /\ TightInv'
    <3>1. \A c \in Cells : IsSeg(c)' => last <= Start(c)'
      BY <1>2, <1>3 DEF CellInv, CellOK, IsSeg, Start
    <3>2. QED BY <1>2, <1>4, <1>5, <2>8, <3>1 DEF TailInv, TightInv
  <2>10. MoveInv' /\ ScalarInv' /\ MarkInv'
    BY <1>7 DEF MoveInv, ScalarInv, MarkInv
  <2>11. QED BY <1>4, <2>4, <2>7, <2>9, <2>10
<1>8. QED BY <1>1, <1>6, <1>7

\* From Pick on the container, its elements and the widths stay the same.
LEMMA TypeStep ==
  ASSUME TypeInv, UNCHANGED <<input, shape, sizes, width>>,
         size' \in Nat, tail' \in Nat, src' \in Nat, last <= size',
         mem' = [p \in 1 .. size' |-> mem'[p]],
         units' = [c \in Cells |-> units'[c]],
         phase \in Wide, phase' \in Wide, k' \in Int, k' >= -1, k' < Count,
         phase' = "move" => k' >= 0, phase' = "done" => k' = -1
  PROVE  TypeInv'
<1>1. kind' = kind /\ n' = n /\ last' = last /\ scalar' = scalar
  BY DEF input
<1>2. Count' = Count /\ Cells' = Cells /\ Count \in Nat
  BY Frame, CellFacts, TypeFacts
<1>3. n > 0
  BY DEF TypeInv, Wide
<1>4. /\ phase' \in {"elements", "count", "pick", "move", "mark", "done", "empty", "failed"}
      /\ phase' # "count" /\ phase' # "elements" /\ phase' # "empty"
  BY DEF Wide
<1>5. k' <= Count
  BY <1>2
<1>6. /\ kind \in {"array", "map"} /\ n \in Nat /\ last \in Nat
      /\ scalar \in [1 .. 2 -> 0 .. 2] /\ (kind = "array" => scalar[1] = 0 /\ scalar[2] = 0)
      /\ shape = [c \in Cells |-> shape[c]]
      /\ sizes \in [1 .. 2 -> [1 .. 3 -> Nat]] /\ width \in [1 .. 2 -> 0 .. 3]
  BY DEF TypeInv
<1>7. QED BY <1>1, <1>2, <1>3, <1>4, <1>5, <1>6 DEF TypeInv

LEMMA PickInlineInv ==
  ASSUME IInv, PickInline
  PROVE  IInv'
<1> USE DEF IInv
<1>1. phase = "pick" /\ phase' = "pick" /\ k >= 0 /\ k' = k - 1 /\ units[k].len # 0
  BY DEF PickInline
<1>2. UNCHANGED <<input, mem, size, units, shape, sizes, tail, src, width>>
  BY DEF PickInline
<1>3. \A c \in Cells : Serialized(c) /\ Serialized(c)'
  BY <1>1 DEF Serialized
<1>4. /\ CellInv' /\ OrderInv' /\ SegmentsIntact' /\ OldContentKept'
      /\ Cells' = Cells /\ Count' = Count
      /\ \A c \in Cells : Role(c)' = Role(c) /\ DataOf(c)' = DataOf(c)
      /\ kind' = kind /\ n' = n /\ last' = last /\ scalar' = scalar
  BY <1>1, <1>2, <1>3, QuietStep
<1>5. \A c \in Cells : W(c)' = W(c) /\ IsSeg(c)' = IsSeg(c) /\ Start(c)' = Start(c)
  BY <1>2, <1>4 DEF W, IsSeg, Start
<1>a. Cells \subseteq Nat /\ k \in Int /\ k < Count /\ Count \in Nat
  BY <1>1, CellFacts, TypeFacts
<1>6. Base' = Base /\ \A c \in Cells : Picked(c)' <=> Picked(c) \/ c = k
  <2>1. Base' = Base
    BY <1>1, <1>2 DEF Base
  <2>2. ASSUME NEW c \in Cells
        PROVE  Picked(c)' <=> Picked(c) \/ c = k
    <3>1. c \in Nat /\ (c > k - 1 <=> c > k \/ c = k)
      BY <1>a
    <3>2. QED BY <1>1, <3>1 DEF Picked
  <2>3. QED BY <2>1, <2>2
<1>7. TypeInv'
  <2>1. k' \in Int /\ k' >= -1 /\ k' < Count
    BY <1>1, <1>a
  <2>2. phase \in Wide /\ phase' \in Wide
    BY <1>1 DEF Wide
  <2>3. QED BY <1>1, <1>2, <2>1, <2>2, TypeStep DEF TypeInv
<1>8. TailInv' /\ TightInv'
  <2>1. \A c \in Cells : IsSeg(c) => c # k
    BY <1>1 DEF IsSeg
  <2>2. TailInv'
    BY <1>1, <1>2, <1>4, <1>5, <1>6, <2>1 DEF TailInv, Wide
  <2>3. TightInv'
    BY <1>1, <1>2, <1>4, <1>5, <1>6, <2>1 DEF TightInv, Wide
  <2>4. QED BY <2>2, <2>3
<1>9. FitInv'
  BY <1>1, <1>2, <1>4, <1>5 DEF FitInv, Wide
<1>10. QED BY <1>1, <1>4, <1>7, <1>8, <1>9 DEF MoveInv, ScalarInv, MarkInv

LEMMA PickEmbedInv ==
  ASSUME IInv, PickEmbed
  PROVE  IInv'
<1> USE DEF IInv
<1>1. /\ phase = "pick" /\ phase' = "pick" /\ k >= 0 /\ k' = k - 1
      /\ units[k].len = 0 /\ units[k].slen <= W(k)
  BY DEF PickEmbed
<1>2. UNCHANGED <<input, mem, size, shape, sizes, tail, src, width>>
  BY DEF PickEmbed
<1>3. k \in Cells /\ k \in Nat
  BY <1>1, CellFacts, TypeFacts
<1>4. PICK j \in Cells : j = k
  BY <1>3
<1>5. /\ Cells' = Cells /\ Count' = Count
      /\ \A c \in Cells : Role(c)' = Role(c) /\ DataOf(c)' = DataOf(c) /\ W(c)' = W(c)
  BY <1>2, Frame
<1>6. \A c \in Cells : Serialized(c) /\ Serialized(c)'
  BY <1>1 DEF Serialized
<1>7. CellOK(j)
  BY <1>6 DEF CellInv
<1>8. units' = [units EXCEPT ![j] = [len |-> shape[j].len, data |-> DataOf(j), pos |-> 0, slen |-> 0]]
  <2>1. units[j].slen = shape[j].len /\ shape[j].len \in Nat
    BY <1>1, <1>4, <1>7 DEF CellOK
  <2>2. [w \in 1 .. units[j].slen |-> mem[units[j].pos - w + 1]] = DataOf(j)
    <3>1. \A w \in 1 .. shape[j].len : mem[units[j].pos - w + 1] = DataOf(j)[w]
      BY <1>1, <1>4, <1>6 DEF SegmentsIntact
    <3>2. DataOf(j) = [w \in 1 .. shape[j].len |-> DataOf(j)[w]]
      BY DEF DataOf
    <3>3. QED BY <2>1, <3>1, <3>2
  <2>3. InlineUnit(DataOf(j)) = [len |-> shape[j].len, data |-> DataOf(j), pos |-> 0, slen |-> 0]
    <3>1. DataOf(j) = [w \in 1 .. shape[j].len |-> DataOf(j)[w]]
      BY DEF DataOf
    <3>2. QED BY <2>1, <3>1, InlineFacts
  <2>4. units' = [units EXCEPT ![j] = InlineUnit([w \in 1 .. units[j].slen |-> mem[units[j].pos - w + 1]])]
    BY <1>4 DEF PickEmbed, TypeInv
  <2>5. QED BY <2>2, <2>3, <2>4
<1>9. units = [c \in Cells |-> units[c]]
  BY DEF TypeInv
<1>10. /\ units'[j] = [len |-> shape[j].len, data |-> DataOf(j), pos |-> 0, slen |-> 0]
       /\ \A c \in Cells : c # j => units'[c] = units[c]
  BY <1>8, <1>9
<1>11. shape[j].len \in Nat \ {0} /\ shape[j].len <= W(j) /\ scalar[Role(j) + 1] = 0
  BY <1>1, <1>4, <1>7 DEF CellOK
<1>12. \A c \in Cells : IsSeg(c)' => c # j /\ IsSeg(c) /\ units'[c] = units[c] /\ Start(c)' = Start(c)
  BY <1>10, <1>11 DEF IsSeg, Start
<1>a. Cells \subseteq Nat /\ k \in Int /\ k < Count /\ Count \in Nat
  BY <1>1, CellFacts, TypeFacts
<1>13. Base' = Base /\ \A c \in Cells : Picked(c)' <=> Picked(c) \/ c = j
  BY <1>1, <1>2, <1>4, <1>a DEF Base, Picked
<1>14. TypeInv'
  <2>1. k' \in Int /\ k' >= -1 /\ k' < Count
    BY <1>1, <1>a
  <2>2. units' = [c \in Cells |-> units'[c]]
    BY <1>8, <1>9
  <2>3. phase \in Wide /\ phase' \in Wide
    BY <1>1 DEF Wide
  <2>4. QED BY <1>1, <1>2, <2>1, <2>2, <2>3, TypeStep DEF TypeInv
<1>15. CellInv'
  <2>1. SUFFICES ASSUME NEW c \in Cells
                 PROVE  CellOK(c)'
    BY <1>5 DEF CellInv
  <2>2. CASE c = j
    <3>1. shape' = shape /\ scalar' = scalar /\ Role(c)' = Role(c) /\ DataOf(c)' = DataOf(c)
      BY <1>2, <1>5 DEF input
    <3>2. scalar[Role(j) + 1] = 0 /\ shape[j].low = 3 => shape[j].len >= 4
      BY <1>7 DEF CellOK
    <3>3. QED BY <1>10, <1>11, <2>2, <3>1, <3>2 DEF CellOK
  <2>3. CASE c # j
    BY <1>1, <1>2, <1>6, <1>10, <2>3, CellKept DEF CellInv
  <2>4. QED BY <2>2, <2>3
<1>16. OrderInv'
  BY <1>5, <1>6, <1>12 DEF OrderInv
<1>17. TailInv'
  BY <1>1, <1>2, <1>5, <1>12, <1>13 DEF TailInv, Wide, input
<1>18. TightInv'
  <2>1. last' = last /\ phase \in Wide
    BY <1>1, <1>2 DEF input, Wide
  <2>2. (\A c \in Cells : Picked(c)' => ~IsSeg(c)') => Base' = last'
    <3>1. \A c \in Cells : Picked(c) /\ IsSeg(c) => IsSeg(c)'
      BY <1>1, <1>4, <1>10, <1>a DEF IsSeg, Picked
    <3>2. QED BY <1>13, <2>1, <3>1 DEF TightInv
  <2>3. ASSUME NEW c \in Cells, Picked(c)', IsSeg(c)', \A d \in Cells : c < d => ~IsSeg(d)'
        PROVE  Start(c)' = last'
    <3>1. c # j /\ Picked(c) /\ IsSeg(c) /\ Start(c)' = Start(c) /\ c > j
      BY <1>1, <1>4, <1>12, <1>13, <2>3 DEF Picked
    <3>2. \A d \in Cells : c < d => ~IsSeg(d)
      <4>1. \A d \in Cells : c < d => d # j
        BY <1>a, <3>1
      <4>2. QED BY <1>10, <2>3, <4>1 DEF IsSeg
    <3>3. QED BY <2>1, <3>1, <3>2 DEF TightInv
  <2>4. QED BY <1>5, <2>2, <2>3 DEF TightInv
<1>19. FitInv'
  <2>1. \A c \in Cells : units'[c].len <= W(c)'
    BY <1>1, <1>5, <1>10, <1>11 DEF FitInv, Wide
  <2>2. QED BY <1>1, <1>2, <1>5, <2>1 DEF FitInv, Wide, input
<1>20. SegmentsIntact'
  <2>1. SUFFICES ASSUME NEW c \in Cells, units'[c].len = 0, NEW w \in 1 .. shape[c].len
                 PROVE  mem[units'[c].pos - w + 1] = DataOf(c)[w]
    BY <1>1, <1>2, <1>5 DEF SegmentsIntact
  <2>2. units'[c] = units[c]
    BY <1>12, <2>1 DEF IsSeg
  <2>3. QED BY <1>1, <1>6, <2>1, <2>2 DEF SegmentsIntact
<1>21. OldContentKept'
  BY <1>2 DEF OldContentKept, input, OldWord
<1>22. QED BY <1>1, <1>14, <1>15, <1>16, <1>17, <1>18, <1>19, <1>20, <1>21
         DEF MoveInv, ScalarInv, MarkInv

\* The words of a segment.
LEMMA SegFacts ==
  ASSUME TypeInv, NEW c \in Cells, CellOK(c), IsSeg(c)
  PROVE  /\ units[c].pos \in Nat /\ units[c].slen \in Nat \ {0}
         /\ units[c].slen = shape[c].len
         /\ Start(c) \in Nat /\ last <= Start(c)
         /\ Start(c) = units[c].pos - units[c].slen /\ Start(c) < units[c].pos
         /\ phase \notin {"mark", "done"} => units[c].pos <= size
<1>1. units[c].pos \in Nat /\ units[c].slen \in Nat /\ shape[c].len \in Nat \ {0}
  BY DEF CellOK
<1>2. /\ units[c].slen = shape[c].len /\ last <= Start(c)
      /\ phase \notin {"mark", "done"} => units[c].pos <= size
  BY DEF CellOK, IsSeg
<1>3. last \in Nat
  BY DEF TypeInv
<1>4. QED BY <1>1, <1>2, <1>3 DEF Start

LEMMA PickStayInv ==
  ASSUME IInv, PickStay
  PROVE  IInv'
<1> USE DEF IInv
<1>1. /\ phase = "pick" /\ phase' = "pick" /\ k >= 0 /\ k' = k - 1
      /\ units[k].len = 0 /\ units[k].slen > W(k)
      /\ tail >= units[k].pos - units[k].slen /\ tail' = tail + units[k].slen
  BY DEF PickStay
<1>2. UNCHANGED <<input, mem, size, units, shape, sizes, src, width>>
  BY DEF PickStay
<1>3. \A c \in Cells : Serialized(c) /\ Serialized(c)'
  BY <1>1 DEF Serialized
<1>4. /\ CellInv' /\ OrderInv' /\ SegmentsIntact' /\ OldContentKept'
      /\ Cells' = Cells /\ Count' = Count
      /\ \A c \in Cells : Role(c)' = Role(c) /\ DataOf(c)' = DataOf(c)
      /\ kind' = kind /\ n' = n /\ last' = last /\ scalar' = scalar
  BY <1>1, <1>2, <1>3, QuietStep
<1>5. \A c \in Cells : W(c)' = W(c) /\ IsSeg(c)' = IsSeg(c) /\ Start(c)' = Start(c)
  BY <1>2, <1>4 DEF W, IsSeg, Start
<1>6. Cells \subseteq Nat /\ k \in Cells /\ k \in Nat /\ Count \in Nat /\ k < Count
  BY <1>1, CellFacts, TypeFacts
<1>7. PICK j \in Cells : j = k
  BY <1>6
<1>8. /\ units[j].pos \in Nat /\ units[j].slen \in Nat /\ units[j].slen > 0
      /\ units[j].pos <= size /\ last <= Start(j) /\ IsSeg(j)
  <2>1. CellOK(j) /\ IsSeg(j)
    BY <1>1, <1>3, <1>7 DEF CellInv, IsSeg
  <2>2. QED BY <1>1, <2>1, SegFacts
<1>9. Base = tail /\ Base' = tail' /\ tail \in Nat
  BY <1>1 DEF Base, TypeInv
<1>10. tail = Start(j) /\ tail' = units[j].pos
  <2>1. ~Picked(j)
    BY <1>1, <1>6, <1>7 DEF Picked
  <2>2. tail <= Start(j)
    BY <1>1, <1>8, <1>9, <2>1 DEF TailInv, Wide
  <2>3. QED BY <1>1, <1>7, <1>8, <1>9, <2>2 DEF Start
<1>11. \A c \in Cells : Picked(c)' <=> Picked(c) \/ c = j
  BY <1>1, <1>6, <1>7 DEF Picked
<1>12. TypeInv'
  <2>1. k' \in Int /\ k' >= -1 /\ k' < Count /\ tail' \in Nat
    BY <1>1, <1>6, <1>8, <1>10
  <2>2. phase \in Wide /\ phase' \in Wide
    BY <1>1 DEF Wide
  <2>3. QED BY <1>1, <1>2, <2>1, <2>2, TypeStep DEF TypeInv
<1>13. TailInv'
  <2>1. last' <= Base' /\ Base' <= size'
    <3>1. last \in Nat /\ size \in Nat /\ size' = size
      BY <1>2 DEF TypeInv
    <3>2. QED BY <1>4, <1>8, <1>9, <1>10, <3>1 DEF Start
  <2>2. ASSUME NEW c \in Cells, IsSeg(c)
        PROVE  (Picked(c)' => units[c].pos <= Base') /\ (~Picked(c)' => Base' <= Start(c))
    <3>1. CASE c = j
      BY <1>8, <1>9, <1>10, <1>11, <3>1
    <3>2. CASE c > j
      <4>1. units[c].pos <= Start(j)
        BY <1>3, <1>8, <2>2, <3>2 DEF OrderInv
      <4>2. units[c].pos \in Nat /\ Start(j) <= units[j].pos
        <5>1. units[c].pos \in Nat
          BY <1>3 DEF CellInv, CellOK
        <5>2. QED BY <1>8, <5>1 DEF Start
      <4>3. Picked(c)'
        BY <1>1, <1>7, <1>11, <3>2 DEF Picked
      <4>4. PICK x \in Nat, y \in Nat : x = units[c].pos /\ y = units[j].pos /\ x <= y
        <5>1. Start(j) \in Int
          BY <1>8 DEF Start
        <5>2. QED BY <1>8, <4>1, <4>2, <5>1
      <4>5. units[c].pos <= Base'
        BY <1>9, <1>10, <4>4
      <4>6. QED BY <4>3, <4>5, Zenon
    <3>3. CASE c < j
      <4>1. units[j].pos <= Start(c)
        BY <1>3, <1>8, <2>2, <3>3 DEF OrderInv
      <4>2. ~Picked(c)'
        BY <1>1, <1>6, <1>7, <1>11, <3>3 DEF Picked
      <4>3. Base' <= Start(c)
        BY <1>9, <1>10, <4>1
      <4>4. QED BY <4>2, <4>3, Zenon
    <3>4. c = j \/ c > j \/ c < j
      BY <1>6
    <3>5. QED BY <3>1, <3>2, <3>3, <3>4, Zenon
  <2>3. QED BY <1>2, <1>4, <1>5, <2>1, <2>2 DEF TailInv
<1>14. TightInv'
  <2>1. Picked(j)' /\ IsSeg(j)'
    BY <1>5, <1>8, <1>11
  <2>2. ASSUME NEW c \in Cells, Picked(c)', IsSeg(c), \A d \in Cells : c < d => ~IsSeg(d)
        PROVE  Start(c) = last
    <3>1. CASE c = j
      <4>1. \A d \in Cells : Picked(d) => ~IsSeg(d)
        BY <1>1, <1>7, <2>2, <3>1 DEF Picked
      <4>2. QED BY <1>1, <1>9, <1>10, <3>1, <4>1 DEF TightInv, Wide
    <3>2. CASE c # j
      <4>1. Picked(c)
        BY <1>11, <2>2, <3>2
      <4>2. QED BY <1>1, <2>2, <4>1 DEF TightInv, Wide
    <3>3. QED BY <3>1, <3>2
  <2>3. QED BY <1>4, <1>5, <2>1, <2>2 DEF TightInv
<1>15. FitInv'
  BY <1>1, <1>2, <1>4, <1>5 DEF FitInv, Wide
<1>16. QED BY <1>1, <1>4, <1>12, <1>13, <1>14, <1>15 DEF MoveInv, ScalarInv, MarkInv

LEMMA PickMoveInv ==
  ASSUME IInv, PickMove
  PROVE  IInv'
<1> USE DEF IInv
<1>1. /\ phase = "pick" /\ phase' = "move" /\ k >= 0 /\ k' = k
      /\ units[k].len = 0 /\ units[k].slen > W(k)
      /\ tail < units[k].pos - units[k].slen /\ src' = units[k].pos - units[k].slen
  BY DEF PickMove
<1>2. UNCHANGED <<input, mem, size, units, shape, k, sizes, tail, width>>
  BY DEF PickMove
<1>3. \A c \in Cells : Serialized(c) /\ Serialized(c)'
  BY <1>1 DEF Serialized
<1>4. /\ Cells' = Cells /\ Count' = Count
      /\ \A c \in Cells : Role(c)' = Role(c) /\ DataOf(c)' = DataOf(c) /\ W(c)' = W(c)
      /\ kind' = kind /\ n' = n /\ last' = last /\ scalar' = scalar
  BY <1>2, Frame DEF input
<1>5. \A c \in Cells : IsSeg(c)' = IsSeg(c) /\ Start(c)' = Start(c)
  BY <1>2 DEF IsSeg, Start
<1>6. Cells \subseteq Nat /\ k \in Cells /\ k \in Nat /\ Count \in Nat /\ k < Count
  BY <1>1, CellFacts, TypeFacts
<1>7. PICK j \in Cells : j = k
  BY <1>6
<1>8. /\ units[j].pos \in Nat /\ units[j].slen \in Nat /\ units[j].slen > 0
      /\ units[j].slen = shape[j].len /\ last <= Start(j) /\ IsSeg(j) /\ last \in Nat
  <2>1. CellOK(j) /\ IsSeg(j)
    BY <1>1, <1>3, <1>7 DEF CellInv, IsSeg
  <2>2. QED BY <2>1, SegFacts, TypeFacts
<1>9. src' = Start(j) /\ src' \in Nat /\ tail \in Nat
  <2>1. src' = Start(j)
    BY <1>1, <1>7 DEF Start
  <2>2. Start(j) \in Nat
    BY <1>8 DEF Start
  <2>3. QED BY <2>1, <2>2 DEF TypeInv
<1>10. Base = tail /\ Base' = tail
  BY <1>1, <1>2, <1>5, <1>7, <1>9 DEF Base
<1>11. \A c \in Cells : Picked(c)' <=> Picked(c)
  BY <1>1 DEF Picked
<1>12. TypeInv'
  <2>1. k' \in Int /\ k' >= -1 /\ k' < Count /\ k' >= 0
    BY <1>1, <1>6
  <2>2. phase \in Wide /\ phase' \in Wide
    BY <1>1 DEF Wide
  <2>3. QED BY <1>1, <1>2, <1>9, <2>1, <2>2, TypeStep DEF TypeInv
<1>13. CellInv'
  <2>1. size' = size
    BY <1>2
  <2>2. QED BY <1>1, <1>2, <1>3, <1>4, <2>1, CellKept DEF CellInv
<1>14. OrderInv'
  BY <1>2, <1>3, <1>4, <1>5 DEF OrderInv
<1>15. TailInv' /\ TightInv'
  <2>1. TailInv'
    BY <1>1, <1>2, <1>4, <1>5, <1>10, <1>11 DEF TailInv, Wide
  <2>2. TightInv'
    BY <1>1, <1>2, <1>4, <1>5, <1>10, <1>11 DEF TightInv, Wide
  <2>3. QED BY <2>1, <2>2
<1>16. MoveInv'
  <2>1. k' = j /\ units' = units /\ mem' = mem /\ tail' = tail
    BY <1>2, <1>7
  <2>2. \A w \in 1 .. units[j].slen : w <= units[j].pos - src' /\ DataOf(j)[w] = mem[units[j].pos - w + 1]
    <3>1. \A w \in 1 .. shape[j].len : mem[units[j].pos - w + 1] = DataOf(j)[w]
      BY <1>1, <1>3, <1>7 DEF SegmentsIntact
    <3>2. units[j].pos - src' = units[j].slen
      BY <1>8, <1>9 DEF Start
    <3>3. QED BY <1>8, <3>1, <3>2
  <2>3. Start(j) <= src' /\ src' < units[j].pos /\ tail < src'
    BY <1>1, <1>7, <1>8, <1>9 DEF Start
  <2>4. W(j) < units[j].slen
    BY <1>1, <1>7, <1>8, WidthFacts DEF Wide
  <2>5. QED BY <1>4, <1>5, <1>8, <2>1, <2>2, <2>3, <2>4 DEF MoveInv
<1>17. FitInv'
  BY <1>1, <1>2, <1>4 DEF FitInv, Wide
<1>18. SegmentsIntact'
  BY <1>1, <1>2, <1>3, <1>4 DEF SegmentsIntact
<1>19. OldContentKept'
  BY <1>2, <1>4 DEF OldContentKept, OldWord
<1>20. QED BY <1>1, <1>12, <1>13, <1>14, <1>15, <1>16, <1>17, <1>18, <1>19 DEF ScalarInv, MarkInv

\* Where the segment being moved, the place written next and the other
\* segments lie.
LEMMA MoveFacts ==
  ASSUME IInv, phase = "move", NEW j \in Cells, j = k
  PROVE  /\ CellOK(j) /\ IsSeg(j)
         /\ units[j].pos \in Nat /\ units[j].slen \in Nat \ {0} /\ units[j].slen = shape[j].len
         /\ Start(j) \in Nat /\ Start(j) = units[j].pos - units[j].slen
         /\ units[j].pos <= size /\ size \in Nat /\ last \in Nat
         /\ tail \in Nat /\ src \in Nat /\ Start(j) <= src /\ src < units[j].pos /\ tail < src
         /\ Base = tail - (src - Start(j)) /\ Base \in Nat /\ last <= Base /\ Base <= tail
         /\ \A c \in Cells : IsSeg(c) /\ c > j => units[c].pos <= Base
         /\ \A c \in Cells : IsSeg(c) /\ c < j => units[j].pos <= Start(c)
<1> USE DEF IInv
<1>1. \A c \in Cells : Serialized(c)
  BY DEF Serialized
<1>2. CellOK(j) /\ IsSeg(j)
  BY <1>1 DEF CellInv, MoveInv
<1>3. /\ units[j].pos \in Nat /\ units[j].slen \in Nat \ {0} /\ units[j].slen = shape[j].len
      /\ Start(j) \in Nat /\ Start(j) = units[j].pos - units[j].slen
      /\ units[j].pos <= size
  BY <1>2, SegFacts
<1>4. size \in Nat /\ last \in Nat /\ tail \in Nat /\ src \in Nat
  BY DEF TypeInv
<1>5. Start(j) <= src /\ src < units[j].pos /\ tail < src
  BY DEF MoveInv
<1>6. Base = tail - (src - Start(j)) /\ last <= Base
  BY DEF Base, TailInv, Wide
<1>7. Base \in Nat /\ Base <= tail
  BY <1>3, <1>4, <1>5, <1>6
<1>8. \A c \in Cells : IsSeg(c) /\ c > j => units[c].pos <= Base
  BY DEF TailInv, Wide, Picked
<1>9. \A c \in Cells : IsSeg(c) /\ c < j => units[j].pos <= Start(c)
  BY <1>1, <1>2 DEF OrderInv
<1>10. QED BY <1>2, <1>3, <1>4, <1>5, <1>6, <1>7, <1>8, <1>9

\* Moving a word: the segment being moved keeps its words, each at its old or
\* its new place, and every other segment keeps its own.
LEMMA MoveWords ==
  ASSUME IInv, MoveWord, NEW j \in Cells, j = k
  PROVE  /\ mem' = [p \in 1 .. size |-> mem'[p]]
         /\ \A p \in 1 .. last : mem'[p] = mem[p]
         /\ \A w \in 1 .. units[j].slen :
              DataOf(j)[w] = IF w < units[j].pos - src THEN mem'[units[j].pos - w + 1]
                             ELSE mem'[Base + units[j].slen - w + 1]
         /\ \A c \in Cells : IsSeg(c) /\ c # j =>
              \A w \in 1 .. shape[c].len : mem'[units[c].pos - w + 1] = DataOf(c)[w]
<1>1. phase = "move" /\ mem' = [mem EXCEPT ![tail + 1] = mem[src + 1]]
  BY DEF MoveWord
<1>2. /\ units[j].pos \in Nat /\ units[j].slen \in Nat \ {0} /\ units[j].slen = shape[j].len
      /\ Start(j) \in Nat /\ Start(j) = units[j].pos - units[j].slen
      /\ units[j].pos <= size /\ size \in Nat /\ last \in Nat
      /\ tail \in Nat /\ src \in Nat /\ Start(j) <= src /\ src < units[j].pos /\ tail < src
      /\ Base = tail - (src - Start(j)) /\ Base \in Nat /\ last <= Base /\ Base <= tail
      /\ \A c \in Cells : IsSeg(c) /\ c > j => units[c].pos <= Base
      /\ \A c \in Cells : IsSeg(c) /\ c < j => units[j].pos <= Start(c)
  BY <1>1, MoveFacts
<1>3. mem = [p \in 1 .. size |-> mem[p]]
  BY DEF IInv, TypeInv
<1>4. tail + 1 \in 1 .. size
  BY <1>2
<1>5. mem'[tail + 1] = mem[src + 1] /\ \A p \in 1 .. size : p # tail + 1 => mem'[p] = mem[p]
  BY <1>1, <1>3, <1>4
<1>6. mem' = [p \in 1 .. size |-> mem'[p]]
  BY <1>1, <1>3, <1>4
<1>7. \A p \in 1 .. last : mem'[p] = mem[p]
  BY <1>2, <1>5
<1>8. ASSUME NEW w \in 1 .. units[j].slen
      PROVE  DataOf(j)[w] = IF w < units[j].pos - src THEN mem'[units[j].pos - w + 1]
                            ELSE mem'[Base + units[j].slen - w + 1]
  <2>1. DataOf(j)[w] = IF w <= units[j].pos - src THEN mem[units[j].pos - w + 1]
                       ELSE mem[Base + units[j].slen - w + 1]
    BY <1>1 DEF IInv, MoveInv
  <2>2. CASE w < units[j].pos - src
    <3>1. units[j].pos - w + 1 \in 1 .. size /\ units[j].pos - w + 1 # tail + 1
      BY <1>2, <2>2
    <3>2. QED BY <1>5, <2>1, <2>2, <3>1, <1>2
  <2>3. CASE w = units[j].pos - src
    <3>1. units[j].pos - w + 1 = src + 1 /\ Base + units[j].slen - w + 1 = tail + 1
      <4>1. PICK x \in Nat, y \in Nat, z \in Nat, b \in Nat :
              x = units[j].pos /\ y = units[j].slen /\ z = Start(j) /\ b = Base
        BY <1>2
      <4>2. PICK t \in Nat, s \in Nat : t = tail /\ s = src
        BY <1>2
      <4>3. z = x - y /\ w = x - s /\ b = t - (s - z) /\ w \in Nat
        BY <1>2, <2>3, <4>1, <4>2
      <4>4. x - w + 1 = s + 1 /\ b + y - w + 1 = t + 1
        BY <4>3
      <4>5. QED BY <4>1, <4>2, <4>4
    <3>2. w <= units[j].pos - src /\ ~(w < units[j].pos - src)
      BY <1>2, <2>3
    <3>3. QED BY <1>5, <2>1, <3>1, <3>2
  <2>4. CASE w > units[j].pos - src
    <3>1. /\ Base + units[j].slen - w + 1 \in 1 .. size /\ Base + units[j].slen - w + 1 # tail + 1
          /\ ~(w <= units[j].pos - src) /\ ~(w < units[j].pos - src)
      BY <1>2, <2>4
    <3>2. QED BY <1>5, <2>1, <3>1
  <2>5. QED BY <1>2, <2>2, <2>3, <2>4
<1>9. ASSUME NEW c \in Cells, IsSeg(c), c # j, NEW w \in 1 .. shape[c].len
      PROVE  mem'[units[c].pos - w + 1] = DataOf(c)[w]
  <2>1. CellOK(c) /\ TypeInv
    BY <1>1 DEF IInv, CellInv, Serialized
  <2>2. /\ units[c].pos \in Nat /\ units[c].slen \in Nat /\ units[c].slen = shape[c].len
        /\ Start(c) \in Nat /\ Start(c) = units[c].pos - units[c].slen /\ units[c].pos <= size
    BY <1>1, <1>9, <2>1, SegFacts
  <2>3. mem[units[c].pos - w + 1] = DataOf(c)[w]
    BY <1>1, <1>9 DEF IInv, SegmentsIntact, Serialized, IsSeg
  <2>4. units[c].pos <= Base \/ units[j].pos <= Start(c)
    <3>1. c \in Nat /\ j \in Nat
      BY <2>1, CellFacts, TypeFacts
    <3>2. QED BY <1>2, <1>9, <3>1
  <2>5. units[c].pos - w + 1 \in 1 .. size /\ units[c].pos - w + 1 # tail + 1
    BY <1>2, <2>2, <2>4
  <2>6. QED BY <1>5, <2>3, <2>5
<1>10. QED BY <1>6, <1>7, <1>8, <1>9

LEMMA MoveWordInv ==
  ASSUME IInv, MoveWord
  PROVE  IInv'
<1> USE DEF IInv
<1>1. phase = "move" /\ tail' = tail + 1 /\ src' = src + 1
  BY DEF MoveWord
<1>2. UNCHANGED <<input, size, shape, sizes, width>>
  BY DEF MoveWord
<1>3. Cells \subseteq Nat /\ k \in Cells /\ k \in Nat /\ Count \in Nat /\ k < Count
  BY <1>1, CellFacts, TypeFacts
<1>4. PICK j \in Cells : j = k
  BY <1>3
<1>5. /\ Cells' = Cells /\ Count' = Count
      /\ \A c \in Cells : Role(c)' = Role(c) /\ DataOf(c)' = DataOf(c) /\ W(c)' = W(c)
      /\ kind' = kind /\ n' = n /\ last' = last /\ scalar' = scalar
  BY <1>2, Frame DEF input
<1>6. /\ CellOK(j) /\ IsSeg(j)
      /\ units[j].pos \in Nat /\ units[j].slen \in Nat \ {0} /\ units[j].slen = shape[j].len
      /\ Start(j) \in Nat /\ Start(j) = units[j].pos - units[j].slen
      /\ units[j].pos <= size /\ size \in Nat /\ last \in Nat
      /\ tail \in Nat /\ src \in Nat /\ Start(j) <= src /\ src < units[j].pos /\ tail < src
      /\ Base = tail - (src - Start(j)) /\ Base \in Nat /\ last <= Base /\ Base <= tail
      /\ \A c \in Cells : IsSeg(c) /\ c > j => units[c].pos <= Base
      /\ \A c \in Cells : IsSeg(c) /\ c < j => units[j].pos <= Start(c)
  BY <1>1, <1>4, MoveFacts
<1>7. /\ mem' = [p \in 1 .. size |-> mem'[p]]
      /\ \A p \in 1 .. last : mem'[p] = mem[p]
      /\ \A w \in 1 .. units[j].slen :
           DataOf(j)[w] = IF w < units[j].pos - src THEN mem'[units[j].pos - w + 1]
                          ELSE mem'[Base + units[j].slen - w + 1]
      /\ \A c \in Cells : IsSeg(c) /\ c # j =>
           \A w \in 1 .. shape[c].len : mem'[units[c].pos - w + 1] = DataOf(c)[w]
  BY <1>4, MoveWords
<1>8. \A c \in Cells : Serialized(c) /\ CellOK(c)
  BY <1>1 DEF Serialized, CellInv
<1>9. OldContentKept'
  BY <1>2, <1>5, <1>7 DEF OldContentKept, OldWord
<1>10. phase' \in {"move", "pick"} /\ \A c \in Cells : Serialized(c)'
  BY <1>1 DEF MoveWord, Serialized
<1>11. CASE src + 1 # units[k].pos
  <2>1. units' = units /\ k' = k /\ phase' = phase
    BY <1>11 DEF MoveWord
  <2>2. \A c \in Cells : IsSeg(c)' = IsSeg(c) /\ Start(c)' = Start(c) /\ (Picked(c)' <=> Picked(c))
    BY <2>1 DEF IsSeg, Start, Picked
  <2>3. src + 1 < units[j].pos /\ tail + 1 < src + 1 /\ Start(j) <= src + 1
    BY <1>4, <1>6, <1>11
  <2>4. Base' = Base
    <3>1. Base' = (tail + 1) - ((src + 1) - Start(j))
      BY <1>1, <1>4, <2>1, <2>2 DEF Base
    <3>2. QED BY <1>6, <3>1
  <2>5. TypeInv'
    <3>1. phase \in Wide /\ phase' \in Wide /\ phase' # "done"
      BY <1>1, <2>1 DEF Wide
    <3>2. k' \in Int /\ k' >= -1 /\ k' < Count /\ k' >= 0 /\ tail' \in Nat /\ src' \in Nat
      BY <1>1, <1>3, <1>6, <2>1
    <3>3. QED BY <1>2, <1>7, <2>1, <3>1, <3>2, TypeStep DEF TypeInv
  <2>6. CellInv'
    <3>1. \A c \in Cells : units'[c] = units[c] /\ shape'[c] = shape[c]
      BY <1>2, <2>1
    <3>2. QED BY <1>1, <1>2, <1>5, <1>8, <2>1, <3>1, CellKept DEF CellInv
  <2>7. OrderInv'
    BY <1>5, <1>8, <2>1, <2>2 DEF OrderInv
  <2>8. TailInv' /\ TightInv'
    <3>1. TailInv'
      BY <1>1, <1>2, <1>5, <2>1, <2>2, <2>4 DEF TailInv, Wide
    <3>2. TightInv'
      BY <1>1, <1>2, <1>5, <2>1, <2>2, <2>4 DEF TightInv, Wide
    <3>3. QED BY <3>1, <3>2
  <2>9. MoveInv'
    <3>1. k' = j
      BY <1>4, <2>1
    <3>2. W(j)' < units'[j].slen
      BY <1>1, <1>4, <1>5, <2>1 DEF MoveInv
    <3>3. \A w \in 1 .. units[j].slen : w < units[j].pos - src <=> w <= units[j].pos - (src + 1)
      BY <1>6
    <3>4. \A w \in 1 .. units'[j].slen :
            DataOf(j)'[w] = IF w <= units'[j].pos - src' THEN mem'[units'[j].pos - w + 1]
                           ELSE mem'[Base' + units'[j].slen - w + 1]
      BY <1>1, <1>5, <1>7, <2>1, <2>4, <3>3
    <3>5. IsSeg(j)' /\ Start(j)' <= src' /\ src' < units'[j].pos /\ tail' < src'
      BY <1>1, <1>6, <2>1, <2>2, <2>3
    <3>6. QED BY <3>1, <3>2, <3>4, <3>5 DEF MoveInv
  <2>10. FitInv'
    BY <1>1, <1>2, <1>5, <2>1 DEF FitInv, Wide
  <2>11. SegmentsIntact'
    BY <1>1, <1>2, <1>4, <1>5, <1>7, <2>1 DEF SegmentsIntact, IsSeg
  <2>12. QED BY <1>1, <1>9, <2>1, <2>5, <2>6, <2>7, <2>8, <2>9, <2>10, <2>11 DEF ScalarInv, MarkInv
<1>12. CASE src + 1 = units[k].pos
  <2>1. k' = k - 1 /\ phase' = "pick" /\ units' = [units EXCEPT ![k].pos = @ - (src - tail)]
    BY <1>12 DEF MoveWord
  <2>2. units[j].pos = src + 1 /\ units[j].pos - (src - tail) = tail + 1 /\ Base = tail + 1 - units[j].slen
    <3>1. units[j].pos = src + 1
      BY <1>4, <1>12
    <3>2. PICK x \in Nat, y \in Nat : x = units[j].pos /\ y = units[j].slen
      BY <1>6
    <3>3. x = src + 1 /\ Start(j) = x - y
      BY <1>6, <3>1, <3>2
    <3>4. x - (src - tail) = tail + 1 /\ Base = tail + 1 - y
      BY <1>6, <3>3
    <3>5. QED BY <3>1, <3>2, <3>4
  <2>3. units = [c \in Cells |-> units[c]]
    BY DEF TypeInv
  <2>4. units[j] = [len |-> 0, data |-> units[j].data, pos |-> units[j].pos, slen |-> units[j].slen]
    BY <1>6 DEF CellOK, IsSeg
  <2>5. /\ units'[j] = [len |-> 0, data |-> units[j].data, pos |-> tail + 1, slen |-> units[j].slen]
        /\ \A c \in Cells : c # j => units'[c] = units[c]
        /\ units' = [c \in Cells |-> units'[c]]
    <3>1. units' = [units EXCEPT ![j] = [units[j] EXCEPT !.pos = tail + 1]]
      BY <1>4, <2>1, <2>2, <2>3
    <3>2. [units[j] EXCEPT !.pos = tail + 1]
            = [len |-> 0, data |-> units[j].data, pos |-> tail + 1, slen |-> units[j].slen]
      BY <2>4
    <3>3. QED BY <2>3, <3>1, <3>2
  <2>6. IsSeg(j)' /\ Start(j)' = Base /\ Base' = tail + 1
    <3>1. IsSeg(j)' /\ Start(j)' = tail + 1 - units[j].slen
      <4>1. units'[j].len = 0 /\ units'[j].pos = tail + 1 /\ units'[j].slen = units[j].slen
        BY <2>5
      <4>2. QED BY <1>6, <4>1 DEF IsSeg, Start
    <3>2. Base' = tail + 1
      BY <1>1, <2>1 DEF Base
    <3>3. QED BY <2>2, <3>1, <3>2
  <2>7. \A c \in Cells : c # j => IsSeg(c)' = IsSeg(c) /\ Start(c)' = Start(c)
    BY <2>5 DEF IsSeg, Start
  <2>8. \A c \in Cells : Picked(c)' <=> Picked(c) \/ c = j
    BY <1>1, <1>3, <1>4, <2>1 DEF Picked
  <2>9. TypeInv'
    <3>1. phase \in Wide /\ phase' \in Wide
      BY <1>1, <2>1 DEF Wide
    <3>2. k' \in Int /\ k' >= -1 /\ k' < Count /\ tail' \in Nat /\ src' \in Nat
      BY <1>1, <1>3, <1>6, <2>1
    <3>3. QED BY <1>2, <1>7, <2>1, <2>5, <3>1, <3>2, TypeStep DEF TypeInv
  <2>10. CellInv'
    <3>1. SUFFICES ASSUME NEW c \in Cells
                   PROVE  CellOK(c)'
      BY <1>5 DEF CellInv
    <3>2. CASE c = j
      <4>1. /\ shape' = shape /\ scalar' = scalar /\ Role(c)' = Role(c) /\ DataOf(c)' = DataOf(c)
            /\ last' = last /\ size' = size
        BY <1>2, <1>5
      <4>2. /\ scalar[Role(j) + 1] = 0 /\ shape[j].len \in Nat \ {0}
            /\ (shape[j].low = 3 => shape[j].len >= 4)
        BY <1>6 DEF CellOK, IsSeg
      <4>3. tail + 1 \in Nat /\ tail + 1 <= size /\ last <= Start(j)'
        BY <1>6, <2>6
      <4>4. QED BY <1>6, <2>5, <3>2, <4>1, <4>2, <4>3 DEF CellOK
    <3>3. CASE c # j
      <4>1. CellOK(c) /\ units'[c] = units[c] /\ shape'[c] = shape[c] /\ size' = size
        BY <1>2, <1>8, <2>5, <3>3
      <4>2. QED BY <1>1, <1>2, <4>1, CellKept
    <3>4. QED BY <3>2, <3>3
  <2>11. OrderInv'
    <3>1. SUFFICES ASSUME NEW c \in Cells, NEW d \in Cells, c < d, IsSeg(c)', IsSeg(d)'
                   PROVE  units'[d].pos <= Start(c)'
      BY <1>5 DEF OrderInv
    <3>2. CASE c = j
      <4>1. d # j /\ units'[d] = units[d] /\ IsSeg(d)
        BY <1>3, <2>5, <2>7, <3>1, <3>2
      <4>2. QED BY <1>6, <2>6, <3>1, <3>2, <4>1
    <3>3. CASE d = j
      <4>1. c # j /\ IsSeg(c) /\ Start(c)' = Start(c)
        BY <1>3, <2>7, <3>1, <3>3
      <4>2. units[j].pos <= Start(c)
        BY <1>6, <3>1, <3>3, <4>1
      <4>3. Start(c) \in Nat
        BY <1>8, <4>1, SegFacts
      <4>4. tail + 1 <= Start(c)
        BY <1>6, <4>2, <4>3
      <4>5. QED BY <2>5, <3>3, <4>1, <4>4
    <3>4. CASE c # j /\ d # j
      BY <1>8, <2>5, <2>7, <3>1, <3>4 DEF OrderInv
    <3>5. QED BY <3>2, <3>3, <3>4
  <2>12. TailInv'
    <3>1. last' <= Base' /\ Base' <= size'
      BY <1>2, <1>5, <1>6, <2>6
    <3>2. ASSUME NEW c \in Cells, IsSeg(c)'
          PROVE  IF Picked(c)' THEN units'[c].pos <= Base' ELSE Base' <= Start(c)'
      <4>1. CASE c = j
        BY <1>6, <2>5, <2>6, <2>8, <4>1
      <4>2. CASE c > j
        <5>1. c # j /\ IsSeg(c) /\ units'[c] = units[c] /\ Picked(c)'
          BY <1>1, <1>3, <1>4, <2>5, <2>7, <2>8, <3>2, <4>2 DEF Picked
        <5>2. units[c].pos <= Base /\ units[c].pos \in Nat
          BY <1>6, <1>8, <4>2, <5>1 DEF CellOK
        <5>3. QED BY <1>6, <2>6, <5>1, <5>2
      <4>3. CASE c < j
        <5>1. c # j /\ IsSeg(c) /\ Start(c)' = Start(c) /\ ~Picked(c)'
          BY <1>1, <1>3, <1>4, <2>7, <2>8, <3>2, <4>3 DEF Picked
        <5>2. units[j].pos <= Start(c) /\ Start(c) \in Nat
          BY <1>6, <1>8, <4>3, <5>1, SegFacts
        <5>3. tail + 1 <= Start(c)
          BY <1>6, <5>2
        <5>4. QED BY <2>6, <5>1, <5>3
      <4>4. c = j \/ c > j \/ c < j
        BY <1>3
      <4>5. QED BY <4>1, <4>2, <4>3, <4>4, Zenon
    <3>3. QED BY <1>5, <3>1, <3>2 DEF TailInv
  <2>13. TightInv'
    <3>1. Picked(j)' /\ IsSeg(j)'
      BY <2>6, <2>8
    <3>2. ASSUME NEW c \in Cells, Picked(c)', IsSeg(c)', \A d \in Cells : c < d => ~IsSeg(d)'
          PROVE  Start(c)' = last
      <4>1. c >= j
        BY <1>1, <1>3, <1>4, <2>8, <3>2 DEF Picked
      <4>2. \A d \in Cells : c < d => ~IsSeg(d)
        <5>1. \A d \in Cells : c < d => d # j
          BY <1>3, <4>1
        <5>2. QED BY <2>7, <3>2, <5>1
      <4>3. CASE c = j
        <5>1. \A d \in Cells : Picked(d) => ~IsSeg(d)
          BY <1>1, <1>4, <4>2, <4>3 DEF Picked
        <5>2. QED BY <1>1, <2>6, <4>3, <5>1 DEF TightInv, Wide
      <4>4. CASE c # j
        <5>1. Picked(c) /\ IsSeg(c) /\ Start(c)' = Start(c)
          BY <2>7, <2>8, <3>2, <4>4
        <5>2. QED BY <1>1, <4>2, <5>1 DEF TightInv, Wide
      <4>5. QED BY <4>3, <4>4
    <3>3. QED BY <1>5, <3>1, <3>2 DEF TightInv
  <2>14. FitInv'
    <3>1. \A c \in Cells : units'[c].len = units[c].len
      BY <1>6, <2>5 DEF IsSeg
    <3>2. QED BY <1>1, <1>2, <1>5, <2>1, <3>1 DEF FitInv, Wide
  <2>15. SegmentsIntact'
    <3>1. SUFFICES ASSUME NEW c \in Cells, units'[c].len = 0, NEW w \in 1 .. shape[c].len
                   PROVE  mem'[units'[c].pos - w + 1] = DataOf(c)[w]
      BY <1>2, <1>5 DEF SegmentsIntact
    <3>2. CASE c = j
      <4>1. w \in 1 .. units[j].slen /\ ~(w < units[j].pos - src) /\ Base + units[j].slen - w + 1 = tail + 1 - w + 1
        BY <1>6, <2>2, <3>1, <3>2
      <4>2. DataOf(j)[w] = mem'[Base + units[j].slen - w + 1]
        BY <1>7, <4>1
      <4>3. units'[c].pos = tail + 1
        BY <2>5, <3>2
      <4>4. mem'[tail + 1 - w + 1] = DataOf(j)[w]
        BY <4>1, <4>2
      <4>5. QED BY <1>6, <3>2, <4>3, <4>4
    <3>3. CASE c # j
      BY <1>7, <2>5, <3>1, <3>3 DEF IsSeg
    <3>4. QED BY <3>2, <3>3
  <2>16. QED BY <1>9, <2>1, <2>9, <2>10, <2>11, <2>12, <2>13, <2>14, <2>15
          DEF MoveInv, ScalarInv, MarkInv
<1>13. QED BY <1>11, <1>12

\* Steps that change the buffer only above the segments keep them.
LEMMA KeptBelow ==
  ASSUME IInv, phase \in Wide, phase' \in {"mark", "done"}, phase # "move",
         UNCHANGED <<input, units, shape, sizes, tail, src, width>>,
         NEW b \in Nat, tail <= b, b <= size', size' \in Nat,
         mem' = [p \in 1 .. size' |-> mem'[p]],
         \A p \in 1 .. b : mem'[p] = mem[p],
         k' \in Int, k' >= -1, k' < Count, phase' = "done" => k' = -1,
         \A c \in Cells : Picked(c)
  PROVE  /\ TypeInv' /\ CellInv' /\ OrderInv' /\ TailInv' /\ MoveInv' /\ FitInv' /\ ScalarInv'
         /\ TightInv' /\ SegmentsIntact' /\ OldContentKept'
         /\ Cells' = Cells /\ Count' = Count
         /\ \A c \in Cells : DataOf(c)' = DataOf(c) /\ Place(c)' = Place(c)
         /\ \A c \in Cells : IsSeg(c)' = IsSeg(c)
         /\ \A c \in Nat : Off(c)' = Off(c)
<1> USE DEF IInv
<1>1. /\ Cells' = Cells /\ Count' = Count /\ Cells \subseteq Nat /\ Count \in Nat
      /\ \A c \in Cells : Role(c)' = Role(c) /\ DataOf(c)' = DataOf(c) /\ W(c)' = W(c)
      /\ \A c \in Nat : Off(c)' = Off(c)
      /\ kind' = kind /\ n' = n /\ last' = last /\ scalar' = scalar
  BY Frame, CellFacts DEF input, TypeInv
<1>2. \A c \in Cells : Serialized(c) /\ Serialized(c)' /\ CellOK(c)
  BY DEF Serialized, CellInv, Wide
<1>3. \A c \in Cells : IsSeg(c)' = IsSeg(c) /\ Start(c)' = Start(c) /\ Picked(c)'
  BY DEF IsSeg, Start, Picked
<1>4. Base = tail /\ Base' = tail /\ tail \in Nat /\ last \in Nat
  BY DEF Base, TypeInv
<1>5. last <= tail /\ \A c \in Cells : IsSeg(c) => units[c].pos <= tail
  BY <1>4 DEF TailInv
<1>6. last <= size' /\ tail <= size'
  BY <1>4, <1>5
<1>7. TypeInv'
  <2>1. phase' \in Wide /\ phase' # "move"
    BY DEF Wide
  <2>2. QED BY <1>6, <2>1, TypeStep DEF TypeInv
<1>8. CellInv'
  <2>1. SUFFICES ASSUME NEW c \in Cells
                 PROVE  CellOK(c)'
    BY <1>1 DEF CellInv
  <2>2. CellOK(c) /\ Role(c)' = Role(c) /\ DataOf(c)' = DataOf(c) /\ Start(c)' = Start(c)
    BY <1>1, <1>2, <1>3
  <2>3. QED BY <1>1, <2>2 DEF CellOK
<1>9. OrderInv'
  BY <1>1, <1>2, <1>3 DEF OrderInv
<1>10. TailInv'
  BY <1>1, <1>3, <1>4, <1>5, <1>6 DEF TailInv
<1>11. TightInv'
  BY <1>1, <1>3, <1>4 DEF TightInv
<1>12. FitInv'
  BY <1>1 DEF FitInv, Wide
<1>13. MoveInv' /\ ScalarInv'
  BY DEF MoveInv, ScalarInv
<1>14. SegmentsIntact'
  <2>1. SUFFICES ASSUME NEW c \in Cells, units[c].len = 0, NEW w \in 1 .. shape[c].len
                 PROVE  mem'[units[c].pos - w + 1] = DataOf(c)[w]
    BY <1>1 DEF SegmentsIntact
  <2>2. mem[units[c].pos - w + 1] = DataOf(c)[w]
    BY <1>2, <2>1 DEF SegmentsIntact
  <2>3. /\ units[c].pos \in Nat /\ units[c].slen \in Nat /\ units[c].slen = shape[c].len
        /\ Start(c) \in Nat /\ Start(c) = units[c].pos - units[c].slen /\ units[c].pos <= tail
    BY <1>2, <1>5, <2>1, SegFacts DEF IsSeg
  <2>4. units[c].pos - w + 1 \in 1 .. b
    <3>1. PICK x \in Nat, y \in Nat : x = units[c].pos /\ y = units[c].slen
      BY <2>3
    <3>2. w \in 1 .. y /\ x - y >= 0 /\ x <= tail
      BY <2>3, <3>1
    <3>3. x - w + 1 \in 1 .. b
      BY <1>4, <3>2
    <3>4. QED BY <3>1, <3>3
  <2>5. QED BY <2>2, <2>4
<1>15. OldContentKept'
  BY <1>1, <1>4, <1>5, <1>6 DEF OldContentKept, OldWord
<1>16. \A c \in Cells : Place(c)' = Place(c)
  BY <1>1 DEF Place
<1>17. QED BY <1>1, <1>3, <1>7, <1>8, <1>9, <1>10, <1>11, <1>12, <1>13, <1>14, <1>15, <1>16

LEMMA ShrinkInv ==
  ASSUME IInv, Shrink
  PROVE  IInv'
<1> USE DEF IInv
<1>1. /\ phase = "pick" /\ phase' = "mark" /\ k < 0 /\ k' = Count - 1 /\ size' = tail
      /\ mem' = [p \in 1 .. tail |-> mem[p]]
      /\ UNCHANGED <<input, units, shape, sizes, tail, src, width>>
  BY DEF Shrink
<1>2. Count \in Nat /\ tail \in Nat /\ Cells \subseteq Nat /\ k = -1 /\ n \in Nat
  <2>1. k \in Int /\ k >= -1 /\ n \in Nat /\ tail \in Nat
    BY TypeFacts
  <2>2. k = -1
    BY <1>1, <2>1
  <2>3. QED BY <2>1, <2>2, CellFacts
<1>3. \A c \in Cells : Picked(c)
  BY <1>1, <1>2 DEF Picked
<1>4. mem' = [p \in 1 .. size' |-> mem'[p]] /\ \A p \in 1 .. tail : mem'[p] = mem[p]
  BY <1>1
<1>5. phase \in Wide /\ phase' \in {"mark", "done"} /\ phase # "move" /\ phase' # "done"
  BY <1>1 DEF Wide
<1>6. k' \in Int /\ k' >= -1 /\ k' < Count /\ tail <= tail /\ tail <= size' /\ size' \in Nat
  BY <1>1, <1>2
<1>7. /\ TypeInv' /\ CellInv' /\ OrderInv' /\ TailInv' /\ MoveInv' /\ FitInv' /\ ScalarInv'
      /\ TightInv' /\ SegmentsIntact' /\ OldContentKept'
      /\ Cells' = Cells /\ Count' = Count
      /\ \A c \in Nat : Off(c)' = Off(c)
  BY <1>1, <1>2, <1>3, <1>4, <1>5, <1>6, KeptBelow
<1>8. MarkInv'
  <2>1. PICK m \in Nat : m = Count
    BY <1>2
  <2>2. Off(Count)' = Off(m) /\ Off(k + 1)' = Off(m)
    <3>1. Off(m)' = Off(m) /\ Count' = m /\ k' + 1 = m
      BY <1>1, <1>7, <2>1
    <3>2. QED BY <3>1 DEF Off
  <2>3. Off(m) \in Nat
    BY <2>1, OffStep DEF TypeInv
  <2>4. \A c \in Cells : ~(k' < c)
    BY <1>1, <1>2, CellFacts
  <2>5. QED BY <1>1, <1>2, <1>7, <2>2, <2>3, <2>4 DEF MarkInv
<1>9. QED BY <1>7, <1>8

\* The places of the cells, from the tail up to the body.
LEMMA PlaceFacts ==
  ASSUME IInv, phase \in Wide, NEW c \in Cells
  PROVE  /\ Place(c) \in Nat /\ W(c) \in 1 .. 3
         /\ tail <= Place(c) - W(c) /\ tail \in Nat
         /\ \A d \in Nat : d <= c => Place(c) <= tail + Off(Count) - Off(d)
         /\ Place(c) - W(c) = tail + Off(Count) - Off(c + 1)
<1> USE DEF IInv
<1>1. c \in Nat /\ c + 1 \in Nat /\ c + 1 <= Count /\ Count \in Nat /\ tail \in Nat
  <2>1. c \in Nat /\ c < Count /\ Count \in Nat
    BY CellFacts, TypeFacts
  <2>2. QED BY <2>1, TypeFacts
<1>2. n \in Nat /\ width \in [1 .. 2 -> 0 .. 3] /\ kind \in {"array", "map"}
  BY DEF TypeInv
<1>3. Off(c) \in Nat /\ Off(c + 1) = Off(c) + W(c) /\ Off(Count) \in Nat
  BY <1>1, <1>2, OffStep
<1>4. Off(c + 1) <= Off(Count)
  BY <1>1, <1>2, OffMonotone
<1>5. W(c) \in 1 .. 3
  BY WidthFacts
<1>6. Place(c) = tail + Off(Count) - Off(c)
  BY DEF Place
<1>7. \A d \in Nat : d <= c => Off(d) <= Off(c) /\ Off(d) \in Nat
  BY <1>1, <1>2, OffMonotone, OffStep
<1>8. QED BY <1>1, <1>3, <1>4, <1>5, <1>6, <1>7

LEMMA MarkStepInv ==
  ASSUME IInv, Mark
  PROVE  IInv'
<1> USE DEF IInv
<1>1. /\ phase = "mark" /\ phase' = "mark" /\ k >= 0 /\ k' = k - 1
      /\ UNCHANGED <<input, units, shape, sizes, tail, src, width>>
  BY DEF Mark
<1>2. Count \in Nat /\ tail \in Nat /\ size \in Nat /\ Cells \subseteq Nat /\ k \in Cells /\ k \in Nat /\ k < Count
  BY <1>1, CellFacts, TypeFacts
<1>3. PICK j \in Cells : j = k
  BY <1>2
<1>4. phase \in Wide /\ phase' \in {"mark", "done"} /\ phase # "move" /\ phase' # "done"
  BY <1>1 DEF Wide
<1>5. \A c \in Cells : Picked(c)
  BY <1>1 DEF Picked
<1>6. /\ Place(j) \in Nat /\ W(j) \in 1 .. 3 /\ tail <= Place(j) - W(j)
      /\ Place(j) - W(j) = tail + Off(Count) - Off(j + 1)
  BY <1>4, PlaceFacts
<1>7. size = Place(j) - W(j) /\ tail <= size
  BY <1>1, <1>3, <1>6 DEF MarkInv
<1>8. size + W(j) = Place(j)
  BY <1>2, <1>6, <1>7
<1> DEFINE u == units[j]
           Word(w) == IF w <= u.len THEN u.data[w]
                      ELSE IF u.len = 0 /\ w = 1 THEN Offset(Place(j) - u.pos) ELSE Pad
<1>9. /\ size' = Place(j)
      /\ mem' = [p \in 1 .. Place(j) |->
                   IF p \in size + 1 .. Place(j) \/ p \in Place(j) - u.len + 1 .. Place(j)
                     THEN Word(Place(j) - p + 1) ELSE mem[p]]
  BY <1>3, <1>8 DEF Mark
<1>10. CellOK(j) /\ u.len \in Nat /\ u.len <= W(j)
  BY <1>1, <1>4 DEF CellInv, CellOK, Serialized, FitInv
<1> HIDE DEF u, Word
<1>11. \A p \in 1 .. size : mem'[p] = mem[p]
  <2>1. SUFFICES ASSUME NEW p \in 1 .. size
                 PROVE  mem'[p] = mem[p]
    OBVIOUS
  <2>2. PICK t \in Nat, v \in Nat, l \in Nat : t = Place(j) /\ v = W(j) /\ l = u.len
    BY <1>6, <1>10
  <2>3. p \in 1 .. t /\ p \notin size + 1 .. t /\ p \notin t - l + 1 .. t
    BY <1>2, <1>6, <1>8, <1>10, <2>2
  <2>4. QED BY <1>9, <2>2, <2>3
<1>12. \A w \in 1 .. W(j) : mem'[Place(j) - w + 1] = Word(w)
  <2>1. SUFFICES ASSUME NEW w \in 1 .. W(j)
                 PROVE  mem'[Place(j) - w + 1] = Word(w)
    OBVIOUS
  <2>2. PICK p \in 1 .. Place(j) : p = Place(j) - w + 1 /\ p \in size + 1 .. Place(j)
    BY <1>2, <1>6, <1>7
  <2>3. Place(j) - p + 1 = w
    BY <1>6, <2>2
  <2>4. QED BY <1>9, <2>2, <2>3
<1>13. mem' = [p \in 1 .. size' |-> mem'[p]]
  BY <1>9
<1>14. k' \in Int /\ k' >= -1 /\ k' < Count /\ size <= size' /\ size' \in Nat
  BY <1>1, <1>2, <1>6, <1>7, <1>9
<1>15. /\ TypeInv' /\ CellInv' /\ OrderInv' /\ TailInv' /\ MoveInv' /\ FitInv' /\ ScalarInv'
       /\ TightInv' /\ SegmentsIntact' /\ OldContentKept'
       /\ Cells' = Cells /\ Count' = Count
       /\ \A c \in Cells : DataOf(c)' = DataOf(c) /\ Place(c)' = Place(c)
       /\ \A c \in Cells : IsSeg(c)' = IsSeg(c)
       /\ \A c \in Nat : Off(c)' = Off(c)
  BY <1>1, <1>2, <1>4, <1>5, <1>7, <1>11, <1>13, <1>14, KeptBelow
<1>16. MarkInv'
  <2>1. PICK m \in Nat : m = Count
    BY <1>2
  <2>2. Off(Count)' = Off(m) /\ Off(k + 1)' = Off(j)
    <3>1. Off(m)' = Off(m) /\ Count' = m /\ Off(j)' = Off(j) /\ k' + 1 = j
      BY <1>1, <1>2, <1>3, <1>15, <2>1
    <3>2. QED BY <3>1 DEF Off
  <2>3. size' = tail' + Off(Count)' - Off(k + 1)' + 0
    <3>1. Place(j) = tail + Off(m) - Off(j) /\ tail' = tail
      BY <1>1, <2>1 DEF Place
    <3>2. QED BY <1>6, <1>9, <2>2, <3>1
  <2>4. ASSUME NEW c \in Cells, k' < c
        PROVE  IF IsSeg(c) THEN mem'[Place(c)] = Offset(Place(c) - units[c].pos)
               ELSE \A w \in 1 .. units[c].len : mem'[Place(c) - w + 1] = DataOf(c)[w]
    <3>1. CASE c = j
      <4>1. CASE IsSeg(c)
        <5>1. u.len = 0 /\ 1 \in 1 .. W(j) /\ Place(j) - 1 + 1 = Place(j)
          BY <1>6, <3>1, <4>1 DEF IsSeg, u
        <5>2. Word(1) = Offset(Place(j) - u.pos)
          BY <5>1 DEF Word
        <5>3. mem'[Place(j)] = Word(1)
          BY <1>12, <5>1
        <5>4. QED BY <3>1, <4>1, <5>2, <5>3 DEF u
      <4>2. CASE ~IsSeg(c)
        <5>1. u.data = DataOf(j)
          BY <1>10, <3>1, <4>2 DEF IsSeg, CellOK, u
        <5>2. \A w \in 1 .. u.len : Word(w) = DataOf(j)[w] /\ w \in 1 .. W(j)
          BY <1>6, <1>10, <5>1 DEF Word
        <5>3. QED BY <1>12, <3>1, <4>2, <5>2 DEF u
      <4>3. QED BY <4>1, <4>2
    <3>2. CASE c # j
      <4>1. c \in Nat /\ j + 1 \in Nat /\ j + 1 <= c /\ k < c
        BY <1>1, <1>2, <1>3, <2>4, <3>2
      <4>2. /\ Place(c) \in Nat /\ W(c) \in 1 .. 3 /\ tail <= Place(c) - W(c)
            /\ Place(c) <= size
        BY <1>4, <1>6, <1>7, <4>1, PlaceFacts
      <4>3. units[c].len <= W(c) /\ units[c].len \in Nat
        BY <1>1, <1>4 DEF FitInv, CellInv, CellOK, Serialized
      <4>4. Place(c) \in 1 .. size /\ \A w \in 1 .. units[c].len : Place(c) - w + 1 \in 1 .. size
        BY <1>2, <4>2, <4>3
      <4>5. IF IsSeg(c) THEN mem[Place(c)] = Offset(Place(c) - units[c].pos)
            ELSE \A w \in 1 .. units[c].len : mem[Place(c) - w + 1] = DataOf(c)[w]
        BY <1>1, <4>1 DEF MarkInv
      <4>6. QED BY <1>11, <4>4, <4>5
    <3>3. QED BY <3>1, <3>2
  <2>5. QED BY <1>1, <1>15, <2>3, <2>4 DEF MarkInv
<1>17. QED BY <1>15, <1>16

LEMMA PutHeaderInv ==
  ASSUME IInv, PutHeader
  PROVE  IInv'
<1> USE DEF IInv
<1>1. /\ phase = "mark" /\ phase' = "done" /\ k < 0 /\ k' = k
      /\ UNCHANGED <<input, units, shape, sizes, tail, src, width>>
  BY DEF PutHeader
<1>2. Count \in Nat /\ tail \in Nat /\ size \in Nat /\ Cells \subseteq Nat /\ k = -1 /\ n \in Nat
  BY <1>1, CellFacts, TypeFacts
<1>3. HeaderWords \in Nat \ {0} /\ HeaderWords' = HeaderWords
  BY <1>1, <1>2, IndexWordsFacts DEF HeaderWords, input
<1>4. phase \in Wide /\ phase' \in {"mark", "done"} /\ phase # "move"
  BY <1>1 DEF Wide
<1>5. \A c \in Cells : Picked(c)
  BY <1>1 DEF Picked
<1>6. size' = size + HeaderWords
  BY DEF PutHeader
<1>7. mem' = [p \in 1 .. size' |-> mem'[p]] /\ \A p \in 1 .. size : mem'[p] = mem[p]
  <2>1. PICK first : mem' = [p \in 1 .. size + HeaderWords |->
                               IF p \in size + 1 .. size + HeaderWords
                                 THEN IF p = size + HeaderWords THEN first ELSE <<"index", n, width, 0>>
                                 ELSE mem[p]]
    BY DEF PutHeader
  <2>2. PICK t \in Nat : t = size + HeaderWords /\ size <= t
    BY <1>2, <1>3
  <2>3. \A p \in 1 .. size : p \in 1 .. t /\ p \notin size + 1 .. t
    BY <1>2, <2>2
  <2>4. QED BY <1>6, <2>1, <2>2, <2>3
<1>8. k' \in Int /\ k' >= -1 /\ k' < Count /\ k' = -1 /\ size <= size' /\ size' \in Nat
  BY <1>1, <1>2, <1>3, <1>6
<1>9. tail <= size
  BY <1>1, <1>4 DEF TailInv, Base
<1>10. /\ TypeInv' /\ CellInv' /\ OrderInv' /\ TailInv' /\ MoveInv' /\ FitInv' /\ ScalarInv'
       /\ TightInv' /\ SegmentsIntact' /\ OldContentKept'
       /\ Cells' = Cells /\ Count' = Count
       /\ \A c \in Cells : DataOf(c)' = DataOf(c) /\ Place(c)' = Place(c)
       /\ \A c \in Cells : IsSeg(c)' = IsSeg(c)
       /\ \A c \in Nat : Off(c)' = Off(c)
  BY <1>1, <1>2, <1>4, <1>5, <1>7, <1>8, <1>9, KeptBelow
<1>11. MarkInv'
  <2>1. PICK m \in Nat : m = Count
    BY <1>2
  <2>2. Off(Count)' = Off(m) /\ Off(k + 1)' = Off(0)
    <3>1. Off(m)' = Off(m) /\ Count' = m /\ Off(0)' = Off(0) /\ k' + 1 = 0
      BY <1>1, <1>2, <1>10, <2>1
    <3>2. QED BY <3>1 DEF Off
  <2>3. size = tail + Off(m) - Off(0)
    <3>1. k + 1 = 0
      BY <1>2
    <3>2. Off(m) \in Nat /\ Off(0) \in Nat
      BY <1>2, OffStep DEF TypeInv
    <3>3. QED BY <1>1, <1>2, <2>1, <3>1, <3>2 DEF MarkInv
  <2>4. size' = tail' + Off(Count)' - Off(k + 1)' + HeaderWords'
    <3>1. Off(m) \in Nat /\ Off(0) \in Nat
      BY <1>2, OffStep DEF TypeInv
    <3>2. QED BY <1>1, <1>2, <1>3, <1>6, <2>2, <2>3, <3>1
  <2>5. ASSUME NEW c \in Cells, k' < c
        PROVE  IF IsSeg(c) THEN mem'[Place(c)] = Offset(Place(c) - units[c].pos)
               ELSE \A w \in 1 .. units[c].len : mem'[Place(c) - w + 1] = DataOf(c)[w]
    <3>1. 0 \in Nat /\ 0 <= c /\ k < c
      BY <1>2
    <3>2. /\ Place(c) \in Nat /\ W(c) \in 1 .. 3 /\ tail <= Place(c) - W(c)
          /\ Place(c) <= size
      BY <1>4, <2>1, <2>3, <3>1, PlaceFacts
    <3>3. units[c].len <= W(c) /\ units[c].len \in Nat
      BY <1>1, <1>4 DEF FitInv, CellInv, CellOK, Serialized
    <3>4. Place(c) \in 1 .. size /\ \A w \in 1 .. units[c].len : Place(c) - w + 1 \in 1 .. size
      BY <1>2, <3>2, <3>3
    <3>5. IF IsSeg(c) THEN mem[Place(c)] = Offset(Place(c) - units[c].pos)
          ELSE \A w \in 1 .. units[c].len : mem[Place(c) - w + 1] = DataOf(c)[w]
      BY <1>1, <3>1 DEF MarkInv
    <3>6. QED BY <1>7, <3>4, <3>5
  <2>6. QED BY <1>1, <1>10, <2>4, <2>5 DEF MarkInv
<1>12. QED BY <1>10, <1>11

LEMMA StutterInv ==
  ASSUME IInv, UNCHANGED vars
  PROVE  IInv'
<1>1. /\ kind' = kind /\ n' = n /\ scalar' = scalar /\ last' = last /\ mem' = mem /\ size' = size
      /\ units' = units /\ shape' = shape /\ k' = k /\ sizes' = sizes /\ tail' = tail
      /\ src' = src /\ width' = width /\ phase' = phase
  BY DEF vars
<1>2. Count' = Count /\ Cells' = Cells /\ HeaderWords' = HeaderWords
  BY <1>1 DEF Count, Cells, HeaderWords
<1>3. \A c : Role(c)' = Role(c) /\ DataOf(c)' = DataOf(c) /\ W(c)' = W(c) /\ Off(c)' = Off(c)
  BY <1>1 DEF Role, DataOf, W, Off
<1>4. \A c : /\ Serialized(c)' = Serialized(c) /\ IsSeg(c)' = IsSeg(c)
             /\ Start(c)' = Start(c) /\ Picked(c)' = Picked(c)
  BY <1>1 DEF Serialized, IsSeg, Start, Picked
<1>5. TypeInv' = TypeInv
  BY <1>1, <1>2 DEF TypeInv
<1>6. \A c : CellOK(c)' = CellOK(c)
  BY <1>1, <1>3, <1>4 DEF CellOK
<1>7. CellInv' = CellInv
  BY <1>2, <1>4, <1>6 DEF CellInv
<1>8. Base' = Base /\ \A c : Place(c)' = Place(c)
  BY <1>1, <1>2, <1>3 DEF Base, Place, Start, Off
<1>9. OrderInv' = OrderInv /\ TailInv' = TailInv /\ TightInv' = TightInv
  BY <1>1, <1>2, <1>4, <1>8 DEF OrderInv, TailInv, TightInv
<1>10. MoveInv' = MoveInv
  BY <1>1, <1>8 DEF MoveInv, IsSeg, Start, W, Role, DataOf
<1>11. FitInv' = FitInv /\ ScalarInv' = ScalarInv
  BY <1>1, <1>2, <1>3, <1>4 DEF FitInv, ScalarInv
<1>12. MarkInv' = MarkInv
  BY <1>1, <1>2, <1>3, <1>4, <1>8 DEF MarkInv, Off
<1>13. SegmentsIntact' = SegmentsIntact /\ OldContentKept' = OldContentKept
  BY <1>1, <1>2, <1>3, <1>4 DEF SegmentsIntact, OldContentKept, OldWord
<1>14. QED BY <1>5, <1>7, <1>9, <1>10, <1>11, <1>12, <1>13 DEF IInv

\* Every step keeps the invariant.
LEMMA StepInv ==
  ASSUME IInv, [Next]_vars
  PROVE  IInv'
<1>1. CASE UNCHANGED vars \/ Finished
  BY <1>1, StutterInv DEF Finished
<1>2. CASE Next
  BY <1>1, <1>2, SerializeEmptyInv, ElementInlineInv, ElementSegmentInv, CountStartInv,
     CountCellInv, ChooseWidthsInv, PickInlineInv, PickEmbedInv, PickStayInv, PickMoveInv,
     MoveWordInv, ShrinkInv, MarkStepInv, PutHeaderInv DEF Next
<1>3. QED BY <1>1, <1>2

-----------------------------------------------------------------------------
(* The theorems.                                                           *)

\* The invariant holds throughout.
THEOREM ContainerInvariant == Spec => []IInv
<1>1. Init => IInv
  BY InitInv
<1>2. IInv /\ [Next]_vars => IInv'
  BY StepInv
<1>3. QED BY <1>1, <1>2, PTL DEF Spec

\* While Pick compacts the segments in place (serialize.cc, Pick), no segment
\* loses a word before it has been copied, for any lengths of the elements.
THEOREM PickKeepsSegments == Spec => []SegmentsIntact
<1>1. IInv => SegmentsIntact
  BY DEF IInv
<1>2. QED BY <1>1, ContainerInvariant, PTL

\* SerializeArray and SerializeMap leave alone what the buffer held before
\* the first element.
THEOREM OldContentSafe == Spec => []OldContentKept
<1>1. IInv => OldContentKept
  BY DEF IInv
<1>2. QED BY <1>1, ContainerInvariant, PTL

\* Where the readers look in a finished container.
LEMMA DoneFacts ==
  ASSUME IInv, phase = "done"
  PROVE  /\ \A c \in Cells : CellPlace(c) = Place(c)
         /\ CellsEnd = tail /\ Off(Count) \in Nat
         /\ size = tail + Off(Count) + HeaderWords
<1>1. /\ n \in Nat /\ tail \in Nat /\ size \in Nat /\ kind \in {"array", "map"} /\ k = -1
      /\ width \in [1 .. 2 -> 0 .. 3]
  BY DEF IInv, TypeInv
<1>2. Count \in Nat /\ Cells \subseteq Nat
  BY <1>1, CellFacts
<1>3. PICK a \in 0 .. 3, b \in 0 .. 3 : width[1] = a /\ width[2] = b
  BY <1>1
<1>4. HeaderWords \in Nat
  BY <1>1, IndexWordsFacts DEF HeaderWords
<1>5. \A c \in Nat : Off(c) \in Nat
  BY <1>1, OffStep
<1>6. Off(0) = 0
  BY <1>1, OffZero
<1>7. size = tail + Off(Count) + HeaderWords
  <2>1. k + 1 = 0
    BY <1>1
  <2>2. size = tail + Off(Count) - Off(0) + HeaderWords
    BY <2>1 DEF IInv, MarkInv
  <2>3. QED BY <1>1, <1>2, <1>4, <1>5, <1>6, <2>2
<1>8. ASSUME NEW c \in Cells
      PROVE  CellPlace(c) = Place(c)
  <2>1. PICK t \in Nat : t = size - HeaderWords /\ t = tail + Off(Count)
    BY <1>1, <1>2, <1>4, <1>5, <1>7
  <2>2. Place(c) = t - Off(c) /\ c \in Nat
    <3>1. t = tail + Off(Count) /\ c \in Nat
      BY <1>2, <2>1
    <3>2. Place(c) = tail + Off(Count) - Off(c)
      BY DEF Place
    <3>3. QED BY <1>1, <1>2, <1>5, <3>1, <3>2
  <2>3. CASE kind = "map"
    <3>1. PICK x \in Nat, y \in Nat : x = (a + b) * (c \div 2) /\ y = (IF c % 2 = 1 THEN a ELSE 0)
      <4>1. c \div 2 \in Nat
        BY <2>2
      <4>2. (a + b) * (c \div 2) \in Nat
        BY <4>1
      <4>3. QED BY <4>2
    <3>2. Off(c) = x + y
      BY <1>3, <2>3, <3>1 DEF Off
    <3>3. CellPlace(c) = t - x - y
      BY <1>3, <2>1, <2>3, <3>1 DEF CellPlace
    <3>4. QED BY <2>2, <3>2, <3>3
  <2>4. CASE kind = "array"
    BY <2>1, <2>2, <2>4 DEF CellPlace, Off
  <2>5. QED BY <1>1, <2>3, <2>4
<1>9. CellsEnd = tail
  <2>1. CASE kind = "map"
    <3>1. Count = 2 * n /\ Count \div 2 = n /\ Count % 2 = 0
      BY <1>1, <2>1 DEF Count
    <3>2. Off(Count) = (a + b) * n
      <4>1. PICK m \in Nat : m = Count
        BY <1>2
      <4>2. Off(m) = (a + b) * (m \div 2) + (IF m % 2 = 1 THEN a ELSE 0)
        BY <1>3, <2>1 DEF Off
      <4>3. m \div 2 = n /\ m % 2 = 0
        BY <3>1, <4>1
      <4>4. (a + b) * n \in Nat
        BY <1>1
      <4>5. QED BY <4>1, <4>2, <4>3, <4>4
    <3>3. (a + b) * n = n * (a + b) /\ n * (a + b) \in Nat
      BY <1>1
    <3>4. CellsEnd = size - HeaderWords - n * (a + b)
      BY <1>3, <2>1 DEF CellsEnd
    <3>5. QED BY <1>1, <1>4, <1>7, <3>2, <3>3, <3>4
  <2>2. CASE kind = "array"
    <3>1. Off(Count) = b * n
      BY <1>3, <2>2 DEF Off, Count
    <3>2. b * n = n * b /\ n * b \in Nat
      BY <1>1
    <3>3. CellsEnd = size - HeaderWords - n * b
      BY <1>3, <2>2 DEF CellsEnd
    <3>4. QED BY <1>1, <1>4, <1>7, <3>1, <3>2, <3>3
  <2>3. QED BY <1>1, <2>1, <2>2
<1>10. QED BY <1>2, <1>5, <1>7, <1>8, <1>9

\* A reader follows an offset to the segment and stays at the cell for what is
\* embedded; an embedded object is not taken for an offset.
LEMMA FieldFacts ==
  ASSUME IInv, phase = "done", NEW c \in Cells
  PROVE  /\ IsSeg(c) => FieldPlace(c) = units[c].pos /\ scalar[Role(c) + 1] = 0
         /\ ~IsSeg(c) => FieldPlace(c) = Place(c)
<1>1. CellPlace(c) = Place(c) /\ CellOK(c) /\ k < c /\ phase \in Wide
  <2>1. c \in Nat /\ k = -1
    BY CellFacts DEF IInv, TypeInv
  <2>2. QED BY <2>1, DoneFacts DEF IInv, CellInv, Serialized, Wide
<1>2. Place(c) \in Nat /\ W(c) \in 1 .. 3
  BY <1>1, PlaceFacts
<1>3. CASE IsSeg(c)
  <2>1. mem[Place(c)] = Offset(Place(c) - units[c].pos)
    BY <1>1, <1>3 DEF IInv, MarkInv
  <2>2. Low(mem[Place(c)]) = 3 /\ Delta(mem[Place(c)]) = Place(c) - units[c].pos
    BY <2>1 DEF Offset, Low, Delta
  <2>3. scalar[Role(c) + 1] = 0 /\ units[c].pos \in Nat
    BY <1>1, <1>3 DEF CellOK, IsSeg
  <2>4. FieldPlace(c) = Place(c) - (Place(c) - units[c].pos)
    BY <1>1, <2>2, <2>3 DEF FieldPlace, GetObject
  <2>5. QED BY <1>2, <1>3, <2>3, <2>4
<1>4. CASE ~IsSeg(c) /\ scalar[Role(c) + 1] # 0
  BY <1>1, <1>4 DEF FieldPlace
<1>5. CASE ~IsSeg(c) /\ scalar[Role(c) + 1] = 0
  <2>1. /\ units[c].len = shape[c].len /\ shape[c].len \in Nat \ {0} /\ units[c].len <= W(c)
        /\ shape[c].low = 3 => shape[c].len >= 4
    BY <1>1, <1>5 DEF CellOK, IsSeg, IInv, FitInv
  <2>2. shape[c].low # 3 /\ 1 \in 1 .. units[c].len /\ 1 \in 1 .. shape[c].len
    BY <1>2, <2>1
  <2>3. mem[Place(c) - 1 + 1] = DataOf(c)[1]
    BY <1>1, <1>5, <2>2 DEF IInv, MarkInv
  <2>4. mem[Place(c)] = DataOf(c)[1]
    BY <1>2, <2>3
  <2>5. DataOf(c)[1] = DataWord(c, 1, shape[c].low)
    BY <2>2 DEF DataOf
  <2>6. Low(mem[Place(c)]) # 3
    BY <2>2, <2>4, <2>5 DEF Low, DataWord
  <2>7. QED BY <1>1, <1>5, <2>6 DEF FieldPlace, GetObject
<1>6. QED BY <1>3, <1>4, <1>5

\* Every element, key and value of a finished array or map reads back word
\* for word through Array::operator[], Map::Iterator and Field::GetObject.
THEOREM ContainerReadsBack == Spec => []ReadBack
<1>1. IInv => ReadBack
  <2>1. SUFFICES ASSUME IInv, phase = "done", NEW c \in Cells, NEW w \in 1 .. shape[c].len
                 PROVE  mem[FieldPlace(c) - w + 1] = DataOf(c)[w]
    BY DEF ReadBack
  <2>2. k < c /\ CellOK(c)
    <3>1. c \in Nat /\ k = -1
      BY <2>1, CellFacts DEF IInv, TypeInv
    <3>2. QED BY <2>1, <3>1 DEF IInv, CellInv, Serialized
  <2>3. CASE IsSeg(c)
    <3>1. mem[units[c].pos - w + 1] = DataOf(c)[w]
      BY <2>1, <2>3 DEF IInv, SegmentsIntact, Serialized, IsSeg
    <3>2. QED BY <2>1, <2>3, <3>1, FieldFacts
  <2>4. CASE ~IsSeg(c)
    <3>1. units[c].len = shape[c].len
      BY <2>2, <2>4 DEF CellOK, IsSeg
    <3>2. mem[Place(c) - w + 1] = DataOf(c)[w]
      BY <2>1, <2>2, <2>4, <3>1 DEF IInv, MarkInv
    <3>3. QED BY <2>1, <2>4, <3>2, FieldFacts
  <2>5. QED BY <2>3, <2>4
<1>2. QED BY <1>1, ContainerInvariant, PTL

\* A set of cells has a last one.
LEMMA LastCell ==
  ASSUME n \in Nat, NEW S \in SUBSET Cells, S # {}
  PROVE  Max(S) \in S /\ \A c \in S : c <= Max(S)
<1>1. Cells \subseteq Nat /\ Count \in Nat /\ \A c \in Cells : c < Count
  BY CellFacts
<1> DEFINE T == {Count - c : c \in S}
<1>2. T \subseteq Nat /\ T # {}
  BY <1>1
<1>3. PICK x \in T : \A y \in T : ~(<<y, x>> \in OpToRel(<, Nat))
  BY <1>2, WFMin, NatLessThanWellFounded
<1>4. PICK s \in S : x = Count - s
  OBVIOUS
<1>5. \A c \in S : c <= s
  <2>1. SUFFICES ASSUME NEW c \in S
                 PROVE  c <= s
    OBVIOUS
  <2>2. Count - c \in T /\ Count - c \in Nat /\ x \in Nat
    BY <1>2
  <2>3. ~(Count - c < x)
    BY <1>3, <2>2 DEF OpToRel
  <2>4. c \in Nat /\ s \in Nat
    BY <1>1
  <2>5. QED BY <1>1, <1>4, <2>3, <2>4
<1>6. \E m \in S : \A c \in S : m >= c
  BY <1>1, <1>5
<1>7. Max(S) \in S /\ \A c \in S : Max(S) >= c
  BY <1>6 DEF Max
<1>8. QED BY <1>1, <1>7

\* ArrayT::Detect and MapT::Detect stop at the first object, from the last
\* cell, that lies behind the cells: its end is where the container ends.
THEOREM DetectCorrect == Spec => []DetectIsExact
<1>1. IInv => DetectIsExact
  <2>1. SUFFICES ASSUME IInv, phase = "done"
                 PROVE  DetectEnd = last
    BY DEF DetectIsExact
  <2> DEFINE end(c) == FieldPlace(c) - shape[c].len
             out == {c \in Cells : scalar[Role(c) + 1] = 0 /\ end(c) < CellsEnd}
  <2>2. phase \in Wide /\ Base = tail /\ (\A c \in Cells : Picked(c)) /\ n \in Nat
    BY <2>1 DEF Wide, Base, Picked, IInv, TypeInv
  <2>3. CellsEnd = tail /\ tail \in Nat /\ TypeInv
    BY <2>1, DoneFacts DEF IInv, TypeInv
  <2>4. ASSUME NEW c \in Cells, IsSeg(c)
        PROVE  end(c) = Start(c) /\ c \in out
    <3>1. CellOK(c)
      BY <2>1 DEF IInv, CellInv, Serialized
    <3>2. /\ units[c].slen = shape[c].len /\ Start(c) = units[c].pos - units[c].slen
          /\ Start(c) < units[c].pos /\ Start(c) \in Nat /\ units[c].pos \in Nat
      BY <2>3, <2>4, <3>1, SegFacts
    <3>3. FieldPlace(c) = units[c].pos /\ scalar[Role(c) + 1] = 0
      BY <2>1, <2>4, FieldFacts
    <3>4. units[c].pos <= tail
      BY <2>1, <2>2, <2>4 DEF IInv, TailInv
    <3>5. end(c) = Start(c)
      BY <3>2, <3>3
    <3>6. Start(c) < tail
      BY <2>3, <3>2, <3>4
    <3>7. QED BY <2>3, <3>3, <3>5, <3>6
  <2>5. ASSUME NEW c \in Cells, ~IsSeg(c)
        PROVE  c \notin out
    <3>1. units[c].len = shape[c].len /\ units[c].len \in Nat /\ units[c].len <= W(c)
      BY <2>1, <2>2, <2>5 DEF IInv, CellInv, CellOK, Serialized, IsSeg, FitInv
    <3>2. Place(c) \in Nat /\ W(c) \in 1 .. 3 /\ tail <= Place(c) - W(c)
      BY <2>1, <2>2, PlaceFacts
    <3>3. FieldPlace(c) = Place(c)
      BY <2>1, <2>5, FieldFacts
    <3>4. PICK l \in Nat : l = shape[c].len /\ l <= W(c)
      BY <3>1
    <3>5. ~(Place(c) - l < tail)
      BY <2>3, <3>2, <3>4
    <3>6. QED BY <2>3, <3>3, <3>4, <3>5
  <2>6. DetectEnd = IF out = {} THEN CellsEnd ELSE end(Max(out))
    BY DEF DetectEnd
  <2> HIDE DEF end, out
  <2>7. CASE out = {}
    <3>1. \A c \in Cells : Picked(c) => ~IsSeg(c)
      BY <2>4, <2>7
    <3>2. Base = last
      BY <2>1, <2>2, <3>1 DEF IInv, TightInv
    <3>3. QED BY <2>2, <2>3, <2>6, <2>7, <3>2
  <2>8. CASE out # {}
    <3>1. out \in SUBSET Cells
      BY DEF out
    <3>2. PICK m \in Cells : m = Max(out) /\ m \in out /\ \A c \in out : c <= m
      BY <2>2, <2>8, <3>1, LastCell
    <3>3. IsSeg(m)
      BY <2>5, <3>2
    <3>4. \A d \in Cells : m < d => ~IsSeg(d)
      <4>1. Cells \subseteq Nat
        BY <2>2, CellFacts
      <4>2. QED BY <2>4, <3>2, <4>1
    <3>5. Start(m) = last
      BY <2>1, <2>2, <3>3, <3>4 DEF IInv, TightInv
    <3>6. QED BY <2>4, <2>6, <2>8, <3>2, <3>3, <3>5
  <2>9. QED BY <2>7, <2>8
<1>2. QED BY <1>1, ContainerInvariant, PTL

-----------------------------------------------------------------------------
(* The size.  BestArraySize adds up the cells from the first to the last,  *)
(* Pick and Mark handle them from the last to the first: a function that   *)
(* holds the sums after every cell connects the two.                       *)

\* What a cell adds to the sum for cells of m words.
Cost(c, m) == m + (IF shape[c].len > m THEN shape[c].len ELSE 0)

\* f holds the sums of BestArraySize after each of the first j cells.
Sums(f, j) ==
  /\ f \in [0 .. Count -> [1 .. 2 -> [1 .. 3 -> Nat]]]
  /\ \A r \in 1 .. 2 : \A m \in 1 .. 3 : f[0][r][m] = 0
  /\ \A c \in Nat : c < j =>
       \A r \in 1 .. 2 : \A m \in 1 .. 3 :
         f[c + 1][r][m] = f[c][r][m] + (IF Role(c) + 1 = r THEN Cost(c, m) ELSE 0)

\* What the first c cells need behind the cells.
Behind(f, c) ==
  (IF kind = "map" THEN f[c][1][width[1]] ELSE 0) + f[c][2][width[2]] - Off(c)

\* The sums for the chosen widths.
Best == (IF kind = "map" THEN sizes[1][width[1]] ELSE 0) + sizes[2][width[2]]

SizeInv ==
  /\ phase = "count" =>
       \E f : Sums(f, k) /\ \A r \in 1 .. 2 : \A m \in 1 .. 3 : sizes[r][m] = f[k][r][m]
  /\ phase \in Wide =>
       /\ \A r \in 1 .. 2 : ~(r = 1 /\ kind = "array") => width[r] = BestWidth(r - 1)
       /\ TotalSize < SizeLimit
  /\ phase \in {"pick", "move"} =>
       \E f : /\ Sums(f, Count)
              /\ \A r \in 1 .. 2 : \A m \in 1 .. 3 : sizes[r][m] = f[Count][r][m]
              /\ Base - last = Behind(f, Count) - Behind(f, k + 1)
  /\ phase \in {"mark", "done"} => tail - last = Best - Off(Count)

\* A cell needs words behind the cells exactly if it does not fit.
LEMMA BehindStep ==
  ASSUME IInv, phase \in Wide, NEW f, Sums(f, Count), NEW c \in Cells
  PROVE  /\ Behind(f, c) \in Int /\ Behind(f, c + 1) \in Int
         /\ Behind(f, c + 1) = Behind(f, c) + (IF shape[c].len > W(c) THEN shape[c].len ELSE 0)
<1> USE DEF IInv
<1>1. c \in Nat /\ c + 1 \in Nat /\ c < Count /\ Count \in Nat
  BY CellFacts, TypeFacts
<1>2. c \in 0 .. Count /\ c + 1 \in 0 .. Count
  BY <1>1
<1>3. Off(c) \in Nat /\ Off(c + 1) = Off(c) + W(c) /\ W(c) \in 1 .. 3
  BY <1>1, OffStep, WidthFacts DEF TypeInv
<1>4. shape[c].len \in Nat
  BY DEF CellInv, CellOK, Serialized, Wide
<1>5. width[2] \in 1 .. 3 /\ (kind = "map" => width[1] \in 1 .. 3)
  BY DEF TypeInv, FitInv
<1>6. f[c] \in [1 .. 2 -> [1 .. 3 -> Nat]] /\ f[c + 1] \in [1 .. 2 -> [1 .. 3 -> Nat]]
  BY <1>2 DEF Sums
<1>7. \A r \in 1 .. 2 : \A m \in 1 .. 3 :
        f[c + 1][r][m] = f[c][r][m] + (IF Role(c) + 1 = r THEN Cost(c, m) ELSE 0)
  BY <1>1 DEF Sums
<1> DEFINE l == IF shape[c].len > W(c) THEN shape[c].len ELSE 0
<1>8. l \in Nat /\ Cost(c, W(c)) = W(c) + l
  BY <1>3, <1>4 DEF Cost
<1> HIDE DEF l
<1>9. PICK y \in Nat, z \in Nat : y = f[c][2][width[2]] /\ z = f[c + 1][2][width[2]]
  BY <1>5, <1>6
<1>10. CASE Role(c) = 1
  <2>1. W(c) = width[2]
    BY <1>10 DEF W
  <2>2. z = y + W(c) + l
    <3>1. z = y + Cost(c, W(c))
      BY <1>5, <1>7, <1>9, <1>10, <2>1
    <3>2. QED BY <1>3, <1>8, <3>1
  <2>3. CASE kind = "map"
    <3>1. PICK x \in Nat : x = f[c][1][width[1]] /\ x = f[c + 1][1][width[1]]
      <4>1. f[c][1][width[1]] \in Nat
        BY <1>5, <1>6, <2>3
      <4>2. f[c + 1][1][width[1]] = f[c][1][width[1]] + 0
        BY <1>5, <1>7, <1>10, <2>3
      <4>3. QED BY <4>1, <4>2
    <3>2. Behind(f, c) = x + y - Off(c) /\ Behind(f, c + 1) = x + z - Off(c + 1)
      BY <1>9, <2>3, <3>1 DEF Behind
    <3>3. QED BY <1>3, <1>8, <2>2, <3>2 DEF l
  <2>4. CASE kind # "map"
    <3>1. Behind(f, c) = 0 + y - Off(c) /\ Behind(f, c + 1) = 0 + z - Off(c + 1)
      BY <1>9, <2>4 DEF Behind
    <3>2. QED BY <1>3, <1>8, <2>2, <3>1 DEF l
  <2>5. QED BY <2>3, <2>4
<1>11. CASE Role(c) = 0
  <2>1. W(c) = width[1] /\ kind = "map"
    BY <1>11 DEF W, Role
  <2>2. PICK x \in Nat, v \in Nat : x = f[c][1][width[1]] /\ v = f[c + 1][1][width[1]]
    BY <1>5, <1>6, <2>1
  <2>3. v = x + W(c) + l
    <3>1. v = x + Cost(c, W(c))
      BY <1>5, <1>7, <1>11, <2>1, <2>2
    <3>2. QED BY <1>3, <1>8, <3>1
  <2>4. z = y
    <3>1. z = y + 0
      BY <1>5, <1>7, <1>9, <1>11
    <3>2. QED BY <3>1
  <2>5. Behind(f, c) = x + y - Off(c) /\ Behind(f, c + 1) = v + z - Off(c + 1)
    BY <1>9, <2>1, <2>2 DEF Behind
  <2>6. QED BY <1>3, <1>8, <2>3, <2>4, <2>5 DEF l
<1>12. QED BY <1>10, <1>11, CellFacts, TypeFacts

\* The sums do not depend on what Pick and Mark change.
LEMMA SumsKept ==
  ASSUME UNCHANGED <<input, shape>>, NEW f, NEW j
  PROVE  Sums(f, j)' <=> Sums(f, j)
<1>1. Count' = Count /\ \A c : Role(c)' = Role(c) /\ \A m : Cost(c, m)' = Cost(c, m)
  BY DEF input, Count, Role, Cost
<1>2. QED BY <1>1 DEF Sums

\* The size, once the widths are chosen, only depends on the sums.
LEMMA BestKept ==
  ASSUME UNCHANGED <<input, sizes, width>>
  PROVE  /\ TotalSize' = TotalSize /\ Best' = Best
         /\ \A r \in 1 .. 2 : BestWidth(r - 1)' = BestWidth(r - 1)
BY DEF input, TotalSize, BestArraySize, BestWidth, Best

LEMMA SizeCountStart ==
  ASSUME IInv, SizeInv, CountStart
  PROVE  SizeInv'
<1>1. phase = "elements" /\ phase' = "count" /\ k' = 0 /\ UNCHANGED <<input, shape, sizes>>
  BY DEF CountStart
<1>2. Count' = Count /\ Count \in Nat
  BY <1>1, Frame, CellFacts DEF IInv, TypeInv
<1>3. \A r \in 1 .. 2 : \A m \in 1 .. 3 : sizes'[r][m] = 0
  BY <1>1 DEF IInv, ScalarInv
<1>4. PICK z \in [1 .. 2 -> [1 .. 3 -> Nat]] : \A r \in 1 .. 2 : \A m \in 1 .. 3 : z[r][m] = 0
  <2> DEFINE y == [r \in 1 .. 2 |-> [m \in 1 .. 3 |-> 0]]
  <2>1. y \in [1 .. 2 -> [1 .. 3 -> Nat]] /\ \A r \in 1 .. 2 : \A m \in 1 .. 3 : y[r][m] = 0
    OBVIOUS
  <2>2. QED BY <2>1
<1>5. PICK f : f \in [0 .. Count -> [1 .. 2 -> [1 .. 3 -> Nat]]] /\ f[0] = z
  <2> DEFINE y == [c \in 0 .. Count |-> z]
  <2>1. y \in [0 .. Count -> [1 .. 2 -> [1 .. 3 -> Nat]]] /\ y[0] = z
    BY <1>2
  <2>2. QED BY <2>1
<1>6. Sums(f, 0)'
  <2>1. \A c \in Nat : ~(c < 0)
    OBVIOUS
  <2>2. QED BY <1>2, <1>4, <1>5, <2>1 DEF Sums
<1>7. Sums(f, k)' /\ \A r \in 1 .. 2 : \A m \in 1 .. 3 : sizes'[r][m] = f[k'][r][m]
  <2>1. Sums(f, k)'
    BY <1>1, <1>6 DEF Sums
  <2>2. f[k'] = z
    BY <1>1, <1>5
  <2>3. ASSUME NEW r \in 1 .. 2, NEW m \in 1 .. 3
        PROVE  sizes'[r][m] = f[k'][r][m]
    <3>1. sizes'[r][m] = 0
      BY <1>3
    <3>2. z[r][m] = 0
      BY <1>4
    <3>3. QED BY <2>2, <3>1, <3>2
  <2>4. QED BY <2>1, <2>3
<1>8. phase' \notin Wide /\ phase' \notin {"pick", "move"} /\ phase' \notin {"mark", "done"}
  BY <1>1 DEF Wide
<1>9. (\E g : Sums(g, k) /\ \A r \in 1 .. 2 : \A m \in 1 .. 3 : sizes[r][m] = g[k][r][m])'
  BY <1>7
<1>10. QED BY <1>8, <1>9 DEF SizeInv

LEMMA SizeCountCell ==
  ASSUME IInv, SizeInv, CountCell
  PROVE  SizeInv'
<1> USE DEF IInv
<1>1. phase = "count" /\ phase' = "count" /\ k' = k + 1 /\ k < Count /\ UNCHANGED <<input, shape, units>>
  BY DEF CountCell
<1>2. PICK j \in Nat : j = k
  BY <1>1 DEF TypeInv
<1>3. /\ Count' = Count /\ Count \in Nat /\ j \in Cells /\ j < Count /\ Role(j) \in 0 .. 1
      /\ sizes \in [1 .. 2 -> [1 .. 3 -> Nat]]
  BY <1>1, <1>2, Frame, CellFacts, TypeFacts
<1>4. PICK f : Sums(f, j) /\ \A r \in 1 .. 2 : \A m \in 1 .. 3 : sizes[r][m] = f[j][r][m]
  BY <1>1, <1>2 DEF SizeInv
<1>5. PICK l \in Nat : l = UnitSize(units[j]) /\ l = shape[j].len
  BY <1>1, <1>3 DEF UnitSize, CellInv, CellOK, Serialized
<1>6. PICK q \in 1 .. 2 : q = Role(j) + 1
  BY <1>3
<1>7. sizes' = [sizes EXCEPT ![q] = [m \in 1 .. 3 |-> @[m] + m + (IF l > m THEN l ELSE 0)]]
  BY <1>2, <1>5, <1>6 DEF CountCell
<1>8. /\ \A r \in 1 .. 2 : r # q => sizes'[r] = sizes[r]
      /\ \A m \in 1 .. 3 : sizes'[q][m] = sizes[q][m] + m + (IF l > m THEN l ELSE 0)
  BY <1>3, <1>7
<1>9. sizes' \in [1 .. 2 -> [1 .. 3 -> Nat]]
  <2>1. [m \in 1 .. 3 |-> sizes[q][m] + m + (IF l > m THEN l ELSE 0)] \in [1 .. 3 -> Nat]
    BY <1>3
  <2>2. QED BY <1>3, <1>7, <2>1
<1>10. \A r \in 1 .. 2 : \A m \in 1 .. 3 :
         sizes'[r][m] = sizes[r][m] + (IF Role(j) + 1 = r THEN Cost(j, m) ELSE 0)
  <2>1. SUFFICES ASSUME NEW r \in 1 .. 2, NEW m \in 1 .. 3
                 PROVE  sizes'[r][m] = sizes[r][m] + (IF q = r THEN Cost(j, m) ELSE 0)
    BY <1>6
  <2>2. sizes[r][m] \in Nat
    BY <1>3
  <2>3. Cost(j, m) = m + (IF l > m THEN l ELSE 0)
    BY <1>5 DEF Cost
  <2>4. CASE r = q
    BY <1>8, <2>2, <2>3, <2>4
  <2>5. CASE r # q
    BY <1>8, <2>2, <2>5
  <2>6. QED BY <2>4, <2>5
<1>11. PICK s : s = sizes'
  OBVIOUS
<1> DEFINE g == [f EXCEPT ![j + 1] = s]
<1>12. f \in [0 .. Count -> [1 .. 2 -> [1 .. 3 -> Nat]]] /\ j + 1 \in 0 .. Count /\ j \in 0 .. Count
  <2>1. f \in [0 .. Count -> [1 .. 2 -> [1 .. 3 -> Nat]]]
    BY <1>4 DEF Sums
  <2>2. PICK C \in Nat : C = Count
    BY <1>3
  <2>3. j < C
    BY <1>3, <2>2
  <2>4. j + 1 \in 0 .. C /\ j \in 0 .. C
    BY <2>3
  <2>5. QED BY <2>1, <2>2, <2>4
<1>13. /\ g \in [0 .. Count -> [1 .. 2 -> [1 .. 3 -> Nat]]] /\ g[j + 1] = s
       /\ \A c \in 0 .. Count : c # j + 1 => g[c] = f[c]
  BY <1>9, <1>11, <1>12
<1> HIDE DEF g
<1>14. Sums(g, j + 1)
  <2>1. \A r \in 1 .. 2 : \A m \in 1 .. 3 : g[0][r][m] = 0
    <3>1. 0 \in 0 .. Count /\ 0 # j + 1
      BY <1>3
    <3>2. g[0] = f[0]
      BY <1>13, <3>1
    <3>3. QED BY <1>4, <3>2 DEF Sums
  <2>2. ASSUME NEW c \in Nat, c < j + 1, NEW r \in 1 .. 2, NEW m \in 1 .. 3
        PROVE  g[c + 1][r][m] = g[c][r][m] + (IF Role(c) + 1 = r THEN Cost(c, m) ELSE 0)
    <3>1. c \in 0 .. Count /\ c # j + 1 /\ g[c] = f[c]
      <4>1. c \in 0 .. Count /\ c # j + 1
        BY <1>3, <2>2
      <4>2. QED BY <1>13, <4>1
    <3>2. CASE c = j
      BY <1>4, <1>10, <1>11, <1>13, <3>1, <3>2
    <3>3. CASE c # j
      <4>1. c < j /\ c + 1 \in 0 .. Count /\ c + 1 # j + 1
        BY <1>3, <2>2, <3>3
      <4>2. g[c + 1] = f[c + 1]
        BY <1>13, <4>1
      <4>3. QED BY <1>4, <2>2, <3>1, <4>1, <4>2 DEF Sums
    <3>4. QED BY <3>2, <3>3
  <2>3. QED BY <1>13, <2>1, <2>2 DEF Sums
<1>15. Sums(g, j + 1)'
  BY <1>1, <1>14, SumsKept
<1>16. Sums(g, k)' /\ \A r \in 1 .. 2 : \A m \in 1 .. 3 : sizes'[r][m] = g[k'][r][m]
  <2>1. k' = j + 1
    BY <1>1, <1>2
  <2>2. Sums(g, k)'
    BY <1>15, <2>1 DEF Sums
  <2>3. QED BY <1>11, <1>13, <2>1, <2>2
<1>17. QED BY <1>1, <1>16 DEF SizeInv, Wide

LEMMA SizeChooseWidths ==
  ASSUME IInv, SizeInv, ChooseWidths
  PROVE  SizeInv'
<1> USE DEF IInv
<1>1. phase = "count" /\ k = Count /\ phase' \in {"failed", "pick"}
  BY DEF ChooseWidths
<1>2. UNCHANGED <<input, shape, sizes>> /\ Count' = Count /\ Count \in Nat /\ last \in Nat
  BY Frame, CellFacts DEF ChooseWidths, TypeInv
<1>3. CASE phase' = "failed"
  BY <1>3 DEF SizeInv, Wide
<1>4. CASE phase' = "pick"
  <2>1. /\ width' = [r \in 1 .. 2 |-> IF r = 1 /\ kind = "array" THEN 0 ELSE BestWidth(r - 1)]
        /\ k' = Count - 1 /\ tail' = last /\ ~(TotalSize >= SizeLimit)
    BY <1>4 DEF ChooseWidths
  <2>2. /\ TotalSize' = TotalSize /\ kind' = kind /\ last' = last
        /\ \A r \in 1 .. 2 : BestWidth(r - 1)' = BestWidth(r - 1)
    BY <1>2 DEF input, TotalSize, BestArraySize, BestWidth
  <2>3. \A r \in 1 .. 2 : ~(r = 1 /\ kind = "array") => width'[r] = BestWidth(r - 1)
    BY <2>1
  <2>4. TotalSize < SizeLimit
    <3>1. \A r \in 1 .. 2 : BestWidth(r - 1) \in 1 .. 3
      BY BestWidthFacts DEF TypeInv
    <3>2. BestWidth(0) \in 1 .. 3 /\ BestWidth(1) \in 1 .. 3
      <4>1. BestWidth(1 - 1) \in 1 .. 3 /\ BestWidth(2 - 1) \in 1 .. 3
        BY <3>1
      <4>2. 1 - 1 = 0 /\ 2 - 1 = 1
        OBVIOUS
      <4>3. QED BY <4>1, <4>2
    <3>3. BestArraySize(0) \in Nat /\ BestArraySize(1) \in Nat
      BY <3>2, TypeFacts DEF BestArraySize
    <3>4. IndexWords(n) \in Nat
      BY IndexWordsFacts DEF TypeInv
    <3>5. TotalSize \in Nat
      BY <3>3, <3>4 DEF TotalSize
    <3>6. QED BY <2>1, <3>5, BoundsAssumption
  <2>5. PICK C \in Nat : C = Count
    BY <1>2
  <2>6. PICK f : Sums(f, C) /\ \A r \in 1 .. 2 : \A m \in 1 .. 3 : sizes[r][m] = f[C][r][m]
    BY <1>1, <2>5 DEF SizeInv
  <2>7. Sums(f, C)' /\ Sums(f, Count)'
    <3>1. Sums(f, C)'
      BY <1>2, <2>6, SumsKept
    <3>2. QED BY <1>2, <2>5, <3>1 DEF Sums
  <2>8. Base' = last
    BY <1>4, <2>1 DEF Base
  <2>9. k' + 1 = C /\ Count' = C
    BY <1>2, <2>1, <2>5
  <2>10. Behind(f, C)' \in Int
    <3>1. PICK x \in 0 .. 3, y \in 1 .. 3 : width'[1] = x /\ width'[2] = y /\ (kind = "map" => x \in 1 .. 3)
      <4>1. \A r \in 1 .. 2 : BestWidth(r - 1) \in 1 .. 3
        BY BestWidthFacts DEF TypeInv
      <4>2. width'[1] \in 0 .. 3 /\ width'[2] \in 1 .. 3 /\ (kind = "map" => width'[1] \in 1 .. 3)
        BY <2>1, <4>1
      <4>3. QED BY <4>2
    <3>2. f[C] \in [1 .. 2 -> [1 .. 3 -> Nat]]
      BY <2>5, <2>6 DEF Sums
    <3>3. PICK s \in Int : s = Off(C)'
      <4>1. (x + y) * (C \div 2) \in Int /\ y * C \in Int
        BY <3>1
      <4>2. QED BY <2>2, <3>1, <4>1 DEF Off
    <3>4. f[C][2][y] \in Nat /\ (kind = "map" => f[C][1][x] \in Nat)
      BY <3>1, <3>2
    <3>5. Behind(f, C)' = (IF kind = "map" THEN f[C][1][x] ELSE 0) + f[C][2][y] - s
      BY <2>2, <3>1, <3>3 DEF Behind
    <3>6. QED BY <3>4, <3>5
  <2>11. (Base - last = Behind(f, Count) - Behind(f, k + 1))'
    <3>1. Behind(f, Count)' = Behind(f, C)' /\ Behind(f, k + 1)' = Behind(f, C)'
      BY <2>9 DEF Behind, Off
    <3>2. QED BY <1>2, <2>2, <2>8, <2>10, <3>1
  <2>12. (\A r \in 1 .. 2 : \A m \in 1 .. 3 : sizes[r][m] = f[Count][r][m])'
    BY <1>2, <2>6, <2>9
  <2>13. (\E g : /\ Sums(g, Count)
                 /\ \A r \in 1 .. 2 : \A m \in 1 .. 3 : sizes[r][m] = g[Count][r][m]
                 /\ Base - last = Behind(g, Count) - Behind(g, k + 1))'
    BY <2>7, <2>11, <2>12
  <2>14. (\A r \in 1 .. 2 : ~(r = 1 /\ kind = "array") => width[r] = BestWidth(r - 1))'
         /\ (TotalSize < SizeLimit)'
    BY <2>2, <2>3, <2>4
  <2>15. QED BY <1>4, <2>13, <2>14 DEF SizeInv
<1>5. QED BY <1>1, <1>3, <1>4

\* A step of Pick on cell j: the tail moves by what the cell needs.
LEMMA SizePickStep ==
  ASSUME IInv, SizeInv, phase \in {"pick", "move"}, phase' \in {"pick", "move"},
         UNCHANGED <<input, shape, sizes, width>>, NEW j \in Cells, j = k,
         \/ k' = k /\ Base' = Base
         \/ /\ k' = k - 1
            /\ Base' = Base + (IF shape[j].len > W(j) THEN shape[j].len ELSE 0)
  PROVE  SizeInv'
<1>1. phase \in Wide /\ Count' = Count /\ Count \in Nat /\ j \in Nat /\ last \in Nat /\ last' = last
  BY Frame, CellFacts DEF IInv, TypeInv, Wide, input
<1>2. PICK C \in Nat : C = Count
  BY <1>1
<1>3. PICK f : /\ Sums(f, Count)
               /\ \A r \in 1 .. 2 : \A m \in 1 .. 3 : sizes[r][m] = f[Count][r][m]
               /\ Base - last = Behind(f, Count) - Behind(f, k + 1)
  BY DEF SizeInv
<1>4. PICK e \in Int, t \in Nat : e = Base /\ t = last
  <2>1. CASE phase = "move"
    BY <1>1, <2>1, MoveFacts
  <2>2. CASE phase = "pick"
    BY <1>1, <2>2 DEF Base, IInv, TypeInv
  <2>3. QED BY <2>1, <2>2
<1>5. \A c \in Nat : Behind(f, c)' = Behind(f, c)
  BY Frame DEF Behind, input
<1>6. PICK l \in Nat : l = IF shape[j].len > W(j) THEN shape[j].len ELSE 0
  BY <1>1 DEF IInv, CellInv, CellOK, Serialized, Wide
<1>7. PICK x \in Int, y \in Int : x = Behind(f, j) /\ y = Behind(f, j + 1) /\ y = x + l
  BY <1>1, <1>3, <1>6, BehindStep
<1>8. PICK b \in Int : b = Behind(f, C)
  <2>1. PICK d \in Nat : C = d + 1 /\ d < C
    <3>1. C > 0
      BY <1>1, <1>2, CellFacts DEF Cells
    <3>2. QED BY <3>1
  <2>2. d \in Cells
    BY <1>2, <2>1 DEF Cells
  <2>3. QED BY <1>1, <1>3, <2>1, <2>2, BehindStep
<1>9. e - t = b - y
  BY <1>2, <1>3, <1>4, <1>7, <1>8
<1>10. (Base - last = Behind(f, Count) - Behind(f, k + 1))'
  <2>1. Behind(f, Count)' = b
    <3>1. Behind(f, Count)' = Behind(f, C)'
      BY <1>1, <1>2 DEF Behind, Off
    <3>2. QED BY <1>5, <1>8, <3>1
  <2>2. CASE k' = k /\ Base' = Base
    <3>1. Behind(f, k + 1)' = Behind(f, j + 1)'
      BY <2>2 DEF Behind, Off
    <3>2. Behind(f, k + 1)' = Behind(f, j + 1)
      BY <1>1, <1>5, <3>1
    <3>3. QED BY <1>1, <1>4, <1>7, <1>9, <2>1, <2>2, <3>2
  <2>3. CASE k' = k - 1 /\ Base' = Base + l
    <3>1. k' + 1 = j
      BY <1>1, <2>3
    <3>2. Behind(f, k + 1)' = Behind(f, j)'
      BY <3>1 DEF Behind, Off
    <3>3. Behind(f, k + 1)' = Behind(f, j)
      BY <1>1, <1>5, <3>2
    <3>4. e + l - t = b - x
      BY <1>7, <1>9
    <3>5. QED BY <1>1, <1>4, <1>7, <2>1, <2>3, <3>3, <3>4
  <2>4. QED BY <1>6, <2>2, <2>3
<1>11. (Sums(f, Count) /\ \A r \in 1 .. 2 : \A m \in 1 .. 3 : sizes[r][m] = f[Count][r][m])'
  <2>1. Sums(f, C) /\ \A r \in 1 .. 2 : \A m \in 1 .. 3 : sizes[r][m] = f[C][r][m]
    BY <1>2, <1>3
  <2>2. Sums(f, C)'
    BY <2>1, SumsKept
  <2>3. Sums(f, Count)'
    BY <1>1, <1>2, <2>2 DEF Sums
  <2>4. QED BY <1>1, <1>2, <2>1, <2>3
<1>12. (\E g : /\ Sums(g, Count)
               /\ \A r \in 1 .. 2 : \A m \in 1 .. 3 : sizes[r][m] = g[Count][r][m]
               /\ Base - last = Behind(g, Count) - Behind(g, k + 1))'
  BY <1>10, <1>11
<1>13. (\A r \in 1 .. 2 : ~(r = 1 /\ kind = "array") => width[r] = BestWidth(r - 1))'
       /\ (TotalSize < SizeLimit)'
  BY <1>1, BestKept DEF SizeInv, input
<1>14. QED BY <1>12, <1>13 DEF SizeInv

LEMMA SizePick ==
  ASSUME IInv, SizeInv, PickInline \/ PickEmbed \/ PickStay \/ PickMove
  PROVE  SizeInv'
<1>1. phase = "pick" /\ k >= 0 /\ UNCHANGED <<input, shape, sizes, width>>
  BY DEF PickInline, PickEmbed, PickStay, PickMove
<1>2. PICK j \in Cells : j = k
  BY <1>1, CellFacts DEF IInv, TypeInv
<1>3. CellOK(j) /\ units[j].len <= W(j) /\ W(j) \in 1 .. 3 /\ Base = tail /\ tail \in Nat
  BY <1>1, WidthFacts DEF IInv, TypeInv, CellInv, Serialized, FitInv, Wide, Base
<1>4. /\ shape[j].len \in Nat
      /\ IF units[j].len # 0 THEN shape[j].len = units[j].len ELSE shape[j].len = units[j].slen
  BY <1>3 DEF CellOK
<1>5. CASE PickInline
  <2>1. phase' = "pick" /\ k' = k - 1 /\ Base' = Base /\ shape[j].len <= W(j)
    BY <1>2, <1>3, <1>4, <1>5 DEF PickInline, Base
  <2>2. Base' = Base + (IF shape[j].len > W(j) THEN shape[j].len ELSE 0)
    BY <1>3, <1>4, <2>1
  <2>3. QED BY <1>1, <1>2, <2>1, <2>2, SizePickStep
<1>6. CASE PickEmbed
  <2>1. phase' = "pick" /\ k' = k - 1 /\ Base' = Base /\ shape[j].len <= W(j)
    BY <1>2, <1>3, <1>4, <1>6 DEF PickEmbed, Base
  <2>2. Base' = Base + (IF shape[j].len > W(j) THEN shape[j].len ELSE 0)
    BY <1>3, <1>4, <2>1
  <2>3. QED BY <1>1, <1>2, <2>1, <2>2, SizePickStep
<1>7. CASE PickStay
  <2>1. phase' = "pick" /\ k' = k - 1 /\ Base' = Base + shape[j].len /\ shape[j].len > W(j)
    BY <1>2, <1>3, <1>4, <1>7 DEF PickStay, Base
  <2>2. Base' = Base + (IF shape[j].len > W(j) THEN shape[j].len ELSE 0)
    BY <2>1
  <2>3. QED BY <1>1, <1>2, <2>1, <2>2, SizePickStep
<1>8. CASE PickMove
  <2>1. phase' = "move" /\ k' = k /\ tail' = tail /\ src' = Start(j) /\ units' = units
    BY <1>2, <1>8 DEF PickMove, Start
  <2>2. Base' = tail - (src' - Start(j)) /\ Start(j) \in Int
    <3>1. Start(j) \in Int
      BY <1>3 DEF CellOK, Start
    <3>2. QED BY <1>2, <2>1, <3>1 DEF Base, Start
  <2>3. Base' = Base
    BY <1>3, <2>1, <2>2
  <2>4. QED BY <1>1, <1>2, <2>1, <2>3, SizePickStep
<1>9. QED BY <1>5, <1>6, <1>7, <1>8

LEMMA SizeMoveWord ==
  ASSUME IInv, SizeInv, MoveWord
  PROVE  SizeInv'
<1>1. phase = "move" /\ UNCHANGED <<input, shape, sizes, width>> /\ tail' = tail + 1 /\ src' = src + 1
  BY DEF MoveWord
<1>2. PICK j \in Cells : j = k
  BY <1>1, CellFacts DEF IInv, TypeInv
<1>3. PICK l \in Nat, p \in Nat, s \in Nat :
        l = shape[j].len /\ l = units[j].slen /\ p = units[j].pos /\ s = Start(j) /\ s = p - l
  BY <1>1, <1>2, MoveFacts
<1>4. tail \in Nat /\ src \in Nat /\ Base = tail - (src - s) /\ l > W(j)
  BY <1>1, <1>2, <1>3, MoveFacts DEF IInv, MoveInv
<1>5. CASE src + 1 = units[k].pos
  <2>1. k' = k - 1 /\ phase' = "pick" /\ src + 1 = p
    BY <1>2, <1>3, <1>5 DEF MoveWord
  <2>2. Base' = tail + 1
    BY <1>1, <2>1 DEF Base
  <2>3. Base' = Base + l
    BY <1>3, <1>4, <2>1, <2>2
  <2>4. Base' = Base + (IF shape[j].len > W(j) THEN shape[j].len ELSE 0)
    BY <1>3, <1>4, <2>3
  <2>5. QED BY <1>1, <1>2, <2>1, <2>4, SizePickStep
<1>6. CASE src + 1 # units[k].pos
  <2>1. k' = k /\ phase' = "move" /\ units' = units
    BY <1>1, <1>6 DEF MoveWord
  <2>2. Base' = (tail + 1) - ((src + 1) - s)
    <3>1. Start(k)' = s
      BY <1>2, <1>3, <2>1 DEF Start
    <3>2. QED BY <1>1, <2>1, <3>1 DEF Base, Start
  <2>3. Base' = Base
    <3>1. PICK t \in Nat, q \in Nat : t = tail /\ q = src
      BY <1>4
    <3>2. (t + 1) - ((q + 1) - s) = t - (q - s)
      OBVIOUS
    <3>3. QED BY <1>4, <2>2, <3>1, <3>2
  <2>4. QED BY <1>1, <1>2, <2>1, <2>3, SizePickStep
<1>7. QED BY <1>5, <1>6

LEMMA SizeShrink ==
  ASSUME IInv, SizeInv, Shrink
  PROVE  SizeInv'
<1> USE DEF IInv
<1>1. /\ phase = "pick" /\ phase' = "mark" /\ k < 0
      /\ UNCHANGED <<input, shape, sizes, width, tail>>
  BY DEF Shrink
<1>2. k = -1 /\ n \in Nat /\ kind \in {"array", "map"} /\ width \in [1 .. 2 -> 0 .. 3]
  <2>1. k \in Int /\ k >= -1 /\ n \in Nat /\ kind \in {"array", "map"} /\ width \in [1 .. 2 -> 0 .. 3]
    BY TypeFacts
  <2>2. QED BY <1>1, <2>1
<1>3. Count \in Nat /\ 0 \in 0 .. Count /\ Count \in 0 .. Count /\ last \in Nat /\ tail \in Nat
  BY <1>2, CellFacts, TypeFacts
<1>4. PICK f : /\ Sums(f, Count)
               /\ \A r \in 1 .. 2 : \A m \in 1 .. 3 : sizes[r][m] = f[Count][r][m]
               /\ Base - last = Behind(f, Count) - Behind(f, k + 1)
  BY <1>1 DEF SizeInv
<1>5. width[2] \in 1 .. 3 /\ (kind = "map" => width[1] \in 1 .. 3)
  BY <1>1, TypeFacts DEF FitInv, Wide
<1>6. Off(0) = 0 /\ Off(Count) \in Nat
  BY <1>2, <1>3, OffZero, OffStep
<1>7. Behind(f, 0) = 0
  <2>1. f[0][2][width[2]] = 0 /\ (kind = "map" => f[0][1][width[1]] = 0)
    BY <1>4, <1>5 DEF Sums
  <2>2. QED BY <1>6, <2>1 DEF Behind
<1>8. PICK x \in Nat : x = Best /\ Behind(f, Count) = x - Off(Count)
  <2>1. sizes[2][width[2]] = f[Count][2][width[2]] /\ sizes[2][width[2]] \in Nat
    BY <1>4, <1>5, TypeFacts
  <2>2. kind = "map" => sizes[1][width[1]] = f[Count][1][width[1]] /\ sizes[1][width[1]] \in Nat
    BY <1>4, <1>5, TypeFacts
  <2>3. PICK y \in Nat : y = sizes[2][width[2]] /\ y = f[Count][2][width[2]]
    BY <2>1
  <2>4. PICK C \in Nat : C = Count
    BY <1>3
  <2>5. CASE kind = "map"
    <3>1. PICK z \in Nat : z = sizes[1][width[1]] /\ z = f[Count][1][width[1]]
      BY <2>2, <2>5
    <3>2. Best = z + y
      BY <2>3, <2>5, <3>1 DEF Best
    <3>3. Behind(f, C) = (z + y) - Off(C)
      <4>1. Off(C) \in Nat
        BY <1>6, <2>4
      <4>2. Behind(f, C) = z + y - Off(C)
        BY <2>3, <2>4, <2>5, <3>1 DEF Behind
      <4>3. QED BY <4>1, <4>2
    <3>4. QED BY <2>4, <3>2, <3>3
  <2>6. CASE kind # "map"
    <3>1. Best = 0 + y
      BY <2>3, <2>6 DEF Best
    <3>2. Behind(f, C) = (0 + y) - Off(C)
      <4>1. Off(C) \in Nat
        BY <1>6, <2>4
      <4>2. Behind(f, C) = 0 + y - Off(C)
        BY <2>3, <2>4, <2>6 DEF Behind
      <4>3. QED BY <4>1, <4>2
    <3>3. QED BY <2>4, <3>1, <3>2
  <2>7. QED BY <2>5, <2>6
<1>9. tail - last = Best - Off(Count)
  <2>1. k + 1 = 0 /\ Base = tail
    BY <1>1, <1>2 DEF Base
  <2>2. tail - last = (x - Off(Count)) - 0
    BY <1>4, <1>7, <1>8, <2>1
  <2>3. QED BY <1>3, <1>6, <1>8, <2>2
<1>10. (tail - last = Best - Off(Count))'
  <2>1. Off(Count)' = Off(Count)
    BY <1>1 DEF input, Off, Count
  <2>2. QED BY <1>1, <1>9, <2>1, BestKept DEF input
<1>11. (\A r \in 1 .. 2 : ~(r = 1 /\ kind = "array") => width[r] = BestWidth(r - 1))'
       /\ (TotalSize < SizeLimit)'
  BY <1>1, BestKept DEF SizeInv, input, Wide
<1>12. QED BY <1>1, <1>10, <1>11 DEF SizeInv

LEMMA SizeMark ==
  ASSUME SizeInv, Mark \/ PutHeader
  PROVE  SizeInv'
<1>1. /\ phase \in {"mark", "done"} /\ phase' \in {"mark", "done"}
      /\ UNCHANGED <<input, shape, sizes, width, tail>>
  BY DEF Mark, PutHeader
<1>2. (tail - last = Best - Off(Count))'
  <2>1. Off(Count)' = Off(Count)
    BY <1>1 DEF input, Off, Count
  <2>2. QED BY <1>1, <2>1, BestKept DEF SizeInv, input
<1>3. (\A r \in 1 .. 2 : ~(r = 1 /\ kind = "array") => width[r] = BestWidth(r - 1))'
      /\ (TotalSize < SizeLimit)'
  BY <1>1, BestKept DEF SizeInv, input, Wide
<1>4. QED BY <1>1, <1>2, <1>3 DEF SizeInv

LEMMA SizeStutter ==
  ASSUME SizeInv, UNCHANGED vars
  PROVE  SizeInv'
<1>1. /\ UNCHANGED <<input, shape, sizes, width>> /\ kind' = kind /\ last' = last /\ tail' = tail
      /\ phase' = phase /\ k' = k /\ sizes' = sizes /\ width' = width /\ units' = units /\ src' = src
  BY DEF vars, input
<1>2. Count' = Count /\ Base' = Base /\ Off(Count)' = Off(Count)
  BY <1>1 DEF input, Count, Base, Start, Off
<1>3. ASSUME NEW f
      PROVE  /\ Sums(f, k)' <=> Sums(f, k)
             /\ Sums(f, Count)' <=> Sums(f, Count)
             /\ Behind(f, Count)' = Behind(f, Count) /\ Behind(f, k + 1)' = Behind(f, k + 1)
  <2>1. PICK j, C : j = k /\ C = Count
    OBVIOUS
  <2>2. (Sums(f, j)' <=> Sums(f, j)) /\ (Sums(f, C)' <=> Sums(f, C))
    BY <1>1, SumsKept
  <2>3. (Sums(f, k)' <=> Sums(f, j)') /\ (Sums(f, Count)' <=> Sums(f, C)')
    BY <1>1, <1>2, <2>1 DEF Sums
  <2>4. Behind(f, Count)' = Behind(f, Count) /\ Behind(f, k + 1)' = Behind(f, k + 1)
    BY <1>1, <1>2 DEF Behind, Off
  <2>5. QED BY <2>1, <2>2, <2>3, <2>4
<1>4. /\ TotalSize' = TotalSize /\ Best' = Best
      /\ \A r \in 1 .. 2 : BestWidth(r - 1)' = BestWidth(r - 1)
  BY <1>1, BestKept
<1>5. QED BY <1>1, <1>2, <1>3, <1>4 DEF SizeInv

\* Every step keeps the account of the size.
LEMMA SizeStep ==
  ASSUME IInv, SizeInv, [Next]_vars
  PROVE  SizeInv'
<1>1. CASE UNCHANGED vars \/ Finished
  BY <1>1, SizeStutter DEF Finished
<1>2. CASE SerializeEmpty \/ ElementInline \/ ElementSegment
  <2>1. phase' \notin Wide /\ phase' \notin {"pick", "move"} /\ phase' \notin {"mark", "done"}
        /\ phase' # "count"
    BY <1>2 DEF SerializeEmpty, ElementInline, ElementSegment, Wide
  <2>2. QED BY <2>1 DEF SizeInv
<1>3. QED
  BY <1>1, <1>2, SizeCountStart, SizeCountCell, SizeChooseWidths, SizePick, SizeMoveWord,
     SizeShrink, SizeMark DEF Next

\* The size compared with 1<<30 before the offsets are written is the size of
\* what SerializeArray or SerializeMap puts into the buffer, and every offset
\* of a finished container is smaller, so that it fits its 30 bits.
THEOREM SizeCorrect == Spec => []SizeAsPredicted
<1>1. Init => SizeInv
  BY DEF Init, SizeInv, Wide
<1>2. IInv /\ IInv' /\ SizeInv /\ [Next]_vars => SizeInv'
  BY SizeStep
<1>3. IInv /\ SizeInv => SizeAsPredicted
  <2>1. SUFFICES ASSUME IInv, SizeInv, phase = "done"
                 PROVE  /\ size - last = TotalSize + (IF kind = "map" THEN 0 ELSE 1)
                        /\ \A c \in Cells : mem[CellPlace(c)][1] = "offset"
                                            => Delta(mem[CellPlace(c)]) < SizeLimit
    BY DEF SizeAsPredicted
  <2>2. /\ n \in Nat /\ tail \in Nat /\ size \in Nat /\ last \in Nat /\ kind \in {"array", "map"}
        /\ phase \in Wide /\ sizes \in [1 .. 2 -> [1 .. 3 -> Nat]]
    BY <2>1 DEF IInv, TypeInv, Wide
  <2>3. PICK o \in Nat, h \in Nat : o = Off(Count) /\ h = HeaderWords /\ size = tail + o + h
    BY <2>1, <2>2, DoneFacts, IndexWordsFacts DEF HeaderWords
  <2>4. \A r \in 1 .. 2 : ~(r = 1 /\ kind = "array") => width[r] = BestWidth(r - 1)
    BY <2>1, <2>2 DEF SizeInv
  <2>5. width[2] = BestWidth(1) /\ (kind = "map" => width[1] = BestWidth(0))
    <3>1. 1 - 1 = 0 /\ 2 - 1 = 1
      OBVIOUS
    <3>2. width[2] = BestWidth(2 - 1) /\ (kind = "map" => width[1] = BestWidth(1 - 1))
      BY <2>4
    <3>3. QED BY <3>1, <3>2
  <2>6. width[2] \in 1 .. 3 /\ (kind = "map" => width[1] \in 1 .. 3)
    BY <2>1, <2>2, TypeFacts DEF IInv, FitInv
  <2>7. PICK b \in Nat : b = Best /\ TotalSize + (IF kind = "map" THEN 0 ELSE 1) = b + h /\ b < SizeLimit
    <3>1. PICK y \in Nat : y = sizes[2][width[2]] /\ BestArraySize(1) = y
      <4>1. sizes[2][width[2]] \in Nat /\ 1 + 1 = 2
        BY <2>2, <2>6
      <4>2. QED BY <2>5, <4>1 DEF BestArraySize
    <3>2. TotalSize < SizeLimit
      BY <2>1, <2>2 DEF SizeInv
    <3>3. CASE kind = "map"
      <4>1. PICK x \in Nat : x = sizes[1][width[1]] /\ BestArraySize(0) = x
        <5>1. sizes[1][width[1]] \in Nat /\ 0 + 1 = 1
          BY <2>2, <2>6, <3>3
        <5>2. QED BY <2>5, <3>3, <5>1 DEF BestArraySize
      <4>2. TotalSize = h + x + y
        BY <2>3, <3>1, <3>3, <4>1 DEF TotalSize, HeaderWords
      <4>3. Best = x + y
        BY <3>1, <3>3, <4>1 DEF Best
      <4>4. QED BY <3>2, <3>3, <4>2, <4>3, BoundsAssumption
    <3>4. CASE kind # "map"
      <4>1. TotalSize = y /\ Best = 0 + y /\ h = 1
        BY <2>3, <3>1, <3>4 DEF TotalSize, Best, HeaderWords
      <4>2. QED BY <3>2, <3>4, <4>1, BoundsAssumption
    <3>5. QED BY <3>3, <3>4
  <2>8. tail - last = b - o
    BY <2>1, <2>3, <2>7 DEF SizeInv
  <2>9. size - last = b + h
    <3>1. PICK s \in Nat, t \in Nat, l \in Nat : s = size /\ t = tail /\ l = last
      BY <2>2
    <3>2. s = t + o + h /\ t - l = b - o
      BY <2>3, <2>8, <3>1
    <3>3. s - l = b + h
      BY <3>2
    <3>4. QED BY <3>1, <3>3
  <2>10. ASSUME NEW c \in Cells, mem[CellPlace(c)][1] = "offset"
         PROVE  Delta(mem[CellPlace(c)]) < SizeLimit
    <3>1. CellPlace(c) = Place(c) /\ CellOK(c) /\ k < c /\ c \in Nat
      <4>1. c \in Nat /\ k = -1
        BY <2>1, <2>2, CellFacts DEF IInv, TypeInv
      <4>2. QED BY <2>1, <4>1, DoneFacts DEF IInv, CellInv, Serialized
    <3>2. PICK q \in Nat : q = Place(c) /\ q <= tail + o
      <4>1. Place(c) \in Nat
        BY <2>1, <2>2, PlaceFacts
      <4>2. Place(c) = tail + o - Off(c) /\ Off(c) \in Nat
        BY <2>1, <2>3, <3>1, OffStep DEF Place, IInv, TypeInv
      <4>3. QED BY <2>2, <4>1, <4>2
    <3>3. IsSeg(c)
      <4>1. SUFFICES ASSUME ~IsSeg(c)
                     PROVE  FALSE
        OBVIOUS
      <4>2. units[c].len = shape[c].len /\ shape[c].len \in Nat \ {0}
        BY <3>1, <4>1 DEF CellOK, IsSeg
      <4>3. 1 \in 1 .. units[c].len /\ 1 \in 1 .. shape[c].len /\ q - 1 + 1 = q
        BY <4>2, <3>2
      <4>4. mem[Place(c) - 1 + 1] = DataOf(c)[1]
        BY <2>1, <3>1, <4>1, <4>3 DEF IInv, MarkInv
      <4>5. mem[q] = DataOf(c)[1]
        BY <3>2, <4>3, <4>4
      <4>6. DataOf(c)[1] = DataWord(c, 1, shape[c].low)
        BY <4>3 DEF DataOf
      <4>7. mem[q][1] = "data"
        BY <4>5, <4>6 DEF DataWord
      <4>8. QED BY <2>10, <3>1, <3>2, <4>7
    <3>4. PICK p \in Nat : p = units[c].pos /\ last < p
      BY <2>2, <3>1, <3>3 DEF CellOK, IsSeg, Start
    <3>5. mem[Place(c)] = Offset(Place(c) - units[c].pos)
      BY <2>1, <3>1, <3>3 DEF IInv, MarkInv
    <3>6. Delta(mem[CellPlace(c)]) = q - p
      BY <3>1, <3>2, <3>4, <3>5 DEF Delta, Offset
    <3>7. q - p < SizeLimit
      BY <2>2, <2>7, <2>8, <3>2, <3>4, BoundsAssumption
    <3>8. QED BY <3>6, <3>7
  <2>11. QED BY <2>7, <2>9, <2>10
<1>4. QED BY <1>1, <1>2, <1>3, ContainerInvariant, PTL DEF Spec
=============================================================================
