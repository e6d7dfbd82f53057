--------------------------- MODULE Message_proofs ---------------------------
(***************************************************************************)
(* A message reads back as it was written, and as the user left it after   *)
(* it was opened, for every number of fields, every width of head and      *)
(* sections, every length of the objects and every content of the buffer.  *)
(*                                                                         *)
(* The argument is about sums.  Ahead(f), the body words of the fields     *)
(* before f, and Behind(f), the words of the objects from field f on, give *)
(* every word of the message its place: from last to Base the objects, the *)
(* last field first, from Base to Top the body, above it sections and      *)
(* head.  While fields are serialized the buffer ends at Base and every    *)
(* object is where its Unit says; while groups are marked, cnt is          *)
(* Ahead(Limit(k)) and the groups before k are complete.  The reader adds  *)
(* up the same widths, so it finds Place(f).  For a message that is opened *)
(* the invariant says that the untouched fields still read as the user     *)
(* wants them, and that Detect ends the copy at last.                      *)
(***************************************************************************)
EXTENDS LazyMessage, FiniteSetTheorems, TLAPS

-----------------------------------------------------------------------------
(* Sums: words counted one by one.                                         *)

\* The words counted by a sum.
Units(w, S) == UNION {{f} \X (1 .. w[f]) : f \in S}

\* A word is counted with its field.
LEMMA UnitsMember ==
  ASSUME NEW w, NEW S, NEW x
  PROVE  x \in Units(w, S) <=> \E f \in S : \E i \in 1 .. w[f] : x = <<f, i>>
BY DEF Units

\* A sum over finitely many fields is a number.
LEMMA UnitsFinite ==
  ASSUME NEW S, IsFiniteSet(S), NEW w, \A f \in S : w[f] \in Nat
  PROVE  IsFiniteSet(Units(w, S)) /\ SumOver(w, S) \in Nat
<1> DEFINE T == {{f} \X (1 .. w[f]) : f \in S}
           g == [f \in S |-> {f} \X (1 .. w[f])]
<1>1. g \in Surjection(S, T)
  BY DEF Surjection
<1>2. IsFiniteSet(T)
  BY <1>1, FS_Surjection
<1>3. ASSUME NEW t \in T PROVE IsFiniteSet(t)
  <2>1. PICK f \in S : t = {f} \X (1 .. w[f])
    OBVIOUS
  <2>2. IsFiniteSet({f})
    BY FS_Singleton
  <2>3. w[f] \in Int
    OBVIOUS
  <2>4. IsFiniteSet(1 .. w[f])
    BY <2>3, FS_Interval
  <2>5. QED BY <2>1, <2>2, <2>4, FS_Product
<1>4. IsFiniteSet(Units(w, S))
  BY <1>2, <1>3, FS_UNION DEF Units
<1>5. QED BY <1>4, FS_CardinalityType DEF SumOver, Units

\* Sums over sets without common elements add up.
LEMMA SumSplit ==
  ASSUME NEW S, NEW T, IsFiniteSet(S), IsFiniteSet(T), S \cap T = {},
         NEW w, \A f \in S \cup T : w[f] \in Nat
  PROVE  SumOver(w, S \cup T) = SumOver(w, S) + SumOver(w, T)
<1>1. Units(w, S \cup T) = Units(w, S) \cup Units(w, T)
  BY DEF Units
<1>2. Units(w, S) \cap Units(w, T) = {}
  BY UnitsMember
<1>3. IsFiniteSet(Units(w, S)) /\ IsFiniteSet(Units(w, T))
  BY UnitsFinite
<1>4. Cardinality(Units(w, S) \cup Units(w, T))
        = Cardinality(Units(w, S)) + Cardinality(Units(w, T)) - Cardinality({})
  BY <1>2, <1>3, FS_Union
<1>5. Cardinality(Units(w, S)) \in Nat /\ Cardinality(Units(w, T)) \in Nat
  BY <1>3, FS_CardinalityType
<1>6. Cardinality({}) = 0
  BY FS_EmptySet
<1>7. SumOver(w, S \cup T) = Cardinality(Units(w, S) \cup Units(w, T))
  BY <1>1 DEF SumOver, Units
<1>8. SumOver(w, S) = Cardinality(Units(w, S)) /\ SumOver(w, T) = Cardinality(Units(w, T))
  BY DEF SumOver, Units
<1>9. QED BY <1>4, <1>5, <1>6, <1>7, <1>8

\* Only the values on S matter.
LEMMA SumSame ==
  ASSUME NEW S, NEW v, NEW w, \A f \in S : v[f] = w[f]
  PROVE  SumOver(v, S) = SumOver(w, S)
<1>1. {{f} \X (1 .. v[f]) : f \in S} = {{f} \X (1 .. w[f]) : f \in S}
  OBVIOUS
<1>2. QED BY <1>1 DEF SumOver

\* Values that are 0 can be left out.
LEMMA SumNonZero ==
  ASSUME NEW S, NEW w, \A f \in S : w[f] \in Nat
  PROVE  SumOver(w, {f \in S : w[f] # 0}) = SumOver(w, S)
<1> DEFINE R == {f \in S : w[f] # 0}
<1>1. ASSUME NEW x \in Units(w, S) PROVE x \in Units(w, R)
  <2>1. PICK f \in S : \E i \in 1 .. w[f] : x = <<f, i>>
    BY UnitsMember
  <2>2. f \in R
    BY <2>1
  <2>3. QED BY <2>1, <2>2, UnitsMember
<1>2. ASSUME NEW x \in Units(w, R) PROVE x \in Units(w, S)
  BY UnitsMember
<1>3. Units(w, R) = Units(w, S)
  BY <1>1, <1>2
<1>4. QED BY <1>3 DEF SumOver, Units

\* A sum of zeros.
LEMMA SumZero ==
  ASSUME NEW S, NEW w, \A f \in S : w[f] = 0
  PROVE  SumOver(w, S) = 0
<1>1. Units(w, S) = {}
  <2>1. SUFFICES ASSUME NEW x \in Units(w, S) PROVE FALSE
    OBVIOUS
  <2>2. QED BY <2>1, UnitsMember
<1>2. QED BY <1>1, FS_EmptySet DEF SumOver, Units

\* A sum of one value.
LEMMA SumSingle ==
  ASSUME NEW f, NEW w, w[f] \in Nat
  PROVE  SumOver(w, {f}) = w[f]
<1>1. UNION {{g} \X (1 .. w[g]) : g \in {f}} = {f} \X (1 .. w[f])
  OBVIOUS
<1>2. IsFiniteSet({f}) /\ Cardinality({f}) = 1
  BY FS_Singleton
<1>3. IsFiniteSet(1 .. w[f]) /\ Cardinality(1 .. w[f]) = w[f]
  <2> DEFINE m == w[f]
  <2>1. m \in Nat
    OBVIOUS
  <2> HIDE DEF m
  <2>2. IsFiniteSet(1 .. m) /\ Cardinality(1 .. m) = m
    BY <2>1, FS_Interval
  <2>3. QED BY <2>2 DEF m
<1>4. Cardinality({f} \X (1 .. w[f])) = Cardinality({f}) * Cardinality(1 .. w[f])
  BY <1>2, <1>3, FS_Product
<1>5. Cardinality({f} \X (1 .. w[f])) = w[f]
  BY <1>2, <1>3, <1>4
<1>6. SumOver(w, {f}) = Cardinality({f} \X (1 .. w[f]))
  BY <1>1 DEF SumOver
<1>7. QED BY <1>5, <1>6

\* A sum of smaller values is smaller.
LEMMA SumLess ==
  ASSUME NEW S, IsFiniteSet(S), NEW v, NEW w,
         \A f \in S : v[f] \in Nat /\ w[f] \in Nat /\ v[f] <= w[f]
  PROVE  SumOver(v, S) <= SumOver(w, S)
<1>1. ASSUME NEW x \in Units(v, S) PROVE x \in Units(w, S)
  <2>1. PICK f \in S : \E i \in 1 .. v[f] : x = <<f, i>>
    BY UnitsMember
  <2>2. PICK i \in 1 .. v[f] : x = <<f, i>>
    BY <2>1
  <2>3. i \in 1 .. w[f]
    OBVIOUS
  <2>4. QED BY <2>2, <2>3, UnitsMember
<1>2. IsFiniteSet(Units(w, S))
  BY UnitsFinite
<1>3. QED BY <1>1, <1>2, FS_Subset DEF SumOver, Units

\* A sum over an interval splits anywhere.
LEMMA SumInterval ==
  ASSUME NEW i \in Int, NEW m \in Int, NEW j \in Int, i <= m, m <= j,
         NEW w, \A f \in i .. j - 1 : w[f] \in Nat
  PROVE  /\ SumOver(w, i .. j - 1) = SumOver(w, i .. m - 1) + SumOver(w, m .. j - 1)
         /\ SumOver(w, i .. m - 1) \in Nat /\ SumOver(w, m .. j - 1) \in Nat
<1> DEFINE S == i .. m - 1
           T == m .. j - 1
<1>1. i .. j - 1 = S \cup T /\ S \cap T = {}
  OBVIOUS
<1>2. IsFiniteSet(S) /\ IsFiniteSet(T)
  BY FS_Interval
<1>3. \A f \in S \cup T : w[f] \in Nat
  BY <1>1
<1> HIDE DEF S, T
<1>4. SumOver(w, S \cup T) = SumOver(w, S) + SumOver(w, T)
  BY <1>1, <1>2, <1>3, SumSplit
<1>5. SumOver(w, S) \in Nat /\ SumOver(w, T) \in Nat
  BY <1>2, <1>3, UnitsFinite
<1>6. QED BY <1>1, <1>4, <1>5 DEF S, T

\* A sum over an empty interval.
LEMMA SumNone ==
  ASSUME NEW i \in Int, NEW j \in Int, j <= i, NEW w
  PROVE  SumOver(w, i .. j - 1) = 0
BY SumZero

\* The first element of an interval, and the last.
LEMMA SumStep ==
  ASSUME NEW i \in Int, NEW j \in Int, i < j,
         NEW w, \A f \in i .. j - 1 : w[f] \in Nat
  PROVE  /\ SumOver(w, i .. j - 1) = w[i] + SumOver(w, i + 1 .. j - 1)
         /\ SumOver(w, i .. j - 1) = SumOver(w, i .. j - 2) + w[j - 1]
         /\ SumOver(w, i .. j - 1) \in Nat
         /\ SumOver(w, i + 1 .. j - 1) \in Nat /\ SumOver(w, i .. j - 2) \in Nat
<1>1. i .. (i + 1) - 1 = {i} /\ (j - 1) .. j - 1 = {j - 1} /\ (j - 1) - 1 = j - 2
  OBVIOUS
<1>2. SumOver(w, i .. j - 1) = SumOver(w, i .. (i + 1) - 1) + SumOver(w, i + 1 .. j - 1)
      /\ SumOver(w, i .. (i + 1) - 1) \in Nat /\ SumOver(w, i + 1 .. j - 1) \in Nat
  <2> DEFINE c == i + 1
  <2>1. c \in Int /\ i <= c /\ c <= j
    OBVIOUS
  <2> HIDE DEF c
  <2>2. SumOver(w, i .. j - 1) = SumOver(w, i .. c - 1) + SumOver(w, c .. j - 1)
        /\ SumOver(w, i .. c - 1) \in Nat /\ SumOver(w, c .. j - 1) \in Nat
    BY <2>1, SumInterval
  <2>3. QED BY <2>2 DEF c
<1>3. SumOver(w, i .. j - 1) = SumOver(w, i .. (j - 1) - 1) + SumOver(w, (j - 1) .. j - 1)
      /\ SumOver(w, i .. (j - 1) - 1) \in Nat /\ SumOver(w, (j - 1) .. j - 1) \in Nat
  <2> DEFINE c == j - 1
  <2>1. c \in Int /\ i <= c /\ c <= j
    OBVIOUS
  <2> HIDE DEF c
  <2>2. SumOver(w, i .. j - 1) = SumOver(w, i .. c - 1) + SumOver(w, c .. j - 1)
        /\ SumOver(w, i .. c - 1) \in Nat /\ SumOver(w, c .. j - 1) \in Nat
    BY <2>1, SumInterval
  <2>3. QED BY <2>2 DEF c
<1>4. w[i] \in Nat /\ w[j - 1] \in Nat
  OBVIOUS
<1>5. SumOver(w, {i}) = w[i] /\ SumOver(w, {j - 1}) = w[j - 1]
  BY <1>4, SumSingle
<1>6. QED BY <1>1, <1>2, <1>3, <1>4, <1>5

\* Changing the value of k, when those up to k are 0.
LEMMA SumPut ==
  ASSUME NEW m \in Nat, NEW i \in 0 .. m - 1, NEW v, NEW w,
         \A f \in 0 .. m - 1 : v[f] \in Nat /\ w[f] \in Nat,
         \A f \in 0 .. i : v[f] = 0,
         \A f \in (0 .. m - 1) \ {i} : w[f] = v[f]
  PROVE  /\ \A f \in i + 1 .. m : SumOver(w, f .. m - 1) = SumOver(v, f .. m - 1)
         /\ SumOver(w, i .. m - 1) = w[i] + SumOver(v, 0 .. m - 1)
         /\ SumOver(w, 0 .. m - 1) = w[i] + SumOver(v, 0 .. m - 1)
         /\ SumOver(v, 0 .. m - 1) \in Nat
<1>1. ASSUME NEW f \in i + 1 .. m PROVE SumOver(w, f .. m - 1) = SumOver(v, f .. m - 1)
  <2>1. \A g \in f .. m - 1 : w[g] = v[g]
    OBVIOUS
  <2>2. QED BY <2>1, SumSame
<1>2. SumOver(v, 0 .. m - 1) = SumOver(v, 0 .. (i + 1) - 1) + SumOver(v, i + 1 .. m - 1)
      /\ SumOver(v, i + 1 .. m - 1) \in Nat
  <2> DEFINE c == i + 1
  <2>1. 0 <= c /\ c <= m /\ c \in Int /\ m \in Int
    OBVIOUS
  <2> HIDE DEF c
  <2>2. SumOver(v, 0 .. m - 1) = SumOver(v, 0 .. c - 1) + SumOver(v, c .. m - 1)
        /\ SumOver(v, c .. m - 1) \in Nat
    BY <2>1, SumInterval
  <2>3. QED BY <2>2 DEF c
<1>3. SumOver(v, 0 .. (i + 1) - 1) = 0
  <2>1. \A f \in 0 .. (i + 1) - 1 : v[f] = 0
    OBVIOUS
  <2>2. QED BY <2>1, SumZero
<1>4. SumOver(w, i .. m - 1) = w[i] + SumOver(w, i + 1 .. m - 1)
  <2>1. i < m /\ \A f \in i .. m - 1 : w[f] \in Nat
    OBVIOUS
  <2>2. QED BY <2>1, SumStep
<1>5. SumOver(w, 0 .. m - 1) = SumOver(w, 0 .. i - 1) + SumOver(w, i .. m - 1)
  <2>1. 0 <= i /\ i <= m /\ i \in Int /\ m \in Int
    OBVIOUS
  <2>2. QED BY <2>1, SumInterval
<1>6. SumOver(w, 0 .. i - 1) = 0
  <2>1. \A f \in 0 .. i - 1 : w[f] = 0
    OBVIOUS
  <2>2. QED BY <2>1, SumZero
<1>7. SumOver(w, i + 1 .. m - 1) = SumOver(v, i + 1 .. m - 1)
  BY <1>1
<1>8. w[i] \in Nat
  OBVIOUS
<1>9. QED BY <1>1, <1>2, <1>3, <1>4, <1>5, <1>6, <1>7, <1>8

-----------------------------------------------------------------------------
(* Places, and the inductive invariant.                                    *)

\* Widths, segment lengths and sizes of the fields, as functions.
Wd == [f \in Fields |-> Width(parts[f])]
Sl == [f \in Fields |-> parts[f].slen]
Us == [f \in Fields |-> UnitSize(parts[f])]

\* Body words of the fields before f, words of the segments from field f on.
Ahead(f) == SumOver(Wd, 0 .. f - 1)
Behind(f) == SumOver(Sl, f .. n - 1)

\* The objects end and the body starts behind Base; the body ends at Top.
Base == last + Behind(0)
Top == Base + Ahead(n)

\* The place of field f in the body.
Place(f) == Top - Ahead(f)

\* Number of fields that are kept, and of sections.
Count == Cardinality(Kept)
Section == Sections(Count)

\* The first field that is not in a group before a.
Limit(a) == IF GroupStart(a) <= Count THEN GroupStart(a) ELSE Count

Marks(a) == [f \in {g \in Group(a) : Wd[g] # 0} |-> Wd[f]]

\* The words of field f in the body.
BodyWord(f, w) == IF Len3(parts[f]) # 0 THEN parts[f].data[w]
                  ELSE Offset(Place(f) - parts[f].pos)

\* Words of a value: the objects of at most three words do not look like an
\* offset.
LenOf(v) == Cardinality(DOMAIN v.words)
Content(v, g, l, low) ==
  /\ v = Value(v.object, Data(g, l, low)) /\ v.object \in BOOLEAN
  /\ ~v.object => l <= 3
  /\ v.object /\ l <= 3 => low = 0
IsValue(v) ==
  \/ v = Nothing
  \/ \E g \in Nat, l \in 1 .. MaxLen, low \in {0, 3} : Content(v, g, l, low)

\* The Unit of a field that was serialized, and its segment in m.
UnitOf(f) ==
  IF LenOf(value[f]) < 4 THEN [NoUnit EXCEPT !.data = value[f].words]
  ELSE [data |-> <<>>, pos |-> last + Behind(f), slen |-> LenOf(value[f])]
FieldOK(f) == IsValue(value[f]) /\ parts[f] = UnitOf(f)
SegmentOK(m, f) ==
  Sl[f] # 0 => \A w \in 1 .. Sl[f] : m[parts[f].pos - w + 1] = value[f].words[w]

\* Group a is in the message m with its head at place s.
GroupMark(a) ==
  IF a = 0 THEN Word("head", Section % 4, [section |-> Section, mark |-> Marks(0)])
  ELSE Word("section", 0, [before |-> Ahead(Limit(a)), mark |-> Marks(a)])
GroupPlace(s, a) == IF a = 0 THEN s ELSE s - 1 - 2 * (a - 1)
GroupOK(m, s, a) ==
  /\ m[GroupPlace(s, a)] = GroupMark(a)
  /\ \A f \in Group(a) : \A w \in 1 .. Wd[f] : m[Place(f) - w + 1] = BodyWord(f, w)

\* A whole message.
MessageOK(m, s) ==
  /\ s = Top + 1 + 2 * Section
  /\ \A f \in Fields : SegmentOK(m, f)
  /\ \A a \in 0 .. Section : GroupOK(m, s, a)

TypeInv ==
  /\ n \in 1 .. MaxFields /\ last = Before
  /\ size \in Nat /\ vsize \in Nat /\ k \in Int /\ cnt \in Nat /\ pos \in Int
  /\ mem = [p \in 1 .. Room |-> mem[p]]
  /\ value = [f \in Fields |-> value[f]]
  /\ parts = [f \in Fields |-> parts[f]]
  /\ phase \in {"fields", "mark", "done", "failed", "edit"}

\* Every offset in m fits its bits.
OffsetsOK(m) ==
  \A p \in 1 .. Room : m[p].what = "offset" => m[p].v \in 1 .. SizeLimit - 1

FieldsInv ==
  phase = "fields" =>
    /\ k \in -1 .. n - 1
    /\ \A f \in 0 .. k : value[f] = Nothing
    /\ size = Base
    /\ size <= Before + MaxLen * (n - 1 - k)
    /\ cnt = 0
    /\ \A f \in Fields : SegmentOK(mem, f)

MarkInv ==
  phase = "mark" =>
    /\ k \in 0 .. Section + 1
    /\ size = Top + 1 + 2 * Section /\ size <= Room
    /\ cnt = Ahead(Limit(k)) /\ pos = Top - cnt
    /\ MessageSize < SizeLimit
    /\ mem[size].v.section = Section
    /\ k = 0 => mem[size] = Word("head", Section % 4, [section |-> Section, mark |-> <<>>])
    /\ \A f \in Fields : SegmentOK(mem, f)
    /\ \A a \in 0 .. k - 1 : GroupOK(mem, size, a)

DoneInv == phase = "done" => size <= Room /\ MessageOK(mem, size)

MessageInv ==
  /\ phase # "failed" => \A f \in Fields : FieldOK(f)
  /\ OffsetsOK(mem)
  /\ FieldsInv /\ MarkInv /\ DoneInv

\* What the user finds in field f.
WantOK(f) ==
  /\ IsValue(want[f]) \/ (f \in accessed /\ want[f] = Null)
  /\ want[f] = IF f \in accessed THEN field[f] ELSE ExtractField(f)

LazyInv ==
  Opened =>
    /\ accessed \subseteq Fields
    /\ want = [f \in Fields |-> want[f]] /\ field = [f \in Fields |-> field[f]]
    /\ \A f \in Fields : WantOK(f)
    /\ view = [p \in 1 .. Room |-> view[p]] /\ vsize <= Room /\ last < vsize
    /\ OffsetsOK(view)
    /\ phase = "edit" => /\ size = last /\ k = n - 1 /\ cnt = 0
                         /\ \A f \in Fields \ accessed : value[f] = want[f]
                         /\ MessageOK(view, vsize)
                         /\ Detect = last
    /\ phase = "fields" => \A f \in k + 1 .. n - 1 : value[f] = want[f]
    /\ phase \in {"mark", "done"} => value = want

IInv ==
  /\ TypeInv /\ MessageInv /\ LazyInv
  /\ ~Opened => phase # "edit" /\ accessed = {}

\* Facts about one state: a message of n fields whose Units fit their values.
Static ==
  /\ n \in 1 .. MaxFields /\ last = Before
  /\ \A f \in Fields : FieldOK(f)

-----------------------------------------------------------------------------
(* Values and Units.                                                       *)

\* The words of an object or scalar.
LEMMA DataFacts ==
  ASSUME NEW g, NEW l \in Nat, NEW low
  PROVE  /\ DOMAIN Data(g, l, low) = 1 .. l
         /\ Cardinality(DOMAIN Data(g, l, low)) = l
         /\ \A w \in 1 .. l : /\ Data(g, l, low)[w].what = "data"
                              /\ Data(g, l, low)[w].v = <<g, w, l>>
         /\ l # 0 => Data(g, l, low)[1].low = low
<1>1. DOMAIN Data(g, l, low) = 1 .. l
  BY DEF Data
<1>2. Cardinality(1 .. l) = l
  BY FS_Interval
<1>3. QED BY <1>1, <1>2 DEF Data, Word

\* The empty words.
LEMMA NothingFacts ==
  DOMAIN Nothing.words = 1 .. 0 /\ LenOf(Nothing) = 0 /\ Nothing.object = FALSE
BY FS_EmptySet DEF Nothing, Value, LenOf

\* What every value the model writes is like.
LEMMA ValueFacts ==
  ASSUME NEW v, IsValue(v)
  PROVE  /\ LenOf(v) \in 0 .. MaxLen /\ DOMAIN v.words = 1 .. LenOf(v)
         /\ v = Value(v.object, v.words) /\ v.object \in BOOLEAN
         /\ LenOf(v) = 0 <=> v = Nothing
         /\ LenOf(v) >= 4 => v.object
         /\ \A w \in 1 .. LenOf(v) : v.words[w].what = "data"
         /\ LenOf(v) # 0 => v.words[1].v[3] = LenOf(v)
         /\ LenOf(v) \in 1 .. 3 /\ v.object => v.words[1].low # 3
         /\ v.words = [w \in 1 .. LenOf(v) |-> v.words[w]]
<1> USE ScaleAssumption
<1>1. CASE v = Nothing
  <2>1. DOMAIN v.words = 1 .. 0 /\ LenOf(v) = 0 /\ v.object = FALSE
    BY <1>1, NothingFacts
  <2>2. v = Value(v.object, v.words)
    BY <1>1 DEF Nothing, Value
  <2>3. v.words = [w \in 1 .. 0 |-> v.words[w]]
    BY <1>1 DEF Nothing, Value
  <2>4. LenOf(v) \in 0 .. MaxLen /\ 1 .. LenOf(v) = 1 .. 0
    BY <2>1
  <2>5. LenOf(v) # 0 => FALSE
    BY <2>1
  <2>6. \A w \in 1 .. LenOf(v) : v.words[w].what = "data"
    BY <2>1
  <2>7. DOMAIN v.words = 1 .. LenOf(v) /\ v.object \in BOOLEAN
    BY <2>1
  <2>8. v.words = [w \in 1 .. LenOf(v) |-> v.words[w]]
    BY <2>1, <2>3
  <2>9. ~(LenOf(v) >= 4) /\ ~(LenOf(v) \in 1 .. 3)
    BY <2>1
  <2>10. LenOf(v) = 0 <=> v = Nothing
    BY <1>1, <2>1
  <2>11. QED BY <2>2, <2>4, <2>5, <2>6, <2>7, <2>8, <2>9, <2>10
<1>2. CASE v # Nothing
  <2>1. PICK g \in Nat, l \in 1 .. MaxLen, low \in {0, 3} : Content(v, g, l, low)
    BY <1>2 DEF IsValue
  <2>2. v = Value(v.object, Data(g, l, low)) /\ v.object \in BOOLEAN
        /\ (~v.object => l <= 3) /\ (v.object /\ l <= 3 => low = 0)
    BY <2>1 DEF Content
  <2>3. v.words = Data(g, l, low)
    BY <2>2 DEF Value
  <2>4. l \in Nat /\ l # 0
    OBVIOUS
  <2>5. LenOf(v) = l /\ DOMAIN v.words = 1 .. l
    BY <2>3, <2>4, DataFacts DEF LenOf
  <2>6. \A w \in 1 .. l : v.words[w].what = "data" /\ v.words[w].v = <<g, w, l>>
    <3>1. \A w \in 1 .. l : /\ Data(g, l, low)[w].what = "data"
                            /\ Data(g, l, low)[w].v = <<g, w, l>>
      BY <2>4, DataFacts
    <3>2. QED BY <2>3, <3>1
  <2>7. v.words[1].low = low
    <3>1. 1 \in 1 .. l
      BY <2>4
    <3>2. Data(g, l, low)[1].low = low
      BY <3>1 DEF Data, Word
    <3>3. QED BY <2>3, <3>2, Zenon
  <2>8. v.words[1].v[3] = l
    <3>1. v.words[1].v = <<g, 1, l>>
      BY <2>6, <2>4
    <3>2. QED BY <3>1
  <2>9. v.words = [w \in 1 .. l |-> v.words[w]]
    BY <2>3 DEF Data
  <2>10. QED BY <1>2, <2>2, <2>3, <2>4, <2>5, <2>6, <2>7, <2>8, <2>9
<1>3. QED BY <1>1, <1>2

\* The Unit of a field and the widths and sizes taken from it.
LEMMA UnitFacts ==
  ASSUME Static, NEW f \in Fields
  PROVE  /\ LenOf(value[f]) \in 0 .. MaxLen
         /\ LenOf(value[f]) < 4 =>
              /\ parts[f].data = value[f].words /\ Len3(parts[f]) = LenOf(value[f])
              /\ Wd[f] = LenOf(value[f]) /\ Sl[f] = 0
         /\ LenOf(value[f]) >= 4 =>
              /\ Len3(parts[f]) = 0 /\ parts[f].pos = last + Behind(f)
              /\ Wd[f] = 1 /\ Sl[f] = LenOf(value[f])
         /\ Us[f] = LenOf(value[f]) /\ Us[f] = UnitSize(parts[f])
         /\ Wd[f] = Width(parts[f])
         /\ Wd[f] \in 0 .. 3 /\ Sl[f] \in Nat /\ Us[f] \in Nat /\ Wd[f] \in Nat
<1> USE ScaleAssumption
<1>1. IsValue(value[f]) /\ parts[f] = UnitOf(f)
  BY DEF Static, FieldOK
<1>2. LenOf(value[f]) \in 0 .. MaxLen
  BY <1>1, ValueFacts
<1>3. Wd[f] = Width(parts[f]) /\ Sl[f] = parts[f].slen /\ Us[f] = UnitSize(parts[f])
  BY DEF Wd, Sl, Us
<1>4. CASE LenOf(value[f]) < 4
  <2>1. parts[f].data = value[f].words /\ parts[f].slen = 0
    BY <1>1, <1>4 DEF UnitOf, NoUnit
  <2>2. Len3(parts[f]) = LenOf(value[f])
    BY <2>1 DEF Len3, LenOf
  <2>3. Width(parts[f]) = LenOf(value[f]) /\ UnitSize(parts[f]) = LenOf(value[f])
    BY <2>1, <2>2 DEF Width, UnitSize
  <2>4. QED BY <1>2, <1>3, <1>4, <2>1, <2>2, <2>3
<1>5. CASE LenOf(value[f]) >= 4
  <2>1. parts[f] = [data |-> <<>>, pos |-> last + Behind(f), slen |-> LenOf(value[f])]
    BY <1>1, <1>2, <1>5 DEF UnitOf
  <2>2. Len3(parts[f]) = 0
    <3>1. DOMAIN parts[f].data = {}
      BY <2>1
    <3>2. QED BY <3>1, FS_EmptySet DEF Len3
  <2>3. Width(parts[f]) = 1 /\ UnitSize(parts[f]) = LenOf(value[f])
        /\ parts[f].slen = LenOf(value[f]) /\ parts[f].pos = last + Behind(f)
    BY <1>2, <1>5, <2>1, <2>2 DEF Width, UnitSize
  <2>4. QED BY <1>2, <1>3, <1>5, <2>2, <2>3
<1>6. QED BY <1>2, <1>4, <1>5

-----------------------------------------------------------------------------
(* Places.                                                                 *)

\* Bounds of the fields.
LEMMA FieldBounds ==
  ASSUME Static
  PROVE  /\ n \in Nat /\ n >= 1 /\ last \in Nat /\ Fields = 0 .. n - 1
         /\ \A f \in 0 .. n - 1 : Wd[f] \in Nat /\ Sl[f] \in Nat /\ Us[f] \in Nat
         /\ IsFiniteSet(Fields) /\ Cardinality(Fields) = n
<1>1. n \in Nat /\ n >= 1 /\ last \in Nat /\ Fields = 0 .. n - 1
  BY ScaleAssumption DEF Static, Fields
<1>2. \A f \in 0 .. n - 1 : Wd[f] \in Nat /\ Sl[f] \in Nat /\ Us[f] \in Nat
  BY <1>1, UnitFacts
<1>3. IsFiniteSet(0 .. n - 1) /\ Cardinality(0 .. n - 1) = n
  BY <1>1, FS_Interval
<1>4. QED BY <1>1, <1>2, <1>3

\* The body words before a field, added up.
LEMMA AheadSplit ==
  ASSUME Static, NEW i \in 0 .. n, NEW j \in 0 .. n, i <= j
  PROVE  /\ Ahead(j) = Ahead(i) + SumOver(Wd, i .. j - 1)
         /\ Ahead(i) \in Nat /\ SumOver(Wd, i .. j - 1) \in Nat /\ Ahead(j) \in Nat
<1>1. n \in Nat /\ \A f \in 0 .. j - 1 : Wd[f] \in Nat
  BY FieldBounds
<1> DEFINE z == 0
<1>2. z \in Int /\ i \in Int /\ j \in Int /\ z <= i /\ i <= j
      /\ \A f \in z .. j - 1 : Wd[f] \in Nat
  BY <1>1
<1> HIDE DEF z
<1>3. SumOver(Wd, z .. j - 1) = SumOver(Wd, z .. i - 1) + SumOver(Wd, i .. j - 1)
      /\ SumOver(Wd, z .. i - 1) \in Nat /\ SumOver(Wd, i .. j - 1) \in Nat
  BY <1>2, SumInterval
<1>4. QED BY <1>3 DEF Ahead, z

\* The words of the segments behind a field, added up.
LEMMA BehindSplit ==
  ASSUME Static, NEW i \in 0 .. n, NEW j \in 0 .. n, i <= j
  PROVE  /\ Behind(i) = SumOver(Sl, i .. j - 1) + Behind(j)
         /\ Behind(i) \in Nat /\ SumOver(Sl, i .. j - 1) \in Nat /\ Behind(j) \in Nat
<1>1. n \in Nat /\ \A f \in i .. n - 1 : Sl[f] \in Nat
  BY FieldBounds
<1> DEFINE m == n
<1>2. m \in Int /\ i \in Int /\ j \in Int /\ i <= j /\ j <= m
      /\ \A f \in i .. m - 1 : Sl[f] \in Nat
  BY <1>1
<1> HIDE DEF m
<1>3. SumOver(Sl, i .. m - 1) = SumOver(Sl, i .. j - 1) + SumOver(Sl, j .. m - 1)
      /\ SumOver(Sl, i .. j - 1) \in Nat /\ SumOver(Sl, j .. m - 1) \in Nat
  BY <1>2, SumInterval
<1>4. QED BY <1>3 DEF Behind, m

\* One field more.
LEMMA AheadStep ==
  ASSUME Static, NEW f \in Fields
  PROVE  /\ Ahead(f + 1) = Ahead(f) + Wd[f] /\ Ahead(f) \in Nat /\ Ahead(f + 1) \in Nat
         /\ Behind(f) = Sl[f] + Behind(f + 1)
         /\ Behind(f) \in Nat /\ Behind(f + 1) \in Nat
<1>1. n \in Nat /\ f \in 0 .. n - 1 /\ \A g \in 0 .. n - 1 : Wd[g] \in Nat /\ Sl[g] \in Nat
  BY FieldBounds
<1> DEFINE j == f + 1
<1>2. 0 \in Int /\ j \in Int /\ 0 < j /\ j - 2 = f - 1 /\ j - 1 = f
      /\ \A g \in 0 .. j - 1 : Wd[g] \in Nat
  BY <1>1
<1>3. j - 1 = f /\ f \in Int /\ n \in Int /\ f < n /\ \A g \in f .. n - 1 : Sl[g] \in Nat
  BY <1>1
<1> HIDE DEF j
<1>4. SumOver(Wd, 0 .. j - 1) = SumOver(Wd, 0 .. j - 2) + Wd[j - 1]
      /\ SumOver(Wd, 0 .. j - 1) \in Nat /\ SumOver(Wd, 0 .. j - 2) \in Nat
  BY <1>2, SumStep
<1>5. SumOver(Sl, f .. n - 1) = Sl[f] + SumOver(Sl, f + 1 .. n - 1)
      /\ SumOver(Sl, f .. n - 1) \in Nat /\ SumOver(Sl, f + 1 .. n - 1) \in Nat
  BY <1>3, SumStep
<1>6. Ahead(j) = Ahead(f) + Wd[f] /\ Ahead(f) \in Nat /\ Ahead(j) \in Nat
  BY <1>2, <1>4 DEF Ahead
<1>7. Behind(f) = Sl[f] + Behind(f + 1) /\ Behind(f) \in Nat /\ Behind(f + 1) \in Nat
  BY <1>5 DEF Behind
<1>8. QED BY <1>6, <1>7 DEF j

\* Where objects, body and marks begin.
LEMMA AreaFacts ==
  ASSUME Static
  PROVE  /\ Ahead(0) = 0 /\ Behind(n) = 0 /\ Behind(0) \in Nat /\ Ahead(n) \in Nat
         /\ Base \in Nat /\ Top \in Nat /\ last <= Base /\ Base <= Top
         /\ Base = last + Behind(0) /\ Top = Base + Ahead(n)
<1>1. n \in Nat /\ last \in Nat
  BY FieldBounds
<1>2. SumOver(Wd, 0 .. 0 - 1) = 0 /\ SumOver(Sl, n .. n - 1) = 0
  BY <1>1, SumNone
<1>3. 0 \in 0 .. n /\ n \in 0 .. n /\ 0 <= n
  BY <1>1
<1>4. Behind(0) \in Nat /\ Ahead(n) \in Nat
  BY <1>3, AheadSplit, BehindSplit
<1>5. QED BY <1>1, <1>2, <1>4 DEF Ahead, Behind, Base, Top

\* The body words of a field lie between Base and Top, after those of the
\* fields before it.
LEMMA PlaceFacts ==
  ASSUME Static, NEW f \in Fields
  PROVE  /\ Place(f) \in Int /\ Base <= Place(f) - Wd[f] /\ Place(f) <= Top
         /\ \A g \in Fields : f < g => Place(g) <= Place(f) - Wd[f]
<1>1. n \in Nat /\ f \in 0 .. n - 1 /\ Fields = 0 .. n - 1 /\ Wd[f] \in Nat
  BY FieldBounds
<1>2. Base \in Nat /\ Top = Base + Ahead(n) /\ Ahead(n) \in Nat
  BY AreaFacts
<1>3. Ahead(f + 1) = Ahead(f) + Wd[f] /\ Ahead(f) \in Nat /\ Ahead(f + 1) \in Nat
  BY AheadStep
<1> DEFINE j == f + 1
<1>4. j \in 0 .. n /\ n \in 0 .. n /\ j <= n
  BY <1>1
<1>5. Ahead(j) = Ahead(f) + Wd[f]
  BY <1>3
<1>6. ASSUME NEW g \in 0 .. n, j <= g PROVE Ahead(j) <= Ahead(g)
  <2> HIDE DEF j
  <2>1. Ahead(g) = Ahead(j) + SumOver(Wd, j .. g - 1) /\ Ahead(j) \in Nat
        /\ SumOver(Wd, j .. g - 1) \in Nat
    BY <1>4, <1>6, AheadSplit
  <2>2. QED BY <2>1
<1>7. Ahead(j) <= Ahead(n)
  BY <1>4, <1>6
<1>8. Base <= Place(f) - Wd[f] /\ Place(f) <= Top /\ Place(f) \in Int
  <2>1. Ahead(f) + Wd[f] <= Ahead(n) /\ Wd[f] \in Nat
    BY <1>1, <1>5, <1>7
  <2>2. Place(f) = Top - Ahead(f)
    BY DEF Place
  <2> HIDE DEF j
  <2>3. QED BY <1>2, <1>3, <2>1, <2>2
<1>9. ASSUME NEW g \in Fields, f < g PROVE Place(g) <= Place(f) - Wd[f]
  <2>1. g \in 0 .. n /\ j <= g
    BY <1>1, <1>9
  <2>2. Ahead(j) <= Ahead(g)
    BY <1>6, <2>1
  <2>3. Ahead(g) \in Nat
    BY AheadStep
  <2>4. Ahead(f) + Wd[f] <= Ahead(g)
    BY <1>5, <2>2
  <2>5. Place(f) = Top - Ahead(f) /\ Place(g) = Top - Ahead(g) /\ Top \in Nat
    BY <1>2 DEF Place
  <2> HIDE DEF j
  <2>6. QED BY <1>1, <1>3, <2>3, <2>4, <2>5
<1>10. QED BY <1>8, <1>9

\* The words of a segment lie between last and Base.
LEMMA SegmentPlace ==
  ASSUME Static, NEW f \in Fields, Sl[f] # 0
  PROVE  /\ parts[f].pos = last + Behind(f) /\ Sl[f] = LenOf(value[f])
         /\ parts[f].pos \in Nat /\ parts[f].pos <= Base
         /\ parts[f].pos - Sl[f] >= last
         /\ Wd[f] = 1 /\ Len3(parts[f]) = 0
<1>1. n \in Nat /\ f \in 0 .. n - 1 /\ last \in Nat /\ Sl[f] \in Nat
  BY FieldBounds
<1>2. LenOf(value[f]) >= 4 /\ LenOf(value[f]) \in 0 .. MaxLen
  BY UnitFacts, ScaleAssumption
<1>3. parts[f].pos = last + Behind(f) /\ Sl[f] = LenOf(value[f]) /\ Wd[f] = 1
      /\ Len3(parts[f]) = 0
  BY <1>2, UnitFacts
<1>4. Behind(f) = Sl[f] + Behind(f + 1) /\ Behind(f) \in Nat /\ Behind(f + 1) \in Nat
  BY AheadStep
<1>5. 0 \in 0 .. n /\ f \in 0 .. n /\ 0 <= f
  BY <1>1
<1>6. Behind(0) = SumOver(Sl, 0 .. f - 1) + Behind(f) /\ SumOver(Sl, 0 .. f - 1) \in Nat
  BY <1>5, BehindSplit
<1>7. Base = last + Behind(0)
  BY AreaFacts
<1>8. parts[f].pos \in Nat /\ parts[f].pos <= Base
  BY <1>1, <1>3, <1>4, <1>6, <1>7
<1>9. parts[f].pos - Sl[f] >= last
  BY <1>1, <1>3, <1>4
<1>10. QED BY <1>3, <1>8, <1>9

-----------------------------------------------------------------------------
(* The fields that are kept, and their groups.                             *)

\* The fields that are kept are the first ones; the others are empty.
LEMMA KeptFacts ==
  ASSUME Static
  PROVE  /\ Count \in 0 .. n /\ Kept = 0 .. Count - 1
         /\ \A f \in Fields : f >= Count => Us[f] = 0 /\ Wd[f] = 0 /\ Sl[f] = 0
         /\ Ahead(Count) = Ahead(n)
<1>1. n \in Nat /\ Fields = 0 .. n - 1 /\ IsFiniteSet(Fields) /\ Cardinality(Fields) = n
  BY FieldBounds
<1>2. Kept \subseteq Fields
  BY DEF Kept
<1>3. IsFiniteSet(Kept) /\ Count <= n /\ Count \in Nat
  BY <1>1, <1>2, FS_Subset, FS_CardinalityType DEF Count
<1>4. ASSUME NEW f \in Kept PROVE f \in 0 .. Count - 1
  <2>1. f \in 0 .. n - 1
    BY <1>1, <1>2
  <2>2. 0 .. f \subseteq Kept
    <3>1. PICK g \in Fields : g >= f /\ UnitSize(parts[g]) # 0
      BY DEF Kept
    <3>2. SUFFICES ASSUME NEW e \in 0 .. f PROVE e \in Kept
      OBVIOUS
    <3>3. e \in Fields /\ g >= e
      BY <1>1, <2>1, <3>1
    <3>4. QED BY <3>1, <3>3 DEF Kept
  <2>3. Cardinality(0 .. f) <= Count
    BY <1>3, <2>2, FS_Subset DEF Count
  <2>4. Cardinality(0 .. f) = f + 1
    BY <2>1, FS_Interval
  <2>5. QED BY <1>3, <2>1, <2>3, <2>4
<1>5. Kept \subseteq 0 .. Count - 1
  BY <1>4
<1>6. IsFiniteSet(0 .. Count - 1) /\ Cardinality(0 .. Count - 1) = Count
  BY <1>3, FS_Interval
<1>7. Kept = 0 .. Count - 1
  BY <1>5, <1>6, FS_Subset DEF Count
<1>8. ASSUME NEW f \in Fields, f >= Count PROVE Us[f] = 0 /\ Wd[f] = 0 /\ Sl[f] = 0
  <2>1. f \notin Kept
    BY <1>1, <1>3, <1>7, <1>8
  <2>2. UnitSize(parts[f]) = 0
    BY <1>1, <2>1 DEF Kept
  <2>3. LenOf(value[f]) = 0
    BY <2>2, UnitFacts
  <2>4. QED BY <2>2, <2>3, UnitFacts
<1>9. Ahead(Count) = Ahead(n)
  <2>1. Count \in 0 .. n /\ n \in 0 .. n /\ Count <= n
    BY <1>1, <1>3
  <2>2. Ahead(n) = Ahead(Count) + SumOver(Wd, Count .. n - 1) /\ Ahead(Count) \in Nat
    BY <2>1, AheadSplit
  <2>3. \A f \in Count .. n - 1 : Wd[f] = 0
    BY <1>1, <1>3, <1>8
  <2>4. SumOver(Wd, Count .. n - 1) = 0
    BY <2>3, SumZero
  <2>5. QED BY <2>2, <2>4
<1>10. QED BY <1>1, <1>3, <1>7, <1>8, <1>9

\* Multiplication keeps the order.
LEMMA TimesOrder ==
  ASSUME NEW a \in Nat, NEW b \in Int, NEW c \in Int, b <= c
  PROVE  a * b <= a * c
OBVIOUS

\* Division by the fields of a section.
LEMMA SectDivision ==
  ASSUME NEW m \in Nat
  PROVE  /\ Sect \in Nat /\ Sect = 2 * First + 1 /\ m \div Sect \in Nat
         /\ Sect * (m \div Sect) <= m /\ m < Sect * (m \div Sect) + Sect
BY ScaleAssumption DEF Sect

\* There are as many sections as the fields that are kept need.
LEMMA SectionFacts ==
  ASSUME Static
  PROVE  /\ Section \in Nat /\ Section <= Count
         /\ \A a \in 0 .. Section : GroupStart(a) \in Nat /\ GroupStart(a) <= Count
         /\ GroupStart(Section + 1) \in Nat /\ GroupStart(Section + 1) >= Count
         /\ \A a \in 0 .. Section : GroupStart(a) <= GroupStart(a + 1)
<1> USE ScaleAssumption
<1>1. Count \in Nat
  BY KeptFacts, FieldBounds
<1> DEFINE m == Count + First
<1>2. m \in Nat /\ Section = m \div Sect
  BY <1>1 DEF Section, Sections
<1> HIDE DEF m
<1>3. /\ Sect \in Nat /\ Sect = 2 * First + 1 /\ Section \in Nat
      /\ Sect * Section <= m /\ m < Sect * Section + Sect
  BY <1>2, SectDivision
<1>4. GroupStart(Section + 1) = First + Sect * Section
  BY <1>3 DEF GroupStart
<1>5. Sect * Section \in Nat
  BY <1>3
<1>6. GroupStart(Section + 1) \in Nat /\ GroupStart(Section + 1) >= Count
  <2>1. m = Count + First
    BY DEF m
  <2>2. QED BY <1>1, <1>3, <1>4, <1>5, <2>1
<1>7. ASSUME NEW a \in 1 .. Section PROVE GroupStart(a) \in Nat /\ GroupStart(a) <= Count
  <2>1. GroupStart(a) = First + Sect * (a - 1)
    BY <1>3 DEF GroupStart
  <2>2. Sect * (a - 1) <= Sect * (Section - 1) /\ Sect * (a - 1) \in Nat
    <3>1. a - 1 \in Int /\ Section - 1 \in Int /\ a - 1 <= Section - 1 /\ a - 1 \in Nat
      BY <1>3
    <3>2. QED BY <1>3, <3>1, TimesOrder
  <2>3. Sect * (Section - 1) = Sect * Section - Sect
    BY <1>3
  <2>4. m = Count + First
    BY DEF m
  <2>5. First + Sect * (a - 1) <= Count
    BY <1>1, <1>3, <1>5, <2>2, <2>3, <2>4
  <2>6. QED BY <2>1, <2>2, <2>5
<1>8. GroupStart(0) = 0
  BY DEF GroupStart
<1>9. \A a \in 0 .. Section : GroupStart(a) \in Nat /\ GroupStart(a) <= Count
  BY <1>1, <1>3, <1>7, <1>8
<1>10. Section <= Count
  <2>1. CASE Count = 0
    <3>1. Sect * Section <= First
      BY <1>1, <1>3, <2>1 DEF m
    <3>2. CASE Section = 0
      BY <2>1, <3>2
    <3>3. CASE Section # 0
      <4>1. Sect * 1 <= Sect * Section
        BY <1>3, <3>3, TimesOrder
      <4>2. QED BY <1>3, <1>5, <3>1, <4>1
    <3>4. QED BY <3>2, <3>3
  <2>2. CASE Count # 0
    <3>1. CASE Section = 0
      BY <1>1, <3>1
    <3>2. CASE Section # 0
      <4>1. Section \in 1 .. Section
        BY <1>3, <3>2
      <4>2. First + Sect * (Section - 1) <= Count
        BY <1>3, <1>7, <3>2, <4>1 DEF GroupStart
      <4>3. 1 * (Section - 1) <= Sect * (Section - 1)
        BY <1>3, <3>2
      <4>4. Sect * (Section - 1) \in Nat
        BY <1>3, <3>2
      <4>5. QED BY <1>1, <1>3, <4>2, <4>3, <4>4
    <3>3. QED BY <3>1, <3>2
  <2>3. QED BY <2>1, <2>2
<1>11. ASSUME NEW a \in 0 .. Section PROVE GroupStart(a) <= GroupStart(a + 1)
  <2>1. CASE a = 0
    BY <1>3, <2>1 DEF GroupStart
  <2>2. CASE a # 0
    <3>1. GroupStart(a) = First + Sect * (a - 1) /\ GroupStart(a + 1) = First + Sect * a
      BY <1>3, <2>2 DEF GroupStart
    <3>2. Sect * (a - 1) <= Sect * a
      BY <1>3, TimesOrder
    <3>3. Sect * (a - 1) \in Int /\ Sect * a \in Int
      BY <1>3
    <3>4. QED BY <3>1, <3>2, <3>3
  <2>3. QED BY <2>1, <2>2
<1>12. QED BY <1>3, <1>6, <1>9, <1>10, <1>11

\* Group a holds the fields from Limit(a) up to Limit(a + 1).
LEMMA GroupFacts ==
  ASSUME Static, NEW a \in 0 .. Section
  PROVE  /\ Limit(a) \in 0 .. Count /\ Limit(a + 1) \in 0 .. Count
         /\ Limit(a) <= Limit(a + 1)
         /\ Limit(a) = GroupStart(a)
         /\ Group(a) = Limit(a) .. Limit(a + 1) - 1
         /\ Group(a) \subseteq Fields /\ Group(a) \subseteq Kept
<1>1. Count \in 0 .. n /\ Kept = 0 .. Count - 1 /\ n \in Nat /\ Fields = 0 .. n - 1
  BY KeptFacts, FieldBounds
<1>2. GroupStart(a) \in Nat /\ GroupStart(a) <= Count /\ GroupStart(a) <= GroupStart(a + 1)
  BY SectionFacts
<1>3. GroupStart(a + 1) \in Nat
  <2>1. CASE a = Section
    BY <2>1, SectionFacts
  <2>2. CASE a # Section
    <3>1. a + 1 \in 0 .. Section
      BY <2>2, SectionFacts
    <3>2. QED BY <3>1, SectionFacts
  <2>3. QED BY <2>1, <2>2
<1>4. Limit(a) = GroupStart(a)
  BY <1>2 DEF Limit
<1>5. Limit(a + 1) = IF GroupStart(a + 1) <= Count THEN GroupStart(a + 1) ELSE Count
  BY DEF Limit
<1>6. Group(a) = {f \in Kept : GroupStart(a) <= f /\ f < GroupStart(a + 1)}
  BY DEF Group
<1> DEFINE s == GroupStart(a)
           t == GroupStart(a + 1)
           u == Limit(a + 1)
<1>7. s \in Nat /\ t \in Nat /\ s <= Count /\ s <= t /\ Count \in Nat
      /\ u = (IF t <= Count THEN t ELSE Count)
      /\ Group(a) = {f \in 0 .. Count - 1 : s <= f /\ f < t}
  BY <1>1, <1>2, <1>3, <1>5, <1>6
<1> HIDE DEF s, t, u
<1>8. Group(a) = s .. u - 1 /\ u \in 0 .. Count /\ s <= u /\ s \in 0 .. Count
  BY <1>7
<1>9. Group(a) \subseteq 0 .. n - 1
  BY <1>1, <1>7
<1>10. QED BY <1>1, <1>4, <1>7, <1>8, <1>9 DEF s, u

\* Behind the last group no field is left.
LEMMA LastGroup ==
  ASSUME Static
  PROVE  Limit(Section + 1) = Count /\ Limit(0) = 0
<1>1. GroupStart(Section + 1) \in Nat /\ GroupStart(Section + 1) >= Count /\ Count \in Nat
  BY SectionFacts, KeptFacts, FieldBounds
<1>2. Limit(Section + 1) = Count
  BY <1>1 DEF Limit
<1>3. Limit(0) = 0
  BY <1>1 DEF Limit, GroupStart
<1>4. QED BY <1>2, <1>3

-----------------------------------------------------------------------------
(* Serializing the fields.                                                 *)

\* The Unit of a value that is put into the buffer at place at.
UnitAt(v, at) ==
  IF LenOf(v) < 4 THEN [data |-> v.words, pos |-> 0, slen |-> 0]
  ELSE [data |-> <<>>, pos |-> at + LenOf(v), slen |-> LenOf(v)]

\* Field k becomes the value v: folded into the Unit, or a segment in front of
\* the buffer.
Put(v) ==
  /\ phase = "fields" /\ k >= 0 /\ IsValue(v)
  /\ n' = n /\ last' = last /\ k' = k - 1 /\ cnt' = cnt /\ pos' = pos /\ phase' = phase
  /\ vsize' = vsize
  /\ value' = [value EXCEPT ![k] = v]
  /\ parts' = [parts EXCEPT ![k] = UnitAt(v, size)]
  /\ size' = IF LenOf(v) < 4 THEN size ELSE size + LenOf(v)
  /\ mem' = [p \in 1 .. Room |-> mem'[p]]
  /\ \A p \in 1 .. Room : p <= size => mem'[p] = mem[p]
  /\ LenOf(v) >= 4 =>
       \A w \in 1 .. LenOf(v) : mem'[size + LenOf(v) - w + 1] = v.words[w]
  /\ OffsetsOK(mem)'

\* A state in which fields are serialized.
LEMMA FieldsState ==
  ASSUME TypeInv, MessageInv, phase = "fields"
  PROVE  /\ Static /\ k \in -1 .. n - 1 /\ size = Base /\ size \in Nat
         /\ \A f \in 0 .. k : value[f] = Nothing /\ Sl[f] = 0
         /\ size <= Before + MaxLen * (n - 1 - k) /\ size <= Room - (MaxLen * (k + 1))
         /\ size + 1 <= Room
         /\ \A f \in Fields : FieldOK(f) /\ SegmentOK(mem, f)
<1> USE ScaleAssumption
<1>1. Static /\ \A f \in Fields : FieldOK(f) /\ SegmentOK(mem, f)
  BY DEF TypeInv, MessageInv, FieldsInv, Static
<1>2. k \in -1 .. n - 1 /\ size = Base /\ size <= Before + MaxLen * (n - 1 - k)
      /\ size \in Nat /\ \A f \in 0 .. k : value[f] = Nothing
  BY DEF MessageInv, FieldsInv, TypeInv
<1>3. n \in Nat /\ n <= MaxFields /\ Fields = 0 .. n - 1
  BY <1>1, FieldBounds DEF TypeInv
<1>4. ASSUME NEW f \in 0 .. k PROVE Sl[f] = 0
  <2>1. f \in Fields /\ value[f] = Nothing
    BY <1>2, <1>3
  <2>2. LenOf(value[f]) < 4
    BY <2>1, NothingFacts
  <2>3. QED BY <1>1, <2>1, <2>2, UnitFacts
<1>5. size <= Room - (MaxLen * (k + 1)) /\ size + 1 <= Room
  <2>1. MaxLen * n <= MaxLen * MaxFields
    BY <1>3, TimesOrder
  <2>2. MaxLen * (n - 1 - k) = MaxLen * n - MaxLen * (k + 1)
    BY <1>2, <1>3
  <2>3. MaxFields * (MaxLen + 5) = MaxLen * MaxFields + 5 * MaxFields
    OBVIOUS
  <2>4. MaxLen * n \in Nat /\ MaxLen * MaxFields \in Nat /\ MaxLen * (k + 1) \in Nat
    BY <1>2, <1>3
  <2>5. QED BY <1>2, <1>3, <2>1, <2>2, <2>3, <2>4 DEF Room
<1>6. QED BY <1>1, <1>2, <1>4, <1>5

\* A field more leaves the segments, the sizes and the other Units right.
LEMMA PutField ==
  ASSUME TypeInv, MessageInv, NEW v, Put(v)
  PROVE  TypeInv' /\ MessageInv'
<1> USE ScaleAssumption
<1>1. /\ phase = "fields" /\ k >= 0 /\ IsValue(v)
      /\ n' = n /\ last' = last /\ k' = k - 1 /\ cnt' = cnt /\ pos' = pos /\ phase' = phase
      /\ vsize' = vsize
      /\ value' = [value EXCEPT ![k] = v]
      /\ parts' = [parts EXCEPT ![k] = UnitAt(v, size)]
      /\ size' = IF LenOf(v) < 4 THEN size ELSE size + LenOf(v)
      /\ mem' = [p \in 1 .. Room |-> mem'[p]]
      /\ \A p \in 1 .. Room : p <= size => mem'[p] = mem[p]
      /\ LenOf(v) >= 4 =>
           \A w \in 1 .. LenOf(v) : mem'[size + LenOf(v) - w + 1] = v.words[w]
      /\ OffsetsOK(mem)'
  BY DEF Put
<1>2. /\ Static /\ k \in 0 .. n - 1 /\ size = Base /\ size \in Nat
      /\ \A f \in 0 .. k : value[f] = Nothing /\ Sl[f] = 0
      /\ size <= Before + MaxLen * (n - 1 - k)
      /\ \A f \in Fields : FieldOK(f) /\ SegmentOK(mem, f)
  BY <1>1, FieldsState
<1>3. n \in Nat /\ last \in Nat /\ Fields = 0 .. n - 1 /\ Fields' = 0 .. n - 1
      /\ \A f \in 0 .. n - 1 : Sl[f] \in Nat
  BY <1>1, <1>2, FieldBounds DEF Fields
<1>4. value = [f \in 0 .. n - 1 |-> value[f]] /\ parts = [f \in 0 .. n - 1 |-> parts[f]]
  BY <1>3 DEF TypeInv
<1>5. LenOf(v) \in 0 .. MaxLen
  BY <1>1, ValueFacts
<1>6. /\ value'[k] = v /\ parts'[k] = UnitAt(v, size)
      /\ \A f \in (0 .. n - 1) \ {k} : value'[f] = value[f] /\ parts'[f] = parts[f]
  BY <1>1, <1>2, <1>4
<1>7. Sl'[k] = (IF LenOf(v) < 4 THEN 0 ELSE LenOf(v))
      /\ \A f \in (0 .. n - 1) \ {k} : Sl'[f] = Sl[f]
  <2>1. \A f \in 0 .. n - 1 : Sl'[f] = parts'[f].slen /\ Sl[f] = parts[f].slen
    BY <1>3 DEF Sl
  <2>2. UnitAt(v, size).slen = IF LenOf(v) < 4 THEN 0 ELSE LenOf(v)
    BY DEF UnitAt
  <2>3. QED BY <1>2, <1>6, <2>1, <2>2
<1>8. \A f \in 0 .. n - 1 : Sl'[f] \in Nat
  BY <1>3, <1>5, <1>7
<1>9. /\ \A f \in k + 1 .. n : SumOver(Sl', f .. n - 1) = SumOver(Sl, f .. n - 1)
      /\ SumOver(Sl', k .. n - 1) = Sl'[k] + SumOver(Sl, 0 .. n - 1)
      /\ SumOver(Sl', 0 .. n - 1) = Sl'[k] + SumOver(Sl, 0 .. n - 1)
      /\ SumOver(Sl, 0 .. n - 1) \in Nat
  BY <1>2, <1>3, <1>7, <1>8, SumPut
<1>10. /\ \A f \in k + 1 .. n : Behind(f)' = Behind(f)
       /\ \A f \in {0, k} : Behind(f)' = Sl'[k] + Behind(0)
       /\ Behind(0) \in Nat
  <2>1. \A f : Behind(f)' = SumOver(Sl', f .. n - 1) /\ Behind(f) = SumOver(Sl, f .. n - 1)
    <3>1. n' = n
      BY <1>1
    <3>2. QED BY <3>1 DEF Behind
  <2>2. QED BY <1>9, <2>1
<1>11. size = last + Behind(0)
  BY <1>2, AreaFacts
<1>12. size' = Base' /\ size' \in Nat
  <2>1. Base' = last + Behind(0)'
    BY <1>1 DEF Base
  <2>2. size' = size + Sl'[k] /\ Sl'[k] \in Nat
    BY <1>1, <1>2, <1>5, <1>7
  <2>3. QED BY <1>2, <1>3, <1>10, <1>11, <2>1, <2>2
<1>13. size' <= Before + MaxLen * (n' - 1 - k')
  <2>1. size' <= size + MaxLen
    BY <1>1, <1>2, <1>5
  <2>2. MaxLen * (n' - 1 - k') = MaxLen * (n - 1 - k) + MaxLen
    BY <1>1, <1>2, <1>3
  <2>3. MaxLen * (n - 1 - k) \in Int
    BY <1>2, <1>3
  <2>4. QED BY <1>2, <1>12, <2>1, <2>2, <2>3
<1>14. ASSUME NEW f \in 0 .. n - 1 PROVE FieldOK(f)'
  <2>1. CASE f = k
    <3>1. IsValue(value'[f])
      BY <1>1, <1>6, <2>1
    <3>2. UnitOf(f)' = IF LenOf(v) < 4 THEN [NoUnit EXCEPT !.data = v.words]
                       ELSE [data |-> <<>>, pos |-> last + Behind(f)', slen |-> LenOf(v)]
      BY <1>1, <1>6, <2>1 DEF UnitOf
    <3>3. LenOf(v) >= 4 => last + Behind(f)' = size + LenOf(v)
      BY <1>2, <1>3, <1>5, <1>7, <1>10, <1>11, <2>1
    <3>4. parts'[f] = UnitOf(f)'
      <4>1. CASE LenOf(v) < 4
        BY <1>6, <2>1, <3>2, <4>1 DEF UnitAt, NoUnit
      <4>2. CASE LenOf(v) >= 4
        BY <1>5, <1>6, <2>1, <3>2, <3>3, <4>2 DEF UnitAt
      <4>3. QED BY <1>5, <4>1, <4>2
    <3>5. QED BY <3>1, <3>4 DEF FieldOK, IsValue, Content
  <2>2. CASE f # k
    <3>1. FieldOK(f) /\ value'[f] = value[f] /\ parts'[f] = parts[f]
      BY <1>2, <1>3, <1>6, <2>2
    <3>2. UnitOf(f)' = UnitOf(f)
      <4>1. CASE f > k
        <5>1. Behind(f)' = Behind(f)
          BY <1>2, <1>3, <1>10, <4>1
        <5>2. QED BY <1>1, <3>1, <5>1 DEF UnitOf
      <4>2. CASE f < k
        <5>1. LenOf(value[f]) < 4
          BY <1>2, <4>2, NothingFacts
        <5>2. QED BY <3>1, <5>1 DEF UnitOf
      <4>3. QED BY <1>2, <2>2, <4>1, <4>2
    <3>3. QED BY <3>1, <3>2 DEF FieldOK, IsValue, Content
  <2>3. QED BY <2>1, <2>2
<1>15. ASSUME NEW f \in 0 .. n - 1 PROVE SegmentOK(mem, f)'
  <2>1. SUFFICES ASSUME Sl'[f] # 0, NEW w \in 1 .. Sl'[f]
                 PROVE  mem'[parts'[f].pos - w + 1] = value'[f].words[w]
    BY DEF SegmentOK
  <2>2. CASE f = k
    <3>1. LenOf(v) >= 4 /\ Sl'[f] = LenOf(v)
      BY <1>5, <1>7, <2>1, <2>2
    <3>2. parts'[f].pos = size + LenOf(v)
      BY <1>5, <1>6, <2>2, <3>1 DEF UnitAt
    <3>3. mem'[size + LenOf(v) - w + 1] = v.words[w]
      BY <1>1, <2>1, <3>1
    <3>4. value'[f] = v
      BY <1>6, <2>2
    <3>5. parts'[f].pos - w + 1 = size + LenOf(v) - w + 1
      BY <1>2, <1>5, <3>1, <3>2
    <3>6. QED BY <3>3, <3>4, <3>5
  <2>3. CASE f # k
    <3>1. Sl[f] # 0 /\ w \in 1 .. Sl[f] /\ value'[f] = value[f] /\ parts'[f] = parts[f]
      BY <1>6, <1>7, <2>1, <2>3
    <3>2. mem[parts[f].pos - w + 1] = value[f].words[w]
      BY <1>2, <1>3, <3>1 DEF SegmentOK
    <3>3. parts[f].pos \in Nat /\ parts[f].pos <= Base /\ parts[f].pos - Sl[f] >= last
      BY <1>2, <1>3, <3>1, SegmentPlace
    <3>4. parts[f].pos - w + 1 \in 1 .. Room /\ parts[f].pos - w + 1 <= size
      <4>1. size <= Room
        <5>1. size + 1 <= Room
          BY <1>1, FieldsState
        <5>2. Room \in Int
          BY DEF Room
        <5>3. QED BY <1>2, <5>1, <5>2
      <4>2. Room \in Int
        BY DEF Room
      <4>3. last \in Nat /\ size \in Nat /\ size = Base /\ Sl[f] \in Nat /\ w \in 1 .. Sl[f]
        BY <1>2, <3>1, FieldBounds, UnitFacts
      <4> DEFINE q == parts[f].pos
                 s == Sl[f]
      <4>4. q \in Nat /\ q <= size /\ q - s >= last /\ s \in Nat /\ w \in 1 .. s
        BY <3>3, <4>3
      <4> HIDE DEF q, s
      <4>5. q - w + 1 \in 1 .. Room /\ q - w + 1 <= size
        BY <4>1, <4>2, <4>3, <4>4
      <4>6. QED BY <4>5 DEF q
    <3>5. mem'[parts[f].pos - w + 1] = mem[parts[f].pos - w + 1]
      BY <1>1, <3>4
    <3>6. QED BY <3>1, <3>2, <3>5
  <2>4. QED BY <2>2, <2>3
<1>16. TypeInv'
  <2>1. n' \in 1 .. MaxFields /\ last' = Before /\ cnt' \in Nat /\ pos' \in Int
        /\ vsize' \in Nat /\ k' \in Int
    BY <1>1, <1>2 DEF TypeInv
  <2>2. value' = [f \in Fields' |-> value'[f]] /\ parts' = [f \in Fields' |-> parts'[f]]
    BY <1>1, <1>3, <1>4
  <2>3. QED BY <1>1, <1>12, <2>1, <2>2 DEF TypeInv
<1>17. FieldsInv'
  <2>1. k' \in -1 .. n' - 1 /\ cnt' = 0
    <3>1. cnt = 0
      BY <1>1 DEF MessageInv, FieldsInv
    <3>2. k' = k - 1 /\ n' = n /\ cnt' = cnt
      BY <1>1
    <3>3. k \in 0 .. n - 1 /\ n \in Nat
      BY <1>2, <1>3
    <3>4. QED BY <3>1, <3>2, <3>3
  <2>2. \A f \in 0 .. k' : value'[f] = Nothing
    BY <1>1, <1>2, <1>6
  <2>3. QED BY <1>3, <1>12, <1>13, <1>15, <2>1, <2>2 DEF FieldsInv
<1>18. MessageInv'
  BY <1>1, <1>3, <1>14, <1>17 DEF MessageInv, MarkInv, DoneInv
<1>19. QED BY <1>16, <1>18

\* Before field k is serialized, it is empty and there is room for it.
LEMMA BeforePut ==
  ASSUME TypeInv, MessageInv, phase = "fields", k >= 0
  PROVE  /\ k \in 0 .. n - 1 /\ value[k] = Nothing /\ parts[k] = NoUnit
         /\ size \in Nat /\ Room \in Nat /\ size + MaxLen <= Room
         /\ value = [f \in 0 .. n - 1 |-> value[f]] /\ parts = [f \in 0 .. n - 1 |-> parts[f]]
         /\ mem = [p \in 1 .. Room |-> mem[p]] /\ DOMAIN mem = 1 .. Room
<1> USE ScaleAssumption
<1>1. /\ Static /\ k \in -1 .. n - 1 /\ size \in Nat
      /\ \A f \in 0 .. k : value[f] = Nothing
      /\ size <= Room - (MaxLen * (k + 1))
      /\ \A f \in Fields : FieldOK(f)
  BY FieldsState
<1>2. Fields = 0 .. n - 1 /\ n \in Nat
  BY <1>1, FieldBounds
<1>3. k \in 0 .. n - 1 /\ value[k] = Nothing /\ FieldOK(k)
  BY <1>1, <1>2
<1>4. parts[k] = [NoUnit EXCEPT !.data = <<>>]
  <2>1. LenOf(value[k]) < 4
    BY <1>3, NothingFacts
  <2>2. value[k].words = <<>>
    BY <1>3 DEF Nothing, Value
  <2>3. QED BY <1>3, <2>1, <2>2 DEF FieldOK, UnitOf
<1>5. parts[k] = NoUnit
  BY <1>4 DEF NoUnit
<1>6. Room \in Nat
  <2>1. MaxFields * (MaxLen + 5) \in Nat
    OBVIOUS
  <2>2. QED BY <2>1 DEF Room
<1>7. size + MaxLen <= Room
  <2>1. MaxLen * 1 <= MaxLen * (k + 1) /\ MaxLen * (k + 1) \in Nat
    BY <1>3, <1>2, TimesOrder
  <2>2. QED BY <1>1, <1>6, <2>1
<1>8. value = [f \in 0 .. n - 1 |-> value[f]] /\ parts = [f \in 0 .. n - 1 |-> parts[f]]
      /\ mem = [p \in 1 .. Room |-> mem[p]]
  BY <1>2 DEF TypeInv
<1>9. DOMAIN mem = 1 .. Room
  BY <1>8
<1>10. QED BY <1>1, <1>3, <1>5, <1>6, <1>7, <1>8, <1>9

\* Nothing is put: the field is absent; a word in front of the buffer may change.
LEMMA PutNothing ==
  ASSUME TypeInv, MessageInv, phase = "fields", k >= 0,
         UNCHANGED <<n, last, size, value, parts, cnt, pos, phase, vsize>>, k' = k - 1,
         mem' = mem \/ mem' = [mem EXCEPT ![size + 1] = Word("head", 0, 0)]
  PROVE  Put(Nothing)
<1>1. /\ k \in 0 .. n - 1 /\ value[k] = Nothing /\ parts[k] = NoUnit /\ size \in Nat
      /\ value = [f \in 0 .. n - 1 |-> value[f]] /\ parts = [f \in 0 .. n - 1 |-> parts[f]]
      /\ mem = [p \in 1 .. Room |-> mem[p]]
  BY BeforePut
<1>2. IsValue(Nothing) /\ LenOf(Nothing) = 0
  BY NothingFacts DEF IsValue
<1>3. value' = [value EXCEPT ![k] = Nothing]
  BY <1>1
<1>4. UnitAt(Nothing, size) = NoUnit
  BY <1>2 DEF UnitAt, NoUnit, Nothing, Value
<1>5. parts' = [parts EXCEPT ![k] = UnitAt(Nothing, size)]
  BY <1>1, <1>4
<1>6. mem' = [p \in 1 .. Room |-> mem'[p]]
      /\ \A p \in 1 .. Room : mem'[p] = mem[p] \/ (mem'[p] = Word("head", 0, 0) /\ p = size + 1)
  BY <1>1
<1>7. \A p \in 1 .. Room : p <= size => mem'[p] = mem[p]
  BY <1>1, <1>6
<1>8. OffsetsOK(mem)'
  <2>1. Word("head", 0, 0).what # "offset"
    BY DEF Word
  <2>2. OffsetsOK(mem)
    BY DEF MessageInv
  <2>3. QED BY <1>6, <2>1, <2>2 DEF OffsetsOK
<1>9. LenOf(Nothing) < 4 /\ ~(LenOf(Nothing) >= 4)
  BY <1>2
<1>10. QED BY <1>2, <1>3, <1>5, <1>6, <1>7, <1>8, <1>9 DEF Put

\* A small value goes to the Unit.
LEMMA PutInlineValue ==
  ASSUME TypeInv, MessageInv, phase = "fields", k >= 0,
         UNCHANGED <<n, last, mem, size, cnt, pos, phase, vsize>>, k' = k - 1,
         NEW v, IsValue(v), LenOf(v) < 4, PutInline(v.object, v.words)
  PROVE  Put(v)
<1>1. /\ k \in 0 .. n - 1 /\ parts[k] = NoUnit /\ size \in Nat
      /\ parts = [f \in 0 .. n - 1 |-> parts[f]]
      /\ mem = [p \in 1 .. Room |-> mem[p]]
  BY BeforePut
<1>2. v = Value(v.object, v.words) /\ LenOf(v) \in Nat
  <2>1. v = Value(v.object, v.words) /\ LenOf(v) \in 0 .. MaxLen
    BY ValueFacts
  <2>2. QED BY <2>1, ScaleAssumption
<1>3. value' = [value EXCEPT ![k] = v] /\ parts' = [parts EXCEPT ![k].data = v.words]
  BY <1>2 DEF PutInline
<1>4. UnitAt(v, size) = [NoUnit EXCEPT !.data = v.words]
  BY DEF UnitAt, NoUnit
<1>5. parts' = [parts EXCEPT ![k] = UnitAt(v, size)]
  BY <1>1, <1>3, <1>4
<1>6. OffsetsOK(mem)'
  BY DEF OffsetsOK, MessageInv
<1>7. mem' = [p \in 1 .. Room |-> mem'[p]] /\ \A p \in 1 .. Room : p <= size => mem'[p] = mem[p]
  BY <1>1
<1>8. ~(LenOf(v) >= 4)
  BY <1>2
<1>9. QED BY <1>3, <1>5, <1>6, <1>7, <1>8 DEF Put

\* An object is written in front of the buffer; a small one is moved to the
\* Unit.
LEMMA PutObjectValue ==
  ASSUME TypeInv, MessageInv, phase = "fields", k >= 0,
         UNCHANGED <<n, last, cnt, pos, phase, vsize>>, k' = k - 1,
         NEW v, IsValue(v), v.object = TRUE, PutObject(v.words)
  PROVE  Put(v)
<1> USE ScaleAssumption
<1>1. /\ k \in 0 .. n - 1 /\ parts[k] = NoUnit /\ size \in Nat
      /\ Room \in Nat /\ size + MaxLen <= Room
      /\ parts = [f \in 0 .. n - 1 |-> parts[f]]
      /\ mem = [p \in 1 .. Room |-> mem[p]] /\ DOMAIN mem = 1 .. Room
  BY BeforePut
<1>2. v = Value(TRUE, v.words) /\ LenOf(v) \in 0 .. MaxLen
      /\ \A w \in 1 .. LenOf(v) : v.words[w].what = "data"
  BY ValueFacts
<1> DEFINE l == LenOf(v)
<1>3. Cardinality(DOMAIN v.words) = l
  BY DEF LenOf
<1>4. mem' = [p \in 1 .. Room |-> IF p \in size + 1 .. size + l
                                   THEN v.words[size + l - p + 1] ELSE mem[p]]
  BY <1>1, <1>3 DEF PutObject
<1>5. Folds(l) => /\ parts' = [parts EXCEPT ![k].data = FrontWords(mem', size + l, l)]
                  /\ size' = size
  BY <1>3 DEF PutObject
<1>6. ~Folds(l) => /\ parts' = [parts EXCEPT ![k].pos = size + l, ![k].slen = l]
                   /\ size' = size + l
  BY <1>3 DEF PutObject
<1>7. Folds(l) <=> l < 4
  BY DEF Folds
<1>8. value' = [value EXCEPT ![k] = v]
  BY <1>2 DEF PutObject
<1>9. size' = IF LenOf(v) < 4 THEN size ELSE size + LenOf(v)
  BY <1>5, <1>6, <1>7
<1> HIDE DEF l
<1>10. l \in Nat /\ l <= MaxLen /\ l = LenOf(v)
  BY <1>2 DEF l
<1>11. size \in Nat /\ Room \in Nat /\ size + MaxLen <= Room
  BY <1>1
<1>12. \A w \in 1 .. l : mem'[size + l - w + 1] = v.words[w]
  <2>1. SUFFICES ASSUME NEW w \in 1 .. l PROVE mem'[size + l - w + 1] = v.words[w]
    OBVIOUS
  <2> DEFINE p == size + l - w + 1
  <2>2. p \in 1 .. Room /\ p \in size + 1 .. size + l /\ size + l - p + 1 = w
    BY <1>11, <1>10
  <2> HIDE DEF p
  <2>3. mem'[p] = v.words[w]
    BY <1>4, <2>2
  <2>4. QED BY <2>3 DEF p
<1>13. FrontWords(mem', size + l, l) = v.words
  <2> DEFINE top == size + l
  <2>1. v.words = [w \in 1 .. l |-> v.words[w]]
    BY <1>10, ValueFacts
  <2>2. \A w \in 1 .. l : mem'[top - w + 1] = v.words[w]
    <3>1. SUFFICES ASSUME NEW w \in 1 .. l PROVE mem'[top - w + 1] = v.words[w]
      OBVIOUS
    <3>2. top - w + 1 = size + l - w + 1
      BY <1>10, <1>11
    <3>3. QED BY <1>12, <3>2
  <2> HIDE DEF top
  <2>3. FrontWords(mem', top, l) = [w \in 1 .. l |-> mem'[top - w + 1]]
    BY DEF FrontWords
  <2>4. FrontWords(mem', top, l) = v.words
    BY <2>1, <2>2, <2>3
  <2>5. QED BY <2>4 DEF top
<1>14. parts' = [parts EXCEPT ![k] = UnitAt(v, size)]
  <2>1. CASE l < 4
    <3>1. parts' = [parts EXCEPT ![k].data = v.words]
      BY <1>5, <1>7, <1>13, <2>1
    <3>2. UnitAt(v, size) = [NoUnit EXCEPT !.data = v.words]
      BY <1>10, <2>1 DEF UnitAt, NoUnit
    <3>3. QED BY <1>1, <3>1, <3>2
  <2>2. CASE ~(l < 4)
    <3>1. parts' = [parts EXCEPT ![k].pos = size + l, ![k].slen = l]
      BY <1>6, <1>7, <2>2
    <3>2. UnitAt(v, size) = [data |-> <<>>, pos |-> size + l, slen |-> l]
      BY <1>10, <2>2 DEF UnitAt
    <3>3. \A x, y : [NoUnit EXCEPT !.pos = x, !.slen = y] = [data |-> <<>>, pos |-> x, slen |-> y]
      <4>1. SUFFICES ASSUME NEW x, NEW y
                     PROVE  [[NoUnit EXCEPT !.pos = x] EXCEPT !.slen = y]
                              = [data |-> <<>>, pos |-> x, slen |-> y]
        OBVIOUS
      <4>2. [NoUnit EXCEPT !.pos = x] = [data |-> <<>>, pos |-> x, slen |-> 0]
        BY DEF NoUnit
      <4>3. [[data |-> <<>>, pos |-> x, slen |-> 0] EXCEPT !.slen = y]
              = [data |-> <<>>, pos |-> x, slen |-> y]
        OBVIOUS
      <4>4. QED BY <4>2, <4>3, Zenon
    <3>4. UnitAt(v, size) = [NoUnit EXCEPT !.pos = size + l, !.slen = l]
      BY <3>2, <3>3
    <3>5. QED BY <1>1, <3>1, <3>4
  <2>3. QED BY <2>1, <2>2
<1>15. \A p \in 1 .. Room : p <= size => mem'[p] = mem[p]
  BY <1>1, <1>4, <1>10
<1>16. OffsetsOK(mem)'
  <2>1. SUFFICES ASSUME NEW p \in 1 .. Room, mem'[p].what = "offset"
                 PROVE  mem'[p].v \in 1 .. SizeLimit - 1
    BY DEF OffsetsOK
  <2>2. CASE p \in size + 1 .. size + l
    <3>1. size + l - p + 1 \in 1 .. l
      BY <1>11, <1>10, <2>2
    <3>2. v.words[size + l - p + 1].what = "data"
      BY <1>2, <1>10, <3>1
    <3>3. QED BY <1>4, <2>1, <2>2, <3>2
  <2>3. CASE p \notin size + 1 .. size + l
    <3>1. mem'[p] = mem[p]
      BY <1>4, <2>3
    <3>2. QED BY <2>1, <3>1 DEF MessageInv, OffsetsOK
  <2>4. QED BY <2>2, <2>3
<1>17. mem' = [p \in 1 .. Room |-> mem'[p]]
  BY <1>4
<1>18. QED BY <1>8, <1>14, <1>9, <1>10, <1>12, <1>15, <1>16, <1>17 DEF Put

\* The values that the model makes.
LEMMA MakeValue ==
  ASSUME NEW g \in Nat, NEW l \in 1 .. MaxLen, NEW low \in {0, 3}, NEW object \in BOOLEAN,
         ~object => l <= 3, object /\ l <= 3 => low = 0
  PROVE  /\ IsValue(Value(object, Data(g, l, low)))
         /\ LenOf(Value(object, Data(g, l, low))) = l
         /\ Value(object, Data(g, l, low)).object = object
         /\ Value(object, Data(g, l, low)).words = Data(g, l, low)
<1> DEFINE v == Value(object, Data(g, l, low))
<1>1. v.object = object /\ v.words = Data(g, l, low)
  BY DEF Value
<1>2. l \in Nat
  BY ScaleAssumption
<1>3. LenOf(v) = l
  <2>1. DOMAIN Data(g, l, low) = 1 .. l
    BY DEF Data
  <2>2. Cardinality(1 .. l) = l
    BY <1>2, FS_Interval
  <2> HIDE DEF v
  <2>3. QED BY <1>1, <2>1, <2>2, Zenon DEF LenOf
<1>4. Content(v, g, l, low)
  BY <1>1 DEF Content
<1>5. IsValue(v)
  BY <1>4 DEF IsValue
<1>6. QED BY <1>1, <1>3, <1>5

\* The fields of the original message.
LEMMA WriteField ==
  ASSUME TypeInv, MessageInv, Write, UNCHANGED lazyVars
  PROVE  TypeInv' /\ MessageInv' /\ phase' = phase
<1> USE ScaleAssumption
<1>1. vsize' = vsize /\ phase = "fields" /\ k >= 0
  BY DEF lazyVars, Write, FieldMissing, FieldInline, FieldObject, FieldEmptyMessage
<1>2. k \in Nat
  BY <1>1, BeforePut DEF TypeInv
<1>3. CASE FieldMissing \/ FieldEmptyMessage
  <2>1. UNCHANGED <<n, last, size, value, parts, cnt, pos, phase, vsize>> /\ k' = k - 1
        /\ (mem' = mem \/ mem' = [mem EXCEPT ![size + 1] = Word("head", 0, 0)])
    BY <1>1, <1>3 DEF FieldMissing, FieldEmptyMessage
  <2>2. Put(Nothing)
    BY <1>1, <2>1, PutNothing
  <2>3. QED BY <2>1, <2>2, PutField
<1>4. CASE FieldInline
  <2>1. PICK s \in ScalarShapes : PutInline(FALSE, Data(k, s[1], s[2]))
    BY <1>4 DEF FieldInline
  <2>2. UNCHANGED <<n, last, mem, size, cnt, pos, phase, vsize>> /\ k' = k - 1
    BY <1>1, <1>4 DEF FieldInline
  <2> DEFINE l == s[1]
             low == s[2]
             v == Value(FALSE, Data(k, l, low))
  <2>3. l \in 1 .. MaxLen /\ l <= 3 /\ low \in {0, 3} /\ PutInline(FALSE, Data(k, l, low))
    <3>1. s = <<1, 3>> \/ s = <<2, 3>>
      BY DEF ScalarShapes
    <3>2. l \in {1, 2} /\ low = 3
      BY <3>1
    <3>3. l \in 1 .. MaxLen /\ l <= 3 /\ low \in {0, 3}
      BY <3>2
    <3>4. QED BY <2>1, <3>3, Zenon
  <2> HIDE DEF l, low
  <2>4. IsValue(v) /\ LenOf(v) = l /\ v.object = FALSE /\ v.words = Data(k, l, low)
    <3> DEFINE o == FALSE
    <3>1. o \in BOOLEAN /\ (~o => l <= 3) /\ (o /\ l <= 3 => low = 0) /\ k \in Nat
      BY <1>2, <2>3
    <3> HIDE DEF o
    <3>2. /\ IsValue(Value(o, Data(k, l, low))) /\ LenOf(Value(o, Data(k, l, low))) = l
          /\ Value(o, Data(k, l, low)).object = o
          /\ Value(o, Data(k, l, low)).words = Data(k, l, low)
      BY <2>3, <3>1, MakeValue
    <3>3. QED BY <3>2, Zenon DEF o
  <2> HIDE DEF v
  <2>5. LenOf(v) < 4 /\ PutInline(v.object, v.words)
    <3>1. LenOf(v) < 4
      BY <2>3, <2>4
    <3>2. QED BY <2>3, <2>4, <3>1, Zenon
  <2>6. Put(v)
    BY <1>1, <2>2, <2>4, <2>5, PutInlineValue
  <2>7. QED BY <2>2, <2>6, PutField
<1>5. CASE FieldObject
  <2>1. PICK s \in ObjectShapes : PutObject(Data(k, s[1], s[2]))
    BY <1>5 DEF FieldObject
  <2>2. UNCHANGED <<n, last, cnt, pos, phase, vsize>> /\ k' = k - 1
    BY <1>1, <1>5 DEF FieldObject
  <2>3. PICK l \in 2 .. MaxLen : s = <<l, IF l > 3 THEN 3 ELSE 0>>
    BY DEF ObjectShapes
  <2> DEFINE low == IF l > 3 THEN 3 ELSE 0
             v == Value(TRUE, Data(k, l, low))
  <2>4. PutObject(Data(k, l, low))
    BY <2>1, <2>3
  <2>5. l \in 1 .. MaxLen /\ low \in {0, 3} /\ (l <= 3 => low = 0)
    OBVIOUS
  <2> HIDE DEF low
  <2>6. IsValue(v) /\ v.object = TRUE /\ v.words = Data(k, l, low)
    <3> DEFINE o == TRUE
    <3>1. o \in BOOLEAN /\ (~o => l <= 3) /\ (o /\ l <= 3 => low = 0) /\ k \in Nat
      BY <1>2, <2>5
    <3> HIDE DEF o
    <3>2. /\ IsValue(Value(o, Data(k, l, low))) /\ Value(o, Data(k, l, low)).object = o
          /\ Value(o, Data(k, l, low)).words = Data(k, l, low)
      BY <2>5, <3>1, MakeValue
    <3>3. QED BY <3>2, Zenon DEF o
  <2> HIDE DEF v
  <2>7. PutObject(v.words)
    BY <2>4, <2>6
  <2>8. Put(v)
    BY <1>1, <2>2, <2>6, <2>7, PutObjectValue
  <2>9. QED BY <2>2, <2>8, PutField
<1>6. QED BY <1>3, <1>4, <1>5 DEF Write

-----------------------------------------------------------------------------
(* Writing head, sections and body.                                        *)

\* Fields and Units stay: so does everything that is derived from them.
LEMMA Frame ==
  ASSUME UNCHANGED <<n, last, value, parts>>
  PROVE  /\ Fields' = Fields /\ Wd' = Wd /\ Sl' = Sl /\ Us' = Us
         /\ Kept' = Kept /\ Count' = Count /\ Section' = Section
         /\ Base' = Base /\ Top' = Top /\ MessageSize' = MessageSize
         /\ \A f : Ahead(f)' = Ahead(f) /\ Behind(f)' = Behind(f) /\ Place(f)' = Place(f)
         /\ \A a : Limit(a)' = Limit(a) /\ Group(a)' = Group(a) /\ Marks(a)' = Marks(a)
                   /\ GroupMark(a)' = GroupMark(a)
         /\ \A f : FieldOK(f)' <=> FieldOK(f)
         /\ \A f, w : BodyWord(f, w)' = BodyWord(f, w)
<1>1. Fields' = Fields
  BY DEF Fields
<1>2. Wd' = Wd /\ Sl' = Sl /\ Us' = Us /\ Kept' = Kept
  BY <1>1 DEF Wd, Sl, Us, Kept
<1>3. \A f : Ahead(f)' = Ahead(f) /\ Behind(f)' = Behind(f)
  BY <1>2 DEF Ahead, Behind
<1>4. Base' = Base
  BY <1>3 DEF Base
<1>5. Top' = Top
  <2>1. \A f : f = n => Ahead(f)' = Ahead(f)
    BY <1>3
  <2>2. Ahead(n)' = Ahead(n)
    BY <1>2 DEF Ahead
  <2>3. QED BY <1>4, <2>2 DEF Top
<1>6. \A f : Place(f)' = Place(f)
  BY <1>3, <1>5 DEF Place
<1>7. Count' = Count
  BY <1>2 DEF Count
<1>8. Section' = Section
  BY <1>7 DEF Section, Sections
<1>9. \A a : Limit(a)' = Limit(a)
  BY <1>7 DEF Limit, GroupStart
<1>10. \A a : Group(a)' = Group(a)
  BY <1>2 DEF Group, GroupStart
<1>11. \A a : Marks(a)' = Marks(a)
  BY <1>2, <1>10 DEF Marks
<1>12. \A a : GroupMark(a)' = GroupMark(a)
  <2>1. SUFFICES ASSUME NEW a PROVE GroupMark(a)' = GroupMark(a)
    OBVIOUS
  <2>2. Ahead(Limit(a))' = Ahead(Limit(a))
    BY <1>2, <1>9 DEF Ahead
  <2>3. Marks(0)' = Marks(0) /\ Marks(a)' = Marks(a)
    BY <1>11
  <2>4. QED BY <1>8, <2>2, <2>3 DEF GroupMark, Word
<1>13. \A f : FieldOK(f)' <=> FieldOK(f)
  BY <1>3 DEF FieldOK, UnitOf, IsValue, Content
<1>14. \A f, w : BodyWord(f, w)' = BodyWord(f, w)
  BY <1>6 DEF BodyWord, Offset, Word, Len3
<1>15. MessageSize' = MessageSize
  BY <1>1 DEF MessageSize, UnitSize
<1>16. QED BY <1>1, <1>2, <1>3, <1>4, <1>5, <1>6, <1>7, <1>8, <1>9, <1>10, <1>11, <1>12,
              <1>13, <1>14, <1>15

\* The sums of the code are those of the widths.
LEMMA BodySizeFacts ==
  /\ \A S : BodySize(S) = SumOver(Wd, S)
  /\ MessageSize = SumOver(Us, Fields)
BY DEF BodySize, MessageSize, Wd, Us

\* Segments stay when the words up to Base do.
LEMMA KeepSegment ==
  ASSUME Static, UNCHANGED <<n, last, value, parts>>, NEW f \in Fields, SegmentOK(mem, f),
         \A p \in 1 .. Base : mem'[p] = mem[p]
  PROVE  SegmentOK(mem, f)'
<1>1. SUFFICES ASSUME Sl'[f] # 0, NEW w \in 1 .. Sl'[f]
               PROVE  mem'[parts'[f].pos - w + 1] = value'[f].words[w]
  BY DEF SegmentOK
<1>2. Sl[f] # 0 /\ w \in 1 .. Sl[f]
  BY <1>1, Frame
<1>3. mem[parts[f].pos - w + 1] = value[f].words[w]
  BY <1>2 DEF SegmentOK
<1>4. parts[f].pos \in Nat /\ parts[f].pos <= Base /\ parts[f].pos - Sl[f] >= last
  BY <1>2, SegmentPlace
<1>5. Sl[f] \in Nat /\ last \in Nat /\ Base \in Nat
  BY FieldBounds, AreaFacts
<1>6. parts[f].pos - w + 1 \in 1 .. Base
  BY <1>2, <1>4, <1>5
<1>7. mem'[parts[f].pos - w + 1] = mem[parts[f].pos - w + 1]
  BY <1>6
<1>8. QED BY <1>3, <1>7

\* The body ends where the sizes say, and fits.
LEMMA TopFacts ==
  ASSUME Static
  PROVE  /\ BodySize(Kept) = Ahead(n) /\ Ahead(n) \in Nat /\ Ahead(n) <= 3 * n
         /\ Base <= Before + MaxLen * n => Top + 1 + 2 * Section <= Room
<1> USE ScaleAssumption
<1>1. n \in Nat /\ n <= MaxFields /\ Fields = 0 .. n - 1 /\ IsFiniteSet(Fields)
      /\ Cardinality(Fields) = n
  BY FieldBounds DEF Static
<1>2. BodySize(Kept) = Ahead(n)
  BY BodySizeFacts, KeptFacts DEF Ahead
<1>3. Ahead(n) \in Nat /\ Base \in Nat /\ Top = Base + Ahead(n)
  BY AreaFacts
<1>4. Ahead(n) <= 3 * n
  <2> DEFINE t == 3
             c == [f \in Fields |-> t]
  <2>a. t = 3
    OBVIOUS
  <2>1. t \in Nat /\ 1 <= t
    OBVIOUS
  <2>2. \A f \in Fields : Wd[f] \in Nat /\ Wd[f] <= t
    BY UnitFacts
  <2> HIDE DEF t
  <2>3. \A f \in Fields : Wd[f] \in Nat /\ c[f] \in Nat /\ Wd[f] <= c[f]
    BY <2>1, <2>2
  <2>4. SumOver(Wd, Fields) <= SumOver(c, Fields)
    BY <1>1, <2>3, SumLess
  <2>5. SumOver(c, Fields) = Cardinality(Fields) * t
    <3>1. UNION {{f} \X (1 .. c[f]) : f \in Fields} = Fields \X (1 .. t)
      OBVIOUS
    <3>2. IsFiniteSet(1 .. t) /\ Cardinality(1 .. t) = t
      BY <2>1, FS_Interval
    <3>3. Cardinality(Fields \X (1 .. t)) = Cardinality(Fields) * Cardinality(1 .. t)
      BY <1>1, <3>2, FS_Product
    <3>4. QED BY <3>1, <3>2, <3>3 DEF SumOver
  <2>6. Ahead(n) = SumOver(Wd, Fields)
    BY <1>1 DEF Ahead
  <2>7. Ahead(n) <= n * 3
    BY <1>1, <2>a, <2>4, <2>5, <2>6
  <2>8. QED BY <1>1, <1>3, <2>7
<1>5. ASSUME Base <= Before + MaxLen * n PROVE Top + 1 + 2 * Section <= Room
  <2>1. Section \in Nat /\ Section <= n
    BY <1>1, SectionFacts, KeptFacts
  <2>2. MaxLen * n <= MaxLen * MaxFields /\ MaxLen * n \in Nat /\ MaxLen * MaxFields \in Nat
    BY <1>1, TimesOrder
  <2>3. MaxFields * (MaxLen + 5) = MaxLen * MaxFields + 5 * MaxFields
    OBVIOUS
  <2>4. Room = Before + MaxLen * MaxFields + 5 * MaxFields + 1
    BY <2>2, <2>3 DEF Room
  <2> DEFINE x == MaxLen * n
             y == MaxLen * MaxFields
  <2>5. x \in Nat /\ y \in Nat /\ x <= y /\ Room = Before + y + 5 * MaxFields + 1
        /\ Base <= Before + x
    BY <1>5, <2>2, <2>4
  <2> HIDE DEF x, y
  <2>6. QED BY <1>1, <1>3, <1>4, <2>1, <2>5
<1>6. QED BY <1>2, <1>3, <1>4, <1>5

\* The buffer of the model has its words.
LEMMA RoomFacts == Room \in Nat /\ (TypeInv => mem = [p \in 1 .. Room |-> mem[p]])
<1>1. MaxFields * (MaxLen + 5) \in Nat
  BY ScaleAssumption
<1>2. Room \in Nat
  BY <1>1, ScaleAssumption DEF Room
<1>3. QED BY <1>2 DEF TypeInv

\* A message without content.
LEMMA EmptyStep ==
  ASSUME TypeInv, MessageInv, WriteEmpty, vsize' = vsize
  PROVE  TypeInv' /\ MessageInv' /\ phase' = "done" /\ phase = "fields" /\ k = -1
<1> USE ScaleAssumption
<1>1. /\ phase = "fields" /\ k < 0 /\ Kept = {}
      /\ mem' = [mem EXCEPT ![size + 1] = Word("head", 0, [section |-> 0, mark |-> <<>>])]
      /\ size' = size + 1 /\ phase' = "done"
      /\ UNCHANGED <<n, last, value, parts, k, cnt, pos>>
  BY DEF WriteEmpty
<1>2. /\ Static /\ k = -1 /\ size = Base /\ size \in Nat /\ size + 1 <= Room
      /\ \A f \in Fields : FieldOK(f) /\ SegmentOK(mem, f)
  <2>1. k \in -1 .. n - 1 /\ n \in Nat
    BY <1>1, FieldsState, FieldBounds
  <2>2. k = -1
    BY <1>1, <2>1
  <2>3. QED BY <1>1, <2>2, FieldsState
<1>3. Room \in Nat /\ mem = [p \in 1 .. Room |-> mem[p]]
  BY RoomFacts
<1>4. size + 1 \in 1 .. Room
  BY <1>2, <1>3
<1>5. mem'[size + 1] = Word("head", 0, [section |-> 0, mark |-> <<>>])
      /\ (\A p \in 1 .. Room : p # size + 1 => mem'[p] = mem[p])
      /\ mem' = [p \in 1 .. Room |-> mem'[p]]
  BY <1>1, <1>3, <1>4
<1>6. Count = 0 /\ Section = 0
  <2>1. Count = 0
    BY <1>1, FS_EmptySet DEF Count
  <2>2. QED BY <1>2, <2>1, SectionFacts
<1>7. Ahead(n) = 0 /\ Top = Base
  <2>1. Ahead(n) = Ahead(Count) /\ Ahead(0) = 0
    BY <1>2, KeptFacts, AreaFacts
  <2>2. QED BY <1>2, <1>6, <2>1, AreaFacts
<1>8. MessageOK(mem, size)'
  <2>1. Section' = 0 /\ Top' = Top /\ Fields' = Fields
    BY <1>1, <1>6, Frame
  <2>2. size' = Top' + 1 + 2 * Section'
    BY <1>1, <1>2, <1>7, <2>1
  <2>3. ASSUME NEW f \in Fields' PROVE SegmentOK(mem, f)'
    <3>1. f \in Fields /\ SegmentOK(mem, f)
      BY <1>2, <2>1, <2>3
    <3>2. \A p \in 1 .. Base : mem'[p] = mem[p]
      BY <1>2, <1>3, <1>5
    <3>3. QED BY <1>1, <1>2, <3>1, <3>2, KeepSegment
  <2>4. ASSUME NEW a \in 0 .. Section' PROVE GroupOK(mem, size, a)'
    <3>1. a = 0
      BY <2>1, <2>4
    <3>2. Group(a)' = {} /\ Marks(a)' = <<>>
      <4>1. Group(a) = {}
        BY <1>1 DEF Group
      <4>2. DOMAIN Marks(a) = {} /\ Marks(a) = [f \in {} |-> Wd[f]]
        BY <4>1 DEF Marks
      <4>3. Marks(a) = <<>>
        BY <4>2
      <4>4. QED BY <1>1, <4>1, <4>3, Frame
    <3>3. GroupMark(a)' = Word("head", 0, [section |-> 0, mark |-> <<>>])
      <4>1. Marks(0)' = <<>>
        BY <3>1, <3>2
      <4>2. QED BY <2>1, <3>1, <4>1 DEF GroupMark
    <3>4. GroupPlace(size, a)' = size + 1
      BY <1>1, <3>1 DEF GroupPlace
    <3>5. mem'[size + 1] = GroupMark(a)'
      BY <1>5, <3>3
    <3>6. QED BY <3>2, <3>4, <3>5 DEF GroupOK
  <2>5. QED BY <2>2, <2>3, <2>4 DEF MessageOK
<1>9. OffsetsOK(mem)'
  <2>1. Word("head", 0, [section |-> 0, mark |-> <<>>]).what # "offset"
    BY DEF Word
  <2>2. OffsetsOK(mem)
    BY DEF MessageInv
  <2>3. QED BY <1>5, <2>1, <2>2 DEF OffsetsOK
<1>10. \A f \in Fields' : FieldOK(f)'
  BY <1>1, <1>2, Frame
<1>11. TypeInv'
  <2>1. Fields' = Fields
    BY <1>1, Frame
  <2>2. size' \in Nat
    BY <1>1, <1>2
  <2>3. QED BY <1>1, <1>5, <2>1, <2>2 DEF TypeInv
<1>12. MessageInv'
  BY <1>1, <1>2, <1>8, <1>9, <1>10 DEF MessageInv, FieldsInv, MarkInv, DoneInv
<1>13. QED BY <1>1, <1>2, <1>11, <1>12

\* Head and body are allocated behind the objects, or the message is refused.
LEMMA StartStep ==
  ASSUME TypeInv, MessageInv, StartMessage, vsize' = vsize
  PROVE  /\ TypeInv' /\ MessageInv' /\ phase' \in {"mark", "failed"}
         /\ phase = "fields" /\ k = -1
<1> USE ScaleAssumption
<1> DEFINE head == Word("head", Section % 4, [section |-> Section, mark |-> <<>>])
<1>1. /\ phase = "fields" /\ k < 0
      /\ UNCHANGED <<n, last, value, parts, cnt>>
      /\ \/ phase' = "failed" /\ UNCHANGED <<mem, size, k, pos>>
         \/ /\ ~(MessageSize >= SizeLimit)
            /\ size' = size + (1 + 2 * Section) + BodySize(Kept)
            /\ pos' = size' - (1 + 2 * Section)
            /\ mem' = [mem EXCEPT ![size'] = head]
            /\ k' = 0 /\ phase' = "mark"
  BY DEF StartMessage, Section, Count
<1>2. /\ Static /\ k = -1 /\ size = Base /\ size \in Nat
      /\ size <= Before + MaxLen * n
      /\ \A f \in Fields : FieldOK(f) /\ SegmentOK(mem, f)
  <2>1. k \in -1 .. n - 1 /\ n \in Nat
    BY <1>1, FieldsState, FieldBounds
  <2>2. k = -1
    BY <1>1, <2>1
  <2>3. n - 1 - k = n
    BY <2>1, <2>2
  <2>4. size <= Before + MaxLen * (n - 1 - k)
    BY <1>1, FieldsState
  <2>5. QED BY <1>1, <2>2, <2>3, <2>4, FieldsState
<1>3. Fields' = Fields /\ \A f \in Fields' : FieldOK(f)'
  BY <1>1, <1>2, Frame
<1>4. CASE phase' = "failed" /\ UNCHANGED <<mem, size, k, pos>>
  <2>1. TypeInv'
    BY <1>1, <1>3, <1>4 DEF TypeInv
  <2>2. OffsetsOK(mem)'
    BY <1>4 DEF MessageInv, OffsetsOK
  <2>3. MessageInv'
    BY <1>4, <2>2 DEF MessageInv, FieldsInv, MarkInv, DoneInv
  <2>4. QED BY <1>1, <1>2, <1>4, <2>1, <2>3
<1>5. CASE /\ ~(MessageSize >= SizeLimit)
           /\ size' = size + (1 + 2 * Section) + BodySize(Kept)
           /\ pos' = size' - (1 + 2 * Section)
           /\ mem' = [mem EXCEPT ![size'] = head]
           /\ k' = 0 /\ phase' = "mark"
  <2>1. Section \in Nat /\ BodySize(Kept) = Ahead(n) /\ Ahead(n) \in Nat
        /\ Top = Base + Ahead(n) /\ Base \in Nat /\ Top \in Nat
        /\ Top + 1 + 2 * Section <= Room
    BY <1>2, SectionFacts, TopFacts, AreaFacts
  <2>2. size' = Top + 1 + 2 * Section /\ pos' = Top
    <3>1. /\ size' = size + (1 + 2 * Section) + BodySize(Kept)
          /\ pos' = size' - (1 + 2 * Section) /\ size = Base
      BY <1>2, <1>5
    <3>2. QED BY <2>1, <3>1
  <2>3. mem = [p \in 1 .. Room |-> mem[p]] /\ Room \in Nat
    BY RoomFacts
  <2>4. size' \in 1 .. Room /\ size' > Base /\ size' \in Nat
    <3>1. Room \in Nat
      BY <2>3
    <3>2. QED BY <2>1, <2>2, <3>1
  <2>5. mem'[size'] = head /\ (\A p \in 1 .. Room : p # size' => mem'[p] = mem[p])
        /\ mem' = [p \in 1 .. Room |-> mem'[p]]
    BY <1>5, <2>3, <2>4
  <2>6. ASSUME NEW f \in Fields' PROVE SegmentOK(mem, f)'
    <3>1. f \in Fields /\ SegmentOK(mem, f)
      BY <1>2, <1>3, <2>6
    <3>2. \A p \in 1 .. Base : p \in 1 .. Room /\ p # size'
      <4>1. Base < size' /\ size' <= Room /\ size' \in Nat /\ Base \in Nat /\ Room \in Nat
        BY <2>1, <2>3, <2>4
      <4>2. QED BY <4>1
    <3>a. \A p \in 1 .. Base : mem'[p] = mem[p]
      BY <2>5, <3>2
    <3>3. QED BY <1>1, <1>2, <3>1, <3>a, KeepSegment
  <2>7. OffsetsOK(mem)'
    <3>1. head.what # "offset"
      BY DEF Word
    <3>2. OffsetsOK(mem)
      BY DEF MessageInv
    <3>3. QED BY <2>5, <3>1, <3>2 DEF OffsetsOK
  <2>8. cnt' = 0 /\ cnt' = Ahead(Limit(k))'
    <3>1. cnt' = 0
      BY <1>1 DEF MessageInv, FieldsInv
    <3>2. \A a : a = 0 => Ahead(Limit(a))' = Ahead(Limit(a))
      BY <1>1, Frame DEF Ahead
    <3>3. Limit(0) = 0 /\ Ahead(0) = 0
      BY <1>2, LastGroup, AreaFacts
    <3>4. Ahead(Limit(k))' = 0
      <4>1. Limit(k)' = 0
        <5>1. Limit(k)' = Limit(0)'
          BY <1>5 DEF Limit
        <5>2. Limit(0)' = Limit(0)
          BY <1>1, Frame
        <5>3. QED BY <3>3, <5>1, <5>2
      <4>2. Ahead(Limit(k))' = SumOver(Wd', 0 .. Limit(k)' - 1)
        BY DEF Ahead
      <4>3. Wd' = Wd
        BY <1>1, Frame
      <4>4. Ahead(0) = SumOver(Wd, 0 .. 0 - 1)
        BY DEF Ahead
      <4>5. QED BY <3>3, <4>1, <4>2, <4>3, <4>4
    <3>5. QED BY <3>1, <3>4
  <2>9. MarkInv'
    <3>1. Section' = Section /\ Top' = Top /\ MessageSize' = MessageSize
      BY <1>1, Frame
    <3>2. MessageSize' < SizeLimit
      <4>1. MessageSize \in Nat
        <5>1. IsFiniteSet(Fields) /\ \A f \in Fields : Us[f] \in Nat
          BY <1>2, FieldBounds, UnitFacts
        <5>2. QED BY <5>1, UnitsFinite, BodySizeFacts
      <4>2. QED BY <1>5, <3>1, <4>1
    <3>3. mem'[size'] = head /\ head.v.section = Section
          /\ head = Word("head", Section' % 4, [section |-> Section', mark |-> <<>>])
      BY <2>5, <3>1 DEF Word
    <3>4. k' \in 0 .. Section' + 1 /\ size' = Top' + 1 + 2 * Section' /\ size' <= Room
          /\ pos' = Top' - cnt'
      BY <1>5, <2>1, <2>2, <2>4, <2>8, <3>1
    <3>5. \A a \in 0 .. k' - 1 : GroupOK(mem, size, a)'
      BY <1>5
    <3>6. mem'[size'].v.section = Section'
      BY <3>1, <3>3
    <3>7. QED BY <2>6, <2>8, <3>2, <3>3, <3>4, <3>5, <3>6 DEF MarkInv
  <2>10. TypeInv'
    <3>1. pos' \in Int /\ k' \in Int /\ cnt' \in Nat
      BY <1>5, <2>1, <2>2, <2>8
    <3>2. QED BY <1>1, <1>3, <1>5, <2>4, <2>5, <3>1 DEF TypeInv
  <2>11. MessageInv'
    BY <1>3, <1>5, <2>7, <2>9 DEF MessageInv, FieldsInv, DoneInv
  <2>12. QED BY <1>1, <1>2, <1>5, <2>10, <2>11
<1>6. QED BY <1>1, <1>4, <1>5

\* The sizes of the fields before and from field f on.
LEMMA SizeSplit ==
  ASSUME Static, NEW f \in 0 .. n
  PROVE  /\ MessageSize = SumOver(Us, 0 .. f - 1) + SumOver(Us, f .. n - 1)
         /\ SumOver(Us, 0 .. f - 1) \in Nat /\ SumOver(Us, f .. n - 1) \in Nat
<1> DEFINE m == n
           z == 0
<1>1. n \in Nat /\ Fields = 0 .. n - 1 /\ \A g \in 0 .. n - 1 : Us[g] \in Nat
  BY FieldBounds
<1>2. z \in Int /\ f \in Int /\ m \in Int /\ z <= f /\ f <= m
      /\ \A g \in z .. m - 1 : Us[g] \in Nat
  BY <1>1
<1>3. MessageSize = SumOver(Us, z .. m - 1)
  BY <1>1, BodySizeFacts
<1> HIDE DEF m, z
<1>4. SumOver(Us, z .. m - 1) = SumOver(Us, z .. f - 1) + SumOver(Us, f .. m - 1)
      /\ SumOver(Us, z .. f - 1) \in Nat /\ SumOver(Us, f .. m - 1) \in Nat
  BY <1>2, SumInterval
<1>5. QED BY <1>3, <1>4 DEF m, z

\* An offset leads from the body to the end of the segment, over less words
\* than the message has.
LEMMA OffsetBound ==
  ASSUME Static, NEW f \in Fields, Sl[f] # 0
  PROVE  /\ Place(f) - parts[f].pos \in Nat /\ Place(f) - parts[f].pos >= 1
         /\ Place(f) - parts[f].pos <= MessageSize
<1>1. n \in Nat /\ f \in 0 .. n - 1 /\ Fields = 0 .. n - 1
      /\ \A g \in 0 .. n - 1 : Wd[g] \in Nat /\ Sl[g] \in Nat /\ Us[g] \in Nat
  BY FieldBounds
<1>2. parts[f].pos = last + Behind(f) /\ Wd[f] = 1
  BY SegmentPlace
<1>3. Base = last + Behind(0) /\ Top = Base + Ahead(n) /\ last \in Nat
  BY AreaFacts, FieldBounds
<1>4. 0 \in 0 .. n /\ f \in 0 .. n /\ n \in 0 .. n /\ 0 <= f /\ f <= n
  BY <1>1
<1> DEFINE segs == SumOver(Sl, 0 .. f - 1)
           words == SumOver(Wd, f .. n - 1)
<1>5. Behind(0) = segs + Behind(f) /\ segs \in Nat /\ Behind(f) \in Nat
  BY <1>4, BehindSplit
<1>6. Ahead(n) = Ahead(f) + words /\ words \in Nat /\ Ahead(f) \in Nat
  BY <1>4, AheadSplit
<1>7. words >= 1
  <2> DEFINE m == n
  <2>1. f \in Int /\ m \in Int /\ f < m /\ \A g \in f .. m - 1 : Wd[g] \in Nat
    BY <1>1
  <2> HIDE DEF m
  <2>2. SumOver(Wd, f .. m - 1) = Wd[f] + SumOver(Wd, f + 1 .. m - 1)
        /\ SumOver(Wd, f + 1 .. m - 1) \in Nat
    BY <2>1, SumStep
  <2>3. words = Wd[f] + SumOver(Wd, f + 1 .. m - 1)
    BY <2>2 DEF m
  <2>4. QED BY <1>2, <2>2, <2>3
<1>8. Place(f) - parts[f].pos = segs + words
  <2> HIDE DEF segs, words
  <2>1. Place(f) = Top - Ahead(f)
    BY DEF Place
  <2>2. Top = last + (segs + Behind(f)) + (Ahead(f) + words)
    BY <1>3, <1>5, <1>6
  <2>3. QED BY <1>2, <1>3, <1>5, <1>6, <2>1, <2>2
<1>9. segs + words <= MessageSize
  <2>1. IsFiniteSet(0 .. f - 1) /\ IsFiniteSet(f .. n - 1)
    BY <1>1, FS_Interval
  <2>2. \A g \in 0 .. n - 1 : Wd[g] <= Us[g] /\ Sl[g] <= Us[g]
    <3>1. SUFFICES ASSUME NEW g \in 0 .. n - 1 PROVE Wd[g] <= Us[g] /\ Sl[g] <= Us[g]
      OBVIOUS
    <3>2. g \in Fields /\ MaxLen \in Nat
      BY <1>1, ScaleAssumption
    <3>3. LenOf(value[g]) \in Nat /\ Us[g] = LenOf(value[g])
      BY <3>2, UnitFacts
    <3>4. CASE LenOf(value[g]) < 4
      <4>1. Wd[g] = LenOf(value[g]) /\ Sl[g] = 0
        BY <3>2, <3>4, UnitFacts
      <4>2. QED BY <3>3, <4>1
    <3>5. CASE LenOf(value[g]) >= 4
      <4>1. Wd[g] = 1 /\ Sl[g] = LenOf(value[g])
        BY <3>2, <3>5, UnitFacts
      <4>2. QED BY <3>3, <3>5, <4>1
    <3>6. QED BY <3>3, <3>4, <3>5
  <2>3. \A g \in 0 .. f - 1 : Sl[g] \in Nat /\ Us[g] \in Nat /\ Sl[g] <= Us[g]
    BY <1>1, <2>2
  <2>4. \A g \in f .. n - 1 : Wd[g] \in Nat /\ Us[g] \in Nat /\ Wd[g] <= Us[g]
    BY <1>1, <2>2
  <2>5. segs <= SumOver(Us, 0 .. f - 1)
    BY <2>1, <2>3, SumLess
  <2>6. words <= SumOver(Us, f .. n - 1)
    BY <2>1, <2>4, SumLess
  <2>7. MessageSize = SumOver(Us, 0 .. f - 1) + SumOver(Us, f .. n - 1)
        /\ SumOver(Us, 0 .. f - 1) \in Nat /\ SumOver(Us, f .. n - 1) \in Nat
    BY <1>4, SizeSplit
  <2> HIDE DEF segs, words
  <2>8. QED BY <1>5, <1>6, <2>5, <2>6, <2>7
<1>10. QED BY <1>5, <1>6, <1>7, <1>8, <1>9

\* No two words of the body share a place.
LEMMA BodyPlaces ==
  ASSUME Static, NEW f \in Fields, NEW w \in 1 .. Wd[f]
  PROVE  /\ Place(f) - w + 1 \in Base + 1 .. Top
         /\ \A g \in Fields : \A v \in 1 .. Wd[g] :
              Place(f) - w + 1 = Place(g) - v + 1 => g = f /\ v = w
<1>1. f \in Nat /\ Wd[f] \in Nat /\ Base \in Nat /\ Top \in Nat
  BY FieldBounds, AreaFacts
<1>2. /\ Place(f) \in Int /\ Base <= Place(f) - Wd[f] /\ Place(f) <= Top
      /\ \A g \in Fields : f < g => Place(g) <= Place(f) - Wd[f]
  BY PlaceFacts
<1>3. Place(f) - w + 1 \in Base + 1 .. Top
  BY <1>1, <1>2
<1>4. ASSUME NEW g \in Fields, NEW v \in 1 .. Wd[g], Place(f) - w + 1 = Place(g) - v + 1
      PROVE  g = f /\ v = w
  <2>1. g \in Nat /\ Wd[g] \in Nat
    BY FieldBounds
  <2>2. Place(g) \in Int /\ (g < f => Place(f) <= Place(g) - Wd[g])
    BY PlaceFacts
  <2>3. f < g => Place(g) <= Place(f) - Wd[f]
    BY <1>2
  <2>4. g = f
    BY <1>1, <1>2, <1>4, <2>1, <2>2, <2>3
  <2>5. Place(g) = Place(f)
    BY <2>4
  <2>6. QED BY <1>1, <1>2, <1>4, <2>1, <2>4, <2>5
<1>5. QED BY <1>3, <1>4

\* The marks are behind the body, each group at its own place.
LEMMA MarkPlaces ==
  ASSUME Static, NEW s, s = Top + 1 + 2 * Section, NEW a \in 0 .. Section
  PROVE  /\ GroupPlace(s, a) \in Top + 1 .. s
         /\ \A b \in 0 .. Section : GroupPlace(s, b) = GroupPlace(s, a) => b = a
<1>1. Top \in Nat /\ Section \in Nat /\ s \in Nat
  BY AreaFacts, SectionFacts
<1>2. \A b \in 0 .. Section : GroupPlace(s, b) = IF b = 0 THEN s ELSE s - 1 - 2 * (b - 1)
  BY DEF GroupPlace
<1>3. QED BY <1>1, <1>2

\* A state in which groups are marked.
LEMMA MarkState ==
  ASSUME TypeInv, MessageInv, phase = "mark"
  PROVE  /\ Static /\ k \in 0 .. Section + 1 /\ Section \in Nat
         /\ size = Top + 1 + 2 * Section /\ size <= Room /\ size \in Nat
         /\ cnt = Ahead(Limit(k)) /\ pos = Top - cnt
         /\ MessageSize < SizeLimit /\ mem[size].v.section = Section
         /\ k = 0 => mem[size] = Word("head", Section % 4, [section |-> Section, mark |-> <<>>])
         /\ \A f \in Fields : FieldOK(f) /\ SegmentOK(mem, f)
         /\ \A a \in 0 .. k - 1 : GroupOK(mem, size, a)
         /\ OffsetsOK(mem)
<1>1. Static /\ OffsetsOK(mem) /\ \A f \in Fields : FieldOK(f)
  BY DEF TypeInv, MessageInv, Static
<1>2. Section \in Nat
  BY <1>1, SectionFacts
<1>3. QED BY <1>1, <1>2 DEF TypeInv, MessageInv, MarkInv

\* The words of group k and its mark are written, all others are kept.
LEMMA MarkWrite ==
  ASSUME TypeInv, MessageInv, MarkGroup, ~CountTooBig(k)
  PROVE  /\ phase = "mark" /\ k \in 0 .. Section
         /\ UNCHANGED <<n, last, size, value, parts, phase>>
         /\ k' = k + 1 /\ cnt' = Ahead(Limit(k + 1)) /\ pos' = Top - cnt'
         /\ mem' = [p \in 1 .. Room |-> mem'[p]]
         /\ mem'[GroupPlace(size, k)] = GroupMark(k)
         /\ \A f \in Group(k) : \A w \in 1 .. Wd[f] : mem'[Place(f) - w + 1] = BodyWord(f, w)
         /\ \A p \in 1 .. Room :
              \/ mem'[p] = mem[p] \/ p = GroupPlace(size, k)
              \/ \E f \in Group(k) : \E w \in 1 .. Wd[f] : p = Place(f) - w + 1
<1> USE ScaleAssumption
<1> DEFINE S == Group(k)
           place == [f \in S |-> pos - BodySize({g \in S : g < f})]
           word(f, w) == IF Len3(parts[f]) # 0 THEN parts[f].data[w]
                         ELSE Offset(OffsetDelta(place[f], parts[f]))
           marks == [f \in {f \in S : Width(parts[f]) # 0} |-> Width(parts[f])]
           owner(p) == {f \in DOMAIN marks : p \in place[f] - marks[f] + 1 .. place[f]}
<1>1. /\ phase = "mark" /\ k <= mem[size].v.section
      /\ UNCHANGED <<n, last, size, value, parts, phase>> /\ k' = k + 1
      /\ cnt' = cnt + BodySize(S) /\ pos' = pos - BodySize(S)
      /\ mem' = [p \in DOMAIN mem |->
                     IF p = MarkPlace(k)
                       THEN IF k = 0 THEN [mem[p] EXCEPT !.v.mark = marks]
                            ELSE Word("section", 0, [before |-> CountBefore(cnt, S),
                                                     mark |-> marks])
                     ELSE IF owner(p) # {}
                       THEN LET f == CHOOSE f \in owner(p) : TRUE
                            IN  word(f, place[f] - p + 1)
                     ELSE mem[p]]
  BY DEF MarkGroup
<1>2. /\ Static /\ k \in 0 .. Section + 1 /\ Section \in Nat
      /\ size = Top + 1 + 2 * Section /\ size <= Room /\ size \in Nat
      /\ cnt = Ahead(Limit(k)) /\ pos = Top - cnt
      /\ mem[size].v.section = Section
      /\ (k = 0 => mem[size] = Word("head", Section % 4, [section |-> Section, mark |-> <<>>]))
  BY <1>1, MarkState
<1>3. k \in 0 .. Section
  <2>1. k <= mem[size].v.section
    BY Zenon DEF MarkGroup
  <2>2. QED BY <1>2, <2>1
<1>4. /\ n \in Nat /\ Fields = 0 .. n - 1 /\ Count \in 0 .. n /\ Top \in Nat /\ Base \in Nat
      /\ \A f \in Fields : Wd[f] \in Nat /\ Wd[f] = Width(parts[f])
  BY <1>2, FieldBounds, KeptFacts, AreaFacts, UnitFacts
<1> DEFINE i == Limit(k)
           j == Limit(k + 1)
<1>5. i \in 0 .. n /\ j \in 0 .. n /\ i <= j /\ S = i .. j - 1 /\ S \subseteq Fields
  <2>1. i \in 0 .. Count /\ j \in 0 .. Count /\ i <= j /\ S = i .. j - 1 /\ S \subseteq Fields
    BY <1>2, <1>3, GroupFacts
  <2> HIDE DEF i, j, S
  <2>2. QED BY <1>4, <2>1
<1>6. cnt = Ahead(i) /\ pos = Top - Ahead(i)
  BY <1>2
<1> HIDE DEF i, j
<1>7. BodySize(S) = SumOver(Wd, i .. j - 1) /\ Ahead(j) = Ahead(i) + BodySize(S)
      /\ Ahead(i) \in Nat /\ BodySize(S) \in Nat /\ Ahead(j) \in Nat
  BY <1>2, <1>5, AheadSplit, BodySizeFacts
<1>8. cnt' = Ahead(Limit(k + 1)) /\ pos' = Top - cnt'
  <2>1. cnt' = Ahead(j) /\ pos' = Top - cnt'
    <3>1. cnt' = cnt + BodySize(S) /\ pos' = pos - BodySize(S)
      BY <1>1
    <3> HIDE DEF S
    <3>2. QED BY <1>4, <1>6, <1>7, <3>1
  <2>2. QED BY <2>1 DEF j
<1>9. \A f \in S : place[f] = Place(f)
  <2>1. SUFFICES ASSUME NEW f \in S PROVE pos - BodySize({g \in S : g < f}) = Place(f)
    OBVIOUS
  <2>2. f \in i .. j - 1 /\ f \in 0 .. n /\ i <= f
    BY <1>4, <1>5
  <2>3. {g \in S : g < f} = i .. f - 1
    BY <1>4, <1>5, <2>2
  <2>4. Ahead(f) = Ahead(i) + SumOver(Wd, i .. f - 1) /\ SumOver(Wd, i .. f - 1) \in Nat
    BY <1>2, <1>5, <2>2, AheadSplit
  <2>5. BodySize({g \in S : g < f}) = SumOver(Wd, i .. f - 1)
    BY <2>3, BodySizeFacts
  <2>6. QED BY <1>4, <1>6, <1>7, <2>4, <2>5 DEF Place
<1>10. marks = Marks(k)
  <2>1. {f \in S : Width(parts[f]) # 0} = {g \in Group(k) : Wd[g] # 0}
    BY <1>4, <1>5
  <2>2. \A f \in {g \in Group(k) : Wd[g] # 0} : Width(parts[f]) = Wd[f]
    BY <1>4, <1>5
  <2>3. QED BY <2>1, <2>2 DEF Marks
<1>11. \A f \in S : \A w : word(f, w) = BodyWord(f, w)
  BY <1>9 DEF BodyWord, OffsetDelta
<1>12. \A p : owner(p) = {f \in S : Wd[f] # 0 /\ p \in Place(f) - Wd[f] + 1 .. Place(f)}
  <2>1. SUFFICES ASSUME NEW p, NEW f
                 PROVE  f \in owner(p) <=>
                          f \in S /\ Wd[f] # 0 /\ p \in Place(f) - Wd[f] + 1 .. Place(f)
    OBVIOUS
  <2>2. DOMAIN marks = {g \in S : Wd[g] # 0}
    BY <1>4, <1>5
  <2>3. \A g \in DOMAIN marks : marks[g] = Wd[g] /\ place[g] = Place(g)
    BY <1>4, <1>5, <1>9
  <2>4. QED BY <2>2, <2>3
<1> HIDE DEF S, place, word, marks, owner
<1>13. mem' = [p \in 1 .. Room |-> mem'[p]] /\ DOMAIN mem = 1 .. Room /\ Room \in Nat
  <2>1. mem = [p \in 1 .. Room |-> mem[p]] /\ Room \in Nat
    BY RoomFacts
  <2>2. DOMAIN mem = 1 .. Room
    BY <2>1
  <2>3. QED BY <1>1, <2>1, <2>2
<1>14. MarkPlace(k) = GroupPlace(size, k) /\ GroupPlace(size, k) \in Top + 1 .. size
       /\ GroupPlace(size, k) \in 1 .. Room
  <2>1. MarkPlace(k) = GroupPlace(size, k)
    BY DEF MarkPlace, GroupPlace
  <2>2. GroupPlace(size, k) \in Top + 1 .. size
    BY <1>2, <1>3, MarkPlaces
  <2>3. size <= Room /\ size \in Nat /\ Top \in Nat /\ Room \in Nat
    BY <1>2, <1>4, RoomFacts
  <2>4. GroupPlace(size, k) \in 1 .. Room
    BY <2>2, <2>3
  <2>5. QED BY <2>1, <2>2, <2>4
<1>15. mem'[GroupPlace(size, k)] = GroupMark(k)
  <2>1. CASE k = 0
    <3>1. GroupPlace(size, k) = size
      BY <2>1 DEF GroupPlace
    <3>2. mem'[size] = [mem[size] EXCEPT !.v.mark = marks]
      BY <1>1, <1>13, <1>14, <2>1, <3>1
    <3>3. mem[size] = Word("head", Section % 4, [section |-> Section, mark |-> <<>>])
      BY <1>2, <2>1
    <3>4. GroupMark(k) = Word("head", Section % 4, [section |-> Section, mark |-> marks])
      BY <1>10, <2>1 DEF GroupMark
    <3>5. [mem[size] EXCEPT !.v.mark = marks]
            = Word("head", Section % 4, [section |-> Section, mark |-> marks])
      <4> DEFINE q == Section % 4
                 r == mem[size]
                 e == <<>>
      <4>1. r = Word("head", q, [section |-> Section, mark |-> e])
        BY <3>3
      <4> HIDE DEF q, r, e
      <4>2. [r EXCEPT !.v.mark = marks] = Word("head", q, [section |-> Section, mark |-> marks])
        BY <4>1 DEF Word
      <4>3. QED BY <4>2 DEF q, r
    <3>6. QED BY <3>1, <3>2, <3>4, <3>5, Zenon
  <2>2. CASE k # 0
    <3>1. cnt < CntLimit /\ cnt \in Nat
      BY <1>3, <1>6, <1>7, <2>2 DEF CountTooBig
    <3>2. CountBefore(cnt, S) = cnt
      BY <3>1 DEF CountBefore
    <3>3. mem'[GroupPlace(size, k)] = Word("section", 0, [before |-> cnt, mark |-> marks])
      BY <1>1, <1>13, <1>14, <2>2, <3>2
    <3>4. GroupMark(k) = Word("section", 0, [before |-> cnt, mark |-> marks])
      BY <1>2, <1>10, <2>2 DEF GroupMark
    <3>5. QED BY <3>3, <3>4
  <2>3. QED BY <2>1, <2>2
<1>16. ASSUME NEW f \in S, NEW w \in 1 .. Wd[f] PROVE mem'[Place(f) - w + 1] = BodyWord(f, w)
  <2> DEFINE p == Place(f) - w + 1
  <2>1. f \in Fields /\ Wd[f] \in Nat /\ Place(f) \in Int
    BY <1>2, <1>4, <1>5, PlaceFacts
  <2>2. p \in Base + 1 .. Top /\ \A g \in Fields : \A v \in 1 .. Wd[g] :
                                   p = Place(g) - v + 1 => g = f /\ v = w
    BY <1>2, <2>1, BodyPlaces
  <2>3. p \in 1 .. Room /\ p # GroupPlace(size, k)
    <3>1. p \in Base + 1 .. Top
      BY <2>2
    <3> HIDE DEF p
    <3>2. Top < size /\ size <= Room
      BY <1>2, <1>4
    <3>3. size \in Nat /\ Top \in Nat /\ Base \in Nat /\ Room \in Nat
          /\ GroupPlace(size, k) \in Top + 1 .. size
      BY <1>2, <1>4, <1>14, RoomFacts
    <3>4. QED BY <3>1, <3>2, <3>3
  <2>4. f \in owner(p)
    BY <1>12, <2>1
  <2>5. ASSUME NEW g \in owner(p) PROVE g = f
    <3>1. g \in S /\ p \in Place(g) - Wd[g] + 1 .. Place(g)
      BY <1>12
    <3>2. g \in Fields /\ Wd[g] \in Nat /\ Place(g) \in Int
      BY <1>2, <1>4, <1>5, <3>1, PlaceFacts
    <3> DEFINE v == Place(g) - p + 1
    <3>3. v \in 1 .. Wd[g] /\ p = Place(g) - v + 1
      BY <2>1, <3>1, <3>2
    <3>4. QED BY <2>2, <3>2, <3>3
  <2>6. (CHOOSE g \in owner(p) : TRUE) = f
    BY <2>4, <2>5
  <2>7. place[f] - p + 1 = w
    BY <1>9, <2>1
  <2> HIDE DEF p
  <2>8. mem'[p] = word(f, place[f] - p + 1)
    BY <1>1, <1>13, <1>14, <2>3, <2>4, <2>6
  <2>9. mem'[p] = BodyWord(f, w)
    BY <1>11, <2>7, <2>8
  <2>10. QED BY <2>9 DEF p
<1>17. ASSUME NEW p \in 1 .. Room
       PROVE  \/ mem'[p] = mem[p] \/ p = GroupPlace(size, k)
              \/ \E f \in S : \E w \in 1 .. Wd[f] : p = Place(f) - w + 1
  <2>1. CASE p # GroupPlace(size, k) /\ owner(p) = {}
    BY <1>1, <1>13, <1>14, <2>1
  <2>2. CASE owner(p) # {}
    <3>1. PICK f \in owner(p) : TRUE
      BY <2>2
    <3>2. f \in S /\ p \in Place(f) - Wd[f] + 1 .. Place(f)
      BY <1>12, <3>1
    <3>3. f \in Fields /\ Wd[f] \in Nat /\ Place(f) \in Int
      BY <1>2, <1>4, <1>5, <3>2, PlaceFacts
    <3> DEFINE w == Place(f) - p + 1
    <3>4. w \in 1 .. Wd[f] /\ p = Place(f) - w + 1
      BY <3>2, <3>3
    <3>5. QED BY <3>2, <3>4
  <2>3. QED BY <2>1, <2>2
<1>18. QED BY <1>1, <1>3, <1>8, <1>13, <1>15, <1>16, <1>17 DEF S

\* Marking a group keeps what was written, and its offsets fit their bits.
LEMMA MarkStep ==
  ASSUME TypeInv, MessageInv, MarkGroup, vsize' = vsize
  PROVE  TypeInv' /\ MessageInv' /\ phase = "mark" /\ phase' \in {"mark", "failed"}
<1>1. phase = "mark" /\ UNCHANGED <<n, last, size, value, parts>>
  BY DEF MarkGroup
<1>2. /\ Static /\ Section \in Nat
      /\ size = Top + 1 + 2 * Section /\ size <= Room /\ size \in Nat
      /\ MessageSize < SizeLimit /\ mem[size].v.section = Section
      /\ \A f \in Fields : FieldOK(f) /\ SegmentOK(mem, f)
      /\ \A a \in 0 .. k - 1 : GroupOK(mem, size, a)
      /\ OffsetsOK(mem) /\ k \in Int
  BY <1>1, MarkState DEF TypeInv
<1>3. Fields' = Fields /\ \A f \in Fields' : FieldOK(f)'
  BY <1>1, <1>2, Frame
<1>4. CASE CountTooBig(k)
  <2>1. phase' = "failed" /\ UNCHANGED <<mem, k, cnt, pos>>
    BY <1>4 DEF MarkGroup
  <2>2. TypeInv'
    BY <1>1, <1>3, <2>1 DEF TypeInv
  <2>3. OffsetsOK(mem)'
    BY <1>2, <2>1 DEF OffsetsOK
  <2>4. MessageInv'
    BY <2>1, <2>3 DEF MessageInv, FieldsInv, MarkInv, DoneInv
  <2>5. QED BY <1>1, <2>1, <2>2, <2>4
<1>5. CASE ~CountTooBig(k)
  <2>1. /\ phase' = phase /\ k \in 0 .. Section
        /\ k' = k + 1 /\ cnt' = Ahead(Limit(k + 1)) /\ pos' = Top - cnt'
        /\ mem' = [p \in 1 .. Room |-> mem'[p]]
        /\ mem'[GroupPlace(size, k)] = GroupMark(k)
        /\ \A f \in Group(k) : \A w \in 1 .. Wd[f] : mem'[Place(f) - w + 1] = BodyWord(f, w)
        /\ \A p \in 1 .. Room :
             \/ mem'[p] = mem[p] \/ p = GroupPlace(size, k)
             \/ \E f \in Group(k) : \E w \in 1 .. Wd[f] : p = Place(f) - w + 1
    BY <1>5, MarkWrite
  <2>2. /\ Base \in Nat /\ Top \in Nat /\ Base <= Top /\ n \in Nat
        /\ Room \in Nat /\ Group(k) \subseteq Fields /\ Limit(k + 1) \in 0 .. n
        /\ GroupPlace(size, k) \in Top + 1 .. size
    <3>1. Base \in Nat /\ Top \in Nat /\ Base <= Top /\ Room \in Nat
      BY <1>2, AreaFacts, RoomFacts
    <3>2. Limit(k + 1) \in 0 .. Count /\ Count \in 0 .. n /\ n \in Nat
      BY <1>2, <2>1, GroupFacts, KeptFacts, FieldBounds
    <3>3. Group(k) \subseteq Fields /\ GroupPlace(size, k) \in Top + 1 .. size
      BY <1>2, <2>1, GroupFacts, MarkPlaces
    <3>4. Limit(k + 1) \in 0 .. n
      BY <3>2
    <3>5. QED BY <3>1, <3>2, <3>3, <3>4
  <2>3. ASSUME NEW f \in Group(k), NEW w \in 1 .. Wd[f]
        PROVE  Place(f) - w + 1 \in Base + 1 .. Top
    BY <1>2, <2>2, BodyPlaces
  <2>4. \A p \in 1 .. Base : mem'[p] = mem[p]
    <3>1. SUFFICES ASSUME NEW p \in 1 .. Base PROVE mem'[p] = mem[p]
      OBVIOUS
    <3>2. p # GroupPlace(size, k)
      BY <2>2
    <3>3. \A f \in Group(k) : \A w \in 1 .. Wd[f] : p # Place(f) - w + 1
      BY <2>2, <2>3
    <3>4. p \in 1 .. Room
      BY <1>2, <2>2
    <3>5. QED BY <2>1, <3>2, <3>3, <3>4
  <2>5. ASSUME NEW f \in Fields' PROVE SegmentOK(mem, f)'
    <3>1. f \in Fields /\ SegmentOK(mem, f)
      BY <1>2, <1>3, <2>5
    <3>2. QED BY <1>1, <1>2, <2>4, <3>1, KeepSegment
  <2>6. ASSUME NEW a \in 0 .. Section, a <= k PROVE GroupOK(mem, size, a)'
    <3>1. /\ GroupPlace(size, a) \in Top + 1 .. size
          /\ GroupPlace(size, k) = GroupPlace(size, a) => k = a
      BY <1>2, <2>1, MarkPlaces
    <3>2. mem'[GroupPlace(size, a)] = GroupMark(a)
      <4>1. CASE a = k
        BY <2>1, <4>1
      <4>2. CASE a # k
        <5>1. a \in 0 .. k - 1
          BY <1>2, <2>1, <2>6, <4>2
        <5>2. mem[GroupPlace(size, a)] = GroupMark(a)
          BY <1>2, <5>1 DEF GroupOK
        <5>3. GroupPlace(size, a) \in 1 .. Room
          BY <1>2, <2>2, <3>1
        <5>4. \A f \in Group(k) : \A w \in 1 .. Wd[f] :
                GroupPlace(size, a) # Place(f) - w + 1
          <6>1. \A f \in Group(k) : \A w \in 1 .. Wd[f] : Place(f) - w + 1 \in Base + 1 .. Top
            BY <2>3
          <6>2. GroupPlace(size, a) \notin Base + 1 .. Top
            BY <1>2, <2>2, <3>1
          <6>3. QED BY <6>1, <6>2
        <5>5. QED BY <2>1, <3>1, <4>2, <5>2, <5>3, <5>4
      <4>3. QED BY <4>1, <4>2
    <3>3. ASSUME NEW f \in Group(a), NEW w \in 1 .. Wd[f]
          PROVE  mem'[Place(f) - w + 1] = BodyWord(f, w)
      <4>1. CASE a = k
        BY <2>1, <3>3, <4>1
      <4>2. CASE a # k
        <5>1. a \in 0 .. k - 1
          BY <1>2, <2>1, <2>6, <4>2
        <5>2. mem[Place(f) - w + 1] = BodyWord(f, w)
          BY <1>2, <3>3, <5>1 DEF GroupOK
        <5>3. f \in Fields /\ f \notin Group(k)
          <6>1. Group(a) = GroupStart(a) .. Limit(a + 1) - 1 /\ Group(a) \subseteq Fields
                /\ Group(k) = GroupStart(k) .. Limit(k + 1) - 1 /\ Limit(a + 1) \in 0 .. Count
            BY <1>2, <2>1, GroupFacts
          <6>2. Limit(a + 1) <= GroupStart(k)
            <7>1. CASE a + 1 = k
              <8>1. Limit(k) = GroupStart(k) /\ Limit(k) \in 0 .. Count
                BY <1>2, <2>1, GroupFacts
              <8>2. Count \in Nat
                BY <1>2, KeptFacts
              <8>3. QED BY <7>1, <8>1, <8>2
            <7>2. CASE a + 1 # k
              <8>1. a + 1 \in 1 .. k - 1 /\ a + 1 \in 0 .. Section
                BY <1>2, <2>1, <2>6, <4>2, <7>2
              <8>2. Limit(a + 1) = GroupStart(a + 1)
                BY <1>2, <8>1, GroupFacts
              <8>3. GroupStart(a + 1) = First + Sect * a /\ GroupStart(k) = First + Sect * (k - 1)
                BY <2>1, <2>6, <8>1 DEF GroupStart
              <8>4. Sect * a <= Sect * (k - 1) /\ Sect * a \in Nat /\ Sect * (k - 1) \in Nat
                <9>1. Sect \in Nat
                  BY ScaleAssumption DEF Sect
                <9>2. a \in Nat /\ k - 1 \in Nat /\ a <= k - 1
                  BY <2>1, <2>6, <8>1
                <9>3. QED BY <9>1, <9>2, TimesOrder
              <8>5. QED BY <8>2, <8>3, <8>4, ScaleAssumption
            <7>3. QED BY <7>1, <7>2
          <6>3. f \in Fields /\ f \in Int /\ f < Limit(a + 1)
            <7>1. GroupStart(a) \in Nat /\ Count \in Nat
              BY <1>2, SectionFacts, KeptFacts
            <7>2. QED BY <3>3, <6>1, <7>1
          <6>4. GroupStart(k) \in Nat /\ Limit(a + 1) \in Int
            <7>1. GroupStart(k) \in Nat /\ Count \in Nat
              BY <1>2, <2>1, SectionFacts, KeptFacts
            <7>2. QED BY <6>1, <7>1
          <6>5. f < GroupStart(k)
            BY <6>2, <6>3, <6>4
          <6>6. QED BY <6>1, <6>3, <6>4, <6>5
        <5>4. Place(f) - w + 1 \in Base + 1 .. Top
          BY <1>2, <5>3, BodyPlaces
        <5>5. \A g \in Group(k) : \A v \in 1 .. Wd[g] : Place(f) - w + 1 # Place(g) - v + 1
          BY <1>2, <2>2, <5>3, BodyPlaces
        <5>6. Place(f) - w + 1 \in 1 .. Room /\ Place(f) - w + 1 # GroupPlace(size, k)
          BY <1>2, <2>2, <5>4
        <5>7. mem'[Place(f) - w + 1] = mem[Place(f) - w + 1]
          BY <2>1, <5>5, <5>6
        <5>8. QED BY <5>2, <5>7
      <4>3. QED BY <4>1, <4>2
    <3>4. GroupPlace(size, a)' = GroupPlace(size, a)
      BY <1>1 DEF GroupPlace
    <3>5. Group(a)' = Group(a) /\ GroupMark(a)' = GroupMark(a) /\ Wd' = Wd
          /\ \A f : Place(f)' = Place(f) /\ \A w : BodyWord(f, w)' = BodyWord(f, w)
      BY <1>1, Frame
    <3>6. QED BY <3>2, <3>3, <3>4, <3>5 DEF GroupOK
  <2>7. OffsetsOK(mem)'
    <3>1. SUFFICES ASSUME NEW p \in 1 .. Room, mem'[p].what = "offset"
                   PROVE  mem'[p].v \in 1 .. SizeLimit - 1
      BY DEF OffsetsOK
    <3>2. CASE mem'[p] = mem[p]
      BY <1>2, <3>1, <3>2 DEF OffsetsOK
    <3>3. CASE p = GroupPlace(size, k)
      <4>1. GroupMark(k).what # "offset"
        BY DEF GroupMark, Word
      <4>2. QED BY <2>1, <3>1, <3>3, <4>1
    <3>4. ASSUME NEW f \in Group(k), NEW w \in 1 .. Wd[f], p = Place(f) - w + 1
          PROVE  mem'[p].v \in 1 .. SizeLimit - 1
      <4>1. mem'[p] = BodyWord(f, w) /\ f \in Fields
        BY <2>1, <2>2, <3>4
      <4>2. CASE Len3(parts[f]) # 0
        <5>1. LenOf(value[f]) < 4
          BY <1>2, <4>1, <4>2, UnitFacts, ScaleAssumption
        <5>2. parts[f].data = value[f].words /\ Wd[f] = LenOf(value[f])
          BY <1>2, <4>1, <5>1, UnitFacts
        <5>3. value[f].words[w].what = "data"
          BY <1>2, <4>1, <5>2, ValueFacts DEF FieldOK
        <5>4. mem'[p].what = "data"
          BY <4>1, <4>2, <5>2, <5>3 DEF BodyWord
        <5>5. QED BY <3>1, <5>4
      <4>3. CASE Len3(parts[f]) = 0
        <5>1. Sl[f] # 0
          <6>1. LenOf(value[f]) \in 0 .. MaxLen /\ MaxLen \in Nat
            BY <1>2, <4>1, UnitFacts, ScaleAssumption
          <6>2. CASE LenOf(value[f]) < 4
            <7>1. Wd[f] = 0
              BY <1>2, <4>1, <4>3, <6>2, UnitFacts
            <7>2. QED BY <7>1
          <6>3. CASE LenOf(value[f]) >= 4
            BY <1>2, <4>1, <6>1, <6>3, UnitFacts
          <6>4. QED BY <6>1, <6>2, <6>3
        <5>2. mem'[p] = Offset(Place(f) - parts[f].pos)
          BY <4>1, <4>3 DEF BodyWord
        <5>3. Place(f) - parts[f].pos \in Nat /\ Place(f) - parts[f].pos >= 1
              /\ Place(f) - parts[f].pos <= MessageSize
          BY <1>2, <4>1, <5>1, OffsetBound
        <5>4. MessageSize \in Int /\ SizeLimit \in Int
          <6>1. IsFiniteSet(Fields) /\ \A g \in Fields : Us[g] \in Nat
            BY <1>2, FieldBounds, UnitFacts
          <6>2. QED BY <6>1, UnitsFinite, BodySizeFacts, ScaleAssumption
        <5>5. mem'[p].v = Place(f) - parts[f].pos
          BY <5>2 DEF Offset, Word
        <5>6. QED BY <1>2, <5>3, <5>4, <5>5
      <4>4. QED BY <4>2, <4>3
    <3>5. QED BY <2>1, <3>2, <3>3, <3>4
  <2>8. MarkInv'
    <3>1. Section' = Section /\ Top' = Top /\ MessageSize' = MessageSize
      BY <1>1, Frame
    <3>2. k' \in 0 .. Section' + 1 /\ size' = Top' + 1 + 2 * Section' /\ size' <= Room
          /\ pos' = Top' - cnt' /\ MessageSize' < SizeLimit /\ k' # 0
      BY <1>1, <1>2, <2>1, <3>1
    <3>3. cnt' = Ahead(Limit(k))'
      <4>1. Limit(k)' = Limit(k + 1)
        <5>1. Limit(k)' = IF GroupStart(k') <= Count' THEN GroupStart(k') ELSE Count'
          BY DEF Limit, GroupStart
        <5>2. Count' = Count
          BY <1>1, Frame
        <5>3. QED BY <2>1, <5>1, <5>2 DEF Limit
      <4>2. Ahead(Limit(k))' = SumOver(Wd', 0 .. Limit(k)' - 1)
        BY DEF Ahead
      <4>3. Wd' = Wd
        BY <1>1, Frame
      <4>4. QED BY <2>1, <4>1, <4>2, <4>3 DEF Ahead
    <3>4. mem'[size'].v.section = Section'
      <4>1. GroupOK(mem, size, 0)'
        BY <1>2, <2>1, <2>6
      <4>2. GroupPlace(size, 0)' = size'
        BY DEF GroupPlace
      <4>3. mem'[size'] = GroupMark(0)'
        BY <4>1, <4>2 DEF GroupOK
      <4>4. GroupMark(0)'.v.section = Section'
        BY DEF GroupMark, Word
      <4>5. QED BY <4>3, <4>4
    <3>5. \A a \in 0 .. k' - 1 : GroupOK(mem, size, a)'
      BY <1>2, <2>1, <2>6
    <3>6. QED BY <2>5, <3>2, <3>3, <3>4, <3>5 DEF MarkInv
  <2>9. TypeInv'
    <3>1. k' \in Int /\ cnt' \in Nat /\ pos' \in Int
      <4>1. cnt' \in Nat
        BY <1>2, <2>1, <2>2, AheadSplit
      <4>2. QED BY <2>1, <2>2, <4>1
    <3>2. QED BY <1>1, <1>3, <2>1, <3>1 DEF TypeInv
  <2>10. MessageInv'
    BY <1>1, <1>3, <2>1, <2>7, <2>8 DEF MessageInv, FieldsInv, DoneInv
  <2>11. QED BY <1>1, <2>1, <2>9, <2>10
<1>6. QED BY <1>4, <1>5

\* Nothing of the message changes.
LEMMA Stay ==
  ASSUME UNCHANGED <<n, last, value, parts, mem, size>>
  PROVE  /\ OffsetsOK(mem) => OffsetsOK(mem)'
         /\ MessageOK(mem, size) => MessageOK(mem, size)'
         /\ \A f : SegmentOK(mem, f) => SegmentOK(mem, f)'
         /\ (\A f \in Fields : FieldOK(f)) => \A f \in Fields' : FieldOK(f)'
<1>1. OffsetsOK(mem) => OffsetsOK(mem)'
  BY DEF OffsetsOK
<1>2. ASSUME NEW f, SegmentOK(mem, f) PROVE SegmentOK(mem, f)'
  <2>1. Sl' = Sl
    BY Frame
  <2>2. QED BY <1>2, <2>1 DEF SegmentOK
<1>3. ASSUME NEW a, GroupOK(mem, size, a) PROVE GroupOK(mem, size, a)'
  <2>1. GroupPlace(size, a)' = GroupPlace(size, a)
    BY DEF GroupPlace
  <2>2. Group(a)' = Group(a) /\ GroupMark(a)' = GroupMark(a) /\ Wd' = Wd
        /\ \A f : Place(f)' = Place(f) /\ \A w : BodyWord(f, w)' = BodyWord(f, w)
    BY Frame
  <2>3. QED BY <1>3, <2>1, <2>2 DEF GroupOK
<1>4. Section' = Section /\ Top' = Top /\ Fields' = Fields /\ \A f : FieldOK(f)' <=> FieldOK(f)
  BY Frame
<1>5. MessageOK(mem, size) => MessageOK(mem, size)'
  BY <1>2, <1>3, <1>4 DEF MessageOK
<1>6. QED BY <1>1, <1>2, <1>4, <1>5

\* After the last group the message is whole.
LEMMA FinishStep ==
  ASSUME TypeInv, MessageInv, FinishMessage, vsize' = vsize
  PROVE  TypeInv' /\ MessageInv' /\ phase = "mark" /\ phase' = "done"
<1>1. /\ phase = "mark" /\ k > mem[size].v.section /\ phase' = "done"
      /\ UNCHANGED <<n, last, mem, size, value, parts, k, cnt, pos>>
  BY DEF FinishMessage
<1>2. /\ Static /\ k \in 0 .. Section + 1 /\ Section \in Nat
      /\ size = Top + 1 + 2 * Section /\ size <= Room
      /\ mem[size].v.section = Section
      /\ \A f \in Fields : FieldOK(f) /\ SegmentOK(mem, f)
      /\ \A a \in 0 .. k - 1 : GroupOK(mem, size, a)
      /\ OffsetsOK(mem)
  BY <1>1, MarkState
<1>3. 0 .. k - 1 = 0 .. Section
  BY <1>1, <1>2
<1>4. MessageOK(mem, size)
  BY <1>2, <1>3 DEF MessageOK
<1>5. MessageOK(mem, size)' /\ OffsetsOK(mem)' /\ \A f \in Fields' : FieldOK(f)'
  BY <1>1, <1>2, <1>4, Stay
<1>6. MessageInv'
  BY <1>1, <1>2, <1>5 DEF MessageInv, FieldsInv, MarkInv, DoneInv
<1>7. Fields' = Fields
  BY <1>1, Frame
<1>8. TypeInv'
  BY <1>1, <1>7 DEF TypeInv
<1>9. QED BY <1>1, <1>6, <1>8

\* A step that leaves the message alone.
LEMMA StutterStep ==
  ASSUME TypeInv, MessageInv, UNCHANGED <<vars, vsize>>
  PROVE  TypeInv' /\ MessageInv'
<1>1. UNCHANGED <<n, last, mem, size, value, parts, k, cnt, pos, phase, vsize>>
  BY DEF vars
<1>2. Fields' = Fields /\ Base' = Base /\ Section' = Section /\ Top' = Top
      /\ MessageSize' = MessageSize /\ Wd' = Wd
  BY <1>1, Frame
<1>3. TypeInv'
  BY <1>1, <1>2 DEF TypeInv
<1>4. phase # "failed" => \A f \in Fields' : FieldOK(f)'
  BY <1>1, Stay DEF MessageInv
<1>5. OffsetsOK(mem)'
  BY <1>1, Stay DEF MessageInv
<1>6. FieldsInv'
  <2>1. SUFFICES ASSUME phase = "fields" PROVE FieldsInv'
    BY <1>1 DEF FieldsInv
  <2>2. FieldsInv
    BY DEF MessageInv
  <2>3. \A f \in Fields : SegmentOK(mem, f)'
    BY <1>1, <2>1, <2>2, Stay DEF FieldsInv
  <2>4. QED BY <1>1, <1>2, <2>1, <2>2, <2>3 DEF FieldsInv
<1>7. MarkInv'
  <2>1. SUFFICES ASSUME phase = "mark" PROVE MarkInv'
    BY <1>1 DEF MarkInv
  <2>2. MarkInv
    BY DEF MessageInv
  <2>3. \A f \in Fields : SegmentOK(mem, f)'
    BY <1>1, <2>1, <2>2, Stay DEF MarkInv
  <2>4. \A a \in 0 .. k - 1 : GroupOK(mem, size, a)'
    <3>1. SUFFICES ASSUME NEW a \in 0 .. k - 1 PROVE GroupOK(mem, size, a)'
      OBVIOUS
    <3>2. GroupOK(mem, size, a)
      BY <2>1, <2>2 DEF MarkInv
    <3>3. GroupPlace(size, a)' = GroupPlace(size, a)
      BY <1>1 DEF GroupPlace
    <3>4. Group(a)' = Group(a) /\ GroupMark(a)' = GroupMark(a) /\ Wd' = Wd
          /\ \A f : Place(f)' = Place(f) /\ \A w : BodyWord(f, w)' = BodyWord(f, w)
      BY <1>1, Frame
    <3>5. QED BY <1>1, <3>2, <3>3, <3>4 DEF GroupOK
  <2>5. Ahead(Limit(k))' = Ahead(Limit(k))
    <3>1. Limit(k)' = Limit(k)
      <4>1. Count' = Count
        BY <1>1, Frame
      <4>2. QED BY <1>1, <4>1 DEF Limit, GroupStart
    <3>2. QED BY <1>2, <3>1 DEF Ahead
  <2>6. QED BY <1>1, <1>2, <2>1, <2>2, <2>3, <2>4, <2>5 DEF MarkInv
<1>8. DoneInv'
  BY <1>1, Stay DEF MessageInv, DoneInv
<1>9. QED BY <1>1, <1>3, <1>4, <1>5, <1>6, <1>7, <1>8 DEF MessageInv

-----------------------------------------------------------------------------
(* The reader, over a whole message.                                       *)

\* A whole message in the buffer.
Whole == TypeInv /\ Static /\ size <= Room /\ MessageOK(mem, size)

\* Head, body and the groups where the reader looks for them.
LEMMA ReaderFacts ==
  ASSUME Whole
  PROVE  /\ SectionCount = Section /\ Body = Top /\ Section \in Nat
         /\ \A a \in 0 .. Section : GroupOK(mem, size, a)
         /\ \A f \in Fields : SegmentOK(mem, f)
         /\ DOMAIN mem = 1 .. Room /\ size \in Nat /\ Top < size /\ Top \in Nat
<1>1. Static /\ size = Top + 1 + 2 * Section /\ Section \in Nat /\ Top \in Nat
  BY SectionFacts, AreaFacts DEF Whole, MessageOK
<1>2. (\A a \in 0 .. Section : GroupOK(mem, size, a)) /\ (\A f \in Fields : SegmentOK(mem, f))
  BY DEF Whole, MessageOK
<1>3. mem[size] = GroupMark(0)
  <2>1. GroupOK(mem, size, 0)
    BY <1>1, <1>2
  <2>2. QED BY <2>1 DEF GroupOK, GroupPlace
<1>4. SectionCount = Section
  BY <1>3 DEF SectionCount, GroupMark, Word
<1>5. Body = Top /\ size \in Nat /\ Top < size
  BY <1>1, <1>4 DEF Body
<1>6. mem = [p \in 1 .. Room |-> mem[p]]
  BY RoomFacts DEF Whole
<1>7. DOMAIN mem = 1 .. Room
  BY <1>6
<1>8. QED BY <1>1, <1>2, <1>4, <1>5, <1>7

\* The counts of a group add up the widths of its fields up to id.
LEMMA CountFacts ==
  ASSUME Static, NEW a \in 0 .. Section, NEW p, mem[p].v.mark = Marks(a),
         NEW id \in Int, NEW e \in Limit(a) .. Limit(a + 1),
         e = id \/ (e = Limit(a + 1) /\ id >= e)
  PROVE  CountUpTo(p, id) \in Nat /\ Ahead(e) = Ahead(Limit(a)) + CountUpTo(p, id)
         /\ Ahead(e) \in Nat /\ Ahead(Limit(a)) \in Nat
<1> DEFINE i == Limit(a)
           j == Limit(a + 1)
<1>1. i \in 0 .. Count /\ j \in 0 .. Count /\ i <= j /\ Group(a) = i .. j - 1
      /\ Group(a) \subseteq Fields
  BY GroupFacts
<1>2. Count \in 0 .. n /\ n \in Nat /\ \A f \in Fields : Wd[f] \in Nat
  BY KeptFacts, FieldBounds, UnitFacts
<1>3. DOMAIN Marks(a) = {g \in Group(a) : Wd[g] # 0}
      /\ \A f \in DOMAIN Marks(a) : Marks(a)[f] = Wd[f]
  BY DEF Marks
<1>4. e \in i .. j /\ (e = id \/ (e = j /\ id >= e))
  OBVIOUS
<1> HIDE DEF i, j
<1> DEFINE R == i .. e - 1
<1>5. {f \in DOMAIN Marks(a) : f < id} = {f \in R : Wd[f] # 0}
  BY <1>1, <1>2, <1>3, <1>4
<1>6. \A f \in R : Wd[f] \in Nat
  BY <1>1, <1>2, <1>4
<1>7. i \in 0 .. n /\ e \in 0 .. n /\ i <= e
  BY <1>1, <1>2, <1>4
<1>8. Ahead(e) = Ahead(i) + SumOver(Wd, R) /\ Ahead(i) \in Nat /\ SumOver(Wd, R) \in Nat
      /\ Ahead(e) \in Nat
  BY <1>7, AheadSplit
<1> HIDE DEF R
<1>9. CountUpTo(p, id) = SumOver(Marks(a), {f \in R : Wd[f] # 0})
  BY <1>5 DEF CountUpTo
<1>10. \A f \in {f \in R : Wd[f] # 0} : Marks(a)[f] = Wd[f]
  BY <1>3, <1>5
<1>11. SumOver(Marks(a), {f \in R : Wd[f] # 0}) = SumOver(Wd, {f \in R : Wd[f] # 0})
  BY <1>10, SumSame
<1>12. SumOver(Wd, {f \in R : Wd[f] # 0}) = SumOver(Wd, R)
  BY <1>6, SumNonZero
<1>13. QED BY <1>8, <1>9, <1>11, <1>12 DEF i

\* Message::GetField, for a field in the group a.
LEMMA GroupRead ==
  ASSUME Whole, NEW a \in 0 .. Section, NEW id \in Nat,
         GroupStart(a) <= id, id < GroupStart(a + 1)
  PROVE  LET p == GroupPlace(size, a)
             before == IF a = 0 THEN 0 ELSE mem[p].v.before
         IN  /\ MarkOf(p, id) = IF id \in Fields THEN Wd[id] ELSE 0
             /\ MarkOf(p, id) # 0 =>
                  /\ Body - before - CountUpTo(p, id) = Place(id)
                  /\ \A w \in 1 .. Wd[id] : mem[Place(id) - w + 1] = BodyWord(id, w)
<1> DEFINE p == GroupPlace(size, a)
           before == IF a = 0 THEN 0 ELSE mem[p].v.before
<1>1. Static /\ Body = Top /\ Top \in Nat /\ GroupOK(mem, size, a) /\ Section \in Nat
  BY ReaderFacts DEF Whole
<1>2. mem[p] = GroupMark(a) /\ \A f \in Group(a) : \A w \in 1 .. Wd[f] :
                                  mem[Place(f) - w + 1] = BodyWord(f, w)
  BY <1>1 DEF GroupOK
<1>3. mem[p].v.mark = Marks(a) /\ (a # 0 => mem[p].v.before = Ahead(Limit(a)))
  BY <1>2 DEF GroupMark, Word
<1>4. Limit(0) = 0 /\ Ahead(0) = 0
  BY <1>1, LastGroup, AreaFacts
<1>5. before = Ahead(Limit(a))
  BY <1>3, <1>4
<1>6. Kept = 0 .. Count - 1 /\ Count \in 0 .. n /\ n \in Nat /\ Fields = 0 .. n - 1
      /\ \A f \in Fields : f >= Count => Wd[f] = 0
  BY <1>1, KeptFacts, FieldBounds
<1>7. id \in Group(a) <=> id < Count
  <2>1. Group(a) = {f \in Kept : GroupStart(a) <= f /\ f < GroupStart(a + 1)}
    BY DEF Group
  <2>2. QED BY <1>6, <2>1
<1>8. MarkOf(p, id) = IF id \in Group(a) /\ Wd[id] # 0 THEN Wd[id] ELSE 0
  BY <1>3 DEF MarkOf, Marks
<1>9. MarkOf(p, id) = IF id \in Fields THEN Wd[id] ELSE 0
  BY <1>6, <1>7, <1>8
<1>10. ASSUME id \in Group(a)
       PROVE  Body - before - CountUpTo(p, id) = Place(id)
  <2>1. Group(a) = Limit(a) .. Limit(a + 1) - 1 /\ Limit(a) \in 0 .. Count
        /\ Limit(a + 1) \in 0 .. Count
    BY <1>1, GroupFacts
  <2> DEFINE e == id
  <2>2. id \in Int /\ e \in Limit(a) .. Limit(a + 1) /\ e = id
    BY <1>6, <1>10, <2>1
  <2> HIDE DEF p, e
  <2>3. CountUpTo(p, id) \in Nat /\ Ahead(e) = Ahead(Limit(a)) + CountUpTo(p, id)
        /\ Ahead(e) \in Nat /\ Ahead(Limit(a)) \in Nat
    BY <1>1, <1>3, <2>2, CountFacts
  <2>4. Place(id) = Top - Ahead(e)
    BY <2>2 DEF Place
  <2>5. QED BY <1>1, <1>5, <2>3, <2>4
<1>11. QED BY <1>2, <1>8, <1>9, <1>10

\* Message::GetField finds width and place of every field.
LEMMA GetFieldFacts ==
  ASSUME Whole, NEW id \in Nat
  PROVE  /\ GetField(id).width = IF id \in Fields THEN Wd[id] ELSE 0
         /\ GetField(id).width # 0 =>
              /\ GetField(id).place = Place(id)
              /\ \A w \in 1 .. Wd[id] : mem[Place(id) - w + 1] = BodyWord(id, w)
<1> USE ScaleAssumption
<1> DEFINE a == (id - First) \div Sect
           p == IF id < First THEN size ELSE size - 1 - 2 * a
           before == IF id < First THEN 0 ELSE mem[p].v.before
<1>1. Static /\ SectionCount = Section /\ Section \in Nat /\ Body = Top
  BY ReaderFacts DEF Whole
<1>2. CASE id < First
  <2>1. GetField(id) = [place |-> Body - 0 - CountUpTo(size, id), width |-> MarkOf(size, id)]
    BY <1>2 DEF GetField
  <2> DEFINE b == 0
  <2>2. b \in 0 .. Section /\ GroupStart(b) <= id /\ id < GroupStart(b + 1)
        /\ GroupPlace(size, b) = size /\ b = 0
    <3>1. Sect \in Nat
      BY DEF Sect
    <3>2. GroupStart(b) = 0 /\ GroupPlace(size, b) = size
      BY DEF GroupStart, GroupPlace
    <3>3. GroupStart(b + 1) = First
      BY <3>1 DEF GroupStart
    <3>4. QED BY <1>1, <1>2, <3>2, <3>3
  <2> HIDE DEF b
  <2>3. /\ MarkOf(size, id) = IF id \in Fields THEN Wd[id] ELSE 0
        /\ MarkOf(size, id) # 0 =>
             /\ Body - 0 - CountUpTo(size, id) = Place(id)
             /\ \A w \in 1 .. Wd[id] : mem[Place(id) - w + 1] = BodyWord(id, w)
    BY <2>2, GroupRead
  <2>4. QED BY <2>1, <2>3
<1>3. CASE id >= First
  <2>1. id - First \in Nat
    BY <1>3
  <2>2. /\ Sect \in Nat /\ Sect = 2 * First + 1 /\ a \in Nat
        /\ Sect * a <= id - First /\ id - First < Sect * a + Sect
    BY <2>1, SectDivision
  <2>3. CASE a >= Section
    <3>1. GetField(id) = [place |-> 0, width |-> 0]
      BY <1>1, <1>3, <2>3 DEF GetField
    <3>2. GroupStart(Section + 1) = First + Sect * Section
      BY <1>1 DEF GroupStart
    <3>3. Sect * Section <= Sect * a /\ Sect * Section \in Nat /\ Sect * a \in Nat
      BY <1>1, <2>2, <2>3, TimesOrder
    <3>4. GroupStart(Section + 1) >= Count /\ Count \in Nat
      BY <1>1, SectionFacts, KeptFacts, FieldBounds
    <3>5. id >= Count
      BY <2>2, <3>2, <3>3, <3>4
    <3>6. id \in Fields => Wd[id] = 0
      BY <1>1, <3>5, KeptFacts
    <3>7. QED BY <3>1, <3>6
  <2>4. CASE a < Section
    <3> DEFINE b == a + 1
    <3>1. b \in 1 .. Section /\ b # 0 /\ b \in 0 .. Section /\ b - 1 = a
      BY <1>1, <2>2, <2>4
    <3>2. GroupStart(b) = First + Sect * a /\ GroupStart(b + 1) = First + Sect * b
          /\ Sect * b = Sect * a + Sect
      BY <2>2, <3>1 DEF GroupStart
    <3>3. GroupPlace(size, b) = size - 1 - 2 * a
      BY <3>1 DEF GroupPlace
    <3>4. GetField(id) = [place |-> Body - mem[size - 1 - 2 * a].v.before
                                      - CountUpTo(size - 1 - 2 * a, id),
                          width |-> MarkOf(size - 1 - 2 * a, id)]
      BY <1>1, <1>3, <2>2, <2>4 DEF GetField
    <3> HIDE DEF a, b
    <3>5. GroupStart(b) <= id /\ id < GroupStart(b + 1)
      <4>1. Sect * a \in Nat
        BY <2>2
      <4>2. QED BY <2>2, <3>2, <4>1
    <3>6. LET q == GroupPlace(size, b)
          IN  /\ MarkOf(q, id) = IF id \in Fields THEN Wd[id] ELSE 0
              /\ MarkOf(q, id) # 0 =>
                   /\ Body - mem[q].v.before - CountUpTo(q, id) = Place(id)
                   /\ \A w \in 1 .. Wd[id] : mem[Place(id) - w + 1] = BodyWord(id, w)
      BY <3>1, <3>5, GroupRead
    <3>7. QED BY <3>3, <3>4, <3>6
  <2>5. QED BY <1>1, <2>2, <2>3, <2>4
<1>4. QED BY <1>2, <1>3

\* Message::Detect finds the end of the body.
LEMMA DetectFacts ==
  ASSUME Whole
  PROVE  DetectEnd = Base
<1>1. Static /\ SectionCount = Section /\ Section \in Nat /\ Body = Top /\ Top \in Nat
      /\ \A a \in 0 .. Section : GroupOK(mem, size, a)
  BY ReaderFacts DEF Whole
<1>2. Count \in 0 .. n /\ n \in Nat /\ Ahead(Count) = Ahead(n)
  BY <1>1, KeptFacts, FieldBounds
<1>3. Top = Base + Ahead(n) /\ Base \in Nat /\ Ahead(n) \in Nat /\ Ahead(0) = 0
  BY <1>1, AreaFacts
<1>4. Limit(Section + 1) = Count /\ Limit(0) = 0
  BY <1>1, LastGroup
<1>5. Sect \in Nat
  BY ScaleAssumption DEF Sect
<1> DEFINE a == Section
           p == GroupPlace(size, a)
           id == n + Sect
           e == Limit(a + 1)
<1>6. a \in 0 .. Section /\ mem[p].v.mark = Marks(a)
      /\ (a # 0 => mem[p].v.before = Ahead(Limit(a)))
  <2>1. mem[p] = GroupMark(a)
    BY <1>1 DEF GroupOK
  <2>2. QED BY <1>1, <2>1 DEF GroupMark, Word
<1>7. id \in Int /\ e \in Limit(a) .. Limit(a + 1) /\ e = Limit(a + 1) /\ id >= e
  <2>1. Limit(a) \in 0 .. Count /\ Limit(a + 1) \in 0 .. Count /\ Limit(a) <= Limit(a + 1)
    BY <1>1, <1>6, GroupFacts
  <2>2. QED BY <1>2, <1>4, <1>5, <2>1
<1>8. DetectEnd = Body - (IF a = 0 THEN 0 ELSE mem[p].v.before) - CountUpTo(p, id)
  BY <1>1 DEF DetectEnd, GroupPlace
<1> HIDE DEF p, id, e
<1>9. CountUpTo(p, id) \in Nat /\ Ahead(e) = Ahead(Limit(a)) + CountUpTo(p, id)
      /\ Ahead(Limit(a)) \in Nat
  BY <1>1, <1>6, <1>7, CountFacts
<1>10. Ahead(e) = Ahead(n)
  BY <1>2, <1>4 DEF e
<1>11. CASE a = 0
  <2>1. Ahead(Limit(a)) = 0
    BY <1>3, <1>4, <1>11
  <2>2. QED BY <1>1, <1>3, <1>8, <1>9, <1>10, <1>11, <2>1
<1>12. CASE a # 0
  BY <1>1, <1>3, <1>6, <1>8, <1>9, <1>10, <1>12
<1>13. QED BY <1>11, <1>12

\* Place of the first word of a field and the number of its words.
ReadAt(f) ==
  IF value[f].object THEN GetObject(GetField(f).place) ELSE GetField(f).place
ReadLength(f) ==
  LET g == GetField(f) IN
  IF g.width # 0 /\ value[f].object THEN mem[ReadAt(f)].v[3] ELSE g.width

\* A field that was set reads back: from the body, or through its offset.
LEMMA ReadFacts ==
  ASSUME Whole, NEW f \in Fields, value[f] # Nothing
  PROVE  /\ GetField(f).width # 0
         /\ ReadAt(f) = IF LenOf(value[f]) < 4 THEN Place(f) ELSE last + Behind(f)
         /\ \A w \in 1 .. LenOf(value[f]) :
              /\ ReadAt(f) - w + 1 \in last + 1 .. Top
              /\ mem[ReadAt(f) - w + 1] = value[f].words[w]
         /\ ReadLength(f) = LenOf(value[f])
<1> USE ScaleAssumption
<1>1. Static /\ IsValue(value[f]) /\ f \in Nat /\ DOMAIN mem = 1 .. Room
      /\ last \in Nat /\ Base \in Nat /\ Top \in Nat /\ last <= Base /\ Base <= Top
      /\ Top < size /\ size \in Nat /\ size <= Room /\ SegmentOK(mem, f)
  BY ReaderFacts, FieldBounds, AreaFacts DEF Whole, Static, FieldOK
<1> DEFINE v == value[f]
           l == LenOf(v)
<1>2. /\ l \in 0 .. MaxLen /\ l # 0 /\ v.object \in BOOLEAN
      /\ (l >= 4 => v.object)
      /\ (\A w \in 1 .. l : v.words[w].what = "data")
      /\ v.words[1].v[3] = l
      /\ (l \in 1 .. 3 /\ v.object => v.words[1].low # 3)
  BY <1>1, ValueFacts
<1>3. GetField(f).width = Wd[f]
  BY <1>1, GetFieldFacts
<1>a. last \in Nat /\ Base \in Nat /\ Top \in Nat /\ last <= Base /\ Base <= Top /\ l \in Nat
  BY <1>1, <1>2
<1>b. \A p \in Base + 1 .. Top : p \in DOMAIN mem
  <2>1. Top <= Room /\ Room \in Nat /\ DOMAIN mem = 1 .. Room
    <3>1. Top < size /\ size <= Room /\ size \in Nat
      BY <1>1
    <3>2. QED BY <1>1, <1>a, <3>1, RoomFacts
  <2>2. QED BY <1>a, <2>1
<1>4. CASE l < 4
  <2>1. /\ parts[f].data = v.words /\ Len3(parts[f]) = l /\ Wd[f] = l
    BY <1>1, <1>4, UnitFacts
  <2>2. GetField(f).width # 0 /\ GetField(f).place = Place(f)
        /\ \A w \in 1 .. l : mem[Place(f) - w + 1] = v.words[w]
    <3>1. \A w : BodyWord(f, w) = v.words[w]
      BY <1>2, <2>1 DEF BodyWord
    <3>2. QED BY <1>1, <1>2, <1>3, <2>1, <3>1, GetFieldFacts
  <2>3. \A w \in 1 .. l : Place(f) - w + 1 \in Base + 1 .. Top
    BY <1>1, <2>1, BodyPlaces
  <2>4. mem[Place(f)] = v.words[1] /\ Place(f) \in Base + 1 .. Top
    <3>1. 1 \in 1 .. l /\ Place(f) \in Int
      BY <1>1, <1>2, PlaceFacts
    <3>2. Place(f) - 1 + 1 = Place(f)
      BY <3>1
    <3>3. QED BY <2>2, <2>3, <3>1, <3>2
  <2>5. ReadAt(f) = Place(f)
    <3>1. CASE ~v.object
      BY <2>2, <3>1 DEF ReadAt
    <3>2. CASE v.object
      <4>1. WordAt(Place(f)) = v.words[1]
        <5>1. Place(f) \in DOMAIN mem
          BY <1>b, <2>4
        <5>2. QED BY <2>4, <5>1 DEF WordAt
      <4>2. v.words[1].low # 3
        BY <1>2, <1>4, <3>2
      <4>3. GetObject(Place(f)) = Place(f)
        BY <4>1, <4>2 DEF GetObject
      <4>4. QED BY <2>2, <3>2, <4>3 DEF ReadAt
    <3>3. QED BY <1>2, <3>1, <3>2
  <2>6. ReadLength(f) = l
    BY <1>2, <1>3, <2>1, <2>4, <2>5 DEF ReadLength
  <2>7. \A w \in 1 .. l : ReadAt(f) - w + 1 \in last + 1 .. Top
                          /\ mem[ReadAt(f) - w + 1] = v.words[w]
    <3>1. SUFFICES ASSUME NEW w \in 1 .. l
                   PROVE  Place(f) - w + 1 \in last + 1 .. Top
                          /\ mem[Place(f) - w + 1] = v.words[w]
      BY <2>5
    <3>2. Place(f) - w + 1 \in Base + 1 .. Top
      BY <2>3
    <3>3. QED BY <1>1, <2>2, <3>2
  <2>8. QED BY <1>4, <2>2, <2>5, <2>6, <2>7
<1>5. CASE l >= 4
  <2>1. Len3(parts[f]) = 0 /\ Wd[f] = 1 /\ Sl[f] = l /\ parts[f].pos = last + Behind(f)
    BY <1>1, <1>5, UnitFacts
  <2>2. parts[f].pos \in Nat /\ parts[f].pos <= Base /\ parts[f].pos - l >= last
    BY <1>1, <1>2, <2>1, SegmentPlace
  <2>3. GetField(f).width # 0 /\ GetField(f).place = Place(f)
        /\ mem[Place(f)] = Offset(Place(f) - parts[f].pos)
        /\ Place(f) \in Base + 1 .. Top
    <3>1. BodyWord(f, 1) = Offset(Place(f) - parts[f].pos)
      BY <2>1 DEF BodyWord
    <3>2. 1 \in 1 .. Wd[f] /\ Place(f) \in Int
      BY <1>1, <2>1, PlaceFacts
    <3>3. Place(f) - 1 + 1 \in Base + 1 .. Top /\ Place(f) - 1 + 1 = Place(f)
      BY <1>1, <3>2, BodyPlaces
    <3>4. GetField(f).place = Place(f) /\ mem[Place(f) - 1 + 1] = BodyWord(f, 1)
      BY <1>1, <1>3, <2>1, <3>2, GetFieldFacts
    <3>5. QED BY <1>3, <2>1, <3>1, <3>3, <3>4
  <2>4. ReadAt(f) = parts[f].pos
    <3>1. Place(f) \in DOMAIN mem
      BY <1>b, <2>3
    <3>2. WordAt(Place(f)) = Offset(Place(f) - parts[f].pos)
      BY <2>3, <3>1 DEF WordAt
    <3>3. GetObject(Place(f)) = Place(f) - (Place(f) - parts[f].pos)
      BY <3>2 DEF GetObject, Offset, Word
    <3>4. GetObject(Place(f)) = parts[f].pos
      BY <1>1, <2>2, <2>3, <3>3
    <3>5. QED BY <1>2, <1>5, <2>3, <3>4 DEF ReadAt
  <2>5. ASSUME NEW w \in 1 .. l
        PROVE  /\ parts[f].pos - w + 1 \in last + 1 .. Top
               /\ mem[parts[f].pos - w + 1] = v.words[w]
    <3>1. mem[parts[f].pos - w + 1] = v.words[w]
      BY <1>1, <1>2, <2>1 DEF SegmentOK
    <3>2. parts[f].pos - w + 1 \in last + 1 .. Top
      BY <1>a, <2>2
    <3>3. QED BY <3>1, <3>2
  <2>6. ReadLength(f) = l
    <3>1. 1 \in 1 .. l /\ parts[f].pos - 1 + 1 = parts[f].pos
      BY <1>2, <2>2
    <3>2. mem[parts[f].pos - 1 + 1] = v.words[1]
      BY <2>5, <3>1
    <3>3. mem[ReadAt(f)].v[3] = l
      BY <1>2, <2>4, <3>1, <3>2
    <3>4. QED BY <1>2, <1>5, <2>3, <3>3 DEF ReadLength
  <2>7. ~(l < 4)
    BY <1>a, <1>5
  <2>8. QED BY <2>1, <2>3, <2>4, <2>5, <2>6, <2>7
<1>6. QED BY <1>2, <1>4, <1>5

\* What the reader finds, as the properties say it.
LEMMA WholeReads ==
  ASSUME Whole, NEW id \in Nat
  PROVE  IF id \in Fields /\ value[id] # Nothing
           THEN /\ HasField(id)
                /\ \A w \in DOMAIN value[id].words :
                     /\ ReadAt(id) - w + 1 > last
                     /\ Holds(ReadAt(id) - w + 1, value[id].words[w])
           ELSE ~HasField(id)
<1>1. CASE id \in Fields /\ value[id] # Nothing
  <2>1. /\ GetField(id).width # 0
        /\ \A w \in 1 .. LenOf(value[id]) :
             /\ ReadAt(id) - w + 1 \in last + 1 .. Top
             /\ mem[ReadAt(id) - w + 1] = value[id].words[w]
    BY <1>1, ReadFacts
  <2>2. DOMAIN value[id].words = 1 .. LenOf(value[id])
    BY <1>1, ValueFacts DEF Whole, Static, FieldOK
  <2>3. \A p \in last + 1 .. Top : p \in DOMAIN mem /\ p > last
    <3>1. Top < size /\ size <= Room /\ size \in Nat /\ Top \in Nat /\ DOMAIN mem = 1 .. Room
      BY ReaderFacts DEF Whole
    <3>2. last \in Nat /\ Room \in Nat
      BY FieldBounds, RoomFacts DEF Whole
    <3>3. QED BY <3>1, <3>2
  <2>4. ASSUME NEW w \in DOMAIN value[id].words
        PROVE  /\ ReadAt(id) - w + 1 > last
               /\ Holds(ReadAt(id) - w + 1, value[id].words[w])
    <3>1. ReadAt(id) - w + 1 \in last + 1 .. Top
          /\ mem[ReadAt(id) - w + 1] = value[id].words[w]
      BY <2>1, <2>2
    <3> DEFINE p == ReadAt(id) - w + 1
    <3>2. p \in DOMAIN mem /\ p > last /\ mem[p] = value[id].words[w]
      BY <2>3, <3>1
    <3> HIDE DEF p
    <3>3. p > last /\ Holds(p, value[id].words[w])
      BY <3>2 DEF Holds, WordAt
    <3>4. QED BY <3>3 DEF p
  <2>5. QED BY <1>1, <2>1, <2>4 DEF HasField
<1>2. CASE ~(id \in Fields /\ value[id] # Nothing)
  <2>1. GetField(id).width = IF id \in Fields THEN Wd[id] ELSE 0
    BY GetFieldFacts
  <2>2. id \in Fields => Wd[id] = 0
    <3>1. SUFFICES ASSUME id \in Fields PROVE Wd[id] = 0
      OBVIOUS
    <3>2. LenOf(value[id]) = 0
      BY <1>2, <3>1, NothingFacts
    <3>3. QED BY <3>1, <3>2, UnitFacts DEF Whole
  <2>3. QED BY <1>2, <2>1, <2>2 DEF HasField
<1>3. QED BY <1>1, <1>2

\* A finished message is whole.
LEMMA DoneWhole ==
  ASSUME IInv, phase = "done"
  PROVE  Whole
BY DEF IInv, TypeInv, MessageInv, DoneInv, Whole, Static

\* The invariant gives the properties.
LEMMA InvariantReads ==
  IInv => ReadBack /\ DetectEndsBody /\ OffsetsFit /\ LazyReadBack
<1>1. SUFFICES ASSUME IInv, phase = "done"
               PROVE  ReadBack /\ DetectEndsBody /\ OffsetsFit /\ LazyReadBack
  BY DEF ReadBack, DetectEndsBody, OffsetsFit, LazyReadBack
<1>2. Whole /\ Static /\ n \in Nat /\ last \in Nat /\ Fields = 0 .. n - 1
  BY <1>1, DoneWhole, FieldBounds DEF Whole
<1>3. ReadBack
  <2>1. SUFFICES ASSUME NEW id \in 0 .. n + Sect
                 PROVE  IF id \in Fields /\ value[id] # Nothing
                          THEN /\ HasField(id)
                               /\ \A w \in DOMAIN value[id].words :
                                    Holds(ReadAt(id) - w + 1, value[id].words[w])
                          ELSE ~HasField(id)
    BY DEF ReadBack, ReadAt
  <2>2. id \in Nat
    OBVIOUS
  <2>3. QED BY <1>2, <2>2, WholeReads
<1>4. DetectEndsBody
  <2>1. DetectEnd = last + Behind(0)
    BY <1>2, DetectFacts, AreaFacts
  <2>2. Behind(0) = SumOver([f \in Fields |-> parts[f].slen], Fields)
    BY <1>2 DEF Behind, Sl
  <2>3. QED BY <2>1, <2>2 DEF DetectEndsBody
<1>5. OffsetsFit
  <2>1. OffsetsOK(mem) /\ size <= Room /\ size \in Nat /\ Room \in Nat
    BY <1>1, <1>2, RoomFacts DEF IInv, MessageInv, Whole, TypeInv
  <2>2. \A p \in last + 1 .. size : p \in 1 .. Room
    BY <1>2, <2>1
  <2>3. QED BY <2>1, <2>2 DEF OffsetsFit, OffsetsOK
<1>6. LazyReadBack
  <2>1. SUFFICES ASSUME Opened, NEW id \in Fields
                 PROVE  IF want[id] = Nothing THEN ~HasField(id)
                        ELSE /\ HasField(id)
                             /\ \A w \in DOMAIN want[id].words :
                                  LET at == IF want[id].object THEN GetObject(GetField(id).place)
                                            ELSE GetField(id).place
                                  IN  at - w + 1 > last /\ Holds(at - w + 1, want[id].words[w])
    BY DEF LazyReadBack
  <2>2. want[id] = value[id]
    BY <1>1, <2>1 DEF IInv, LazyInv
  <2>3. id \in Nat
    BY <1>2
  <2>4. CASE value[id] = Nothing
    BY <1>2, <2>2, <2>3, <2>4, WholeReads
  <2>5. CASE value[id] # Nothing
    <3>1. /\ HasField(id)
          /\ \A w \in DOMAIN value[id].words :
               /\ ReadAt(id) - w + 1 > last
               /\ Holds(ReadAt(id) - w + 1, value[id].words[w])
      BY <1>2, <2>1, <2>3, <2>5, WholeReads
    <3>2. QED BY <2>2, <2>5, <3>1 DEF ReadAt
  <2>6. QED BY <2>4, <2>5
<1>7. QED BY <1>3, <1>4, <1>5, <1>6

-----------------------------------------------------------------------------
(* Opening a message.                                                      *)

\* The message that is opened is the one that was written.
LEMMA OpenReads ==
  ASSUME view' = mem, vsize' = size, n' = n
  PROVE  /\ V!DetectEnd' = DetectEnd
         /\ \A f : V!GetField(f)' = GetField(f)
         /\ \A p : V!GetObject(p)' = GetObject(p)
<1>1. V!SectionCount' = SectionCount /\ V!Body' = Body
  BY DEF V!SectionCount, V!Body, SectionCount, Body
<1>2. \A w, S : V!SumOver(w, S) = SumOver(w, S)
  <2>1. ASSUME NEW S PROVE V!Cardinality(S) = Cardinality(S)
    BY DEF V!Cardinality, Cardinality
  <2>2. QED BY <2>1, Zenon DEF V!SumOver, SumOver
<1>3. ASSUME NEW f PROVE V!GetField(f)' = GetField(f)
  <2> DEFINE a == (f - First) \div Sect
             p == IF f < First THEN size ELSE size - 1 - 2 * a
             before == IF f < First THEN 0 ELSE mem[p].v.before
             mark == mem[p].v.mark
             words == SumOver(mark, {g \in DOMAIN mark : g < f})
             width == IF f \in DOMAIN mark THEN mark[f] ELSE 0
  <2>1. GetField(f) = IF f >= First /\ a >= SectionCount
                        THEN [place |-> 0, width |-> 0]
                        ELSE [place |-> Body - before - words, width |-> width]
    BY DEF GetField, CountUpTo, MarkOf
  <2>2. V!Sect = Sect
    BY DEF V!Sect, Sect
  <2>3. V!GetField(f)' = IF f >= First /\ a >= V!SectionCount'
                           THEN [place |-> 0, width |-> 0]
                           ELSE [place |-> V!Body' - before
                                             - V!SumOver(mark, {g \in DOMAIN mark : g < f}),
                                 width |-> width]
    BY <2>2 DEF V!GetField, V!CountUpTo, V!MarkOf
  <2>4. V!SumOver(mark, {g \in DOMAIN mark : g < f}) = words
    BY <1>2
  <2> HIDE DEF a, before, words, width, mark
  <2>5. QED BY <1>1, <2>1, <2>3, <2>4
<1>4. \A p : V!GetObject(p)' = GetObject(p)
  BY DEF V!GetObject, GetObject, V!WordAt, WordAt, V!Blank, Blank, V!Word, Word
<1>5. V!DetectEnd' = DetectEnd
  <2> DEFINE p == IF SectionCount = 0 THEN size ELSE size - 1 - 2 * (SectionCount - 1)
             id == n + Sect
             before == IF SectionCount = 0 THEN 0 ELSE mem[p].v.before
             mark == mem[p].v.mark
             words == SumOver(mark, {g \in DOMAIN mark : g < id})
  <2>1. DetectEnd = Body - before - words
    BY DEF DetectEnd, CountUpTo
  <2>2. V!Sect = Sect
    BY DEF V!Sect, Sect
  <2>3. V!DetectEnd' = V!Body' - before - V!SumOver(mark, {g \in DOMAIN mark : g < id})
    BY <1>1, <2>2 DEF V!DetectEnd, V!CountUpTo
  <2>4. V!SumOver(mark, {g \in DOMAIN mark : g < id}) = words
    BY <1>2
  <2> HIDE DEF before, words, mark
  <2>5. QED BY <1>1, <2>1, <2>3, <2>4
<1>6. QED BY <1>3, <1>4, <1>5

\* Reading the original message depends on nothing else.
LEMMA ViewFrame ==
  ASSUME UNCHANGED <<n, view, vsize, objects>>
  PROVE  /\ Detect' = Detect
         /\ \A f : ExtractField(f)' = ExtractField(f) /\ DetectField(f)' = DetectField(f)
<1>1. V!SectionCount' = V!SectionCount /\ V!Body' = V!Body
  BY DEF V!SectionCount, V!Body
<1>2. \A f : V!GetField(f)' = V!GetField(f)
  BY <1>1 DEF V!GetField, V!MarkOf, V!CountUpTo, V!SumOver, V!Sect
<1>3. \A p : V!GetObject(p)' = V!GetObject(p)
  BY DEF V!GetObject, V!WordAt, V!Blank, V!Word
<1>4. V!DetectEnd' = V!DetectEnd
  BY <1>1 DEF V!DetectEnd, V!CountUpTo, V!SumOver, V!Sect
<1>5. \A f : FieldAt(f)' = FieldAt(f)
  BY <1>2, <1>3 DEF FieldAt
<1>6. \A f : FieldLength(f)' = FieldLength(f)
  BY <1>2, <1>5 DEF FieldLength
<1>7. \A f : DetectField(f)' = DetectField(f)
  BY <1>5, <1>6 DEF DetectField
<1>8. \A f : ExtractField(f)' = ExtractField(f)
  BY <1>7 DEF ExtractField, Value
<1>9. Detect' = Detect
  BY <1>4, <1>5, <1>6 DEF Detect
<1>10. QED BY <1>7, <1>8, <1>9

\* A set of numbers has a least one.
LEMMA LeastNumber ==
  ASSUME NEW T \in SUBSET Nat, T # {}
  PROVE  \E x \in T : \A y \in T : x <= y
<1>1. PICK x \in T : \A y \in T : ~(<<y, x>> \in OpToRel(<, Nat))
  BY WFMin, NatLessThanWellFounded, Zenon
<1>2. ASSUME NEW y \in T PROVE x <= y
  <2>1. ~(y < x)
    BY <1>1 DEF OpToRel
  <2>2. QED BY <2>1
<1>3. QED BY <1>2

\* A set of fields has a last one.
LEMMA LastField ==
  ASSUME n \in Nat, NEW S \in SUBSET Fields, S # {}
  PROVE  Max(S) \in S /\ \A f \in S : f <= Max(S)
<1>1. \A f \in S : f \in Nat /\ n - f \in Nat
  BY DEF Fields
<1> DEFINE T == {n - f : f \in S}
<1>2. T \subseteq Nat /\ T # {}
  BY <1>1
<1>3. PICK x \in T : \A y \in T : x <= y
  <2> HIDE DEF T
  <2>1. QED BY <1>2, LeastNumber
<1>4. PICK s \in S : x = n - s
  OBVIOUS
<1>5. \A f \in S : f <= s
  <2>1. SUFFICES ASSUME NEW f \in S PROVE f <= s
    OBVIOUS
  <2>2. n - f \in T /\ n - f \in Nat /\ x \in Nat
    BY <1>2
  <2>3. x <= n - f
    BY <1>3, <2>2
  <2>4. f \in Nat /\ s \in Nat
    BY <1>1
  <2>5. QED BY <1>4, <2>3, <2>4
<1>6. \E m \in S : \A f \in S : m >= f
  BY <1>1, <1>5
<1>7. Max(S) \in S /\ \A f \in S : Max(S) >= f
  BY <1>6 DEF Max
<1>8. QED BY <1>1, <1>7

\* The last object behind the body ends where the message ends.
LEMMA LastObject ==
  ASSUME Static
  PROVE  LET behind == {f \in Fields : Sl[f] # 0}
         IN  IF behind = {} THEN Base = last
             ELSE /\ Max(behind) \in behind /\ Behind(Max(behind)) = Sl[Max(behind)]
<1> DEFINE behind == {f \in Fields : Sl[f] # 0}
<1>1. n \in Nat /\ Fields = 0 .. n - 1 /\ last \in Nat
  BY FieldBounds
<1>2. CASE behind = {}
  <2>1. \A f \in 0 .. n - 1 : Sl[f] = 0
    BY <1>1, <1>2
  <2>2. Behind(0) = 0
    BY <2>1, SumZero DEF Behind
  <2>3. QED BY <1>1, <1>2, <2>2, AreaFacts
<1>3. CASE behind # {}
  <2> DEFINE m == Max(behind)
             j == m + 1
  <2>1. m \in behind /\ \A f \in behind : f <= m
    BY <1>1, <1>3, LastField
  <2>2. m \in Fields /\ m \in 0 .. n - 1 /\ \A f \in j .. n - 1 : Sl[f] = 0
    <3>1. m \in 0 .. n - 1
      BY <1>1, <2>1
    <3> HIDE DEF m
    <3>2. ASSUME NEW f \in j .. n - 1 PROVE Sl[f] = 0
      <4>1. f \in Fields /\ ~(f <= m)
        BY <1>1, <3>1
      <4>2. QED BY <2>1, <4>1
    <3>3. QED BY <1>1, <3>1, <3>2
  <2>3. Behind(m) = Sl[m] + Behind(j) /\ Sl[m] \in Nat
    BY <1>1, <2>2, AheadStep, FieldBounds
  <2>4. Behind(j) = 0
    BY <2>2, SumZero DEF Behind
  <2>5. Behind(m) = Sl[m]
    BY <2>3, <2>4
  <2>6. QED BY <1>3, <2>1, <2>5
<1>4. QED BY <1>2, <1>3

\* The objects behind the body.
BehindBody == {f \in objects : FieldAt(f) - FieldLength(f) < V!DetectEnd}

\* The reads of the original message after it was opened.
LEMMA OpenValues ==
  ASSUME Whole, n' = n, view' = mem, vsize' = size, objects' = {f \in Fields : value[f].object}
  PROVE  /\ \A f \in Fields : ExtractField(f)' = value[f]
         /\ Detect' = last
<1>1. Static /\ n \in Nat /\ Fields = 0 .. n - 1 /\ \A f \in Fields : IsValue(value[f])
  BY FieldBounds DEF Whole, Static, FieldOK
<1>2. /\ V!DetectEnd' = DetectEnd
      /\ \A f : V!GetField(f)' = GetField(f)
      /\ \A p : V!GetObject(p)' = GetObject(p)
  BY OpenReads
<1>3. ASSUME NEW f \in Fields
      PROVE  FieldAt(f)' = ReadAt(f) /\ FieldLength(f)' = ReadLength(f)
  <2>1. f \in objects' <=> value[f].object
    OBVIOUS
  <2>2. FieldAt(f)' = ReadAt(f)
    BY <1>2, <2>1 DEF FieldAt, ReadAt
  <2>3. FieldLength(f)' = ReadLength(f)
    BY <1>2, <2>1, <2>2 DEF FieldLength, ReadLength
  <2>4. QED BY <2>2, <2>3
<1>4. ASSUME NEW f \in Fields
      PROVE  /\ ReadLength(f) = LenOf(value[f])
             /\ \A w \in 1 .. LenOf(value[f]) : mem[ReadAt(f) - w + 1] = value[f].words[w]
  <2>1. CASE value[f] # Nothing
    BY <2>1, ReadFacts
  <2>2. CASE value[f] = Nothing
    <3>1. LenOf(value[f]) = 0
      BY <2>2, NothingFacts
    <3>2. Wd[f] = 0
      BY <1>1, <3>1, UnitFacts
    <3>3. GetField(f).width = 0
      BY <1>1, <3>2, GetFieldFacts
    <3>4. ReadLength(f) = 0
      BY <3>3 DEF ReadLength
    <3>5. QED BY <3>1, <3>4
  <2>3. QED BY <2>1, <2>2
<1>5. ASSUME NEW f \in Fields PROVE ExtractField(f)' = value[f]
  <2> DEFINE l == LenOf(value[f])
  <2>1. DetectField(f)' = [w \in 1 .. FieldLength(f)' |-> mem[FieldAt(f)' - w + 1]]
    BY DEF DetectField
  <2>2. DetectField(f)' = [w \in 1 .. l |-> mem[ReadAt(f) - w + 1]]
    BY <1>3, <1>4, <2>1
  <2>3. value[f].words = [w \in 1 .. l |-> value[f].words[w]]
        /\ value[f] = Value(value[f].object, value[f].words) /\ value[f].object \in BOOLEAN
    BY <1>1, ValueFacts
  <2>4. [w \in 1 .. l |-> mem[ReadAt(f) - w + 1]] = [w \in 1 .. l |-> value[f].words[w]]
    BY <1>4
  <2>5. DetectField(f)' = value[f].words
    BY <2>2, <2>3, <2>4
  <2>6. (f \in objects)' = value[f].object
    BY <2>3
  <2>7. ExtractField(f)' = Value((f \in objects)', DetectField(f)')
    BY DEF ExtractField, Value
  <2>8. QED BY <2>3, <2>5, <2>6, <2>7
<1>6. Detect' = last
  <2> DEFINE out == {f \in Fields : Sl[f] # 0}
  <2>1. V!DetectEnd' = Base /\ Base \in Nat /\ last \in Nat
        /\ Base = last + Behind(0) /\ Behind(0) \in Nat
    BY <1>1, <1>2, DetectFacts, AreaFacts, FieldBounds
  <2>2. ASSUME NEW f \in Fields, value[f].object
        PROVE  /\ FieldAt(f)' - FieldLength(f)' < V!DetectEnd' <=> Sl[f] # 0
               /\ Sl[f] # 0 => FieldAt(f)' - FieldLength(f)' = last + Behind(f) - Sl[f]
    <3> DEFINE l == LenOf(value[f])
    <3>1. value[f] # Nothing
      BY <2>2, NothingFacts
    <3>2. l \in Nat /\ l # 0
      <4>1. l \in 0 .. MaxLen /\ (l = 0 <=> value[f] = Nothing)
        BY <1>1, ValueFacts
      <4>2. QED BY <3>1, <4>1, ScaleAssumption
    <3>3. FieldLength(f)' = l
          /\ FieldAt(f)' = IF l < 4 THEN Place(f) ELSE last + Behind(f)
      BY <1>3, <3>1, ReadFacts
    <3>4. CASE l < 4
      <4>1. Sl[f] = 0 /\ Wd[f] = l
        BY <1>1, <3>4, UnitFacts
      <4>2. Base <= Place(f) - Wd[f] /\ Place(f) \in Int
        BY <1>1, PlaceFacts
      <4>3. QED BY <2>1, <3>2, <3>3, <3>4, <4>1, <4>2
    <3>5. CASE ~(l < 4)
      <4>1. Sl[f] = l /\ l >= 4
        BY <1>1, <3>2, <3>5, UnitFacts
      <4>2. parts[f].pos = last + Behind(f) /\ parts[f].pos \in Nat /\ parts[f].pos <= Base
            /\ Behind(f) \in Nat
        BY <1>1, <3>2, <4>1, SegmentPlace, AheadStep
      <4>3. Behind(f) \in Nat /\ last + Behind(f) <= Base
        BY <2>1, <4>2
      <4>4. FieldAt(f)' = last + Behind(f) /\ FieldLength(f)' = l /\ l \in Nat
        BY <3>2, <3>3, <3>5
      <4>5. FieldAt(f)' - FieldLength(f)' < V!DetectEnd'
        BY <2>1, <4>1, <4>3, <4>4
      <4>6. QED BY <2>1, <3>2, <4>1, <4>3, <4>4, <4>5
    <3>6. QED BY <3>4, <3>5
  <2>3. BehindBody' = out
    <3>1. ASSUME NEW f \in out PROVE value[f].object
      <4>1. LenOf(value[f]) >= 4
        <5>1. f \in Fields /\ Sl[f] # 0
          OBVIOUS
        <5>2. LenOf(value[f]) \in 0 .. MaxLen /\ MaxLen \in Nat
          BY <1>1, <5>1, UnitFacts, ScaleAssumption
        <5>3. LenOf(value[f]) < 4 => Sl[f] = 0
          BY <1>1, <5>1, UnitFacts
        <5>4. QED BY <5>1, <5>2, <5>3
      <4>2. QED BY <1>1, <4>1, ValueFacts
    <3>2. ASSUME NEW f PROVE f \in BehindBody' <=> f \in out
      <4>1. f \in BehindBody' <=> f \in Fields /\ value[f].object
                                  /\ FieldAt(f)' - FieldLength(f)' < V!DetectEnd'
        BY DEF BehindBody
      <4>2. f \in out <=> f \in Fields /\ Sl[f] # 0
        OBVIOUS
      <4>3. QED BY <2>2, <3>1, <4>1, <4>2
    <3> HIDE DEF out
    <3>3. QED BY <3>2, <2>1 DEF BehindBody
  <2>4. /\ BehindBody' = {} => Detect' = V!DetectEnd'
        /\ \A m : BehindBody' # {} /\ m = Max(BehindBody')
                 => Detect' = FieldAt(m)' - FieldLength(m)'
    BY DEF Detect, BehindBody
  <2>5. CASE out = {}
    <3>1. Base = last
      BY <1>1, <2>5, LastObject
    <3>2. QED BY <2>1, <2>3, <2>4, <2>5, <3>1
  <2>6. CASE out # {}
    <3>1. Max(out) \in out /\ Behind(Max(out)) = Sl[Max(out)]
      BY <1>1, <2>6, LastObject
    <3>2. PICK m : m = Max(out)
      OBVIOUS
    <3>3. m \in Fields /\ Sl[m] # 0 /\ value[m].object /\ Behind(m) = Sl[m]
      <4>1. m \in out /\ Behind(m) = Sl[m]
        BY <3>1, <3>2
      <4>2. value[m].object
        BY <2>3, <4>1 DEF BehindBody
      <4>3. QED BY <4>1, <4>2
    <3>4. FieldAt(m)' - FieldLength(m)' = last
      <4>1. FieldAt(m)' - FieldLength(m)' = last + Behind(m) - Sl[m]
        BY <2>2, <3>3
      <4>2. Sl[m] \in Nat
        BY <1>1, <3>3, UnitFacts
      <4>3. QED BY <2>1, <3>3, <4>1, <4>2
    <3>5. Detect' = FieldAt(m)' - FieldLength(m)'
      BY <2>3, <2>4, <2>6, <3>2
    <3>6. QED BY <3>4, <3>5
  <2>7. QED BY <2>5, <2>6
<1>7. QED BY <1>5, <1>6

-----------------------------------------------------------------------------
(* Copying a whole message.                                                *)

\* Whether words are the message depends on the fields only.
LEMMA MessageFrame ==
  ASSUME UNCHANGED <<n, last, value, parts>>
  PROVE  \A m, s : MessageOK(m, s)' <=> MessageOK(m, s)
<1>1. ASSUME NEW m, NEW f PROVE SegmentOK(m, f)' <=> SegmentOK(m, f)
  <2>1. Sl' = Sl
    BY Frame
  <2>2. QED BY <2>1 DEF SegmentOK
<1>2. ASSUME NEW m, NEW s, NEW a PROVE GroupOK(m, s, a)' <=> GroupOK(m, s, a)
  <2>1. Group(a)' = Group(a) /\ GroupMark(a)' = GroupMark(a) /\ Wd' = Wd
        /\ \A f : Place(f)' = Place(f) /\ \A w : BodyWord(f, w)' = BodyWord(f, w)
    BY Frame
  <2>2. GroupPlace(s, a)' = GroupPlace(s, a)
    BY DEF GroupPlace
  <2>3. QED BY <2>1, <2>2 DEF GroupOK
<1>3. Section' = Section /\ Top' = Top /\ Fields' = Fields
  BY Frame
<1>4. QED BY <1>1, <1>2, <1>3 DEF MessageOK

\* The message lies between last and its head.
LEMMA MessageCopied ==
  ASSUME Static, NEW m, NEW s, MessageOK(m, s),
         NEW c, \A p \in last + 1 .. s : c[p] = m[p]
  PROVE  MessageOK(c, s)
<1>1. /\ last \in Nat /\ Base \in Nat /\ Top \in Nat /\ last <= Base /\ Base <= Top
      /\ Section \in Nat /\ s = Top + 1 + 2 * Section
  BY FieldBounds, AreaFacts, SectionFacts DEF MessageOK
<1>2. ASSUME NEW f \in Fields PROVE SegmentOK(c, f)
  <2>1. SUFFICES ASSUME Sl[f] # 0, NEW w \in 1 .. Sl[f]
                 PROVE  c[parts[f].pos - w + 1] = value[f].words[w]
    BY DEF SegmentOK
  <2>2. m[parts[f].pos - w + 1] = value[f].words[w]
    BY <2>1 DEF MessageOK, SegmentOK
  <2>3. parts[f].pos \in Nat /\ parts[f].pos <= Base /\ parts[f].pos - Sl[f] >= last
    BY <2>1, SegmentPlace
  <2>4. Sl[f] \in Nat
    BY UnitFacts
  <2>5. parts[f].pos - w + 1 \in last + 1 .. s
    BY <1>1, <2>1, <2>3, <2>4
  <2>6. QED BY <2>2, <2>5
<1>3. ASSUME NEW a \in 0 .. Section PROVE GroupOK(c, s, a)
  <2>1. m[GroupPlace(s, a)] = GroupMark(a)
        /\ \A f \in Group(a) : \A w \in 1 .. Wd[f] : m[Place(f) - w + 1] = BodyWord(f, w)
    BY DEF MessageOK, GroupOK
  <2>2. GroupPlace(s, a) \in last + 1 .. s
    <3>1. GroupPlace(s, a) \in Top + 1 .. s
      BY <1>1, MarkPlaces
    <3>2. QED BY <1>1, <3>1
  <2>3. ASSUME NEW f \in Group(a), NEW w \in 1 .. Wd[f]
        PROVE  Place(f) - w + 1 \in last + 1 .. s
    <3>1. f \in Fields
      BY GroupFacts
    <3>2. Place(f) - w + 1 \in Base + 1 .. Top
      BY <3>1, BodyPlaces
    <3>3. QED BY <1>1, <3>2
  <2>4. QED BY <2>1, <2>2, <2>3 DEF GroupOK
<1>4. QED BY <1>1, <1>2, <1>3 DEF MessageOK

\* What the user finds does not change with the message that is written.
LEMMA WantFrame ==
  ASSUME UNCHANGED <<n, lazyVars>>
  PROVE  /\ Fields' = Fields /\ \A f : WantOK(f)' <=> WantOK(f)
         /\ Detect' = Detect
         /\ OffsetsOK(view)' <=> OffsetsOK(view)
<1>1. UNCHANGED <<view, vsize, objects, accessed, field, want>>
  BY DEF lazyVars
<1>2. Detect' = Detect /\ \A f : ExtractField(f)' = ExtractField(f)
  BY <1>1, ViewFrame
<1>3. \A f : WantOK(f)' <=> WantOK(f)
  BY <1>1, <1>2 DEF WantOK
<1>4. QED BY <1>1, <1>2, <1>3 DEF Fields, OffsetsOK

\* A step that writes the message leaves the rest of the invariant.
LEMMA LazyKeep ==
  ASSUME LazyInv, ~Opened => phase # "edit" /\ accessed = {}, n \in Nat,
         UNCHANGED <<n, last, lazyVars>>, phase' # "edit",
         Opened /\ phase' = "fields" => \A f \in k' + 1 .. n - 1 : value'[f] = want[f],
         Opened /\ phase' \in {"mark", "done"} => value' = want
  PROVE  LazyInv' /\ (~Opened' => phase' # "edit" /\ accessed' = {})
<1>1. UNCHANGED <<view, vsize, objects, accessed, field, want>> /\ (Opened' <=> Opened)
  BY DEF lazyVars, Opened
<1>2. /\ Fields' = Fields /\ \A f : WantOK(f)' <=> WantOK(f)
      /\ OffsetsOK(view)' <=> OffsetsOK(view)
  BY WantFrame
<1>3. LazyInv'
  <2>1. SUFFICES ASSUME Opened PROVE LazyInv'
    BY <1>1 DEF LazyInv
  <2>2. /\ accessed \subseteq Fields
        /\ want = [f \in Fields |-> want[f]] /\ field = [f \in Fields |-> field[f]]
        /\ \A f \in Fields : WantOK(f)
        /\ view = [p \in 1 .. Room |-> view[p]] /\ vsize <= Room /\ last < vsize
        /\ OffsetsOK(view)
    BY <2>1 DEF LazyInv
  <2>3. /\ accessed' \subseteq Fields'
        /\ want' = [f \in Fields' |-> want'[f]] /\ field' = [f \in Fields' |-> field'[f]]
        /\ \A f \in Fields' : WantOK(f)'
        /\ view' = [p \in 1 .. Room |-> view'[p]] /\ vsize' <= Room /\ last' < vsize'
        /\ OffsetsOK(view)'
    BY <1>1, <1>2, <2>2
  <2>4. QED BY <1>1, <2>1, <2>3 DEF LazyInv
<1>4. QED BY <1>1, <1>3

-----------------------------------------------------------------------------
(* Every step keeps the invariant.                                         *)

\* The message is written: the steps of MessageFormat.
LEMMA WriteSteps ==
  ASSUME IInv, UNCHANGED lazyVars,
         Write \/ WriteEmpty \/ StartMessage \/ MarkGroup \/ FinishMessage \/ Finished
  PROVE  IInv'
<1>1. /\ TypeInv /\ MessageInv /\ LazyInv /\ vsize' = vsize
      /\ ~Opened => phase # "edit" /\ accessed = {}
      /\ n \in Nat /\ Fields = 0 .. n - 1
      /\ value = [f \in Fields |-> value[f]]
  BY DEF IInv, TypeInv, lazyVars, Fields
<1>2. /\ Opened /\ phase = "fields" /\ k = -1 => value = want
      /\ Opened /\ phase \in {"mark", "done"} => value = want
  <2>1. SUFFICES ASSUME Opened, phase = "fields", k = -1 PROVE value = want
    BY <1>1 DEF LazyInv
  <2>2. want = [f \in Fields |-> want[f]] /\ \A f \in k + 1 .. n - 1 : value[f] = want[f]
    BY <1>1, <2>1 DEF LazyInv
  <2>3. k + 1 .. n - 1 = Fields
    BY <1>1, <2>1
  <2>4. QED BY <1>1, <2>2, <2>3
<1>3. CASE Write
  <2>1. TypeInv' /\ MessageInv' /\ phase' = phase
    BY <1>1, <1>3, WriteField
  <2>2. ~Opened /\ phase = "fields" /\ UNCHANGED <<n, last>>
    BY <1>3 DEF Write, FieldMissing, FieldInline, FieldObject, FieldEmptyMessage
  <2>3. LazyInv' /\ (~Opened' => phase' # "edit" /\ accessed' = {})
    BY <1>1, <2>1, <2>2, LazyKeep
  <2>4. QED BY <2>1, <2>3 DEF IInv
<1>4. CASE WriteEmpty
  <2>1. TypeInv' /\ MessageInv' /\ phase' = "done" /\ phase = "fields" /\ k = -1
    BY <1>1, <1>4, EmptyStep
  <2>2. UNCHANGED <<n, last, value>>
    BY <1>4 DEF WriteEmpty
  <2>3. LazyInv' /\ (~Opened' => phase' # "edit" /\ accessed' = {})
    BY <1>1, <1>2, <2>1, <2>2, LazyKeep
  <2>4. QED BY <2>1, <2>3 DEF IInv
<1>5. CASE StartMessage
  <2>1. TypeInv' /\ MessageInv' /\ phase' \in {"mark", "failed"} /\ phase = "fields" /\ k = -1
    BY <1>1, <1>5, StartStep
  <2>2. UNCHANGED <<n, last, value>>
    BY <1>5 DEF StartMessage
  <2>3. LazyInv' /\ (~Opened' => phase' # "edit" /\ accessed' = {})
    BY <1>1, <1>2, <2>1, <2>2, LazyKeep
  <2>4. QED BY <2>1, <2>3 DEF IInv
<1>6. CASE MarkGroup
  <2>1. TypeInv' /\ MessageInv' /\ phase = "mark" /\ phase' \in {"mark", "failed"}
    BY <1>1, <1>6, MarkStep
  <2>2. UNCHANGED <<n, last, size, value, parts>>
    BY <1>6, Zenon DEF MarkGroup
  <2>3. LazyInv' /\ (~Opened' => phase' # "edit" /\ accessed' = {})
    BY <1>1, <1>2, <2>1, <2>2, LazyKeep
  <2>4. QED BY <2>1, <2>3 DEF IInv
<1>7. CASE FinishMessage
  <2>1. TypeInv' /\ MessageInv' /\ phase = "mark" /\ phase' = "done"
    BY <1>1, <1>7, FinishStep
  <2>2. UNCHANGED <<n, last, value>>
    BY <1>7 DEF FinishMessage
  <2>3. LazyInv' /\ (~Opened' => phase' # "edit" /\ accessed' = {})
    BY <1>1, <1>2, <2>1, <2>2, LazyKeep
  <2>4. QED BY <2>1, <2>3 DEF IInv
<1>8. CASE Finished
  <2>1. phase \in {"done", "failed"} /\ UNCHANGED vars
    BY <1>8 DEF Finished
  <2>2. TypeInv' /\ MessageInv'
    BY <1>1, <2>1, StutterStep
  <2>3. UNCHANGED <<n, last, value, phase>>
    BY <2>1 DEF vars
  <2>4. LazyInv' /\ (~Opened' => phase' # "edit" /\ accessed' = {})
    BY <1>1, <1>2, <2>1, <2>3, LazyKeep
  <2>5. QED BY <2>2, <2>4 DEF IInv
<1>9. QED BY <1>3, <1>4, <1>5, <1>6, <1>7, <1>8

\* The fields are read and changed.
LEMMA EditStep ==
  ASSUME IInv, phase = "edit", UNCHANGED <<vars, view, vsize, objects>>,
         accessed' \subseteq Fields,
         want' = [f \in Fields |-> want'[f]], field' = [f \in Fields |-> field'[f]],
         \A f \in Fields : WantOK(f)',
         \A f \in Fields \ accessed' : value[f] = want'[f]
  PROVE  IInv'
<1>1. TypeInv /\ MessageInv /\ LazyInv /\ Opened
  BY DEF IInv
<1>2. TypeInv' /\ MessageInv'
  BY <1>1, StutterStep
<1>3. UNCHANGED <<n, last, mem, size, value, parts, k, cnt, pos, phase>> /\ Opened'
  BY <1>1 DEF vars, Opened
<1>4. /\ view = [p \in 1 .. Room |-> view[p]] /\ vsize <= Room /\ last < vsize
      /\ OffsetsOK(view) /\ size = last /\ k = n - 1 /\ cnt = 0
      /\ MessageOK(view, vsize) /\ Detect = last
  BY <1>1 DEF LazyInv
<1>5. MessageOK(view, vsize)' /\ Detect' = last' /\ OffsetsOK(view)' /\ Fields' = Fields
  BY <1>3, <1>4, MessageFrame, ViewFrame DEF OffsetsOK, Fields
<1>6. LazyInv'
  BY <1>3, <1>4, <1>5 DEF LazyInv
<1>7. QED BY <1>2, <1>3, <1>6 DEF IInv

\* A field is read.
LEMMA AccessStep ==
  ASSUME IInv, NEW f \in Fields, Access(f)
  PROVE  IInv'
<1>1. /\ phase = "edit" /\ UNCHANGED <<vars, view, vsize, objects, want>>
      /\ UNCHANGED n
  BY DEF Access, vars
<1>2. Opened /\ LazyInv
  BY <1>1 DEF IInv
<1>3. /\ accessed \subseteq Fields
      /\ want = [g \in Fields |-> want[g]] /\ field = [g \in Fields |-> field[g]]
      /\ \A g \in Fields : WantOK(g)
      /\ \A g \in Fields \ accessed : value[g] = want[g]
  BY <1>1, <1>2 DEF LazyInv
<1>4. \A g : ExtractField(g)' = ExtractField(g)
  BY <1>1, ViewFrame
<1>5. CASE f \in accessed
  <2>1. UNCHANGED <<accessed, field>>
    BY <1>5 DEF Access
  <2>2. \A g \in Fields : WantOK(g)'
    BY <1>1, <1>3, <1>4, <2>1 DEF WantOK
  <2>3. QED BY <1>1, <1>3, <2>1, <2>2, EditStep
<1>6. CASE f \notin accessed
  <2>1. accessed' = accessed \union {f} /\ field' = [field EXCEPT ![f] = ExtractField(f)]
    BY <1>6 DEF Access
  <2>2. ASSUME NEW g \in Fields PROVE WantOK(g)'
    <3>1. WantOK(g)
      BY <1>3
    <3>2. want'[g] = IF g \in accessed' THEN field'[g] ELSE ExtractField(g)'
      BY <1>1, <1>3, <1>4, <1>6, <2>1, <3>1 DEF WantOK
    <3>3. IsValue(want'[g]) \/ (g \in accessed' /\ want'[g] = Null)
      BY <1>1, <2>1, <3>1 DEF WantOK
    <3>4. QED BY <3>2, <3>3 DEF WantOK
  <2>3. field' = [g \in Fields |-> field'[g]]
    BY <1>3, <2>1
  <2>4. QED BY <1>1, <1>3, <2>1, <2>2, <2>3, EditStep
<1>7. QED BY <1>5, <1>6

\* The values a user can assign.
LEMMA AssignedValues ==
  ASSUME NEW f \in Nat, NEW v \in NewValues(f)
  PROVE  IsValue(v) \/ v = Null
<1>1. MaxLen \in Nat /\ MaxLen >= 4 /\ f + MaxFields \in Nat
  BY ScaleAssumption
<1>2. CASE v = Nothing
  BY <1>2 DEF IsValue
<1>3. CASE v = Value(FALSE, Data(f + MaxFields, 2, 3))
  <2>1. 2 \in 1 .. MaxLen /\ 2 <= 3 /\ 3 \in {0, 3} /\ FALSE \in BOOLEAN
    BY <1>1
  <2> DEFINE l == 2
             low == 3
  <2>2. l \in 1 .. MaxLen /\ l <= 3 /\ low \in {0, 3}
    BY <2>1
  <2> HIDE DEF l, low
  <2>3. IsValue(Value(FALSE, Data(f + MaxFields, l, low)))
    BY <1>1, <2>2, MakeValue
  <2>4. QED BY <1>3, <2>3 DEF l, low
<1>4. CASE v = Value(TRUE, Data(f + MaxFields, 3, 0))
  <2>1. 3 \in 1 .. MaxLen
    BY <1>1
  <2>2. QED BY <1>1, <1>4, <2>1, MakeValue
<1>5. CASE v = Value(TRUE, Data(f + MaxFields, 4, 3))
  <2>1. 4 \in 1 .. MaxLen /\ ~(4 <= 3)
    BY <1>1
  <2>2. QED BY <1>1, <1>5, <2>1, MakeValue
<1>6. QED BY <1>2, <1>3, <1>4, <1>5 DEF NewValues

\* A field is changed.
LEMMA AssignStep ==
  ASSUME IInv, NEW f \in Fields, Assign(f)
  PROVE  IInv'
<1>1. /\ phase = "edit" /\ UNCHANGED <<vars, view, vsize, objects, accessed>>
      /\ UNCHANGED n /\ f \in accessed
  BY DEF Assign, vars
<1>2. PICK v \in NewValues(f) : /\ field' = [field EXCEPT ![f] = v]
                                /\ want' = [want EXCEPT ![f] = v]
  BY DEF Assign
<1>3. Opened /\ LazyInv
  BY <1>1 DEF IInv
<1>4. /\ accessed \subseteq Fields
      /\ want = [g \in Fields |-> want[g]] /\ field = [g \in Fields |-> field[g]]
      /\ \A g \in Fields : WantOK(g)
      /\ \A g \in Fields \ accessed : value[g] = want[g]
  BY <1>1, <1>3 DEF LazyInv
<1>5. \A g : ExtractField(g)' = ExtractField(g)
  BY <1>1, ViewFrame
<1>6. IsValue(v) \/ v = Null
  <2>1. f \in Nat
    BY DEF Fields
  <2>2. QED BY <2>1, AssignedValues
<1>7. want' = [g \in Fields |-> want'[g]] /\ field' = [g \in Fields |-> field'[g]]
      /\ want'[f] = v /\ field'[f] = v
      /\ \A g \in Fields \ {f} : want'[g] = want[g] /\ field'[g] = field[g]
  BY <1>2, <1>4
<1>8. ASSUME NEW g \in Fields PROVE WantOK(g)'
  <2>1. WantOK(g)
    BY <1>4
  <2>2. want'[g] = IF g \in accessed' THEN field'[g] ELSE ExtractField(g)'
    BY <1>1, <1>5, <1>7, <2>1 DEF WantOK
  <2>3. IsValue(want'[g]) \/ (g \in accessed' /\ want'[g] = Null)
    BY <1>1, <1>6, <1>7, <2>1 DEF WantOK
  <2>4. QED BY <2>2, <2>3 DEF WantOK
<1>9. \A g \in Fields \ accessed' : value[g] = want'[g]
  BY <1>1, <1>4, <1>7
<1>10. QED BY <1>1, <1>4, <1>7, <1>8, <1>9, EditStep

\* A message that was written is opened.
LEMMA OpenStep ==
  ASSUME IInv, Open
  PROVE  IInv'
<1>1. /\ phase = "done" /\ ~Opened /\ phase' = "edit"
      /\ view' = mem /\ vsize' = size /\ want' = value
      /\ objects' = {f \in Fields : value[f].object}
      /\ field' = [f \in Fields |-> Nothing]
      /\ mem' = [p \in DOMAIN mem |-> Blank] /\ size' = last
      /\ k' = n - 1 /\ cnt' = 0 /\ pos' = 0
      /\ UNCHANGED <<n, last, value, parts, accessed>>
  BY DEF Open
<1>2. Whole /\ accessed = {} /\ TypeInv /\ OffsetsOK(mem) /\ n \in Nat /\ last \in Nat
      /\ \A f \in Fields : FieldOK(f)
  BY <1>1, DoneWhole, FieldBounds DEF IInv, MessageInv, Whole
<1>3. /\ DOMAIN mem = 1 .. Room /\ size \in Nat /\ Top < size /\ Top \in Nat /\ last <= Top
      /\ size <= Room /\ MessageOK(mem, size)
  BY <1>2, ReaderFacts, AreaFacts DEF Whole
<1>4. Fields' = Fields /\ \A f \in Fields' : FieldOK(f)'
  BY <1>1, <1>2, Frame
<1>5. TypeInv'
  <2>1. mem' = [p \in 1 .. Room |-> mem'[p]]
    BY <1>1, <1>3
  <2>2. n' - 1 \in Int /\ 0 \in Nat /\ 0 \in Int
    BY <1>1, <1>2
  <2>3. QED BY <1>1, <1>2, <1>3, <1>4, <2>1, <2>2 DEF TypeInv
<1>6. MessageInv'
  <2>1. ASSUME NEW p \in 1 .. Room PROVE mem'[p].what # "offset"
    BY <1>1, <1>3 DEF Blank, Word
  <2>2. OffsetsOK(mem)'
    BY <2>1 DEF OffsetsOK
  <2>3. QED BY <1>1, <1>4, <2>2 DEF MessageInv, FieldsInv, MarkInv, DoneInv
<1>7. LazyInv'
  <2>1. /\ \A f \in Fields : ExtractField(f)' = value[f]
        /\ Detect' = last
    BY <1>1, <1>2, OpenValues
  <2>2. \A f \in Fields : WantOK(f)'
    BY <1>1, <1>2, <2>1 DEF WantOK, FieldOK
  <2>3. value = [f \in Fields |-> value[f]]
    BY <1>2 DEF TypeInv
  <2>4. MessageOK(view, vsize)'
    BY <1>1, <1>3, MessageFrame
  <2>5. OffsetsOK(view)'
    BY <1>1, <1>2 DEF OffsetsOK
  <2>6. view' = [p \in 1 .. Room |-> view'[p]]
    BY <1>1, <1>2 DEF TypeInv
  <2>7. vsize' <= Room /\ last' < vsize' /\ size' = last' /\ k' = n' - 1 /\ cnt' = 0
        /\ Detect' = last'
    BY <1>1, <1>2, <1>3, <2>1
  <2>8. /\ accessed' \subseteq Fields' /\ want' = [f \in Fields' |-> want'[f]]
        /\ field' = [f \in Fields' |-> field'[f]]
        /\ \A f \in Fields' : WantOK(f)'
        /\ \A f \in Fields' \ accessed' : value'[f] = want'[f]
    BY <1>1, <1>2, <1>4, <2>2, <2>3
  <2>9. QED BY <1>1, <2>4, <2>5, <2>6, <2>7, <2>8 DEF LazyInv
<1>8. Opened'
  BY <1>1, <1>3 DEF Opened
<1>9. QED BY <1>5, <1>6, <1>7, <1>8 DEF IInv

\* A state in which the fields can be read and changed.
LEMMA EditState ==
  ASSUME IInv, phase = "edit"
  PROVE  /\ TypeInv /\ MessageInv /\ LazyInv /\ Opened /\ Static
         /\ n \in Nat /\ Fields = 0 .. n - 1 /\ last \in Nat /\ Room \in Nat
         /\ accessed \subseteq Fields
         /\ want = [f \in Fields |-> want[f]] /\ value = [f \in Fields |-> value[f]]
         /\ \A f \in Fields \ accessed : value[f] = want[f]
         /\ OffsetsOK(mem) /\ OffsetsOK(view)
         /\ mem = [p \in 1 .. Room |-> mem[p]]
         /\ vsize \in Nat /\ vsize <= Room /\ last < vsize /\ size = last
         /\ k = n - 1 /\ cnt = 0
         /\ MessageOK(view, vsize) /\ Detect = last
<1>1. TypeInv /\ MessageInv /\ LazyInv /\ Opened
  BY DEF IInv
<1>2. Static
  BY <1>1 DEF TypeInv, MessageInv, Static
<1>3. n \in Nat /\ Fields = 0 .. n - 1 /\ last \in Nat /\ Room \in Nat
  BY <1>2, FieldBounds, RoomFacts
<1>4. QED BY <1>1, <1>2, <1>3 DEF TypeInv, MessageInv, LazyInv

\* The words of the original message are copied.
LEMMA CopyStep ==
  ASSUME IInv, CopyMessage
  PROVE  IInv'
<1>1. /\ phase = "edit" /\ accessed = {} /\ phase' = "done"
      /\ size' = size + vsize - Detect
      /\ mem' = [p \in DOMAIN mem |->
                   IF p \in size + 1 .. size' THEN view[p - size' + vsize] ELSE mem[p]]
      /\ UNCHANGED <<n, last, value, parts, k, cnt, pos, lazyVars>>
  BY DEF CopyMessage
<1>2. /\ TypeInv /\ MessageInv /\ LazyInv /\ Opened /\ Static
      /\ n \in Nat /\ Fields = 0 .. n - 1 /\ last \in Nat /\ Room \in Nat
      /\ want = [f \in Fields |-> want[f]] /\ value = [f \in Fields |-> value[f]]
      /\ \A f \in Fields \ accessed : value[f] = want[f]
      /\ OffsetsOK(mem) /\ OffsetsOK(view)
      /\ mem = [p \in 1 .. Room |-> mem[p]]
      /\ vsize \in Nat /\ vsize <= Room /\ last < vsize /\ size = last
      /\ MessageOK(view, vsize) /\ Detect = last
  BY <1>1, EditState
<1>3. size' = vsize
  BY <1>1, <1>2
<1>4. mem' = [p \in 1 .. Room |-> IF p \in last + 1 .. vsize THEN view[p] ELSE mem[p]]
  <2>1. DOMAIN mem = 1 .. Room
    BY <1>2
  <2>2. \A p \in 1 .. Room : p - vsize + vsize = p
    BY <1>2
  <2>3. QED BY <1>1, <1>2, <1>3, <2>1, <2>2
<1>5. \A p \in last + 1 .. vsize : mem'[p] = view[p]
  <2>1. \A p \in last + 1 .. vsize : p \in 1 .. Room
    BY <1>2
  <2>2. QED BY <1>4, <2>1
<1>6. MessageOK(mem, size)'
  <2>1. \A c : (\A p \in last + 1 .. vsize : c[p] = view[p]) => MessageOK(c, vsize)
    BY <1>2, MessageCopied
  <2>2. MessageOK(mem', vsize)
    BY <1>5, <2>1
  <2>3. QED BY <1>1, <1>3, <2>2, MessageFrame
<1>7. OffsetsOK(mem)'
  <2>1. ASSUME NEW p \in 1 .. Room, mem'[p].what = "offset"
        PROVE  mem'[p].v \in 1 .. SizeLimit - 1
    <3>1. mem'[p] = view[p] \/ mem'[p] = mem[p]
      BY <1>4
    <3>2. QED BY <1>2, <2>1, <3>1 DEF OffsetsOK
  <2>2. QED BY <2>1 DEF OffsetsOK
<1>8. Fields' = Fields /\ \A f : FieldOK(f)' <=> FieldOK(f)
  BY <1>1, Frame
<1>9. vsize' = vsize
  BY <1>1 DEF lazyVars
<1>10. TypeInv'
  BY <1>1, <1>2, <1>3, <1>4, <1>8, <1>9 DEF TypeInv
<1>11. MessageInv'
  <2>1. \A f \in Fields : FieldOK(f)
    BY <1>2 DEF Static
  <2>2. DoneInv'
    BY <1>2, <1>3, <1>6 DEF DoneInv
  <2>3. QED BY <1>1, <1>7, <1>8, <2>1, <2>2 DEF MessageInv, FieldsInv, MarkInv
<1>12. value' = want
  BY <1>1, <1>2
<1>13. LazyInv' /\ (~Opened' => phase' # "edit" /\ accessed' = {})
  BY <1>1, <1>2, <1>12, LazyKeep
<1>14. QED BY <1>10, <1>11, <1>13 DEF IInv

\* The fields are serialized from the last to the first.
LEMMA SerializeStep ==
  ASSUME IInv, SerializeFields
  PROVE  IInv'
<1>1. /\ phase = "edit" /\ phase' = "fields"
      /\ value' = [f \in Fields |-> Nothing] /\ parts' = [f \in Fields |-> NoUnit]
      /\ UNCHANGED <<n, last, mem, size, k, cnt, pos, lazyVars>>
  BY DEF SerializeFields
<1>2. /\ TypeInv /\ LazyInv /\ Opened /\ n \in Nat /\ Fields = 0 .. n - 1
      /\ last \in Nat /\ OffsetsOK(mem) /\ size = last /\ k = n - 1 /\ cnt = 0
  BY <1>1, EditState
<1>3. Fields' = Fields /\ vsize' = vsize
  BY <1>1 DEF Fields, lazyVars
<1>4. TypeInv'
  BY <1>1, <1>2, <1>3 DEF TypeInv
<1>5. ASSUME NEW f \in Fields PROVE FieldOK(f)' /\ Sl'[f] = 0
  <2>1. value'[f] = Nothing /\ parts'[f] = NoUnit
    BY <1>1
  <2>2. UnitOf(f)' = [NoUnit EXCEPT !.data = <<>>]
    <3>1. Nothing.words = <<>> /\ LenOf(Nothing) = 0
      BY NothingFacts DEF Nothing, Value
    <3>2. LenOf(value'[f]) < 4
      BY <2>1, <3>1
    <3>3. UnitOf(f)' = [NoUnit EXCEPT !.data = value'[f].words]
      BY <3>2 DEF UnitOf, NoUnit, LenOf
    <3>4. QED BY <2>1, <3>1, <3>3
  <2>3. [NoUnit EXCEPT !.data = <<>>] = NoUnit
    BY DEF NoUnit
  <2>4. IsValue(value'[f])
    BY <2>1 DEF IsValue
  <2>5. Sl'[f] = 0
    BY <1>3, <2>1 DEF Sl, NoUnit
  <2>6. QED BY <2>1, <2>2, <2>3, <2>4, <2>5 DEF FieldOK
<1>6. Base' = last
  <2>1. Behind(0)' = SumOver(Sl', 0 .. n - 1)
    BY <1>1 DEF Behind, SumOver
  <2>2. \A f \in 0 .. n - 1 : Sl'[f] = 0
    BY <1>2, <1>5
  <2>3. SumOver(Sl', 0 .. n - 1) = 0
    BY <2>2, SumZero
  <2>4. Base' = last' + Behind(0)'
    BY DEF Base
  <2>5. QED BY <1>1, <1>2, <2>1, <2>3, <2>4
<1>7. FieldsInv'
  <2>1. k' \in -1 .. n' - 1 /\ cnt' = 0 /\ size' = Base'
    BY <1>1, <1>2, <1>6
  <2>2. size' <= Before + MaxLen * (n' - 1 - k')
    <3>1. n' - 1 - k' = 0
      BY <1>1, <1>2
    <3>2. MaxLen * 0 = 0 /\ last = Before /\ last + 0 = last
      BY <1>2, ScaleAssumption DEF TypeInv
    <3>3. QED BY <1>1, <1>2, <3>1, <3>2
  <2>3. \A f \in 0 .. k' : value'[f] = Nothing
    BY <1>1, <1>2
  <2>4. \A f \in Fields' : SegmentOK(mem, f)'
    BY <1>3, <1>5 DEF SegmentOK
  <2>5. QED BY <2>1, <2>2, <2>3, <2>4 DEF FieldsInv
<1>8. OffsetsOK(mem)'
  BY <1>1, <1>2 DEF OffsetsOK
<1>9. MessageInv'
  BY <1>1, <1>3, <1>5, <1>7, <1>8 DEF MessageInv, MarkInv, DoneInv
<1>10. LazyInv' /\ (~Opened' => phase' # "edit" /\ accessed' = {})
  <2>1. k' + 1 .. n - 1 = {}
    BY <1>1, <1>2
  <2>2. QED BY <1>1, <1>2, <2>1, LazyKeep
<1>11. QED BY <1>4, <1>9, <1>10 DEF IInv

\* The field to serialize next is what the user finds.
LEMMA AtFieldState ==
  ASSUME IInv, AtField
  PROVE  /\ TypeInv /\ MessageInv /\ LazyInv /\ phase = "fields" /\ Opened
         /\ n \in Nat /\ k \in Fields /\ k >= 0
         /\ WantOK(k)
<1>1. TypeInv /\ MessageInv /\ LazyInv /\ phase = "fields" /\ Opened /\ k >= 0
  BY DEF IInv, AtField
<1>2. n \in Nat /\ k \in 0 .. n - 1
  BY <1>1, FieldsState, FieldBounds
<1>3. k \in Fields
  BY <1>2 DEF Fields
<1>4. QED BY <1>1, <1>2, <1>3 DEF LazyInv

\* A field is serialized as what the user finds in it.
LEMMA PutStep ==
  ASSUME IInv, AtField, UNCHANGED lazyVars, Put(want[k])
  PROVE  IInv'
<1>1. /\ TypeInv /\ MessageInv /\ LazyInv /\ phase = "fields" /\ Opened
      /\ n \in Nat /\ k \in Fields
  BY AtFieldState
<1>2. TypeInv' /\ MessageInv'
  BY <1>1, PutField
<1>3. /\ UNCHANGED <<n, last, phase>> /\ k' = k - 1
      /\ value' = [value EXCEPT ![k] = want[k]]
  BY DEF Put
<1>4. \A f \in k' + 1 .. n - 1 : value'[f] = want[f]
  <2>1. SUFFICES ASSUME NEW f \in k .. n - 1 PROVE value'[f] = want[f]
    BY <1>1, <1>3 DEF Fields
  <2>2. f \in Fields /\ value = [g \in Fields |-> value[g]]
    BY <1>1 DEF Fields, TypeInv
  <2>3. CASE f = k
    BY <1>3, <2>2, <2>3
  <2>4. CASE f # k
    <3>1. f \in k + 1 .. n - 1
      BY <1>1, <2>4 DEF Fields
    <3>2. value[f] = want[f]
      BY <1>1, <3>1 DEF LazyInv
    <3>3. QED BY <1>3, <2>2, <2>4, <3>2
  <2>5. QED BY <2>3, <2>4
<1>5. LazyInv' /\ (~Opened' => phase' # "edit" /\ accessed' = {})
  BY <1>1, <1>3, <1>4, LazyKeep
<1>6. QED BY <1>2, <1>5 DEF IInv

\* A field that was not accessed is copied.
LEMMA CopyFieldStep ==
  ASSUME IInv, CopyField
  PROVE  IInv'
<1> DEFINE d == DetectField(k)
           v == ExtractField(k)
<1>1. /\ AtField /\ k \notin accessed /\ k' = k - 1
      /\ UNCHANGED <<n, last, cnt, pos, phase, lazyVars>>
      /\ IF Folds(Cardinality(DOMAIN d))
           THEN PutInline(k \in objects, d) /\ UNCHANGED <<mem, size>>
           ELSE PutObject(d)
  BY DEF CopyField
<1>2. /\ TypeInv /\ MessageInv /\ phase = "fields" /\ k >= 0 /\ WantOK(k)
      /\ vsize' = vsize
  BY <1>1, AtFieldState DEF lazyVars
<1>3. want[k] = v /\ IsValue(v)
  BY <1>1, <1>2 DEF WantOK
<1>4. v.object = (k \in objects) /\ v.words = d
  BY DEF ExtractField, Value
<1>5. Cardinality(DOMAIN d) = LenOf(v)
  BY <1>4 DEF LenOf
<1> HIDE DEF d, v
<1>6. CASE LenOf(v) < 4
  <2>1. PutInline(v.object, v.words) /\ UNCHANGED <<mem, size>>
    BY <1>1, <1>4, <1>5, <1>6 DEF Folds
  <2>2. Put(v)
    BY <1>1, <1>2, <1>3, <1>6, <2>1, PutInlineValue
  <2>3. QED BY <1>1, <1>3, <2>2, PutStep
<1>7. CASE ~(LenOf(v) < 4)
  <2>1. PutObject(v.words)
    BY <1>1, <1>4, <1>5, <1>7 DEF Folds
  <2>2. v.object = TRUE
    <3>1. LenOf(v) \in 0 .. MaxLen /\ (LenOf(v) >= 4 => v.object) /\ v.object \in BOOLEAN
      BY <1>3, ValueFacts
    <3>2. QED BY <1>7, <3>1, ScaleAssumption
  <2>3. Put(v)
    BY <1>1, <1>2, <1>3, <2>1, <2>2, PutObjectValue
  <2>4. QED BY <1>1, <1>3, <2>3, PutStep
<1>8. QED BY <1>6, <1>7

\* An accessed field without contents is left out.
LEMMA NilStep ==
  ASSUME IInv, NilField
  PROVE  IInv'
<1>1. /\ AtField /\ k \in accessed /\ field[k] = Nothing
      /\ FieldMissing \/ FieldEmptyMessage
      /\ UNCHANGED lazyVars
  BY DEF NilField
<1>2. /\ TypeInv /\ MessageInv /\ phase = "fields" /\ k >= 0 /\ WantOK(k)
      /\ vsize' = vsize
  BY <1>1, AtFieldState DEF lazyVars
<1>3. want[k] = Nothing
  BY <1>1, <1>2 DEF WantOK
<1>4. /\ UNCHANGED <<n, last, size, value, parts, cnt, pos, phase>> /\ k' = k - 1
      /\ mem' = mem \/ mem' = [mem EXCEPT ![size + 1] = Word("head", 0, 0)]
  BY <1>1 DEF FieldMissing, FieldEmptyMessage
<1>5. Put(Nothing)
  BY <1>2, <1>4, PutNothing
<1>6. QED BY <1>1, <1>3, <1>5, PutStep

\* A null object fails.
LEMMA NullStep ==
  ASSUME IInv, NullField
  PROVE  IInv'
<1>1. /\ AtField /\ phase' = "failed"
      /\ UNCHANGED <<n, last, mem, size, value, parts, k, cnt, pos, lazyVars>>
  BY DEF NullField
<1>2. TypeInv /\ MessageInv /\ LazyInv /\ Opened /\ n \in Nat /\ vsize' = vsize
  BY <1>1, AtFieldState DEF lazyVars
<1>3. TypeInv'
  BY <1>1, <1>2 DEF TypeInv, Fields
<1>4. OffsetsOK(mem)'
  BY <1>1, <1>2 DEF MessageInv, OffsetsOK
<1>5. MessageInv'
  BY <1>1, <1>4 DEF MessageInv, FieldsInv, MarkInv, DoneInv
<1>6. LazyInv' /\ (~Opened' => phase' # "edit" /\ accessed' = {})
  BY <1>1, <1>2, LazyKeep
<1>7. QED BY <1>3, <1>5, <1>6 DEF IInv

\* An accessed field is serialized from its object.
LEMMA AccessedStep ==
  ASSUME IInv, AccessedField
  PROVE  IInv'
<1> DEFINE v == field[k]
<1>1. /\ AtField /\ k \in accessed /\ v \notin {Nothing, Null} /\ k' = k - 1
      /\ UNCHANGED <<n, last, cnt, pos, phase, lazyVars>>
      /\ IF v.object THEN PutObject(v.words)
         ELSE PutInline(FALSE, v.words) /\ UNCHANGED <<mem, size>>
  BY DEF AccessedField
<1>2. /\ TypeInv /\ MessageInv /\ phase = "fields" /\ k >= 0 /\ WantOK(k)
      /\ vsize' = vsize
  BY <1>1, AtFieldState DEF lazyVars
<1>3. want[k] = v /\ IsValue(v)
  BY <1>1, <1>2 DEF WantOK
<1> HIDE DEF v
<1>4. LenOf(v) \in 0 .. MaxLen /\ v.object \in BOOLEAN /\ (LenOf(v) >= 4 => v.object)
  BY <1>3, ValueFacts
<1>5. CASE v.object
  <2>1. Put(v)
    BY <1>1, <1>2, <1>3, <1>4, <1>5, PutObjectValue
  <2>2. QED BY <1>1, <1>3, <2>1, PutStep
<1>6. CASE ~v.object
  <2>1. v.object = FALSE /\ LenOf(v) < 4
    BY <1>4, <1>6, ScaleAssumption
  <2>2. PutInline(v.object, v.words) /\ UNCHANGED <<mem, size>>
    BY <1>1, <1>6, <2>1
  <2>3. Put(v)
    BY <1>1, <1>2, <1>3, <2>1, <2>2, PutInlineValue
  <2>4. QED BY <1>1, <1>3, <2>3, PutStep
<1>7. QED BY <1>5, <1>6

\* Every message starts without fields in an empty buffer.
LEMMA InitStep == LazyInit => IInv
<1> USE ScaleAssumption
<1>1. SUFFICES ASSUME LazyInit PROVE IInv
  OBVIOUS
<1>2. /\ n \in 1 .. MaxFields /\ last = Before /\ mem = [p \in 1 .. Room |-> Blank]
      /\ size = last /\ value = [f \in Fields |-> Nothing] /\ parts = [f \in Fields |-> NoUnit]
      /\ k = n - 1 /\ cnt = 0 /\ pos = 0 /\ phase = "fields"
      /\ vsize = 0 /\ accessed = {}
  BY <1>1 DEF LazyInit, Init
<1>3. n \in Nat /\ last \in Nat /\ Fields = 0 .. n - 1
  BY <1>2 DEF Fields
<1>4. TypeInv
  BY <1>2, <1>3 DEF TypeInv
<1>5. ASSUME NEW f \in Fields PROVE FieldOK(f) /\ Sl[f] = 0
  <2>1. value[f] = Nothing /\ parts[f] = NoUnit
    BY <1>2
  <2>2. UnitOf(f) = NoUnit
    <3>1. Nothing.words = <<>> /\ LenOf(Nothing) = 0
      BY NothingFacts DEF Nothing, Value
    <3>2. UnitOf(f) = [NoUnit EXCEPT !.data = <<>>]
      BY <2>1, <3>1 DEF UnitOf
    <3>3. QED BY <3>2 DEF NoUnit
  <2>3. IsValue(value[f]) /\ Sl[f] = 0
    BY <2>1 DEF IsValue, Sl, NoUnit
  <2>4. QED BY <2>1, <2>2, <2>3 DEF FieldOK
<1>6. Base = last
  <2>1. \A f \in 0 .. n - 1 : Sl[f] = 0
    BY <1>3, <1>5
  <2>2. Behind(0) = 0
    BY <2>1, SumZero DEF Behind
  <2>3. QED BY <1>3, <2>2 DEF Base
<1>7. FieldsInv
  <2>1. k \in -1 .. n - 1 /\ n - 1 - k = 0 /\ MaxLen * 0 = 0
    BY <1>2, <1>3
  <2>2. size <= Before + MaxLen * (n - 1 - k)
    BY <1>2, <2>1
  <2>3. \A f \in Fields : SegmentOK(mem, f)
    BY <1>5 DEF SegmentOK
  <2>4. \A f \in 0 .. k : value[f] = Nothing
    BY <1>2, <1>3
  <2>5. QED BY <1>2, <1>6, <2>1, <2>2, <2>3, <2>4 DEF FieldsInv
<1>8. OffsetsOK(mem)
  <2>1. \A p \in 1 .. Room : mem[p].what = "blank"
    BY <1>2 DEF Blank, Word
  <2>2. QED BY <2>1 DEF OffsetsOK
<1>9. MessageInv
  BY <1>2, <1>5, <1>7, <1>8 DEF MessageInv, MarkInv, DoneInv
<1>10. LazyInv /\ (~Opened => phase # "edit" /\ accessed = {})
  BY <1>2 DEF LazyInv, Opened
<1>11. QED BY <1>4, <1>9, <1>10 DEF IInv

\* Every step of LazyNext, and every stutter.
LEMMA NextStep == IInv /\ [LazyNext]_allVars => IInv'
<1>1. SUFFICES ASSUME IInv, [LazyNext]_allVars PROVE IInv'
  OBVIOUS
<1>2. CASE (Write \/ WriteEmpty \/ StartMessage \/ MarkGroup \/ FinishMessage \/ Finished)
           /\ UNCHANGED lazyVars
  BY <1>1, <1>2, WriteSteps
<1>3. CASE Open
  BY <1>1, <1>3, OpenStep
<1>4. CASE \E f \in Fields : Access(f) \/ Assign(f)
  BY <1>1, <1>4, AccessStep, AssignStep
<1>5. CASE CopyMessage
  BY <1>1, <1>5, CopyStep
<1>6. CASE SerializeFields
  BY <1>1, <1>6, SerializeStep
<1>7. CASE CopyField
  BY <1>1, <1>7, CopyFieldStep
<1>8. CASE NilField
  BY <1>1, <1>8, NilStep
<1>9. CASE NullField
  BY <1>1, <1>9, NullStep
<1>10. CASE AccessedField
  BY <1>1, <1>10, AccessedStep
<1>11. CASE UNCHANGED allVars
  <2>1. UNCHANGED <<vars, vsize>> /\ UNCHANGED <<n, last, value, phase, k, lazyVars>>
    BY <1>11 DEF allVars, vars, lazyVars
  <2>2. TypeInv' /\ MessageInv'
    BY <1>1, <2>1, StutterStep DEF IInv
  <2>3. UNCHANGED <<view, vsize, objects, accessed, field, want, n, last, value, parts,
                    mem, size, k, cnt, phase>>
    BY <1>11 DEF allVars, vars, lazyVars
  <2>4. CASE phase = "edit"
    <3>1. LazyInv /\ Opened
      BY <1>1, <2>4 DEF IInv
    <3>2. Fields' = Fields /\ \A f : WantOK(f)' <=> WantOK(f)
      BY <2>1, WantFrame
    <3>3. /\ accessed \subseteq Fields
          /\ want = [f \in Fields |-> want[f]] /\ field = [f \in Fields |-> field[f]]
          /\ \A f \in Fields : WantOK(f)
          /\ \A f \in Fields \ accessed : value[f] = want[f]
      BY <2>4, <3>1 DEF LazyInv
    <3>4. QED BY <1>1, <2>1, <2>3, <2>4, <3>2, <3>3, EditStep
  <2>5. CASE phase # "edit"
    <3>1. LazyInv /\ (~Opened => phase # "edit" /\ accessed = {}) /\ n \in Nat
      BY <1>1 DEF IInv, TypeInv
    <3>2. /\ Opened /\ phase' = "fields" => \A f \in k' + 1 .. n - 1 : value'[f] = want[f]
          /\ Opened /\ phase' \in {"mark", "done"} => value' = want
      BY <2>3, <3>1 DEF LazyInv
    <3>3. LazyInv' /\ (~Opened' => phase' # "edit" /\ accessed' = {})
      BY <2>1, <2>5, <3>1, <3>2, LazyKeep
    <3>4. QED BY <2>2, <3>3 DEF IInv
  <2>6. QED BY <2>4, <2>5
<1>12. QED BY <1>1, <1>2, <1>3, <1>4, <1>5, <1>6, <1>7, <1>8, <1>9, <1>10, <1>11 DEF LazyNext

\* A message that is written, opened, changed and written again keeps its
\* place in the buffer, its Units and the values of the user together.
THEOREM MessageInvariant == LazySpec => []IInv
BY InitStep, NextStep, PTL DEF LazySpec

\* Every field reads back as it was set, whatever its number and length: from
\* the body, folded, or behind it through an offset, also with sections; a
\* field that was not set is absent (SerializeMessage, Message::GetField).
THEOREM MessageReadBack == LazySpec => []ReadBack
<1>1. IInv => ReadBack
  BY InvariantReads
<1>2. QED BY <1>1, MessageInvariant, PTL

\* The end of the body that Message::Detect computes from the last section is
\* where the objects begin.
THEOREM MessageDetect == LazySpec => []DetectEndsBody
<1>1. IInv => DetectEndsBody
  BY InvariantReads
<1>2. QED BY <1>1, MessageInvariant, PTL

\* A message below the limit of SerializeMessage has offsets of 30 bits.
THEOREM MessageOffsets == LazySpec => []OffsetsFit
<1>1. IInv => OffsetsFit
  BY InvariantReads
<1>2. QED BY <1>1, MessageInvariant, PTL

\* A message that was opened and serialized again reads as the user left it
\* (MessageEX::Serialize).
THEOREM LazyMessageReadBack == LazySpec => []LazyReadBack
<1>1. IInv => LazyReadBack
  BY InvariantReads
<1>2. QED BY <1>1, MessageInvariant, PTL
=============================================================================
