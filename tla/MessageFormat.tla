--------------------------- MODULE MessageFormat ---------------------------
(***************************************************************************)
(* One message: SerializeContext::Serialize and SerializeField             *)
(* (src/extension/serialize.cc), FoldField (serialize.h), SerializeMessage *)
(* (src/serialize.cc), and the reader Message (access.h).                  *)
(*                                                                         *)
(* The head word holds the widths of the first fields and the number of    *)
(* sections; each section (two words) holds the widths of the next fields  *)
(* and how many body words come before them.  A field wider than three     *)
(* words is an offset to an object behind the body.                        *)
(*                                                                         *)
(* Places count from the end of the buffer, as in Container: place p-1 is  *)
(* the word after place p.  A word is a record with its kind, its two      *)
(* lowest bits and what it holds.                                          *)
(***************************************************************************)
EXTENDS Integers, FiniteSets, FiniteSetsExt

CONSTANTS
  First,       \* 12: fields in the head word; a section holds 2*First + 1
  MaxSection,  \* 255: sections that fit in the head word
  CntLimit,    \* 1<<14: body words a section can have before it
  SizeLimit,   \* 1<<30: words of a message
  MaxFields,   \* bound on the field numbers of the message
  MaxLen,      \* bound on the words of one object
  Before       \* words the buffer holds before the message

ASSUME ScaleAssumption ==
  /\ First \in Nat \ {0} /\ MaxSection \in Nat /\ CntLimit \in Nat
  /\ SizeLimit \in Nat /\ MaxFields \in Nat \ {0} /\ Before \in Nat
  /\ MaxLen \in Nat /\ MaxLen >= 4

Sect == 2 * First + 1

VARIABLES
  n,     \* fields.size(): the greatest field number
  last,  \* buf.Size() before the first field
  mem,   \* the words of the buffer, by place
  size,  \* buf.Size()
  value, \* what each field holds (specification only): whether it is read as
         \* an object, and its words
  parts, \* the Unit of each field
  k,     \* field to serialize next, counting down; then to mark, counting up
  cnt,   \* body words so far
  pos,   \* place of the next body word
  phase

vars == <<n, last, mem, size, value, parts, k, cnt, pos, phase>>

-----------------------------------------------------------------------------
Fields == 0 .. n-1

\* The sum of w[f] over the f in S, counted one by one.
SumOver(w, S) == Cardinality(UNION {{f} \X (1 .. w[f]) : f \in S})

Word(what, low, v) == [what |-> what, low |-> low, v |-> v]
Blank == Word("blank", 0, 0)
Data(f, l, low) == [w \in 1 .. l |->
                      Word("data", IF w = 1 THEN low ELSE 0, <<f, w, l>>)]
Offset(delta) == Word("offset", 3, delta)

Value(object, words) == [object |-> object, words |-> words]
Nothing == Value(FALSE, <<>>)

NoUnit == [data |-> <<>>, pos |-> 0, slen |-> 0]

\* Unit::len and Unit::size().
Len3(u) == Cardinality(DOMAIN u.data)
UnitSize(u) == IF Len3(u) # 0 THEN Len3(u) ELSE u.slen

\* Length and lowest bits of the objects a field can hold: a string, message,
\* array or map whose header ends in 11 (array of three-word cells, message
\* with three sections, map of three pairs) has more than three words.
ObjectShapes == {<<l, IF l > 3 THEN 3 ELSE 0>> : l \in 2 .. MaxLen}

\* Scalars take one or two words, with any bits.
ScalarShapes == {<<1, 3>>, <<2, 3>>}

\* Words the buffer ever needs: the objects, three body words a field, head
\* and sections.
Room == Before + MaxFields * (MaxLen + 5) + 1

Init ==
  /\ n \in 1 .. MaxFields
  /\ last = Before
  /\ mem = [p \in 1 .. Room |-> Blank]
  /\ size = last
  /\ value = [f \in Fields |-> Nothing]
  /\ parts = [f \in Fields |-> NoUnit]
  /\ k = n - 1
  /\ cnt = 0 /\ pos = 0
  /\ phase = "fields"

\* A field that is not in the schema, deprecated, not set, or an empty
\* repeated field: its Unit stays empty.
FieldMissing ==
  /\ phase = "fields" /\ k >= 0
  /\ k' = k - 1
  /\ UNCHANGED <<n, last, mem, size, value, parts, cnt, pos, phase>>

\* Field k becomes the words d of the Unit.
PutInline(object, d) ==
  /\ parts' = [parts EXCEPT ![k].data = d]
  /\ value' = [value EXCEPT ![k] = Value(object, d)]

\* A scalar, or a string of one word: inside the Unit.
FieldInline ==
  /\ phase = "fields" /\ k >= 0
  /\ \E s \in ScalarShapes : PutInline(FALSE, Data(k, s[1], s[2]))
  /\ k' = k - 1
  /\ UNCHANGED <<n, last, mem, size, cnt, pos, phase>>

\* FoldField moves a segment of at most three words from the buffer to the
\* Unit.
Folds(l) == l < 4

\* buf.Head(): the l words at the front of a buffer m of top words.
FrontWords(m, top, l) == [w \in 1 .. l |-> m[top - w + 1]]

\* Field k is the object d, written at the front of the buffer.  FoldField then
\* takes what lies there, whatever it is, and the buffer shrinks again.
PutObject(d) ==
  LET l == Cardinality(DOMAIN d)
  IN  /\ mem' = [p \in DOMAIN mem |->
                   IF p \in size + 1 .. size + l THEN d[size + l - p + 1]
                   ELSE mem[p]]
      /\ value' = [value EXCEPT ![k] = Value(TRUE, d)]
      /\ IF Folds(l)
           THEN /\ parts' = [parts EXCEPT ![k].data = FrontWords(mem', size + l, l)]
                /\ size' = size
           ELSE /\ parts' = [parts EXCEPT ![k].pos = size + l, ![k].slen = l]
                /\ size' = size + l

\* An object, folded if it is small.
FieldObject ==
  /\ phase = "fields" /\ k >= 0
  /\ \E s \in ObjectShapes : PutObject(Data(k, s[1], s[2]))
  /\ k' = k - 1
  /\ UNCHANGED <<n, last, cnt, pos, phase>>

\* A message without content is the single word 0; as a field it is dropped.
FieldEmptyMessage ==
  /\ phase = "fields" /\ k >= 0
  /\ mem' = [mem EXCEPT ![size + 1] = Word("head", 0, 0)]
  /\ k' = k - 1
  /\ UNCHANGED <<n, last, size, value, parts, cnt, pos, phase>>

\* SerializeMessage drops the empty fields at the end.
Kept == {f \in Fields : \E g \in Fields : g >= f /\ UnitSize(parts[g]) # 0}

\* Width in the body, as marked in head and sections.
Width(u) == IF Len3(u) # 0 THEN Len3(u) ELSE IF u.slen # 0 THEN 1 ELSE 0

\* Mutant: an empty field takes a word of the body.
BodySizeLoose(S) ==
  SumOver([f \in Fields |-> IF Len3(parts[f]) # 0 THEN Len3(parts[f]) ELSE 1], S)

\* size and body_size of SerializeMessage.
MessageSize == SumOver([f \in Fields |-> UnitSize(parts[f])], Fields)
BodySize(S) == SumOver([f \in Fields |-> Width(parts[f])], S)

\* (fields.size() + 12) / 25
Sections(m) == (m + First) \div Sect

\* Nothing to write: the message is the word 0.
WriteEmpty ==
  /\ phase = "fields" /\ k < 0
  /\ Kept = {}
  /\ mem' = [mem EXCEPT ![size + 1] = Word("head", 0, [section |-> 0, mark |-> <<>>])]
  /\ size' = size + 1
  /\ phase' = "done"
  /\ UNCHANGED <<n, last, value, parts, k, cnt, pos>>

\* Mutant: the size of the message is not limited.
StartMessageUnlimited ==
  /\ phase = "fields" /\ k < 0
  /\ Kept # {}
  /\ LET section == Sections(Cardinality(Kept))
         head_size == 1 + 2 * section
     IN  IF section > MaxSection
           THEN phase' = "failed" /\ UNCHANGED <<mem, size, k, pos>>
           ELSE /\ size' = size + head_size + BodySize(Kept)
                /\ pos' = size' - head_size
                /\ mem' = [mem EXCEPT ![size'] =
                      Word("head", section % 4, [section |-> section, mark |-> <<>>])]
                /\ k' = 0
                /\ phase' = "mark"
  /\ UNCHANGED <<n, last, value, parts, cnt>>

\* The limits are checked and head and body allocated.
StartMessage ==
  /\ phase = "fields" /\ k < 0
  /\ Kept # {}
  /\ LET section == Sections(Cardinality(Kept))
         head_size == 1 + 2 * section
     IN  IF MessageSize >= SizeLimit \/ section > MaxSection
           THEN phase' = "failed" /\ UNCHANGED <<mem, size, k, pos>>
           ELSE /\ size' = size + head_size + BodySize(Kept)
                /\ pos' = size' - head_size
                /\ mem' = [mem EXCEPT ![size'] =
                      Word("head", section % 4, [section |-> section, mark |-> <<>>])]
                /\ k' = 0
                /\ phase' = "mark"
  /\ UNCHANGED <<n, last, value, parts, cnt>>

\* The fields of the head word (a = 0) and of section a.
GroupStart(a) == IF a = 0 THEN 0 ELSE First + Sect * (a - 1)
Group(a) == {f \in Kept : GroupStart(a) <= f /\ f < GroupStart(a + 1)}

\* Place of the mark of group a: the head word, or the first of two words.
MarkPlace(a) == IF a = 0 THEN size ELSE size - 1 - 2 * (a - 1)

\* Mutant: the count of words before a section is taken after its fields.
CountBeforeLate(c, S) == (c + BodySize(S)) % CntLimit

\* "cnt << 50" in 64 bits: what is kept of the words before a section.
CountBefore(c, S) == c % CntLimit

\* "if (cnt >= (1U<<14U))", before each section.
CountTooBig(a) == a > 0 /\ cnt >= CntLimit

\* (pos--) - field.seg.pos
OffsetDelta(at, u) == at - u.pos

\* Head word or section k: marks and body words of its fields.
MarkGroup ==
  /\ phase = "mark" /\ k <= mem[size].v.section
  /\ LET S == Group(k)
         place == [f \in S |-> pos - BodySize({g \in S : g < f})]
         word(f, w) == IF Len3(parts[f]) # 0 THEN parts[f].data[w]
                       ELSE Offset(OffsetDelta(place[f], parts[f]))
         marks == [f \in {f \in S : Width(parts[f]) # 0} |-> Width(parts[f])]
         owner(p) == {f \in DOMAIN marks : p \in place[f] - marks[f] + 1 .. place[f]}
     IN  IF CountTooBig(k)
           THEN phase' = "failed" /\ UNCHANGED <<mem, k, cnt, pos>>
           ELSE /\ mem' = [p \in DOMAIN mem |->
                     IF p = MarkPlace(k)
                       THEN IF k = 0 THEN [mem[p] EXCEPT !.v.mark = marks]
                            ELSE Word("section", 0, [before |-> CountBefore(cnt, S),
                                                     mark |-> marks])
                     ELSE IF owner(p) # {}
                       THEN LET f == CHOOSE f \in owner(p) : TRUE
                            IN  word(f, place[f] - p + 1)
                     ELSE mem[p]]
                /\ cnt' = cnt + BodySize(S)
                /\ pos' = pos - BodySize(S)
                /\ k' = k + 1
                /\ phase' = phase
  /\ UNCHANGED <<n, last, size, value, parts>>

\* unit = Segment(last, buf.Size())
FinishMessage ==
  /\ phase = "mark" /\ k > mem[size].v.section
  /\ phase' = "done"
  /\ UNCHANGED <<n, last, mem, size, value, parts, k, cnt, pos>>

Finished == phase \in {"done", "failed"} /\ UNCHANGED vars

Next ==
  \/ FieldMissing \/ FieldInline \/ FieldObject \/ FieldEmptyMessage
  \/ WriteEmpty \/ StartMessage \/ MarkGroup \/ FinishMessage \/ Finished

Spec == Init /\ [][Next]_vars

-----------------------------------------------------------------------------
(* The reader, over a finished message with its head at place size.        *)

SectionCount == mem[size].v.section
Body == size - 1 - 2 * SectionCount

\* The widths marked at place p: Count32 and Count64 add them up.
MarkOf(p, id) == IF id \in DOMAIN mem[p].v.mark THEN mem[p].v.mark[id] ELSE 0
CountUpTo(p, id) == SumOver(mem[p].v.mark, {f \in DOMAIN mem[p].v.mark : f < id})

\* Message::GetField: place and width of the field, width 0 if it is absent.
GetField(id) ==
  LET a == (id - First) \div Sect
      p == IF id < First THEN size ELSE size - 1 - 2 * a
      before == IF id < First THEN 0 ELSE mem[p].v.before
  IN  IF id >= First /\ a >= SectionCount
        THEN [place |-> 0, width |-> 0]
        ELSE [place |-> Body - before - CountUpTo(p, id), width |-> MarkOf(p, id)]

\* Message::HasField.
HasField(id) == GetField(id).width # 0

\* What a reader finds at a place, also outside of the buffer.
WordAt(p) == IF p \in DOMAIN mem THEN mem[p] ELSE Blank

\* A place holds the word w; what a word holds depends on its kind.
Holds(p, w) == WordAt(p).what = w.what /\ WordAt(p) = w

\* Field::GetObject.  A word of an object taken for an offset leads anywhere:
\* to place 0, outside of the buffer.
GetObject(place) ==
  LET w == WordAt(place) IN
  IF w.low # 3 THEN place ELSE IF w.what = "offset" THEN place - w.v ELSE 0

\* Message::Detect: the end of the body, from the last section.
DetectEnd ==
  LET p == IF SectionCount = 0 THEN size ELSE size - 1 - 2 * (SectionCount - 1)
      before == IF SectionCount = 0 THEN 0 ELSE mem[p].v.before
  IN  Body - before - CountUpTo(p, n + Sect)

-----------------------------------------------------------------------------
(* Properties.                                                             *)

\* Every field that was set reads back word for word, whether it lies in the
\* Unit, was folded or is reached through an offset; every other field is
\* absent, also the numbers behind the last one, which a newer reader may ask
\* for.
ReadBack ==
  phase = "done" =>
    \A id \in 0 .. n + Sect :
      IF id \in Fields /\ value[id] # Nothing
        THEN LET g == GetField(id)
                 at == IF value[id].object THEN GetObject(g.place) ELSE g.place
             IN  /\ HasField(id)
                 /\ \A w \in DOMAIN value[id].words :
                        Holds(at - w + 1, value[id].words[w])
        ELSE ~HasField(id)

\* Detect, which adds up the counts of the last section only, finds the end
\* of the body: the objects of the message start there.
DetectEndsBody ==
  phase = "done" =>
    DetectEnd = last + SumOver([f \in Fields |-> parts[f].slen], Fields)

\* The size that is checked against 1<<30 leaves out head, sections and
\* offsets; still every offset fits in 30 bits.
OffsetsFit ==
  phase = "done" =>
    \A p \in last + 1 .. size :
      mem[p].what = "offset" => mem[p].v \in 1 .. SizeLimit - 1
=============================================================================
