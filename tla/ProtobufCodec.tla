--------------------------- MODULE ProtobufCodec ---------------------------
(***************************************************************************)
(* Protobuf messages to data and back (src/extension/serialize.cc and      *)
(* src/extension/deserialize.cc).                                          *)
(*                                                                         *)
(* An array or map type that is not the type of a repeated field is an     *)
(* alias: a message with the single repeated field "_".  Fields that are   *)
(* deprecated are not among the fields of a type.  Units are those of      *)
(* serialize.cc, see ArenaNodes.                                           *)
(***************************************************************************)
EXTENDS ArenaNodes

R == INSTANCE WordReader

-----------------------------------------------------------------------------
(* serialize.cc.  Every step yields a unit and whether the assertions of   *)
(* the code held on the way; without them the program goes on.             *)

Step(unit, asserted) == [unit |-> unit, asserted |-> asserted]
Units(steps) == [i \in DOMAIN steps |-> steps[i].unit]
Asserted(steps) == \A i \in DOMAIN steps : steps[i].asserted

\* A Protobuf message holds numbers of their type and well-formed strings.
Holds(kind, v) ==
  IF kind = "string" THEN ~Contains(v, 3) ELSE IsScalar(kind) => v[1] \in RangeOf(kind)

RECURSIVE SerializeAny(_, _, _)

\* SerializeSimpleField
SerializeSimpleField(kind, child, v, turned) ==
  IF IsComplex(kind) THEN SerializeAny(Types[child], v, turned)
  ELSE Step(IF ~Holds(kind, v) THEN BadUnit
            ELSE IF IsScalar(kind) THEN Inline(ScalarWords(kind, v[1]))
            ELSE SerializeBytes(IF kind = "string" THEN Utf8(v) ELSE v), TRUE)

\* SerializeArray of numbers, of one element at least.
SerializeNumbers(kind, units) ==
  Segment(<<4 * Len(units) + WidthWords(kind)>>
          \o FlattenSeq([i \in DOMAIN units |-> units[i].data]))

\* The elements of an array, as they were serialized.
CloseArray(kind, v, steps) ==
  LET units == Units(steps)
  IN  Step(IF ~AllGood(units) THEN BadUnit
           ELSE IF kind = "bool" THEN SerializeBytes([i \in DOMAIN v |-> v[i][1]])
           ELSE IF IsScalar(kind) THEN SerializeNumbers(kind, units)
           ELSE SerializeArray(units), Asserted(steps))

SerializeArrayField(t, v, turned) ==
  CloseArray(t.value, v,
    [i \in DOMAIN v |-> SerializeSimpleField(t.value, t.child, v[i], turned)])

\* book of SerializeMapFieldByKey: the keys by the slots of the perfect hash.
Book(v, turned) ==
  IF turned THEN Reverse(SetToSeq(DOMAIN v)) ELSE SetToSeq(DOMAIN v)

CloseMap(keys, values) == Step(MapUnit(Units(keys), Units(values)), Asserted(values))

SerializeMapField(t, v, turned) ==
  LET slots == Book(v, turned)
  IN  CloseMap([i \in DOMAIN slots |-> SerializeSimpleField(t.key, 0, slots[i], turned)],
               [i \in DOMAIN slots |->
                  SerializeSimpleField(t.value, t.child, v[slots[i]], turned)])

\* SerializeField of a repeated field.
SerializeRepeated(t, v, turned) ==
  IF DOMAIN v = {} THEN Step(Inline(<<>>), TRUE)
  ELSE IF t.kind = "map" THEN SerializeMapField(t, v, turned)
  ELSE SerializeArrayField(t, v, turned)

\* Serialize of an alias: an assertion that the unit is a segment, then the
\* header of an empty array or map unless it is one.
CloseAlias(t, step) ==
  Step(IF ~step.unit.ok \/ step.unit.seg # <<>> THEN step.unit
       ELSE Inline(IF t.kind = "map" THEN <<64 + 16>> ELSE <<1>>),
       step.asserted /\ step.unit.data = <<>>)

\* "part.size() == 1": a message of one word is empty and left out.
WithoutEmpty(f, step) ==
  IF IsComplex(f.kind) /\ Size(step.unit) = 1 THEN Step(Inline(<<>>), step.asserted)
  ELSE step

\* SerializeField of the others.
SerializeSingle(f, v, turned) ==
  IF \/ IsScalar(f.kind) /\ v \in {<<>>, <<0>>}
     \/ (~IsComplex(f.kind) \/ f.kind = "message") /\ v = <<>>
    THEN Step(Inline(<<>>), TRUE)
  ELSE WithoutEmpty(f, SerializeSimpleField(f.kind, f.child, v, turned))

SerializeField(f, v, turned) ==
  IF f.repeated THEN SerializeRepeated(Types[f.child], v, turned)
                ELSE SerializeSingle(f, v, turned)

\* Serialize refuses too high and too sparse field numbers; the last field is
\* written first, so that segments lie in the order of the numbers.
Numbered(t) ==
  LET n == Len(t.fields)
  IN  /\ n > 0
      /\ Capacity(t) <= First + Sect * MaxSections
      /\ Capacity(t) - n <= 6 \/ Capacity(t) <= 2 * n

CloseMessage(t, steps) ==
  LET field(id) == {i \in DOMAIN t.fields : t.fields[i].id = id}
      part(id) == IF field(id) = {} THEN Inline(<<>>)
                  ELSE FoldField(steps[CHOOSE i \in field(id) : TRUE].unit)
  IN  Step(IF Numbered(t) /\ AllGood(Units(steps))
             THEN SerializeMessage([id \in 0 .. Capacity(t) - 1 |-> part(id)],
                                   [i \in 1 .. Capacity(t) |-> i - 1])
             ELSE BadUnit, Asserted(steps))

SerializeAny(t, v, turned) ==
  IF t.kind # "message" THEN CloseAlias(t, SerializeRepeated(t, v, turned))
  ELSE CloseMessage(t, [i \in DOMAIN t.fields |->
                          SerializeField(t.fields[i], v[i], turned)])

\* Serialize(message, buf): the unit is ignored, so data inside it is lost.
Saved(step) == [ok |-> step.unit.ok, v |-> step.unit.seg, asserted |-> step.asserted]
Serialize(handle, v, turned) == Saved(SerializeAny(Types[handle], v, turned))

-----------------------------------------------------------------------------
(* deserialize.cc.  A message that was read is its fields and the set of   *)
(* those a setter was called for.                                          *)

\* FieldT<Slice<char>>::Get and SetString; the string is not checked.
ReadString(kind, bytes) == IF kind = "string" THEN Characters(bytes) ELSE bytes

\* The values of results, which fail if one of them does.
AllOf(results) ==
  IF AllGood(results) THEN Good([i \in DOMAIN results |-> results[i].v]) ELSE Bad

RECURSIVE DeserializeAny(_, _, _)

DeserializeSingle(data, kind, child, cell) ==
  IF IsComplex(kind) THEN DeserializeAny(data, Types[child], R!GetObject(data, cell))
  ELSE IF IsBlob(kind) THEN Good(ReadString(kind, R!StringAt(data, cell)))
  ELSE Good(<<R!ScalarAt(data, kind, cell)>>)

DeserializeArray(data, t, at) ==
  LET cells == R!ArrayCells(data, at)
  IN  IF IsScalar(t.value) THEN Good(R!ScalarArray(data, t.value, at))
      ELSE AllOf([i \in DOMAIN cells |->
                    DeserializeSingle(data, t.value, t.child, cells[i])])

\* AddMessage for every pair: Protobuf keeps the last one of a key.
DeserializeMap(data, t, at) ==
  LET pairs == R!Pairs(data, at)
      keys == AllOf([i \in DOMAIN pairs |-> DeserializeSingle(data, t.key, 0, pairs[i].key)])
      values == AllOf([i \in DOMAIN pairs |->
                         DeserializeSingle(data, t.value, t.child, pairs[i].value)])
  IN  IF R!IsMap(data, at) /\ keys.ok /\ values.ok
        THEN Good([k \in ToSet(keys.v) |->
                     values.v[Max({i \in DOMAIN keys.v : keys.v[i] = k})]])
        ELSE Bad

DeserializeField(data, f, cell) ==
  IF cell = R!NoCell THEN Good(IF IsScalar(f.kind) THEN <<0>> ELSE <<>>)
  ELSE IF f.repeated THEN DeserializeAny(data, Types[f.child], R!GetObject(data, cell))
  ELSE DeserializeSingle(data, f.kind, f.child, cell)

DeserializeAny(data, t, at) ==
  CASE t.kind = "array" -> DeserializeArray(data, t, at)
    [] t.kind = "map" -> DeserializeMap(data, t, at)
    [] t.kind = "message" ->
         LET cell == [i \in DOMAIN t.fields |-> R!GetField(data, at, t.fields[i].id)]
             values == AllOf([i \in DOMAIN t.fields |->
                                DeserializeField(data, t.fields[i], cell[i])])
         IN  IF R!IsMessage(data, at) /\ values.ok
               THEN Good(<<values.v, {i \in DOMAIN t.fields : cell[i] # R!NoCell}>>)
               ELSE Bad

\* Deserialize
Deserialize(handle, data) == DeserializeAny(data, Types[handle], 0)
=============================================================================
