------------------------------ MODULE PyCodec ------------------------------
(***************************************************************************)
(* The Python binding (python/protocache/_protocache.cc): messages, lists  *)
(* and dicts serialized by the schema of their class, materialized from    *)
(* data, or read in place through views.                                   *)
(*                                                                         *)
(* A Unit and what SerializeBytes, SerializeArray, SerializeMap and        *)
(* SerializeMessage do with it are those of serialize.cc, see ArenaNodes.  *)
(* A list is a sequence, a dict a function, None is <<>>; a message that   *)
(* was read is its fields and the set _present.                            *)
(***************************************************************************)
EXTENDS ArenaNodes

R == INSTANCE WordReader

\* CompileSchemaObject: "max_id > 12 + 25 * 255" is refused.
Compiles(t) ==
  t.kind = "message" =>
    \A i \in DOMAIN t.fields : t.fields[i].id <= First + Sect * MaxSections

-----------------------------------------------------------------------------
(* Serialization.                                                          *)

\* IsDefaultField: None, zero, False, and an empty string, list or dict.
IsDefaultField(f, v) ==
  IF IsScalar(f.kind) THEN v \in {<<>>, <<0>>}
  ELSE IF IsBlob(f.kind) THEN v = <<>>
  ELSE IF f.kind = "message" THEN v = <<>>
  ELSE DOMAIN v = {}

\* ReadNumber and SerializeNumber; a bool is checked to be one.
SerializeNumber(kind, v) ==
  IF v[1] \in RangeOf(kind) THEN Inline(ScalarWords(kind, v[1])) ELSE BadUnit

\* SerializeStringLike: PyUnicode_AsUTF8AndSize refuses half of a surrogate
\* pair.
SerializeStringLike(kind, v) ==
  IF kind = "string" /\ Contains(v, 3) THEN BadUnit
  ELSE SerializeBytes(IF kind = "string" THEN Utf8(v) ELSE v)

\* SerializeBoolArrayObject, SerializeScalarArrayObject.
SerializeScalarArrayObject(kind, v) ==
  LET items == [i \in DOMAIN v |-> v[i][1]]
      words == FlattenSeq([i \in DOMAIN v |-> ScalarWords(kind, items[i])])
  IN  IF \E i \in DOMAIN v : items[i] \notin RangeOf(kind) THEN BadUnit
      ELSE IF kind = "bool" THEN SerializeBytes(items)
      ELSE IF v = <<>> THEN Inline(<<WidthWords(kind)>>)
      ELSE Segment(<<4 * Len(v) + WidthWords(kind)>> \o words)

\* KeyBytes: what is hashed and kept of a key.
KeyBytes(kind, key) ==
  IF kind = "string"
    THEN IF Contains(key, 3) THEN Bad ELSE Good(Utf8(key))
    ELSE IF key[1] \in RangeOf(kind) THEN Good(ScalarWords(kind, key[1])) ELSE Bad

\* SerializeCachedMapKey
SerializeCachedMapKey(kind, bytes) ==
  IF kind = "string" THEN SerializeBytes(bytes) ELSE Inline(bytes)

RECURSIVE SerializeContainerObject(_, _, _), SerializeMessageObject(_, _, _)

\* SerializeValue; NestedContainerType is the type of the class.
SerializeValue(kind, child, v, turned) ==
  CASE IsScalar(kind) -> SerializeNumber(kind, v)
    [] IsBlob(kind) -> SerializeStringLike(kind, v)
    [] kind = "message" -> SerializeMessageObject(Types[child], v, turned)
    [] OTHER -> SerializeContainerObject(Types[child], v, turned)

SerializeArrayObject(t, v, turned) ==
  IF IsScalar(t.value) THEN SerializeScalarArrayObject(t.value, v)
  ELSE ArrayUnit([i \in DOMAIN v |-> SerializeValue(t.value, t.child, v[i], turned)])

\* The book of slots turns the pairs of the dict, or not.
SerializeMapObject(t, v, turned) ==
  LET dict == SetToSeq(DOMAIN v)
      slots == IF turned THEN Reverse(dict) ELSE dict
      entries == [i \in DOMAIN slots |-> KeyBytes(t.key, slots[i])]
  IN  IF ~AllGood(entries) THEN BadUnit
      ELSE MapUnit([i \in DOMAIN slots |-> SerializeCachedMapKey(t.key, entries[i].v)],
                   [i \in DOMAIN slots |->
                      SerializeValue(t.value, t.child, v[slots[i]], turned)])

SerializeContainerObject(t, v, turned) ==
  IF t.kind = "array" THEN SerializeArrayObject(t, v, turned)
                      ELSE SerializeMapObject(t, v, turned)

\* "part.size() == 1": an empty message is left out.
Drops(f, part) == f.kind = "message" /\ Size(part) = 1

\* The parts of the fields written, without the empty messages.
SerializeParts(fields, written, parts) ==
  LET kept == SelectSeq([j \in DOMAIN written |-> j],
                        LAMBDA j : ~Drops(fields[written[j]], parts[j]))
      max_id == Max({0} \union {fields[i].id : i \in DOMAIN fields})
  IN  IF AllGood(parts)
        THEN MessageUnit([j \in DOMAIN kept |-> parts[kept[j]]],
                         [j \in DOMAIN kept |-> fields[written[kept[j]]].id], max_id + 1)
        ELSE BadUnit

\* Fields from the last to the first, so that their segments lie in the order
\* of the schema; None and fields the instance does not have are left out.
SerializeMessageObject(t, v, turned) ==
  LET fields == t.fields
      part(i) == IF fields[i].repeated
                   THEN SerializeContainerObject(Types[fields[i].child], v[i], turned)
                   ELSE SerializeValue(fields[i].kind, fields[i].child, v[i], turned)
      written == SelectSeq([i \in DOMAIN fields |-> i],
                           LAMBDA i : ~IsDefaultField(fields[i], v[i]))
  IN  IF Compiles(t)
        THEN SerializeParts(fields, written, [j \in DOMAIN written |-> part(written[j])])
        ELSE BadUnit

\* UnitToBytes: the data inside the unit, or the buffer.
UnitToBytes(unit) ==
  IF ~unit.ok THEN Bad ELSE Good(IF unit.data # <<>> THEN unit.data ELSE unit.seg)

\* serialize_model, serialize_container
Serialize(handle, v, turned) ==
  LET t == Types[handle]
  IN  UnitToBytes(IF t.kind = "message" THEN SerializeMessageObject(t, v, turned)
                  ELSE SerializeContainerObject(t, v, turned))

-----------------------------------------------------------------------------
(* Materialization.                                                        *)

\* FieldToPy of a number, a string or bytes; strings are decoded strictly.
FieldToPy(data, kind, cell) ==
  LET bytes == R!StringAt(data, cell)
  IN  IF IsScalar(kind) THEN Good(<<R!ScalarAt(data, kind, cell)>>)
      ELSE IF kind = "bytes" THEN Good(bytes)
      ELSE IF WellFormed(bytes) THEN Good(Characters(bytes)) ELSE Bad

\* DefaultValue
DefaultValue(f) == IF IsScalar(f.kind) THEN <<0>> ELSE <<>>

\* The values of results, which are an error if one of them is.
AllOf(results) ==
  IF AllGood(results) THEN Good([i \in DOMAIN results |-> results[i].v]) ELSE Bad

\* A message of the given fields, if all of them could be read.
MessageOf(values, present) == IF values.ok THEN Good(<<values.v, present>>) ELSE Bad

\* PyObject_SetItem for one pair after the other.
DictOf(keys, values) ==
  IF ~keys.ok \/ ~values.ok THEN Bad
  ELSE Good([k \in ToSet(keys.v) |->
               values.v[Max({i \in DOMAIN keys.v : keys.v[i] = k})]])

ArrayScalarToList(data, kind, at) == Good(R!ScalarArray(data, kind, at))

ArrayFieldToList(data, kind, at) ==
  LET cells == R!ArrayCells(data, at)
  IN  AllOf([i \in DOMAIN cells |-> FieldToPy(data, kind, cells[i])])

RECURSIVE MaterializeContainer(_, _, _), MaterializeMessage(_, _, _)

MaterializeValue(data, kind, child, cell) ==
  LET at == R!GetObject(data, cell)
  IN  CASE ~IsComplex(kind) -> FieldToPy(data, kind, cell)
        [] kind = "message" -> IF at = R!Null THEN Good(<<>>)
                               ELSE MaterializeMessage(data, Types[child], at)
        [] OTHER -> MaterializeContainer(data, Types[child], at)

MaterializeArray(data, t, at) ==
  LET cells == R!ArrayCells(data, at)
  IN  IF IsScalar(t.value) THEN ArrayScalarToList(data, t.value, at)
      ELSE IF IsBlob(t.value) THEN ArrayFieldToList(data, t.value, at)
      ELSE AllOf([i \in DOMAIN cells |-> MaterializeValue(data, t.value, t.child, cells[i])])

MaterializeMap(data, t, at) ==
  LET pairs == R!Pairs(data, at)
  IN  DictOf(AllOf([i \in DOMAIN pairs |-> FieldToPy(data, t.key, pairs[i].key)]),
             AllOf([i \in DOMAIN pairs |->
                      MaterializeValue(data, t.value, t.child, pairs[i].value)]))

MaterializeContainer(data, t, at) ==
  IF t.kind = "array" THEN MaterializeArray(data, t, at) ELSE MaterializeMap(data, t, at)

MaterializeMessage(data, t, at) ==
  LET fields == t.fields
      present == {i \in DOMAIN fields : R!HasField(data, at, fields[i].id)}
      cell(i) == R!GetField(data, at, fields[i].id)
      value(i) ==
        IF i \notin present THEN Good(DefaultValue(fields[i]))
        ELSE IF fields[i].repeated
          THEN MaterializeContainer(data, Types[fields[i].child], R!GetObject(data, cell(i)))
        ELSE MaterializeValue(data, fields[i].kind, fields[i].child, cell(i))
  IN  IF Compiles(t) /\ R!IsMessage(data, at)
        THEN MessageOf(AllOf([i \in DOMAIN fields |-> value(i)]), present) ELSE Bad

\* ReadBufferWords refuses an empty buffer.
ReadBufferWords(data) == data # <<>>

\* deserialize_model, deserialize_container
Deserialize(handle, data) ==
  LET t == Types[handle]
  IN  IF ~ReadBufferWords(data) THEN Bad
      ELSE IF t.kind = "message" THEN MaterializeMessage(data, t, 0)
      ELSE MaterializeContainer(data, t, 0)

-----------------------------------------------------------------------------
(* Views: a place in the data.  The value behind a view is what a caller   *)
(* finds who asks for every field, element and key by its kind: one after  *)
(* the other or, where the class has a method for it, the whole container. *)

RECURSIVE View(_, _, _, _)

\* What FieldToPy returns of a nested object: a view, or None.
ViewValue(data, kind, child, cell, whole) ==
  LET at == R!GetObject(data, cell)
  IN  IF ~IsComplex(kind) THEN FieldToPy(data, kind, cell)
      ELSE IF kind = "message" /\ at = R!Null THEN Good(<<>>)
      ELSE View(data, Types[child], at, whole)

\* A view of what is no array has no elements.
ArrayView_size(data, t, at) ==
  IF IsScalar(t.value) THEN Len(R!ScalarArray(data, t.value, at))
                       ELSE Len(R!ArrayCells(data, at))

ArrayView_get(data, t, at, i, whole) ==
  IF IsScalar(t.value) THEN Good(R!ScalarArray(data, t.value, at)[i])
  ELSE ViewValue(data, t.value, t.child, R!ArrayCells(data, at)[i], whole)

\* Of numbers, strings and bytes only.
ArrayView_to_list(data, t, at) ==
  IF IsScalar(t.value) THEN ArrayScalarToList(data, t.value, at)
                       ELSE ArrayFieldToList(data, t.value, at)

ViewArray(data, t, at, whole) ==
  IF whole /\ ~IsComplex(t.value) THEN ArrayView_to_list(data, t, at)
  ELSE AllOf([i \in 1 .. ArrayView_size(data, t, at) |->
                ArrayView_get(data, t, at, i, whole)])

\* The keys of MapView_items.
MapView_items(data, t, at) ==
  LET pairs == R!Pairs(data, at)
  IN  AllOf([i \in DOMAIN pairs |-> FieldToPy(data, t.key, pairs[i].key)])

MapView_to_dict(data, t, at, whole) ==
  LET pairs == R!Pairs(data, at)
  IN  DictOf(MapView_items(data, t, at),
             AllOf([i \in DOMAIN pairs |->
                      ViewValue(data, t.value, t.child, pairs[i].value, whole)]))

\* StringKey, NumberKey and Find; a key that is not found has no value.
MapView_get(data, t, at, key, whole) ==
  LET cell == R!Find(data, at, t.key, KeyBytes(t.key, key).v)
  IN  IF cell = R!NoCell THEN Bad ELSE ViewValue(data, t.value, t.child, cell, whole)

ViewMap(data, t, at, whole) ==
  LET keys == MapView_items(data, t, at)
  IN  IF whole \/ ~keys.ok THEN MapView_to_dict(data, t, at, whole)
      ELSE DictOf(keys, AllOf([i \in DOMAIN keys.v |->
                                 MapView_get(data, t, at, keys.v[i], whole)]))

\* MessageView_get, MessageView_get_array and MessageView_get_map.
MessageView_get(data, f, at, whole) ==
  ViewValue(data, f.kind, f.child, R!GetField(data, at, f.id), whole)

MessageView_has_field(data, at, id) == R!IsMessage(data, at) /\ R!HasField(data, at, id)

ViewMessage(data, t, at, whole) ==
  IF ~R!IsMessage(data, at) THEN Bad
  ELSE MessageOf(AllOf([i \in DOMAIN t.fields |->
                          MessageView_get(data, t.fields[i], at, whole)]),
                 {i \in DOMAIN t.fields : MessageView_has_field(data, at, t.fields[i].id)})

View(data, t, at, whole) ==
  CASE t.kind = "array" -> ViewArray(data, t, at, whole)
    [] t.kind = "map" -> ViewMap(data, t, at, whole)
    [] t.kind = "message" -> ViewMessage(data, t, at, whole)

\* from_bytes
FromBytes(handle, data, whole) ==
  IF ReadBufferWords(data) THEN View(data, Types[handle], 0, whole) ELSE Bad
=============================================================================
