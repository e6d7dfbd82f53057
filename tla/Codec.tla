------------------------------- MODULE Codec -------------------------------
(***************************************************************************)
(* serialize and deserialize across the bindings: a value is written by    *)
(* the TypeScript runtime (packed into the arena, then serialized), by the *)
(* Python binding or from a Protobuf message; the data is possibly         *)
(* shortened or damaged on its way; it is read by the TypeScript runtime   *)
(* (decoded to a tape, then materialized), by the Python binding, through  *)
(* Python's views or into a Protobuf message.                              *)
(***************************************************************************)
EXTENDS ArenaNodes, FiniteSets

D == INSTANCE TapeDecoder
Py == INSTANCE PyCodec
Pb == INSTANCE ProtobufCodec

CONSTANT Inputs   \* the values to serialize: <<handle of the type, value>>

VARIABLES
  handle,    \* the type
  value,     \* what is serialized
  writer,    \* who serializes it
  arena,     \* the nodes
  data,      \* the words
  intact,    \* data is as it was serialized
  asserted,  \* the assertions of serialize.cc held
  tape,
  out,       \* the result of the reader
  reader,    \* who reads
  phase

vars == <<handle, value, writer, arena, data, intact, asserted, tape, out, reader, phase>>
input == <<handle, value>>

Init ==
  /\ \E in \in Inputs : handle = in[1] /\ value = in[2]
  /\ writer = "none"
  /\ arena = <<>> /\ data = <<>> /\ intact = TRUE /\ asserted = TRUE
  /\ tape = <<>> /\ out = D!Result(<<>>, 0, FALSE, TRUE)
  /\ reader = "none" /\ phase = "value"

\* The data of a writer, or its error.
Yields(result, failed) ==
  data' = result.v /\ phase' = IF result.ok THEN "data" ELSE failed

\* serializeWithArena: an error leaves the value unserialized.
Pack ==
  /\ phase = "value"
  /\ LET w == WriteRoot(handle, value)
     IN  arena' = w.v /\ phase' = IF w.ok THEN "arena" ELSE "thrown"
  /\ writer' = "typescript"
  /\ UNCHANGED <<input, data, intact, asserted, tape, out, reader>>

\* pc_arena_serialize
Serialize ==
  /\ phase = "arena"
  /\ \E turned \in BOOLEAN : Yields(ArenaSerialize(handle, arena, turned), "lost")
  /\ arena' = <<>>
  /\ UNCHANGED <<input, writer, intact, asserted, tape, out, reader>>

\* serialize_model, serialize_container
PySerialize ==
  /\ phase = "value"
  /\ \E turned \in BOOLEAN : Yields(Py!Serialize(handle, value, turned), "thrown")
  /\ writer' = "python"
  /\ UNCHANGED <<input, arena, intact, asserted, tape, out, reader>>

\* Serialize(message, buf), in a build without assertions.
PbYields(saved) == Yields(saved, "thrown") /\ asserted' = saved.asserted
PbSerialize ==
  /\ phase = "value"
  /\ \E turned \in BOOLEAN : PbYields(Pb!Serialize(handle, value, turned))
  /\ writer' = "protobuf"
  /\ UNCHANGED <<input, arena, intact, tape, out, reader>>

\* The data loses its end, or one byte changes: who wrote it is forgotten.
Shorten ==
  /\ phase = "data" /\ intact
  /\ \E n \in 0 .. Len(data) - 1 : data' = SubSeq(data, 1, n)
  /\ intact' = FALSE /\ writer' = "none"
  /\ UNCHANGED <<input, arena, asserted, tape, out, reader, phase>>

Damage ==
  /\ phase = "data" /\ intact
  /\ \E w \in DOMAIN data, b \in 0 .. 3, x \in 0 .. ByteSize - 1 :
       LET old == ByteAt(data, 4 * (w - 1) + b)
       IN  /\ x # old
           /\ data' = [data EXCEPT ![w] = @ + (x - old) * ByteSize^b]
  /\ intact' = FALSE /\ writer' = "none"
  /\ UNCHANGED <<input, arena, asserted, tape, out, reader, phase>>

\* buildDecodeTape
TapeOf(result) == tape' = result.v /\ phase' = IF result.ok THEN "tape" ELSE "refused"
Decode ==
  /\ phase = "data"
  /\ TapeOf(D!DecodeTape(handle, data))
  /\ reader' = "typescript"
  /\ UNCHANGED <<input, writer, arena, data, intact, asserted, out>>

\* deserializeWithTape: malformed strings and records that are left over are
\* errors.
Read ==
  /\ phase = "tape"
  /\ out' = D!Materialize(data, tape, handle, 0)
  /\ phase' = IF out'.ok /\ out'.cursor = Len(tape) THEN "done" ELSE "refused"
  /\ UNCHANGED <<input, writer, arena, data, intact, asserted, tape, reader>>

\* The other readers, of data as it was written.
ReadBy(who, result) ==
  /\ phase = "data" /\ intact
  /\ out' = [out EXCEPT !.v = result.v, !.ok = result.ok]
  /\ phase' = IF result.ok THEN "done" ELSE "refused"
  /\ reader' = who
  /\ UNCHANGED <<input, writer, arena, data, intact, asserted, tape>>

\* deserialize_model, deserialize_container
PyDeserialize == ReadBy("python", Py!Deserialize(handle, data))

\* from_bytes and the methods of the views.
PyViews == \E whole \in BOOLEAN : ReadBy("views", Py!FromBytes(handle, data, whole))

\* Deserialize(raw, message); it reads the first word of any data.
PbDeserialize == data # <<>> /\ ReadBy("protobuf", Pb!Deserialize(handle, data))

Finished == phase \in {"done", "thrown", "lost", "refused"} /\ UNCHANGED vars

Next ==
  \/ Pack \/ Serialize \/ PySerialize \/ PbSerialize
  \/ Shorten \/ Damage
  \/ Decode \/ Read \/ PyDeserialize \/ PyViews \/ PbDeserialize
  \/ Finished

Spec == Init /\ [][Next]_vars

-----------------------------------------------------------------------------
(* What serialize and deserialize promise.                                 *)

\* A message field without any field of its own is left out: the TypeScript
\* writer looks at the fields that have a value, the others at what became of
\* them.
RECURSIVE Canonical(_, _)
IsBlank(f, v) ==
  IF writer = "typescript"
    THEN \A i \in DOMAIN v : IsDefault(Types[f.child].fields[i], v[i])
    ELSE Canonical(f.child, v)[2] = {}
CanonicalField(f, v) ==
  CASE IsDefault(f, v) -> D!DefaultOf(f)
    [] ~IsDefault(f, v) /\ IsComplex(f.kind) ->
         IF f.kind = "message" /\ IsBlank(f, v) THEN <<>> ELSE Canonical(f.child, v)
    [] OTHER -> v

\* The value deserialize returns: fields without a value have the default of
\* their kind, and hasField is true of the others only.
Canonical(h, v) ==
  LET t == Types[h]
      item(x) == IF IsComplex(t.value) THEN Canonical(t.child, x) ELSE x
  IN  IF t.kind # "message" THEN [k \in DOMAIN v |-> item(v[k])]
      ELSE LET fields == [i \in DOMAIN v |-> CanonicalField(t.fields[i], v[i])]
               set == {i \in DOMAIN v : fields[i] # D!DefaultOf(t.fields[i])}
           IN  <<fields, set>>

\* out.v with the presence bits read by hasField.
RECURSIVE Seen(_, _)
Seen(h, v) ==
  LET t == Types[h]
      field(f, x) == IF IsComplex(f.kind) /\ x # <<>> THEN Seen(f.child, x) ELSE x
  IN  IF t.kind # "message"
        THEN [k \in DOMAIN v |-> IF IsComplex(t.value) THEN Seen(t.child, v[k]) ELSE v[k]]
        ELSE <<[i \in DOMAIN v[1] |-> field(t.fields[i], v[1][i])],
               {i \in DOMAIN v[1] : D!HasPresentField(v[2], i)}>>

\* Levels of arrays, maps and messages, as the decoder counts them.
RECURSIVE Levels(_, _)
Levels(h, v) ==
  LET t == Types[h]
      below(kind, child, x) == IF IsComplex(kind) THEN 1 + Levels(child, x) ELSE 0
  IN  Max({0} \union
          (IF t.kind = "message"
             THEN {below(t.fields[i].kind, t.fields[i].child, v[i]) :
                     i \in {j \in DOMAIN v : CanonicalField(t.fields[j], v[j]) # <<>>}}
             ELSE {below(t.value, t.child, v[k]) : k \in DOMAIN v}))

\* Empty maps below v, not as a field, whose keys or values are 64 bits wide.
RECURSIVE WideEmptyMap(_, _)
WideEmptyMap(h, v) ==
  LET t == Types[h]
      wide(kind) == IsScalar(kind) /\ WidthWords(kind) = 2
  IN  CASE t.kind = "message" ->
             \E i \in DOMAIN v : /\ IsComplex(t.fields[i].kind)
                                 /\ ~IsDefault(t.fields[i], v[i])
                                 /\ WideEmptyMap(t.fields[i].child, v[i])
        [] t.kind = "array" ->
             IsComplex(t.value) /\ \E k \in DOMAIN v : WideEmptyMap(t.child, v[k])
        [] t.kind = "map" ->
             IF DOMAIN v = {} THEN wide(t.key) \/ wide(t.value)
             ELSE IsComplex(t.value) /\ \E k \in DOMAIN v : WideEmptyMap(t.child, v[k])

-----------------------------------------------------------------------------
(* Properties.                                                             *)

\* What one binding writes, every binding reads as the same value and with the
\* same fields present, for any order of the slots of its maps; what the
\* TypeScript writer has packed is serialized; and the data is refused exactly
\* by the TypeScript decoder beyond its depth and for an empty map with wide
\* keys or values (see SerializedIsReadable), and by all when it is empty,
\* which only an empty alias message is.  (What Protobuf messages lose when an
\* assertion fails is left out, see AliasUnitIsSegment.)
RoundTrip ==
  intact /\ asserted =>
    /\ phase # "lost"
    /\ phase = "done" =>
         (IF reader = "typescript" THEN Seen(handle, out.v) ELSE out.v)
           = Canonical(handle, value)
    /\ phase = "data" /\ data = <<>> => Types[handle].kind # "message" /\ value = <<>>
    /\ phase \in {"done", "refused"} =>
         (phase = "refused" <=>
            \/ data = <<>>
            \/ /\ reader = "typescript"
               /\ Levels(handle, value) > MaxDepth \/ WideEmptyMap(handle, value))

\* materialize checks nothing: whatever data the decoder accepts, shortened
\* or damaged, every read lies inside tape and data, and the records of the
\* tape are used up.
TapeFitsData ==
  phase = "tape" =>
    LET r == D!Materialize(data, tape, handle, 0)
    IN  r.inside /\ r.cursor = Len(tape)

\* data-format.md: the header of a map has the key and value sizes in words,
\* so that the words serialize writes of a value within the depth limit can be
\* read.
SerializedIsReadable ==
  intact /\ data # <<>> /\ Levels(handle, value) <= MaxDepth => phase # "refused"

\* "assert(unit.len == 0)": the Unit of an alias message is a segment.
AliasUnitIsSegment == asserted
=============================================================================
