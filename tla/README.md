# A verification project for ProtoCache

ProtoCache (`src/`) is a flat binary format for Protobuf schemas with
serializers, zero-copy readers and bindings. This directory holds TLA+ modules
that model its core, TLC configurations that check them on small instances, and
proofs checked by TLAPS. `PROJECT.json` maps every definition to the lines it
stands for and lists runs, mutants, hazards, findings and theorems.

## 1. The system

| component | state | operations | interacts with | what makes it correct |
|---|---|---|---|---|
| perfect hash (`src/src/perfect_hash.cc`) | graph of keys (edges) and slots, queue of free edges, book bits, 2-bit cells, rank table | `Build`: tries with fresh seeds of `CreateGraph`, `TearGraph`, `Mapping`; `Check` for duplicates; `Locate` | reads keys through a `KeyReader`; its bytes become the head of a map | every key gets its own place; construction ends; memory suffices; reader and builder agree on the layout |
| `Divisor` (same file) | factor, tip, shift | `operator=`, `div`, `mod` | builder uses it where the reader uses `%` | exact quotients |
| container serializer (`src/src/serialize.cc`) | buffer, units (inline data or segments), tail pointer | `SerializeArray`, `SerializeMap`, `Pick`, `Mark`, `BestArraySize` | called with units that the caller serialized backwards into the same buffer | in-place compaction loses nothing; what is written reads back |
| message serializer (`src/src/serialize.cc`, `src/src/extension/serialize.cc`) | buffer, one unit per field | `SerializeField`, `FoldField`, `SerializeMessage`, alias messages | field by field from a Protobuf message | what is written reads back; unknown fields are absent; offsets fit |
| readers (`src/include/protocache/access.h`) | pointers into the bytes | `Message::GetField`, `HasField`, `Field::GetObject`, `Array`, `Map`, `Detect` | read what the serializers wrote | find every element; `Detect` finds the exact extent |
| `Buffer` (`utils.h`, `utils.cc`) | array, size, front | `Expand`, `Put`, `Shrink`, `Clear`, `Reserve` | under all serializers | a stack of words, whatever is reallocated |
| compression (`src/src/utils.cc`) | source and output positions | `Compress`, `Decompress` | applied to finished data | round trip; word copies stay inside the buffers |
| mutable objects (`access-ex.h`, classes of `protoc-gen-pccx`) | original bytes, accessed bits, extracted fields | `GetField`, `SerializeField`, `CleanHead`, `Detect` | `Detect` for untouched fields, the message serializer for the result | reading never changes what is written |
| reflection (`src/src/extension/reflection.cc`) | pool of descriptors, set of enums | `Register`, `FixUnknownType`, `Find` | files parsed from their text, in any order | what is bound leads somewhere and stays; a later file repairs what was unknown |
| Protobuf deserialization (`src/src/extension/deserialize.cc`) | - | `Deserialize` | readers, Protobuf setters | restores the message that was serialized |
| TypeScript initialization (`wasm-runtime.ts`) | shared promise, instance | `init`, `initialize`, catch handler | event loop | overlapping callers share one attempt; a failure can be retried; everyone is answered |
| TypeScript schemas (`compiled-schema.ts`, `compiled-fields.ts`) | cached nodes, handles; plans in WASM | `schemaNode`, `register`, roll-back | user resolvers; `pc_decode_schema_reserve`, `pc_decode_plan_commit` | no handle leads to a plan that was given up |
| TypeScript calls (`serialize-arena.ts`, `deserialize.ts`, `wasm-runtime.ts`) | active flags, arena views, cycle stack and set, WASM heap blocks | `serialize`, `deserialize`, `compress`, `decompress`, `perfectHashBuild` | getters and setters of user values may call the runtime again; WASM memory may grow | returned data complete; nothing left behind by a failure |
| TypeScript codec (`serialize-arena.ts`, `serialize_arena.cc`, `decode_tape.cc`, `deserialize-tape.ts`) | arena nodes, data words, tape records, cursor | writers, `SerializeNode`, `Visit...`, `materialize` | the serializers of `serialize.cc` | round trip; only readable data is accepted |
| Python binding (`src/python/protocache/_protocache.cc`) | compiled schemas, views into the data | serialize, deserialize, message, array and map views | `serialize.cc` and the readers | reads what every other binding writes, and the other way round |
| generators, tools | - | - | - | - |

The core is sequential. What is hard about it is not concurrency but data
structures that are changed in place while other parts still refer to them
(chains of the graph, segments moved over each other, folded fields), retries
on reused scratch memory, numeric edges (bit fields, thresholds, 32-bit
arithmetic) and buffers sized by an argument rather than by a check.
Interleavings occur only in the TypeScript runtime: overlapping calls of
`init`, and calls that user code (a getter, a setter, an iterator, a resolver)
makes from inside another call, with views of a memory that may be replaced
under them.

## 2. Modules

| module | models | checked by | proofs |
|---|---|---|---|
| `PerfectHash` | construction and `Locate` | `MCPerfectHash` | `PerfectHash_proofs` |
| `Divisor` | the constant division | through `HashLayout` | `HashLayout_proofs` |
| `IndexSize` | the sizes of an index | through `HashLayout` and `Container` | - |
| `HashLayout` (extends `Divisor`, `IndexSize`) | reader's view, bytes touched, scratch memory | `MCHashLayout` | `HashLayout_proofs` |
| `Container` (extends `IndexSize`) | arrays and maps, and their readers | `MCContainer` | `Container_proofs` |
| `MessageFormat` | messages, and their reader | `MCMessageFormat` | `Message_proofs` |
| `LazyMessage` (extends `MessageFormat`) | `MessageEX`: open, read, change, serialize again | `MCMessageFormat` | `Message_proofs` |
| `WordStack`, `Buffer` | abstract stack; the buffer that implements it | `MCBuffer` | `Buffer_proofs` |
| `Compress` | `Compress`, `Decompress` | `MCCompress` | `Compress_proofs` |
| `WasmInit` | `init` and its shared promise | `MCWasmSession` | `WasmSession_proofs` |
| `SchemaRegistry` | schema nodes, registration, plans | `MCWasmSession` | `WasmSession_proofs` |
| `WasmSession` (extends `WasmInit`, `SchemaRegistry`) | nested calls over one WASM memory | `MCWasmSession` | `WasmSession_proofs` |
| `DescriptorPool` | `Register` and `Find` of reflection | `MCDescriptorPool` | `DescriptorPool_proofs` |
| `TsTypes` | types, kinds, widths, words and bytes of the codec | `MCCodec` | - |
| `ArenaNodes` (extends `TsTypes`) | value to arena nodes to data; the units of `serialize.cc` | `MCCodec` | - |
| `TapeDecoder` (extends `TsTypes`) | data to tape to value | `MCCodec` | - |
| `WordReader` (extends `TsTypes`) | the readers of `access.h`, with the end of the data | `MCCodec` | - |
| `PyCodec`, `ProtobufCodec` (`ArenaNodes` and `WordReader`) | the same values written and read by Python and from Protobuf messages | `MCCodec` | - |
| `Codec` (all of these) | a writer, data cut or damaged in between, a reader | `MCCodec` | - |

**PerfectHash.** One action per loop round: `NewSeed` (a try), `CreateGraph`
(one key read and linked into its three chains), `TearScan` and `TearPeel` (one
round of the two loops of `TearGraph`), `Mapping`, `FillTable`, `CheckInsert`.
`TryFails` is the failing return of the `build` lambda. The hash function is an
arbitrary function of key and try, so every collision pattern occurs. `phase =
"abort"` stands for `assert(false)` in `Mapping`. A reader that returns
fewer keys than `Total()`, and key lists with duplicates, are initial states.
The scratch memory is one block for all tries: it starts with anything (`Junk`),
a try that fails leaves what it wrote, and the table of `Check` may lie over the
links. Only the resets of the code touch it: `NewNodes`, `TearBook`, `MapBook`,
`MapBitmap`, `NewSpace`. `book` is one set of bits, of edges for `TearGraph` and
of slots for `Mapping`, as in the code.

**HashLayout** keeps the byte counts of the code and the thresholds 24, 255 and
65535 as they are; the word size `W` of the division is a parameter.

**Container.** Places are counted from the end of the buffer, as `Buffer::At`
and the offsets do. A word is a marker of its origin plus its two lowest bits,
the only bits that readers look at before they know what they read. Callers
serialize from the last element to the first and values before keys. Then
`CountCell` is a round of the loop of `BestArraySize`, `ChooseWidths` takes the
best widths or refuses the container, and `Pick`, word by word for the moves,
`Shrink`, `Mark` and the header follow. `mem` has just the places of the buffer
that are in use: it grows with every write and `Shrink` cuts it.

**MessageFormat.** 12 and 25 become `First` and `2*First+1`; the same
formula `(n + First) \div (2*First+1)` gives the sections. `cnt << 50` keeps
the count modulo `CntLimit`, which is why the check in front of it matters.
The sums of widths and sizes that writer and readers take are counted word by
word (`SumOver`), without recursion. `PutObject` writes an object and folds it
as `FoldField` does, whose call follows in every serializer: the Unit gets
`FrontWords`, what lies at the front of the buffer, not the object that was meant.

**LazyMessage.** The message that `MessageFormat` wrote is opened (`Open`: its
words become `view`); `Access` sets the bit of a field and extracts it,
`Assign` is a write through the reference the getter returned. `CopyMessage` is
the clean path (`CleanHead` and `Detect` of the generated class), otherwise
`CopyField`, `NilField`, `NullField` and `AccessedField` are the branches of
`SerializeField` and the result goes through `SerializeMessage` again. `want`
records what the user sees in each field and is used by the property only.

**WasmInit.** One action per turn of the event loop: `CallInit` (joins
`initialization` or starts an attempt), `LoadModule`, `Instantiate`,
`CatchHandler`, and `Settle` (one waiting caller is answered).

**SchemaRegistry.** `BuildField` is a round of `schemaNode`, `RegisterChild` a
round of `register`, with their recursion as the sequences `building` and
`registering`; resolvers and reservations may fail (`Fault`), a plan may be
refused, and `Rollback` is the catch block.

**WasmSession.** `frames` is the JavaScript call stack. Each call moves through
`schema`, then `arena` and `write`, or `plan`, `tape` and `read`, or `alloc`,
`run` and `copy`, and ends in `return` or `unwind`. Between the nodes of a
value user code may start another call, which the model allows whenever
`UserCode` holds; an error may be caught by the user code in between
(`Caught`). `buffer` counts the replacements of `memory.buffer`; a view is
valid while it has the current number. On a detached view a DataView throws
and a typed array drops stores and reads as nothing, as JavaScript defines it.
`lost` and `disturbed` are specification-only marks. One simplification: `compilePlan`
may fail also when its plan is cached, which only adds failures.

**DescriptorPool.** `calls` is the recursion of `Register` over nested
messages, so that a failure (a duplicate name, a message that cannot be
converted) leaves just what was done before it. `FixPool` is the walk over the
pool at the end of `Register` and `Find` the lookup by name, which tries to
bind a message that is still unresolved once. An `unordered_map` has no order:
when a name is not found, any set of the other fields may have been bound.

**TsTypes, ArenaNodes, TapeDecoder, WordReader, PyCodec, ProtobufCodec,
Codec.** A byte has `ByteSize` values and a word four bytes; kinds of 64 bits
take two words. Nodes, data and tape are sequences of words with the fields of
the code in the same order. The order of the slots of a map is left to the
perfect hash: `turned` tries both orders. A behaviour of `Codec` picks a
writer (TypeScript through the arena, Python, Protobuf), may cut the data or
change a byte, and picks a reader (TypeScript through the tape, Python's
`deserialize`, Python's views, Protobuf); cut and damaged data goes to the
TypeScript decoder only. A writer of Protobuf messages also tells whether the
assertions on its way held. The modules recurse over the type with RECURSIVE
operators; they are for TLC only.

**Buffer** implements **WordStack** under the mapping `Contents` (the words
from the front to the end); uninitialized words hold any value.

**Compress.** A literal byte is represented by its position in the input, since
the code never compares literals. `high` is the end of the furthest write; the
word copies write `Fast` bytes, of which only some are meant. The sizes follow
from `LitCap` (7): `Fast` is 8, the slack 7, the ratio 14. The length prefix
is written and read digit by digit in base `Base` (128), with lengths of 32
bits (`Word`). The stream may lose its end before it is decompressed.

## 3. Runs

| run | instance | shows |
|---|---|---|
| `perfect_hash` | 3 keys, sections of 2 slots, rank blocks of 4 slots, one try of each kind of build, all hash functions into the codes of the instance (first words 3, 4 and 5), duplicate keys, early end, two contents of the memory | all properties of the construction, and that it returns, with what memory and a failed try left (some 679,000 states) |
| `hash_layout` | numbers of keys around every threshold (24, 255, 65535) and at a small limit of 75000, 15-bit words in the division | agreement of builder and reader, memory bounds |
| `container` | up to 3 elements or two pairs, objects of up to 5 words, one old word, limit 13 | every mix of inline, embedded, staying and moved elements; the size limit is reached |
| `message` | up to 5 fields with one in the head and three per section, objects of up to 4 words, all three limits reachable; messages of up to 3 fields are opened as `MessageEX` | field lookup across head and two sections; read, changed and copied fields read back |
| `buffer` | first array of one word, growth by half from two words on | refinement of the stack |
| `compress` / `compress_wrap` | all inputs of up to 8 bytes with literals and runs of 2, a length prefix in base 2 | bounds, round trip, truncation / finding 2 |
| `ts_session` | two attempts of `init`, a recursive message with a list of itself, one injected failure, one growth, four calls of three nodes, depth limit and cycle threshold 1, three objects | initialization, schemas, re-entrancy, detached views, releases |
| `codec` / `ts_empty_map` / `alias_bools` | 11 types: messages with fields out of order and in two sections, arrays and maps of every kind of element, strings of one to three words, values beyond the depth limit 3; three writers and four readers; every prefix and every change of one byte of the data | round trip between the bindings, decoder bounds / finding 3 / finding 1 |
| `descriptor_pool` | four files of seven messages, one nested, with a duplicate name, a message that cannot be converted, names found in two scopes or never; five names to find | every order of `Register` and `Find` |

*Bounds.* Three keys are the least with a chain of three edges in a slot, an
edge removed from the middle of a chain, and cyclic graphs that fail. The first
words let `Check` probe from the last place of its table around to the first,
take two codes for one, and let a try of three different codes fail. One
content of the memory has every bit set that a reset must clear, the other
looks as if edges without neighbours had been there. Three elements let a
segment move over one that was embedded and one that is still to come. Five
fields reach the second section. Eight bytes reach the tight case of the output
size: two excess marks, with two full literals, a run, and a last literal. In
`ts_session` four calls are an `init` and three that nest or follow each other;
a second growth or failure only repeats what a call does after the first, since
no code counts them. Three objects with the threshold 1 let one leave the set
while two stay in it. In `codec` the inputs are listed in `MCCodec`: one for
each branch of the writers. `descriptor_pool` has no bound on the calls: the
pool of four files is finite. Bounds on counters and sizes are CONSTANTS of the
modules (`MaxElements`, `MaxLen`, `MaxFields`, `MaxDelta`, ...).

*Fairness.* `BuildReturns` assumes weak fairness of the whole next-state
relation only: the code runs in one thread and never waits. `InitAnswered`
assumes that a running call ends (weak fairness of `CallStep`; values are
finite) and that the event loop keeps turning while no call runs, so that a
module that is loaded is loaded or fails to, and handlers of settled promises
run, as the JavaScript job queue guarantees. No caller is assumed to call.
`CheckRejectsOnlyDuplicates` speaks of the codes that `Check` compares, not of
the keys: distinct keys with equal codes are rejected too, as the code does.

Every property has a mutant in `PROJECT.json`: an operator next to the original
(`...Again`, `...Late`, ...) with a plausible slip, for which TLC finds the
property violated. Mutants are not part of any specification.

### Findings

1. `src/src/extension/serialize.cc:377`: `assert(unit.len == 0)` fails for an
   alias message `repeated bool _ = 1` with one to three elements, because bool
   lists are strings and a string of one word stays in the unit. Without
   assertions the list is replaced by an empty array.
2. `src/src/utils.cc:124`: `size+7` wraps around in 32 bits for lengths from
   2^32-7 on, so the "extra space for fast fill" is missing.
3. `src/src/serialize.cc:181`: an empty map is written with widths of one word,
   whatever its types are. The decoder of the WASM module refuses a map whose
   widths are not those of its scalar key and value types, so an empty map
   with 64-bit keys or values, as a root, an array element or a map value, is
   refused by `deserialize` of the TypeScript runtime, whichever binding wrote
   it: `SerializeMap` writes 5<<28 for all of them. The trace of the run may
   have any writer, usually the Python one; TypeScript writes the same word.
   (As a field an empty map is left out.) `RoundTrip` states that this and the
   depth limit are the only refusals.

### Observations

Met while modelling; the models follow the code, and no document says
otherwise.

* The writers of the arena count a repeated field as part of its message, the
  decoder counts it as a level; both limits are 256, so a deep value may be
  serialized and then refused (`RoundTrip` uses the decoder's count).
* A resolver that throws leaves a node with only the earlier fields in the
  cache (`compiled-schema.ts:79`); a later call registers it as it is, and the
  decoder then knows fewer fields than the plan of `deserialize-tape.ts`.
  `HandleClosure` therefore asks for all fields only if nothing failed, and
  does not cover the short node: what a later call should see of it is not
  documented.
* `Detect` of generated C++ classes searches fields by descending number and
  stops at the first object behind the body. The serializers of this repository
  write objects in that order when the schema lists its fields by number.
* The bindings differ on messages that hold nothing but empty messages: the
  TypeScript writer leaves out a message field that is empty itself
  (`serialize-arena.ts:452`), the Python and Protobuf writers decide after they
  have left out everything in it. Readers see the same values.
* Python compiles a schema with field id 6387 (`_protocache.cc:1492` tests
  `max_id > 12 + 25 * 255`), one more than `data-format.md:59` allows;
  `SerializeMessage` refuses every message of it. Failures of `serialize.cc`
  surface in Python as a NULL without an exception.
* `Serialize(message, buf)` of the extension API does not look at the unit it
  gets, so a root alias message without elements writes no word; the TypeScript
  and Python readers refuse empty data.
* The loop that writes the length prefix of `Compress` masks with the 32-bit
  `~0x7fU`, so a length of 2^32 or more is cut. `RoundTrip` is stated for
  lengths that fit.
* Reflection tries a type name as it is before the scopes around it, where
  Protobuf starts with the innermost scope; a name with a leading dot is never
  found. After a `Register` that failed the messages in front of the failure
  stay, so a corrected file is refused as a duplicate. What a name is bound to
  depends on the order in which files are registered.
* An untouched or re-serialized `MessageEX` keeps only the fields its class
  knows: objects of fields unknown to it may be cut off or dropped.

## 4. Theorems

All are proved for every value of the constants allowed by the named
assumptions. `SizeAssumption`, `CodeAssumption`, `WordAssumption`,
`LayoutAssumption`, `BufferAssumption`, `CompressAssumption` and
`BoundsAssumption` only say that sizes are natural numbers, positive where the
code divides by them, and that a section fits in a word;
`AttemptsAssumption`, `SchemaAssumption`, `SessionAssumption` and
`PoolAssumption` give the types of the schemas, objects, limits and files;
`ScaleAssumption` says the same of the sizes of a message, and that objects
too long to fold (four words) are among those considered.

* **PerfectHash** (`TypeCorrect`, `QueueCorrect`, `LinksCorrect`,
  `PeelingCorrect`, `MappingSafe`, `PerfectHashCorrect`, `BadInputRefused`,
  `CheckCorrect`). The inductive invariant `Inv` has four layers. `QInv`:
  types, and the queue holds an edge at most once and, while `TearGraph` runs,
  exactly the booked ones. It says of memory only what was written since the
  reset: any other content of it satisfies the invariant, which is why a try
  after a failed one, or after `Check`, needs nothing more.
  `PInv`: the links of the edges not yet removed thread exactly the edges of
  their slot, so an edge without neighbours is alone, so every queued edge has
  a slot that no edge behind it in the queue uses. `MapInv`: Mapping goes
  through the queue backwards; the slot private to an edge is free when its
  turn comes, and a cell is not changed once an edge that was mapped depends on
  it, so the cells of a mapped edge keep adding up to the side it was given.
  `TableInv`: the rank table counts the used cells. `LocateIsPerfect` then
  follows: keys have distinct slots and the rank of used cells is a bijection
  onto 0..N-1. For `Check`, the places from the home of a code to its own are
  taken; the first free place of a probe is a least element, which well-founded
  minimality provides.
* **Divisor** (`DivisorExact`): Robison's rounding; with `m*W = fac*n + e`, the
  error of the rounded-up or the tipped product stays below one unit.
* **HashLayout** (`LayoutCorrect`, `ReductionsAgree`, `ScratchCorrect`,
  `LocateInside`): `HInv` says that the reader's fields are functions of the
  number of keys once open; the rest is arithmetic at the thresholds, for all
  numbers of keys below 2^28.
* **Container** (`PickKeepsSegments`, `OldContentSafe`, `ContainerReadsBack`,
  `DetectCorrect`, `SizeCorrect`), for any number of elements, any lengths and
  any old content. `IInv` says where everything lies. Segments lie in the
  opposite order of their cells (`OrderInv`); those that Pick is through with
  end below the tail, the others start above it (`TailInv`), and the one that
  is being moved is partly in its old and partly in its new place (`MoveInv`).
  So a word is overwritten only after it was copied. What is in a unit fits its
  cell (`FitInv`): an object in a unit has one word unless Pick put it there,
  and over scalars of two words the sums of `BestArraySize` make cells of two
  words best (`ScalarInv`). Nothing is left between the old content and the
  last segment (`TightInv`), which makes `Detect` exact, and Mark writes every
  cell at the place where the readers look (`MarkInv`). `SizeInv` is separate:
  the sums are taken from the first cell to the last and the segments picked
  from the last to the first, so it asserts that there is a function of the
  sums after each cell, and says how far the tail is between its values.
* **MessageFormat** with **LazyMessage** (`MessageInvariant`,
  `MessageReadBack`, `MessageDetect`, `MessageOffsets`,
  `LazyMessageReadBack`), for any number of fields, width of the head, limits
  and lengths, stated for `LazySpec`, which also writes the first message.
  `Ahead(f)` and `Behind(f)`, the sums of the widths before a field and of the
  segments from it on, give every word its place: objects up to `Base`, the
  body up to `Top`, sections and head above. `IInv` says that a Unit fits its
  value (`FieldOK`); while fields are serialized, that the buffer ends at `Base`
  with every segment in place (`FieldsInv`); while groups are marked, that `cnt`
  is `Ahead` of the group's first field and the groups before it are complete
  (`MarkInv`); of a finished message, that all groups are (`DoneInv`). The
  division that finds the section of a field, and the one that counts the
  sections, are matched in `SectDivision` and `SectionFacts`, so the reader adds
  up what the writer did. An offset spans segments and body words that the size
  check counts at least as large (`OffsetBound`). `LazyInv` says what the user
  finds: the extracted object of an accessed field, for the others what
  the original message still reads as. The copy of an untouched message ends
  where its last object does, which `Detect` finds because objects lie in the
  order of their fields (`OpenValues`).
* **Buffer** (`BufferTypes`, `BufferImplementsStack`): each operation is a
  step of `WordStack`, or leaves `Contents` as it is.
* **Compress** (`PackingInside`, `UnpackingInside`, `RoundTripCorrect`).
  `PackInv` accounts for the excess of bytes written over bytes consumed. Only
  a mark with two literals adds to it; the first is then full, and the second
  is full or followed by a run. So a unit of excess is paid by 14 consumed
  bytes, or will be before the next one. `StreamInv` says what the bytes mean:
  the prefix holds the digits of the length, and the position of every mark
  stands for a position in the input. Decompress is always at such a position
  and has restored just that much, so it ends at the end of the input or misses
  bytes.
* **WasmSession** with **WasmInit** and **SchemaRegistry** (`SessionTyped`,
  `RetryCorrect`, `RuntimeStable`, `HandlesClosed`, `ReturnsComplete`,
  `DetachedByUserCode`, `CycleSetCorrect`, `CallsLeaveNothing`), for any
  schemas, objects, depth, memory and number of attempts. `Inv == InitInv /\
  RegInv /\ SInv`. `InitInv`: the shared promise is the one attempt that is not
  settled. `RegInv`: the types on the registration stack are distinct and
  touched, their known children have handles, and a plan of an earlier call
  never leads to one of this call, which roll-back may take away. `SInv`
  relates every frame to the frames above it: which of them hold the arena, the
  flags, the heap blocks and the objects on the cycle stack, and when views can
  be stale.
* **DescriptorPool** (`BoundCorrect`, `ResolveCorrect`, `BindingsCorrect`), for
  any files and any order of calls. `Inv` adds to the two invariants that
  nothing is settled or asked for while `Register` runs; the pool only grows,
  so a name that was found stays found, though not always first.

Only model-checked: the liveness properties `BuildReturns` and `InitAnswered`
and the codec (`RoundTrip` and `TapeFitsData` of `Codec`). Liveness is outside
the prover's reach, and so is what the recursive writers and decoders of the
codec compute for every input, which is induction over data.

## 5. Not modelled

* `Hash128`: only its determinism matters; `PerfectHash` takes any function.
* File utilities, command-line tools and code generators: input, output and
  text without state. The classes that `protoc-gen-pccx` generates are modelled
  where they carry logic (`LazyMessage`).
* Reflection: tags, ids and keys of fields, on which nothing later depends;
  descriptors that come with their types set instead of from the parser.
* The Python binding: reference counts, object lifetimes and exceptions of
  CPython, which would need a model of the interpreter.
* Damaged data for the C++, Python and Protobuf readers, whose end-pointer
  checks see intact data only (the decoder of the WASM module is given damaged
  data); compressed streams that are damaged rather than cut; serialization of
  `ArrayEX` and `MapEX` themselves; the move operations of `Buffer`.
* In the codec: floating-point kinds (copied like the integers of their width),
  the checks of hand-written schema tuples (`messageSchemaV1`), and the
  validation of compressed sizes and perfect hash inputs at the WASM boundary.

## 6. Plan

1. Done: the C++ core (perfect hash, layout, containers, messages, mutable
   messages, buffer, compression, reflection), the TypeScript runtime
   (initialization, schemas, calls) and the codec across the bindings; proofs
   of every safety property of the perfect hash, its storage, containers,
   messages, mutable messages, buffer, compression, the TypeScript runtime and
   reflection.
2. Left: end-pointer checks of the C++ readers over cut data; damaged compressed
   streams.
