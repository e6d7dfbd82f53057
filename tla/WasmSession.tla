---------------------------- MODULE WasmSession ----------------------------
(***************************************************************************)
(* Calls of the TypeScript runtime: serialize (serialize-arena.ts),        *)
(* deserialize (deserialize.ts, deserialize-tape.ts), compress, decompress *)
(* and perfectHashBuild (wasm-runtime.ts), over one WASM instance.         *)
(*                                                                         *)
(* JavaScript runs one call at a time, but the getters of a serialized     *)
(* value and the setters of a deserialized class are user code that may    *)
(* call the runtime again, so calls nest.  The memory of the instance may  *)
(* grow in any call into WASM; growth detaches every view of the memory:   *)
(* a DataView of it throws, and an element of a typed array is neither     *)
(* written nor read, without an error.                                     *)
(***************************************************************************)
EXTENDS WasmInit, SchemaRegistry

CONSTANTS
  Objects,    \* arrays, maps and messages of the values to serialize
  Threshold,  \* CYCLE_SET_THRESHOLD: stack length from which a set is kept
  MaxDepth,   \* MAX_DEPTH
  MaxNodes,   \* bound on the nodes or fields of one value
  MaxCalls,   \* bound on the calls
  MaxGrowth   \* bound on the growths of the memory

\* What an open array of bools is called, among the open objects.
Bools == "bools"

ASSUME SessionAssumption ==
  /\ Bools \notin Objects
  /\ Threshold \in Nat \ {0} /\ MaxDepth \in Nat /\ MaxNodes \in Nat
  /\ MaxCalls \in Nat /\ MaxGrowth \in Nat

VARIABLES
  frames,      \* the calls in progress, innermost last
  calls,       \* calls started so far, those of init too
  buffer,      \* how often memory.buffer was replaced by growth
  arena,       \* packedArena: the buffer its views are of, and the call that
               \* reset its offset; NoArena if undefined
  serializationActive,
  deserializationActive,
  stack,       \* serializationContext.stack
  set,         \* serializationContext.set, NoSet if undefined
  live         \* blocks of the WASM heap that are allocated by calls

otherCallVars == <<frames, buffer, arena, serializationActive,
                   deserializationActive, stack, set, live>>
callVars == <<calls, otherCallVars>>
vars == <<callVars, initVars, schemaVars>>

NoArena == [view |-> -1, owner |-> 0]
NoSet == [members |-> {}, on |-> FALSE]
SetOf(members) == [members |-> members, on |-> TRUE]

\* A call: what it is doing, the nodes it has open, the nodes it has written
\* or read, the buffer its own views are of, the blocks it will allocate and
\* those it holds, and how it ends.  lost: a write or read went to a detached
\* array, or to an arena that another call has reset.  disturbed: a call of
\* user code grew the memory during this call.
NewFrame(op, need) ==
  [op |-> op, pc |-> IF op = "native" THEN "alloc" ELSE "schema",
   open |-> <<>>, nodes |-> 0, view |-> 0, need |-> need, held |-> {},
   lost |-> FALSE, disturbed |-> FALSE, why |-> ""]

\* An open node: a message, array or map of complex values with the depth of
\* its values, or an array of bools.
Node(what, depth) == [what |-> what, depth |-> depth]

SessionTypeOK ==
  /\ \A i \in DOMAIN frames :
       /\ frames[i].op \in {"serialize", "deserialize", "native"}
       /\ frames[i].pc \in {"schema", "arena", "write", "plan", "tape", "read",
                            "alloc", "run", "copy", "unwind", "return"}
       /\ frames[i].nodes \in 0 .. MaxNodes
       /\ frames[i].open \in
            Seq([what : Objects \union {Bools}, depth : 0 .. MaxDepth])
  /\ calls \in 0 .. MaxCalls /\ buffer \in 0 .. MaxGrowth
  /\ arena \in [view : -1 .. MaxGrowth, owner : 0 .. MaxCalls]
  /\ serializationActive \in BOOLEAN /\ deserializationActive \in BOOLEAN
  /\ stack \in Seq(Objects)
  /\ set \in [members : SUBSET Objects, on : BOOLEAN]
  /\ InitTypeOK /\ SchemaTypeOK

Init ==
  /\ InitWasm /\ InitSchema
  /\ frames = <<>> /\ calls = 0 /\ buffer = 0 /\ arena = NoArena
  /\ serializationActive = FALSE /\ deserializationActive = FALSE
  /\ stack = <<>> /\ set = NoSet /\ live = {}

-----------------------------------------------------------------------------
(* Frames and memory.                                                      *)

F == Last(frames)
At(op, pc) == frames # <<>> /\ F.op = op /\ F.pc = pc

\* The innermost frame becomes f.  If the memory grew, the calls around it
\* find their views detached by user code.
Continue(f, grown) ==
  frames' = [i \in DOMAIN frames |->
               IF i = Len(frames) THEN f
               ELSE [frames[i] EXCEPT !.disturbed = @ \/ grown]]

\* A call into WASM: the memory may grow.
Enter(f) ==
  \E b \in buffer .. buffer + 1 :
    /\ b <= MaxGrowth
    /\ buffer' = b
    /\ Continue(f, b # buffer)

Unwinding(f, why) == [f EXCEPT !.pc = "unwind", !.why = why]

\* User code runs: at the top, between two fields of a value that is
\* written, or between two fields of a value that is read.
UserCode ==
  frames # <<>> => F.pc = "read" \/ (F.pc = "write" /\ F.open # <<>>)

\* Errors of a nested call reach the user code, which may pass them on.
Caught(fs) ==
  {fs} \union
  (IF fs = <<>> THEN {} ELSE {Append(Front(fs), Unwinding(Last(fs), "user"))})

-----------------------------------------------------------------------------
(* Calls.                                                                  *)

StartCall(f) ==
  /\ UserCode /\ runtime # 0
  /\ calls < MaxCalls /\ calls' = calls + 1
  /\ frames' = Append(frames, f)

Refuse ==
  /\ UserCode /\ runtime # 0
  /\ calls < MaxCalls /\ calls' = calls + 1
  /\ frames' \in Caught(frames)

CallSerialize(t) ==
  /\ ~serializationActive
  /\ StartCall(NewFrame("serialize", <<>>))
  /\ serializationActive' = TRUE
  /\ StartSchema(t)
  /\ UNCHANGED <<buffer, arena, deserializationActive, stack, set, live, initVars>>

\* Mutant: the check is inside the try, whose finally clears the flag.
RefuseSerializeInsideTry ==
  /\ serializationActive
  /\ Refuse
  /\ serializationActive' = FALSE
  /\ UNCHANGED <<buffer, arena, deserializationActive, stack, set, live,
                 initVars, schemaVars>>

\* serialize "is not reentrant": the flag stays with the call that set it.
RefuseSerialize ==
  /\ serializationActive
  /\ Refuse
  /\ UNCHANGED <<buffer, arena, serializationActive, deserializationActive,
                 stack, set, live, initVars, schemaVars>>

CallDeserialize(t) ==
  /\ ~deserializationActive
  /\ StartCall(NewFrame("deserialize", <<>>))
  /\ deserializationActive' = TRUE
  /\ StartSchema(t)
  /\ UNCHANGED <<buffer, arena, serializationActive, stack, set, live, initVars>>

RefuseDeserialize ==
  /\ deserializationActive
  /\ Refuse
  /\ UNCHANGED <<buffer, arena, serializationActive, deserializationActive,
                 stack, set, live, initVars, schemaVars>>

\* transformBytes and perfectHashBuild: the blocks for their inputs (none for
\* an empty input) and for the result.
Needs == {<<"result">>, <<"input", "result">>, <<"keys", "spans", "result">>}

CallNative(need) ==
  /\ StartCall(NewFrame("native", need))
  /\ UNCHANGED <<buffer, arena, serializationActive, deserializationActive,
                 stack, set, live, initVars, schemaVars>>

-----------------------------------------------------------------------------
(* compiledSchemaHandle, inside a call.                                    *)

InSchema == frames # <<>> /\ F.pc = "schema"

SchemaWork ==
  /\ InSchema
  /\ \/ BuildStep /\ UNCHANGED <<buffer, frames>>
     \/ RegisterStep /\ Enter(F)
  /\ UNCHANGED <<calls, arena, serializationActive, deserializationActive,
                 stack, set, live, initVars>>

\* Back in serializeWithArena, which may still find that the root value does
\* not match its type, or in deserializeWithTape.
SchemaEnds ==
  /\ InSchema /\ SchemaReturns
  /\ \/ /\ schemaPhase = "done"
        /\ Continue([F EXCEPT !.pc = IF F.op = "serialize" THEN "arena" ELSE "plan"],
                    FALSE)
     \/ /\ schemaPhase = "thrown" \/ F.op = "serialize"
        /\ Continue(Unwinding(F, "schema"), FALSE)
  /\ UNCHANGED <<calls, buffer, arena, serializationActive,
                 deserializationActive, stack, set, live, initVars>>

-----------------------------------------------------------------------------
(* serialize.                                                              *)

\* Mutant: the views of the arena of an earlier call are used as they are.
CurrentArenaUnbound ==
  /\ At("serialize", "arena")
  /\ arena' = [view |-> IF arena = NoArena THEN buffer ELSE arena.view,
               owner |-> Len(frames)]
  /\ Continue([F EXCEPT !.pc = "write"], FALSE)
  /\ UNCHANGED <<calls, buffer, serializationActive, deserializationActive,
                 stack, set, live, initVars, schemaVars>>

\* currentArena: a new arena (of the initial capacity, which the module holds
\* from the start), or the one of an earlier call, bound to the buffer again
\* if that has been replaced.
CurrentArena ==
  /\ At("serialize", "arena")
  /\ arena' = [view |-> buffer, owner |-> Len(frames)]
  /\ Continue([F EXCEPT !.pc = "write"], FALSE)
  /\ UNCHANGED <<calls, buffer, serializationActive, deserializationActive,
                 stack, set, live, initVars, schemaVars>>

Outcome(b, view, why) == [buffer |-> b, view |-> view, why |-> why]

\* PackedArena::require: there is room; or acquireSerializationArena gets
\* more, and the views are bound to the buffer as it is then; or it fails.
Require ==
  {Outcome(buffer, arena.view, "")}
  \union {Outcome(b, b, "") : b \in {buffer, buffer + 1} \cap 0 .. MaxGrowth}
  \union (IF faults < MaxFaults THEN {Outcome(buffer, arena.view, "memory")} ELSE {})

\* view.setUint32 after require: a detached DataView throws.
WriteWord(r) ==
  IF r.why = "" /\ r.view # r.buffer THEN [r EXCEPT !.why = "detached"] ELSE r

\* Writes to an arena that another call has reset are in the wrong place.
Overwritten == arena.owner # Len(frames)

\* The write r is done by f, which goes on, or unwinds.
Written(f, r) ==
  /\ buffer' = r.buffer
  /\ arena' = [arena EXCEPT !.view = r.view]
  /\ faults' = IF r.why = "memory" THEN faults + 1 ELSE faults
  /\ LET g == [f EXCEPT !.lost = @ \/ Overwritten]
     IN  Continue(IF r.why = "" THEN g ELSE Unwinding(g, r.why),
                  r.buffer # buffer)

CanWrite == At("serialize", "write") /\ F.nodes < MaxNodes
Inner == Last(F.open)
InObject == F.open # <<>> /\ Inner.what # Bools
Root == F.open = <<>> /\ F.nodes = 0
OneMore == [F EXCEPT !.nodes = @ + 1]

restOfSchema ==
  <<node, handle, plans, schemaPhase, building, registering, touched>>

\* enterCycle finds the value among the objects being written.
InCycle(o) == IF set.on THEN o \in set.members ELSE o \in Range(stack)

\* Mutant: the limit is checked one level late.
TooDeepLate(depth) == depth > MaxDepth + 1

\* nextDepth throws.
TooDeep(depth) == depth > MaxDepth

\* compileMessageWriter, compileArrayWriter and writeMap of the object o.
\* deeper: it is the value of a field, array or map (nextDepth); otherwise it
\* is the root, or the container of a repeated field.
WriteObject(o, deeper) ==
  /\ CanWrite /\ ((Root /\ ~deeper) \/ InObject)
  /\ LET depth == (IF Root THEN 0 ELSE Inner.depth) + (IF deeper THEN 1 ELSE 0)
     IN  \/ /\ TooDeep(depth)
            /\ Continue(Unwinding(F, "depth"), FALSE)
            /\ UNCHANGED <<buffer, arena, stack, set, faults>>
         \/ /\ ~TooDeep(depth) /\ InCycle(o)
            /\ Continue(Unwinding(F, "cycle"), FALSE)
            /\ UNCHANGED <<buffer, arena, stack, set, faults>>
         \/ /\ ~TooDeep(depth) /\ ~InCycle(o)
            /\ stack' = Append(stack, o)
            /\ set' = IF set.on THEN SetOf(set.members \union {o})
                      ELSE IF Len(stack) = Threshold THEN SetOf(Range(stack) \union {o})
                      ELSE NoSet
            /\ \E r \in Require :
                 Written([OneMore EXCEPT !.open = Append(@, Node(o, depth))],
                         WriteWord(r))
  /\ UNCHANGED <<calls, serializationActive, deserializationActive, live,
                 initVars, restOfSchema>>

\* A scalar, a string, bytes or an array of numbers: no user code runs
\* between the parts of it (writeScalar, writeBlob, writeScalarArray).
WriteLeaf ==
  /\ CanWrite /\ InObject
  /\ \E r \in Require : Written(OneMore, WriteWord(r))
  /\ UNCHANGED <<calls, serializationActive, deserializationActive, stack, set,
                 live, initVars, restOfSchema>>

\* A value of a wrong type, or out of range.
WriteInvalid ==
  /\ CanWrite /\ InObject
  /\ Continue(Unwinding(F, "value"), FALSE)
  /\ UNCHANGED <<calls, buffer, arena, serializationActive,
                 deserializationActive, stack, set, live, initVars, schemaVars>>

\* writeScalarArray of bools: its header, then one byte for every element
\* that the iteration of the array yields.
WriteBools ==
  /\ CanWrite /\ InObject
  /\ \E r \in Require :
       Written([OneMore EXCEPT !.open = Append(@, Node(Bools, Inner.depth))],
               WriteWord(r))
  /\ UNCHANGED <<calls, serializationActive, deserializationActive, stack, set,
                 live, initVars, restOfSchema>>

WriteBool ==
  /\ CanWrite /\ F.open # <<>> /\ Inner.what = Bools
  /\ Continue([OneMore EXCEPT !.lost = @ \/ arena.view # buffer \/ Overwritten],
              FALSE)
  /\ UNCHANGED <<calls, buffer, arena, serializationActive,
                 deserializationActive, stack, set, live, initVars, schemaVars>>

\* Mutant: the value stays in the set.
LeaveCycleKeeps ==
  /\ stack' = Front(stack)
  /\ set' = IF Len(stack) - 1 < Threshold THEN NoSet ELSE set

\* leaveCycle of the innermost object.
LeaveCycle ==
  /\ stack' = Front(stack)
  /\ set' = IF set.on /\ Len(stack) - 1 >= Threshold
              THEN SetOf(set.members \ {Inner.what}) ELSE NoSet

\* PackedArena::finish of the innermost node: its size is written through the
\* DataView.  (The padding is inside the capacity, which is a multiple of the
\* word.)
Close ==
  /\ At("serialize", "write") /\ F.open # <<>>
  /\ IF arena.view = buffer
       THEN /\ Continue([F EXCEPT !.open = Front(@), !.lost = @ \/ Overwritten], FALSE)
            /\ IF InObject THEN LeaveCycle ELSE UNCHANGED <<stack, set>>
       ELSE /\ Continue(Unwinding(F, "detached"), FALSE)
            /\ UNCHANGED <<stack, set>>
  /\ UNCHANGED <<calls, buffer, arena, serializationActive,
                 deserializationActive, live, initVars, schemaVars>>

\* finishSerializationArena: pc_arena_serialize fails, or its output is
\* copied through a view made after it.
FinishArena ==
  /\ At("serialize", "write") /\ F.open = <<>> /\ F.nodes > 0
  /\ \/ Enter([F EXCEPT !.pc = "return"]) /\ faults' = faults
     \/ Enter(Unwinding(F, "memory")) /\ Fault
  /\ UNCHANGED <<calls, arena, serializationActive, deserializationActive,
                 stack, set, live, initVars, restOfSchema>>

-----------------------------------------------------------------------------
(* deserialize.                                                            *)

\* compilePlan asks the resolvers again, unless the plan of this type is
\* cached; that a cached one could fail too only adds failures.
CompilePlan ==
  /\ At("deserialize", "plan")
  /\ \/ Continue([F EXCEPT !.pc = "tape"], FALSE) /\ faults' = faults
     \/ Continue(Unwinding(F, "schema"), FALSE) /\ Fault
  /\ UNCHANGED <<calls, buffer, arena, serializationActive,
                 deserializationActive, stack, set, live, initVars, restOfSchema>>

\* buildDecodeTape: the input is copied, the decoder runs, and the views of
\* input and tape are made after it; or it fails.
DecodeTape ==
  /\ At("deserialize", "tape")
  /\ \/ \E b \in {buffer, buffer + 1} \cap 0 .. MaxGrowth :
          /\ buffer' = b
          /\ Continue([F EXCEPT !.pc = "read", !.view = b], b # buffer)
          /\ faults' = faults
     \/ Enter(Unwinding(F, "memory")) /\ Fault
     \/ Enter(Unwinding(F, "data")) /\ faults' = faults
  /\ UNCHANGED <<calls, arena, serializationActive, deserializationActive,
                 stack, set, live, initVars, restOfSchema>>

\* materialize, one field: on detached views the tape and the bytes read as
\* zero, and a DataView throws.
ReadField ==
  /\ At("deserialize", "read") /\ F.nodes < MaxNodes
  /\ \/ Continue([OneMore EXCEPT !.lost = @ \/ F.view # buffer], FALSE)
     \/ F.view # buffer /\ Continue(Unwinding(F, "detached"), FALSE)
  /\ UNCHANGED <<calls, buffer, arena, serializationActive,
                 deserializationActive, stack, set, live, initVars, schemaVars>>

\* The check for trailing records: the cursor is behind the first header,
\* and the length of a detached tape is 0.
FinishRead ==
  /\ At("deserialize", "read")
  /\ Continue(IF F.view # buffer THEN Unwinding(F, "detached")
              ELSE [F EXCEPT !.pc = "return"], FALSE)
  /\ UNCHANGED <<calls, buffer, arena, serializationActive,
                 deserializationActive, stack, set, live, initVars, schemaVars>>

-----------------------------------------------------------------------------
(* transformBytes and perfectHashBuild.                                    *)

Block(name) == <<Len(frames), name>>

Take(name) ==
  /\ live' = live \union {Block(name)}
  /\ faults' = faults

\* pc_alloc of the next block.
Allocate ==
  /\ At("native", "alloc")
  /\ \/ /\ Enter([F EXCEPT !.need = Tail(@), !.held = @ \union {Block(Head(F.need))},
                           !.pc = IF Len(F.need) = 1 THEN "run" ELSE "alloc"])
        /\ Take(Head(F.need))
     \/ Enter(Unwinding(F, "memory")) /\ Fault /\ live' = live
  /\ UNCHANGED <<calls, arena, serializationActive, deserializationActive,
                 stack, set, initVars, restOfSchema>>

\* pc_compress, pc_decompress or pc_ph_build succeeds: the module keeps the
\* output until its handle is released.
NativeOutput ==
  /\ Enter([F EXCEPT !.held = @ \union {Block("output")}, !.pc = "copy"])
  /\ Take("output")

\* It fails, for lack of memory or because of the data, and keeps nothing.
NativeFails ==
  /\ \/ Enter(Unwinding(F, "memory")) /\ Fault
     \/ Enter(Unwinding(F, "data")) /\ faults' = faults
  /\ live' = live

RunNative ==
  /\ At("native", "run")
  /\ NativeOutput \/ NativeFails
  /\ UNCHANGED <<calls, arena, serializationActive, deserializationActive,
                 stack, set, initVars, restOfSchema>>

\* The output is sliced out of the memory.
CopyOut ==
  /\ At("native", "copy")
  /\ \/ Continue([F EXCEPT !.pc = "return"], FALSE) /\ faults' = faults
     \/ Continue(Unwinding(F, "memory"), FALSE) /\ Fault
  /\ UNCHANGED <<calls, buffer, arena, serializationActive,
                 deserializationActive, stack, set, live, initVars, restOfSchema>>

-----------------------------------------------------------------------------
(* The ends of calls.                                                      *)

\* The finally of an open node.
UnwindNode ==
  /\ frames # <<>> /\ F.pc = "unwind" /\ F.open # <<>>
  /\ Continue([F EXCEPT !.open = Front(@)], FALSE)
  /\ IF InObject THEN LeaveCycle ELSE UNCHANGED <<stack, set>>
  /\ UNCHANGED <<calls, buffer, arena, serializationActive,
                 deserializationActive, live, initVars, schemaVars>>

\* Mutant: a call that fails releases nothing.
FinallyOnReturn ==
  /\ serializationActive' = (serializationActive /\ F.op # "serialize")
  /\ deserializationActive' = (deserializationActive /\ F.op # "deserialize")
  /\ live' = IF F.pc = "return" THEN live \ F.held ELSE live

\* The finally of the call: its flag is cleared, its blocks are released.
Finally ==
  /\ serializationActive' = (serializationActive /\ F.op # "serialize")
  /\ deserializationActive' = (deserializationActive /\ F.op # "deserialize")
  /\ live' = live \ F.held

Return ==
  /\ frames # <<>> /\ F.pc = "return"
  /\ Finally
  /\ frames' = Front(frames)
  /\ UNCHANGED <<calls, buffer, arena, stack, set, initVars, schemaVars>>

Throw ==
  /\ frames # <<>> /\ F.pc = "unwind" /\ F.open = <<>>
  /\ Finally
  /\ frames' \in Caught(Front(frames))
  /\ UNCHANGED <<calls, buffer, arena, stack, set, initVars, schemaVars>>

\* Calls of init, and the turns of the event loop they lead to: no other
\* call is in progress.
EventLoop ==
  /\ frames = <<>>
  /\ \/ CallInit /\ calls < MaxCalls /\ calls' = calls + 1
     \/ Turn /\ calls' = calls
  /\ UNCHANGED <<otherCallVars, schemaVars>>

CallStep ==
  \/ SchemaWork \/ SchemaEnds
  \/ CurrentArena \/ WriteLeaf \/ WriteInvalid \/ WriteBools \/ WriteBool
  \/ \E o \in Objects, deeper \in BOOLEAN : WriteObject(o, deeper)
  \/ Close \/ FinishArena
  \/ CompilePlan \/ DecodeTape \/ ReadField \/ FinishRead
  \/ Allocate \/ RunNative \/ CopyOut
  \/ UnwindNode \/ Return \/ Throw

UserStep ==
  \/ \E t \in Roots : CallSerialize(t) \/ CallDeserialize(t)
  \/ RefuseSerialize \/ RefuseDeserialize
  \/ \E need \in Needs : CallNative(need)

\* No further call is made.
Idle == frames = <<>> /\ UNCHANGED vars

Next == EventLoop \/ CallStep \/ UserStep \/ Idle

\* A call that runs ends (values are finite), a promise that is settled runs
\* its handlers, and loading and instantiating a module end one way or the
\* other.
Fairness ==
  /\ WF_vars(CallStep)
  /\ WF_vars(frames = <<>> /\ Turn /\ UNCHANGED <<callVars, schemaVars>>)

Spec == Init /\ [][Next]_vars /\ Fairness

-----------------------------------------------------------------------------
(* Properties.                                                             *)

\* What serialize and deserialize return is complete: no byte of it was
\* written to or read from a detached view, or overwritten by another call.
\* A call whose views were detached by user code throws in the end.
ReturnedDataComplete ==
  \A i \in DOMAIN frames : frames[i].pc = "return" => ~frames[i].lost

\* A call fails because of detached views only if user code inside it grew
\* the memory: growth by earlier calls, by the registration of schemas and by
\* the call's own allocations is made up for.
DetachedOnlyByUserCode ==
  \A i \in DOMAIN frames : frames[i].why = "detached" => frames[i].disturbed

\* The set that speeds up the cycle check holds just the objects being
\* written, none of them twice: a value is refused as cyclic only if it is.
CycleSetIsStack ==
  /\ Cardinality(Range(stack)) = Len(stack)
  /\ set.on => set.members = Range(stack)

\* Whatever failed, a call leaves nothing behind: no flag that refuses the
\* next call, no object on the cycle stack, no block in the WASM heap.
CleanBetweenCalls ==
  /\ live = UNION {frames[i].held : i \in DOMAIN frames}
  /\ serializationActive = \E i \in DOMAIN frames : frames[i].op = "serialize"
  /\ deserializationActive = \E i \in DOMAIN frames : frames[i].op = "deserialize"
  /\ frames = <<>> => stack = <<>> /\ ~set.on /\ schemaPhase = "idle"
=============================================================================
