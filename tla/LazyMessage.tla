---------------------------- MODULE LazyMessage ----------------------------
(***************************************************************************)
(* MessageEX (access-ex.h) and the class protoc-gen-pccx generates around  *)
(* it: a message is opened, some of its fields are read or changed, and it *)
(* is serialized again.  A field that was not accessed is copied from the  *)
(* bytes of the original message; one that was is serialized from the      *)
(* object made of it.  If no field was accessed the message is copied.     *)
(*                                                                         *)
(* The original message is one MessageFormat wrote; the new one goes       *)
(* through the SerializeMessage of MessageFormat.                          *)
(***************************************************************************)
EXTENDS MessageFormat

CONSTANT
  LazyFields  \* bound on the fields of a message that is opened

ASSUME LazyAssumption == LazyFields \in Nat

VARIABLES
  view, vsize,  \* the original message: its words and the place of the head
  objects,      \* the fields that are set and of an object type
  accessed,     \* _accessed
  field,        \* the objects of the accessed fields
  want          \* what the fields hold for the user (specification only)

lazyVars == <<view, vsize, objects, accessed, field, want>>
allVars == <<vars, lazyVars>>

\* The readers, over the original message.
V == INSTANCE MessageFormat WITH mem <- view, size <- vsize

LazyInit ==
  /\ Init
  /\ view = <<>> /\ vsize = 0 /\ objects = {}
  /\ accessed = {} /\ field = <<>> /\ want = <<>>

Opened == vsize # 0

-----------------------------------------------------------------------------
(* Reading and changing.                                                   *)

\* MessageEX(ptr, end).  The buffer it will be serialized to holds Before
\* words.
Open ==
  /\ phase = "done" /\ ~Opened /\ n <= LazyFields
  /\ view' = mem /\ vsize' = size
  /\ objects' = {f \in Fields : value[f].object}
  /\ field' = [f \in Fields |-> Nothing]
  /\ want' = value
  /\ mem' = [p \in DOMAIN mem |-> Blank] /\ size' = last
  /\ k' = n - 1 /\ cnt' = 0 /\ pos' = 0
  /\ phase' = "edit"
  /\ UNCHANGED <<n, last, value, parts, accessed>>

\* Place of a field's first word, and the number of its words.  An object
\* knows its length: Detect of arrays and maps is checked in Container.
FieldAt(f) ==
  LET g == V!GetField(f) IN
  IF f \in objects THEN V!GetObject(g.place) ELSE g.place
FieldLength(f) ==
  LET g == V!GetField(f) IN
  IF g.width # 0 /\ f \in objects THEN view[FieldAt(f)].v[3] ELSE g.width

\* DetectField: the words of a field in the original message, or none.
DetectField(f) == [w \in 1 .. FieldLength(f) |-> view[FieldAt(f) - w + 1]]

\* ExtractField.
ExtractField(f) == Value(f \in objects, DetectField(f))

\* Mutant: every access extracts the field again.
AccessAgain(f) ==
  /\ phase = "edit"
  /\ accessed' = accessed \union {f}
  /\ field' = [field EXCEPT ![f] = ExtractField(f)]
  /\ UNCHANGED <<vars, view, vsize, objects, want>>

\* GetField: the first access extracts the field.
Access(f) ==
  /\ phase = "edit"
  /\ IF f \in accessed THEN UNCHANGED <<accessed, field>>
     ELSE /\ accessed' = accessed \union {f}
          /\ field' = [field EXCEPT ![f] = ExtractField(f)]
  /\ UNCHANGED <<vars, view, vsize, objects, want>>

\* unique_ptr::reset through the reference to a field of message type.
Null == Value(TRUE, <<>>)

\* Another scalar, or objects shorter and longer than before; fields get other
\* contents than they were written with.
NewValues(f) ==
  {Nothing, Null, Value(FALSE, Data(f + MaxFields, 2, 3)),
   Value(TRUE, Data(f + MaxFields, 3, 0)), Value(TRUE, Data(f + MaxFields, 4, 3))}

\* The user changes a field through the reference GetField returned, within
\* its type.  Bound: one field is changed.
Assign(f) ==
  /\ phase = "edit" /\ f \in accessed
  /\ \A g \in accessed \ {f} : field[g] = ExtractField(g)
  /\ \E v \in NewValues(f) :
       /\ V!HasField(f) /\ v # Nothing => v.object = (f \in objects)
       /\ field' = [field EXCEPT ![f] = v]
       /\ want' = [want EXCEPT ![f] = v]
  /\ UNCHANGED <<vars, view, vsize, objects, accessed>>

-----------------------------------------------------------------------------
(* Serialize of the generated class.                                       *)

\* Detect of the generated class: up to the end of the first object behind
\* the body, looking from the last field to the first.
Detect ==
  LET behind == {f \in objects : FieldAt(f) - FieldLength(f) < V!DetectEnd}
  IN  IF behind = {} THEN V!DetectEnd
      ELSE FieldAt(Max(behind)) - FieldLength(Max(behind))

\* CleanHead: no field was accessed, the words of the message are copied.
CopyMessage ==
  /\ phase = "edit" /\ accessed = {}
  /\ size' = size + vsize - Detect
  /\ mem' = [p \in DOMAIN mem |->
               IF p \in size + 1 .. size' THEN view[p - size' + vsize] ELSE mem[p]]
  /\ phase' = "done"
  /\ UNCHANGED <<n, last, value, parts, k, cnt, pos, lazyVars>>

\* Otherwise field by field, from the last to the first.
SerializeFields ==
  /\ phase = "edit" /\ accessed # {}
  /\ value' = [f \in Fields |-> Nothing]
  /\ parts' = [f \in Fields |-> NoUnit]
  /\ phase' = "fields"
  /\ UNCHANGED <<n, last, mem, size, k, cnt, pos, lazyVars>>

AtField == Opened /\ phase = "fields" /\ k >= 0

\* Copy, of a field that was not accessed: small ones go to the Unit.
CopyField ==
  /\ AtField /\ k \notin accessed
  /\ LET d == DetectField(k) IN
     IF Folds(Cardinality(DOMAIN d))
       THEN PutInline(k \in objects, d) /\ UNCHANGED <<mem, size>>
       ELSE PutObject(d)
  /\ k' = k - 1
  /\ UNCHANGED <<n, last, cnt, pos, phase, lazyVars>>

\* MarkNil: zero, an empty string, array or map.  An empty message is written
\* and removed.
NilField ==
  /\ AtField /\ k \in accessed /\ field[k] = Nothing
  /\ FieldMissing \/ FieldEmptyMessage
  /\ UNCHANGED lazyVars

\* Serialize of a null unique_ptr fails, and with it the message.
NullField ==
  /\ AtField /\ k \in accessed /\ field[k] = Null
  /\ phase' = "failed"
  /\ UNCHANGED <<n, last, mem, size, value, parts, k, cnt, pos, lazyVars>>

\* An accessed field, serialized from its object.
AccessedField ==
  /\ AtField /\ k \in accessed /\ field[k] \notin {Nothing, Null}
  /\ IF field[k].object THEN PutObject(field[k].words)
     ELSE PutInline(FALSE, field[k].words) /\ UNCHANGED <<mem, size>>
  /\ k' = k - 1
  /\ UNCHANGED <<n, last, cnt, pos, phase, lazyVars>>

\* The original message is written.
Write == ~Opened /\ (FieldMissing \/ FieldInline \/ FieldObject \/ FieldEmptyMessage)

LazyNext ==
  \/ /\ Write \/ WriteEmpty \/ StartMessage \/ MarkGroup \/ FinishMessage \/ Finished
     /\ UNCHANGED lazyVars
  \/ Open
  \/ \E f \in Fields : Access(f) \/ Assign(f)
  \/ CopyMessage \/ SerializeFields
  \/ CopyField \/ NilField \/ NullField \/ AccessedField

LazySpec == LazyInit /\ [][LazyNext]_allVars

-----------------------------------------------------------------------------
(* Property.                                                               *)

\* A message that was opened, partly read and changed, and serialized again
\* reads as the user left it: changed fields have the new words, the others,
\* accessed or copied from the original bytes, the words they had.
LazyReadBack ==
  Opened /\ phase = "done" =>
    \A id \in Fields :
      LET g == GetField(id)
          at == IF want[id].object THEN GetObject(g.place) ELSE g.place
      IN  IF want[id] = Nothing THEN ~HasField(id)
          ELSE /\ HasField(id)
               /\ \A w \in DOMAIN want[id].words :
                      at - w + 1 > last /\ Holds(at - w + 1, want[id].words[w])
=============================================================================
