--------------------------- MODULE SchemaRegistry ---------------------------
(***************************************************************************)
(* Schemas of the TypeScript runtime: compiledSchemaHandle and schemaNode  *)
(* (src/typescript/src/compiled-schema.ts) with the plans they register in *)
(* the WASM module (g_types of src/typescript/wasm/decode_tape.cc).        *)
(*                                                                         *)
(* A type is a message constructor, an array or map schema, or the         *)
(* container of a repeated field.  schemaNode caches the node of a type    *)
(* before it resolves the types of its fields, so that recursive types     *)
(* end; register reserves a plan before it registers the children and      *)
(* commits it after them, for the same reason.                             *)
(***************************************************************************)
EXTENDS Integers, Sequences, SequencesExt

CONSTANTS
  Types,     \* identities in the WeakMap schemaNodes
  Roots,     \* the types a program can ask for; the others are containers
             \* of repeated fields
  KindOf,    \* "message", "array" or "map", by type
  FieldsOf,  \* fields (of a container: its value), by type, see Field
  NoType,    \* NO_TYPE: a scalar, a string or bytes
  MaxPlans,  \* bound on g_types; a reservation beyond it fails
  MaxFaults  \* bound on the failures of resolvers and allocations

\* A field: the type it holds, and whether a resolver has to be asked for it
\* (the container of a repeated field is known without one).
Field(child, lazy) == [child |-> child, lazy |-> lazy]

ASSUME SchemaAssumption ==
  /\ NoType \notin Types /\ Roots \subseteq Types
  /\ KindOf \in [Types -> {"message", "array", "map"}]
  /\ FieldsOf \in
       [Types -> Seq([child : Types \union {NoType}, lazy : BOOLEAN])]
  /\ \A t \in Types : KindOf[t] # "message" => Len(FieldsOf[t]) = 1
  /\ MaxPlans \in Nat /\ MaxFaults \in Nat

VARIABLES
  node,         \* fields pushed to the node of a type, Unseen if not cached
  handle,       \* wasmHandle of the node, 0 if undefined
  plans,        \* g_types: kind, committed, and the handles of the children
  schemaPhase,  \* what compiledSchemaHandle is doing
  building,     \* types whose nodes schemaNode is building, innermost last
  registering,  \* nodes being registered, with the child handles so far
  touched,      \* nodes that got their handle in this call
  faults        \* failures so far

schemaVars ==
  <<node, handle, plans, schemaPhase, building, registering, touched, faults>>

Unseen == -1

SchemaTypeOK ==
  /\ node \in [Types -> {Unseen} \union Nat]
  /\ handle \in [Types -> 0 .. MaxPlans]
  /\ Len(plans) <= MaxPlans
  /\ \A h \in DOMAIN plans : plans[h] \in
       [kind : {"message", "array", "map"}, committed : BOOLEAN,
        fields : Seq(0 .. MaxPlans)]
  /\ schemaPhase \in {"idle", "build", "register", "done", "thrown"}
  /\ building \in Seq(Types)
  /\ registering \in Seq([type : Types, children : Seq(0 .. MaxPlans)])
  /\ touched \subseteq Types
  /\ faults \in 0 .. MaxFaults

InitSchema ==
  /\ node = [t \in Types |-> Unseen]
  /\ handle = [t \in Types |-> 0]
  /\ plans = <<>>
  /\ schemaPhase = "idle"
  /\ building = <<>>
  /\ registering = <<>>
  /\ touched = {}
  /\ faults = 0

Fault == faults < MaxFaults /\ faults' = faults + 1

-----------------------------------------------------------------------------
(* schemaNode.                                                             *)

\* compiledSchemaHandle(t): a cached node is registered at once.
StartSchema(t) ==
  /\ schemaPhase = "idle"
  /\ IF node[t] # Unseen
       THEN /\ schemaPhase' = "register"
            /\ registering' = <<[type |-> t, children |-> <<>>]>>
            /\ UNCHANGED <<node, building>>
       ELSE /\ schemaPhase' = "build"
            /\ node' = [node EXCEPT ![t] = 0]
            /\ building' = <<t>>
            /\ registering' = <<[type |-> t, children |-> <<>>]>>
  /\ UNCHANGED <<handle, plans, touched, faults>>

Pushed(t) == [node EXCEPT ![t] = @ + 1]

\* The next field of the innermost node: its type is cached (or it has none),
\* and the field is pushed; or the node of its type is built first.
BuildField ==
  /\ schemaPhase = "build"
  /\ LET t == Last(building)
         f == FieldsOf[t][node[t] + 1]
     IN  /\ node[t] < Len(FieldsOf[t])
         /\ IF f.child = NoType \/ (f.child # NoType /\ node[f.child] # Unseen)
              THEN node' = Pushed(t) /\ building' = building
              ELSE /\ node' = [node EXCEPT ![f.child] = 0]
                   /\ building' = Append(building, f.child)
  /\ UNCHANGED <<handle, plans, schemaPhase, registering, touched, faults>>

\* The resolver of the next field throws, or returns a type of another kind:
\* the error leaves every node on the way as it is.
ResolverThrows ==
  /\ schemaPhase = "build"
  /\ LET t == Last(building)
     IN  /\ node[t] < Len(FieldsOf[t])
         /\ FieldsOf[t][node[t] + 1].lazy
  /\ Fault
  /\ schemaPhase' = "thrown"
  /\ building' = <<>>
  /\ registering' = <<>>
  /\ UNCHANGED <<node, handle, plans, touched>>

\* A node is complete: its parent pushes the field.
BuildDone ==
  /\ schemaPhase = "build"
  /\ node[Last(building)] = Len(FieldsOf[Last(building)])
  /\ building' = Front(building)
  /\ IF building' = <<>>
       THEN node' = node /\ schemaPhase' = "register"
       ELSE node' = Pushed(Last(building')) /\ schemaPhase' = schemaPhase
  /\ UNCHANGED <<handle, plans, registering, touched, faults>>

-----------------------------------------------------------------------------
(* register.                                                               *)

Top == Last(registering)

\* Mutant: only the node that failed loses its handle.
RollbackLast ==
  /\ schemaPhase' = "thrown"
  /\ handle' = [t \in Types |-> IF t = Top.type THEN 0 ELSE handle[t]]
  /\ registering' = <<>>
  /\ touched' = {}

\* The catch clause of compiledSchemaHandle.
Rollback ==
  /\ schemaPhase' = "thrown"
  /\ handle' = [t \in Types |-> IF t \in touched THEN 0 ELSE handle[t]]
  /\ registering' = <<>>
  /\ touched' = {}

\* The node of the call has a handle from an earlier call.
AlreadyRegistered ==
  /\ schemaPhase = "register"
  /\ Top.type \notin touched /\ handle[Top.type] # 0
  /\ registering' = <<>>
  /\ schemaPhase' = "done"
  /\ UNCHANGED <<node, handle, plans, building, touched, faults>>

\* pc_decode_schema_reserve: a plan that is not committed.
Reserve ==
  /\ schemaPhase = "register" /\ handle[Top.type] = 0
  /\ Len(plans) < MaxPlans
  /\ plans' = Append(plans, [kind |-> KindOf[Top.type], committed |-> FALSE,
                             fields |-> <<>>])
  /\ handle' = [handle EXCEPT ![Top.type] = Len(plans')]
  /\ touched' = touched \union {Top.type}
  /\ UNCHANGED <<node, schemaPhase, building, registering, faults>>

ReserveFails ==
  /\ schemaPhase = "register" /\ handle[Top.type] = 0
  /\ IF Len(plans) = MaxPlans THEN faults' = faults ELSE Fault
  /\ Rollback
  /\ UNCHANGED <<node, plans, building>>

Reserved == schemaPhase = "register" /\ Top.type \in touched

\* The next child: no type, a handle it has already, or it is registered
\* first.
RegisterChild ==
  /\ Reserved
  /\ Len(Top.children) < node[Top.type]
  /\ LET child == FieldsOf[Top.type][Len(Top.children) + 1].child
         known == child = NoType \/ (child # NoType /\ handle[child] # 0)
     IN  registering' =
           IF known
             THEN Append(Front(registering), [Top EXCEPT !.children =
                    Append(@, IF child = NoType THEN 0 ELSE handle[child])])
             ELSE Append(registering, [type |-> child, children |-> <<>>])
  /\ UNCHANGED <<node, handle, plans, schemaPhase, building, touched, faults>>

\* CommitPlan: a complex field or value has a child, and the child's plan is
\* of the kind the field asks for.  A message lists the fields of its node; a
\* container without its value type is refused.
PlanValid ==
  /\ KindOf[Top.type] # "message" => Len(Top.children) = 1
  /\ \A i \in DOMAIN Top.children :
       LET child == FieldsOf[Top.type][i].child
       IN  child # NoType => plans[Top.children[i]].kind = KindOf[child]

AllChildren == Reserved /\ Len(Top.children) = node[Top.type]

\* pc_decode_plan_reserve and pc_decode_plan_commit.
Commit ==
  /\ AllChildren /\ PlanValid
  /\ plans' = [plans EXCEPT ![handle[Top.type]].committed = TRUE,
                            ![handle[Top.type]].fields = Top.children]
  /\ registering' = Front(registering)
  /\ IF registering' = <<>>
       THEN schemaPhase' = "done" /\ touched' = {}
       ELSE UNCHANGED <<schemaPhase, touched>>
  /\ UNCHANGED <<node, handle, building, faults>>

CommitRefused ==
  /\ AllChildren /\ ~PlanValid
  /\ Rollback
  /\ UNCHANGED <<node, plans, building, faults>>

CommitFails ==
  /\ AllChildren
  /\ Fault
  /\ Rollback
  /\ UNCHANGED <<node, plans, building>>

\* The caller goes on with the handle, or with the error.
SchemaReturns ==
  /\ schemaPhase \in {"done", "thrown"}
  /\ schemaPhase' = "idle"
  /\ UNCHANGED <<node, handle, plans, building, registering, touched, faults>>

BuildStep == BuildField \/ ResolverThrows \/ BuildDone \/ AlreadyRegistered

\* The steps that call into WASM, where memory may grow.
RegisterStep ==
  \/ Reserve \/ ReserveFails \/ RegisterChild
  \/ Commit \/ CommitRefused \/ CommitFails

SchemaNext ==
  \/ \E t \in Roots : StartSchema(t)
  \/ BuildStep \/ RegisterStep \/ SchemaReturns

SchemaSpec == InitSchema /\ [][SchemaNext]_schemaVars

-----------------------------------------------------------------------------
(* Properties.                                                             *)

\* Between calls a node with a handle has a committed plan of its kind, with
\* the fields of the node, and the handles in it are the handles of its
\* children: whatever failed before, no schema in use leads to a plan that
\* was reserved and given up.  The node itself has the fields of the schema
\* unless something failed (a resolver that throws leaves a short node in the
\* cache, which a later call registers as it is).
HandleClosure ==
  schemaPhase \in {"idle", "done", "thrown"} =>
    \A t \in Types : handle[t] # 0 =>
      LET plan == plans[handle[t]]
      IN  /\ plan.committed
          /\ plan.kind = KindOf[t]
          /\ Len(plan.fields) = node[t]
          /\ faults = 0 => node[t] = Len(FieldsOf[t])
          /\ \A i \in DOMAIN plan.fields :
               LET child == FieldsOf[t][i].child
               IN  plan.fields[i] = IF child = NoType THEN 0 ELSE handle[child]
=============================================================================
