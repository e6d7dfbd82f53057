------------------------- MODULE WasmSession_proofs -------------------------
(***************************************************************************)
(* The TypeScript runtime, for every set of schemas, every value and every *)
(* bound: initialization, registration of schemas and nested calls keep    *)
(* what the runs check on one small instance.                              *)
(***************************************************************************)
EXTENDS WasmSession, FiniteSetTheorems, SequenceTheorems, TLAPS

-----------------------------------------------------------------------------
(* Sequences used as stacks.                                               *)

\* Popping a stack (building, registering, stack and frames are arrays whose
\* end is the top).
LEMMA FrontLast ==
  ASSUME NEW S, NEW s \in Seq(S), s # <<>>
  PROVE  /\ Len(s) \in Nat \ {0} /\ DOMAIN s = 1 .. Len(s)
         /\ Front(s) \in Seq(S) /\ Len(Front(s)) = Len(s) - 1
         /\ DOMAIN Front(s) = 1 .. Len(s) - 1
         /\ \A k \in 1 .. Len(s) - 1 : Front(s)[k] = s[k]
         /\ Last(s) = s[Len(s)] /\ Last(s) \in S
         /\ Front(s) = <<>> <=> Len(s) = 1
<1>1. Len(s) \in Nat \ {0} /\ DOMAIN s = 1 .. Len(s)
  OBVIOUS
<1>2. /\ Front(s) \in Seq(S) /\ Len(Front(s)) = Len(s) - 1
      /\ \A k \in 1 .. Len(s) - 1 : Front(s)[k] = s[k]
  BY <1>1 DEF Front
<1>3. Last(s) = s[Len(s)] /\ Last(s) \in S
  BY <1>1 DEF Last
<1>4. DOMAIN Front(s) = 1 .. Len(s) - 1
  BY <1>1, <1>2
<1>5. Front(s) = <<>> <=> Len(s) = 1
  BY <1>1, <1>2
<1> QED BY <1>1, <1>2, <1>3, <1>4, <1>5

\* Pushing on a stack.
LEMMA AppendLast ==
  ASSUME NEW S, NEW s \in Seq(S), NEW x \in S
  PROVE  /\ Append(s, x) \in Seq(S) /\ Len(Append(s, x)) = Len(s) + 1
         /\ DOMAIN Append(s, x) = 1 .. Len(s) + 1
         /\ \A k \in 1 .. Len(s) : Append(s, x)[k] = s[k]
         /\ Append(s, x)[Len(s) + 1] = x
         /\ Last(Append(s, x)) = x
         /\ Append(s, x) # <<>>
         /\ Len(s) \in Nat /\ DOMAIN s = 1 .. Len(s)
  BY DEF Last

-----------------------------------------------------------------------------
(* Initialization.                                                         *)

\* An attempt that is under way or has succeeded.
Busy == {"load", "instantiate", "rejecting", "fulfilled"}

\* The variable initialization names the one attempt that is under way or has
\* succeeded; the others are unused or over, and reported ones are over.
InitInv ==
  /\ InitTypeOK
  /\ \A a \in reported : attempt[a] = "rejected"
  /\ initialization # 0 => attempt[initialization] \in Busy
  /\ \A a \in Attempts : attempt[a] \in Busy => initialization = a
  /\ runtime # 0 => attempt[runtime] = "fulfilled"

\* Calls of init and the handlers of its promises keep InitInv, and none
\* replaces the runtime.
LEMMA InitStep ==
  ASSUME InitInv, CallInit \/ Turn
  PROVE  InitInv' /\ (runtime # 0 => runtime' = runtime)
<1> USE AttemptsAssumption DEF InitInv, InitTypeOK, Busy, AttemptStates, Attempts
<1>1. CASE JoinInit
  BY <1>1 DEF JoinInit
<1>2. CASE StartInit
  <2>1. PICK a \in Unused :
          /\ initialization' = a
          /\ attempt' = [attempt EXCEPT ![a] = "load"]
          /\ waiting' = [waiting EXCEPT ![a] = 1]
    BY <1>2 DEF StartInit
  <2>2. initialization = 0 /\ UNCHANGED <<runtime, reported>>
        /\ a \in Attempts /\ attempt[a] = "none"
    BY <1>2 DEF StartInit, Unused
  <2> QED BY <2>1, <2>2
<1>3. ASSUME NEW a \in Attempts, LoadModule(a)
      PROVE  InitInv' /\ runtime' = runtime
  BY <1>3 DEF LoadModule
<1>4. ASSUME NEW a \in Attempts, Instantiate(a)
      PROVE  InitInv' /\ (runtime # 0 => runtime' = runtime)
  BY <1>4 DEF Instantiate
<1>5. ASSUME NEW a \in Attempts, CatchHandler(a)
      PROVE  InitInv' /\ runtime' = runtime
  BY <1>5 DEF CatchHandler
<1>6. ASSUME NEW a \in Attempts, Settle(a)
      PROVE  InitInv' /\ runtime' = runtime
  BY <1>6 DEF Settle
<1> QED BY <1>1, <1>2, <1>3, <1>4, <1>5, <1>6 DEF CallInit, Turn

-----------------------------------------------------------------------------
(* Registration of schemas.                                                *)

Kind == {"message", "array", "map"}
Plan == [kind : Kind, committed : BOOLEAN, fields : Seq(0 .. MaxPlans)]
Entry == [type : Types, children : Seq(0 .. MaxPlans)]

Child(t, k) == FieldsOf[t][k].child
ChildHandle(t, k) == IF Child(t, k) = NoType THEN 0 ELSE handle[Child(t, k)]

SchemaTypes ==
  /\ node \in [Types -> {Unseen} \union Nat]
  /\ handle \in [Types -> 0 .. MaxPlans]
  /\ plans \in Seq(Plan) /\ Len(plans) <= MaxPlans
  /\ schemaPhase \in {"idle", "build", "register", "done", "thrown"}
  /\ building \in Seq(Types)
  /\ registering \in Seq(Entry)
  /\ touched \in SUBSET Types
  /\ faults \in 0 .. MaxFaults

\* What each phase of compiledSchemaHandle finds in its stacks.
PhaseInv ==
  /\ schemaPhase = "build" =>
       building # <<>> /\ Len(registering) = 1 /\ registering[1].children = <<>>
  /\ schemaPhase # "build" => building = <<>>
  /\ schemaPhase = "register" => registering # <<>>
  /\ schemaPhase \in {"idle", "done", "thrown"} => registering = <<>>
  /\ schemaPhase # "register" => touched = {}

\* No type is built twice at a time, a node that waits for a child lacks a
\* field, and only a failure leaves a node short.
NodeInv ==
  /\ \A t \in Types : node[t] <= Len(FieldsOf[t])
  /\ \A k \in DOMAIN building :
       /\ node[building[k]] # Unseen /\ handle[building[k]] = 0
       /\ k < Len(building) => node[building[k]] < Len(FieldsOf[building[k]])
       /\ \A l \in DOMAIN building : building[k] = building[l] => k = l
  /\ faults = 0 =>
       \A t \in Types : \/ node[t] \in {Unseen, Len(FieldsOf[t])}
                        \/ \E k \in DOMAIN building : building[k] = t

\* A handle names a plan of the type's kind, and no other type's plan.
HandleInv ==
  /\ \A t \in Types : handle[t] # 0 =>
       handle[t] \in DOMAIN plans /\ plans[handle[t]].kind = KindOf[t]
  /\ \A t, u \in Types : handle[t] = handle[u] /\ handle[t] # 0 => t = u

\* The nodes being registered: all but the innermost have their plan from
\* this call, and the handles collected are those of the children.
StackInv ==
  /\ \A k \in DOMAIN registering : k < Len(registering) =>
       registering[k].type \in touched
  /\ \A k, l \in DOMAIN registering :
       registering[k].type = registering[l].type => k = l
  /\ \A t \in touched : handle[t] # 0
  /\ registering # <<>> /\ registering[Len(registering)].type \notin touched =>
       IF Len(registering) = 1 THEN touched = {}
       ELSE handle[registering[Len(registering)].type] = 0
  /\ \A k \in DOMAIN registering : \A c \in DOMAIN registering[k].children :
       /\ c <= Len(FieldsOf[registering[k].type])
       /\ registering[k].children[c] = ChildHandle(registering[k].type, c)
       /\ Child(registering[k].type, c) # NoType => registering[k].children[c] # 0

\* The plan of t is committed, with the handles of the children.
Registered(t) ==
  /\ plans[handle[t]].committed
  /\ Len(plans[handle[t]].fields) = node[t]
  /\ \A k \in 1 .. node[t] :
       /\ plans[handle[t]].fields[k] = ChildHandle(t, k)
       /\ Child(t, k) # NoType => ChildHandle(t, k) # 0

InProgress(t) ==
  t \in touched /\ \E k \in DOMAIN registering : registering[k].type = t

\* Every type with a handle is registered or being registered, and a plan of
\* an earlier call leads to no plan of this call, which may be given up.
PlanInv ==
  \A t \in Types : handle[t] # 0 =>
    /\ InProgress(t) \/ Registered(t)
    /\ t \notin touched => \A k \in 1 .. node[t] : Child(t, k) \notin touched

RegInv == SchemaTypes /\ PhaseInv /\ NodeInv /\ HandleInv /\ StackInv /\ PlanInv

\* The fields of a type are typed.
LEMMA ChildType ==
  ASSUME NEW t \in Types
  PROVE  /\ Len(FieldsOf[t]) \in Nat
         /\ \A k \in 1 .. Len(FieldsOf[t]) : Child(t, k) \in Types \union {NoType}
         /\ KindOf[t] \in Kind /\ NoType \notin Types
<1> DEFINE R == [child : Types \union {NoType}, lazy : BOOLEAN]
<1>1. FieldsOf[t] \in Seq(R)
  BY SchemaAssumption
<1> HIDE DEF R
<1>2. Len(FieldsOf[t]) \in Nat /\ \A k \in 1 .. Len(FieldsOf[t]) : FieldsOf[t][k] \in R
  BY <1>1
<1> QED BY <1>2, SchemaAssumption DEF Child, Kind, R

\* A node has no more fields than its type.
LEMMA NodeBound ==
  ASSUME SchemaTypes, NodeInv, NEW t \in Types
  PROVE  node[t] \in Int /\ 1 .. node[t] \subseteq 1 .. Len(FieldsOf[t])
<1>1. node[t] \in {Unseen} \union Nat /\ node[t] <= Len(FieldsOf[t])
      /\ Len(FieldsOf[t]) \in Nat
  BY ChildType DEF SchemaTypes, NodeInv
<1> QED BY <1>1 DEF Unseen

\* A type that was never seen, or is being built, has no plan.
LEMMA UnseenHasNoHandle ==
  ASSUME RegInv, touched = {}, NEW t \in Types, node[t] = Unseen
  PROVE  handle[t] = 0
<1> SUFFICES ASSUME handle[t] # 0 PROVE FALSE
  OBVIOUS
<1>1. Registered(t)
  BY DEF RegInv, PlanInv, InProgress
<1>2. handle[t] \in DOMAIN plans
  BY DEF RegInv, HandleInv
<1>3. plans[handle[t]].fields \in Seq(0 .. MaxPlans)
  <2>1. plans[handle[t]] \in Plan
    BY <1>2 DEF RegInv, SchemaTypes
  <2> QED BY <2>1 DEF Plan
<1>4. Len(plans[handle[t]].fields) \in Nat
  BY <1>3
<1> QED BY <1>1, <1>4 DEF Registered, Unseen

\* What StackInv says is about registering, touched and handle only.
LEMMA StackStays == StackInv /\ UNCHANGED <<registering, touched, handle>> => StackInv'
  BY DEF StackInv, ChildHandle

\* Only the node of types without a plan changes: the plans stay as they are.
LEMMA PlansStay ==
  ASSUME RegInv, UNCHANGED <<handle, plans, touched>>, touched = {},
         \A t \in Types : handle[t] # 0 => node'[t] = node[t]
  PROVE  HandleInv' /\ PlanInv' /\ \A t \in touched' : handle'[t] # 0
<1>1. HandleInv'
  BY DEF RegInv, HandleInv
<1>2. ASSUME NEW t \in Types, handle'[t] # 0
      PROVE  /\ Registered(t)'
             /\ t \notin touched' =>
                  \A k \in 1 .. node'[t] : Child(t, k) \notin touched'
  <2>1. Registered(t) /\ node'[t] = node[t]
    BY <1>2 DEF RegInv, PlanInv, InProgress
  <2> QED BY <2>1 DEF Registered, ChildHandle
<1> QED BY <1>1, <1>2 DEF PlanInv

\* compiledSchemaHandle starts.
LEMMA StartSchemaInv ==
  ASSUME RegInv, NEW t \in Types, StartSchema(t)
  PROVE  RegInv'
<1>1. /\ schemaPhase = "idle" /\ touched = {} /\ building = <<>> /\ registering = <<>>
      /\ UNCHANGED <<handle, plans, touched, faults>>
      /\ registering' = <<[type |-> t, children |-> <<>>]>>
      /\ schemaPhase' \in {"build", "register"}
  BY DEF StartSchema, RegInv, PhaseInv
<1>2. [type |-> t, children |-> <<>>] \in Entry
  BY DEF Entry
<1>3. /\ registering' \in Seq(Entry) /\ Len(registering') = 1 /\ DOMAIN registering' = {1}
      /\ registering'[1].type = t /\ registering'[1].children = <<>>
      /\ registering' # <<>>
  BY <1>1, <1>2
<1>4. \A u \in Types : handle[u] # 0 => node'[u] = node[u]
  BY UnseenHasNoHandle, <1>1 DEF StartSchema, RegInv, SchemaTypes
<1>5. HandleInv' /\ PlanInv'
  BY <1>1, <1>4, PlansStay
<1>6. StackInv'
  BY <1>1, <1>3 DEF StackInv
<1>7. CASE node[t] # Unseen
  <2>1. UNCHANGED <<node, building>> /\ schemaPhase' = "register"
    BY <1>7 DEF StartSchema
  <2> QED BY <1>1, <1>3, <1>5, <1>6, <2>1
          DEF RegInv, SchemaTypes, PhaseInv, NodeInv
<1>8. CASE node[t] = Unseen
  <2>1. /\ node' = [node EXCEPT ![t] = 0] /\ schemaPhase' = "build"
        /\ building' = <<t>> /\ handle[t] = 0
    BY <1>1, <1>8, UnseenHasNoHandle DEF StartSchema
  <2>2. building' \in Seq(Types) /\ Len(building') = 1 /\ DOMAIN building' = {1}
        /\ building'[1] = t /\ building' # <<>>
    BY <2>1
  <2>3. NodeInv'
    BY <1>1, <2>1, <2>2, ChildType DEF RegInv, SchemaTypes, NodeInv, Unseen
  <2>4. SchemaTypes' /\ PhaseInv'
    BY <1>1, <1>3, <2>1, <2>2 DEF RegInv, SchemaTypes, PhaseInv
  <2> QED BY <1>5, <1>6, <2>3, <2>4 DEF RegInv
<1> QED BY <1>7, <1>8

\* schemaNode pushes a field, or goes on to the node of the field's type.
LEMMA BuildFieldInv ==
  ASSUME RegInv, BuildField
  PROVE  RegInv'
<1> DEFINE t == building[Len(building)]
           f == FieldsOf[t][node[t] + 1]
<1>1. /\ schemaPhase = "build" /\ building # <<>> /\ touched = {}
      /\ UNCHANGED <<handle, plans, schemaPhase, registering, touched, faults>>
  BY DEF BuildField, RegInv, PhaseInv
<1>2. /\ Len(building) \in Nat \ {0} /\ DOMAIN building = 1 .. Len(building)
      /\ building \in Seq(Types) /\ t \in Types /\ Last(building) = t
  BY <1>1, FrontLast DEF RegInv, SchemaTypes
<1>3. /\ node[t] < Len(FieldsOf[t])
      /\ IF f.child = NoType \/ (f.child # NoType /\ node[f.child] # Unseen)
           THEN node' = Pushed(t) /\ building' = building
           ELSE /\ node' = [node EXCEPT ![f.child] = 0]
                /\ building' = Append(building, f.child)
  BY <1>2 DEF BuildField
<1>4. node[t] \in Nat /\ node[t] + 1 \in 1 .. Len(FieldsOf[t]) /\ Len(FieldsOf[t]) \in Nat
  <2>1. node[t] \in {Unseen} \union Nat /\ Len(FieldsOf[t]) \in Nat
    BY <1>2, ChildType DEF RegInv, SchemaTypes
  <2>2. node[t] # Unseen
    BY <1>2 DEF RegInv, NodeInv
  <2> QED BY <1>3, <2>1, <2>2
<1>5. f.child \in Types \union {NoType} /\ NoType \notin Types
  BY <1>2, <1>4, ChildType DEF Child
<1>6. handle[t] = 0
  BY <1>2 DEF RegInv, NodeInv
<1> HIDE DEF t, f
<1>7. CASE f.child = NoType \/ node[f.child] # Unseen
  <2>1. node' = [node EXCEPT ![t] = @ + 1] /\ building' = building
    BY <1>3, <1>7 DEF Pushed
  <2>2. HandleInv' /\ PlanInv'
    <3>1. \A u \in Types : handle[u] # 0 => node'[u] = node[u]
      BY <1>6, <2>1 DEF RegInv, SchemaTypes
    <3> QED BY <1>1, <3>1, PlansStay
  <2>3. node' \in [Types -> {Unseen} \union Nat]
    BY <1>2, <1>4, <2>1 DEF RegInv, SchemaTypes
  <2>4. NodeInv'
    <3>1. \A u \in Types : node'[u] <= Len(FieldsOf[u])
      BY <1>2, <1>4, <2>1 DEF RegInv, SchemaTypes, NodeInv
    <3>2. ASSUME NEW k \in DOMAIN building
          PROVE  /\ node'[building[k]] # Unseen /\ handle[building[k]] = 0
                 /\ k < Len(building) =>
                      node'[building[k]] < Len(FieldsOf[building[k]])
                 /\ \A l \in DOMAIN building : building[k] = building[l] => k = l
      <4>1. building[k] \in Types /\ (k < Len(building) => building[k] # t)
        BY <1>2 DEF RegInv, NodeInv, t
      <4> QED BY <1>2, <1>4, <2>1, <4>1 DEF RegInv, SchemaTypes, NodeInv, Unseen
    <3>3. ASSUME faults = 0, NEW u \in Types
          PROVE  \/ node'[u] \in {Unseen, Len(FieldsOf[u])}
                 \/ \E k \in DOMAIN building : building[k] = u
      <4>1. CASE u = t
        BY <1>2, <4>1 DEF t
      <4>2. CASE u # t
        BY <2>1, <3>3, <4>2 DEF RegInv, SchemaTypes, NodeInv
      <4> QED BY <4>1, <4>2
    <3> QED BY <1>1, <2>1, <3>1, <3>2, <3>3 DEF NodeInv
  <2>5. SchemaTypes' /\ PhaseInv' /\ StackInv'
    BY <1>1, <2>1, <2>3 DEF RegInv, SchemaTypes, PhaseInv, StackInv, ChildHandle
  <2> QED BY <2>2, <2>4, <2>5 DEF RegInv
<1>8. CASE f.child \in Types /\ node[f.child] = Unseen
  <2> DEFINE c == f.child
  <2>1. /\ node' = [node EXCEPT ![c] = 0] /\ building' = Append(building, c)
        /\ handle[c] = 0 /\ c \in Types /\ node[c] = Unseen
    BY <1>1, <1>3, <1>5, <1>8, UnseenHasNoHandle
  <2> HIDE DEF c
  <2>2. /\ building' \in Seq(Types) /\ Len(building') = Len(building) + 1
        /\ DOMAIN building' = 1 .. Len(building) + 1
        /\ \A k \in 1 .. Len(building) : building'[k] = building[k]
        /\ building'[Len(building) + 1] = c /\ building' # <<>>
    BY <1>2, <2>1, AppendLast
  <2>3. HandleInv' /\ PlanInv'
    <3>1. \A u \in Types : handle[u] # 0 => node'[u] = node[u]
      BY <2>1 DEF RegInv, SchemaTypes
    <3> QED BY <1>1, <3>1, PlansStay
  <2>4. node' \in [Types -> {Unseen} \union Nat]
    BY <2>1 DEF RegInv, SchemaTypes
  <2>5. NodeInv'
    <3>1. \A u \in Types : node'[u] <= Len(FieldsOf[u])
      BY <2>1, ChildType DEF RegInv, SchemaTypes, NodeInv
    <3>2. ASSUME NEW k \in 1 .. Len(building)
          PROVE  /\ building[k] \in Types /\ building[k] # c
                 /\ node'[building[k]] = node[building[k]]
                 /\ node[building[k]] < Len(FieldsOf[building[k]])
      <4>1. building[k] \in Types /\ node[building[k]] # Unseen
        BY <1>2 DEF RegInv, NodeInv
      <4>2. node[building[k]] < Len(FieldsOf[building[k]])
        <5>1. CASE k = Len(building)
          BY <1>3, <5>1 DEF t
        <5>2. CASE k # Len(building)
          <6>1. k \in DOMAIN building
            BY <1>2
          <6>2. Len(building) \in Nat
            BY <1>2
          <6>3. k < Len(building)
            BY <5>2, <6>2
          <6> QED BY <6>1, <6>3 DEF RegInv, NodeInv
        <5> QED BY <5>1, <5>2
      <4> QED BY <2>1, <4>1, <4>2 DEF RegInv, SchemaTypes
    <3>3. ASSUME NEW k \in DOMAIN building'
          PROVE  /\ node'[building'[k]] # Unseen /\ handle[building'[k]] = 0
                 /\ k < Len(building') =>
                      node'[building'[k]] < Len(FieldsOf[building'[k]])
                 /\ \A l \in DOMAIN building' : building'[k] = building'[l] => k = l
      <4>1. CASE k = Len(building) + 1
        <5>1. building'[k] = c /\ node'[c] = 0
          BY <2>1, <2>2, <4>1 DEF RegInv, SchemaTypes
        <5>2. \A l \in 1 .. Len(building) : building'[l] # c
          BY <2>2, <3>2
        <5> QED BY <1>2, <2>1, <2>2, <4>1, <5>1, <5>2 DEF Unseen
      <4>2. CASE k \in 1 .. Len(building)
        <5>1. building'[k] = building[k] /\ building[k] # c
          BY <2>2, <3>2, <4>2
        <5>2. /\ node[building[k]] # Unseen /\ handle[building[k]] = 0
              /\ \A l \in 1 .. Len(building) : building[k] = building[l] => k = l
          BY <1>2, <4>2 DEF RegInv, NodeInv
        <5> QED BY <1>2, <2>2, <3>2, <4>2, <5>1, <5>2, SMTT(20)
      <4> QED BY <1>2, <2>2, <4>1, <4>2
    <3>4. ASSUME faults = 0, NEW u \in Types
          PROVE  \/ node'[u] \in {Unseen, Len(FieldsOf[u])}
                 \/ \E k \in DOMAIN building' : building'[k] = u
      <4>1. CASE u = c
        BY <1>2, <2>2, <4>1
      <4>2. CASE u # c
        <5>1. node'[u] = node[u]
          BY <2>1, <4>2 DEF RegInv, SchemaTypes
        <5>2. \/ node[u] \in {Unseen, Len(FieldsOf[u])}
              \/ \E k \in DOMAIN building : building[k] = u
          BY <3>4 DEF RegInv, NodeInv
        <5> QED BY <1>2, <2>2, <5>1, <5>2
      <4> QED BY <4>1, <4>2
    <3> QED BY <1>1, <3>1, <3>3, <3>4 DEF NodeInv
  <2>6. SchemaTypes' /\ PhaseInv' /\ StackInv'
    BY <1>1, <2>2, <2>4 DEF RegInv, SchemaTypes, PhaseInv, StackInv, ChildHandle
  <2> QED BY <2>3, <2>5, <2>6 DEF RegInv
<1> QED BY <1>5, <1>7, <1>8

\* A resolver throws: the nodes stay as they are, and a failure is on record.
LEMMA ResolverThrowsInv ==
  ASSUME RegInv, ResolverThrows
  PROVE  RegInv'
<1>1. /\ schemaPhase = "build" /\ touched = {} /\ faults' = faults + 1
      /\ faults < MaxFaults /\ schemaPhase' = "thrown" /\ building' = <<>>
      /\ registering' = <<>> /\ UNCHANGED <<node, handle, plans, touched>>
  BY DEF ResolverThrows, Fault, RegInv, PhaseInv
<1>2. HandleInv' /\ PlanInv'
  BY <1>1, PlansStay
<1>3. SchemaTypes' /\ faults' # 0
  BY <1>1, SchemaAssumption DEF RegInv, SchemaTypes
<1> QED BY <1>1, <1>2, <1>3 DEF RegInv, PhaseInv, NodeInv, StackInv

\* A node is complete, and the field of its parent is pushed.
LEMMA BuildDoneInv ==
  ASSUME RegInv, BuildDone
  PROVE  RegInv'
<1> DEFINE t == building[Len(building)]
<1>1. /\ schemaPhase = "build" /\ building # <<>> /\ touched = {}
      /\ UNCHANGED <<handle, plans, registering, touched, faults>>
      /\ Len(registering) = 1 /\ building' = Front(building)
  BY DEF BuildDone, RegInv, PhaseInv
<1>2. /\ Len(building) \in Nat \ {0} /\ DOMAIN building = 1 .. Len(building)
      /\ building \in Seq(Types) /\ t \in Types /\ Last(building) = t
      /\ building' \in Seq(Types) /\ Len(building') = Len(building) - 1
      /\ DOMAIN building' = 1 .. Len(building) - 1
      /\ \A k \in 1 .. Len(building) - 1 : building'[k] = building[k]
      /\ building' = <<>> <=> Len(building) = 1
  BY <1>1, FrontLast DEF RegInv, SchemaTypes
<1>3. node[t] = Len(FieldsOf[t])
  BY <1>2 DEF BuildDone
<1> HIDE DEF t
<1>4. ASSUME NEW k \in 1 .. Len(building) - 1
      PROVE  /\ building[k] \in Types /\ building[k] # t
             /\ node[building[k]] \in Nat /\ handle[building[k]] = 0
             /\ node[building[k]] < Len(FieldsOf[building[k]])
             /\ \A l \in 1 .. Len(building) : building[k] = building[l] => k = l
  <2>1. k \in DOMAIN building /\ k < Len(building) /\ Len(building) \in DOMAIN building
    BY <1>2
  <2>2. /\ building[k] \in Types /\ node[building[k]] # Unseen
        /\ node[building[k]] < Len(FieldsOf[building[k]])
        /\ handle[building[k]] = 0
        /\ \A l \in DOMAIN building : building[k] = building[l] => k = l
    BY <1>2, <2>1 DEF RegInv, NodeInv
  <2>3. node[building[k]] \in {Unseen} \union Nat
    BY <2>2 DEF RegInv, SchemaTypes
  <2> QED BY <1>2, <2>1, <2>2, <2>3, SMTT(20) DEF t
<1>5. ASSUME faults = 0, NEW u \in Types
      PROVE  \/ node[u] \in {Unseen, Len(FieldsOf[u])}
             \/ \E k \in DOMAIN building' : building'[k] = u
  <2>1. \/ node[u] \in {Unseen, Len(FieldsOf[u])}
        \/ \E k \in DOMAIN building : building[k] = u
    BY <1>5 DEF RegInv, NodeInv
  <2> QED BY <1>2, <1>3, <2>1 DEF t
<1>6. CASE building' = <<>>
  <2>1. node' = node /\ schemaPhase' = "register"
    BY <1>6 DEF BuildDone
  <2>2. HandleInv' /\ PlanInv'
    BY <1>1, <2>1, PlansStay
  <2>3. NodeInv'
    BY <1>1, <1>2, <1>5, <1>6, <2>1 DEF RegInv, NodeInv
  <2>4. SchemaTypes' /\ PhaseInv' /\ StackInv'
    <3>1. registering # <<>>
      BY <1>1
    <3> QED BY <1>1, <1>2, <1>6, <2>1, <3>1
            DEF RegInv, SchemaTypes, PhaseInv, StackInv, ChildHandle
  <2> QED BY <2>2, <2>3, <2>4 DEF RegInv
<1>7. CASE building' # <<>>
  <2> DEFINE p == building[Len(building) - 1]
  <2>1. /\ Len(building) - 1 \in 1 .. Len(building) - 1
        /\ Last(building') = p
    BY <1>2, <1>7 DEF Last
  <2>2. /\ node' = [node EXCEPT ![p] = @ + 1] /\ schemaPhase' = "build"
    BY <1>1, <1>7, <2>1 DEF BuildDone, Pushed
  <2>3. /\ p \in Types /\ handle[p] = 0 /\ node[p] \in Nat
        /\ node[p] < Len(FieldsOf[p]) /\ Len(FieldsOf[p]) \in Nat
    BY <1>4, <2>1, ChildType
  <2>4. \A k \in 1 .. Len(building) - 1 : building[k] = p => k = Len(building) - 1
    <3>1. Len(building) - 1 \in 1 .. Len(building)
      BY <1>2, <2>1
    <3> QED BY <1>4, <3>1
  <2> HIDE DEF p
  <2>5. HandleInv' /\ PlanInv'
    <3>1. \A u \in Types : handle[u] # 0 => node'[u] = node[u]
      BY <2>2, <2>3 DEF RegInv, SchemaTypes
    <3> QED BY <1>1, <3>1, PlansStay
  <2>6. node' \in [Types -> {Unseen} \union Nat]
    BY <2>2, <2>3 DEF RegInv, SchemaTypes
  <2>7. NodeInv'
    <3>1. \A u \in Types : node'[u] <= Len(FieldsOf[u])
      BY <2>2, <2>3 DEF RegInv, SchemaTypes, NodeInv
    <3>2. ASSUME NEW k \in 1 .. Len(building) - 1
          PROVE  /\ node'[building[k]] # Unseen
                 /\ k < Len(building) - 1 =>
                      node'[building[k]] < Len(FieldsOf[building[k]])
      <4>1. CASE building[k] = p
        <5>1. k = Len(building) - 1
          BY <2>4, <4>1
        <5>2. node'[p] = node[p] + 1
          BY <2>2, <2>3 DEF RegInv, SchemaTypes
        <5> QED BY <1>2, <2>3, <4>1, <5>1, <5>2 DEF Unseen
      <4>2. CASE building[k] # p
        BY <1>4, <2>2, <4>2 DEF RegInv, SchemaTypes, Unseen
      <4> QED BY <4>1, <4>2
    <3>3. ASSUME faults = 0, NEW u \in Types
          PROVE  \/ node'[u] \in {Unseen, Len(FieldsOf[u])}
                 \/ \E k \in DOMAIN building' : building'[k] = u
      <4>1. CASE u = p
        <5>1. building'[Len(building) - 1] = p
          BY <1>2, <2>1 DEF p
        <5> QED BY <1>2, <2>1, <4>1, <5>1
      <4>2. CASE u # p
        BY <1>5, <2>2, <3>3, <4>2 DEF RegInv, SchemaTypes
      <4> QED BY <4>1, <4>2
    <3>4. ASSUME NEW k \in DOMAIN building'
          PROVE  /\ node'[building'[k]] # Unseen /\ handle[building'[k]] = 0
                 /\ k < Len(building') =>
                      node'[building'[k]] < Len(FieldsOf[building'[k]])
                 /\ \A l \in DOMAIN building' : building'[k] = building'[l] => k = l
      <4>1. k \in 1 .. Len(building) - 1 /\ building'[k] = building[k]
        BY <1>2
      <4>2. \A l \in DOMAIN building' : building'[k] = building'[l] => k = l
        BY <1>2, <1>4, <4>1, SMTT(20)
      <4> QED BY <1>2, <1>4, <3>2, <4>1, <4>2
    <3> QED BY <1>1, <3>1, <3>3, <3>4 DEF NodeInv
  <2>8. SchemaTypes' /\ PhaseInv' /\ StackInv'
    <3>1. StackInv'
      BY <1>1, StackStays DEF RegInv
    <3>2. SchemaTypes'
      BY <1>1, <1>2, <2>2, <2>6 DEF RegInv, SchemaTypes
    <3> QED BY <1>1, <1>7, <2>2, <3>1, <3>2 DEF RegInv, PhaseInv
  <2> QED BY <2>5, <2>7, <2>8 DEF RegInv
<1> QED BY <1>6, <1>7

\* The node has a plan from an earlier call.
LEMMA AlreadyRegisteredInv ==
  ASSUME RegInv, AlreadyRegistered
  PROVE  RegInv'
<1>1. /\ schemaPhase = "register" /\ registering # <<>> /\ registering' = <<>>
      /\ schemaPhase' = "done" /\ UNCHANGED <<node, handle, plans, building, touched, faults>>
      /\ building = <<>>
  BY DEF AlreadyRegistered, RegInv, PhaseInv
<1>2. touched = {}
  BY <1>1 DEF AlreadyRegistered, RegInv, StackInv, Top, Last
<1>3. HandleInv' /\ PlanInv'
  BY <1>1, <1>2, PlansStay
<1> QED BY <1>1, <1>2, <1>3 DEF RegInv, SchemaTypes, PhaseInv, NodeInv, StackInv

\* What register finds on its stack.
LEMMA TopFacts ==
  ASSUME RegInv, schemaPhase = "register"
  PROVE  /\ Len(registering) \in Nat \ {0}
         /\ DOMAIN registering = 1 .. Len(registering)
         /\ registering \in Seq(Entry) /\ Top = registering[Len(registering)]
         /\ Top \in Entry /\ Top.type \in Types /\ Top.children \in Seq(0 .. MaxPlans)
         /\ Len(Top.children) \in Nat
         /\ DOMAIN Top.children = 1 .. Len(Top.children)
         /\ building = <<>>
<1>1. registering # <<>> /\ registering \in Seq(Entry) /\ building = <<>>
  BY DEF RegInv, SchemaTypes, PhaseInv
<1>2. /\ Len(registering) \in Nat \ {0} /\ Top = registering[Len(registering)]
      /\ DOMAIN registering = 1 .. Len(registering) /\ Top \in Entry
  BY <1>1, FrontLast DEF Top
<1>3. Top.type \in Types /\ Top.children \in Seq(0 .. MaxPlans)
  BY <1>2 DEF Entry
<1> QED BY <1>1, <1>2, <1>3

\* Nodes stay: what NodeInv says is kept by every step of register.
LEMMA NodesStay ==
  ASSUME RegInv, schemaPhase = "register", UNCHANGED <<node, building>>,
         faults' = 0 => faults = 0
  PROVE  NodeInv'
<1>1. building = <<>> /\ building' = <<>>
  BY DEF RegInv, PhaseInv
<1> QED BY <1>1 DEF RegInv, NodeInv

\* pc_decode_schema_reserve succeeds.
LEMMA ReserveInv ==
  ASSUME RegInv, Reserve
  PROVE  RegInv'
<1> DEFINE T == Top.type
           n == Len(plans) + 1
           plan == [kind |-> KindOf[T], committed |-> FALSE, fields |-> <<>>]
<1>1. /\ schemaPhase = "register" /\ handle[T] = 0 /\ Len(plans) < MaxPlans
      /\ plans' = Append(plans, plan) /\ handle' = [handle EXCEPT ![T] = Len(plans')]
      /\ touched' = touched \union {T}
      /\ UNCHANGED <<node, schemaPhase, building, registering, faults>>
  BY DEF Reserve
<1>2. T \in Types /\ plan \in Plan /\ plans \in Seq(Plan)
  BY <1>1, TopFacts, ChildType DEF RegInv, SchemaTypes, Plan
<1>3. /\ plans' \in Seq(Plan) /\ Len(plans') = n /\ DOMAIN plans' = 1 .. n
      /\ DOMAIN plans = 1 .. Len(plans) /\ n \in Nat \ {0} /\ n <= MaxPlans
      /\ \A h \in DOMAIN plans : plans'[h] = plans[h]
      /\ plans'[n] = plan
  BY <1>1, <1>2, AppendLast, SchemaAssumption
<1>4. handle' = [handle EXCEPT ![T] = n] /\ handle \in [Types -> 0 .. MaxPlans]
  BY <1>1, <1>3 DEF RegInv, SchemaTypes
<1>5. handle' \in [Types -> 0 .. MaxPlans]
  BY <1>2, <1>3, <1>4, SchemaAssumption
<1>6. /\ handle'[T] = n
      /\ \A t \in Types : t # T => handle'[t] = handle[t]
  BY <1>2, <1>4
<1>7. registering[Len(registering)].type = T
  BY <1>1, TopFacts
<1>8. plan.kind = KindOf[T]
  OBVIOUS
<1> HIDE DEF T, n, plan
<1>9. SchemaTypes' /\ PhaseInv'
  BY <1>1, <1>2, <1>3, <1>5 DEF RegInv, SchemaTypes, PhaseInv
<1>10. NodeInv'
  BY <1>1, NodesStay
<1>11. HandleInv'
  <2>1. ASSUME NEW t \in Types, handle'[t] # 0
        PROVE  handle'[t] \in DOMAIN plans' /\ plans'[handle'[t]].kind = KindOf[t]
    <3>1. CASE t = T
      BY <1>3, <1>6, <1>8, <3>1
    <3>2. CASE t # T
      <4>1. handle'[t] = handle[t] /\ handle[t] # 0
        BY <1>6, <2>1, <3>2
      <4>2. handle[t] \in DOMAIN plans /\ plans[handle[t]].kind = KindOf[t]
        BY <4>1 DEF RegInv, HandleInv
      <4>3. handle[t] \in DOMAIN plans' /\ plans'[handle[t]] = plans[handle[t]]
        BY <1>3, <4>2 DEF n
      <4> QED BY <4>1, <4>2, <4>3
    <3> QED BY <3>1, <3>2
  <2>2. \A t \in Types : handle[t] # n
    BY <1>3 DEF RegInv, HandleInv, n
  <2>3. ASSUME NEW t \in Types, NEW u \in Types, handle'[t] = handle'[u], handle'[t] # 0
        PROVE  t = u
    BY <1>6, <2>2, <2>3 DEF RegInv, HandleInv
  <2> QED BY <2>1, <2>3 DEF HandleInv
<1>12. ASSUME NEW t \in Types, NEW k, k \in 1 .. Len(FieldsOf[t]),
              Child(t, k) # NoType => ChildHandle(t, k) # 0
       PROVE  ChildHandle(t, k)' = ChildHandle(t, k)
  <2>1. Child(t, k) \in Types \union {NoType}
    BY <1>12, ChildType
  <2> QED BY <1>1, <1>6, <1>12, <2>1 DEF ChildHandle
<1>13. StackInv'
  <2>1. ASSUME NEW k \in DOMAIN registering, NEW c \in DOMAIN registering[k].children
        PROVE  /\ c <= Len(FieldsOf[registering[k].type])
               /\ registering[k].children[c] = ChildHandle(registering[k].type, c)'
               /\ Child(registering[k].type, c) # NoType => registering[k].children[c] # 0
    <3>1. /\ c <= Len(FieldsOf[registering[k].type])
          /\ registering[k].children[c] = ChildHandle(registering[k].type, c)
          /\ Child(registering[k].type, c) # NoType => registering[k].children[c] # 0
      BY DEF RegInv, StackInv
    <3>2. registering[k] \in Entry
      BY DEF RegInv, SchemaTypes
    <3>3. registering[k].type \in Types /\ registering[k].children \in Seq(0 .. MaxPlans)
      BY <3>2 DEF Entry
    <3>4. PICK t \in Types : t = registering[k].type
      BY <3>3
    <3>5. c \in 1 .. Len(FieldsOf[t])
      BY <3>1, <3>3, <3>4, ChildType
    <3>6. ChildHandle(t, c)' = ChildHandle(t, c)
      BY <1>12, <3>1, <3>4, <3>5
    <3> QED BY <1>1, <3>1, <3>4, <3>6
  <2>2. \A t \in touched' : handle'[t] # 0
    BY <1>1, <1>3, <1>6 DEF RegInv, StackInv, SchemaTypes
  <2> QED BY <1>1, <1>7, <2>1, <2>2 DEF RegInv, StackInv
<1>14. ASSUME NEW t \in Types, handle'[t] # 0
       PROVE  /\ InProgress(t)' \/ Registered(t)'
              /\ t \notin touched' =>
                   \A k \in 1 .. node'[t] : Child(t, k) \notin touched'
  <2>1. CASE t = T
    <3>1. Len(registering) \in DOMAIN registering
      BY <1>1, TopFacts
    <3> QED BY <1>1, <1>7, <2>1, <3>1 DEF InProgress
  <2>2. CASE t # T
    <3>1. handle'[t] = handle[t] /\ handle[t] # 0
      BY <1>6, <1>14, <2>2
    <3>2. InProgress(t) => InProgress(t)'
      BY <1>1 DEF InProgress
    <3>3. ASSUME Registered(t)
          PROVE  Registered(t)' /\ \A k \in 1 .. node[t] : Child(t, k) # T
      <4>1. handle[t] \in DOMAIN plans /\ plans'[handle'[t]] = plans[handle[t]]
        BY <1>3, <3>1 DEF RegInv, HandleInv
      <4>2. ASSUME NEW k \in 1 .. node[t]
            PROVE  ChildHandle(t, k)' = ChildHandle(t, k) /\ Child(t, k) # T
        <5>1. k \in 1 .. Len(FieldsOf[t])
          BY NodeBound DEF RegInv
        <5>2. Child(t, k) # NoType => ChildHandle(t, k) # 0
          BY <3>3 DEF Registered
        <5> QED BY <1>1, <1>2, <1>12, <5>1, <5>2, ChildType DEF ChildHandle, T
      <4> QED BY <1>1, <3>3, <4>1, <4>2 DEF Registered
    <3>4. /\ InProgress(t) \/ Registered(t)
          /\ t \notin touched => \A k \in 1 .. node[t] : Child(t, k) \notin touched
      BY <3>1 DEF RegInv, PlanInv
    <3>5. t \notin touched => Registered(t)
      BY <3>4 DEF InProgress
    <3> QED BY <1>1, <3>2, <3>3, <3>4, <3>5
  <2> QED BY <2>1, <2>2
<1>15. PlanInv'
  BY <1>14 DEF PlanInv
<1> QED BY <1>9, <1>10, <1>11, <1>13, <1>15 DEF RegInv

\* The catch clause gives up the plans of this call, and only those.
LEMMA RollbackInv ==
  ASSUME RegInv, schemaPhase = "register", Rollback, UNCHANGED <<node, plans, building>>,
         faults' \in 0 .. MaxFaults, faults' = 0 => faults = 0
  PROVE  RegInv'
<1>1. /\ schemaPhase' = "thrown" /\ registering' = <<>> /\ touched' = {}
      /\ handle' = [t \in Types |-> IF t \in touched THEN 0 ELSE handle[t]]
  BY DEF Rollback
<1>2. handle' \in [Types -> 0 .. MaxPlans]
  BY <1>1, SchemaAssumption DEF RegInv, SchemaTypes
<1>3. \A t \in Types : handle'[t] = IF t \in touched THEN 0 ELSE handle[t]
  BY <1>1
<1>4. SchemaTypes' /\ PhaseInv'
  BY <1>1, <1>2, TopFacts DEF RegInv, SchemaTypes, PhaseInv
<1>5. NodeInv'
  BY NodesStay
<1>6. HandleInv'
  BY <1>3 DEF RegInv, HandleInv
<1>7. StackInv'
  BY <1>1 DEF StackInv
<1>8. ASSUME NEW t \in Types, handle'[t] # 0
      PROVE  Registered(t)' /\ \A k \in 1 .. node'[t] : Child(t, k) \notin touched'
  <2>1. t \notin touched /\ handle'[t] = handle[t] /\ handle[t] # 0
    BY <1>3, <1>8
  <2>2. Registered(t) /\ \A k \in 1 .. node[t] : Child(t, k) \notin touched
    BY <2>1 DEF RegInv, PlanInv, InProgress
  <2>3. ASSUME NEW k \in 1 .. node[t]
        PROVE  ChildHandle(t, k)' = ChildHandle(t, k)
    <3>1. k \in 1 .. Len(FieldsOf[t])
      BY NodeBound DEF RegInv
    <3> QED BY <1>3, <2>2, <3>1, ChildType DEF ChildHandle
  <2> QED BY <1>1, <2>1, <2>2, <2>3 DEF Registered
<1>9. PlanInv'
  BY <1>8 DEF PlanInv
<1> QED BY <1>4, <1>5, <1>6, <1>7, <1>9 DEF RegInv

\* The handle of the next child is known, or the child is registered first.
LEMMA RegisterChildInv ==
  ASSUME RegInv, RegisterChild
  PROVE  RegInv'
<1> DEFINE R == Len(registering)
           T == Top.type
           c == Len(Top.children) + 1
           child == FieldsOf[T][c].child
           known == child = NoType \/ (child # NoType /\ handle[child] # 0)
           h == IF child = NoType THEN 0 ELSE handle[child]
           more == [Top EXCEPT !.children = Append(@, h)]
           sub == [type |-> child, children |-> <<>>]
<1>1. /\ schemaPhase = "register" /\ T \in touched /\ Len(Top.children) < node[T]
      /\ registering' = IF known THEN Append(Front(registering), more)
                        ELSE Append(registering, sub)
      /\ UNCHANGED <<node, handle, plans, schemaPhase, building, touched, faults>>
  BY DEF RegisterChild, Reserved
<1>2. /\ R \in Nat \ {0} /\ DOMAIN registering = 1 .. R /\ registering \in Seq(Entry)
      /\ Top = registering[R] /\ Top \in Entry /\ T \in Types
      /\ Top.children \in Seq(0 .. MaxPlans) /\ c \in Nat \ {0}
      /\ DOMAIN Top.children = 1 .. c - 1 /\ building = <<>> /\ registering # <<>>
  BY <1>1, TopFacts DEF RegInv, PhaseInv
<1>3. c \in 1 .. Len(FieldsOf[T]) /\ child = Child(T, c) /\ child \in Types \union {NoType}
  <2>1. node[T] \in Int /\ 1 .. node[T] \subseteq 1 .. Len(FieldsOf[T])
    BY <1>2, NodeBound DEF RegInv
  <2>2. c \in 1 .. node[T]
    <3>1. PICK l \in Nat, m \in Int : l = Len(Top.children) /\ m = node[T] /\ l < m
      <4>1. Top.children \in Seq(0 .. MaxPlans) /\ Len(Top.children) < node[T]
        BY <1>1, <1>2
      <4>2. Len(Top.children) \in Nat
        BY <4>1
      <4> QED BY <2>1, <4>1, <4>2
    <3>2. l + 1 \in 1 .. m
      BY <3>1
    <3> QED BY <3>1, <3>2
  <2> QED BY <1>2, <2>1, <2>2, ChildType DEF Child
<1>4. h = ChildHandle(T, c) /\ h \in 0 .. MaxPlans
  BY <1>3, SchemaAssumption DEF ChildHandle, RegInv, SchemaTypes
<1>5. /\ more \in Entry /\ more.type = T /\ more.children = Append(Top.children, h)
      /\ Len(more.children) = c /\ DOMAIN more.children = 1 .. c
      /\ \A k \in 1 .. c - 1 : more.children[k] = Top.children[k]
      /\ more.children[c] = h
  <2> HIDE DEF h, c
  <2>1. /\ Append(Top.children, h) \in Seq(0 .. MaxPlans)
        /\ Len(Append(Top.children, h)) = c /\ DOMAIN Append(Top.children, h) = 1 .. c
        /\ \A k \in 1 .. c - 1 : Append(Top.children, h)[k] = Top.children[k]
        /\ Append(Top.children, h)[c] = h
    <3> DEFINE old == Top.children
    <3>1. old \in Seq(0 .. MaxPlans) /\ h \in 0 .. MaxPlans /\ Len(old) + 1 = c
          /\ Len(old) = c - 1
      BY <1>2, <1>4
    <3> HIDE DEF old, h, c
    <3>2. /\ Append(old, h) \in Seq(0 .. MaxPlans)
          /\ Len(Append(old, h)) = Len(old) + 1 /\ DOMAIN Append(old, h) = 1 .. Len(old) + 1
          /\ \A k \in 1 .. Len(old) : Append(old, h)[k] = old[k]
          /\ Append(old, h)[Len(old) + 1] = h
      BY <3>1, AppendLast
    <3> QED BY <3>1, <3>2 DEF old
  <2>2. more \in Entry /\ more.type = T /\ more.children = Append(Top.children, h)
    BY <1>2, <2>1 DEF Entry
  <2> QED BY <2>1, <2>2
<1>6. NodeInv' /\ HandleInv'
  <2>1. NodeInv'
    BY <1>1, NodesStay
  <2> QED BY <1>1, <2>1 DEF RegInv, HandleInv
<1>7. ASSUME NEW t \in Types,
             InProgress(t) => InProgress(t)'
      PROVE  handle'[t] # 0 =>
               /\ InProgress(t)' \/ Registered(t)'
               /\ t \notin touched' =>
                    \A k \in 1 .. node'[t] : Child(t, k) \notin touched'
  <2>1. Registered(t) => Registered(t)'
    BY <1>1 DEF Registered, ChildHandle
  <2> QED BY <1>1, <1>7, <2>1 DEF RegInv, PlanInv
<1>8. CASE known
  <2>1. /\ registering' \in Seq(Entry) /\ Len(registering') = R
        /\ DOMAIN registering' = 1 .. R /\ registering'[R] = more
        /\ \A k \in 1 .. R - 1 : registering'[k] = registering[k]
    <3>1. /\ Front(registering) \in Seq(Entry) /\ Len(Front(registering)) = R - 1
          /\ \A k \in 1 .. R - 1 : Front(registering)[k] = registering[k]
      BY <1>2, FrontLast
    <3> HIDE DEF R, more
    <3>2. registering' = Append(Front(registering), more)
      BY <1>1, <1>8
    <3>3. /\ registering' \in Seq(Entry) /\ Len(registering') = (R - 1) + 1
          /\ DOMAIN registering' = 1 .. (R - 1) + 1 /\ registering'[(R - 1) + 1] = more
          /\ \A k \in 1 .. R - 1 : registering'[k] = Front(registering)[k]
      <4>1. PICK s \in Seq(Entry) : s = Front(registering) /\ Len(s) = R - 1
        BY <3>1
      <4>2. more \in Entry
        BY <1>5
      <4>3. /\ Append(s, more) \in Seq(Entry) /\ Len(Append(s, more)) = Len(s) + 1
            /\ DOMAIN Append(s, more) = 1 .. Len(s) + 1 /\ Append(s, more)[Len(s) + 1] = more
            /\ \A k \in 1 .. Len(s) : Append(s, more)[k] = s[k]
        BY <4>2, AppendLast
      <4> QED BY <3>2, <4>1, <4>3
    <3>4. (R - 1) + 1 = R
      BY <1>2
    <3> QED BY <3>1, <3>3, <3>4
  <2>2. child # NoType => h # 0
    BY <1>8
  <2> HIDE DEF R, more, h, child, T, c, known
  <2>3. \A k \in 1 .. R : registering'[k].type = registering[k].type
    BY <1>2, <1>5, <2>1 DEF T
  <2>4. ASSUME NEW k \in 1 .. R, NEW d \in DOMAIN registering'[k].children
        PROVE  /\ d <= Len(FieldsOf[registering[k].type])
               /\ registering'[k].children[d] = ChildHandle(registering[k].type, d)
               /\ Child(registering[k].type, d) # NoType =>
                    registering'[k].children[d] # 0
    <3>1. CASE k # R \/ d # c
      <4>1. /\ d \in DOMAIN registering[k].children
            /\ registering'[k].children[d] = registering[k].children[d]
        <5>1. CASE k # R
          BY <1>2, <2>1, <5>1
        <5>2. CASE k = R /\ d # c
          <6>1. registering'[k].children = more.children /\ registering[k] = Top
            BY <1>2, <2>1, <5>2
          <6>2. d \in 1 .. c - 1
            BY <1>2, <1>5, <5>2, <6>1
          <6> QED BY <1>2, <1>5, <6>1, <6>2
        <5> QED BY <3>1, <5>1, <5>2
      <4> QED BY <1>2, <4>1 DEF RegInv, StackInv
    <3>2. CASE k = R /\ d = c
      <4>1. registering[k].type = T /\ registering'[k].children[d] = h
        BY <1>2, <1>5, <2>1, <3>2 DEF T
      <4> QED BY <1>2, <1>3, <1>4, <2>2, <3>2, <4>1
    <3> QED BY <3>1, <3>2
  <2>5. StackInv'
    <3>1. \A k \in 1 .. R : k < R => registering'[k].type \in touched
      BY <1>2, <2>3 DEF RegInv, StackInv, R
    <3>2. \A k, l \in 1 .. R : registering'[k].type = registering'[l].type => k = l
      BY <1>2, <2>3 DEF RegInv, StackInv
    <3>3. registering'[R].type \in touched'
      BY <1>1, <1>5, <2>1
    <3>4. ASSUME NEW k \in 1 .. R, NEW d \in DOMAIN registering'[k].children
          PROVE  registering'[k].children[d] = ChildHandle(registering[k].type, d)'
      <4>1. ChildHandle(registering'[k].type, d) = ChildHandle(registering[k].type, d)
        BY <2>3
      <4> QED BY <1>1, <2>3, <2>4, <4>1 DEF ChildHandle
    <3> QED BY <1>1, <2>1, <2>3, <2>4, <3>1, <3>2, <3>3, <3>4
            DEF RegInv, StackInv, ChildHandle
  <2>6. PlanInv'
    <3>1. \A t \in Types : InProgress(t) => InProgress(t)'
      BY <1>1, <1>2, <2>1, <2>3 DEF InProgress
    <3> QED BY <1>7, <3>1 DEF PlanInv
  <2>7. registering' # <<>>
    BY <1>2, <2>1
  <2> QED BY <1>1, <1>2, <1>6, <2>1, <2>5, <2>6, <2>7 DEF RegInv, SchemaTypes, PhaseInv
<1>9. CASE ~known
  <2>1. child \in Types /\ handle[child] = 0 /\ sub \in Entry
        /\ sub.type = child /\ sub.children = <<>>
    BY <1>3, <1>9 DEF Entry
  <2> HIDE DEF known, sub
  <2>2. /\ registering' \in Seq(Entry) /\ Len(registering') = R + 1
        /\ DOMAIN registering' = 1 .. R + 1 /\ registering'[R + 1] = sub
        /\ \A k \in 1 .. R : registering'[k] = registering[k]
    BY <1>1, <1>2, <1>9, <2>1, AppendLast
  <2> HIDE DEF R, child, T, c
  <2>3. \A k \in 1 .. R : registering[k].type \in touched
    <3>1. registering[R].type \in touched
      BY <1>1, <1>2 DEF T
    <3> QED BY <1>2, <3>1 DEF RegInv, StackInv, R
  <2>4. child \notin touched
    BY <2>1 DEF RegInv, StackInv
  <2>5. ASSUME NEW k \in 1 .. R + 1, NEW d \in DOMAIN registering'[k].children
        PROVE  /\ d <= Len(FieldsOf[registering'[k].type])
               /\ registering'[k].children[d] = ChildHandle(registering'[k].type, d)
               /\ Child(registering'[k].type, d) # NoType =>
                    registering'[k].children[d] # 0
    <3>1. CASE k = R + 1
      BY <2>1, <2>2, <3>1
    <3>2. CASE k \in 1 .. R
      BY <1>2, <2>2, <3>2 DEF RegInv, StackInv
    <3> QED BY <1>2, <3>1, <3>2
  <2>6. \A k, l \in 1 .. R + 1 : registering'[k].type = registering'[l].type => k = l
    <3>1. \A k \in 1 .. R : registering'[k].type \in touched
      BY <2>2, <2>3
    <3>2. \A k, l \in 1 .. R : registering'[k].type = registering'[l].type => k = l
      BY <1>2, <2>2 DEF RegInv, StackInv
    <3>3. registering'[R + 1].type \notin touched
      BY <2>1, <2>2, <2>4
    <3> QED BY <1>2, <3>1, <3>2, <3>3
  <2>7. StackInv'
    <3>1. \A k \in 1 .. R + 1 : k < R + 1 => registering'[k].type \in touched'
      BY <1>1, <1>2, <2>2, <2>3
    <3>2. registering'[R + 1].type = child /\ handle'[child] = 0 /\ R + 1 # 1
      <4>1. registering'[R + 1].type = child
        BY <2>1, <2>2
      <4>2. handle' = handle /\ R + 1 # 1
        BY <1>1, <1>2
      <4> QED BY <2>1, <4>1, <4>2
    <3>3. ASSUME NEW k \in 1 .. R + 1, NEW d \in DOMAIN registering'[k].children
          PROVE  registering'[k].children[d] = ChildHandle(registering[k].type, d)'
      BY <1>1, <2>5 DEF ChildHandle
    <3> QED BY <1>1, <2>2, <2>5, <2>6, <3>1, <3>2, <3>3, SMTT(20) DEF RegInv, StackInv
  <2>8. PlanInv'
    <3>1. \A t \in Types : InProgress(t) => InProgress(t)'
      <4> SUFFICES ASSUME NEW t \in Types, InProgress(t)
                   PROVE  InProgress(t)'
        OBVIOUS
      <4>1. PICK k \in 1 .. R : registering[k].type = t /\ t \in touched
        BY <1>2 DEF InProgress
      <4>2. k \in 1 .. R + 1
        BY <1>2
      <4> QED BY <1>1, <2>2, <4>1, <4>2 DEF InProgress
    <3> QED BY <1>7, <3>1 DEF PlanInv
  <2>9. registering' # <<>>
    BY <1>2, <2>2
  <2> QED BY <1>1, <1>2, <1>6, <2>2, <2>7, <2>8, <2>9 DEF RegInv, SchemaTypes, PhaseInv
<1> QED BY <1>8, <1>9

\* pc_decode_plan_commit: the plan gets the handles of all children.
LEMMA CommitInv ==
  ASSUME RegInv, Commit
  PROVE  RegInv'
<1> DEFINE R == Len(registering)
           T == Top.type
           h == handle[T]
<1>1. /\ schemaPhase = "register" /\ T \in touched /\ Len(Top.children) = node[T]
      /\ plans' = [plans EXCEPT ![h].committed = TRUE, ![h].fields = Top.children]
      /\ registering' = Front(registering)
      /\ UNCHANGED <<node, handle, building, faults>>
      /\ IF registering' = <<>> THEN schemaPhase' = "done" /\ touched' = {}
         ELSE UNCHANGED <<schemaPhase, touched>>
  BY DEF Commit, AllChildren, Reserved
<1>2. /\ R \in Nat \ {0} /\ DOMAIN registering = 1 .. R /\ registering \in Seq(Entry)
      /\ Top = registering[R] /\ Top \in Entry /\ T \in Types
      /\ Top.children \in Seq(0 .. MaxPlans)
      /\ DOMAIN Top.children = 1 .. Len(Top.children) /\ building = <<>>
  BY <1>1, TopFacts
<1>3. /\ registering' \in Seq(Entry) /\ Len(registering') = R - 1
      /\ DOMAIN registering' = 1 .. R - 1
      /\ \A k \in 1 .. R - 1 : registering'[k] = registering[k]
      /\ registering' = <<>> <=> R = 1
  <2>1. registering # <<>>
    BY <1>1 DEF RegInv, PhaseInv
  <2> QED BY <1>1, <1>2, <2>1, FrontLast
<1>4. h # 0 /\ h \in DOMAIN plans /\ plans \in Seq(Plan) /\ plans[h].kind = KindOf[T]
  BY <1>1, <1>2 DEF RegInv, StackInv, HandleInv, SchemaTypes
<1>5. /\ plans' \in Seq(Plan) /\ Len(plans') = Len(plans) /\ DOMAIN plans' = DOMAIN plans
      /\ plans'[h].committed /\ plans'[h].fields = Top.children
      /\ plans'[h].kind = plans[h].kind
      /\ \A g \in DOMAIN plans : g # h => plans'[g] = plans[g]
  <2> DEFINE p == [plans[h] EXCEPT !.committed = TRUE, !.fields = Top.children]
  <2>1. plans[h] \in Plan
    BY <1>4
  <2>2. p \in Plan /\ p.committed /\ p.fields = Top.children /\ p.kind = plans[h].kind
    BY <1>2, <2>1 DEF Plan
  <2>3. plans' = [plans EXCEPT ![h] = p]
    BY <1>1, <1>4, <2>1 DEF Plan
  <2> HIDE DEF p
  <2>4. /\ plans' \in Seq(Plan) /\ Len(plans') = Len(plans) /\ DOMAIN plans' = DOMAIN plans
        /\ plans'[h] = p /\ \A g \in DOMAIN plans : g # h => plans'[g] = plans[g]
    BY <1>4, <2>2, <2>3
  <2> QED BY <2>2, <2>4
<1> HIDE DEF R, T, h
<1>6. NodeInv'
  BY <1>1, NodesStay
<1>7. HandleInv'
  BY <1>1, <1>4, <1>5 DEF RegInv, HandleInv, T, h
<1>8. SchemaTypes'
  BY <1>1, <1>3, <1>5 DEF RegInv, SchemaTypes
<1>9. PhaseInv'
  BY <1>1, <1>2 DEF RegInv, PhaseInv
<1>10. StackInv'
  <2>1. CASE registering' = <<>>
    BY <1>1, <2>1 DEF StackInv
  <2>2. CASE registering' # <<>>
    <3>1. R - 1 \in 1 .. R - 1 /\ touched' = touched
      BY <1>1, <1>2, <1>3, <2>2
    <3>2. ASSUME NEW k \in 1 .. R - 1
          PROVE  registering'[k].type \in touched
      <4>1. k \in DOMAIN registering /\ k < R /\ registering'[k] = registering[k]
        BY <1>2, <1>3
      <4> QED BY <4>1 DEF RegInv, StackInv, R
    <3>3. \A k, l \in 1 .. R - 1 : registering'[k].type = registering'[l].type => k = l
      BY <1>2, <1>3, SMTT(20) DEF RegInv, StackInv
    <3>4. ASSUME NEW k \in 1 .. R - 1, NEW d \in DOMAIN registering'[k].children
          PROVE  /\ d <= Len(FieldsOf[registering'[k].type])
                 /\ registering'[k].children[d] = ChildHandle(registering[k].type, d)'
                 /\ Child(registering'[k].type, d) # NoType =>
                      registering'[k].children[d] # 0
      BY <1>1, <1>2, <1>3 DEF RegInv, StackInv, ChildHandle
    <3> QED BY <1>1, <1>3, <3>1, <3>2, <3>3, <3>4 DEF RegInv, StackInv
  <2> QED BY <2>1, <2>2
<1>11. \A t \in Types : Registered(t) /\ handle[t] # 0 /\ t # T => Registered(t)'
  <2> SUFFICES ASSUME NEW t \in Types, Registered(t), handle[t] # 0, t # T
               PROVE  Registered(t)'
    OBVIOUS
  <2>1. handle[t] \in DOMAIN plans /\ handle[t] # h
    BY <1>2, <1>4 DEF RegInv, HandleInv, h
  <2>2. plans'[handle[t]] = plans[handle[t]]
    BY <1>5, <2>1
  <2> QED BY <1>1, <2>2 DEF Registered, ChildHandle
<1>12. PICK u \in Types : u = T
  BY <1>2
<1>13. Registered(u)'
  <2>1. ASSUME NEW k \in 1 .. node[u]
        PROVE  /\ plans'[h].fields[k] = ChildHandle(u, k)
               /\ Child(u, k) # NoType => ChildHandle(u, k) # 0
    <3>1. k \in DOMAIN registering[R].children /\ R \in DOMAIN registering
      BY <1>1, <1>2, <1>12
    <3> QED BY <1>2, <1>5, <1>12, <3>1 DEF RegInv, StackInv, T
  <2>2. ASSUME NEW k \in 1 .. node[u]
        PROVE  ChildHandle(u, k)' = ChildHandle(u, k)
    BY <1>1 DEF ChildHandle
  <2>3. handle'[u] = h /\ node'[u] = node[u] /\ Len(Top.children) = node[u]
    BY <1>1, <1>12 DEF h
  <2> QED BY <1>5, <2>1, <2>2, <2>3 DEF Registered
<1>14. ASSUME NEW t \in Types, handle'[t] # 0
       PROVE  /\ InProgress(t)' \/ Registered(t)'
              /\ t \notin touched' =>
                   \A k \in 1 .. node'[t] : Child(t, k) \notin touched'
  <2>1. /\ InProgress(t) \/ Registered(t)
        /\ t \notin touched => \A k \in 1 .. node[t] : Child(t, k) \notin touched
        /\ handle[t] # 0
    BY <1>1, <1>14 DEF RegInv, PlanInv
  <2>2. t # u /\ InProgress(t) => InProgress(t)'
    <3> SUFFICES ASSUME t # u, t \in touched,
                        NEW k \in 1 .. R, registering[k].type = t
                 PROVE  InProgress(t)'
      BY <1>2 DEF InProgress
    <3>1. k \in 1 .. R - 1
      BY <1>2, <1>12 DEF T
    <3> QED BY <1>1, <1>2, <1>3, <3>1 DEF InProgress
  <2>3. InProgress(t)' \/ Registered(t)'
    BY <1>11, <1>12, <1>13, <2>1, <2>2
  <2> QED BY <1>1, <2>1, <2>3
<1>15. PlanInv'
  BY <1>14 DEF PlanInv
<1> QED BY <1>6, <1>7, <1>8, <1>9, <1>10, <1>15 DEF RegInv

\* The fields of the WASM module's failures: calls fail without touching the
\* schemas.
LEMMA FaultInv ==
  ASSUME RegInv, UNCHANGED restOfSchema, faults' \in 0 .. MaxFaults,
         faults' = 0 => faults = 0
  PROVE  RegInv'
<1>1. UNCHANGED <<node, handle, plans, schemaPhase, building, registering, touched>>
  BY DEF restOfSchema
<1>2. SchemaTypes' /\ PhaseInv' /\ NodeInv' /\ HandleInv'
  BY <1>1 DEF RegInv, SchemaTypes, PhaseInv, NodeInv, HandleInv
<1>3. StackInv'
  BY <1>1, StackStays DEF RegInv
<1>4. \A t \in Types : (InProgress(t) => InProgress(t)') /\ (Registered(t) => Registered(t)')
  BY <1>1 DEF InProgress, Registered, ChildHandle
<1>5. PlanInv'
  BY <1>1, <1>4 DEF RegInv, PlanInv
<1> QED BY <1>2, <1>3, <1>5 DEF RegInv

\* compiledSchemaHandle returns or throws.
LEMMA SchemaReturnsInv ==
  ASSUME RegInv, SchemaReturns
  PROVE  RegInv'
<1>1. /\ schemaPhase \in {"done", "thrown"} /\ schemaPhase' = "idle" /\ touched = {}
      /\ UNCHANGED <<node, handle, plans, building, registering, touched, faults>>
  BY DEF SchemaReturns, RegInv, PhaseInv
<1>2. HandleInv' /\ PlanInv'
  BY <1>1, PlansStay
<1>3. StackInv'
  BY <1>1, StackStays DEF RegInv
<1> QED BY <1>1, <1>2, <1>3 DEF RegInv, SchemaTypes, PhaseInv, NodeInv

\* Every step of compiledSchemaHandle keeps RegInv.
LEMMA SchemaStepInv ==
  ASSUME RegInv, BuildStep \/ RegisterStep
  PROVE  RegInv'
<1> USE SchemaAssumption
<1>1. CASE BuildStep
  BY <1>1, BuildFieldInv, ResolverThrowsInv, BuildDoneInv, AlreadyRegisteredInv
     DEF BuildStep
<1>2. CASE Reserve
  BY <1>2, ReserveInv
<1>3. CASE RegisterChild
  BY <1>3, RegisterChildInv
<1>4. CASE Commit
  BY <1>4, CommitInv
<1>5. CASE ReserveFails \/ CommitRefused \/ CommitFails
  <2>1. /\ schemaPhase = "register" /\ Rollback /\ UNCHANGED <<node, plans, building>>
        /\ faults' = faults \/ (faults < MaxFaults /\ faults' = faults + 1)
    BY <1>5 DEF ReserveFails, CommitRefused, CommitFails, AllChildren, Reserved, Fault
  <2>2. faults \in 0 .. MaxFaults
    BY DEF RegInv, SchemaTypes
  <2>3. faults' \in 0 .. MaxFaults /\ (faults' = 0 => faults = 0)
    BY <2>1, <2>2
  <2> QED BY <2>1, <2>3, RollbackInv
<1> QED BY <1>1, <1>2, <1>3, <1>4, <1>5 DEF RegisterStep

\* The registered plans are closed between calls.
LEMMA RegInvCloses == RegInv => HandleClosure
<1> SUFFICES ASSUME RegInv, schemaPhase \in {"idle", "done", "thrown"},
                    NEW t \in Types, handle[t] # 0
             PROVE  /\ plans[handle[t]].committed
                    /\ plans[handle[t]].kind = KindOf[t]
                    /\ Len(plans[handle[t]].fields) = node[t]
                    /\ faults = 0 => node[t] = Len(FieldsOf[t])
                    /\ \A k \in DOMAIN plans[handle[t]].fields :
                         plans[handle[t]].fields[k] =
                           IF FieldsOf[t][k].child = NoType THEN 0
                           ELSE handle[FieldsOf[t][k].child]
  BY DEF HandleClosure
<1>1. touched = {} /\ building = <<>>
  BY DEF RegInv, PhaseInv
<1>2. Registered(t) /\ handle[t] \in DOMAIN plans /\ plans[handle[t]].kind = KindOf[t]
  BY <1>1 DEF RegInv, PlanInv, InProgress, HandleInv
<1>3. plans[handle[t]] \in Plan
  BY <1>2 DEF RegInv, SchemaTypes
<1>4. /\ Len(plans[handle[t]].fields) = node[t] /\ node[t] \in Nat
      /\ DOMAIN plans[handle[t]].fields = 1 .. node[t]
  <2>1. plans[handle[t]].fields \in Seq(0 .. MaxPlans)
    BY <1>3 DEF Plan
  <2> QED BY <1>2, <2>1 DEF Registered
<1>5. faults = 0 => node[t] = Len(FieldsOf[t])
  BY <1>1, <1>4 DEF RegInv, NodeInv, Unseen
<1> QED BY <1>2, <1>4, <1>5 DEF Registered, ChildHandle, Child

\* The types that SchemaTypeOK asks for.
LEMMA RegInvTypes == RegInv => SchemaTypeOK
<1> SUFFICES ASSUME RegInv PROVE SchemaTypeOK
  OBVIOUS
<1>1. \A h \in DOMAIN plans : plans[h] \in Plan
  BY DEF RegInv, SchemaTypes
<1> QED BY <1>1 DEF RegInv, SchemaTypes, SchemaTypeOK, Plan, Kind, Entry

-----------------------------------------------------------------------------
(* Nested calls.                                                           *)

OpenNode == [what : Objects \union {Bools}, depth : 0 .. MaxDepth]
BlockNames == {"input", "keys", "spans", "result", "output"}
Reasons ==
  {"", "user", "schema", "memory", "data", "detached", "depth", "cycle", "value"}
Arena == [view : -1 .. MaxGrowth, owner : 0 .. MaxCalls]
Frame ==
  [op : {"serialize", "deserialize", "native"},
   pc : {"schema", "arena", "write", "plan", "tape", "read", "alloc", "run",
         "copy", "unwind", "return"},
   open : Seq(OpenNode), nodes : 0 .. MaxNodes, view : 0 .. MaxGrowth,
   need : Seq(BlockNames), held : SUBSET (Nat \X BlockNames),
   lost : BOOLEAN, disturbed : BOOLEAN, why : Reasons]

SessionTypes ==
  /\ frames \in Seq(Frame) /\ calls \in 0 .. MaxCalls /\ Len(frames) <= calls
  /\ buffer \in 0 .. MaxGrowth /\ arena \in Arena
  /\ serializationActive \in BOOLEAN /\ deserializationActive \in BOOLEAN
  /\ stack \in Seq(Objects) /\ set \in [members : SUBSET Objects, on : BOOLEAN]

\* The i-th call by itself.
FrameOK(i, f) ==
  /\ f \in Frame
  /\ f.op = "serialize" => f.pc \in {"schema", "arena", "write", "unwind", "return"}
  /\ f.op = "deserialize" =>
       f.pc \in {"schema", "plan", "tape", "read", "unwind", "return"}
  /\ f.op = "native" => f.pc \in {"alloc", "run", "copy", "unwind", "return"}
  /\ f.op # "serialize" \/ f.pc \notin {"write", "unwind"} => f.open = <<>>
  /\ f.pc = "alloc" => f.need # <<>>
  /\ \A b \in f.held : b[1] = i
  /\ f.pc \notin {"write", "read", "unwind"} => ~f.lost
  /\ f.why = "detached" => f.disturbed

\* The views it uses, when the arena is a and the buffer has been replaced b
\* times: a detached view is due to user code, and what was lost on one will
\* be noticed, because nothing rebinds a view while bools are written or
\* fields are read.
ViewOK(i, f, a, b) ==
  /\ f.op = "serialize" /\ f.pc = "write" =>
       /\ a.owner = i /\ a.view \in 0 .. b
       /\ a.view # b => f.disturbed
       /\ f.lost => /\ f.open # <<>> /\ f.open[Len(f.open)].what = Bools
                    /\ a.view # b
  /\ f.op = "deserialize" /\ f.pc = "read" =>
       /\ f.view <= b
       /\ f.view # b => f.disturbed
       /\ f.lost => f.view # b

\* The open nodes of a serialization are the objects on the cycle stack s,
\* and at most an array of bools on top.
OpenOK(f, s) ==
  f.op = "serialize" =>
    /\ Len(f.open) \in {Len(s), Len(s) + 1}
    /\ \A d \in 1 .. Len(s) : f.open[d].what = s[d]
    /\ Len(f.open) = Len(s) + 1 => f.open[Len(s) + 1].what = Bools

\* Only the innermost call may be elsewhere than in user code, and only it
\* can be inside compiledSchemaHandle.
OrderInv ==
  /\ \A i \in 1 .. Len(frames) : i < Len(frames) => frames[i].pc \in {"read", "write"}
  /\ \A i \in 1 .. Len(frames) : i = Len(frames) =>
       (frames[i].pc = "schema" <=> schemaPhase # "idle")
  /\ frames = <<>> => schemaPhase = "idle"

\* The flags admit one serialization and one deserialization.
FlagInv ==
  /\ \A i, k \in 1 .. Len(frames) :
       frames[i].op = frames[k].op /\ frames[i].op # "native" => i = k
  /\ serializationActive <=> \E i \in 1 .. Len(frames) : frames[i].op = "serialize"
  /\ deserializationActive <=>
       \E i \in 1 .. Len(frames) : frames[i].op = "deserialize"

LiveInv ==
  \A x : x \in live <=> \E i \in 1 .. Len(frames) : x \in frames[i].held

\* The cycle stack and its set.
CycleOK(s, m) ==
  /\ \A d, e \in 1 .. Len(s) : s[d] = s[e] => d = e
  /\ m.on => \A o : o \in m.members <=> \E d \in 1 .. Len(s) : s[d] = o
  /\ s = <<>> => m = NoSet

SInv ==
  /\ SessionTypes
  /\ \A i \in 1 .. Len(frames) :
       /\ FrameOK(i, frames[i])
       /\ ViewOK(i, frames[i], arena, buffer)
       /\ OpenOK(frames[i], stack)
  /\ OrderInv /\ FlagInv /\ LiveInv
  /\ CycleOK(stack, set)
  /\ ~serializationActive => stack = <<>>

\* The calls gs are the calls fs, except that the innermost is f and, if g,
\* the others find themselves disturbed.
Replaced(fs, gs, f, g) ==
  /\ gs \in Seq(Frame) /\ Len(gs) = Len(fs) /\ gs[Len(fs)] = f
  /\ \A i \in 1 .. Len(fs) - 1 : gs[i] = [fs[i] EXCEPT !.disturbed = @ \/ g]

\* A disturbed frame is a frame, with no other change.
LEMMA Disturbed ==
  ASSUME NEW f \in Frame, NEW g \in BOOLEAN
  PROVE  LET d == [f EXCEPT !.disturbed = @ \/ g]
         IN  /\ d \in Frame /\ d.op = f.op /\ d.pc = f.pc /\ d.open = f.open
             /\ d.nodes = f.nodes /\ d.view = f.view /\ d.need = f.need
             /\ d.held = f.held /\ d.lost = f.lost /\ d.why = f.why
             /\ d.disturbed = (f.disturbed \/ g)
             /\ ~g => d = f
  BY DEF Frame

\* Continue replaces the innermost call ...
LEMMA ContinueReplaces ==
  ASSUME frames \in Seq(Frame), frames # <<>>, NEW f \in Frame, NEW g \in BOOLEAN,
         Continue(f, g)
  PROVE  Replaced(frames, frames', f, g)
<1>1. Len(frames) \in Nat \ {0} /\ DOMAIN frames = 1 .. Len(frames)
  OBVIOUS
<1>2. frames' = [i \in 1 .. Len(frames) |->
                   IF i = Len(frames) THEN f
                   ELSE [frames[i] EXCEPT !.disturbed = @ \/ g]]
  BY <1>1 DEF Continue
<1>3. \A i \in 1 .. Len(frames) : frames[i] \in Frame
  BY <1>1
<1>4. \A i \in 1 .. Len(frames) : [frames[i] EXCEPT !.disturbed = @ \/ g] \in Frame
  BY <1>3, Disturbed
<1>5. frames' \in [1 .. Len(frames) -> Frame]
  BY <1>2, <1>4
<1>6. frames' \in Seq(Frame) /\ Len(frames') = Len(frames)
  BY <1>1, <1>5
<1> QED BY <1>1, <1>2, <1>6 DEF Replaced

\* ... and so does popping and pushing it.
LEMMA AppendReplaces ==
  ASSUME NEW fs \in Seq(Frame), fs # <<>>, NEW f \in Frame
  PROVE  Replaced(fs, Append(Front(fs), f), f, FALSE)
<1>1. /\ Len(fs) \in Nat \ {0} /\ Front(fs) \in Seq(Frame) /\ Len(Front(fs)) = Len(fs) - 1
      /\ \A i \in 1 .. Len(fs) - 1 : Front(fs)[i] = fs[i]
  BY FrontLast
<1> DEFINE fr == Front(fs)
           gs == Append(fr, f)
<1> HIDE DEF fr
<1>2. /\ gs \in Seq(Frame) /\ Len(gs) = Len(fr) + 1
      /\ \A i \in 1 .. Len(fr) : gs[i] = fr[i]
      /\ gs[Len(fr) + 1] = f
  BY <1>1, AppendLast DEF fr
<1>3. Len(fr) + 1 = Len(fs) /\ Len(fr) = Len(fs) - 1
  BY <1>1 DEF fr
<1>4. \A i \in 1 .. Len(fs) - 1 : fs[i] \in Frame
  BY <1>1
<1>5. \A i \in 1 .. Len(fs) - 1 : gs[i] = [fs[i] EXCEPT !.disturbed = @ \/ FALSE]
  <2>1. \A i \in 1 .. Len(fs) - 1 : gs[i] = fs[i]
    BY <1>1, <1>2, <1>3 DEF fr
  <2>2. \A x \in Frame : [x EXCEPT !.disturbed = @ \/ FALSE] = x
    BY Disturbed
  <2> QED BY <1>4, <2>1, <2>2
<1> QED BY <1>2, <1>3, <1>5 DEF Replaced, fr

\* The calls around the innermost one keep what is said of them: growth of
\* the memory is on record, and the arena and the cycle stack are out of
\* reach of the others.
LEMMA LowerFrames ==
  ASSUME SInv, NEW f, NEW g \in BOOLEAN, Replaced(frames, frames', f, g),
         frames # <<>>, f.op = F.op,
         buffer' \in 0 .. MaxGrowth, buffer <= buffer', buffer' # buffer => g,
         arena' = arena \/ F.op = "serialize",
         stack' = stack \/ F.op = "serialize",
         NEW i \in 1 .. Len(frames) - 1
  PROVE  /\ FrameOK(i, frames'[i])
         /\ ViewOK(i, frames'[i], arena', buffer')
         /\ OpenOK(frames'[i], stack')
         /\ frames'[i].pc \in {"read", "write"}
         /\ frames'[i].op = frames[i].op /\ frames'[i].held = frames[i].held
<1>1. /\ Len(frames) \in Nat \ {0} /\ F = frames[Len(frames)] /\ frames \in Seq(Frame)
      /\ buffer \in 0 .. MaxGrowth
  BY FrontLast DEF SInv, SessionTypes, F
<1>2. i \in 1 .. Len(frames) /\ i < Len(frames) /\ Len(frames) \in 1 .. Len(frames)
  BY <1>1
<1>3. /\ FrameOK(i, frames[i]) /\ ViewOK(i, frames[i], arena, buffer)
      /\ OpenOK(frames[i], stack) /\ frames[i].pc \in {"read", "write"}
      /\ frames[i] \in Frame
  BY <1>2 DEF SInv, OrderInv, FrameOK
<1>4. F.op = "serialize" => frames[i].op # "serialize"
  BY <1>1, <1>2 DEF SInv, FlagInv
<1> DEFINE old == frames[i]
           new == frames'[i]
<1>5. /\ new \in Frame /\ new.op = old.op /\ new.pc = old.pc /\ new.open = old.open
      /\ new.view = old.view /\ new.need = old.need
      /\ new.held = old.held /\ new.lost = old.lost /\ new.why = old.why
      /\ new.disturbed = (old.disturbed \/ g)
  <2>1. new = [old EXCEPT !.disturbed = @ \/ g]
    BY DEF Replaced
  <2> QED BY <1>3, <2>1, Disturbed
<1> HIDE DEF old, new
<1>6. FrameOK(i, new)
  BY <1>3, <1>5 DEF FrameOK, old
<1>7. OpenOK(new, stack')
  BY <1>3, <1>4, <1>5 DEF OpenOK, old
<1>8. ViewOK(i, new, arena', buffer')
  <2>1. CASE old.op = "serialize" /\ old.pc = "write"
    <3>1. arena' = arena
      BY <1>4, <2>1 DEF old
    <3>2. /\ arena.owner = i /\ arena.view \in 0 .. buffer
          /\ arena.view # buffer => old.disturbed
          /\ old.lost => /\ old.open # <<>> /\ old.open[Len(old.open)].what = Bools
                         /\ arena.view # buffer
      BY <1>3, <2>1 DEF ViewOK, old
    <3>3. arena.view \in 0 .. buffer' /\ (arena.view # buffer => arena.view # buffer')
      BY <1>1, <3>2
    <3>4. arena.view # buffer' => new.disturbed
      BY <1>5, <3>2
    <3> QED BY <1>5, <2>1, <3>1, <3>2, <3>3, <3>4 DEF ViewOK
  <2>2. CASE old.op = "deserialize" /\ old.pc = "read"
    <3>1. /\ old.view <= buffer /\ (old.view # buffer => old.disturbed)
          /\ old.lost => old.view # buffer
      BY <1>3, <2>2 DEF ViewOK, old
    <3>2. old.view \in Nat
      BY <1>3, SessionAssumption DEF Frame, old
    <3>3. old.view <= buffer' /\ (old.view # buffer => old.view # buffer')
      BY <1>1, <3>1, <3>2
    <3>4. old.view # buffer' => new.disturbed
      BY <1>5, <3>1
    <3> QED BY <1>5, <2>2, <3>1, <3>3, <3>4 DEF ViewOK
  <2> QED BY <1>5, <2>1, <2>2 DEF ViewOK
<1> QED BY <1>3, <1>5, <1>6, <1>7, <1>8 DEF old, new

\* A step of the innermost call.
LEMMA TopStep ==
  ASSUME SInv, NEW f, NEW g \in BOOLEAN, Replaced(frames, frames', f, g),
         frames # <<>>, f.op = F.op,
         buffer' \in 0 .. MaxGrowth, buffer <= buffer', buffer' # buffer => g,
         arena' \in Arena, arena' = arena \/ F.op = "serialize",
         stack' \in Seq(Objects), stack' = stack \/ F.op = "serialize",
         set' \in [members : SUBSET Objects, on : BOOLEAN], CycleOK(stack', set'),
         calls' \in calls .. MaxCalls,
         UNCHANGED <<serializationActive, deserializationActive>>,
         FrameOK(Len(frames), f), ViewOK(Len(frames), f, arena', buffer'),
         OpenOK(f, stack'),
         f.pc = "schema" <=> schemaPhase' # "idle",
         \A x : x \in live' <=>
           x \in f.held \/ \E i \in 1 .. Len(frames) - 1 : x \in frames[i].held
  PROVE  SInv'
<1> DEFINE n == Len(frames)
<1>1. /\ n \in Nat \ {0} /\ F = frames[n] /\ frames \in Seq(Frame)
      /\ calls \in 0 .. MaxCalls /\ n <= calls
  BY FrontLast DEF SInv, SessionTypes, F
<1>2. frames' \in Seq(Frame) /\ Len(frames') = n /\ frames'[n] = f
  BY DEF Replaced
<1>3. \A i \in 1 .. n - 1 :
        /\ FrameOK(i, frames'[i]) /\ ViewOK(i, frames'[i], arena', buffer')
        /\ OpenOK(frames'[i], stack') /\ frames'[i].pc \in {"read", "write"}
        /\ frames'[i].op = frames[i].op /\ frames'[i].held = frames[i].held
  BY LowerFrames
<1> HIDE DEF n
<1>4. \A i \in 1 .. n : i = n \/ i \in 1 .. n - 1
  BY <1>1
<1>5. SessionTypes'
  BY <1>1, <1>2 DEF SInv, SessionTypes
<1>6. \A i \in 1 .. n : /\ FrameOK(i, frames'[i])
                        /\ ViewOK(i, frames'[i], arena', buffer')
                        /\ OpenOK(frames'[i], stack')
  BY <1>2, <1>3, <1>4 DEF n
<1>7. OrderInv'
  <2>1. \A i \in 1 .. n : i < n => frames'[i].pc \in {"read", "write"}
    BY <1>3, <1>4
  <2>2. frames' # <<>>
    BY <1>1, <1>2
  <2> QED BY <1>2, <2>1, <2>2 DEF OrderInv
<1>8. \A i \in 1 .. n : frames'[i].op = frames[i].op
  BY <1>1, <1>2, <1>3, <1>4
<1>9. FlagInv'
  BY <1>2, <1>8, ZenonT(30) DEF SInv, FlagInv, n
<1>10. LiveInv'
  <2> SUFFICES ASSUME NEW x
               PROVE  x \in live' <=> \E i \in 1 .. n : x \in frames'[i].held
    BY <1>2 DEF LiveInv
  <2>1. n \in 1 .. n /\ 1 .. n - 1 \subseteq 1 .. n
    BY <1>1
  <2>2. x \in live' <=> x \in f.held \/ \E i \in 1 .. n - 1 : x \in frames[i].held
    BY DEF n
  <2> QED BY <1>2, <1>3, <1>4, <2>1, <2>2
<1>11. ~serializationActive' => stack' = <<>>
  <2>1. F.op = "serialize" => serializationActive
    <3>1. n \in 1 .. Len(frames)
      BY <1>1 DEF n
    <3> QED BY <1>1, <3>1 DEF SInv, FlagInv
  <2> QED BY <2>1 DEF SInv
<1> QED BY <1>2, <1>5, <1>6, <1>7, <1>9, <1>10, <1>11 DEF SInv

\* What is known of the innermost call.
LEMMA TopFrame ==
  ASSUME SInv, frames # <<>>
  PROVE  /\ Len(frames) \in Nat \ {0} /\ Len(frames) \in 1 .. Len(frames)
         /\ F = frames[Len(frames)] /\ F \in Frame /\ frames \in Seq(Frame)
         /\ FrameOK(Len(frames), F) /\ ViewOK(Len(frames), F, arena, buffer)
         /\ OpenOK(F, stack)
         /\ F.pc = "schema" <=> schemaPhase # "idle"
         /\ \A x : x \in live <=>
              x \in F.held \/ \E i \in 1 .. Len(frames) - 1 : x \in frames[i].held
<1> DEFINE n == Len(frames)
<1>1. n \in Nat \ {0} /\ F = frames[n] /\ F \in Frame /\ frames \in Seq(Frame)
  BY FrontLast DEF SInv, SessionTypes, F
<1> HIDE DEF n
<1>2. n \in 1 .. n /\ \A i \in 1 .. n : i = n \/ i \in 1 .. n - 1
  BY <1>1
<1>3. FrameOK(n, F) /\ ViewOK(n, F, arena, buffer) /\ OpenOK(F, stack)
  BY <1>1, <1>2 DEF SInv, n
<1>4. F.pc = "schema" <=> schemaPhase # "idle"
  BY <1>1, <1>2 DEF SInv, OrderInv, n
<1>5. \A x : x \in live <=> \E i \in 1 .. n : x \in frames[i].held
  BY DEF SInv, LiveInv, n
<1>6. \A i \in 1 .. n - 1 : i \in 1 .. n
  BY <1>1
<1>7. \A x : x \in live <=> x \in F.held \/ \E i \in 1 .. n - 1 : x \in frames[i].held
  BY <1>1, <1>2, <1>5, <1>6
<1> QED BY <1>1, <1>2, <1>3, <1>4, <1>7 DEF n

\* An error leaves the call as it is, whatever is wrong with its views.
LEMMA UnwindingOK ==
  ASSUME NEW i, NEW f, FrameOK(i, f), NEW why \in Reasons,
         why = "detached" => f.disturbed
  PROVE  /\ FrameOK(i, Unwinding(f, why))
         /\ \A a, b : ViewOK(i, Unwinding(f, why), a, b)
         /\ \A s : OpenOK(f, s) => OpenOK(Unwinding(f, why), s)
         /\ Unwinding(f, why).op = f.op /\ Unwinding(f, why).pc = "unwind"
         /\ Unwinding(f, why).held = f.held /\ Unwinding(f, why).open = f.open
         /\ Unwinding(f, why).lost = f.lost /\ Unwinding(f, why).disturbed = f.disturbed
         /\ Unwinding(f, why) \in Frame
<1> DEFINE u == Unwinding(f, why)
<1>1. f \in Frame
  BY DEF FrameOK
<1>2. /\ u \in Frame /\ u.op = f.op /\ u.pc = "unwind" /\ u.open = f.open
      /\ u.held = f.held /\ u.disturbed = f.disturbed /\ u.why = why /\ u.lost = f.lost
  BY <1>1 DEF Frame, Unwinding
<1> HIDE DEF u
<1>3. FrameOK(i, u)
  BY <1>2 DEF FrameOK
<1>4. \A a, b : ViewOK(i, u, a, b)
  BY <1>2 DEF ViewOK
<1>5. \A s : OpenOK(f, s) => OpenOK(u, s)
  BY <1>2 DEF OpenOK
<1> QED BY <1>2, <1>3, <1>4, <1>5 DEF u

\* User code starts a call.
LEMMA PushStep ==
  ASSUME SInv, NEW op \in {"serialize", "deserialize", "native"},
         NEW need \in Seq(BlockNames), op = "native" => need # <<>>,
         StartCall(NewFrame(op, need)),
         UNCHANGED <<buffer, arena, stack, set, live>>,
         op = "serialize" => ~serializationActive,
         op = "deserialize" => ~deserializationActive,
         serializationActive' = (serializationActive \/ op = "serialize"),
         deserializationActive' = (deserializationActive \/ op = "deserialize"),
         op # "native" => schemaPhase' # "idle",
         op = "native" => schemaPhase' = schemaPhase
  PROVE  SInv'
<1> USE SessionAssumption
<1> DEFINE n == Len(frames)
           new == NewFrame(op, need)
<1>1. /\ new \in Frame /\ new.op = op /\ new.open = <<>> /\ new.held = {} /\ ~new.lost
      /\ new.pc = (IF op = "native" THEN "alloc" ELSE "schema")
      /\ new.need = need /\ new.why = ""
  <2> DEFINE pc == IF op = "native" THEN "alloc" ELSE "schema"
  <2>1. /\ pc \in {"schema", "alloc"} /\ <<>> \in Seq(OpenNode)
        /\ 0 \in 0 .. MaxNodes /\ 0 \in 0 .. MaxGrowth
    <3>1. pc \in {"schema", "alloc"}
      OBVIOUS
    <3>2. <<>> \in Seq(OpenNode)
      OBVIOUS
    <3>3. 0 \in 0 .. MaxNodes /\ 0 \in 0 .. MaxGrowth
      OBVIOUS
    <3> QED BY <3>1, <3>2, <3>3
  <2>2. new = [op |-> op, pc |-> pc, open |-> <<>>, nodes |-> 0, view |-> 0,
               need |-> need, held |-> {}, lost |-> FALSE, disturbed |-> FALSE,
               why |-> ""]
    BY DEF NewFrame
  <2> HIDE DEF pc, new
  <2>3. new \in Frame
    BY <2>1, <2>2 DEF Frame, Reasons
  <2> QED BY <2>2, <2>3 DEF pc
<1>2. /\ frames \in Seq(Frame) /\ n \in Nat /\ calls \in 0 .. MaxCalls /\ n <= calls
      /\ calls < MaxCalls /\ calls' = calls + 1 /\ frames' = Append(frames, new)
  BY DEF StartCall, SInv, SessionTypes
<1> HIDE DEF new
<1>3. /\ frames' \in Seq(Frame) /\ Len(frames') = n + 1 /\ frames'[n + 1] = new
      /\ \A i \in 1 .. n : frames'[i] = frames[i]
      /\ frames' # <<>>
  <2>1. /\ Append(frames, new) \in Seq(Frame) /\ Len(Append(frames, new)) = n + 1
        /\ Append(frames, new)[n + 1] = new
        /\ \A i \in 1 .. n : Append(frames, new)[i] = frames[i]
        /\ Append(frames, new) # <<>>
    <3>1. frames \in Seq(Frame) /\ new \in Frame
      BY <1>1, <1>2
    <3> QED BY <3>1, AppendLast
  <2> QED BY <1>2, <2>1
<1>4. \A i \in 1 .. n : frames[i].pc \in {"read", "write"}
  <2>1. frames # <<>> => F = frames[n] /\ n \in 1 .. n
    BY TopFrame
  <2>2. n \in 1 .. n => frames[n].pc \in {"read", "write"}
    BY <2>1, <1>2 DEF StartCall, UserCode
  <2>3. \A i \in 1 .. n : i < n => frames[i].pc \in {"read", "write"}
    BY DEF SInv, OrderInv
  <2> HIDE DEF n
  <2>4. \A i \in 1 .. n : i = n \/ i < n
    BY <1>2
  <2> QED BY <2>2, <2>3, <2>4
<1>5. schemaPhase = "idle"
  <2>1. CASE frames = <<>>
    BY <2>1 DEF SInv, OrderInv
  <2>2. CASE frames # <<>>
    BY <1>4, <2>2, TopFrame
  <2> QED BY <2>1, <2>2
<1> HIDE DEF n
<1>6. \A i \in 1 .. n + 1 : i = n + 1 \/ (i \in 1 .. n /\ i < n + 1)
  BY <1>2
<1>7. n + 1 \in 1 .. n + 1 /\ \A i \in 1 .. n : i \in 1 .. n + 1 /\ i # n + 1
  BY <1>2
<1>8. \A i \in 1 .. n : /\ FrameOK(i, frames[i]) /\ ViewOK(i, frames[i], arena, buffer)
                        /\ OpenOK(frames[i], stack)
  BY DEF SInv, n
<1>9. /\ FrameOK(n + 1, new) /\ ViewOK(n + 1, new, arena, buffer)
  BY <1>1 DEF FrameOK, ViewOK
<1>10. OpenOK(new, stack)
  <2>1. op = "serialize" => stack = <<>>
    BY DEF SInv
  <2>2. new.op = "serialize" => Len(new.open) = 0 /\ Len(stack) = 0
    <3>1. Len(<<>>) = 0
      OBVIOUS
    <3> QED BY <1>1, <2>1, <3>1
  <2> QED BY <2>2 DEF OpenOK
<1>11. \A i \in 1 .. n + 1 :
         /\ FrameOK(i, frames'[i]) /\ ViewOK(i, frames'[i], arena', buffer')
         /\ OpenOK(frames'[i], stack')
  BY <1>3, <1>6, <1>8, <1>9, <1>10
<1>12. SessionTypes'
  BY <1>2, <1>3 DEF SInv, SessionTypes
<1>13. OrderInv'
  <2>1. \A i \in 1 .. n + 1 : i < n + 1 => frames'[i].pc \in {"read", "write"}
    BY <1>3, <1>4, <1>6
  <2>2. new.pc = "schema" <=> schemaPhase' # "idle"
    BY <1>1, <1>5
  <2> QED BY <1>3, <2>1, <2>2 DEF OrderInv
<1>14. FlagInv'
  <2>1. /\ \A i, k \in 1 .. n :
             frames[i].op = frames[k].op /\ frames[i].op # "native" => i = k
        /\ serializationActive <=> \E i \in 1 .. n : frames[i].op = "serialize"
        /\ deserializationActive <=> \E i \in 1 .. n : frames[i].op = "deserialize"
    BY DEF SInv, FlagInv, n
  <2>2. \A i \in 1 .. n : frames[i].op # op \/ op = "native"
    BY <2>1
  <2>3. \A i, k \in 1 .. n + 1 :
          frames'[i].op = frames'[k].op /\ frames'[i].op # "native" => i = k
    <3> SUFFICES ASSUME NEW i \in 1 .. n + 1, NEW k \in 1 .. n + 1,
                        frames'[i].op = frames'[k].op, frames'[i].op # "native"
                 PROVE  i = k
      OBVIOUS
    <3>1. CASE i \in 1 .. n /\ k \in 1 .. n
      BY <1>3, <2>1, <3>1
    <3>2. CASE i = n + 1 /\ k \in 1 .. n
      BY <1>1, <1>3, <2>2, <3>2
    <3>3. CASE i \in 1 .. n /\ k = n + 1
      BY <1>1, <1>3, <2>2, <3>3
    <3> QED BY <1>6, <3>1, <3>2, <3>3
  <2>4. serializationActive' <=> \E i \in 1 .. n + 1 : frames'[i].op = "serialize"
    BY <1>1, <1>3, <1>6, <1>7, <2>1
  <2>5. deserializationActive' <=> \E i \in 1 .. n + 1 : frames'[i].op = "deserialize"
    BY <1>1, <1>3, <1>6, <1>7, <2>1
  <2> QED BY <1>3, <2>3, <2>4, <2>5 DEF FlagInv
<1>15. LiveInv'
  <2>1. \A x : x \in live <=> \E i \in 1 .. n : x \in frames[i].held
    BY DEF SInv, LiveInv, n
  <2>2. \A x : x \in live <=> \E i \in 1 .. n + 1 : x \in frames'[i].held
    BY <1>1, <1>3, <1>6, <1>7, <2>1
  <2> QED BY <1>3, <2>2 DEF LiveInv
<1> QED BY <1>3, <1>11, <1>12, <1>13, <1>14, <1>15 DEF SInv

\* User code makes a call that is refused.
LEMMA RefuseStep ==
  ASSUME SInv, Refuse,
         UNCHANGED <<buffer, arena, serializationActive, deserializationActive, stack,
                     set, live, schemaVars>>
  PROVE  SInv'
<1>1. /\ calls \in 0 .. MaxCalls /\ calls < MaxCalls /\ calls' = calls + 1
      /\ Len(frames) \in Nat /\ Len(frames) <= calls /\ UserCode
      /\ frames' \in Caught(frames)
  BY SessionAssumption DEF SInv, SessionTypes, Refuse
<1>2. schemaPhase' = schemaPhase
  BY DEF schemaVars
<1>3. CASE frames' = frames
  <2>1. SessionTypes'
    <3>1. Len(frames) <= calls + 1 /\ calls + 1 \in 0 .. MaxCalls
      BY <1>1, SessionAssumption
    <3> QED BY <1>1, <1>3, <3>1 DEF SInv, SessionTypes
  <2>2. OrderInv' /\ FlagInv' /\ LiveInv'
    BY <1>2, <1>3 DEF SInv, OrderInv, FlagInv, LiveInv
  <2> QED BY <1>3, <2>1, <2>2 DEF SInv
<1>4. CASE frames # <<>> /\ frames' = Append(Front(frames), Unwinding(Last(frames), "user"))
  <2> DEFINE f == Unwinding(F, "user")
  <2>1. /\ F \in Frame /\ frames \in Seq(Frame) /\ FrameOK(Len(frames), F)
        /\ OpenOK(F, stack) /\ schemaPhase = "idle"
        /\ \A x : x \in live <=>
             x \in F.held \/ \E i \in 1 .. Len(frames) - 1 : x \in frames[i].held
    BY <1>1, <1>4, TopFrame DEF UserCode
  <2>2. /\ FrameOK(Len(frames), f) /\ ViewOK(Len(frames), f, arena', buffer')
        /\ OpenOK(f, stack') /\ f.op = F.op /\ f.pc = "unwind" /\ f.held = F.held
        /\ f \in Frame
    BY <2>1, UnwindingOK DEF Reasons
  <2>3. frames' = Append(Front(frames), f)
    BY <1>4 DEF F
  <2> HIDE DEF f
  <2>4. Replaced(frames, frames', f, FALSE)
    BY <1>4, <2>1, <2>2, <2>3, AppendReplaces
  <2>5. /\ buffer' \in 0 .. MaxGrowth /\ buffer <= buffer' /\ arena' \in Arena
        /\ stack' \in Seq(Objects) /\ set' \in [members : SUBSET Objects, on : BOOLEAN]
        /\ CycleOK(stack', set') /\ calls' \in calls .. MaxCalls
    BY <1>1, SessionAssumption DEF SInv, SessionTypes
  <2>6. f.pc = "schema" <=> schemaPhase' # "idle"
    BY <1>2, <2>1, <2>2
  <2>7. \A x : x \in live' <=>
          x \in f.held \/ \E i \in 1 .. Len(frames) - 1 : x \in frames[i].held
    BY <2>1, <2>2
  <2> QED BY <1>4, <2>2, <2>4, <2>5, <2>6, <2>7, TopStep
<1> QED BY <1>1, <1>3, <1>4 DEF Caught

\* The innermost call ends, and user code goes on or passes its error on.
LEMMA PopStep ==
  ASSUME SInv, frames # <<>>, F.pc \in {"return", "unwind"}, F.open = <<>>, Finally,
         frames' \in Caught(Front(frames)),
         UNCHANGED <<calls, buffer, arena, stack, set, schemaVars>>
  PROVE  SInv'
<1> DEFINE n == Len(frames)
           m == n - 1
<1>1. /\ n \in Nat \ {0} /\ F = frames[n] /\ F \in Frame /\ frames \in Seq(Frame)
      /\ n \in 1 .. n /\ FrameOK(n, F) /\ OpenOK(F, stack)
      /\ schemaPhase = "idle"
      /\ \A x : x \in live <=>
           x \in F.held \/ \E i \in 1 .. m : x \in frames[i].held
  BY TopFrame
<1>2. /\ Front(frames) \in Seq(Frame) /\ Len(Front(frames)) = m
      /\ \A i \in 1 .. m : Front(frames)[i] = frames[i]
      /\ Front(frames) = <<>> <=> m = 0
  BY <1>1, FrontLast
<1>3. calls \in 0 .. MaxCalls /\ n <= calls /\ m \in Nat /\ m <= calls
  BY <1>1 DEF SInv, SessionTypes
<1> HIDE DEF n, m
<1>4. \A i \in 1 .. m : i \in 1 .. n /\ i < n /\ i # n
  BY <1>1 DEF m
<1>5. \A i \in 1 .. m :
        /\ frames[i] \in Frame /\ FrameOK(i, frames[i])
        /\ ViewOK(i, frames[i], arena, buffer)
        /\ OpenOK(frames[i], stack) /\ frames[i].pc \in {"read", "write"}
  BY <1>4 DEF SInv, OrderInv, FrameOK, n
<1>6. /\ frames' \in Seq(Frame) /\ Len(frames') = m
      /\ \A i \in 1 .. m : \/ frames'[i] = frames[i]
                           \/ i = m /\ frames'[i] = Unwinding(frames[i], "user")
      /\ frames' = <<>> <=> m = 0
  <2>1. CASE frames' = Front(frames)
    BY <1>2, <2>1
  <2>2. CASE /\ Front(frames) # <<>>
             /\ frames' = Append(Front(Front(frames)),
                                 Unwinding(Last(Front(frames)), "user"))
    <3> DEFINE fr == Front(frames)
               f == Unwinding(Last(fr), "user")
    <3>1. fr \in Seq(Frame) /\ Len(fr) = m /\ fr # <<>> /\ m \in Nat \ {0}
      BY <1>2, <1>3, <2>2
    <3> HIDE DEF fr
    <3>2. Last(fr) = fr[m] /\ fr[m] = frames[m] /\ m \in 1 .. m
      <4>1. m \in 1 .. m
        BY <3>1
      <4>2. Last(fr) = fr[m]
        BY <3>1, FrontLast
      <4> QED BY <1>2, <4>1, <4>2 DEF fr
    <3>3. f = Unwinding(frames[m], "user") /\ f \in Frame
      BY <1>5, <3>2, UnwindingOK, ZenonT(30) DEF Reasons
    <3> HIDE DEF f
    <3>4. Replaced(fr, Append(Front(fr), f), f, FALSE)
      BY <3>1, <3>3, AppendReplaces
    <3>5. frames' = Append(Front(fr), f)
      BY <2>2 DEF fr, f
    <3>6. Replaced(fr, frames', f, FALSE)
      BY <3>4, <3>5
    <3>7. frames' \in Seq(Frame) /\ Len(frames') = m /\ frames'[m] = f
      BY <3>1, <3>6 DEF Replaced
    <3>8. \A i \in 1 .. m - 1 : frames'[i] = frames[i]
      <4>1. \A i \in 1 .. m - 1 : frames'[i] = [fr[i] EXCEPT !.disturbed = @ \/ FALSE]
        BY <3>1, <3>6 DEF Replaced
      <4>2. \A i \in 1 .. m - 1 : fr[i] = frames[i] /\ frames[i] \in Frame
        BY <1>2, <1>3, <1>5 DEF fr
      <4>3. \A x \in Frame : [x EXCEPT !.disturbed = @ \/ FALSE] = x
        BY Disturbed
      <4> QED BY <4>1, <4>2, <4>3
    <3>9. \A i \in 1 .. m : i = m \/ i \in 1 .. m - 1
      BY <1>3
    <3> QED BY <3>1, <3>3, <3>7, <3>8, <3>9
  <2> QED BY <2>1, <2>2 DEF Caught
<1>7. ASSUME NEW i \in 1 .. m
      PROVE  /\ FrameOK(i, frames'[i]) /\ ViewOK(i, frames'[i], arena, buffer)
             /\ OpenOK(frames'[i], stack)
             /\ frames'[i].op = frames[i].op /\ frames'[i].held = frames[i].held
             /\ frames'[i].pc # "schema"
             /\ i < m => frames'[i].pc \in {"read", "write"}
  <2>1. CASE frames'[i] = frames[i]
    BY <1>5, <2>1
  <2>2. CASE i = m /\ frames'[i] = Unwinding(frames[i], "user")
    <3>1. ~(i < m)
      BY <1>3, <2>2
    <3>2. FrameOK(i, frames[i]) /\ OpenOK(frames[i], stack) /\ "user" \in Reasons
      BY <1>5 DEF Reasons
    <3> DEFINE u == Unwinding(frames[i], "user")
    <3>3. /\ FrameOK(i, u) /\ ViewOK(i, u, arena, buffer) /\ OpenOK(u, stack)
          /\ u.op = frames[i].op /\ u.held = frames[i].held /\ u.pc = "unwind"
      BY <3>2, UnwindingOK
    <3> HIDE DEF u
    <3>4. frames'[i] = u
      BY <2>2 DEF u
    <3> QED BY <3>1, <3>3, <3>4
  <2> QED BY <1>6, <2>1, <2>2
<1>8. SessionTypes'
  <2>1. serializationActive' \in BOOLEAN /\ deserializationActive' \in BOOLEAN
    BY DEF Finally, SInv, SessionTypes
  <2> QED BY <1>3, <1>6, <2>1 DEF SInv, SessionTypes
<1>9. OrderInv'
  <2>1. schemaPhase' = "idle"
    BY <1>1 DEF schemaVars
  <2> QED BY <1>6, <1>7, <2>1 DEF OrderInv
<1>10. FlagInv'
  <2>1. /\ \A i, k \in 1 .. n :
             frames[i].op = frames[k].op /\ frames[i].op # "native" => i = k
        /\ serializationActive <=> \E i \in 1 .. n : frames[i].op = "serialize"
        /\ deserializationActive <=> \E i \in 1 .. n : frames[i].op = "deserialize"
    BY DEF SInv, FlagInv, n
  <2>2. \A i \in 1 .. n : i = n \/ i \in 1 .. m
    BY <1>1 DEF m
  <2>3. ASSUME NEW i \in 1 .. m
        PROVE  frames[i].op # F.op \/ F.op = "native"
    <3>1. i \in 1 .. n /\ i # n
      BY <1>4
    <3> QED BY <1>1, <2>1, <3>1
  <2>4. serializationActive' <=> \E i \in 1 .. m : frames[i].op = "serialize"
    BY <1>1, <1>4, <2>1, <2>2, <2>3 DEF Finally
  <2>5. deserializationActive' <=> \E i \in 1 .. m : frames[i].op = "deserialize"
    BY <1>1, <1>4, <2>1, <2>2, <2>3 DEF Finally
  <2>6. \A i, k \in 1 .. m :
          frames'[i].op = frames'[k].op /\ frames'[i].op # "native" => i = k
    BY <1>4, <1>7, <2>1
  <2>7. /\ serializationActive' <=> \E i \in 1 .. m : frames'[i].op = "serialize"
        /\ deserializationActive' <=> \E i \in 1 .. m : frames'[i].op = "deserialize"
    BY <1>7, <2>4, <2>5
  <2> QED BY <1>6, <2>6, <2>7 DEF FlagInv
<1>11. LiveInv'
  <2>1. \A b \in F.held : b[1] = n
    BY <1>1 DEF FrameOK
  <2>2. \A i \in 1 .. m : \A b \in frames[i].held : b[1] = i
    BY <1>5 DEF FrameOK
  <2>3. \A x : x \in live' <=> \E i \in 1 .. m : x \in frames[i].held
    BY <1>1, <1>4, <2>1, <2>2 DEF Finally
  <2>4. \A x : x \in live' <=> \E i \in 1 .. m : x \in frames'[i].held
    BY <1>7, <2>3
  <2> QED BY <1>6, <2>4 DEF LiveInv
<1>12. ~serializationActive' => stack' = <<>>
  <2>1. F.op = "serialize" => stack = <<>>
    <3>1. stack \in Seq(Objects) /\ Len(F.open) = 0
      BY DEF SInv, SessionTypes
    <3>2. F.op = "serialize" => Len(stack) = 0
      BY <1>1, <3>1 DEF OpenOK
    <3> QED BY <3>1, <3>2
  <2> QED BY <2>1 DEF SInv, Finally
<1> QED BY <1>6, <1>7, <1>8, <1>9, <1>10, <1>11, <1>12 DEF SInv

\* A call into WASM replaces the innermost call.
LEMMA EnterReplaces ==
  ASSUME SInv, frames # <<>>, NEW f \in Frame, Enter(f)
  PROVE  \E g \in BOOLEAN :
           /\ Replaced(frames, frames', f, g)
           /\ buffer' \in 0 .. MaxGrowth /\ buffer <= buffer' /\ (buffer' # buffer => g)
<1>1. buffer \in 0 .. MaxGrowth /\ frames \in Seq(Frame) /\ MaxGrowth \in Nat
  BY SessionAssumption DEF SInv, SessionTypes
<1>2. PICK b \in buffer .. buffer + 1 :
        b <= MaxGrowth /\ buffer' = b /\ Continue(f, b # buffer)
  BY DEF Enter
<1>3. PICK g \in BOOLEAN : g = (b # buffer)
  OBVIOUS
<1>4. Continue(f, g)
  BY <1>2, <1>3
<1>5. Replaced(frames, frames', f, g)
  BY <1>1, <1>4, ContinueReplaces
<1>6. buffer' \in 0 .. MaxGrowth /\ buffer <= buffer' /\ (buffer' # buffer => g)
  <2>1. buffer' \in 0 .. MaxGrowth /\ buffer <= buffer'
    BY <1>1, <1>2
  <2>2. b # buffer => g
    BY <1>3
  <2> QED BY <1>2, <2>1, <2>2
<1> QED BY <1>5, <1>6

\* The innermost call becomes f, with or without growth of the memory.
Becomes(f) == Enter(f) \/ (Continue(f, FALSE) /\ buffer' = buffer)

LEMMA BecomesReplaces ==
  ASSUME SInv, frames # <<>>, NEW f \in Frame, Becomes(f)
  PROVE  \E g \in BOOLEAN :
           /\ Replaced(frames, frames', f, g)
           /\ buffer' \in 0 .. MaxGrowth /\ buffer <= buffer' /\ (buffer' # buffer => g)
<1>1. CASE Enter(f)
  BY <1>1, EnterReplaces
<1>2. CASE Continue(f, FALSE) /\ buffer' = buffer
  <2>1. buffer \in 0 .. MaxGrowth /\ frames \in Seq(Frame)
    BY DEF SInv, SessionTypes
  <2>2. Replaced(frames, frames', f, FALSE)
    BY <1>2, <2>1, ContinueReplaces
  <2>3. buffer' \in 0 .. MaxGrowth /\ buffer <= buffer'
    BY <1>2, <2>1, SessionAssumption
  <2> QED BY <1>2, <2>2, <2>3
<1> QED BY <1>1, <1>2 DEF Becomes

\* A step of the innermost call that leaves the arena and the cycle stack.
LEMMA PlainStep ==
  ASSUME SInv, frames # <<>>, NEW f, Becomes(f), f.op = F.op,
         UNCHANGED <<calls, arena, serializationActive, deserializationActive, stack, set>>,
         FrameOK(Len(frames), f), ViewOK(Len(frames), f, arena, buffer'),
         OpenOK(f, stack),
         f.pc = "schema" <=> schemaPhase' # "idle",
         \A x : x \in live' <=>
           x \in f.held \/ \E i \in 1 .. Len(frames) - 1 : x \in frames[i].held
  PROVE  SInv'
<1>1. f \in Frame
  BY DEF FrameOK
<1>2. PICK g \in BOOLEAN :
        /\ Replaced(frames, frames', f, g)
        /\ buffer' \in 0 .. MaxGrowth /\ buffer <= buffer' /\ (buffer' # buffer => g)
  BY <1>1, BecomesReplaces
<1>3. /\ arena' \in Arena /\ stack' \in Seq(Objects) /\ CycleOK(stack', set')
      /\ set' \in [members : SUBSET Objects, on : BOOLEAN]
      /\ calls' \in calls .. MaxCalls
  BY SessionAssumption DEF SInv, SessionTypes
<1>4. ViewOK(Len(frames), f, arena', buffer') /\ OpenOK(f, stack')
  OBVIOUS
<1> QED BY <1>2, <1>3, <1>4, TopStep

\* The innermost call fails.
LEMMA FailStep ==
  ASSUME SInv, frames # <<>>, NEW why \in Reasons, why = "detached" => F.disturbed,
         Becomes(Unwinding(F, why)),
         UNCHANGED <<calls, arena, serializationActive, deserializationActive, stack,
                     set, live>>,
         schemaPhase' = "idle"
  PROVE  SInv'
<1> DEFINE f == Unwinding(F, why)
<1>1. /\ FrameOK(Len(frames), F) /\ OpenOK(F, stack)
      /\ \A x : x \in live <=>
           x \in F.held \/ \E i \in 1 .. Len(frames) - 1 : x \in frames[i].held
  BY TopFrame
<1>2. /\ FrameOK(Len(frames), f) /\ ViewOK(Len(frames), f, arena, buffer')
      /\ OpenOK(f, stack) /\ f.op = F.op /\ f.pc = "unwind" /\ f.held = F.held
  BY <1>1, UnwindingOK
<1> HIDE DEF f
<1>3. Becomes(f)
  BY DEF f
<1>4. \A x : x \in live' <=>
        x \in f.held \/ \E i \in 1 .. Len(frames) - 1 : x \in frames[i].held
  BY <1>1, <1>2
<1> QED BY <1>2, <1>3, <1>4, PlainStep

\* Steps that leave initialization and schemas alone, except for a failure.
LEMMA Kept ==
  ASSUME InitInv, RegInv, UNCHANGED <<initVars, restOfSchema>>,
         faults' = faults \/ Fault
  PROVE  InitInv' /\ RegInv' /\ schemaPhase' = schemaPhase
<1>1. faults \in 0 .. MaxFaults
  BY DEF RegInv, SchemaTypes
<1>2. faults' \in 0 .. MaxFaults /\ (faults' = 0 => faults = 0)
  BY <1>1, SchemaAssumption DEF Fault
<1>3. RegInv'
  BY <1>2, FaultInv
<1>4. InitInv'
  BY DEF initVars, InitInv, InitTypeOK
<1> QED BY <1>3, <1>4 DEF restOfSchema

\* What every step keeps.
Inv == InitInv /\ RegInv /\ SInv

\* compiledSchemaHandle goes on until it has returned or thrown.
LEMMA SchemaBusy ==
  ASSUME RegInv, BuildStep \/ RegisterStep
  PROVE  schemaPhase' # "idle"
<1>1. CASE BuildField \/ ResolverThrows \/ BuildDone \/ AlreadyRegistered
  BY <1>1 DEF BuildField, ResolverThrows, BuildDone, AlreadyRegistered
<1>2. CASE Reserve \/ RegisterChild \/ Commit
  BY <1>2 DEF Reserve, RegisterChild, Commit, AllChildren, Reserved
<1>3. CASE ReserveFails \/ CommitRefused \/ CommitFails
  BY <1>3 DEF ReserveFails, CommitRefused, CommitFails, Rollback
<1> QED BY <1>1, <1>2, <1>3 DEF BuildStep, RegisterStep

LEMMA SchemaWorkInv ==
  ASSUME Inv, SchemaWork
  PROVE  Inv'
<1>1. /\ frames # <<>> /\ F.pc = "schema" /\ (BuildStep \/ RegisterStep)
      /\ (UNCHANGED <<buffer, frames>> \/ Enter(F))
      /\ UNCHANGED <<calls, arena, serializationActive, deserializationActive,
                     stack, set, live, initVars>>
  BY DEF SchemaWork, InSchema
<1>2. RegInv' /\ schemaPhase' # "idle" /\ InitInv'
  BY <1>1, SchemaStepInv, SchemaBusy DEF Inv, initVars, InitInv, InitTypeOK
<1>3. /\ FrameOK(Len(frames), F) /\ OpenOK(F, stack)
      /\ F \in Frame /\ frames \in Seq(Frame) /\ F = frames[Len(frames)]
      /\ \A x : x \in live <=>
           x \in F.held \/ \E i \in 1 .. Len(frames) - 1 : x \in frames[i].held
  BY <1>1, TopFrame DEF Inv
<1>4. CASE Enter(F)
  <2>1. ViewOK(Len(frames), F, arena, buffer')
    BY <1>1 DEF ViewOK
  <2>2. Becomes(F)
    BY <1>4 DEF Becomes
  <2>3. SInv'
    BY <1>1, <1>2, <1>3, <2>1, <2>2, PlainStep DEF Inv
  <2> QED BY <1>2, <2>3 DEF Inv
<1>5. CASE UNCHANGED <<buffer, frames>>
  <2>1. \A i \in 1 .. Len(frames) : i = Len(frames) => frames[i].pc = "schema"
    BY <1>1, <1>3
  <2>2. OrderInv'
    BY <1>1, <1>2, <1>5, <2>1 DEF Inv, SInv, OrderInv
  <2>3. SessionTypes' /\ FlagInv' /\ LiveInv'
    BY <1>1, <1>5 DEF Inv, SInv, SessionTypes, FlagInv, LiveInv
  <2> QED BY <1>1, <1>2, <1>5, <2>2, <2>3 DEF Inv, SInv
<1> QED BY <1>1, <1>4, <1>5

LEMMA SchemaEndsInv ==
  ASSUME Inv, SchemaEnds
  PROVE  Inv'
<1>1. /\ frames # <<>> /\ F.pc = "schema" /\ SchemaReturns
      /\ UNCHANGED <<calls, buffer, arena, serializationActive,
                     deserializationActive, stack, set, live, initVars>>
  BY DEF SchemaEnds, InSchema
<1>2. RegInv' /\ schemaPhase' = "idle" /\ InitInv'
  BY <1>1, SchemaReturnsInv DEF Inv, SchemaReturns, initVars, InitInv, InitTypeOK
<1>3. /\ FrameOK(Len(frames), F) /\ OpenOK(F, stack) /\ F \in Frame
      /\ \A x : x \in live <=>
           x \in F.held \/ \E i \in 1 .. Len(frames) - 1 : x \in frames[i].held
  BY <1>1, TopFrame DEF Inv
<1>4. CASE Continue(Unwinding(F, "schema"), FALSE)
  <2>1. Becomes(Unwinding(F, "schema"))
    BY <1>1, <1>4 DEF Becomes
  <2>2. SInv'
    BY <1>1, <1>2, <2>1, FailStep DEF Inv, Reasons
  <2> QED BY <1>2, <2>2 DEF Inv
<1>5. ASSUME NEW p \in {"arena", "plan"}, p = IF F.op = "serialize" THEN "arena" ELSE "plan",
             Continue([F EXCEPT !.pc = p], FALSE)
      PROVE  Inv'
  <2> DEFINE f == [F EXCEPT !.pc = p]
  <2>1. /\ f \in Frame /\ f.op = F.op /\ f.pc = p /\ f.open = F.open
        /\ f.need = F.need /\ f.held = F.held /\ f.lost = F.lost
        /\ f.disturbed = F.disturbed /\ f.why = F.why
    BY <1>3 DEF Frame
  <2>2. Becomes(f)
    BY <1>1, <1>5 DEF Becomes
  <2> HIDE DEF f
  <2>3. F.op # "native" /\ F.open = <<>> /\ ~F.lost /\ F.op \in {"serialize", "deserialize"}
    BY <1>1, <1>3 DEF FrameOK, Frame
  <2>4. FrameOK(Len(frames), f)
    BY <1>3, <1>5, <2>1, <2>3 DEF FrameOK
  <2>5. ViewOK(Len(frames), f, arena, buffer') /\ OpenOK(f, stack)
    BY <1>3, <2>1 DEF ViewOK, OpenOK
  <2>6. SInv'
    BY <1>1, <1>2, <1>3, <2>1, <2>2, <2>4, <2>5, PlainStep DEF Inv
  <2> QED BY <1>2, <2>6 DEF Inv
<1> QED BY <1>4, <1>5 DEF SchemaEnds

-----------------------------------------------------------------------------
(* serialize.                                                              *)

LEMMA CurrentArenaInv ==
  ASSUME Inv, CurrentArena
  PROVE  Inv'
<1> DEFINE f == [F EXCEPT !.pc = "write"]
           n == Len(frames)
<1>1. /\ frames # <<>> /\ F.op = "serialize" /\ F.pc = "arena"
      /\ arena' = [view |-> buffer, owner |-> n]
      /\ Continue(f, FALSE)
      /\ UNCHANGED <<calls, buffer, serializationActive, deserializationActive,
                     stack, set, live, initVars, schemaVars>>
  BY DEF CurrentArena, At
<1>2. InitInv' /\ RegInv' /\ schemaPhase' = schemaPhase
  BY <1>1, Kept DEF Inv, schemaVars, restOfSchema
<1>3. /\ FrameOK(n, F) /\ OpenOK(F, stack) /\ F \in Frame /\ schemaPhase = "idle"
      /\ frames \in Seq(Frame) /\ n \in Nat \ {0}
      /\ \A x : x \in live <=>
           x \in F.held \/ \E i \in 1 .. n - 1 : x \in frames[i].held
  BY <1>1, TopFrame DEF Inv
<1>4. /\ f \in Frame /\ f.op = F.op /\ f.pc = "write" /\ f.open = F.open
      /\ f.held = F.held /\ f.lost = F.lost /\ f.disturbed = F.disturbed /\ f.why = F.why
  BY <1>3 DEF Frame
<1>5. Replaced(frames, frames', f, FALSE)
  BY <1>1, <1>3, <1>4, ContinueReplaces
<1> HIDE DEF f
<1>6. /\ buffer \in 0 .. MaxGrowth /\ calls \in 0 .. MaxCalls /\ n <= calls
      /\ stack \in Seq(Objects) /\ CycleOK(stack, set)
      /\ set \in [members : SUBSET Objects, on : BOOLEAN]
      /\ MaxCalls \in Nat /\ MaxGrowth \in Nat
  BY SessionAssumption DEF Inv, SInv, SessionTypes
<1>7. /\ arena' \in Arena /\ arena'.owner = n /\ arena'.view = buffer
      /\ calls' \in calls .. MaxCalls /\ buffer <= buffer /\ buffer \in 0 .. buffer
  BY <1>1, <1>3, <1>6 DEF Arena
<1>8. FrameOK(n, f) /\ ~f.lost
  BY <1>1, <1>3, <1>4 DEF FrameOK
<1>9. ViewOK(n, f, arena', buffer')
  BY <1>1, <1>4, <1>7, <1>8 DEF ViewOK
<1>10. OpenOK(f, stack')
  BY <1>1, <1>3, <1>4 DEF OpenOK
<1>11. SInv'
  BY <1>1, <1>2, <1>3, <1>4, <1>5, <1>6, <1>7, <1>8, <1>9, <1>10, TopStep DEF Inv
<1> QED BY <1>2, <1>11 DEF Inv

\* What a write can do to the arena, and how it ends.
LEMMA WriteOutcome ==
  ASSUME Inv, At("serialize", "write"), NEW q \in Require, NEW r, r = WriteWord(q)
  PROVE  /\ r.buffer \in 0 .. MaxGrowth /\ buffer <= r.buffer
         /\ r.view \in 0 .. r.buffer
         /\ r.why \in {"", "memory", "detached"}
         /\ r.why = "" => r.view = r.buffer
         /\ r.why = "detached" => F.disturbed
         /\ r.why = "memory" => faults < MaxFaults
<1> DEFINE n == Len(frames)
<1>1. /\ buffer \in 0 .. MaxGrowth /\ MaxGrowth \in Nat /\ arena \in Arena
  BY SessionAssumption DEF Inv, SInv, SessionTypes
<1>2. ViewOK(n, F, arena, buffer) /\ F.op = "serialize" /\ F.pc = "write"
  BY TopFrame DEF Inv, At
<1>3. arena.view \in 0 .. buffer /\ (arena.view # buffer => F.disturbed)
  BY <1>2 DEF ViewOK
<1>4. ASSUME NEW b, NEW v, NEW why, q = Outcome(b, v, why)
      PROVE  /\ r.buffer = b /\ r.view = v
             /\ r.why = IF why = "" /\ v # b THEN "detached" ELSE why
  BY <1>4 DEF Outcome, WriteWord
<1>5. CASE q = Outcome(buffer, arena.view, "")
  <2>1. /\ r.buffer = buffer /\ r.view = arena.view
        /\ r.why = IF arena.view # buffer THEN "detached" ELSE ""
    BY <1>4, <1>5
  <2>2. buffer <= buffer
    BY <1>1
  <2> QED BY <1>1, <1>3, <2>1, <2>2
<1>6. ASSUME NEW b \in {buffer, buffer + 1} \cap 0 .. MaxGrowth, q = Outcome(b, b, "")
      PROVE  r.buffer = b /\ r.view = b /\ r.why = "" /\ buffer <= b /\ b \in 0 .. b
  <2>1. r.buffer = b /\ r.view = b /\ r.why = ""
    BY <1>4, <1>6
  <2>2. buffer <= b /\ b \in 0 .. b
    <3>1. b \in Nat /\ (b = buffer \/ b = buffer + 1)
      BY <1>1
    <3> QED BY <1>1, <3>1
  <2> QED BY <2>1, <2>2
<1>7. CASE faults < MaxFaults /\ q = Outcome(buffer, arena.view, "memory")
  <2>1. r.buffer = buffer /\ r.view = arena.view /\ r.why = "memory"
    BY <1>4, <1>7
  <2>2. buffer <= buffer
    BY <1>1
  <2> QED BY <1>1, <1>3, <1>7, <2>1, <2>2
<1>8. \/ q = Outcome(buffer, arena.view, "")
      \/ \E b \in {buffer, buffer + 1} \cap 0 .. MaxGrowth : q = Outcome(b, b, "")
      \/ faults < MaxFaults /\ q = Outcome(buffer, arena.view, "memory")
  BY DEF Require
<1> QED BY <1>5, <1>6, <1>7, <1>8

\* A write of f, the innermost call with a node more: whatever becomes of the
\* write, the node is open and its object is on the cycle stack.
LEMMA WriteStep ==
  ASSUME Inv, At("serialize", "write"), ~F.lost,
         NEW f, FrameOK(Len(frames), f), OpenOK(f, stack'), f.op = "serialize",
         f.pc = "write", ~f.lost, f.held = F.held, f.disturbed = F.disturbed,
         \E q \in Require : Written(f, WriteWord(q)),
         stack' \in Seq(Objects), CycleOK(stack', set'),
         set' \in [members : SUBSET Objects, on : BOOLEAN],
         UNCHANGED <<calls, serializationActive, deserializationActive, live,
                     initVars, restOfSchema>>
  PROVE  Inv'
<1> DEFINE n == Len(frames)
<1>1. PICK q \in Require : Written(f, WriteWord(q))
  OBVIOUS
<1>2. PICK r : r = WriteWord(q)
  OBVIOUS
<1>3. /\ r.buffer \in 0 .. MaxGrowth /\ buffer <= r.buffer
      /\ r.view \in 0 .. r.buffer
      /\ r.why \in {"", "memory", "detached"}
      /\ r.why = "" => r.view = r.buffer
      /\ r.why = "detached" => F.disturbed
      /\ r.why = "memory" => faults < MaxFaults
  BY <1>2, WriteOutcome
<1>4. /\ FrameOK(n, F) /\ ViewOK(n, F, arena, buffer) /\ F \in Frame
      /\ frames # <<>> /\ F.op = "serialize" /\ F.pc = "write"
      /\ schemaPhase = "idle" /\ frames \in Seq(Frame) /\ n \in Nat \ {0}
      /\ \A x : x \in live <=>
           x \in F.held \/ \E i \in 1 .. n - 1 : x \in frames[i].held
  BY TopFrame DEF Inv, At
<1>5. ~Overwritten
  BY <1>4 DEF ViewOK, Overwritten
<1> DEFINE g == [f EXCEPT !.lost = @ \/ Overwritten]
<1>6. f \in Frame /\ g = f
  <2>1. f \in Frame
    BY DEF FrameOK
  <2> QED BY <1>5, <2>1 DEF Frame
<1> DEFINE h == IF r.why = "" THEN f ELSE Unwinding(f, r.why)
<1>7. /\ buffer' = r.buffer
      /\ arena' = [arena EXCEPT !.view = r.view]
      /\ faults' = IF r.why = "memory" THEN faults + 1 ELSE faults
      /\ Continue(h, r.buffer # buffer)
  <2>1. Continue(IF r.why = "" THEN g ELSE Unwinding(g, r.why), r.buffer # buffer)
    BY <1>1, <1>2 DEF Written
  <2>2. Continue(h, r.buffer # buffer)
    BY <1>6, <2>1
  <2> QED BY <1>1, <1>2, <2>2 DEF Written
<1>8. InitInv' /\ RegInv' /\ schemaPhase' = schemaPhase
  <2>1. faults' = faults \/ Fault
    BY <1>3, <1>7 DEF Fault
  <2> QED BY <2>1, Kept DEF Inv
<1>9. /\ arena' \in Arena /\ arena'.owner = n /\ arena'.view = r.view
  <2>1. arena \in Arena /\ arena.owner = n /\ r.view \in -1 .. MaxGrowth
    <3>1. arena \in Arena /\ MaxGrowth \in Nat
      BY SessionAssumption DEF Inv, SInv, SessionTypes
    <3>2. r.view \in -1 .. MaxGrowth
      <4>1. PICK v, b : v = r.view /\ b = r.buffer
        OBVIOUS
      <4>2. b \in 0 .. MaxGrowth /\ v \in 0 .. b
        BY <1>3, <4>1
      <4>3. v \in -1 .. MaxGrowth
        BY <3>1, <4>2
      <4> QED BY <4>1, <4>3
    <3> QED BY <1>4, <3>1, <3>2 DEF ViewOK
  <2> QED BY <1>7, <2>1 DEF Arena
<1>10. FrameOK(n, h) /\ ViewOK(n, h, arena', buffer') /\ OpenOK(h, stack')
       /\ h.op = "serialize" /\ h.pc # "schema" /\ h.held = F.held /\ h \in Frame
  <2>1. CASE r.why = ""
    <3>1. ViewOK(n, f, arena', buffer')
      BY <1>3, <1>7, <1>9, <2>1 DEF ViewOK
    <3> QED BY <1>6, <2>1, <3>1
  <2>2. CASE r.why # ""
    <3>1. r.why \in Reasons /\ (r.why = "detached" => f.disturbed)
      BY <1>3 DEF Reasons
    <3>2. PICK why \in Reasons : why = r.why
      BY <3>1
    <3>3. h = Unwinding(f, why) /\ (why = "detached" => f.disturbed)
      BY <2>2, <3>1, <3>2
    <3> HIDE DEF h
    <3>4. /\ FrameOK(n, Unwinding(f, why))
          /\ ViewOK(n, Unwinding(f, why), arena', buffer')
          /\ OpenOK(Unwinding(f, why), stack')
          /\ Unwinding(f, why).op = f.op /\ Unwinding(f, why).pc = "unwind"
          /\ Unwinding(f, why).held = f.held /\ Unwinding(f, why) \in Frame
      BY <3>3, UnwindingOK
    <3> QED BY <3>3, <3>4
  <2> QED BY <2>1, <2>2
<1> HIDE DEF g, h, n
<1>11. PICK w \in BOOLEAN : w = (r.buffer # buffer)
  OBVIOUS
<1>12. Replaced(frames, frames', h, w)
  <2>1. Continue(h, w)
    BY <1>7, <1>11
  <2> QED BY <1>4, <1>10, <2>1, ContinueReplaces
<1>13. buffer' # buffer => w
  BY <1>7, <1>11
<1>14. /\ buffer' \in 0 .. MaxGrowth /\ buffer <= buffer' /\ calls' \in calls .. MaxCalls
  <2>1. calls \in 0 .. MaxCalls /\ MaxCalls \in Nat
    BY SessionAssumption DEF Inv, SInv, SessionTypes
  <2>2. calls \in calls .. MaxCalls
    BY <2>1
  <2> QED BY <1>3, <1>7, <2>2
<1>15. SInv'
  BY <1>4, <1>8, <1>9, <1>10, <1>12, <1>13, <1>14, TopStep DEF Inv, n
<1> QED BY <1>8, <1>15 DEF Inv

\* The innermost open node: an object on top of the cycle stack, or an array
\* of bools.
LEMMA OpenFacts ==
  ASSUME Inv, frames # <<>>, F.op = "serialize", F.open # <<>>
  PROVE  /\ F.open \in Seq(OpenNode) /\ Len(F.open) \in Nat \ {0}
         /\ Inner = F.open[Len(F.open)] /\ Inner \in OpenNode
         /\ stack \in Seq(Objects) /\ Len(stack) \in Nat
         /\ \A d \in 1 .. Len(stack) : F.open[d].what = stack[d]
         /\ Inner.what # Bools =>
              stack # <<>> /\ Len(stack) = Len(F.open) /\ Inner.what = stack[Len(stack)]
         /\ Inner.what = Bools => Len(F.open) = Len(stack) + 1
<1> DEFINE s == stack
           o == F.open
           n == Len(o)
           l == Len(s)
<1>1. F \in Frame /\ OpenOK(F, s)
  BY TopFrame DEF Inv
<1>2. o \in Seq(OpenNode) /\ s \in Seq(Objects)
  BY <1>1 DEF Frame, Inv, SInv, SessionTypes
<1>3. n \in Nat \ {0} /\ Inner = o[n] /\ Inner \in OpenNode /\ l \in Nat
  <2>1. Inner = Last(o) /\ o # <<>>
    BY DEF Inner
  <2> HIDE DEF o, s
  <2>2. n \in Nat \ {0} /\ Last(o) = o[n] /\ Last(o) \in OpenNode
    BY <1>2, <2>1, FrontLast
  <2> QED BY <1>2, <2>1, <2>2
<1>4. /\ n \in {l, l + 1} /\ \A d \in 1 .. l : o[d].what = s[d]
      /\ n = l + 1 => o[l + 1].what = Bools
  BY <1>1 DEF OpenOK
<1>5. ASSUME n = l PROVE s # <<>> /\ Inner.what = s[l] /\ Inner.what # Bools
  <2>1. l \in 1 .. l /\ s[l] \in Objects
    BY <1>2, <1>3, <1>5
  <2>2. Inner.what = s[l]
    BY <1>3, <1>4, <1>5, <2>1
  <2>3. s # <<>>
    BY <1>3, <1>5
  <2> QED BY <2>1, <2>2, <2>3, SessionAssumption
<1>6. ASSUME n = l + 1 PROVE Inner.what = Bools
  BY <1>3, <1>4, <1>6
<1> QED BY <1>2, <1>3, <1>4, <1>5, <1>6

\* The call that writes one more node is as sound as before.
LEMMA OneMoreOK ==
  ASSUME Inv, CanWrite, NEW os \in Seq(OpenNode),
         NEW f, f = [OneMore EXCEPT !.open = os]
  PROVE  /\ FrameOK(Len(frames), f) /\ f.op = "serialize" /\ f.pc = "write"
         /\ f.open = os /\ f.held = F.held /\ f.lost = F.lost
         /\ f.disturbed = F.disturbed /\ At("serialize", "write") /\ frames # <<>>
         /\ F.op = "serialize" /\ F.pc = "write" /\ F \in Frame
         /\ ViewOK(Len(frames), F, arena, buffer) /\ OpenOK(F, stack)
<1>1. /\ At("serialize", "write") /\ frames # <<>> /\ F.op = "serialize"
      /\ F.pc = "write" /\ F.nodes < MaxNodes
  BY DEF CanWrite, At
<1>2. /\ F \in Frame /\ FrameOK(Len(frames), F) /\ OpenOK(F, stack)
      /\ ViewOK(Len(frames), F, arena, buffer)
  BY <1>1, TopFrame DEF Inv
<1>3. F.nodes + 1 \in 0 .. MaxNodes
  <2>1. PICK k : k = F.nodes
    OBVIOUS
  <2>2. k \in 0 .. MaxNodes /\ k < MaxNodes
    BY <1>1, <1>2, <2>1 DEF Frame
  <2>3. k + 1 \in 0 .. MaxNodes
    BY <2>2, SessionAssumption
  <2> QED BY <2>1, <2>3
<1>4. /\ f \in Frame /\ f.op = F.op /\ f.pc = F.pc /\ f.open = os /\ f.need = F.need
      /\ f.held = F.held /\ f.lost = F.lost /\ f.disturbed = F.disturbed
      /\ f.why = F.why
  BY <1>2, <1>3 DEF Frame, OneMore
<1>5. FrameOK(Len(frames), f)
  BY <1>1, <1>2, <1>4 DEF FrameOK
<1> QED BY <1>1, <1>2, <1>4, <1>5

LEMMA WriteLeafInv ==
  ASSUME Inv, WriteLeaf
  PROVE  Inv'
<1>1. /\ CanWrite /\ InObject /\ F.open # <<>> /\ Inner.what # Bools
      /\ \E q \in Require : Written(OneMore, WriteWord(q))
      /\ UNCHANGED <<calls, serializationActive, deserializationActive, stack, set,
                     live, initVars, restOfSchema>>
  BY DEF WriteLeaf, InObject
<1>2. F \in Frame /\ F.op = "serialize" /\ frames # <<>> /\ F.open \in Seq(OpenNode)
  BY <1>1, TopFrame DEF Inv, CanWrite, At, Frame
<1>3. PICK f : f = OneMore
  OBVIOUS
<1>4. f = [OneMore EXCEPT !.open = F.open]
  BY <1>2, <1>3 DEF OneMore, Frame
<1>5. /\ FrameOK(Len(frames), f) /\ f.op = "serialize" /\ f.pc = "write"
      /\ f.open = F.open /\ f.held = F.held /\ f.lost = F.lost
      /\ f.disturbed = F.disturbed /\ At("serialize", "write") /\ F.pc = "write"
      /\ ViewOK(Len(frames), F, arena, buffer) /\ OpenOK(F, stack)
  BY <1>1, <1>2, <1>4, OneMoreOK, ZenonT(30)
<1>6. ~F.lost
  BY <1>1, <1>2, <1>5, OpenFacts DEF ViewOK
<1>7. OpenOK(f, stack')
  BY <1>1, <1>2, <1>5 DEF OpenOK
<1>8. /\ stack' \in Seq(Objects) /\ CycleOK(stack', set')
      /\ set' \in [members : SUBSET Objects, on : BOOLEAN]
  BY <1>1 DEF Inv, SInv, SessionTypes
<1> QED BY <1>1, <1>3, <1>5, <1>6, <1>7, <1>8, WriteStep

LEMMA WriteBoolsInv ==
  ASSUME Inv, WriteBools
  PROVE  Inv'
<1> DEFINE os == Append(F.open, Node(Bools, Inner.depth))
<1>1. /\ CanWrite /\ InObject /\ F.open # <<>> /\ Inner.what # Bools
      /\ \E q \in Require : Written([OneMore EXCEPT !.open = Append(@, Node(Bools, Inner.depth))],
                                    WriteWord(q))
      /\ UNCHANGED <<calls, serializationActive, deserializationActive, stack, set,
                     live, initVars, restOfSchema>>
  BY DEF WriteBools, InObject
<1>2. F \in Frame /\ F.op = "serialize" /\ frames # <<>>
  BY <1>1, TopFrame DEF Inv, CanWrite, At
<1>3. /\ F.open \in Seq(OpenNode) /\ Inner \in OpenNode /\ Len(stack) = Len(F.open)
      /\ Inner = F.open[Len(F.open)] /\ Len(stack) \in Nat
      /\ \A d \in 1 .. Len(stack) : F.open[d].what = stack[d]
  BY <1>1, <1>2, OpenFacts
<1>4. Node(Bools, Inner.depth) \in OpenNode /\ Node(Bools, Inner.depth).what = Bools
  BY <1>3 DEF OpenNode, Node
<1>5. PICK b \in OpenNode : b = Node(Bools, Inner.depth) /\ b.what = Bools
  BY <1>4
<1>6. /\ os \in Seq(OpenNode) /\ Len(os) = Len(stack) + 1
      /\ \A d \in 1 .. Len(stack) : os[d] = F.open[d]
      /\ os[Len(stack) + 1].what = Bools
  <2> DEFINE o == F.open
  <2>1. o \in Seq(OpenNode)
    BY <1>3
  <2> HIDE DEF o
  <2>2. /\ Append(o, b) \in Seq(OpenNode) /\ Len(Append(o, b)) = Len(o) + 1
        /\ \A d \in 1 .. Len(o) : Append(o, b)[d] = o[d]
        /\ Append(o, b)[Len(o) + 1] = b
    BY <2>1, AppendLast
  <2> QED BY <1>3, <1>5, <2>2 DEF o
<1> HIDE DEF os
<1>7. PICK f : f = [OneMore EXCEPT !.open = os]
  OBVIOUS
<1>8. f = [OneMore EXCEPT !.open = Append(@, Node(Bools, Inner.depth))]
  BY <1>2, <1>7 DEF OneMore, Frame, os
<1>9. /\ FrameOK(Len(frames), f) /\ f.op = "serialize" /\ f.pc = "write"
      /\ f.open = os /\ f.held = F.held /\ f.lost = F.lost
      /\ f.disturbed = F.disturbed /\ At("serialize", "write") /\ F.pc = "write"
      /\ ViewOK(Len(frames), F, arena, buffer) /\ OpenOK(F, stack)
  BY <1>1, <1>6, <1>7, OneMoreOK, ZenonT(30)
<1>10. ~F.lost
  BY <1>1, <1>2, <1>3, <1>9 DEF ViewOK
<1>11. OpenOK(f, stack')
  BY <1>1, <1>3, <1>6, <1>9 DEF OpenOK
<1>12. /\ stack' \in Seq(Objects) /\ CycleOK(stack', set')
       /\ set' \in [members : SUBSET Objects, on : BOOLEAN]
  BY <1>1 DEF Inv, SInv, SessionTypes
<1>13. \E q \in Require : Written(f, WriteWord(q))
  BY <1>1, <1>8
<1> QED BY <1>1, <1>9, <1>10, <1>11, <1>12, <1>13, WriteStep

LEMMA WriteInvalidInv ==
  ASSUME Inv, WriteInvalid
  PROVE  Inv'
<1>1. /\ frames # <<>> /\ F.pc = "write" /\ Becomes(Unwinding(F, "value"))
      /\ UNCHANGED <<calls, arena, serializationActive,
                     deserializationActive, stack, set, live, initVars, schemaVars>>
  BY DEF WriteInvalid, CanWrite, At, Becomes
<1>2. InitInv' /\ RegInv' /\ schemaPhase' = schemaPhase
  BY <1>1, Kept DEF Inv, schemaVars, restOfSchema
<1>3. schemaPhase = "idle"
  BY <1>1, TopFrame DEF Inv
<1>4. SInv'
  BY <1>1, <1>2, <1>3, FailStep DEF Inv, Reasons
<1> QED BY <1>2, <1>4 DEF Inv

LEMMA WriteBoolInv ==
  ASSUME Inv, WriteBool
  PROVE  Inv'
<1> DEFINE n == Len(frames)
<1>1. PICK f : f = [OneMore EXCEPT !.lost = @ \/ arena.view # buffer \/ Overwritten]
  OBVIOUS
<1>2. /\ CanWrite /\ F.open # <<>> /\ Inner.what = Bools /\ Continue(f, FALSE)
      /\ UNCHANGED <<calls, buffer, arena, serializationActive,
                     deserializationActive, stack, set, live, initVars, schemaVars>>
  BY <1>1 DEF WriteBool
<1>3. InitInv' /\ RegInv' /\ schemaPhase' = schemaPhase
  BY <1>2, Kept DEF Inv, schemaVars, restOfSchema
<1>4. /\ frames # <<>> /\ F \in Frame /\ F.op = "serialize" /\ F.pc = "write"
      /\ F.open \in Seq(OpenNode) /\ ViewOK(n, F, arena, buffer) /\ OpenOK(F, stack)
      /\ schemaPhase = "idle"
      /\ \A x : x \in live <=>
           x \in F.held \/ \E i \in 1 .. n - 1 : x \in frames[i].held
  BY <1>2, TopFrame DEF Inv, CanWrite, At, Frame
<1>5. PICK g : g = [OneMore EXCEPT !.open = F.open]
  OBVIOUS
<1>6. /\ FrameOK(n, g) /\ g.op = "serialize" /\ g.pc = "write"
      /\ g.open = F.open /\ g.held = F.held /\ g.lost = F.lost
      /\ g.disturbed = F.disturbed
  BY <1>2, <1>4, <1>5, OneMoreOK
<1>7. PICK lost \in BOOLEAN : lost = (F.lost \/ arena.view # buffer \/ Overwritten)
  BY <1>4 DEF Frame
<1>8. f = [g EXCEPT !.lost = lost]
  <2>1. OneMore.lost = F.lost /\ g = OneMore
    BY <1>4, <1>5 DEF OneMore, Frame
  <2>2. f = [OneMore EXCEPT !.lost = OneMore.lost \/ arena.view # buffer \/ Overwritten]
    BY <1>1
  <2>3. (OneMore.lost \/ arena.view # buffer \/ Overwritten) = lost
    BY <1>7, <2>1
  <2> QED BY <2>1, <2>2, <2>3
<1>9. /\ f \in Frame /\ f.op = g.op /\ f.pc = g.pc /\ f.open = g.open /\ f.need = g.need
      /\ f.held = g.held /\ f.lost = lost /\ f.disturbed = g.disturbed
      /\ f.why = g.why
  <2>1. g \in Frame
    BY <1>6 DEF FrameOK
  <2> QED BY <1>8, <2>1 DEF Frame
<1>10. FrameOK(n, f) /\ OpenOK(f, stack)
  BY <1>4, <1>6, <1>9 DEF FrameOK, OpenOK
<1>11. ViewOK(n, f, arena, buffer')
  <2>1. /\ arena.owner = n /\ arena.view \in 0 .. buffer
        /\ arena.view # buffer => F.disturbed
        /\ F.lost => arena.view # buffer
    BY <1>4 DEF ViewOK
  <2>2. ~Overwritten
    BY <2>1 DEF Overwritten
  <2>3. f.lost => arena.view # buffer
    BY <1>7, <1>9, <2>1, <2>2
  <2>4. F.open[Len(F.open)].what = Bools
    BY <1>2, <1>4, OpenFacts
  <2> QED BY <1>2, <1>4, <1>6, <1>9, <2>1, <2>3, <2>4 DEF ViewOK
<1>12. Becomes(f)
  BY <1>2 DEF Becomes
<1>13. \A x : x \in live' <=>
         x \in f.held \/ \E i \in 1 .. n - 1 : x \in frames[i].held
  BY <1>2, <1>4, <1>6, <1>9
<1>14. f.op = F.op /\ (f.pc = "schema" <=> schemaPhase' # "idle")
  BY <1>3, <1>4, <1>6, <1>9
<1> HIDE DEF n
<1>15. SInv'
  BY <1>2, <1>4, <1>10, <1>11, <1>12, <1>13, <1>14, PlainStep DEF Inv, n
<1> QED BY <1>3, <1>15 DEF Inv

\* enterCycle of an object that is not being written.
LEMMA EnterCycleOK ==
  ASSUME NEW s \in Seq(Objects), NEW m \in [members : SUBSET Objects, on : BOOLEAN],
         CycleOK(s, m), NEW o \in Objects, NEW p,
         IF m.on THEN o \notin m.members ELSE o \notin Range(s),
         p = IF m.on THEN SetOf(m.members \union {o})
             ELSE IF Len(s) = Threshold THEN SetOf(Range(s) \union {o})
             ELSE NoSet
  PROVE  /\ CycleOK(Append(s, o), p)
         /\ p \in [members : SUBSET Objects, on : BOOLEAN]
<1> DEFINE l == Len(s)
           t == Append(s, o)
<1>1. /\ l \in Nat /\ DOMAIN s = 1 .. l /\ t \in Seq(Objects) /\ Len(t) = l + 1
      /\ \A d \in 1 .. l : t[d] = s[d]
      /\ t[l + 1] = o /\ t # <<>>
  BY AppendLast
<1>2. Range(s) = {s[d] : d \in 1 .. l} /\ \A d \in 1 .. l : s[d] \in Objects
  BY <1>1 DEF Range
<1> HIDE DEF l, t
<1>3. \A d \in 1 .. l + 1 : d = l + 1 \/ d \in 1 .. l
  BY <1>1
<1>4. l + 1 \in 1 .. l + 1 /\ \A d \in 1 .. l : d \in 1 .. l + 1
  BY <1>1
<1>5. m.on => \A x : x \in m.members <=> \E d \in 1 .. l : s[d] = x
  BY DEF CycleOK, l
<1>6. \A d \in 1 .. l : s[d] # o
  BY <1>2, <1>5
<1>7. \A d, e \in 1 .. l + 1 : t[d] = t[e] => d = e
  <2>1. \A d, e \in 1 .. l : s[d] = s[e] => d = e
    BY DEF CycleOK, l
  <2> SUFFICES ASSUME NEW d \in 1 .. l + 1, NEW e \in 1 .. l + 1, t[d] = t[e]
               PROVE  d = e
    OBVIOUS
  <2> QED BY <1>1, <1>3, <1>6, <2>1
<1>8. p.on => \A x : x \in p.members <=> \E d \in 1 .. l + 1 : t[d] = x
  <2>1. \A x : (\E d \in 1 .. l + 1 : t[d] = x) <=> (x = o \/ \E d \in 1 .. l : s[d] = x)
    BY <1>1, <1>3, <1>4
  <2>2. CASE m.on
    <3>1. p.members = m.members \union {o}
      BY <2>2 DEF SetOf
    <3> QED BY <1>5, <2>1, <2>2, <3>1
  <2>3. CASE ~m.on /\ Len(s) = Threshold
    <3>1. p.members = Range(s) \union {o}
      BY <2>3 DEF SetOf
    <3>2. \A x : x \in Range(s) <=> \E d \in 1 .. l : s[d] = x
      BY <1>2
    <3> QED BY <2>1, <3>1, <3>2
  <2>4. CASE ~m.on /\ Len(s) # Threshold
    BY <2>4 DEF NoSet
  <2> QED BY <2>2, <2>3, <2>4
<1>9. CycleOK(t, p)
  BY <1>1, <1>7, <1>8 DEF CycleOK
<1>10. p \in [members : SUBSET Objects, on : BOOLEAN]
  <2>1. Range(s) \subseteq Objects /\ m.members \subseteq Objects
    BY <1>2
  <2> QED BY <2>1 DEF SetOf, NoSet
<1> QED BY <1>9, <1>10 DEF t

\* leaveCycle of the last object.
LEMMA LeaveCycleOK ==
  ASSUME NEW s \in Seq(Objects), s # <<>>,
         NEW m \in [members : SUBSET Objects, on : BOOLEAN],
         CycleOK(s, m), NEW p,
         p = IF m.on /\ Len(s) - 1 >= Threshold
               THEN SetOf(m.members \ {s[Len(s)]}) ELSE NoSet
  PROVE  /\ CycleOK(Front(s), p)
         /\ p \in [members : SUBSET Objects, on : BOOLEAN]
<1> DEFINE l == Len(s)
           t == Front(s)
<1>1. /\ l \in Nat \ {0} /\ t \in Seq(Objects) /\ Len(t) = l - 1
      /\ \A d \in 1 .. l - 1 : t[d] = s[d]
      /\ t = <<>> <=> l = 1
  BY FrontLast
<1>2. \A d, e \in 1 .. l : s[d] = s[e] => d = e
  BY DEF CycleOK
<1> HIDE DEF l, t
<1>3. \A d \in 1 .. l : d = l \/ d \in 1 .. l - 1
  BY <1>1
<1>4. l \in 1 .. l /\ \A d \in 1 .. l - 1 : d \in 1 .. l /\ d # l
  BY <1>1
<1>5. \A d, e \in 1 .. l - 1 : t[d] = t[e] => d = e
  BY <1>1, <1>2, <1>4
<1>6. p.on => \A x : x \in p.members <=> \E d \in 1 .. l - 1 : t[d] = x
  <2> SUFFICES ASSUME p.on
               PROVE  \A x : x \in p.members <=> \E d \in 1 .. l - 1 : t[d] = x
    OBVIOUS
  <2>1. m.on /\ p.members = m.members \ {s[l]}
    BY DEF SetOf, NoSet, l
  <2>2. \A x : x \in m.members <=> \E d \in 1 .. l : s[d] = x
    BY <2>1 DEF CycleOK, l
  <2>3. \A d \in 1 .. l - 1 : s[d] # s[l]
    BY <1>2, <1>4
  <2>4. \A x : (\E d \in 1 .. l - 1 : t[d] = x) <=>
               (x # s[l] /\ \E d \in 1 .. l : s[d] = x)
    BY <1>1, <1>3, <1>4, <2>3
  <2> QED BY <2>1, <2>2, <2>4
<1>7. t = <<>> => p = NoSet
  <2>1. l = 1 => ~(l - 1 >= Threshold)
    BY SessionAssumption
  <2> QED BY <1>1, <2>1 DEF l
<1>8. CycleOK(t, p)
  BY <1>1, <1>5, <1>6, <1>7 DEF CycleOK
<1>9. p \in [members : SUBSET Objects, on : BOOLEAN]
  BY DEF SetOf, NoSet
<1> QED BY <1>8, <1>9 DEF t

LEMMA WriteObjectInv ==
  ASSUME Inv, NEW o \in Objects, NEW deeper \in BOOLEAN, WriteObject(o, deeper)
  PROVE  Inv'
<1>1. PICK depth : depth = (IF Root THEN 0 ELSE Inner.depth) + (IF deeper THEN 1 ELSE 0)
  OBVIOUS
<1>2. /\ CanWrite /\ ((Root /\ ~deeper) \/ InObject)
      /\ \/ /\ TooDeep(depth)
            /\ Continue(Unwinding(F, "depth"), FALSE)
            /\ UNCHANGED <<buffer, arena, stack, set, faults>>
         \/ /\ ~TooDeep(depth) /\ InCycle(o)
            /\ Continue(Unwinding(F, "cycle"), FALSE)
            /\ UNCHANGED <<buffer, arena, stack, set, faults>>
         \/ /\ ~TooDeep(depth) /\ ~InCycle(o)
            /\ stack' = Append(stack, o)
            /\ set' = IF set.on THEN SetOf(set.members \union {o})
                      ELSE IF Len(stack) = Threshold THEN SetOf(Range(stack) \union {o})
                      ELSE NoSet
            /\ \E r \in Require :
                 Written([OneMore EXCEPT !.open = Append(@, Node(o, depth))],
                         WriteWord(r))
      /\ UNCHANGED <<calls, serializationActive, deserializationActive, live,
                     initVars, restOfSchema>>
  BY <1>1 DEF WriteObject
<1>3. /\ frames # <<>> /\ F \in Frame /\ F.op = "serialize" /\ F.pc = "write"
      /\ F.open \in Seq(OpenNode) /\ ViewOK(Len(frames), F, arena, buffer)
      /\ OpenOK(F, stack) /\ schemaPhase = "idle"
      /\ schemaPhase' = schemaPhase
  BY <1>2, TopFrame DEF Inv, CanWrite, At, Frame, restOfSchema
<1>4. ASSUME NEW why \in {"depth", "cycle"}, Continue(Unwinding(F, why), FALSE),
             UNCHANGED <<buffer, arena, stack, set, faults>>
      PROVE  Inv'
  <2>1. Becomes(Unwinding(F, why)) /\ why \in Reasons /\ why # "detached"
    BY <1>4 DEF Becomes, Reasons
  <2>2. SInv'
    BY <1>2, <1>3, <1>4, <2>1, FailStep DEF Inv
  <2>3. InitInv' /\ RegInv'
    BY <1>2, <1>4, Kept DEF Inv
  <2> QED BY <2>2, <2>3 DEF Inv
<1>5. CASE /\ ~TooDeep(depth) /\ ~InCycle(o)
           /\ stack' = Append(stack, o)
           /\ set' = IF set.on THEN SetOf(set.members \union {o})
                     ELSE IF Len(stack) = Threshold THEN SetOf(Range(stack) \union {o})
                     ELSE NoSet
           /\ \E r \in Require :
                Written([OneMore EXCEPT !.open = Append(@, Node(o, depth))],
                        WriteWord(r))
  <2>1. /\ stack \in Seq(Objects) /\ CycleOK(stack, set)
        /\ set \in [members : SUBSET Objects, on : BOOLEAN]
    BY DEF Inv, SInv, SessionTypes
  <2>2. /\ CycleOK(stack', set') /\ stack' \in Seq(Objects)
        /\ set' \in [members : SUBSET Objects, on : BOOLEAN]
    <3>1. PICK p : p = IF set.on THEN SetOf(set.members \union {o})
                       ELSE IF Len(stack) = Threshold THEN SetOf(Range(stack) \union {o})
                       ELSE NoSet
      OBVIOUS
    <3>2. IF set.on THEN o \notin set.members ELSE o \notin Range(stack)
      BY <1>5 DEF InCycle
    <3>3. CycleOK(Append(stack, o), p) /\ p \in [members : SUBSET Objects, on : BOOLEAN]
      BY <2>1, <3>1, <3>2, EnterCycleOK
    <3>4. stack' = Append(stack, o) /\ set' = p /\ Append(stack, o) \in Seq(Objects)
      BY <1>5, <2>1, <3>1
    <3> QED BY <3>3, <3>4
  <2>3. Len(stack) = Len(F.open) /\ ~F.lost
    <3>1. CASE Root
      <4>1. Len(F.open) = 0 /\ Len(stack) \in Nat
        BY <2>1, <3>1 DEF Root
      <4>2. Len(F.open) \in {Len(stack), Len(stack) + 1}
        BY <1>3 DEF OpenOK
      <4>3. Len(stack) = Len(F.open)
        BY <4>1, <4>2
      <4> QED BY <1>3, <3>1, <4>3 DEF Root, ViewOK
    <3>2. CASE InObject
      BY <1>3, <3>2, OpenFacts DEF InObject, ViewOK
    <3> QED BY <1>2, <3>1, <3>2
  <2>4. depth \in 0 .. MaxDepth
    <3>1. CASE Root
      <4>1. depth = 0
        BY <1>1, <1>2, <3>1 DEF Root, InObject
      <4> QED BY <4>1, SessionAssumption
    <3>2. CASE ~Root
      <4>1. PICK k : k = Inner.depth
        OBVIOUS
      <4>2. k \in 0 .. MaxDepth
        BY <1>2, <1>3, <3>2, <4>1, OpenFacts DEF InObject, OpenNode
      <4>3. depth = k + 1 \/ depth = k + 0
        BY <1>1, <3>2, <4>1
      <4>4. ~(depth > MaxDepth)
        BY <1>5 DEF TooDeep
      <4> QED BY <4>2, <4>3, <4>4, SessionAssumption
    <3> QED BY <3>1, <3>2
  <2>5. PICK b \in OpenNode : b = Node(o, depth) /\ b.what = o
    <3>1. Node(o, depth) \in OpenNode /\ Node(o, depth).what = o
      BY <2>4 DEF OpenNode, Node
    <3> QED BY <3>1
  <2>6. PICK os \in Seq(OpenNode) :
          /\ os = Append(F.open, b) /\ Len(os) = Len(stack) + 1
          /\ \A d \in 1 .. Len(stack) : os[d] = F.open[d]
          /\ os[Len(stack) + 1].what = o
    <3> DEFINE op == F.open
    <3>1. op \in Seq(OpenNode)
      BY <1>3
    <3> HIDE DEF op
    <3>2. /\ Append(op, b) \in Seq(OpenNode) /\ Len(Append(op, b)) = Len(op) + 1
          /\ \A d \in 1 .. Len(op) : Append(op, b)[d] = op[d]
          /\ Append(op, b)[Len(op) + 1] = b
      BY <3>1, AppendLast
    <3> QED BY <2>3, <2>5, <3>2 DEF op
  <2>7. PICK f : f = [OneMore EXCEPT !.open = os]
    OBVIOUS
  <2>8. f = [OneMore EXCEPT !.open = Append(@, Node(o, depth))]
    BY <1>3, <2>5, <2>6, <2>7 DEF OneMore, Frame
  <2>9. /\ FrameOK(Len(frames), f) /\ f.op = "serialize" /\ f.pc = "write"
        /\ f.open = os /\ f.held = F.held /\ f.lost = F.lost
        /\ f.disturbed = F.disturbed /\ At("serialize", "write")
    BY <1>2, <2>6, <2>7, OneMoreOK, ZenonT(30)
  <2>10. OpenOK(f, stack')
    <3>1. PICK s : s = stack'
      OBVIOUS
    <3>2. /\ Len(s) = Len(stack) + 1 /\ Len(stack) \in Nat
          /\ \A d \in 1 .. Len(stack) : s[d] = stack[d]
          /\ s[Len(stack) + 1] = o
      BY <1>5, <2>1, <3>1, AppendLast
    <3>3. \A d \in 1 .. Len(stack) : F.open[d].what = stack[d]
      BY <1>3 DEF OpenOK
    <3>4. \A d \in 1 .. Len(stack) + 1 : d = Len(stack) + 1 \/ d \in 1 .. Len(stack)
      BY <3>2
    <3>5. \A d \in 1 .. Len(s) : os[d].what = s[d]
      BY <2>6, <3>2, <3>3, <3>4
    <3>6. Len(os) = Len(s) /\ Len(os) # Len(s) + 1
      BY <2>6, <3>2
    <3> QED BY <2>9, <3>1, <3>5, <3>6 DEF OpenOK
  <2>11. \E r \in Require : Written(f, WriteWord(r))
    BY <1>5, <2>8
  <2> QED BY <1>2, <2>2, <2>3, <2>9, <2>10, <2>11, WriteStep
<1> QED BY <1>2, <1>4, <1>5

\* The innermost node is closed, by finish or by a finally.
LEMMA LeaveStep ==
  ASSUME Inv, frames # <<>>, F.op = "serialize", F.open # <<>>, NEW f,
         Continue(f, FALSE), FrameOK(Len(frames), f), f.op = F.op,
         f.open = Front(F.open), f.held = F.held, f.pc # "schema",
         schemaPhase = "idle",
         ViewOK(Len(frames), f, arena, buffer),
         IF InObject THEN LeaveCycle ELSE UNCHANGED <<stack, set>>,
         UNCHANGED <<calls, buffer, arena, serializationActive,
                     deserializationActive, live, initVars, schemaVars>>
  PROVE  Inv'
<1> DEFINE n == Len(frames)
           o == F.open
           l == Len(stack)
<1>1. InitInv' /\ RegInv' /\ schemaPhase' = schemaPhase
  BY Kept DEF Inv, schemaVars, restOfSchema
<1>2. /\ o \in Seq(OpenNode) /\ Len(o) \in Nat \ {0} /\ Inner = o[Len(o)]
      /\ stack \in Seq(Objects) /\ l \in Nat
      /\ \A d \in 1 .. l : o[d].what = stack[d]
      /\ Inner.what # Bools =>
           stack # <<>> /\ l = Len(o) /\ Inner.what = stack[l]
      /\ Inner.what = Bools => Len(o) = l + 1
  BY OpenFacts
<1>3. /\ buffer \in 0 .. MaxGrowth /\ calls \in 0 .. MaxCalls /\ arena \in Arena
      /\ CycleOK(stack, set) /\ set \in [members : SUBSET Objects, on : BOOLEAN]
  BY DEF Inv, SInv, SessionTypes
<1>4. /\ frames \in Seq(Frame)
      /\ \A x : x \in live <=>
           x \in F.held \/ \E i \in 1 .. n - 1 : x \in frames[i].held
  BY TopFrame DEF Inv
<1>5. Front(o) \in Seq(OpenNode) /\ Len(Front(o)) = Len(o) - 1
      /\ \A d \in 1 .. Len(o) - 1 : Front(o)[d] = o[d]
  <2> HIDE DEF o
  <2>1. o # <<>>
    BY DEF o
  <2> QED BY <1>2, <2>1, FrontLast
<1>6. /\ stack' \in Seq(Objects) /\ set' \in [members : SUBSET Objects, on : BOOLEAN]
      /\ CycleOK(stack', set') /\ OpenOK(f, stack')
  <2>1. CASE InObject
    <3>1. stack # <<>> /\ l = Len(o) /\ Inner.what = stack[l]
      BY <1>2, <2>1 DEF InObject
    <3>2. PICK p : p = IF set.on /\ l - 1 >= Threshold
                         THEN SetOf(set.members \ {stack[l]}) ELSE NoSet
      OBVIOUS
    <3>3. stack' = Front(stack) /\ set' = p
      BY <2>1, <3>1, <3>2 DEF LeaveCycle
    <3>4. CycleOK(Front(stack), p) /\ p \in [members : SUBSET Objects, on : BOOLEAN]
      BY <1>2, <1>3, <3>1, <3>2, LeaveCycleOK
    <3>5. /\ Front(stack) \in Seq(Objects) /\ Len(Front(stack)) = l - 1
          /\ \A d \in 1 .. l - 1 : Front(stack)[d] = stack[d]
      BY <1>2, <3>1, FrontLast
    <3>6. PICK s : s = stack'
      OBVIOUS
    <3> HIDE DEF o, l
    <3>7. Len(s) = l - 1 /\ Len(f.open) = l - 1 /\ Len(f.open) # Len(s) + 1
      BY <1>2, <1>5, <3>1, <3>3, <3>5, <3>6 DEF o
    <3>8. \A d \in 1 .. l - 1 : d \in 1 .. l
      BY <1>2
    <3>9. \A d \in 1 .. l - 1 : f.open[d].what = s[d]
      BY <1>2, <1>5, <3>1, <3>3, <3>5, <3>6, <3>8, ZenonT(30) DEF o
    <3>10. OpenOK(f, s)
      BY <3>7, <3>9 DEF OpenOK
    <3> QED BY <3>3, <3>4, <3>5, <3>6, <3>10
  <2>2. CASE ~InObject
    <3>1. Len(o) = l + 1 /\ stack' = stack /\ set' = set
      BY <1>2, <2>2 DEF InObject
    <3> HIDE DEF o, l
    <3>2. Len(f.open) = l /\ Len(f.open) # l + 1
      BY <1>2, <1>5, <3>1 DEF o
    <3>3. \A d \in 1 .. l : f.open[d].what = stack[d]
      <4>1. Len(o) - 1 = l
        BY <1>2, <3>1
      <4> QED BY <1>2, <1>5, <4>1 DEF o
    <3>4. OpenOK(f, stack)
      BY <3>2, <3>3 DEF OpenOK, l
    <3> QED BY <1>2, <1>3, <3>1, <3>4
  <2> QED BY <2>1, <2>2
<1>7. Replaced(frames, frames', f, FALSE)
  <2>1. f \in Frame
    BY DEF FrameOK
  <2> QED BY <1>4, <2>1, ContinueReplaces
<1>8. buffer' \in 0 .. MaxGrowth /\ buffer <= buffer' /\ calls' \in calls .. MaxCalls
      /\ arena' \in Arena
  BY <1>3, SessionAssumption
<1>9. ViewOK(n, f, arena', buffer') /\ (f.pc = "schema" <=> schemaPhase' # "idle")
  BY <1>1
<1>10. \A x : x \in live' <=>
         x \in f.held \/ \E i \in 1 .. n - 1 : x \in frames[i].held
  BY <1>4
<1> HIDE DEF n
<1>11. SInv'
  BY <1>6, <1>7, <1>8, <1>9, <1>10, TopStep DEF Inv, n
<1> QED BY <1>1, <1>11 DEF Inv

LEMMA CloseInv ==
  ASSUME Inv, Close
  PROVE  Inv'
<1> DEFINE n == Len(frames)
<1>1. /\ frames # <<>> /\ F.op = "serialize" /\ F.pc = "write" /\ F.open # <<>>
      /\ UNCHANGED <<calls, buffer, arena, serializationActive,
                     deserializationActive, live, initVars, schemaVars>>
  BY DEF Close, At
<1>2. /\ F \in Frame /\ FrameOK(n, F) /\ ViewOK(n, F, arena, buffer)
      /\ schemaPhase = "idle"
  BY <1>1, TopFrame DEF Inv
<1>3. CASE arena.view = buffer
  <2>1. PICK f : f = [F EXCEPT !.open = Front(@), !.lost = @ \/ Overwritten]
    OBVIOUS
  <2>2. ~F.lost /\ ~Overwritten /\ arena.owner = n /\ arena.view \in 0 .. buffer
    BY <1>1, <1>2, <1>3 DEF ViewOK, Overwritten
  <2>3. Front(F.open) \in Seq(OpenNode)
    <3>1. F.open \in Seq(OpenNode)
      BY <1>2 DEF Frame
    <3> QED BY <1>1, <3>1, FrontLast
  <2>4. /\ f \in Frame /\ f.op = F.op /\ f.pc = "write" /\ f.open = Front(F.open)
        /\ f.held = F.held /\ ~f.lost /\ f.disturbed = F.disturbed /\ f.why = F.why
        /\ f.need = F.need
    <3>1. (F.lost \/ Overwritten) = FALSE
      BY <2>2
    <3>2. f = [F EXCEPT !.open = Front(F.open), !.lost = FALSE]
      BY <2>1, <3>1
    <3> QED BY <1>1, <1>2, <2>3, <3>2 DEF Frame
  <2>5. FrameOK(n, f)
    BY <1>1, <1>2, <2>4 DEF FrameOK
  <2>6. ViewOK(n, f, arena, buffer)
    BY <1>1, <1>3, <2>2, <2>4 DEF ViewOK
  <2>7. /\ Continue(f, FALSE)
        /\ IF InObject THEN LeaveCycle ELSE UNCHANGED <<stack, set>>
    BY <1>3, <2>1 DEF Close
  <2> QED BY <1>1, <1>2, <2>4, <2>5, <2>6, <2>7, LeaveStep
<1>4. CASE arena.view # buffer
  <2>1. Continue(Unwinding(F, "detached"), FALSE) /\ UNCHANGED <<stack, set>>
    BY <1>4 DEF Close
  <2>2. F.disturbed /\ Becomes(Unwinding(F, "detached")) /\ "detached" \in Reasons
    BY <1>1, <1>2, <1>4, <2>1 DEF ViewOK, Becomes, Reasons
  <2>3. InitInv' /\ RegInv' /\ schemaPhase' = schemaPhase
    BY <1>1, Kept DEF Inv, schemaVars, restOfSchema
  <2>4. SInv'
    BY <1>1, <1>2, <2>1, <2>2, <2>3, FailStep DEF Inv
  <2> QED BY <2>3, <2>4 DEF Inv
<1> QED BY <1>3, <1>4

LEMMA UnwindNodeInv ==
  ASSUME Inv, UnwindNode
  PROVE  Inv'
<1> DEFINE n == Len(frames)
<1>1. PICK f : f = [F EXCEPT !.open = Front(@)]
  OBVIOUS
<1>2. /\ frames # <<>> /\ F.pc = "unwind" /\ F.open # <<>> /\ Continue(f, FALSE)
      /\ IF InObject THEN LeaveCycle ELSE UNCHANGED <<stack, set>>
      /\ UNCHANGED <<calls, buffer, arena, serializationActive,
                     deserializationActive, live, initVars, schemaVars>>
  BY <1>1 DEF UnwindNode
<1>3. F \in Frame /\ FrameOK(n, F) /\ schemaPhase = "idle" /\ F.op = "serialize"
  BY <1>2, TopFrame DEF Inv, FrameOK
<1>4. Front(F.open) \in Seq(OpenNode)
  <2>1. F.open \in Seq(OpenNode)
    BY <1>3 DEF Frame
  <2> QED BY <1>2, <2>1, FrontLast
<1>5. /\ f \in Frame /\ f.op = F.op /\ f.pc = "unwind" /\ f.open = Front(F.open)
      /\ f.held = F.held /\ f.lost = F.lost /\ f.disturbed = F.disturbed
      /\ f.why = F.why /\ f.need = F.need
  BY <1>1, <1>2, <1>3, <1>4 DEF Frame
<1>6. FrameOK(n, f) /\ ViewOK(n, f, arena, buffer)
  BY <1>2, <1>3, <1>5 DEF FrameOK, ViewOK
<1> QED BY <1>2, <1>3, <1>5, <1>6, LeaveStep

\* A step that moves the innermost call to p, where it uses the views as
\* before or not at all.
LEMMA MoveStep ==
  ASSUME Inv, frames # <<>>, NEW p \in {"tape", "return"},
         F.pc # "schema", F.open = <<>>, ~F.lost,
         p = "tape" => F.op = "deserialize",
         Becomes([F EXCEPT !.pc = p]),
         UNCHANGED <<calls, arena, serializationActive, deserializationActive, stack,
                     set, live>>,
         schemaPhase' = "idle"
  PROVE  SInv'
<1> DEFINE n == Len(frames)
<1>1. /\ F \in Frame /\ FrameOK(n, F) /\ OpenOK(F, stack)
      /\ \A x : x \in live <=>
           x \in F.held \/ \E i \in 1 .. n - 1 : x \in frames[i].held
  BY TopFrame DEF Inv
<1>2. PICK f : f = [F EXCEPT !.pc = p]
  OBVIOUS
<1>3. /\ f \in Frame /\ f.op = F.op /\ f.pc = p /\ f.open = F.open
      /\ f.held = F.held /\ f.lost = F.lost /\ f.disturbed = F.disturbed
      /\ f.why = F.why /\ f.need = F.need
  BY <1>1, <1>2 DEF Frame
<1>4. FrameOK(n, f) /\ OpenOK(f, stack) /\ ViewOK(n, f, arena, buffer')
  BY <1>1, <1>3 DEF FrameOK, OpenOK, ViewOK
<1>5. \A x : x \in live' <=>
        x \in f.held \/ \E i \in 1 .. n - 1 : x \in frames[i].held
  BY <1>1, <1>3
<1> HIDE DEF n
<1> QED BY <1>2, <1>3, <1>4, <1>5, PlainStep DEF Inv, n

LEMMA FinishArenaInv ==
  ASSUME Inv, FinishArena
  PROVE  Inv'
<1>1. /\ frames # <<>> /\ F.op = "serialize" /\ F.pc = "write" /\ F.open = <<>>
      /\ \/ Enter([F EXCEPT !.pc = "return"]) /\ faults' = faults
         \/ Enter(Unwinding(F, "memory")) /\ Fault
      /\ UNCHANGED <<calls, arena, serializationActive, deserializationActive,
                     stack, set, live, initVars, restOfSchema>>
  BY DEF FinishArena, At
<1>2. InitInv' /\ RegInv' /\ schemaPhase' = schemaPhase
  BY <1>1, Kept DEF Inv
<1>3. schemaPhase = "idle" /\ ~F.lost
  BY <1>1, TopFrame DEF Inv, ViewOK
<1>4. CASE Enter([F EXCEPT !.pc = "return"])
  BY <1>1, <1>2, <1>3, <1>4, MoveStep DEF Becomes, Inv
<1>5. CASE Enter(Unwinding(F, "memory"))
  BY <1>1, <1>2, <1>3, <1>5, FailStep DEF Becomes, Inv, Reasons
<1> QED BY <1>1, <1>4, <1>5

-----------------------------------------------------------------------------
(* deserialize.                                                            *)

LEMMA CompilePlanInv ==
  ASSUME Inv, CompilePlan
  PROVE  Inv'
<1>1. /\ frames # <<>> /\ F.op = "deserialize" /\ F.pc = "plan"
      /\ \/ Continue([F EXCEPT !.pc = "tape"], FALSE) /\ faults' = faults
         \/ Continue(Unwinding(F, "schema"), FALSE) /\ Fault
      /\ UNCHANGED <<calls, buffer, arena, serializationActive,
                     deserializationActive, stack, set, live, initVars, restOfSchema>>
  BY DEF CompilePlan, At
<1>2. InitInv' /\ RegInv' /\ schemaPhase' = schemaPhase
  BY <1>1, Kept DEF Inv
<1>3. schemaPhase = "idle" /\ ~F.lost /\ F.open = <<>>
  BY <1>1, TopFrame DEF Inv, FrameOK
<1>4. CASE Continue([F EXCEPT !.pc = "tape"], FALSE)
  BY <1>1, <1>2, <1>3, <1>4, MoveStep DEF Becomes, Inv
<1>5. CASE Continue(Unwinding(F, "schema"), FALSE)
  BY <1>1, <1>2, <1>3, <1>5, FailStep DEF Becomes, Inv, Reasons
<1> QED BY <1>1, <1>4, <1>5

LEMMA DecodeTapeInv ==
  ASSUME Inv, DecodeTape
  PROVE  Inv'
<1> DEFINE n == Len(frames)
<1>1. /\ frames # <<>> /\ F.op = "deserialize" /\ F.pc = "tape"
      /\ \/ \E b \in {buffer, buffer + 1} \cap 0 .. MaxGrowth :
              /\ buffer' = b
              /\ Continue([F EXCEPT !.pc = "read", !.view = b], b # buffer)
              /\ faults' = faults
         \/ Enter(Unwinding(F, "memory")) /\ Fault
         \/ Enter(Unwinding(F, "data")) /\ faults' = faults
      /\ UNCHANGED <<calls, arena, serializationActive, deserializationActive,
                     stack, set, live, initVars, restOfSchema>>
  BY DEF DecodeTape, At
<1>2. InitInv' /\ RegInv' /\ schemaPhase' = schemaPhase
  BY <1>1, Kept DEF Inv
<1>3. /\ schemaPhase = "idle" /\ ~F.lost /\ F.open = <<>> /\ F \in Frame
      /\ FrameOK(n, F)
      /\ \A x : x \in live <=>
           x \in F.held \/ \E i \in 1 .. n - 1 : x \in frames[i].held
  BY <1>1, TopFrame DEF Inv, FrameOK
<1>4. ASSUME NEW b \in {buffer, buffer + 1} \cap 0 .. MaxGrowth, buffer' = b,
             Continue([F EXCEPT !.pc = "read", !.view = b], b # buffer)
      PROVE  SInv'
  <2>1. b \in 0 .. MaxGrowth /\ b \in buffer .. buffer + 1 /\ b <= MaxGrowth /\ b <= b
    <3>1. buffer \in 0 .. MaxGrowth
      BY DEF Inv, SInv, SessionTypes
    <3> QED BY <3>1, SessionAssumption
  <2>2. PICK f : f = [F EXCEPT !.pc = "read", !.view = b]
    OBVIOUS
  <2>3. /\ f \in Frame /\ f.op = F.op /\ f.pc = "read" /\ f.open = F.open
        /\ f.held = F.held /\ f.lost = F.lost /\ f.disturbed = F.disturbed
        /\ f.why = F.why /\ f.need = F.need /\ f.view = b
    BY <1>3, <2>1, <2>2 DEF Frame
  <2>4. Becomes(f)
    BY <1>4, <2>1, <2>2 DEF Becomes, Enter
  <2>5. FrameOK(n, f) /\ OpenOK(f, stack)
    BY <1>1, <1>3, <2>3 DEF FrameOK, OpenOK
  <2>6. ViewOK(n, f, arena, buffer')
    BY <1>1, <1>3, <1>4, <2>1, <2>3 DEF ViewOK
  <2>7. \A x : x \in live' <=>
          x \in f.held \/ \E i \in 1 .. n - 1 : x \in frames[i].held
    BY <1>1, <1>3, <2>3
  <2>8. f.pc = "schema" <=> schemaPhase' # "idle"
    BY <1>2, <1>3, <2>3
  <2> HIDE DEF n
  <2> QED BY <1>1, <2>3, <2>4, <2>5, <2>6, <2>7, <2>8, PlainStep DEF Inv, n
<1>5. CASE Enter(Unwinding(F, "memory"))
  BY <1>1, <1>2, <1>3, <1>5, FailStep DEF Becomes, Inv, Reasons
<1>6. CASE Enter(Unwinding(F, "data"))
  BY <1>1, <1>2, <1>3, <1>6, FailStep DEF Becomes, Inv, Reasons
<1> QED BY <1>1, <1>2, <1>4, <1>5, <1>6 DEF Inv

LEMMA ReadFieldInv ==
  ASSUME Inv, ReadField
  PROVE  Inv'
<1> DEFINE n == Len(frames)
<1>1. /\ frames # <<>> /\ F.op = "deserialize" /\ F.pc = "read" /\ F.nodes < MaxNodes
      /\ \/ Continue([OneMore EXCEPT !.lost = @ \/ F.view # buffer], FALSE)
         \/ F.view # buffer /\ Continue(Unwinding(F, "detached"), FALSE)
      /\ UNCHANGED <<calls, buffer, arena, serializationActive,
                     deserializationActive, stack, set, live, initVars, schemaVars>>
  BY DEF ReadField, At
<1>2. InitInv' /\ RegInv' /\ schemaPhase' = schemaPhase
  BY <1>1, Kept DEF Inv, schemaVars, restOfSchema
<1>3. /\ schemaPhase = "idle" /\ F \in Frame /\ FrameOK(n, F)
      /\ ViewOK(n, F, arena, buffer) /\ OpenOK(F, stack)
      /\ \A x : x \in live <=>
           x \in F.held \/ \E i \in 1 .. n - 1 : x \in frames[i].held
  BY <1>1, TopFrame DEF Inv
<1>4. /\ F.view <= buffer /\ (F.view # buffer => F.disturbed)
      /\ F.lost => F.view # buffer
  BY <1>1, <1>3 DEF ViewOK
<1>5. CASE F.view # buffer /\ Continue(Unwinding(F, "detached"), FALSE)
  BY <1>1, <1>2, <1>3, <1>4, <1>5, FailStep DEF Becomes, Inv, Reasons
<1>6. CASE Continue([OneMore EXCEPT !.lost = @ \/ F.view # buffer], FALSE)
  <2>1. PICK lost \in BOOLEAN : lost = (F.lost \/ F.view # buffer)
    BY <1>3 DEF Frame
  <2>2. PICK k : k = F.nodes + 1 /\ k \in 0 .. MaxNodes
    <3>1. PICK j : j = F.nodes
      OBVIOUS
    <3>2. j \in 0 .. MaxNodes /\ j < MaxNodes
      BY <1>1, <1>3, <3>1 DEF Frame
    <3>3. j + 1 \in 0 .. MaxNodes
      BY <3>2, SessionAssumption
    <3> QED BY <3>1, <3>3
  <2>3. PICK f : f = [F EXCEPT !.nodes = k, !.lost = lost]
    OBVIOUS
  <2>4. f = [OneMore EXCEPT !.lost = @ \/ F.view # buffer]
    <3>1. OneMore = [F EXCEPT !.nodes = k]
      BY <2>2 DEF OneMore
    <3>2. OneMore.lost = F.lost
      BY <1>3, <3>1 DEF Frame
    <3>3. [OneMore EXCEPT !.lost = @ \/ F.view # buffer] = [OneMore EXCEPT !.lost = lost]
      BY <2>1, <3>2
    <3> QED BY <1>3, <2>3, <3>1, <3>3 DEF Frame
  <2>5. /\ f \in Frame /\ f.op = F.op /\ f.pc = F.pc /\ f.open = F.open
        /\ f.held = F.held /\ f.lost = lost /\ f.disturbed = F.disturbed
        /\ f.why = F.why /\ f.need = F.need /\ f.view = F.view
    BY <1>3, <2>2, <2>3 DEF Frame
  <2>6. FrameOK(n, f) /\ OpenOK(f, stack)
    BY <1>1, <1>3, <2>5 DEF FrameOK, OpenOK
  <2>7. ViewOK(n, f, arena, buffer')
    <3>1. lost => F.view # buffer
      BY <1>4, <2>1
    <3> QED BY <1>1, <1>4, <2>5, <3>1 DEF ViewOK
  <2>8. Becomes(f)
    BY <1>1, <1>6, <2>4 DEF Becomes
  <2>9. \A x : x \in live' <=>
          x \in f.held \/ \E i \in 1 .. n - 1 : x \in frames[i].held
    BY <1>1, <1>3, <2>5
  <2>10. f.pc = "schema" <=> schemaPhase' # "idle"
    BY <1>1, <1>2, <1>3, <2>5
  <2> HIDE DEF n
  <2>11. SInv'
    BY <1>1, <2>5, <2>6, <2>7, <2>8, <2>9, <2>10, PlainStep DEF Inv, n
  <2> QED BY <1>2, <2>11 DEF Inv
<1> QED BY <1>1, <1>5, <1>6

LEMMA FinishReadInv ==
  ASSUME Inv, FinishRead
  PROVE  Inv'
<1>1. /\ frames # <<>> /\ F.op = "deserialize" /\ F.pc = "read"
      /\ Continue(IF F.view # buffer THEN Unwinding(F, "detached")
                  ELSE [F EXCEPT !.pc = "return"], FALSE)
      /\ UNCHANGED <<calls, buffer, arena, serializationActive,
                     deserializationActive, stack, set, live, initVars, schemaVars>>
  BY DEF FinishRead, At
<1>2. InitInv' /\ RegInv' /\ schemaPhase' = schemaPhase
  BY <1>1, Kept DEF Inv, schemaVars, restOfSchema
<1>3. /\ schemaPhase = "idle" /\ F.open = <<>> /\ (F.view # buffer => F.disturbed)
      /\ F.lost => F.view # buffer
  BY <1>1, TopFrame DEF Inv, ViewOK, FrameOK
<1>4. CASE F.view # buffer
  <2>1. Becomes(Unwinding(F, "detached"))
    BY <1>1, <1>4 DEF Becomes
  <2> QED BY <1>1, <1>2, <1>3, <1>4, <2>1, FailStep DEF Inv, Reasons
<1>5. CASE F.view = buffer
  <2>1. Becomes([F EXCEPT !.pc = "return"]) /\ ~F.lost
    BY <1>1, <1>3, <1>5 DEF Becomes
  <2> QED BY <1>1, <1>2, <1>3, <2>1, MoveStep DEF Inv
<1> QED BY <1>4, <1>5

-----------------------------------------------------------------------------
(* transformBytes and perfectHashBuild.                                    *)

\* A native call gets a block of its own.
LEMMA HoldStep ==
  ASSUME Inv, frames # <<>>, F.op = "native", F.pc \in {"alloc", "run"},
         NEW name \in BlockNames, NEW need \in Seq(BlockNames),
         NEW p \in {"alloc", "run", "copy"}, p = "alloc" => need # <<>>,
         NEW f, f = [F EXCEPT !.need = need, !.held = @ \union {Block(name)}, !.pc = p],
         Becomes(f), live' = live \union {Block(name)},
         UNCHANGED <<calls, arena, serializationActive, deserializationActive, stack,
                     set>>,
         schemaPhase' = "idle"
  PROVE  SInv'
<1> DEFINE n == Len(frames)
<1>1. /\ F \in Frame /\ FrameOK(n, F) /\ n \in Nat \ {0}
      /\ \A x : x \in live <=>
           x \in F.held \/ \E i \in 1 .. n - 1 : x \in frames[i].held
  BY TopFrame DEF Inv
<1>2. PICK b : b = <<n, name>> /\ b = Block(name)
  BY DEF Block
<1>3. b \in Nat \X BlockNames /\ b[1] = n
  BY <1>1, <1>2
<1>4. f = [F EXCEPT !.need = need, !.held = F.held \union {b}, !.pc = p]
  BY <1>2
<1>5. F.held \union {b} \in SUBSET (Nat \X BlockNames)
  BY <1>1, <1>3 DEF Frame
<1>6. /\ f \in Frame /\ f.op = F.op /\ f.pc = p /\ f.open = F.open
      /\ f.held = F.held \union {b} /\ f.lost = F.lost /\ f.disturbed = F.disturbed
      /\ f.why = F.why /\ f.need = need
  BY <1>1, <1>4, <1>5 DEF Frame
<1>7. FrameOK(n, f)
  <2>1. \A x \in f.held : x[1] = n
    BY <1>1, <1>3, <1>6 DEF FrameOK
  <2> QED BY <1>1, <1>6, <2>1 DEF FrameOK
<1>8. OpenOK(f, stack) /\ ViewOK(n, f, arena, buffer')
  BY <1>6 DEF OpenOK, ViewOK
<1>9. \A x : x \in live' <=>
        x \in f.held \/ \E i \in 1 .. n - 1 : x \in frames[i].held
  <2>1. live' = live \union {b}
    BY <1>2
  <2> QED BY <1>1, <1>6, <2>1
<1>10. f.op = F.op /\ (f.pc = "schema" <=> schemaPhase' # "idle")
  BY <1>6
<1> HIDE DEF n
<1> QED BY <1>7, <1>8, <1>9, <1>10, PlainStep DEF Inv, n

LEMMA AllocateInv ==
  ASSUME Inv, Allocate
  PROVE  Inv'
<1>1. /\ frames # <<>> /\ F.op = "native" /\ F.pc = "alloc"
      /\ UNCHANGED <<calls, arena, serializationActive, deserializationActive,
                     stack, set, initVars, restOfSchema>>
      /\ faults' = faults \/ Fault
  BY DEF Allocate, At, Take
<1>2. InitInv' /\ RegInv' /\ schemaPhase' = schemaPhase
  BY <1>1, Kept DEF Inv
<1>3. schemaPhase = "idle" /\ F \in Frame /\ F.need # <<>>
  BY <1>1, TopFrame DEF Inv, FrameOK
<1>4. CASE Enter(Unwinding(F, "memory")) /\ live' = live
  BY <1>1, <1>2, <1>3, <1>4, FailStep DEF Becomes, Inv, Reasons
<1>5. CASE /\ Enter([F EXCEPT !.need = Tail(@), !.held = @ \union {Block(Head(F.need))},
                              !.pc = IF Len(F.need) = 1 THEN "run" ELSE "alloc"])
           /\ Take(Head(F.need))
  <2>1. PICK need : need = F.need
    OBVIOUS
  <2>2. need \in Seq(BlockNames) /\ need # <<>>
    BY <1>3, <2>1 DEF Frame
  <2>3. Head(need) \in BlockNames /\ Tail(need) \in Seq(BlockNames)
        /\ (Len(need) # 1 => Tail(need) # <<>>)
    <3>1. Len(need) \in Nat \ {0}
      BY <2>2
    <3>2. Head(need) \in BlockNames
      BY <2>2, HeadTailProperties
    <3>3. Tail(need) \in Seq(BlockNames) /\ Len(Tail(need)) = Len(need) - 1
      BY <2>2, HeadTailProperties
    <3>4. Len(need) # 1 => Len(Tail(need)) # 0
      BY <3>1, <3>3
    <3>5. Len(<<>>) = 0
      OBVIOUS
    <3> QED BY <3>2, <3>3, <3>4, <3>5
  <2>4. PICK p : p = IF Len(need) = 1 THEN "run" ELSE "alloc"
    OBVIOUS
  <2>5. p \in {"alloc", "run", "copy"} /\ (p = "alloc" => Tail(need) # <<>>)
    BY <2>3, <2>4
  <2>6. PICK f : f = [F EXCEPT !.need = Tail(need), !.held = @ \union {Block(Head(need))},
                               !.pc = p]
    OBVIOUS
  <2>7. Becomes(f) /\ live' = live \union {Block(Head(need))}
    BY <1>5, <2>1, <2>4, <2>6 DEF Becomes, Take
  <2>8. SInv'
    BY <1>1, <1>2, <1>3, <2>3, <2>5, <2>6, <2>7, HoldStep
  <2> QED BY <1>2, <2>8 DEF Inv
<1> QED BY <1>4, <1>5 DEF Allocate

LEMMA RunNativeInv ==
  ASSUME Inv, RunNative
  PROVE  Inv'
<1>1. /\ frames # <<>> /\ F.op = "native" /\ F.pc = "run"
      /\ NativeOutput \/ NativeFails
      /\ UNCHANGED <<calls, arena, serializationActive, deserializationActive,
                     stack, set, initVars, restOfSchema>>
      /\ faults' = faults \/ Fault
  BY DEF RunNative, At, NativeOutput, NativeFails, Take
<1>2. InitInv' /\ RegInv' /\ schemaPhase' = schemaPhase
  BY <1>1, Kept DEF Inv
<1>3. schemaPhase = "idle" /\ F \in Frame
  BY <1>1, TopFrame DEF Inv
<1>4. CASE live' = live /\ Enter(Unwinding(F, "memory"))
  BY <1>1, <1>2, <1>3, <1>4, FailStep DEF Becomes, Inv, Reasons
<1>5. CASE live' = live /\ Enter(Unwinding(F, "data"))
  BY <1>1, <1>2, <1>3, <1>5, FailStep DEF Becomes, Inv, Reasons
<1>6. CASE NativeOutput
  <2>1. PICK f : f = [F EXCEPT !.need = F.need, !.held = @ \union {Block("output")},
                               !.pc = "copy"]
    OBVIOUS
  <2>2. f = [F EXCEPT !.held = @ \union {Block("output")}, !.pc = "copy"]
    BY <1>3, <2>1 DEF Frame
  <2>3. Becomes(f) /\ live' = live \union {Block("output")} /\ F.need \in Seq(BlockNames)
    BY <1>3, <1>6, <2>2 DEF NativeOutput, Becomes, Take, Frame
  <2>4. PICK need \in Seq(BlockNames), name \in BlockNames, p \in {"alloc", "run", "copy"} :
          need = F.need /\ name = "output" /\ p = "copy"
    BY <2>3 DEF BlockNames
  <2>5. /\ f = [F EXCEPT !.need = need, !.held = @ \union {Block(name)}, !.pc = p]
        /\ live' = live \union {Block(name)} /\ p # "alloc"
    BY <2>1, <2>3, <2>4
  <2>6. SInv'
    BY <1>1, <1>2, <1>3, <2>3, <2>5, HoldStep
  <2> QED BY <1>2, <2>6 DEF Inv
<1> QED BY <1>1, <1>4, <1>5, <1>6 DEF NativeFails

LEMMA CopyOutInv ==
  ASSUME Inv, CopyOut
  PROVE  Inv'
<1>1. /\ frames # <<>> /\ F.op = "native" /\ F.pc = "copy"
      /\ \/ Continue([F EXCEPT !.pc = "return"], FALSE) /\ faults' = faults
         \/ Continue(Unwinding(F, "memory"), FALSE) /\ Fault
      /\ UNCHANGED <<calls, buffer, arena, serializationActive,
                     deserializationActive, stack, set, live, initVars, restOfSchema>>
  BY DEF CopyOut, At
<1>2. InitInv' /\ RegInv' /\ schemaPhase' = schemaPhase
  BY <1>1, Kept DEF Inv
<1>3. schemaPhase = "idle" /\ ~F.lost /\ F.open = <<>>
  BY <1>1, TopFrame DEF Inv, FrameOK
<1>4. CASE Continue([F EXCEPT !.pc = "return"], FALSE)
  BY <1>1, <1>2, <1>3, <1>4, MoveStep DEF Becomes, Inv
<1>5. CASE Continue(Unwinding(F, "memory"), FALSE)
  BY <1>1, <1>2, <1>3, <1>5, FailStep DEF Becomes, Inv, Reasons
<1> QED BY <1>1, <1>4, <1>5

-----------------------------------------------------------------------------
(* The whole runtime.                                                      *)

LEMMA InitialState == Init => Inv
<1> SUFFICES ASSUME Init PROVE Inv
  OBVIOUS
<1> USE SessionAssumption, SchemaAssumption, AttemptsAssumption
<1>1. InitInv
  BY DEF Init, InitWasm, InitInv, InitTypeOK, AttemptStates, Busy, Attempts
<1>2. RegInv
  <2>1. /\ node = [t \in Types |-> Unseen] /\ handle = [t \in Types |-> 0]
        /\ plans = <<>> /\ schemaPhase = "idle" /\ building = <<>>
        /\ registering = <<>> /\ touched = {} /\ faults = 0
    BY DEF Init, InitSchema
  <2>2. SchemaTypes
    BY <2>1 DEF SchemaTypes, Unseen
  <2>3. PhaseInv
    BY <2>1 DEF PhaseInv
  <2>4. NodeInv /\ HandleInv /\ PlanInv
    BY <2>1 DEF NodeInv, HandleInv, PlanInv, Unseen
  <2>5. StackInv
    BY <2>1 DEF StackInv
  <2> QED BY <2>2, <2>3, <2>4, <2>5 DEF RegInv
<1>3. SInv
  <2>1. /\ frames = <<>> /\ calls = 0 /\ buffer = 0 /\ arena = NoArena
        /\ serializationActive = FALSE /\ deserializationActive = FALSE
        /\ stack = <<>> /\ set = NoSet /\ live = {} /\ schemaPhase = "idle"
    BY DEF Init, InitSchema
  <2>2. Len(<<>>) = 0 /\ 1 .. 0 = {}
    OBVIOUS
  <2>3. arena \in Arena /\ set \in [members : SUBSET Objects, on : BOOLEAN]
    BY <2>1 DEF Arena, NoArena, NoSet
  <2>4. SessionTypes
    <3>1. <<>> \in Seq(Frame) /\ <<>> \in Seq(Objects)
      OBVIOUS
    <3>2. 0 \in 0 .. MaxCalls /\ 0 \in 0 .. MaxGrowth /\ 0 <= 0
      OBVIOUS
    <3> QED BY <2>1, <2>2, <2>3, <3>1, <3>2 DEF SessionTypes
  <2>5. OrderInv /\ FlagInv /\ LiveInv
    BY <2>1, <2>2 DEF OrderInv, FlagInv, LiveInv
  <2>6. CycleOK(stack, set)
    BY <2>1, <2>2 DEF CycleOK, NoSet
  <2> QED BY <2>1, <2>2, <2>4, <2>5, <2>6 DEF SInv
<1> QED BY <1>1, <1>2, <1>3 DEF Inv

LEMMA EventLoopInv ==
  ASSUME Inv, EventLoop
  PROVE  Inv'
<1>1. /\ frames = <<>> /\ (CallInit \/ Turn) /\ calls' \in calls .. MaxCalls
      /\ UNCHANGED <<otherCallVars, schemaVars>>
  <2>1. calls \in 0 .. MaxCalls
    BY DEF Inv, SInv, SessionTypes
  <2> QED BY <2>1, SessionAssumption DEF EventLoop
<1>2. InitInv'
  BY <1>1, InitStep DEF Inv
<1>3. RegInv'
  BY <1>1, FaultInv DEF Inv, schemaVars, restOfSchema, RegInv, SchemaTypes
<1>4. UNCHANGED <<frames, buffer, arena, serializationActive, deserializationActive,
                  stack, set, live, schemaPhase>>
  BY <1>1 DEF otherCallVars, schemaVars
<1>5. SessionTypes'
  <2>1. calls \in 0 .. MaxCalls /\ Len(frames) \in Nat /\ Len(frames) <= calls
    BY SessionAssumption DEF Inv, SInv, SessionTypes
  <2>2. calls' \in 0 .. MaxCalls /\ Len(frames) <= calls'
    BY <1>1, <2>1, SessionAssumption
  <2> QED BY <1>4, <2>2 DEF Inv, SInv, SessionTypes
<1>6. OrderInv' /\ FlagInv' /\ LiveInv'
  BY <1>4 DEF Inv, SInv, OrderInv, FlagInv, LiveInv
<1>7. SInv'
  BY <1>4, <1>5, <1>6 DEF Inv, SInv
<1> QED BY <1>2, <1>3, <1>7 DEF Inv

LEMMA UserStepInv ==
  ASSUME Inv, UserStep
  PROVE  Inv'
<1>1. ASSUME NEW t \in Roots, CallSerialize(t) PROVE Inv'
  <2>1. t \in Types /\ StartSchema(t) /\ UNCHANGED initVars
    BY <1>1, SchemaAssumption DEF CallSerialize
  <2>2. RegInv' /\ InitInv' /\ schemaPhase' # "idle"
    BY <2>1, StartSchemaInv DEF Inv, initVars, InitInv, InitTypeOK, StartSchema
  <2>3. PICK need \in Seq(BlockNames) : need = <<>>
    <3>1. <<>> \in Seq(BlockNames)
      OBVIOUS
    <3> QED BY <3>1
  <2>4. /\ StartCall(NewFrame("serialize", need)) /\ ~serializationActive
        /\ UNCHANGED <<buffer, arena, stack, set, live>>
        /\ serializationActive' = (serializationActive \/ "serialize" = "serialize")
        /\ deserializationActive' =
             (deserializationActive \/ "serialize" = "deserialize")
    <3>1. deserializationActive \in BOOLEAN
      BY DEF Inv, SInv, SessionTypes
    <3> QED BY <1>1, <2>3, <3>1 DEF CallSerialize
  <2>5. SInv'
    BY <2>2, <2>4, PushStep DEF Inv
  <2> QED BY <2>2, <2>5 DEF Inv
<1>2. ASSUME NEW t \in Roots, CallDeserialize(t) PROVE Inv'
  <2>1. t \in Types /\ StartSchema(t) /\ UNCHANGED initVars
    BY <1>2, SchemaAssumption DEF CallDeserialize
  <2>2. RegInv' /\ InitInv' /\ schemaPhase' # "idle"
    BY <2>1, StartSchemaInv DEF Inv, initVars, InitInv, InitTypeOK, StartSchema
  <2>3. PICK need \in Seq(BlockNames) : need = <<>>
    <3>1. <<>> \in Seq(BlockNames)
      OBVIOUS
    <3> QED BY <3>1
  <2>4. /\ StartCall(NewFrame("deserialize", need)) /\ ~deserializationActive
        /\ UNCHANGED <<buffer, arena, stack, set, live>>
        /\ serializationActive' = (serializationActive \/ "deserialize" = "serialize")
        /\ deserializationActive' =
             (deserializationActive \/ "deserialize" = "deserialize")
    <3>1. serializationActive \in BOOLEAN
      BY DEF Inv, SInv, SessionTypes
    <3> QED BY <1>2, <2>3, <3>1 DEF CallDeserialize
  <2>5. SInv'
    BY <2>2, <2>4, PushStep DEF Inv
  <2> QED BY <2>2, <2>5 DEF Inv
<1>3. CASE RefuseSerialize \/ RefuseDeserialize
  <2>1. /\ Refuse
        /\ UNCHANGED <<buffer, arena, serializationActive, deserializationActive,
                       stack, set, live, initVars, schemaVars>>
    BY <1>3 DEF RefuseSerialize, RefuseDeserialize
  <2>2. InitInv' /\ RegInv'
    BY <2>1, Kept DEF Inv, schemaVars, restOfSchema
  <2>3. SInv'
    BY <2>1, RefuseStep DEF Inv
  <2> QED BY <2>2, <2>3 DEF Inv
<1>4. ASSUME NEW need \in Needs, CallNative(need) PROVE Inv'
  <2>1. need \in Seq(BlockNames) /\ need # <<>>
    <3>1. <<"result">> \in Seq(BlockNames) /\ <<"result">> # <<>>
      BY DEF BlockNames
    <3>2. <<"input", "result">> \in Seq(BlockNames) /\ <<"input", "result">> # <<>>
      BY DEF BlockNames
    <3>3. /\ <<"keys", "spans", "result">> \in Seq(BlockNames)
          /\ <<"keys", "spans", "result">> # <<>>
      BY DEF BlockNames
    <3> QED BY <3>1, <3>2, <3>3 DEF Needs
  <2>2. InitInv' /\ RegInv' /\ schemaPhase' = schemaPhase
    BY <1>4, Kept DEF CallNative, Inv, schemaVars, restOfSchema
  <2>3. /\ StartCall(NewFrame("native", need))
        /\ UNCHANGED <<buffer, arena, stack, set, live>>
        /\ serializationActive' = (serializationActive \/ "native" = "serialize")
        /\ deserializationActive' = (deserializationActive \/ "native" = "deserialize")
    <3>1. serializationActive \in BOOLEAN /\ deserializationActive \in BOOLEAN
      BY DEF Inv, SInv, SessionTypes
    <3> QED BY <1>4, <3>1 DEF CallNative
  <2>4. SInv'
    BY <2>1, <2>2, <2>3, PushStep DEF Inv
  <2> QED BY <2>2, <2>4 DEF Inv
<1> QED BY <1>1, <1>2, <1>3, <1>4 DEF UserStep

LEMMA EndInv ==
  ASSUME Inv, Return \/ Throw
  PROVE  Inv'
<1>1. /\ frames # <<>> /\ F.pc \in {"return", "unwind"} /\ Finally
      /\ UNCHANGED <<calls, buffer, arena, stack, set, initVars, schemaVars>>
      /\ frames' \in Caught(Front(frames))
  BY DEF Return, Throw, Caught
<1>2. F.open = <<>>
  BY <1>1, TopFrame DEF Inv, FrameOK, Return, Throw
<1>3. InitInv' /\ RegInv'
  BY <1>1, Kept DEF Inv, schemaVars, restOfSchema
<1>4. SInv'
  BY <1>1, <1>2, PopStep DEF Inv
<1> QED BY <1>3, <1>4 DEF Inv

\* Every step keeps the invariant, and the instance in use.
LEMMA NextInv ==
  ASSUME Inv, [Next]_vars
  PROVE  Inv' /\ (runtime # 0 => runtime' = runtime)
<1>1. CASE EventLoop
  BY <1>1, EventLoopInv, InitStep DEF EventLoop, Inv
<1>2. CASE CallStep
  <2>1. Inv'
    BY <1>2, SchemaWorkInv, SchemaEndsInv, CurrentArenaInv, WriteLeafInv,
       WriteInvalidInv, WriteBoolsInv, WriteBoolInv, WriteObjectInv, CloseInv,
       FinishArenaInv, CompilePlanInv, DecodeTapeInv, ReadFieldInv, FinishReadInv,
       AllocateInv, RunNativeInv, CopyOutInv, UnwindNodeInv, EndInv DEF CallStep
  <2>2. UNCHANGED initVars
    BY <1>2 DEF CallStep, SchemaWork, SchemaEnds, CurrentArena, WriteLeaf, WriteInvalid,
       WriteBools, WriteBool, WriteObject, Close, FinishArena, CompilePlan, DecodeTape,
       ReadField, FinishRead, Allocate, RunNative, CopyOut, UnwindNode, Return, Throw
  <2> QED BY <2>1, <2>2 DEF initVars
<1>3. CASE UserStep
  <2>1. UNCHANGED initVars
    BY <1>3 DEF UserStep, CallSerialize, CallDeserialize, RefuseSerialize,
       RefuseDeserialize, CallNative
  <2> QED BY <1>3, <2>1, UserStepInv DEF initVars
<1>4. CASE UNCHANGED vars
  <2>1. UNCHANGED <<frames, calls, buffer, arena, serializationActive,
                    deserializationActive, stack, set, live, initVars, schemaVars>>
    BY <1>4 DEF vars, callVars, otherCallVars
  <2>2. InitInv' /\ RegInv' /\ schemaPhase' = schemaPhase
    BY <2>1, Kept DEF Inv, schemaVars, restOfSchema
  <2>3. SessionTypes' /\ OrderInv' /\ FlagInv' /\ LiveInv'
    BY <2>1, <2>2 DEF Inv, SInv, SessionTypes, OrderInv, FlagInv, LiveInv
  <2>4. SInv'
    BY <2>1, <2>3 DEF Inv, SInv
  <2> QED BY <2>1, <2>2, <2>4 DEF Inv, initVars
<1> QED BY <1>1, <1>2, <1>3, <1>4 DEF Next, Idle

LEMMA AlwaysInv == Spec => []Inv
<1>1. Init => Inv
  BY InitialState
<1>2. Inv /\ [Next]_vars => Inv'
  BY NextInv
<1> QED BY <1>1, <1>2, PTL DEF Spec

\* Every state of the runtime is well typed, for all schemas and bounds.
THEOREM SessionTyped == Spec => []SessionTypeOK
<1>1. Inv => SessionTypeOK
  <2> SUFFICES ASSUME Inv PROVE SessionTypeOK
    OBVIOUS
  <2>1. InitTypeOK /\ SchemaTypeOK
    BY RegInvTypes DEF Inv, InitInv
  <2>2. ASSUME NEW i \in DOMAIN frames PROVE frames[i] \in Frame
    BY DEF Inv, SInv, SessionTypes
  <2>3. ASSUME NEW i \in DOMAIN frames
        PROVE  /\ frames[i].op \in {"serialize", "deserialize", "native"}
               /\ frames[i].pc \in {"schema", "arena", "write", "plan", "tape", "read",
                                    "alloc", "run", "copy", "unwind", "return"}
               /\ frames[i].nodes \in 0 .. MaxNodes
               /\ frames[i].open \in
                    Seq([what : Objects \union {Bools}, depth : 0 .. MaxDepth])
    BY <2>2 DEF Frame, OpenNode
  <2> QED BY <2>1, <2>3 DEF Inv, SInv, SessionTypes, SessionTypeOK, Arena
<1> QED BY <1>1, AlwaysInv, PTL

\* The plans that registered schemas lead to are committed and complete,
\* whatever reservation, commit or resolver failed before
\* (compiledSchemaHandle and its rollback).
THEOREM HandlesClosed == Spec => []HandleClosure
<1>1. Inv => HandleClosure
  BY RegInvCloses DEF Inv
<1> QED BY <1>1, AlwaysInv, PTL

\* A caller that was told of a failed initialization never joins the failed
\* attempt again (the catch handler of ensureInitialized runs first).
THEOREM RetryCorrect == Spec => []RetryStartsAfresh
<1>1. Inv => RetryStartsAfresh
  <2> SUFFICES ASSUME Inv, initialization \in reported PROVE FALSE
    BY DEF RetryStartsAfresh
  <2>1. initialization \in Attempts /\ attempt[initialization] = "rejected"
    BY DEF Inv, InitInv, InitTypeOK
  <2>2. initialization # 0
    BY <2>1, AttemptsAssumption DEF Attempts
  <2> QED BY <2>1, <2>2 DEF Inv, InitInv, Busy
<1> QED BY <1>1, AlwaysInv, PTL

\* No step replaces the WASM instance in use, so cached handles and views
\* keep belonging to it.
THEOREM RuntimeStable == Spec => RuntimeNeverReplaced
<1>1. Inv /\ [Next]_vars => [runtime # 0 => runtime' = runtime]_runtime
  BY NextInv
<1> QED BY <1>1, AlwaysInv, PTL DEF Spec, RuntimeNeverReplaced

\* What serialize and deserialize return lost nothing to a detached view or
\* to a nested call: the checks they make before they return suffice.
THEOREM ReturnsComplete == Spec => []ReturnedDataComplete
<1>1. Inv => ReturnedDataComplete
  <2> SUFFICES ASSUME Inv, NEW i \in DOMAIN frames, frames[i].pc = "return"
               PROVE  ~frames[i].lost
    BY DEF ReturnedDataComplete
  <2>1. i \in 1 .. Len(frames)
    BY DEF Inv, SInv, SessionTypes
  <2>2. FrameOK(i, frames[i])
    BY <2>1 DEF Inv, SInv
  <2> QED BY <2>2 DEF FrameOK
<1> QED BY <1>1, AlwaysInv, PTL

\* A call never fails over detached views unless user code grew the memory
\* inside it.
THEOREM DetachedByUserCode == Spec => []DetachedOnlyByUserCode
<1>1. Inv => DetachedOnlyByUserCode
  <2> SUFFICES ASSUME Inv, NEW i \in DOMAIN frames, frames[i].why = "detached"
               PROVE  frames[i].disturbed
    BY DEF DetachedOnlyByUserCode
  <2>1. i \in 1 .. Len(frames)
    BY DEF Inv, SInv, SessionTypes
  <2>2. FrameOK(i, frames[i])
    BY <2>1 DEF Inv, SInv
  <2> QED BY <2>2 DEF FrameOK
<1> QED BY <1>1, AlwaysInv, PTL

\* The set of the cycle check is the stack, and no object is on it twice, on
\* both sides of the threshold from which the set is kept.
THEOREM CycleSetCorrect == Spec => []CycleSetIsStack
<1>1. Inv => CycleSetIsStack
  <2> SUFFICES ASSUME Inv PROVE CycleSetIsStack
    OBVIOUS
  <2> DEFINE l == Len(stack)
  <2>1. stack \in Seq(Objects) /\ l \in Nat /\ DOMAIN stack = 1 .. l
        /\ stack \in [1 .. l -> Objects] /\ CycleOK(stack, set)
    BY DEF Inv, SInv, SessionTypes
  <2>2. Range(stack) = {stack[d] : d \in 1 .. l}
    BY <2>1 DEF Range
  <2> HIDE DEF l
  <2>3. \A d, e \in 1 .. l : stack[d] = stack[e] => d = e
    BY <2>1 DEF CycleOK, l
  <2>4. stack \in Bijection(1 .. l, Range(stack))
    <3>1. stack \in [1 .. l -> Range(stack)]
      BY <2>1, <2>2
    <3>2. stack \in Injection(1 .. l, Range(stack))
      BY <2>3, <3>1 DEF Injection, IsInjective
    <3>3. stack \in Surjection(1 .. l, Range(stack))
      BY <2>2, <3>1 DEF Surjection
    <3> QED BY <3>2, <3>3 DEF Bijection
  <2>5. IsFiniteSet(1 .. l) /\ Cardinality(1 .. l) = l
    BY <2>1, FS_Interval, 1 \in Int
  <2>6. Cardinality(Range(stack)) = l
    BY <2>4, <2>5, FS_Bijection DEF ExistsBijection
  <2>7. set.on => set.members = Range(stack)
    <3>1. set.on => \A o : o \in set.members <=> \E d \in 1 .. l : stack[d] = o
      BY <2>1 DEF CycleOK, l
    <3> QED BY <2>2, <3>1
  <2> QED BY <2>6, <2>7 DEF CycleSetIsStack, l
<1> QED BY <1>1, AlwaysInv, PTL

\* Between calls no flag, no object on the cycle stack, no block of the WASM
\* heap and no half registered schema is left, whatever failed; inside calls
\* the blocks are those that the calls in progress will release.
THEOREM CallsLeaveNothing == Spec => []CleanBetweenCalls
<1>1. Inv => CleanBetweenCalls
  <2> SUFFICES ASSUME Inv PROVE CleanBetweenCalls
    OBVIOUS
  <2>1. DOMAIN frames = 1 .. Len(frames)
        /\ serializationActive \in BOOLEAN /\ deserializationActive \in BOOLEAN
    BY DEF Inv, SInv, SessionTypes
  <2>2. live = UNION {frames[i].held : i \in DOMAIN frames}
    <3>1. \A x : x \in live <=> \E i \in 1 .. Len(frames) : x \in frames[i].held
      BY DEF Inv, SInv, LiveInv
    <3>2. \A x : x \in UNION {frames[i].held : i \in DOMAIN frames} <=>
                 \E i \in 1 .. Len(frames) : x \in frames[i].held
      BY <2>1
    <3> QED BY <3>1, <3>2
  <2>3. /\ serializationActive = \E i \in DOMAIN frames : frames[i].op = "serialize"
        /\ deserializationActive = \E i \in DOMAIN frames : frames[i].op = "deserialize"
    BY <2>1 DEF Inv, SInv, FlagInv
  <2>4. frames = <<>> => stack = <<>> /\ ~set.on /\ schemaPhase = "idle"
    <3> SUFFICES ASSUME frames = <<>>
                 PROVE  stack = <<>> /\ ~set.on /\ schemaPhase = "idle"
      OBVIOUS
    <3>1. DOMAIN frames = {}
      OBVIOUS
    <3>2. stack = <<>>
      BY <2>3, <3>1 DEF Inv, SInv
    <3>3. set = NoSet
      BY <3>2 DEF Inv, SInv, CycleOK
    <3> QED BY <3>2, <3>3 DEF NoSet, Inv, SInv, OrderInv
  <2> QED BY <2>2, <2>3, <2>4 DEF CleanBetweenCalls
<1> QED BY <1>1, AlwaysInv, PTL
=============================================================================
