------------------------ MODULE DescriptorPool_proofs -----------------------
(* Proofs about DescriptorPool, for any files, messages and names.         *)
EXTENDS DescriptorPool, WellFoundedInduction, SequenceTheorems, TLAPS

-----------------------------------------------------------------------------
(* The operators of check_type and FixUnknownType.                         *)

\* The names check_type tries are a sequence of full names.
LEMMA CandidatesSeq ==
  ASSUME NEW fullname \in Names, NEW type \in Names
  PROVE  Candidates(fullname, type) \in Seq(Names)
  <1> DEFINE n == Len(fullname) - 1
             outer == [k \in 1 .. n |-> SubSeq(fullname, 1, Len(fullname) - k) \o type]
  <1>1. <<type, fullname \o type>> \in Seq(Names)
    BY DEF Names
  <1>2. outer \in Seq(Names)
    <2>1. \A k \in 1 .. n : SubSeq(fullname, 1, Len(fullname) - k) \in Names
      BY DEF Names
    <2>2. \A k \in 1 .. n : outer[k] \in Names
      BY <2>1 DEF Names
    <2>3. CASE n \in Nat
      BY <2>2, <2>3
    <2>4. CASE n \notin Nat
      <3>1. Len(fullname) \in Nat
        BY DEF Names
      <3>2. 1 .. n = {} /\ 1 .. 0 = {}
        BY <2>4, <3>1
      <3>3. outer \in [1 .. 0 -> Names]
        BY <2>2, <3>2
      <3> QED BY <3>3
    <2> QED BY <2>3, <2>4
  <1> QED BY <1>1, <1>2 DEF Candidates

\* Of the candidates that are in the pool one is the first.
LEMMA MinInSet ==
  ASSUME NEW S \in SUBSET Nat, S # {}
  PROVE  Min(S) \in S
  <1>1. PICK x \in S : \A y \in S : ~(<<y, x>> \in OpToRel(<, Nat))
    BY WFMin, NatLessThanWellFounded
  <1>2. \A y \in S : x <= y
    <2> SUFFICES ASSUME NEW y \in S PROVE x <= y
      OBVIOUS
    <2>1. ~(y < x)
      BY <1>1 DEF OpToRel
    <2> QED BY <2>1
  <1> QED BY <1>2 DEF Min

\* check_type binds an unknown field to a name in enum_ or pool_, and leaves
\* every other field alone.
LEMMA CheckTypeBinds ==
  ASSUME enum_ \subseteq Names, DOMAIN pool_ \subseteq Names,
         NEW fullname \in Names, NEW field \in Fields
  PROVE  LET bound == CheckType(fullname, field)
         IN  /\ bound \in Fields
             /\ field.value # "unknown" => bound = field
             /\ ~Resolves(fullname, field) => bound = field
             /\ Resolves(fullname, field) => bound.value # "unknown"
             /\ bound # field /\ bound.value = "message" => bound.type \in DOMAIN pool_
  <1> DEFINE names == Candidates(fullname, field.type)
             hits == Hits(fullname, field.type)
             bound == CheckType(fullname, field)
  <1>1. field.type \in Names /\ field.value \in {"plain", "unknown", "enum", "message"}
    BY DEF Fields
  <1>2. names \in Seq(Names)
    BY <1>1, CandidatesSeq
  <1>3. CASE field.value # "unknown" \/ hits = {}
    <2>1. bound = field
      BY <1>3 DEF CheckType
    <2>2. Resolves(fullname, field) => field.value # "unknown"
      BY <1>3 DEF Resolves
    <2> QED BY <2>1, <2>2
  <1>4. CASE field.value = "unknown" /\ hits # {}
    <2> DEFINE name == names[Min(hits)]
    <2>1. hits \subseteq Nat
      BY <1>2 DEF Hits
    <2>2. Min(hits) \in hits
      BY <1>4, <2>1, MinInSet
    <2>3. name \in Known
      BY <2>2 DEF Hits
    <2>4. bound = Bind(name)
      BY <1>4 DEF CheckType
    <2>5. Resolves(fullname, field)
      BY <1>4 DEF Resolves
    <2>6. name \in Names
      BY <2>3 DEF Known
    <2> HIDE DEF name, hits, bound
    <2>7. <<>> \in Names
      BY DEF Names
    <2>8. Bind(name) \in Fields /\ Bind(name).value # "unknown"
      BY <2>6, <2>7 DEF Bind, Fields
    <2>9. Bind(name).value = "message" => Bind(name).type \in DOMAIN pool_
      BY <2>3 DEF Bind, Known
    <2> QED BY <1>4, <2>4, <2>5, <2>8, <2>9 DEF bound
  <1> QED BY <1>3, <1>4

\* FixUnknownType changes only unknown fields that can be bound, and all of
\* them when it returns true.
LEMMA FixBinds ==
  ASSUME enum_ \subseteq Names, DOMAIN pool_ \subseteq Names,
         NEW fullname \in Names, NEW d, IsDescriptor(d), NEW seen
  PROVE  LET new == FixUnknownType(fullname, d, seen)
         IN  /\ new \in [DOMAIN d.fields -> Fields]
             /\ \A f \in DOMAIN d.fields :
                  /\ d.fields[f].value # "unknown" => new[f] = d.fields[f]
                  /\ ~Resolves(fullname, d.fields[f]) => new[f] = d.fields[f]
                  /\ AllResolve(fullname, d) => new[f].value # "unknown"
                  /\ new[f] # d.fields[f] /\ new[f].value = "message" =>
                       new[f].type \in DOMAIN pool_
  <1> DEFINE new == FixUnknownType(fullname, d, seen)
  <1>1. \A f \in DOMAIN d.fields : d.fields[f] \in Fields
    BY DEF IsDescriptor
  <1>2. ASSUME NEW f \in DOMAIN d.fields
        PROVE  /\ new[f] \in Fields
               /\ d.fields[f].value # "unknown" => new[f] = d.fields[f]
               /\ ~Resolves(fullname, d.fields[f]) => new[f] = d.fields[f]
               /\ AllResolve(fullname, d) => new[f].value # "unknown"
               /\ new[f] # d.fields[f] /\ new[f].value = "message" =>
                    new[f].type \in DOMAIN pool_
    <2> DEFINE field == d.fields[f]
    <2>1. field \in Fields
      BY <1>1, <1>2
    <2>2. new[f] = field \/ new[f] = CheckType(fullname, field)
      BY <1>2 DEF FixUnknownType
    <2>3. AllResolve(fullname, d) =>
            new[f] = CheckType(fullname, field) /\ Resolves(fullname, field)
      BY <1>2 DEF FixUnknownType, AllResolve
    <2> HIDE DEF new, field
    <2>4. LET bound == CheckType(fullname, field)
          IN  /\ bound \in Fields
              /\ field.value # "unknown" => bound = field
              /\ ~Resolves(fullname, field) => bound = field
              /\ Resolves(fullname, field) => bound.value # "unknown"
              /\ bound # field /\ bound.value = "message" => bound.type \in DOMAIN pool_
      BY <2>1, CheckTypeBinds
    <2> QED BY <2>1, <2>2, <2>3, <2>4 DEF field
  <1>3. new = [f \in DOMAIN d.fields |-> new[f]]
    BY DEF FixUnknownType
  <1> QED BY <1>2, <1>3

-----------------------------------------------------------------------------
(* The inductive invariant: while Register runs, nothing is settled and    *)
(* nothing has been asked for.                                             *)

Quiet == calls # <<>> => ~settled /\ answer = {}
Inv == TypeOK /\ BoundFieldsLead /\ RegisterResolves /\ Quiet

\* One step on the fields of a descriptor, by FixUnknownType: what it keeps of
\* the types and of BoundFieldsLead, and that nothing bound changes.
LEMMA DescriptorStep ==
  ASSUME TypeOK, BoundFieldsLead, DOMAIN pool_' = DOMAIN pool_,
         NEW n \in DOMAIN pool_, NEW seen, NEW state,
         state \in {"new", "failed", "resolved"},
         state = "resolved" => AllResolve(n, pool_[n]),
         pool_'[n] = [state |-> state, fields |-> FixUnknownType(n, pool_[n], seen)]
  PROVE  /\ IsDescriptor(pool_'[n])
         /\ DOMAIN pool_'[n].fields = DOMAIN pool_[n].fields
         /\ \A f \in DOMAIN pool_[n].fields :
              LET field == pool_'[n].fields[f]
              IN  /\ field.value = "message" => field.type \in DOMAIN pool_'
                  /\ state = "resolved" => field.value # "unknown"
                  /\ pool_[n].fields[f].value # "unknown" => field = pool_[n].fields[f]
                  /\ ~Resolves(n, pool_[n].fields[f]) => field = pool_[n].fields[f]
  <1> DEFINE d == pool_[n]
             new == FixUnknownType(n, d, seen)
  <1>1. enum_ \subseteq Names /\ DOMAIN pool_ \subseteq Names /\ IsDescriptor(d) /\ n \in Names
    BY DEF TypeOK
  <1>2. \A f \in DOMAIN d.fields : d.fields[f].value = "message" => d.fields[f].type \in DOMAIN pool_
    BY DEF BoundFieldsLead
  <1> HIDE DEF d
  <1>3. LET g == FixUnknownType(n, d, seen)
        IN  /\ g \in [DOMAIN d.fields -> Fields]
            /\ \A f \in DOMAIN d.fields :
                 /\ d.fields[f].value # "unknown" => g[f] = d.fields[f]
                 /\ ~Resolves(n, d.fields[f]) => g[f] = d.fields[f]
                 /\ AllResolve(n, d) => g[f].value # "unknown"
                 /\ g[f] # d.fields[f] /\ g[f].value = "message" => g[f].type \in DOMAIN pool_
    BY <1>1, FixBinds
  <1>4. pool_'[n].state = state /\ pool_'[n].fields = new
    BY DEF d
  <1> HIDE DEF new
  <1>5. /\ new \in [DOMAIN d.fields -> Fields]
        /\ \A f \in DOMAIN d.fields :
             /\ d.fields[f].value # "unknown" => new[f] = d.fields[f]
             /\ ~Resolves(n, d.fields[f]) => new[f] = d.fields[f]
             /\ AllResolve(n, d) => new[f].value # "unknown"
             /\ new[f] # d.fields[f] /\ new[f].value = "message" => new[f].type \in DOMAIN pool_
    BY <1>3 DEF new
  <1>6. IsDescriptor(pool_'[n])
    <2>1. pool_'[n] = [state |-> state, fields |-> new]
      BY DEF new, d
    <2>2. DOMAIN new = DOMAIN d.fields
      BY <1>5
    <2>3. new \in [DOMAIN new -> Fields]
      BY <1>5, <2>2
    <2> QED BY <2>1, <2>3 DEF IsDescriptor
  <1> QED BY <1>2, <1>4, <1>5, <1>6 DEF d

\* The same for a descriptor that the last loop of Register visits.
LEMMA FixedStep ==
  ASSUME TypeOK, BoundFieldsLead, DOMAIN pool_' = DOMAIN pool_, enum_' = enum_,
         NEW n \in DOMAIN pool_, NEW seen, pool_'[n] = Fixed(n, seen)
  PROVE  /\ IsDescriptor(pool_'[n])
         /\ DOMAIN pool_'[n].fields = DOMAIN pool_[n].fields
         /\ pool_[n].state = "resolved" => pool_'[n] = pool_[n]
         /\ pool_'[n].state = "resolved" \/ ~AllResolve(n, pool_[n])'
         /\ \A f \in DOMAIN pool_[n].fields :
              LET field == pool_'[n].fields[f]
              IN  /\ field.value = "message" => field.type \in DOMAIN pool_'
                  /\ pool_'[n].state = "resolved" => field.value # "unknown"
                  /\ pool_[n].fields[f].value # "unknown" => field = pool_[n].fields[f]
  <1> DEFINE d == pool_[n]
  <1>1. /\ d = [state |-> d.state, fields |-> d.fields]
        /\ IsDescriptor(d) /\ d.state \in {"new", "failed", "resolved"}
    BY DEF TypeOK, IsDescriptor
  <1>2. CASE d.state = "resolved"
    <2>1. pool_'[n] = [state |-> d.state, fields |-> d.fields]
      BY <1>2 DEF Fixed
    <2>2. pool_'[n] = d
      BY <1>1, <2>1
    <2> QED BY <1>1, <1>2, <2>2 DEF BoundFieldsLead
  <1>3. CASE d.state # "resolved"
    <2> DEFINE state == IF AllResolve(n, d) THEN "resolved" ELSE d.state
    <2>1. pool_'[n] = [state |-> state, fields |-> FixUnknownType(n, pool_[n], seen)]
      BY <1>3 DEF Fixed
    <2>2. state \in {"new", "failed", "resolved"}
      BY <1>1
    <2>3. state = "resolved" => AllResolve(n, pool_[n])
      BY <1>3
    <2>4. state # "resolved" => ~AllResolve(n, pool_[n])
      OBVIOUS
    <2>5. pool_'[n].state = state
      BY <2>1
    <2> HIDE DEF state
    <2>6. /\ IsDescriptor(pool_'[n])
          /\ DOMAIN pool_'[n].fields = DOMAIN pool_[n].fields
          /\ \A f \in DOMAIN pool_[n].fields :
              LET field == pool_'[n].fields[f]
              IN  /\ field.value = "message" => field.type \in DOMAIN pool_'
                  /\ state = "resolved" => field.value # "unknown"
                  /\ pool_[n].fields[f].value # "unknown" => field = pool_[n].fields[f]
                  /\ ~Resolves(n, pool_[n].fields[f]) => field = pool_[n].fields[f]
      BY <2>1, <2>2, <2>3, DescriptorStep
    <2>7. ASSUME ~AllResolve(n, pool_[n]) PROVE ~AllResolve(n, pool_[n])'
      <3>1. PICK f \in DOMAIN pool_[n].fields : ~Resolves(n, pool_[n].fields[f])
        BY <2>7 DEF AllResolve
      <3>2. pool_'[n].fields[f] = pool_[n].fields[f] /\ f \in DOMAIN pool_'[n].fields
        BY <2>6, <3>1
      <3>3. Known' = Known
        BY DEF Known
      <3>4. ~Resolves(n, pool_[n].fields[f])'
        BY <3>1, <3>2, <3>3 DEF Resolves, Hits
      <3> QED BY <3>2, <3>4 DEF AllResolve
    <2> QED BY <1>3, <2>4, <2>5, <2>6, <2>7
  <1> QED BY <1>2, <1>3

-----------------------------------------------------------------------------
(* One lemma for each action.                                              *)

\* At first there is nothing.
LEMMA InitInv ==
  ASSUME Init PROVE Inv
  <1>1. DOMAIN pool_ = {}
    BY DEF Init
  <1>2. pool_ = [n \in DOMAIN pool_ |-> pool_[n]]
    BY DEF Init
  <1>3. calls \in Seq([proto : Protos \union Files, ns : Names, todo : Seq(Protos)])
    BY DEF Init
  <1>4. TypeOK
    BY <1>1, <1>2, <1>3 DEF Init, TypeOK
  <1> QED BY <1>1, <1>4 DEF Inv, Init, BoundFieldsLead, RegisterResolves, Quiet

Calls == [proto : Protos \union Files, ns : Names, todo : Seq(Protos)]

\* Register of a file: nothing in the pool changes.
LEMMA RegisterFileInv ==
  ASSUME Inv, NEW file \in Files, RegisterFile(file)
  PROVE  Inv'
  <1> USE DEF RegisterFile
  <1>1. Package[file] \in Names /\ Messages[file] \in Seq(Protos) /\ EnumsOf[file] \subseteq Ids
    BY PoolAssumption
  <1>2. \A e \in EnumsOf[file] : Fullname(Package[file], e) \in Names
    BY <1>1 DEF Fullname, Names
  <1>3. enum_' \subseteq Names
    BY <1>2 DEF Inv, TypeOK
  <1>4. Call(file, Package[file], Messages[file]) \in Calls
    BY <1>1 DEF Call, Calls
  <1>5. calls' \in Seq(Calls)
    BY <1>4
  <1>6. TypeOK'
    BY <1>3, <1>5 DEF Inv, TypeOK, Calls
  <1>7. BoundFieldsLead'
    BY DEF Inv, BoundFieldsLead
  <1> QED BY <1>6, <1>7 DEF Inv, RegisterResolves, Quiet

\* Facts about the calls of a Register that runs.
LEMMA CallsShape ==
  ASSUME Inv, calls # <<>>
  PROVE  /\ Top \in Calls /\ Caller \in Seq(Calls)
         /\ ~settled /\ answer = {}
  <1>1. calls \in Seq(Calls)
    BY DEF Inv, TypeOK, Calls
  <1>2. Len(calls) \in Nat /\ Len(calls) # 0 /\ Len(calls) \in DOMAIN calls
    BY <1>1
  <1>3. Top \in Calls
    BY <1>1, <1>2 DEF Top
  <1>4. Caller \in Seq(Calls)
    BY <1>1, <1>2 DEF Caller
  <1> QED BY <1>3, <1>4 DEF Inv, Quiet

\* Register of the next message.
LEMMA RegisterMessageInv ==
  ASSUME Inv, RegisterMessage
  PROVE  Inv'
  <1> DEFINE p == Head(Top.todo)
             fullname == Fullname(Top.ns, NameOf[p])
             rest == [Top EXCEPT !.todo = Tail(Top.todo)]
  <1>1. calls # <<>> /\ Top.todo # <<>>
    BY DEF RegisterMessage
  <1>2. Top \in Calls /\ Caller \in Seq(Calls) /\ ~settled /\ answer = {}
    BY <1>1, CallsShape
  <1>3. Top.ns \in Names /\ Top.todo \in Seq(Protos)
    BY <1>2 DEF Calls
  <1>4. p \in Protos /\ Tail(Top.todo) \in Seq(Protos)
    BY <1>1, <1>3
  <1>5. NameOf[p] \in Ids /\ NestedIn[p] \in Seq(Protos) /\ EnumsOf[p] \subseteq Ids
    BY <1>4, PoolAssumption
  <1>6. fullname \in Names
    BY <1>3, <1>5 DEF Fullname, Names
  <1>7. rest \in Calls
    BY <1>2, <1>4 DEF Calls
  <1>8. /\ enum_' = enum_ \union {Fullname(fullname, e) : e \in EnumsOf[p]}
        /\ calls' = Append(Append(Caller, rest), Call(p, fullname, NestedIn[p]))
        /\ pool_' = pool_ /\ answer' = answer /\ settled' = settled
    BY DEF RegisterMessage
  <1> HIDE DEF p, fullname, rest
  <1>9. \A e \in EnumsOf[p] : Fullname(fullname, e) \in Names
    BY <1>5, <1>6 DEF Fullname, Names
  <1>10. Call(p, fullname, NestedIn[p]) \in Calls
    BY <1>4, <1>5, <1>6 DEF Call, Calls
  <1>11. calls' \in Seq(Calls)
    BY <1>2, <1>7, <1>8, <1>10
  <1>12. TypeOK'
    BY <1>8, <1>9, <1>11 DEF Inv, TypeOK, Calls
  <1>13. BoundFieldsLead'
    BY <1>8 DEF Inv, BoundFieldsLead
  <1> QED BY <1>2, <1>8, <1>12, <1>13 DEF Inv, RegisterResolves, Quiet

\* A new descriptor has no field that is bound.
LEMMA AddDescriptorInv ==
  ASSUME Inv, AddDescriptor
  PROVE  Inv'
  <1> DEFINE q == Top.proto
             new == NewDescriptor(q)
  <1>1. Len(calls) > 1
    BY DEF AddDescriptor
  <1>2. calls # <<>>
    <2>1. calls \in Seq(Calls)
      BY DEF Inv, TypeOK, Calls
    <2> QED BY <1>1, <2>1
  <1>3. Top \in Calls /\ Caller \in Seq(Calls) /\ ~settled /\ answer = {}
    BY <1>2, CallsShape
  <1>4. Top.ns \in Names /\ q \in Protos
    BY <1>3, PoolAssumption DEF AddDescriptor, Calls
  <1>5. /\ new.state = "new" /\ new = [state |-> new.state, fields |-> new.fields]
        /\ DOMAIN new.fields = DOMAIN FieldsOf[q]
        /\ \A f \in DOMAIN FieldsOf[q] : new.fields[f] = ConvertField(FieldsOf[q][f])
        /\ new.fields = [f \in DOMAIN new.fields |-> new.fields[f]]
    BY DEF NewDescriptor
  <1>6. \A f \in DOMAIN FieldsOf[q] : FieldsOf[q][f] \in Names
    BY <1>4, PoolAssumption
  <1>7. \A f \in DOMAIN FieldsOf[q] :
          ConvertField(FieldsOf[q][f]) \in Fields /\ ConvertField(FieldsOf[q][f]).value # "message"
    BY <1>6 DEF ConvertField, Fields
  <1> HIDE DEF new
  <1>8. IsDescriptor(new)
    BY <1>5, <1>7 DEF IsDescriptor
  <1>9. /\ Top.ns \notin DOMAIN pool_
        /\ pool_' = [n \in DOMAIN pool_ \union {Top.ns} |-> IF n = Top.ns THEN new ELSE pool_[n]]
        /\ calls' = Caller /\ enum_' = enum_ /\ answer' = answer /\ settled' = settled
    BY DEF AddDescriptor, new
  <1>10. TypeOK'
    BY <1>3, <1>4, <1>8, <1>9 DEF Inv, TypeOK, Calls
  <1>11. BoundFieldsLead'
    <2> SUFFICES ASSUME NEW n \in DOMAIN pool_', NEW f \in DOMAIN pool_'[n].fields
                 PROVE  /\ pool_'[n].fields[f].value = "message" =>
                             pool_'[n].fields[f].type \in DOMAIN pool_'
                        /\ pool_'[n].state = "resolved" => pool_'[n].fields[f].value # "unknown"
      BY DEF BoundFieldsLead
    <2>1. CASE n = Top.ns
      <3>1. pool_'[n] = new
        BY <1>9, <2>1
      <3>2. f \in DOMAIN FieldsOf[q]
        BY <1>5, <3>1
      <3> QED BY <1>5, <1>7, <3>1, <3>2
    <2>2. CASE n # Top.ns
      <3>1. n \in DOMAIN pool_ /\ pool_'[n] = pool_[n]
        BY <1>9, <2>2
      <3> QED BY <1>9, <3>1 DEF Inv, BoundFieldsLead
    <2> QED BY <2>1, <2>2
  <1> QED BY <1>3, <1>9, <1>10, <1>11 DEF Inv, RegisterResolves, Quiet

\* A call that fails leaves the pool.
LEMMA RefuseDescriptorInv ==
  ASSUME Inv, RefuseDescriptor
  PROVE  Inv'
  <1>1. Len(calls) > 1 /\ calls \in Seq(Calls)
    BY DEF RefuseDescriptor, Inv, TypeOK, Calls
  <1>2. calls # <<>>
    BY <1>1
  <1>3. ~settled /\ answer = {}
    BY <1>2 DEF Inv, Quiet
  <1>4. calls' = <<>> /\ UNCHANGED <<enum_, pool_, answer, settled>>
    BY DEF RefuseDescriptor
  <1>5. calls' \in Seq(Calls)
    BY <1>4
  <1>6. TypeOK'
    BY <1>4, <1>5 DEF Inv, TypeOK, Calls
  <1> QED BY <1>3, <1>4, <1>6 DEF Inv, BoundFieldsLead, RegisterResolves, Quiet

\* The last loop of Register.
LEMMA FixPoolInv ==
  ASSUME Inv, FixPool
  PROVE  Inv'
  <1>1. PICK seen \in SUBSET Doubtful :
          pool_' = [n \in DOMAIN pool_ |->
                      Fixed(n, {f \in DOMAIN pool_[n].fields : <<n, f>> \in seen})]
    BY DEF FixPool
  <1>2. calls \in Seq(Calls) /\ Len(calls) = 1
    BY DEF FixPool, Inv, TypeOK, Calls
  <1>3. calls # <<>>
    BY <1>2
  <1>4. answer = {} /\ answer' = answer /\ enum_' = enum_ /\ calls' = <<>> /\ settled' = TRUE
    BY <1>3 DEF Inv, Quiet, FixPool
  <1>5. DOMAIN pool_' = DOMAIN pool_ /\ pool_' = [n \in DOMAIN pool_' |-> pool_'[n]]
    BY <1>1
  <1>6. TypeOK /\ BoundFieldsLead
    BY DEF Inv
  <1>7. \A n \in DOMAIN pool_ :
          /\ IsDescriptor(pool_'[n])
          /\ DOMAIN pool_'[n].fields = DOMAIN pool_[n].fields
          /\ pool_'[n].state = "resolved" \/ ~AllResolve(n, pool_[n])'
          /\ \A f \in DOMAIN pool_[n].fields :
               LET field == pool_'[n].fields[f]
               IN  /\ field.value = "message" => field.type \in DOMAIN pool_'
                   /\ pool_'[n].state = "resolved" => field.value # "unknown"
    <2> TAKE n \in DOMAIN pool_
    <2>1. pool_'[n] = Fixed(n, {f \in DOMAIN pool_[n].fields : <<n, f>> \in seen})
      BY <1>1
    <2> QED BY <1>4, <1>5, <1>6, <2>1, FixedStep
  <1>8. TypeOK'
    <2>1. calls' \in Seq(Calls)
      BY <1>4
    <2> QED BY <1>4, <1>5, <1>6, <1>7, <2>1 DEF TypeOK, Calls
  <1>9. BoundFieldsLead'
    BY <1>5, <1>7 DEF BoundFieldsLead
  <1>10. RegisterResolves'
    BY <1>4, <1>5, <1>7 DEF RegisterResolves
  <1> QED BY <1>4, <1>8, <1>9, <1>10 DEF Inv, Quiet

\* A resolved descriptor has all its types.
LEMMA ResolvedResolve ==
  ASSUME BoundFieldsLead, NEW n \in DOMAIN pool_, pool_[n].state = "resolved"
  PROVE  AllResolve(n, pool_[n])
  BY DEF BoundFieldsLead, AllResolve, Resolves

\* Find of a name that is not in the pool, or not for the first time.
LEMMA FindKnownInv ==
  ASSUME Inv, NEW name \in Asked, FindNothing(name) \/ FindAgain(name)
  PROVE  Inv'
  <1>1. /\ calls = <<>> /\ UNCHANGED <<enum_, pool_, calls, settled>>
    BY DEF FindNothing, FindAgain
  <1>2. name \in Names
    BY PoolAssumption
  <1>3. PICK found \in BOOLEAN :
          /\ answer' = {[name |-> name, found |-> found]}
          /\ name \in DOMAIN pool_ => (found <=> pool_[name].state = "resolved")
    BY DEF FindNothing, FindAgain, Answer
  <1>4. TypeOK'
    BY <1>1, <1>2, <1>3 DEF Inv, TypeOK
  <1>5. BoundFieldsLead'
    BY <1>1 DEF Inv, BoundFieldsLead
  <1>6. RegisterResolves'
    <2> SUFFICES ASSUME settled PROVE RegisterResolves'
      BY <1>1 DEF RegisterResolves
    <2>1. \A n : \A d : AllResolve(n, d)' <=> AllResolve(n, d)
      BY <1>1 DEF AllResolve, Resolves, Hits, Known
    <2>2. \A n \in DOMAIN pool_ : pool_[n].state = "resolved" \/ ~AllResolve(n, pool_[n])
      BY DEF Inv, RegisterResolves
    <2>3. name \in DOMAIN pool_ => (found <=> AllResolve(name, pool_[name]))
      BY <1>3, <2>2, ResolvedResolve DEF Inv
    <2> QED BY <1>1, <1>3, <2>1, <2>2, <2>3 DEF RegisterResolves
  <1> QED BY <1>1, <1>4, <1>5, <1>6 DEF Inv, Quiet

\* The first Find of a descriptor.
LEMMA FindFirstInv ==
  ASSUME Inv, NEW name \in Asked, FindFirst(name)
  PROVE  Inv'
  <1> DEFINE d == pool_[name]
             state == Found(name, d)
  <1>1. /\ calls = <<>> /\ UNCHANGED <<enum_, calls, settled>> /\ name \in DOMAIN pool_
        /\ answer' = {[name |-> name, found |-> state = "resolved"]}
    BY DEF FindFirst, Answer
  <1>2. PICK seen : pool_' = [pool_ EXCEPT ![name] = [state |-> state,
                                                      fields |-> FixUnknownType(name, d, seen)]]
    BY DEF FindFirst
  <1>3. /\ DOMAIN pool_' = DOMAIN pool_ /\ pool_' = [n \in DOMAIN pool_' |-> pool_'[n]]
        /\ pool_'[name] = [state |-> state, fields |-> FixUnknownType(name, pool_[name], seen)]
        /\ \A n \in DOMAIN pool_ : n # name => pool_'[n] = pool_[n]
    BY <1>1, <1>2 DEF Inv, TypeOK
  <1>4. /\ state \in {"new", "failed", "resolved"}
        /\ state = "resolved" <=> AllResolve(name, pool_[name])
    BY DEF Found
  <1> HIDE DEF state
  <1>5. TypeOK /\ BoundFieldsLead
    BY DEF Inv
  <1>6. /\ IsDescriptor(pool_'[name])
        /\ DOMAIN pool_'[name].fields = DOMAIN pool_[name].fields
        /\ \A f \in DOMAIN pool_[name].fields :
             LET field == pool_'[name].fields[f]
             IN  /\ field.value = "message" => field.type \in DOMAIN pool_'
                 /\ state = "resolved" => field.value # "unknown"
                 /\ pool_[name].fields[f].value # "unknown" => field = pool_[name].fields[f]
                 /\ ~Resolves(name, pool_[name].fields[f]) => field = pool_[name].fields[f]
    BY <1>1, <1>3, <1>4, <1>5, DescriptorStep
  <1>7. pool_'[name].state = state
    BY <1>3
  <1>8. TypeOK'
    <2>1. name \in Names
      BY PoolAssumption
    <2>2. answer' \subseteq [name : Names, found : BOOLEAN]
      BY <1>1, <2>1
    <2>3. \A n \in DOMAIN pool_' : IsDescriptor(pool_'[n])
      BY <1>3, <1>5, <1>6 DEF TypeOK
    <2> QED BY <1>1, <1>3, <1>5, <2>2, <2>3 DEF TypeOK
  <1>9. BoundFieldsLead'
    <2> SUFFICES ASSUME NEW n \in DOMAIN pool_', NEW f \in DOMAIN pool_'[n].fields
                 PROVE  /\ pool_'[n].fields[f].value = "message" =>
                             pool_'[n].fields[f].type \in DOMAIN pool_'
                        /\ pool_'[n].state = "resolved" => pool_'[n].fields[f].value # "unknown"
      BY DEF BoundFieldsLead
    <2>1. CASE n = name
      BY <1>6, <1>7, <2>1
    <2>2. CASE n # name
      BY <1>3, <1>5, <2>2 DEF BoundFieldsLead
    <2> QED BY <2>1, <2>2
  <1>10. RegisterResolves'
    <2> SUFFICES ASSUME settled PROVE RegisterResolves'
      BY <1>1 DEF RegisterResolves
    <2>1. Known' = Known
      BY <1>1, <1>3 DEF Known
    <2>2. \A n : \A field : Resolves(n, field)' <=> Resolves(n, field)
      BY <2>1 DEF Resolves, Hits
    <2>3. AllResolve(name, pool_[name])' <=> state = "resolved"
      <3>1. CASE state = "resolved"
        BY <1>6, <3>1 DEF AllResolve, Resolves
      <3>2. CASE state # "resolved"
        <4>1. PICK f \in DOMAIN pool_[name].fields : ~Resolves(name, pool_[name].fields[f])
          BY <1>4, <3>2 DEF AllResolve
        <4>2. pool_'[name].fields[f] = pool_[name].fields[f] /\ f \in DOMAIN pool_'[name].fields
          BY <1>6, <4>1
        <4>3. ~Resolves(name, pool_[name].fields[f])'
          BY <2>2, <4>1, <4>2
        <4>4. ~AllResolve(name, pool_[name])'
          BY <4>2, <4>3 DEF AllResolve
        <4> QED BY <3>2, <4>4
      <3> QED BY <3>1, <3>2
    <2>4. ASSUME NEW n \in DOMAIN pool_'
          PROVE  pool_'[n].state = "resolved" \/ ~AllResolve(n, pool_[n])'
      <3>1. CASE n = name
        BY <1>7, <2>3, <3>1
      <3>2. CASE n # name
        <4>1. n \in DOMAIN pool_ /\ pool_'[n] = pool_[n]
          BY <1>3, <3>2
        <4>2. pool_[n].state = "resolved" \/ ~AllResolve(n, pool_[n])
          BY <4>1 DEF Inv, RegisterResolves
        <4>3. AllResolve(n, pool_[n])' <=> AllResolve(n, pool_[n])
          BY <2>2, <4>1 DEF AllResolve
        <4> QED BY <4>1, <4>2, <4>3
      <3> QED BY <3>1, <3>2
    <2>5. ASSUME NEW a \in answer' PROVE a.name = name /\ (a.found <=> state = "resolved")
      <3>1. a = [name |-> name, found |-> state = "resolved"]
        BY <1>1
      <3>2. a.name = name /\ a.found = (state = "resolved")
        BY <3>1
      <3> QED BY <3>2
    <2>6. \A a \in answer' : a.name \in DOMAIN pool_' =>
            (a.found <=> AllResolve(a.name, pool_[a.name])')
      BY <2>3, <2>5
    <2> QED BY <2>4, <2>6 DEF RegisterResolves
  <1> QED BY <1>1, <1>8, <1>9, <1>10 DEF Inv, Quiet

\* Every step keeps the invariant.
LEMMA NextInv ==
  ASSUME Inv, [Next]_vars
  PROVE  Inv'
  <1>1. CASE UNCHANGED vars
    <2>1. UNCHANGED enum_ /\ UNCHANGED pool_ /\ UNCHANGED calls /\ UNCHANGED answer
          /\ UNCHANGED settled
      BY <1>1 DEF vars
    <2>2. TypeOK'
      BY <2>1 DEF Inv, TypeOK
    <2>3. BoundFieldsLead'
      BY <2>1 DEF Inv, BoundFieldsLead
    <2>4. Known' = Known
      BY <2>1 DEF Known
    <2>5. \A n : \A field : Resolves(n, field)' <=> Resolves(n, field)
      BY <2>4 DEF Resolves, Hits
    <2>6. \A n : AllResolve(n, pool_[n])' <=> AllResolve(n, pool_[n])
      BY <2>1, <2>5 DEF AllResolve
    <2>7. RegisterResolves'
      BY <2>1, <2>6 DEF Inv, RegisterResolves
    <2> QED BY <2>1, <2>2, <2>3, <2>7 DEF Inv, Quiet
  <1>2. ASSUME NEW file \in Files, RegisterFile(file) PROVE Inv'
    BY <1>2, RegisterFileInv
  <1>3. CASE RegisterMessage
    BY <1>3, RegisterMessageInv
  <1>4. CASE AddDescriptor
    BY <1>4, AddDescriptorInv
  <1>5. CASE RefuseDescriptor
    BY <1>5, RefuseDescriptorInv
  <1>6. CASE FixPool
    BY <1>6, FixPoolInv
  <1>7. ASSUME NEW name \in Asked, Find(name) PROVE Inv'
    BY <1>7, FindKnownInv, FindFirstInv DEF Find
  <1> QED BY <1>1, <1>2, <1>3, <1>4, <1>5, <1>6, <1>7 DEF Next

-----------------------------------------------------------------------------
(* Theorems.                                                               *)

\* In every state the invariant holds.
LEMMA InvHolds == Spec => []Inv
  BY InitInv, NextInv, PTL DEF Spec

\* value_descriptor of a bound field leads into the pool, and a descriptor
\* that is resolved has no field of unknown type, also after a Register that
\* failed half way and a Find that gave up.
THEOREM BoundCorrect == Spec => []BoundFieldsLead
  <1>1. Inv => BoundFieldsLead
    BY DEF Inv
  <1> QED BY <1>1, InvHolds, PTL

\* After a Register that returned true, Find refuses exactly the messages
\* with a type that is not in the pool, whatever went wrong before.
THEOREM ResolveCorrect == Spec => []RegisterResolves
  <1>1. Inv => RegisterResolves
    BY DEF Inv
  <1> QED BY <1>1, InvHolds, PTL

\* A descriptor that Find has returned never changes, nor does a field that
\* is bound.
THEOREM BindingsCorrect == Spec => BindingsStay
  <1> DEFINE Stays(n) ==
        /\ n \in DOMAIN pool_'
        /\ pool_[n].state = "resolved" => pool_'[n] = pool_[n]
        /\ \A f \in DOMAIN pool_[n].fields :
             pool_[n].fields[f].value # "unknown" => pool_'[n].fields[f] = pool_[n].fields[f]
  <1>1. ASSUME Inv, [Next]_vars
        PROVE  [\A n \in DOMAIN pool_ : Stays(n)]_vars
    <2> SUFFICES ASSUME Next, NEW n \in DOMAIN pool_ PROVE Stays(n)
      BY <1>1
    <2>1. CASE UNCHANGED pool_
      BY <2>1
    <2>2. CASE AddDescriptor
      BY <2>2 DEF AddDescriptor
    <2>3. CASE FixPool
      <3>1. PICK seen \in SUBSET Doubtful :
              pool_' = [m \in DOMAIN pool_ |->
                          Fixed(m, {f \in DOMAIN pool_[m].fields : <<m, f>> \in seen})]
        BY <2>3 DEF FixPool
      <3>2. DOMAIN pool_' = DOMAIN pool_ /\ enum_' = enum_
        BY <2>3, <3>1 DEF FixPool
      <3>3. pool_'[n] = Fixed(n, {f \in DOMAIN pool_[n].fields : <<n, f>> \in seen})
        BY <3>1
      <3>4. TypeOK /\ BoundFieldsLead
        BY <1>1 DEF Inv
      <3> QED BY <3>2, <3>3, <3>4, FixedStep
    <2>4. ASSUME NEW name \in Asked, FindFirst(name) PROVE Stays(n)
      <3>1. PICK seen : pool_' = [pool_ EXCEPT ![name] =
                                    [state |-> Found(name, pool_[name]),
                                     fields |-> FixUnknownType(name, pool_[name], seen)]]
        BY <2>4 DEF FindFirst
      <3>2. DOMAIN pool_' = DOMAIN pool_ /\ name \in DOMAIN pool_
        BY <2>4, <3>1 DEF FindFirst
      <3>3. CASE n # name
        BY <3>1, <3>2, <3>3
      <3>4. CASE n = name
        <4>1. pool_[n].state = "new"
          BY <2>4, <3>4 DEF FindFirst
        <4>2. pool_'[n] = [state |-> Found(n, pool_[n]),
                           fields |-> FixUnknownType(n, pool_[n], seen)]
          BY <3>1, <3>2, <3>4
        <4>3. /\ Found(n, pool_[n]) \in {"new", "failed", "resolved"}
              /\ Found(n, pool_[n]) = "resolved" => AllResolve(n, pool_[n])
          BY DEF Found
        <4>4. TypeOK /\ BoundFieldsLead
          BY <1>1 DEF Inv
        <4>5. \A f \in DOMAIN pool_[n].fields :
                pool_[n].fields[f].value # "unknown" =>
                  pool_'[n].fields[f] = pool_[n].fields[f]
          BY <3>2, <4>2, <4>3, <4>4, DescriptorStep
        <4> QED BY <3>2, <4>1, <4>5
      <3> QED BY <3>3, <3>4
    <2>5. UNCHANGED pool_ \/ AddDescriptor \/ FixPool \/ \E name \in Asked : FindFirst(name)
      BY DEF Next, Find, RegisterFile, RegisterMessage, RefuseDescriptor, FindNothing, FindAgain
    <2> QED BY <2>1, <2>2, <2>3, <2>4, <2>5
  <1> QED BY <1>1, InvHolds, PTL DEF Spec, BindingsStay
=============================================================================
