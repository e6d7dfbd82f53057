--------------------------- MODULE DescriptorPool ---------------------------
(***************************************************************************)
(* reflection::DescriptorPool (src/extension/reflection.cc).  Register     *)
(* walks the messages of a file that was parsed from its text, the nested  *)
(* ones before the message they are in, and then binds the type names of   *)
(* all fields; Find binds those of one message.  A call that fails leaves  *)
(* what it has done so far.                                                *)
(*                                                                         *)
(* A full name is the sequence of its parts.  Deprecated messages, enums   *)
(* and fields, which are skipped, are not among the constants.  An alias   *)
(* message has its one field.                                              *)
(***************************************************************************)
EXTENDS Integers, Sequences, FiniteSetsExt

CONSTANTS
  Ids,       \* the parts of names
  Protos,    \* DescriptorProto
  Files,     \* FileDescriptorProto
  NameOf,    \* of a message
  NestedIn,  \* the messages in a message
  EnumsOf,   \* the enums of a message or of a file
  FieldsOf,  \* of a message: the type name of each field, <<>> if it has none
  Valid,     \* the messages whose fields can all be converted
  Package,   \* of a file
  Messages,  \* the messages of a file
  Asked      \* the names that Find is called with

Names == Seq(Ids)

ASSUME PoolAssumption ==
  /\ NameOf \in [Protos -> Ids]
  /\ NestedIn \in [Protos -> Seq(Protos)]
  /\ EnumsOf \in [Protos \union Files -> SUBSET Ids]
  /\ \A p \in Protos : FieldsOf[p] \in [DOMAIN FieldsOf[p] -> Names]
  /\ Valid \subseteq Protos
  /\ Package \in [Files -> Names]
  /\ Messages \in [Files -> Seq(Protos)]
  /\ Asked \subseteq Names

VARIABLES
  enum_,
  pool_,     \* from full names to descriptors
  calls,     \* Register, from the file to the innermost message
  answer,    \* what the last Find was asked for, and whether it found it
  settled    \* the last Register has returned true

vars == <<enum_, pool_, calls, answer, settled>>

-----------------------------------------------------------------------------
(* Fields and descriptors.                                                 *)

Fullname(ns, name) == Append(ns, name)

\* ConvertType: a field with a type name has no type yet.
ConvertField(name) == [value |-> IF name = <<>> THEN "plain" ELSE "unknown", type |-> name]

\* alias.id: UINT_MAX is "new", 0 is "resolved", and Find counts it down once.
NewDescriptor(p) ==
  [state |-> "new", fields |-> [f \in DOMAIN FieldsOf[p] |-> ConvertField(FieldsOf[p][f])]]

Known == enum_ \union DOMAIN pool_

\* Where check_type looks for a type: under the name as it is, in the message,
\* then in what surrounds it.
Candidates(fullname, type) ==
  <<type, fullname \o type>>
  \o [k \in 1 .. Len(fullname) - 1 |-> SubSeq(fullname, 1, Len(fullname) - k) \o type]

\* The places of the candidates that are in the pool.
Hits(fullname, type) ==
  LET names == Candidates(fullname, type) IN {i \in DOMAIN names : names[i] \in Known}

\* check_type returns true.
Resolves(fullname, field) ==
  field.value = "unknown" => Hits(fullname, field.type) # {}

\* bind_type
Bind(name) ==
  IF name \in enum_ THEN [value |-> "enum", type |-> <<>>]
                    ELSE [value |-> "message", type |-> name]

\* check_type: the first one counts.
CheckType(fullname, field) ==
  LET hits == Hits(fullname, field.type)
  IN  IF field.value # "unknown" \/ hits = {} THEN field
      ELSE Bind(Candidates(fullname, field.type)[Min(hits)])

\* FixUnknownType: the fields in any order up to one that is not found; seen
\* are those before it.
AllResolve(fullname, d) == \A f \in DOMAIN d.fields : Resolves(fullname, d.fields[f])
FixUnknownType(fullname, d, seen) ==
  [f \in DOMAIN d.fields |->
     IF AllResolve(fullname, d) \/ f \in seen THEN CheckType(fullname, d.fields[f])
                                              ELSE d.fields[f]]

-----------------------------------------------------------------------------
(* Register.                                                               *)

Call(proto, ns, todo) == [proto |-> proto, ns |-> ns, todo |-> todo]
Top == calls[Len(calls)]
Caller == SubSeq(calls, 1, Len(calls) - 1)

Init ==
  /\ enum_ = {} /\ pool_ = <<>>
  /\ calls = <<>> /\ answer = {} /\ settled = FALSE

\* Register(const FileDescriptorProto&): its enums, then its messages.
RegisterFile(file) ==
  /\ calls = <<>>
  /\ enum_' = enum_ \union {Fullname(Package[file], e) : e \in EnumsOf[file]}
  /\ calls' = <<Call(file, Package[file], Messages[file])>>
  /\ settled' = FALSE /\ answer' = {}
  /\ UNCHANGED pool_

\* Register(const std::string&, const DescriptorProto&) of the next message:
\* its enums, then the messages in it.
RegisterMessage ==
  /\ calls # <<>> /\ Top.todo # <<>>
  /\ LET p == Head(Top.todo)
         fullname == Fullname(Top.ns, NameOf[p])
     IN  /\ enum_' = enum_ \union {Fullname(fullname, e) : e \in EnumsOf[p]}
         /\ calls' = Append(Append(Caller, [Top EXCEPT !.todo = Tail(@)]),
                            Call(p, fullname, NestedIn[p]))
  /\ UNCHANGED <<pool_, answer, settled>>

\* Mutant: a descriptor replaces the one of the same name.
AddDescriptorAnyway ==
  /\ Len(calls) > 1 /\ Top.todo = <<>>
  /\ Top.proto \in Valid
  /\ pool_' = [n \in DOMAIN pool_ \union {Top.ns} |->
                 IF n = Top.ns THEN NewDescriptor(Top.proto) ELSE pool_[n]]
  /\ calls' = Caller
  /\ UNCHANGED <<enum_, answer, settled>>

\* The fields of the message can be converted and its name is new.
AddDescriptor ==
  /\ Len(calls) > 1 /\ Top.todo = <<>>
  /\ Top.proto \in Valid /\ Top.ns \notin DOMAIN pool_
  /\ pool_' = [n \in DOMAIN pool_ \union {Top.ns} |->
                 IF n = Top.ns THEN NewDescriptor(Top.proto) ELSE pool_[n]]
  /\ calls' = Caller
  /\ UNCHANGED <<enum_, answer, settled>>

\* Otherwise all calls return false.
RefuseDescriptor ==
  /\ Len(calls) > 1 /\ Top.todo = <<>>
  /\ Top.proto \notin Valid \/ Top.ns \in DOMAIN pool_
  /\ calls' = <<>>
  /\ UNCHANGED <<enum_, pool_, answer, settled>>

\* Mutant: descriptors that Find has given up are passed over.
FixedNew(name, seen) ==
  LET d == pool_[name]
      ok == d.state = "new" /\ AllResolve(name, d)
  IN  [state |-> IF ok THEN "resolved" ELSE d.state,
       fields |-> IF d.state = "new" THEN FixUnknownType(name, d, seen) ELSE d.fields]

\* A descriptor after the last loop of Register.
Fixed(name, seen) ==
  LET d == pool_[name]
      ok == d.state # "resolved" /\ AllResolve(name, d)
  IN  [state |-> IF ok THEN "resolved" ELSE d.state,
       fields |-> IF d.state # "resolved" THEN FixUnknownType(name, d, seen) ELSE d.fields]

\* The fields that are bound or not by the order they are looked at.
Doubtful ==
  {x \in UNION {{n} \X DOMAIN pool_[n].fields : n \in DOMAIN pool_} :
     LET d == pool_[x[1]]
     IN  /\ d.state # "resolved" /\ ~AllResolve(x[1], d)
         /\ d.fields[x[2]].value = "unknown" /\ Resolves(x[1], d.fields[x[2]])}

FixPool ==
  /\ Len(calls) = 1 /\ Top.todo = <<>>
  /\ \E seen \in SUBSET Doubtful :
       pool_' = [n \in DOMAIN pool_ |->
                   Fixed(n, {f \in DOMAIN pool_[n].fields : <<n, f>> \in seen})]
  /\ calls' = <<>> /\ settled' = TRUE
  /\ UNCHANGED <<enum_, answer>>

-----------------------------------------------------------------------------
(* Find.                                                                   *)

Answer(name, found) == {[name |-> name, found |-> found]}

FindNothing(name) ==
  /\ calls = <<>> /\ name \notin DOMAIN pool_
  /\ answer' = Answer(name, FALSE)
  /\ UNCHANGED <<enum_, pool_, calls, settled>>

\* A descriptor that is resolved, or that an earlier Find gave up.
FindAgain(name) ==
  /\ calls = <<>> /\ name \in DOMAIN pool_
  /\ pool_[name].state # "new"
  /\ answer' = Answer(name, pool_[name].state = "resolved")
  /\ UNCHANGED <<enum_, pool_, calls, settled>>

\* Mutant: the outcome of FixUnknownType is not looked at.
FoundAnyway(name, d) == "resolved"

Found(name, d) == IF AllResolve(name, d) THEN "resolved" ELSE "failed"

FindFirst(name) ==
  /\ calls = <<>> /\ name \in DOMAIN pool_
  /\ LET d == pool_[name]
     IN  /\ d.state = "new"
         /\ \E seen \in SUBSET DOMAIN d.fields :
              pool_' = [pool_ EXCEPT ![name] = [state |-> Found(name, d),
                                                fields |-> FixUnknownType(name, d, seen)]]
         /\ answer' = Answer(name, Found(name, d) = "resolved")
  /\ UNCHANGED <<enum_, calls, settled>>

Find(name) == FindNothing(name) \/ FindAgain(name) \/ FindFirst(name)

-----------------------------------------------------------------------------

Next ==
  \/ \E file \in Files : RegisterFile(file)
  \/ RegisterMessage \/ AddDescriptor \/ RefuseDescriptor \/ FixPool
  \/ \E name \in Asked : Find(name)

Spec == Init /\ [][Next]_vars

-----------------------------------------------------------------------------
(* Properties.                                                             *)

Fields == [value : {"plain", "unknown", "enum", "message"}, type : Names]
IsDescriptor(d) ==
  /\ d = [state |-> d.state, fields |-> d.fields]
  /\ d.state \in {"new", "failed", "resolved"}
  /\ d.fields \in [DOMAIN d.fields -> Fields]

TypeOK ==
  /\ enum_ \subseteq Names
  /\ pool_ = [n \in DOMAIN pool_ |-> pool_[n]]
  /\ DOMAIN pool_ \subseteq Names
  /\ \A n \in DOMAIN pool_ : IsDescriptor(pool_[n])
  /\ calls \in Seq([proto : Protos \union Files, ns : Names, todo : Seq(Protos)])
  /\ answer \subseteq [name : Names, found : BOOLEAN]
  /\ settled \in BOOLEAN

\* value_descriptor never dangles: a field that is bound to a message, of a
\* descriptor that is resolved, given up or left behind by a call that failed,
\* leads to a descriptor in the pool; and a descriptor that Find returns has
\* no field of unknown type.
BoundFieldsLead ==
  \A n \in DOMAIN pool_ : \A f \in DOMAIN pool_[n].fields :
    LET field == pool_[n].fields[f]
    IN  /\ field.value = "message" => field.type \in DOMAIN pool_
        /\ pool_[n].state = "resolved" => field.value # "unknown"

\* Once Register has returned true, no matter what failed or was given up
\* before, only descriptors with a type that no file has are not resolved,
\* and Find returns all the others.
RegisterResolves ==
  settled =>
    /\ \A n \in DOMAIN pool_ : pool_[n].state = "resolved" \/ ~AllResolve(n, pool_[n])
    /\ \A a \in answer : a.name \in DOMAIN pool_ =>
         (a.found <=> AllResolve(a.name, pool_[a.name]))

\* What Find has returned stays as it is, and a field keeps the type it was
\* bound to, whatever is registered later.
BindingsStay ==
  [][\A n \in DOMAIN pool_ :
       /\ n \in DOMAIN pool_'
       /\ pool_[n].state = "resolved" => pool_'[n] = pool_[n]
       /\ \A f \in DOMAIN pool_[n].fields :
            pool_[n].fields[f].value # "unknown" =>
              pool_'[n].fields[f] = pool_[n].fields[f]]_vars
=============================================================================
