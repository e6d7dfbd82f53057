------------------------- MODULE PerfectHash_proofs -------------------------
(***************************************************************************)
(* For every number of keys, section size, block size and every outcome of *)
(* the hash function: an index that Build returns is a minimal perfect     *)
(* hash, and Mapping never runs into its assert(false).                    *)
(***************************************************************************)
EXTENDS PerfectHash, FiniteSetTheorems, TLAPS

-----------------------------------------------------------------------------
(* Facts about slots.                                                      *)

\* A remainder modulo the section size is a place in the section
\* (code.u32[j] % m).
LEMMA ModRange == ASSUME NEW x \in Nat PROVE x % M \in 0 .. M-1
  BY SizeAssumption, SMT

\* The slots of a key lie in the bitmap, each in its own section.
LEMMA KeySlotInSection ==
  ASSUME hash \in [Key -> Code], NEW k \in Key, NEW s \in Side
  PROVE  KeySlot(k, s) \in s*M .. s*M + M-1
  <1>1. hash[k][s] \in Nat
    BY CodeAssumption
  <1>2. hash[k][s] % M \in 0 .. M-1
    BY <1>1, ModRange
  <1> QED
    BY <1>2, SizeAssumption DEF KeySlot, Side

\* What a key hashes to is a slot (CreateGraph reduces it modulo the section).
LEMMA KeySlotInSlots ==
  ASSUME hash \in [Key -> Code], NEW k \in Key, NEW s \in Side
  PROVE  KeySlot(k, s) \in Slots
  <1>1. KeySlot(k, s) \in s*M .. s*M + M-1
    BY KeySlotInSection
  <1>2. CASE s = 0  BY <1>1, <1>2, SizeAssumption DEF Slots
  <1>3. CASE s = 1  BY <1>1, <1>3, SizeAssumption DEF Slots
  <1>4. CASE s = 2  BY <1>1, <1>4, SizeAssumption DEF Slots
  <1> QED BY <1>2, <1>3, <1>4 DEF Side

\* The three vertices of an edge are slots, one in each section.
LEMMA VertexFacts ==
  ASSUME hash \in [Key -> Code], keys \in KeyLists
  PROVE  /\ \A e \in Edge, s \in Side : Vertex(e, s) \in Slots
         /\ \A e, f \in Edge, s, t \in Side :
              Vertex(e, s) = Vertex(f, t) => s = t
  <1>1. keys \in [Edge -> Key]
    BY CodeAssumption
  <1>2. \A e \in Edge, s \in Side : Vertex(e, s) \in s*M .. s*M + M-1
    BY <1>1, KeySlotInSection DEF Vertex
  <1>3. ASSUME NEW e \in Edge, NEW f \in Edge, NEW s \in Side, NEW t \in Side,
               Vertex(e, s) = Vertex(f, t)
        PROVE  s = t
    <2>1. /\ Vertex(e, s) \in s*M .. s*M + M-1
          /\ Vertex(e, s) \in t*M .. t*M + M-1
      BY <1>2, <1>3
    <2> QED BY <2>1, SizeAssumption DEF Side
  <1> QED
    BY <1>1, <1>3, KeySlotInSlots DEF Vertex

-----------------------------------------------------------------------------
(* Types, the queue and what each phase finds in the scratch memory.       *)

\* How far Build has come with its scratch memory in each phase.
PhaseInv ==
  /\ phase = "try" => i = 0
  /\ phase \in {"try", "create", "check"} => tail = 0
  /\ phase \in {"try", "create", "scan", "check"} => head = 0 /\ j = 0
  /\ phase = "scan" => \A e \in book \cap Edge : e >= i
  /\ phase \in {"map", "done"} =>
       tail = N /\ \A e \in Edge : \E p \in 0 .. N-1 : free[p] = e

QInv == TypeOK /\ QueueHoldsEachEdgeOnce /\ PhaseInv

\* No action of Build changes the reader.
LEMMA ReaderStays == ReaderOK /\ UNCHANGED reader => ReaderOK'
  BY Zenon DEF ReaderOK, reader

\* There are N edges.
LEMMA EdgeFinite == IsFiniteSet(Edge) /\ Cardinality(Edge) = N
  BY FS_Interval, SizeAssumption DEF Edge

\* There are three sections of M slots.
LEMMA SlotsFinite == IsFiniteSet(Slots) /\ Cardinality(Slots) = 3*M
  BY FS_Interval, SizeAssumption DEF Slots

\* Pushing an edge that is not booked keeps the queue well-formed
\* (free[tail++] = i after TestAndSetBit(book, i)).
LEMMA PushKeepsQueue ==
  ASSUME QueueHoldsEachEdgeOnce, TypeOK, phase \in {"scan", "peel"},
         NEW e \in Edge, e \notin book, Push(e)
  PROVE  /\ QueueHoldsEachEdgeOnce'
         /\ tail < N
         /\ book' \in SUBSET (Edge \union Slots)
         /\ free' \in [Edge -> 0 .. N]
         /\ tail' \in 0 .. N
         /\ tail' = tail + 1
         /\ free'[tail] = e
         /\ \A p \in 0 .. tail-1 : free'[p] = free[p]
  <1> USE SizeAssumption
  <1> DEFINE B == book \cap Edge
  <1>0. /\ tail \in 0 .. N /\ book \in SUBSET (Edge \union Slots)
        /\ free \in [Edge -> 0 .. N]
    BY DEF TypeOK, QueueOK
  <1>q. /\ \A p \in 0 .. tail-1 : free[p] \in Edge /\ free[p] \in book
        /\ \A p, q \in 0 .. tail-1 : free[p] = free[q] => p = q
        /\ \A x \in B : \E p \in 0 .. tail-1 : free[p] = x
        /\ Cardinality(B) = tail
    BY DEF QueueHoldsEachEdgeOnce
  <1>1. IsFiniteSet(B) /\ IsFiniteSet(Edge) /\ Cardinality(Edge) = N
    BY EdgeFinite, FS_Subset
  <1>2. Cardinality(B \union {e}) = tail + 1
    BY <1>1, <1>q, FS_AddElement
  <1>3. Cardinality(B \union {e}) <= N
    BY <1>1, FS_Subset
  <1>4. tail < N /\ tail \in Edge
    BY <1>0, <1>2, <1>3 DEF Edge
  <1>5. /\ tail' = tail + 1 /\ book' = book \union {e}
        /\ free' = [free EXCEPT ![tail] = e]
        /\ book' \cap Edge = B \union {e}
    BY DEF Push
  <1>6. /\ free' \in [Edge -> 0 .. N]
        /\ free'[tail] = e
        /\ \A p \in Edge : p # tail => free'[p] = free[p]
    BY <1>0, <1>4, <1>5 DEF Edge
  <1>s. \A x \in 0 .. tail-1 : /\ x \in Edge /\ free'[x] = free[x]
                               /\ free[x] \in book /\ free[x] \in Edge
    BY <1>0, <1>q, <1>4, <1>6 DEF Edge
  <1>7. \A p \in 0 .. tail'-1 : free'[p] \in Edge /\ free'[p] \in book'
    <2> SUFFICES ASSUME NEW p \in 0 .. tail
                 PROVE  free'[p] \in Edge /\ free'[p] \in book'
      BY <1>0, <1>5
    <2>1. CASE p = tail
      BY <2>1, <1>5, <1>6
    <2>2. CASE p < tail
      BY <2>2, <1>0, <1>5, <1>s
    <2> QED BY <1>0, <2>1, <2>2
  <1>8. \A p, q \in 0 .. tail'-1 : free'[p] = free'[q] => p = q
    <2> SUFFICES ASSUME NEW p \in 0 .. tail, NEW q \in 0 .. tail,
                        free'[p] = free'[q]
                 PROVE  p = q
      BY <1>0, <1>5
    <2>2. CASE p < tail /\ q < tail
      BY <1>s, <2>2, <1>0, <1>q
    <2>3. CASE p < tail /\ q = tail
      BY <1>s, <2>3, <1>0, <1>6
    <2>4. CASE p = tail /\ q < tail
      BY <1>s, <2>4, <1>0, <1>6
    <2> QED BY <1>0, <2>2, <2>3, <2>4
  <1>9. \A x \in book' \cap Edge : \E p \in 0 .. tail'-1 : free'[p] = x
    <2> SUFFICES ASSUME NEW x \in B \union {e}
                 PROVE  \E p \in 0 .. tail : free'[p] = x
      BY <1>0, <1>5
    <2>1. CASE x = e
      BY <2>1, <1>0, <1>6
    <2>2. CASE x \in B
      <3>1. PICK p \in 0 .. tail-1 : free[p] = x
        BY <2>2, <1>q
      <3> QED BY <3>1, <1>0, <1>s
    <2> QED BY <2>1, <2>2
  <1>10. QueueHoldsEachEdgeOnce'
    BY <1>2, <1>5, <1>7, <1>8, <1>9 DEF QueueHoldsEachEdgeOnce
  <1>11. book' \in SUBSET (Edge \union Slots) /\ tail' \in 0 .. N
    BY <1>0, <1>4, <1>5
  <1> QED
    BY <1>4, <1>5, <1>6, <1>10, <1>11, <1>s

\* The book that TearGraph starts with has no edge in it, whatever it held.
LEMMA TearBookClear ==
  /\ TearBook \cap Edge = {}
  /\ book \in SUBSET (Edge \union Slots) => TearBook \in SUBSET (Edge \union Slots)
  BY DEF TearBook

\* An empty queue is in order, unless TearGraph's book holds an edge.
LEMMA EmptyQueue ==
  ASSUME tail = 0, phase \in {"scan", "peel"} => book \cap Edge = {}
  PROVE  QueueHoldsEachEdgeOnce
  BY FS_EmptySet DEF QueueHoldsEachEdgeOnce

\* The cell arithmetic of Mapping: the new cell is a digit 0..2, it replaces
\* a cell that was 11 exactly, and the three cells then sum up to the side.
LEMMA CellFacts ==
  /\ \A a, b \in 0 .. 3 : Xor2(a, b) \in 0 .. 3
  /\ \A v \in 0 .. 2 : SetBit2on11(3, v) = v
  /\ \A s \in Side, x, y \in 0 .. 3 :
       /\ CellFor(s, x + y) \in 0 .. 2
       /\ (CellFor(s, x + y) + x + y) % 3 = s
  <1>1. \A a, b \in 0 .. 3 : Xor2(a, b) \in 0 .. 3
    BY DEF Xor2
  <1>2. \A v \in 0 .. 2 : SetBit2on11(3, v) = v
    BY DEF SetBit2on11, Xor2
  <1>3. \A s \in Side, x, y \in 0 .. 3 :
          /\ CellFor(s, x + y) \in 0 .. 2
          /\ (CellFor(s, x + y) + x + y) % 3 = s
    BY DEF CellFor, Side
  <1> QED BY <1>1, <1>2, <1>3

\* CountValidSlot never counts more than all slots.
LEMMA CountBound ==
  ASSUME NEW S \in SUBSET Slots
  PROVE  CountValidSlot(S) \in 0 .. 3*M
  <1>1. {s \in S : bitmap[s] # 3} \subseteq Slots
    OBVIOUS
  <1>2. Cardinality({s \in S : bitmap[s] # 3}) <= 3*M
    BY <1>1, SlotsFinite, FS_Subset
  <1>3. Cardinality({s \in S : bitmap[s] # 3}) \in Nat
    BY <1>1, SlotsFinite, FS_Subset, FS_CardinalityType
  <1> QED BY <1>2, <1>3, SizeAssumption DEF CountValidSlot

\* Initially the queue is empty and everything has its type.
LEMMA InitQInv == Init => QInv
  <1> SUFFICES ASSUME Init PROVE QInv
    OBVIOUS
  <1> USE SizeAssumption, TriesAssumption
  <1>1. TypeOK
    <2>1. PICK g \in Junk :
            /\ nodes = [s \in Slots |-> g.word]
            /\ prev = JunkLinks(g) /\ next = JunkLinks(g)
            /\ free = [e \in Edge |-> g.word] /\ book = g.bits
            /\ bitmap = [s \in Slots |-> g.cell]
            /\ space = JunkSpace(g)
      BY DEF Init
    <2>2. /\ g.word \in 0 .. N /\ g.bits \in SUBSET (Edge \union Slots)
          /\ g.cell \in 0 .. 3
      BY JunkAssumption
    <2>3. ReaderOK /\ ControlOK
      BY DEF Init, ReaderOK, ControlOK, Edge
    <2>4. GraphOK
      BY <2>1, <2>2 DEF GraphOK, JunkLinks
    <2>5. QueueOK /\ CellsOK
      BY <2>1, <2>2 DEF Init, QueueOK, CellsOK, Side
    <2>6. TablesOK
      <3>1. space \in [0 .. 2*N-1 -> [Side -> Nat]]
        BY <2>1, <2>2 DEF JunkSpace
      <3>2. table \in [Blocks -> 0 .. 3*M]
        BY DEF Init
      <3> QED BY <3>1, <3>2 DEF TablesOK
    <2> QED BY <2>3, <2>4, <2>5, <2>6 DEF TypeOK
  <1>2. QueueHoldsEachEdgeOnce
    BY EmptyQueue DEF Init
  <1>3. PhaseInv
    BY DEF Init, PhaseInv
  <1> QED BY <1>1, <1>2, <1>3 DEF QInv

\* Giving up an attempt keeps the queue invariant.
LEMMA TryFailsQInv == QInv /\ phase \in {"create", "peel"} /\ TryFails => QInv'
  <1> SUFFICES ASSUME QInv, phase \in {"create", "peel"}, TryFails PROVE QInv'
    OBVIOUS
  <1> USE SizeAssumption
  <1>0. /\ ReaderOK /\ ControlOK /\ GraphOK /\ QueueOK /\ CellsOK /\ TablesOK
    BY DEF QInv, TypeOK
  <1>1. /\ i' = 0 /\ head' = 0 /\ tail' = 0 /\ j' = 0
        /\ UNCHANGED <<reader, tries, graph, free, book, bitmap, table>>
        /\ \/ phase' = "check" /\ hash' = hash /\ space' = NewSpace
           \/ phase' = "try" /\ hash' = NoHash /\ space' = space
    BY DEF TryFails
  <1>2. ControlOK'
    BY <1>0, <1>1 DEF ControlOK
  <1>3. GraphOK' /\ QueueOK' /\ CellsOK'
    BY <1>0, <1>1 DEF GraphOK, QueueOK, CellsOK, graph, Side
  <1>4. TablesOK'
    <2>1. NewSpace \in [0 .. 2*N-1 -> [Side -> Nat]]
      BY DEF NewSpace, Vacant
    <2>2. CASE space' = NewSpace
      BY <1>0, <1>1, <2>1, <2>2 DEF TablesOK
    <2>3. CASE space' = space
      BY <1>0, <1>1, <2>3 DEF TablesOK
    <2> QED BY <1>1, <2>2, <2>3
  <1>5. QueueHoldsEachEdgeOnce'
    BY <1>1 DEF QueueHoldsEachEdgeOnce
  <1>6. PhaseInv'
    BY <1>1 DEF PhaseInv
  <1> QED BY <1>0, <1>1, <1>2, <1>3, <1>4, <1>5, <1>6, ReaderStays DEF QInv, TypeOK

\* Parts of the invariant whose variables an action leaves alone.
LEMMA QueueStays ==
  ASSUME QueueHoldsEachEdgeOnce, UNCHANGED <<free, tail, book>>,
         phase' \in {"scan", "peel"} => phase \in {"scan", "peel"}
  PROVE  QueueHoldsEachEdgeOnce'
  BY DEF QueueHoldsEachEdgeOnce

\* What an action leaves alone keeps its type.
LEMMA TypesStay ==
  /\ GraphOK /\ UNCHANGED graph => GraphOK'
  /\ QueueOK /\ UNCHANGED queue => QueueOK'
  /\ CellsOK /\ UNCHANGED bitmap => CellsOK'
  /\ TablesOK /\ UNCHANGED <<space, table>> => TablesOK'
  BY DEF GraphOK, QueueOK, CellsOK, TablesOK, graph, queue

\* Every action of Build preserves the types and the queue discipline.
LEMMA NextQInv == QInv /\ [Next]_vars => QInv'
  <1> SUFFICES ASSUME QInv, [Next]_vars PROVE QInv'
    OBVIOUS
  <1> USE SizeAssumption, TriesAssumption
  <1>0. /\ ReaderOK /\ ControlOK /\ GraphOK /\ QueueOK /\ CellsOK /\ TablesOK
        /\ QueueHoldsEachEdgeOnce /\ PhaseInv /\ TypeOK
    BY DEF QInv, TypeOK
  <1>1. CASE NewSeed
    <2>1. /\ UNCHANGED reader /\ UNCHANGED <<prev, next>> /\ UNCHANGED queue
          /\ UNCHANGED bitmap /\ UNCHANGED <<space, table>>
          /\ phase' = "create" /\ phase = "try" /\ nodes' = NewNodes
      BY <1>1 DEF NewSeed
    <2>5. GraphOK'
      BY <1>0, <2>1 DEF GraphOK, NewNodes, kEnd
    <2>2. ControlOK'
      BY <1>0, <1>1, CodeAssumption DEF NewSeed, ControlOK, PhaseInv, Edge
    <2>3. PhaseInv'
      BY <1>0, <1>1 DEF NewSeed, PhaseInv, queue
    <2>4. QueueHoldsEachEdgeOnce'
      BY <1>0, <2>1, QueueStays DEF queue
    <2> QED BY <1>0, <2>1, <2>2, <2>3, <2>4, <2>5, ReaderStays, TypesStay
            DEF QInv, TypeOK
  <1>2. CASE OutOfTries
    <2>1. /\ UNCHANGED reader /\ UNCHANGED graph /\ UNCHANGED queue
          /\ UNCHANGED bitmap /\ UNCHANGED <<space, table>>
          /\ phase' = "failed"
      BY <1>2 DEF OutOfTries
    <2>2. ControlOK' /\ PhaseInv'
      BY <1>0, <1>2 DEF OutOfTries, ControlOK, PhaseInv
    <2>4. QueueHoldsEachEdgeOnce'
      BY <1>0, <2>1, QueueStays DEF queue
    <2> QED BY <1>0, <2>1, <2>2, <2>4, ReaderStays, TypesStay DEF QInv, TypeOK
  <1>3. CASE CreateGraph
    <2>1. /\ UNCHANGED reader /\ UNCHANGED <<free, head, tail, j>>
          /\ UNCHANGED bitmap /\ UNCHANGED <<space, table>>
          /\ hash' = hash /\ tries' = tries /\ phase = "create"
          /\ \/ phase' = "scan" /\ i' = N /\ i + 1 = N /\ book' = TearBook
             \/ phase' = "create" /\ i' = i + 1 /\ i + 1 # N /\ book' = book
      BY <1>3 DEF CreateGraph
    <2>2. i \in Edge /\ tail = 0 /\ head = 0 /\ j = 0
      BY <1>0, <1>3 DEF ControlOK, CreateGraph, PhaseInv
    <2>3. ControlOK'
      BY <1>0, <2>1, <2>2 DEF ControlOK, Edge
    <2>8. /\ phase' \in {"create", "scan"}
          /\ phase' = "scan" => book' \cap Edge = {}
      BY <2>1, TearBookClear
    <2>4. PhaseInv'
      BY <2>1, <2>2, <2>8 DEF PhaseInv
    <2>5. QueueHoldsEachEdgeOnce'
      <3>1. Cardinality({}) = 0
        BY FS_EmptySet
      <3>2. tail' = 0
        BY <2>1, <2>2
      <3> QED BY <2>8, <3>1, <3>2 DEF QueueHoldsEachEdgeOnce
    <2>9. QueueOK'
      BY <1>0, <2>1, TearBookClear DEF QueueOK
    <2>6. \A s \in Side : Vertex(i, s) \in Slots
      BY <1>0, <1>3, <2>2, VertexFacts DEF ControlOK, ReaderOK, CreateGraph
    <2>7. GraphOK'
      <3>1. nodes' \in [Slots -> 0 .. N]
        BY <1>0, <1>3, <2>2 DEF CreateGraph, GraphOK, Edge
      <3>2. next' \in [Edge -> [Side -> 0 .. N]]
        BY <1>0, <1>3, <2>2, <2>6 DEF CreateGraph, GraphOK
      <3>3. prev' \in [Edge -> [Side -> 0 .. N]]
        BY <1>0, <1>3, <2>2 DEF CreateGraph, GraphOK, Edge, kEnd
      <3> QED BY <3>1, <3>2, <3>3 DEF GraphOK
    <2> QED BY <1>0, <2>1, <2>3, <2>4, <2>5, <2>7, <2>9, ReaderStays, TypesStay
            DEF QInv, TypeOK
  <1>4. CASE CreateGraphNoKey
    BY <1>4, TryFailsQInv DEF CreateGraphNoKey
  <1>5. CASE TearScan
    <2>1. /\ UNCHANGED reader /\ UNCHANGED graph
          /\ UNCHANGED bitmap /\ UNCHANGED <<space, table>>
          /\ head' = head /\ j' = j /\ hash' = hash /\ tries' = tries
          /\ phase = "scan" /\ i > 0 /\ i' = i - 1
          /\ phase' = IF i = 1 THEN "peel" ELSE phase
      BY <1>5 DEF TearScan
    <2>2. i - 1 \in Edge /\ i - 1 \notin book
      BY <1>0, <2>1 DEF ControlOK, PhaseInv, Edge, QueueOK
    <2>3. ControlOK'
      BY <1>0, <2>1 DEF ControlOK
    <2>4. \/ Push(i-1)
          \/ UNCHANGED <<book, free, tail>>
      BY <1>5 DEF TearScan
    <2>5. CASE Push(i-1)
      <3>1. /\ QueueHoldsEachEdgeOnce'
            /\ book' \in SUBSET (Edge \union Slots)
            /\ free' \in [Edge -> 0 .. N]
            /\ tail' \in 0 .. N
            /\ tail' = tail + 1
        BY <1>0, <2>1, <2>2, <2>5, PushKeepsQueue
      <3>2. book' = book \union {i-1}
        BY <2>5 DEF Push
      <3>3. QueueOK'
        BY <1>0, <2>1, <3>1 DEF QueueOK
      <3>4. PhaseInv'
        <4>1. \A e \in book' \cap Edge : e >= i'
          BY <1>0, <2>1, <2>2, <3>2 DEF PhaseInv, ControlOK, QueueOK, Edge
        <4> QED BY <1>0, <2>1, <4>1 DEF PhaseInv
      <3> QED BY <1>0, <2>1, <2>3, <3>1, <3>3, <3>4, ReaderStays, TypesStay
              DEF QInv, TypeOK
    <2>6. CASE UNCHANGED <<book, free, tail>>
      <3>1. QueueHoldsEachEdgeOnce'
        BY <1>0, <2>1, <2>6, QueueStays
      <3>2. QueueOK'
        BY <1>0, <2>1, <2>6 DEF QueueOK
      <3>3. PhaseInv'
        <4>1. \A e \in book' \cap Edge : e >= i'
          BY <1>0, <2>1, <2>6 DEF PhaseInv, ControlOK, QueueOK, Edge
        <4> QED BY <1>0, <2>1, <4>1 DEF PhaseInv
      <3> QED BY <1>0, <2>1, <2>3, <3>1, <3>2, <3>3, ReaderStays, TypesStay
              DEF QInv, TypeOK
    <2> QED BY <2>4, <2>5, <2>6
  <1>6. CASE TearPeel
    <2>1. /\ UNCHANGED reader /\ nodes' = nodes
          /\ UNCHANGED bitmap /\ UNCHANGED <<space, table>>
          /\ hash' = hash /\ tries' = tries /\ i' = i /\ phase' = phase
          /\ phase = "peel" /\ head < tail
          /\ IF j = 2 THEN j' = 0 /\ head' = head + 1
                      ELSE j' = j + 1 /\ head' = head
      BY <1>6 DEF TearPeel
    <2> DEFINE e == free[head]
               p == prev[e][j]
               n == next[e][j]
               u == IF n # kEnd THEN n ELSE p
    <2>2. e \in Edge /\ head \in Edge
      BY <1>0, <2>1 DEF QueueHoldsEachEdgeOnce, QueueOK, Edge
    <2>3. p \in 0 .. N /\ n \in 0 .. N /\ u \in 0 .. N
      BY <1>0, <2>2 DEF GraphOK, QueueOK
    <2>4. /\ next' = [x \in Edge |-> [s \in Side |->
                       IF x = p /\ s = j THEN n ELSE next[x][s]]]
          /\ prev' = [x \in Edge |-> [s \in Side |->
                       IF x = n /\ s = j THEN p ELSE prev[x][s]]]
          /\ \/ u # kEnd /\ u \notin book /\ Push(u)
             \/ UNCHANGED <<book, free, tail>>
      BY <1>6 DEF TearPeel
    <2>5. GraphOK'
      <3>1. next' \in [Edge -> [Side -> 0 .. N]]
        BY <1>0, <2>3, <2>4 DEF GraphOK
      <3>2. prev' \in [Edge -> [Side -> 0 .. N]]
        BY <1>0, <2>3, <2>4 DEF GraphOK
      <3> QED BY <1>0, <2>1, <3>1, <3>2 DEF GraphOK
    <2>6. ControlOK' /\ PhaseInv'
      BY <1>0, <2>1 DEF ControlOK, PhaseInv
    <2>7. CASE u # kEnd /\ u \notin book /\ Push(u)
      <3>0. u \in Edge
        BY <2>3, <2>7 DEF Edge, kEnd
      <3>1. /\ QueueHoldsEachEdgeOnce'
            /\ book' \in SUBSET (Edge \union Slots)
            /\ free' \in [Edge -> 0 .. N]
            /\ tail' \in 0 .. N
            /\ tail' = tail + 1
        BY <1>0, <2>1, <2>7, <3>0, PushKeepsQueue
      <3>3. QueueOK'
        BY <1>0, <2>1, <3>1 DEF QueueOK, Side
      <3> QED BY <1>0, <2>1, <2>5, <2>6, <3>1, <3>3, ReaderStays, TypesStay
              DEF QInv, TypeOK
    <2>8. CASE UNCHANGED <<book, free, tail>>
      <3>1. QueueHoldsEachEdgeOnce'
        BY <1>0, <2>1, <2>8, QueueStays
      <3>3. QueueOK'
        BY <1>0, <2>1, <2>8 DEF QueueOK, Side
      <3> QED BY <1>0, <2>1, <2>5, <2>6, <3>1, <3>3, ReaderStays, TypesStay
              DEF QInv, TypeOK
    <2> QED BY <2>4, <2>7, <2>8
  <1>7. CASE TearSucceeds
    <2>1. /\ UNCHANGED reader /\ UNCHANGED graph /\ UNCHANGED <<free, head, tail, j>>
          /\ UNCHANGED <<space, table>> /\ hash' = hash /\ tries' = tries
          /\ phase = "peel" /\ phase' = "map" /\ i' = N /\ tail = N
          /\ bitmap' = MapBitmap /\ book' = MapBook
      BY <1>7 DEF TearSucceeds
    <2>2. ControlOK'
      BY <1>0, <2>1 DEF ControlOK
    <2>3. Edge \subseteq book
      <3>1. Cardinality(book \cap Edge) = Cardinality(Edge)
        BY <1>0, <2>1, EdgeFinite DEF QueueHoldsEachEdgeOnce
      <3>2. book \cap Edge = Edge
        BY <3>1, EdgeFinite, FS_Subset
      <3> QED BY <3>2
    <2>4. PhaseInv'
      <3>1. \A e \in Edge : \E p \in 0 .. N-1 : free[p] = e
        BY <1>0, <2>1, <2>3 DEF QueueHoldsEachEdgeOnce
      <3> QED BY <2>1, <3>1 DEF PhaseInv
    <2>5. QueueHoldsEachEdgeOnce'
      BY <1>0, <2>1 DEF QueueHoldsEachEdgeOnce
    <2>6. QueueOK' /\ CellsOK'
      BY <1>0, <2>1 DEF QueueOK, CellsOK, MapBook, MapBitmap
    <2> QED BY <1>0, <2>1, <2>2, <2>4, <2>5, <2>6, ReaderStays, TypesStay
            DEF QInv, TypeOK
  <1>8. CASE TearFails
    BY <1>8, TryFailsQInv DEF TearFails
  <1>9. CASE Mapping
    <2>1. /\ UNCHANGED reader /\ UNCHANGED graph
          /\ UNCHANGED <<free, head, tail, j>> /\ UNCHANGED <<space, table>>
          /\ hash' = hash /\ tries' = tries /\ phase = "map"
          /\ i > 0 /\ i' = i - 1
      BY <1>9 DEF Mapping
    <2> DEFINE e == free[i-1]
               s == FreeSide(e)
               x == bitmap[Vertex(e, (s+1) % 3)]
               y == bitmap[Vertex(e, (s+2) % 3)]
    <2>2. phase' \in {"map", "abort"}
      BY <1>9, <2>1 DEF Mapping
    <2>3. ControlOK' /\ PhaseInv'
      BY <1>0, <2>1, <2>2 DEF ControlOK, PhaseInv
    <2>4. QueueHoldsEachEdgeOnce'
      BY <1>0, <2>1, <2>2 DEF QueueHoldsEachEdgeOnce
    <2>5. e \in Edge
      BY <1>0, <2>1 DEF PhaseInv, ControlOK, QueueHoldsEachEdgeOnce
    <2>6. hash \in [Key -> Code]
      BY <1>0, <2>1 DEF ControlOK
    <2>7. \A t \in Side : Vertex(e, t) \in Slots
      BY <1>0, <2>5, <2>6, VertexFacts DEF ReaderOK
    <2>8. CellsOK' /\ QueueOK'
      <3>1. CASE s = 3
        <4>1. bitmap' = bitmap /\ book' = book
          BY <1>9, <3>1 DEF Mapping
        <4> QED BY <1>0, <2>1, <4>1 DEF CellsOK, QueueOK
      <3>2. CASE s # 3
        <4>1. s \in Side /\ (s+1) % 3 \in Side /\ (s+2) % 3 \in Side
          BY <3>2 DEF FreeSide, Side
        <4>2. x \in 0 .. 3 /\ y \in 0 .. 3 /\ bitmap[Vertex(e, s)] \in 0 .. 3
          BY <1>0, <2>7, <4>1 DEF CellsOK
        <4>3. SetBit2on11(bitmap[Vertex(e, s)], CellFor(s, x + y)) \in 0 .. 3
          <5>1. CellFor(s, x + y) \in 0 .. 2
            BY <4>1, <4>2, CellFacts
          <5>2. 3 - CellFor(s, x + y) \in 0 .. 3
            BY <5>1
          <5> QED BY <4>2, <5>2, CellFacts DEF SetBit2on11
        <4>4. /\ bitmap' = [bitmap EXCEPT ![Vertex(e, s)] =
                               SetBit2on11(@, CellFor(s, x + y))]
              /\ book' = book \union {Vertex(e, t) : t \in Side}
          BY <1>9, <3>2 DEF Mapping
        <4>5. CellsOK'
          BY <1>0, <2>7, <4>1, <4>3, <4>4 DEF CellsOK
        <4>6. QueueOK'
          BY <1>0, <2>1, <2>7, <4>4 DEF QueueOK
        <4> QED BY <4>5, <4>6
      <3> QED BY <3>1, <3>2
    <2> QED BY <1>0, <2>1, <2>3, <2>4, <2>8, ReaderStays, TypesStay
            DEF QInv, TypeOK
  <1>10. CASE FillTable
    <2>1. /\ UNCHANGED reader /\ UNCHANGED graph /\ UNCHANGED queue
          /\ UNCHANGED bitmap /\ space' = space
          /\ phase = "map" /\ phase' = "done"
      BY <1>10 DEF FillTable
    <2>2. ControlOK' /\ PhaseInv'
      BY <1>0, <1>10 DEF FillTable, ControlOK, PhaseInv, queue
    <2>3. TablesOK'
      <3>1. \A b \in Blocks :
              CountValidSlot({s \in Slots : s < b * Block}) \in 0 .. 3*M
        BY CountBound
      <3>2. table' = [b \in Blocks |->
                IF HasTable
                  THEN CountValidSlot({s \in Slots : s < b * Block}) ELSE 0]
        BY <1>10 DEF FillTable
      <3> QED BY <1>0, <2>1, <3>1, <3>2 DEF TablesOK
    <2>4. QueueHoldsEachEdgeOnce'
      BY <1>0, <2>1, QueueStays DEF queue
    <2> QED BY <1>0, <2>1, <2>2, <2>3, <2>4, ReaderStays, TypesStay
            DEF QInv, TypeOK
  <1>11. CASE CheckInsert
    <2>1. /\ UNCHANGED reader /\ UNCHANGED graph /\ UNCHANGED queue
          /\ UNCHANGED bitmap /\ table' = table
          /\ hash' = hash /\ tries' = tries /\ phase = "check"
          /\ i < N /\ i' = i + 1
      BY <1>11 DEF CheckInsert
    <2>2. phase' \in {"check", "rejected"}
      BY <1>11, <2>1 DEF CheckInsert
    <2>3. ControlOK'
      BY <1>0, <2>1, <2>2 DEF ControlOK
    <2>4. PhaseInv'
      BY <1>0, <2>1, <2>2 DEF PhaseInv, queue
    <2>5. TablesOK'
      <3> DEFINE c == hash[keys[i]]
      <3>1. c \in [Side -> Nat]
        BY <1>0, <2>1, CodeAssumption DEF ControlOK, ReaderOK, Edge
      <3>2. CheckCode(c) \in [Side -> Nat]
        BY <3>1 DEF CheckCode, Side
      <3>3. \/ space' = space
            \/ \E pos : space' = [space EXCEPT ![pos] = CheckCode(c)]
        BY <1>11 DEF CheckInsert
      <3> QED BY <1>0, <2>1, <3>2, <3>3 DEF TablesOK
    <2>6. QueueHoldsEachEdgeOnce'
      BY <1>0, <2>1, <2>2, QueueStays DEF queue
    <2> QED BY <1>0, <2>1, <2>3, <2>4, <2>5, <2>6, ReaderStays, TypesStay
            DEF QInv, TypeOK
  <1>12. CASE CheckPasses
    <2>1. /\ UNCHANGED reader /\ UNCHANGED queue /\ UNCHANGED bitmap
          /\ tries' = tries /\ table' = table /\ nodes' = nodes
          /\ phase = "check" /\ phase' = "try" /\ hash' = NoHash /\ i' = 0
      BY <1>12 DEF CheckPasses
    <2>2. ControlOK' /\ PhaseInv'
      BY <1>0, <2>1 DEF ControlOK, PhaseInv, queue
    <2>3. PICK g \in Junk :
            /\ space' = JunkSpace(g)
            /\ \/ UNCHANGED <<prev, next>>
               \/ prev' = JunkLinks(g) /\ next' = JunkLinks(g)
      BY <1>12 DEF CheckPasses
    <2>4. g.word \in 0 .. N
      BY JunkAssumption
    <2>5. GraphOK'
      BY <1>0, <2>1, <2>3, <2>4 DEF GraphOK, JunkLinks
    <2>6. TablesOK'
      BY <1>0, <2>1, <2>3, <2>4 DEF TablesOK, JunkSpace
    <2>7. QueueHoldsEachEdgeOnce'
      BY <1>0, <2>1, QueueStays DEF queue
    <2> QED BY <1>0, <2>1, <2>2, <2>5, <2>6, <2>7, ReaderStays, TypesStay
            DEF QInv, TypeOK
  <1>13. CASE UNCHANGED vars
    <2>1. /\ UNCHANGED reader /\ UNCHANGED graph /\ UNCHANGED queue
          /\ UNCHANGED bitmap /\ UNCHANGED <<space, table>>
          /\ UNCHANGED <<phase, tries, hash, i>>
      BY <1>13 DEF vars
    <2>2. ControlOK'
      BY <1>0, <2>1 DEF ControlOK
    <2>3. PhaseInv'
      BY <1>0, <2>1 DEF PhaseInv, queue
    <2>4. QueueHoldsEachEdgeOnce'
      BY <1>0, <2>1, QueueStays DEF queue
    <2> QED BY <1>0, <2>1, <2>2, <2>3, <2>4, ReaderStays, TypesStay
            DEF QInv, TypeOK
  <1> QED
    BY <1>1, <1>2, <1>3, <1>4, <1>5, <1>6, <1>7, <1>8, <1>9, <1>10, <1>11,
       <1>12, <1>13 DEF Next, Returned

\* Build's variables keep their types, for every number of keys and every
\* outcome of hashing: no index of its scratch arrays is out of range.
THEOREM TypeCorrect == Spec => []TypeOK
  <1>1. QInv => TypeOK
    BY DEF QInv
  <1> QED
    BY <1>1, InitQInv, NextQInv, PTL DEF Spec

\* TearGraph's queue free[] never overflows: no edge is queued twice.
THEOREM QueueCorrect == Spec => []QueueHoldsEachEdgeOnce
  <1>1. QInv => QueueHoldsEachEdgeOnce
    BY DEF QInv
  <1> QED
    BY <1>1, InitQInv, NextQInv, PTL DEF Spec

-----------------------------------------------------------------------------
(* The links thread the edges that are left.                               *)

\* While edges are added, nodes[v] is the youngest edge at v.
NodesInv ==
  phase = "create" =>
    \A v \in Slots :
      \/ nodes[v] = kEnd /\ \A x \in Edge, t \in Side : x < i => Vertex(x, t) # v
      \/ /\ nodes[v] \in Edge /\ nodes[v] < i
         /\ \E t \in Side : Vertex(nodes[v], t) = v
         /\ \A x \in Edge, t \in Side :
              nodes[v] < x /\ x < i => Vertex(x, t) # v

LInv == QInv /\ NodesInv /\ LinksThreadTheRest

\* Initially no edge is linked.
LEMMA InitLInv == Init => NodesInv /\ LinksThreadTheRest
  <1> SUFFICES ASSUME Init PROVE NodesInv /\ LinksThreadTheRest
    OBVIOUS
  <1> QED BY SizeAssumption DEF Init, NodesInv, LinksThreadTheRest, Edge

\* Linking the next edge into its three chains keeps them well formed.
LEMMA CreateGraphLinks ==
  ASSUME LInv, CreateGraph
  PROVE  NodesInv' /\ LinksThreadTheRest'
  <1> USE SizeAssumption
  <1>0. /\ ReaderOK /\ ControlOK /\ GraphOK /\ QueueOK
        /\ QueueHoldsEachEdgeOnce /\ PhaseInv
    BY DEF LInv, QInv, TypeOK
  <1>1. /\ phase = "create" /\ UNCHANGED <<keys, hash, free, head, j, tail>>
        /\ nodes' = [s \in Slots |-> IF \E t \in Side : s = Vertex(i, t)
                                 THEN i ELSE nodes[s]]
        /\ next' = [next EXCEPT ![i] = [s \in Side |-> nodes[Vertex(i, s)]]]
        /\ prev' = [e \in Edge |-> [s \in Side |->
                IF e # i /\ e = nodes[Vertex(i, s)] THEN i
                ELSE IF e = i THEN kEnd ELSE prev[e][s]]]
        /\ IF i + 1 = N THEN phase' = "scan" /\ i' = N
                  ELSE phase' = phase /\ i' = i + 1
    BY DEF CreateGraph, reader, queue
  <1>2. i \in Edge
    BY <1>0, <1>1 DEF ControlOK
  <1>3. \A e \in Edge, s \in Side : Vertex(e, s)' = Vertex(e, s)
    BY <1>1 DEF Vertex, KeySlot
  <1>4. /\ \A e \in Edge, s \in Side : Vertex(e, s) \in Slots
        /\ \A e, f \in Edge, s, t \in Side :
              Vertex(e, s) = Vertex(f, t) => s = t
    BY <1>0, <1>1, VertexFacts DEF ControlOK, ReaderOK
  <1>5. \A e \in Edge, s \in Side : ~Gone(e, s) /\ ~Gone(e, s)'
    <2>1. head = 0 /\ j = 0 /\ head' = 0 /\ j' = 0
      BY <1>0, <1>1 DEF PhaseInv
    <2> QED BY <2>1 DEF Gone, Edge, Side
  <1>6. \A e \in Edge, s \in Side :
          /\ Linked(e, s) <=> e < i
          /\ Linked(e, s)' <=> e <= i
    BY <1>1, <1>2, <1>5 DEF Linked, Edge
  <1>7. \A v \in Slots :
      \/ nodes[v] = kEnd /\ \A x \in Edge, t \in Side : x < i => Vertex(x, t) # v
      \/ /\ nodes[v] \in Edge /\ nodes[v] < i
         /\ \E t \in Side : Vertex(nodes[v], t) = v
         /\ \A x \in Edge, t \in Side :
              nodes[v] < x /\ x < i => Vertex(x, t) # v
    BY <1>1 DEF LInv, NodesInv
  <1>8. NodesInv'
    <2> SUFFICES ASSUME phase' = "create", NEW v \in Slots
          PROVE \/ nodes'[v] = kEnd /\ \A x \in Edge, t \in Side :
                                        x <= i => Vertex(x, t) # v
                \/ /\ nodes'[v] \in Edge /\ nodes'[v] <= i
                   /\ \E t \in Side : Vertex(nodes'[v], t) = v
                   /\ \A x \in Edge, t \in Side :
                        nodes'[v] < x /\ x <= i => Vertex(x, t) # v
      <3>1. phase' \in {"create", "scan"}
        BY <1>1
      <3>2. phase' = "create" => i' = i + 1
        BY <1>1
      <3>3. \A x \in Edge : x < i + 1 <=> x <= i
        BY <1>2 DEF Edge
      <3> QED BY <1>3, <3>1, <3>2, <3>3 DEF NodesInv
    <2>1. CASE \E t \in Side : v = Vertex(i, t)
      BY <1>1, <1>2, <2>1 DEF Edge
    <2>2. CASE ~ \E t \in Side : v = Vertex(i, t)
      <3>1. nodes'[v] = nodes[v]
        BY <1>1, <2>2
      <3>2. \A x \in Edge, t \in Side : x <= i => x < i \/ Vertex(x, t) # v
        BY <1>2, <2>2 DEF Edge
      <3> QED BY <1>2, <1>7, <3>1, <3>2 DEF Edge
    <2> QED BY <2>1, <2>2
  <1>9. LinksThreadTheRest'
    <2> SUFFICES ASSUME NEW e \in Edge, NEW s \in Side, e <= i
                 PROVE  OlderAt(e, s, next[e][s])' /\ YoungerAt(e, s, prev[e][s])'
      <3>1. \A e \in Edge, s \in Side : Linked(e, s)' => e <= i
        BY <1>6
      <3> QED BY <3>1 DEF LinksThreadTheRest
    <2> DEFINE V == Vertex(i, s)
    <2>0. /\ V \in Slots
          /\ \/ nodes[V] = kEnd /\ \A x \in Edge : x < i => Vertex(x, s) # V
             \/ /\ nodes[V] \in Edge /\ nodes[V] < i
                /\ Vertex(nodes[V], s) = V
                /\ \A x \in Edge : nodes[V] < x /\ x < i => Vertex(x, s) # V
      BY <1>2, <1>4, <1>7
    <2>1. CASE e = i
      <3>1. next'[e][s] = nodes[V] /\ prev'[e][s] = kEnd
        BY <1>0, <1>1, <1>2, <2>1 DEF GraphOK
      <3>2. OlderAt(e, s, next[e][s])'
        BY <1>2, <1>3, <1>6, <2>0, <2>1, <3>1 DEF OlderAt, Edge
      <3>3. YoungerAt(e, s, prev[e][s])'
        BY <1>2, <1>3, <1>6, <2>1, <3>1 DEF YoungerAt, Edge
      <3> QED BY <3>2, <3>3
    <2>2. CASE e < i
      <3>0. OlderAt(e, s, next[e][s]) /\ YoungerAt(e, s, prev[e][s])
        BY <1>1, <1>6, <2>2 DEF LInv, LinksThreadTheRest
      <3>1. next'[e][s] = next[e][s]
        BY <1>0, <1>1, <1>2, <2>2 DEF GraphOK, Edge
      <3>2. OlderAt(e, s, next[e][s])'
        BY <1>2, <1>3, <1>6, <2>2, <3>0, <3>1 DEF OlderAt, Edge
      <3>3. CASE e = nodes[V]
        <4>1. prev'[e][s] = i
          BY <1>1, <1>2, <2>2, <3>3 DEF Edge
        <4>2. YoungerAt(e, s, prev[e][s])'
          BY <1>2, <1>3, <1>6, <2>0, <2>2, <3>3, <4>1 DEF YoungerAt, Edge, kEnd
        <4> QED BY <3>2, <4>2
      <3>4. CASE e # nodes[V]
        <4>1. prev'[e][s] = prev[e][s]
          BY <1>1, <1>2, <2>2, <3>4 DEF Edge
        <4>2. CASE prev[e][s] = kEnd
          <5>1. \A x \in Edge : e < x /\ x < i => Vertex(x, s) # Vertex(e, s)
            BY <1>6, <3>0, <4>2 DEF YoungerAt, kEnd, Edge
          <5>2. Vertex(e, s) # V
            <6> SUFFICES ASSUME Vertex(e, s) = V PROVE FALSE
              OBVIOUS
            <6>1. nodes[V] \in Edge /\ nodes[V] < i /\ Vertex(nodes[V], s) = V
              BY <2>0, <2>2
            <6>2. ~(nodes[V] < e) /\ ~(e < nodes[V])
              BY <2>0, <2>2, <5>1, <6>1 DEF kEnd, Edge
            <6> QED BY <3>4, <6>1, <6>2 DEF Edge
          <5> QED BY <1>2, <1>3, <1>6, <2>2, <3>2, <4>1, <4>2, <5>1, <5>2
                  DEF YoungerAt, Edge
        <4>3. CASE prev[e][s] # kEnd
          BY <1>2, <1>3, <1>6, <2>2, <3>0, <3>2, <4>1, <4>3 DEF YoungerAt, Edge
        <4> QED BY <4>2, <4>3
      <3> QED BY <3>3, <3>4
    <2> QED BY <1>2, <2>1, <2>2 DEF Edge
  <1> QED BY <1>8, <1>9

\* Unlinking one side of the edge at the head of the queue leaves the links
\* threading exactly the other edges of that list.
LEMMA TearPeelLinks ==
  ASSUME LInv, TearPeel
  PROVE  /\ LinksThreadTheRest'
         /\ \A x \in Edge, s \in Side :
              Linked(x, s)' <=> Linked(x, s) /\ ~(x = free[head] /\ s = j)
         /\ free[head] \in Edge /\ Linked(free[head], j)
  <1> USE SizeAssumption
  <1>0. /\ ReaderOK /\ ControlOK /\ GraphOK /\ QueueOK /\ TypeOK
        /\ QueueHoldsEachEdgeOnce /\ PhaseInv
    BY DEF LInv, QInv, TypeOK
  <1> DEFINE e == free[head]
             p == prev[e][j]
             n == next[e][j]
             u == IF n # kEnd THEN n ELSE p
  <1>1. /\ phase = "peel" /\ phase' = phase /\ keys' = keys /\ hash' = hash
        /\ head < tail
        /\ IF j = 2 THEN j' = 0 /\ head' = head + 1
                    ELSE j' = j + 1 /\ head' = head
        /\ next' = [x \in Edge |-> [s \in Side |->
                     IF x = p /\ s = j THEN n ELSE next[x][s]]]
        /\ prev' = [x \in Edge |-> [s \in Side |->
                     IF x = n /\ s = j THEN p ELSE prev[x][s]]]
        /\ \/ u # kEnd /\ u \notin book /\ Push(u)
           \/ UNCHANGED <<book, free, tail>>
    BY DEF TearPeel, reader
  <1>2. e \in Edge /\ head \in Edge /\ head \in Nat /\ tail \in 0 .. N
    BY <1>0, <1>1 DEF QueueHoldsEachEdgeOnce, QueueOK, Edge
  <1>3. p \in 0 .. N /\ n \in 0 .. N /\ u \in 0 .. N /\ j \in Side
    BY <1>0, <1>2 DEF GraphOK, QueueOK
  <1>4. \A q \in Edge : q < tail => free'[q] = free[q]
    <2>1. CASE u # kEnd /\ u \notin book /\ Push(u)
      <3>1. u \in Edge
        BY <1>3, <2>1 DEF Edge, kEnd
      <3>2. \A q \in 0 .. tail-1 : free'[q] = free[q]
        BY <1>0, <1>1, <2>1, <3>1, PushKeepsQueue
      <3> QED BY <1>2, <3>2 DEF Edge
    <2>2. CASE UNCHANGED <<book, free, tail>>
      BY <2>2
    <2> QED BY <1>1, <2>1, <2>2
  <1>5. \A x \in Edge, s \in Side :
          Gone(x, s)' <=> Gone(x, s) \/ (x = e /\ s = j)
    <2> SUFFICES ASSUME NEW x \in Edge, NEW s \in Side
                 PROVE  Gone(x, s)' <=> Gone(x, s) \/ (x = e /\ s = j)
      OBVIOUS
    <2>1. \A q \in Edge : (q < head' \/ (q = head' /\ s < j'))
                          <=> (q < head \/ (q = head /\ s <= j))
      BY <1>1, <1>2, <1>3 DEF Edge, Side
    <2>2. \A q \in Edge : (q < head \/ (q = head /\ s <= j)) => q < tail
      BY <1>1, <1>2 DEF Edge
    <2>3. Gone(x, s)' <=> \E q \in Edge : free[q] = x /\ (q < head \/ (q = head /\ s <= j))
      BY <1>4, <2>1, <2>2 DEF Gone
    <2>4. s <= j <=> s < j \/ s = j
      BY <1>3 DEF Side
    <2> QED BY <1>2, <2>3, <2>4 DEF Gone
  <1>6. ~Gone(e, j)
    <2> SUFFICES ASSUME NEW q \in Edge, free[q] = free[head],
                        q < head \/ (q = head /\ j < j)
                 PROVE  FALSE
      BY DEF Gone
    <2>1. q < head
      BY <1>3 DEF Side
    <2>2. q \in 0 .. tail-1 /\ head \in 0 .. tail-1
      BY <1>1, <1>2, <2>1 DEF Edge
    <2>3. q = head
      BY <1>0, <2>2 DEF QueueHoldsEachEdgeOnce
    <2> QED BY <1>2, <2>1, <2>3 DEF Edge
  <1>7. \A x \in Edge, s \in Side :
          /\ Linked(x, s)' <=> Linked(x, s) /\ ~(x = e /\ s = j)
          /\ Linked(x, s) <=> ~Gone(x, s)
    BY <1>1, <1>5 DEF Linked
  <1>8. Linked(e, j)
    BY <1>2, <1>3, <1>6, <1>7
  <1>9. \A x \in Edge, s \in Side : Vertex(x, s)' = Vertex(x, s)
    BY <1>1 DEF Vertex, KeySlot
  <1>10. \A x \in Edge, s \in Side : Linked(x, s) =>
           OlderAt(x, s, next[x][s]) /\ YoungerAt(x, s, prev[x][s])
    BY <1>1 DEF LInv, LinksThreadTheRest
  <1>11. OlderAt(e, j, n) /\ YoungerAt(e, j, p)
    BY <1>2, <1>3, <1>8, <1>10
  <1>12. ASSUME NEW x \in Edge, NEW s \in Side, Linked(x, s)'
         PROVE  OlderAt(x, s, next[x][s])' /\ YoungerAt(x, s, prev[x][s])'
    <2>1. Linked(x, s) /\ ~(x = e /\ s = j)
      BY <1>7, <1>12
    <2>2. OlderAt(x, s, next[x][s]) /\ YoungerAt(x, s, prev[x][s])
      BY <1>10, <2>1
    <2>3. CASE s # j
      <3>1. next'[x][s] = next[x][s] /\ prev'[x][s] = prev[x][s]
        BY <1>1, <2>3
      <3>2. \A y \in Edge : Linked(y, s)' <=> Linked(y, s)
        BY <1>7, <2>3
      <3>3. OlderAt(x, s, next[x][s])'
        BY <1>9, <2>2, <3>1, <3>2 DEF OlderAt
      <3>4. YoungerAt(x, s, prev[x][s])'
        BY <1>9, <2>2, <3>1, <3>2 DEF YoungerAt
      <3> QED BY <3>3, <3>4
    <2>4. CASE s = j
      <3>0. /\ x # e
            /\ \A y \in Edge : Linked(y, s)' <=> Linked(y, s) /\ y # e
            /\ \A y \in Edge : Vertex(y, s)' = Vertex(y, s)
        BY <1>7, <1>9, <2>1, <2>4
      <3>b. OlderAt(e, s, n) /\ YoungerAt(e, s, p)
        BY <1>11, <2>4
      <3>1. OlderAt(x, s, next[x][s])'
        <4>1. CASE x = p
          <5>1. next'[x][s] = n
            BY <1>1, <1>3, <2>4, <4>1
          <5>2. e < x /\ Vertex(x, s) = Vertex(e, s)
                /\ \A y \in Edge : e < y /\ y < x /\ Linked(y, s)
                                   => Vertex(y, s) # Vertex(e, s)
            BY <3>b, <4>1 DEF YoungerAt, Edge, kEnd
          <5>3. CASE n = kEnd
            BY <1>2, <3>b, <3>0, <5>1, <5>2, <5>3 DEF OlderAt, Edge, kEnd
          <5>4. CASE n # kEnd
            BY <1>2, <3>b, <3>0, <5>1, <5>2, <5>4 DEF OlderAt, Edge
          <5> QED BY <5>3, <5>4
        <4>2. CASE x # p
          <5>1. next'[x][s] = next[x][s]
            BY <1>1, <1>3, <2>4, <4>2
          <5>2. next[x][s] # e
            <6> SUFFICES ASSUME next[x][s] = e PROVE FALSE
              OBVIOUS
            <6>1. /\ e < x /\ Vertex(x, s) = Vertex(e, s)
                  /\ \A y \in Edge : e < y /\ y < x /\ Linked(y, s)
                                     => Vertex(y, s) # Vertex(e, s)
              BY <1>2, <2>2, <2>4 DEF OlderAt, Edge, kEnd
            <6>2. CASE p = kEnd
              BY <3>b, <2>1, <2>4, <6>1, <6>2 DEF YoungerAt, Edge, kEnd
            <6>3. CASE p # kEnd
              BY <1>2, <3>b, <2>1, <2>4, <4>2, <6>1, <6>3 DEF YoungerAt, Edge
            <6> QED BY <6>2, <6>3
          <5> QED BY <2>2, <2>4, <3>0, <5>1, <5>2 DEF OlderAt
        <4> QED BY <4>1, <4>2
      <3>2. YoungerAt(x, s, prev[x][s])'
        <4>1. CASE x = n
          <5>1. prev'[x][s] = p
            BY <1>1, <1>3, <2>4, <4>1
          <5>2. x < e /\ Vertex(x, s) = Vertex(e, s)
                /\ \A y \in Edge : x < y /\ y < e /\ Linked(y, s)
                                   => Vertex(y, s) # Vertex(e, s)
            BY <3>b, <4>1 DEF OlderAt, Edge, kEnd
          <5>3. CASE p = kEnd
            BY <1>2, <3>b, <3>0, <5>1, <5>2, <5>3 DEF YoungerAt, Edge, kEnd
          <5>4. CASE p # kEnd
            BY <1>2, <3>b, <3>0, <5>1, <5>2, <5>4 DEF YoungerAt, Edge
          <5> QED BY <5>3, <5>4
        <4>2. CASE x # n
          <5>1. prev'[x][s] = prev[x][s]
            BY <1>1, <1>3, <2>4, <4>2
          <5>2. prev[x][s] # e
            <6> SUFFICES ASSUME prev[x][s] = e PROVE FALSE
              OBVIOUS
            <6>1. /\ x < e /\ Vertex(x, s) = Vertex(e, s)
                  /\ \A y \in Edge : x < y /\ y < e /\ Linked(y, s)
                                     => Vertex(y, s) # Vertex(e, s)
              BY <1>2, <2>2, <2>4 DEF YoungerAt, Edge, kEnd
            <6>2. CASE n = kEnd
              BY <3>b, <2>1, <2>4, <6>1, <6>2 DEF OlderAt, Edge, kEnd
            <6>3. CASE n # kEnd
              BY <1>2, <3>b, <2>1, <2>4, <4>2, <6>1, <6>3 DEF OlderAt, Edge
            <6> QED BY <6>2, <6>3
          <5> QED BY <2>2, <2>4, <3>0, <5>1, <5>2 DEF YoungerAt
        <4> QED BY <4>1, <4>2
      <3> QED BY <3>1, <3>2
    <2> QED BY <2>3, <2>4
  <1> QED BY <1>2, <1>7, <1>8, <1>12 DEF LinksThreadTheRest

\* An edge alone on its list shares that slot with no edge still linked there.
LEMMA AloneMeansPrivate ==
  ASSUME NEW e \in Edge, NEW s \in Side,
         OlderAt(e, s, kEnd), YoungerAt(e, s, kEnd)
  PROVE  \A x \in Edge : Linked(x, s) /\ x # e => Vertex(x, s) # Vertex(e, s)
  BY SizeAssumption DEF OlderAt, YoungerAt, kEnd, Edge

PInv == LInv /\ QueuedEdgeHasPrivateSlot

\* A pushed edge with a private slot keeps QueuedEdgeHasPrivateSlot.
LEMMA PushKeepsPrivate ==
  ASSUME TypeOK, QueueHoldsEachEdgeOnce, QueuedEdgeHasPrivateSlot,
         phase \in {"scan", "peel"}, UNCHANGED <<keys, hash>>,
         NEW e \in Edge, e \notin book, Push(e), NEW s \in Side,
         \A x \in Edge : x # e /\ (\A q \in 0 .. tail-1 : free[q] # x)
                         => Vertex(x, s) # Vertex(e, s)
  PROVE  QueuedEdgeHasPrivateSlot'
  <1> USE SizeAssumption
  <1>1. /\ tail' = tail + 1 /\ free'[tail] = e
        /\ \A p \in 0 .. tail-1 : free'[p] = free[p]
    BY PushKeepsQueue
  <1>2. tail \in 0 .. N
    BY DEF TypeOK, QueueOK
  <1>3. \A x \in Edge, t \in Side : Vertex(x, t)' = Vertex(x, t)
    BY DEF Vertex, KeySlot
  <1>4. \A p \in 0 .. tail-1 : free[p] \in Edge
    BY <1>2 DEF TypeOK, QueueOK, QueueHoldsEachEdgeOnce, Edge
  <1> SUFFICES ASSUME NEW p \in 0 .. tail
               PROVE  \E t \in Side : \A x \in Edge :
                        (\A q \in 0 .. p : free'[q] # x)
                           => Vertex(x, t)' # Vertex(free[p], t)'
    BY <1>1, <1>2 DEF QueuedEdgeHasPrivateSlot
  <1>5. CASE p = tail
    <2>1. \A x \in Edge : (\A q \in 0 .. p : free'[q] # x)
            => x # e /\ (\A q \in 0 .. tail-1 : free[q] # x)
      BY <1>1, <1>2, <1>5
    <2>2. Vertex(free[p], s)' = Vertex(e, s)
      BY <1>1, <1>5 DEF Vertex, KeySlot
    <2> QED BY <1>3, <2>1, <2>2
  <1>6. CASE p < tail
    <2>0. p \in 0 .. tail-1
      BY <1>2, <1>6
    <2>1. PICK t \in Side : \A x \in Edge :
            (\A q \in 0 .. p : free[q] # x) => Vertex(x, t) # Vertex(free[p], t)
      BY <2>0 DEF QueuedEdgeHasPrivateSlot
    <2>2. \A q \in 0 .. p : free'[q] = free[q]
      BY <1>1, <1>2, <2>0
    <2>3. Vertex(free[p], t)' = Vertex(free[p], t)
      BY <2>2, <2>0 DEF Vertex, KeySlot
    <2> QED BY <1>3, <2>1, <2>2, <2>3
  <1> QED BY <1>2, <1>5, <1>6

\* QueuedEdgeHasPrivateSlot only looks at the queue and the slots.
LEMMA PrivateStays ==
  ASSUME QueuedEdgeHasPrivateSlot, phase \in {"scan", "peel", "map"},
         UNCHANGED <<keys, hash, free, tail>>
  PROVE  QueuedEdgeHasPrivateSlot'
  BY DEF QueuedEdgeHasPrivateSlot, Vertex, KeySlot

\* Every action of Build preserves the links and the private slots.
LEMMA NextPInv == PInv /\ QInv' /\ [Next]_vars => PInv'
  <1> SUFFICES ASSUME PInv, QInv', [Next]_vars
               PROVE  NodesInv' /\ LinksThreadTheRest' /\ QueuedEdgeHasPrivateSlot'
    BY DEF PInv, LInv
  <1> USE SizeAssumption
  <1>0. /\ ReaderOK /\ ControlOK /\ GraphOK /\ QueueOK /\ CellsOK /\ TablesOK
        /\ QueueHoldsEachEdgeOnce /\ PhaseInv /\ TypeOK /\ LInv /\ QInv
        /\ NodesInv /\ LinksThreadTheRest /\ QueuedEdgeHasPrivateSlot
    BY DEF PInv, LInv, QInv, TypeOK
  <1>a. ASSUME phase' \in {"try", "check"}
        PROVE  NodesInv' /\ LinksThreadTheRest' /\ QueuedEdgeHasPrivateSlot'
    BY <1>a DEF NodesInv, LinksThreadTheRest, QueuedEdgeHasPrivateSlot
  <1>1. CASE NewSeed
    <2>1. phase = "try" /\ phase' = "create" /\ i' = i /\ i = 0 /\ nodes' = NewNodes
      BY <1>0, <1>1 DEF NewSeed, PhaseInv
    <2>2. NodesInv'
      BY <2>1 DEF NodesInv, NewNodes, Edge
    <2>3. LinksThreadTheRest'
      BY <2>1 DEF LinksThreadTheRest, Linked, Edge
    <2> QED BY <2>1, <2>2, <2>3 DEF QueuedEdgeHasPrivateSlot
  <1>2. CASE OutOfTries
    BY <1>2 DEF OutOfTries, NodesInv, LinksThreadTheRest, QueuedEdgeHasPrivateSlot
  <1>3. CASE CreateGraph
    <2>1. NodesInv' /\ LinksThreadTheRest'
      BY <1>0, <1>3, CreateGraphLinks
    <2>2. tail' = 0
      BY <1>0, <1>3 DEF CreateGraph, PhaseInv
    <2> QED BY <2>1, <2>2 DEF QueuedEdgeHasPrivateSlot
  <1>4. CASE CreateGraphNoKey
    BY <1>4, <1>a DEF CreateGraphNoKey, TryFails
  <1>5. CASE TearScan
    <2>1. /\ UNCHANGED <<keys, hash, nodes, prev, next, head, j>>
          /\ phase = "scan" /\ phase' \in {"scan", "peel"}
          /\ head = 0 /\ j = 0 /\ i \in 1 .. N
      BY <1>0, <1>5 DEF TearScan, reader, graph, PhaseInv, ControlOK
    <2>2. \A e \in Edge, s \in Side : ~Gone(e, s) /\ ~Gone(e, s)'
      BY <2>1 DEF Gone, Edge, Side
    <2>3. \A e \in Edge, s \in Side : Linked(e, s) /\ Linked(e, s)'
      BY <2>1, <2>2 DEF Linked
    <2>4. \A e \in Edge, s \in Side : Vertex(e, s)' = Vertex(e, s)
      BY <2>1 DEF Vertex, KeySlot
    <2>5. \A e \in Edge, s \in Side :
            OlderAt(e, s, next[e][s]) /\ YoungerAt(e, s, prev[e][s])
      BY <1>0, <2>1, <2>3 DEF LinksThreadTheRest
    <2>6. LinksThreadTheRest'
      <3> SUFFICES ASSUME NEW e \in Edge, NEW s \in Side
                   PROVE  OlderAt(e, s, next[e][s])' /\ YoungerAt(e, s, prev[e][s])'
        BY DEF LinksThreadTheRest
      <3>1. OlderAt(e, s, next[e][s])'
        BY <2>1, <2>3, <2>4, <2>5 DEF OlderAt
      <3>2. YoungerAt(e, s, prev[e][s])'
        BY <2>1, <2>3, <2>4, <2>5 DEF YoungerAt
      <3> QED BY <3>1, <3>2
    <2>7. i - 1 \in Edge /\ i - 1 \notin book
      BY <1>0, <2>1 DEF PhaseInv, Edge, QueueOK
    <2>8. CASE \E s \in Side : Alone(prev, next, i-1, s)
      <3>1. Push(i-1)
        BY <1>5, <2>8 DEF TearScan
      <3>2. PICK s \in Side : prev[i-1][s] = kEnd /\ next[i-1][s] = kEnd
        BY <2>8 DEF Alone
      <3>3. OlderAt(i-1, s, kEnd) /\ YoungerAt(i-1, s, kEnd)
        BY <2>5, <2>7, <3>2
      <3>4. \A x \in Edge : Linked(x, s) /\ x # i-1 => Vertex(x, s) # Vertex(i-1, s)
        BY <2>7, <3>3, AloneMeansPrivate
      <3>5. QueuedEdgeHasPrivateSlot'
        BY <1>0, <2>1, <2>3, <2>7, <3>1, <3>4, PushKeepsPrivate
      <3> QED BY <2>1, <2>6, <3>5 DEF NodesInv
    <2>9. CASE ~ \E s \in Side : Alone(prev, next, i-1, s)
      <3>1. UNCHANGED <<book, free, tail>>
        BY <1>5, <2>9 DEF TearScan
      <3>2. QueuedEdgeHasPrivateSlot'
        BY <1>0, <2>1, <3>1, PrivateStays
      <3> QED BY <2>1, <2>6, <3>2 DEF NodesInv
    <2> QED BY <2>8, <2>9
  <1>6. CASE TearPeel
    <2>1. /\ phase = "peel" /\ phase' = phase /\ UNCHANGED <<keys, hash>>
          /\ head < tail
      BY <1>6 DEF TearPeel, reader
    <2> DEFINE e == free[head]
               p == prev[e][j]
               n == next[e][j]
               u == IF n # kEnd THEN n ELSE p
    <2>2. /\ LinksThreadTheRest'
          /\ \A x \in Edge, s \in Side :
               Linked(x, s)' <=> Linked(x, s) /\ ~(x = e /\ s = j)
          /\ e \in Edge /\ Linked(e, j)
      BY <1>0, <1>6, TearPeelLinks
    <2>3. NodesInv'
      BY <2>1 DEF NodesInv
    <2>4. \/ u # kEnd /\ Alone(prev', next', u, j) /\ u \notin book /\ Push(u)
          \/ UNCHANGED <<book, free, tail>>
      BY <1>6 DEF TearPeel
    <2>5. CASE u # kEnd /\ Alone(prev', next', u, j) /\ u \notin book /\ Push(u)
      <3>0. j \in Side /\ n \in 0 .. N /\ p \in 0 .. N
        BY <1>0, <2>2 DEF QueueOK, GraphOK
      <3>1. u \in Edge
        BY <2>5, <3>0 DEF Edge, kEnd
      <3>2. OlderAt(e, j, n) /\ YoungerAt(e, j, p)
        BY <1>0, <2>1, <2>2, <3>0 DEF LinksThreadTheRest
      <3>3. Linked(u, j) /\ u # e
        BY <2>2, <3>1, <3>2, <2>5 DEF OlderAt, YoungerAt, Edge, kEnd
      <3>4. PICK s \in Side : s = j
        BY <3>0
      <3>7. PICK w \in Edge : w = u
        BY <3>1
      <3>5. /\ Linked(w, s)'
            /\ \A x \in Edge : Linked(x, s)' <=> Linked(x, s) /\ x # e
        BY <2>2, <3>3, <3>4, <3>7
      <3>6. prev'[w][s] = kEnd /\ next'[w][s] = kEnd
        BY <2>5, <3>4, <3>7 DEF Alone
      <3>8. OlderAt(w, s, next[w][s])' /\ YoungerAt(w, s, prev[w][s])'
        BY <2>1, <2>2, <3>5 DEF LinksThreadTheRest
      <3>9. \A x \in Edge : Linked(x, s)' /\ x # w => Vertex(x, s)' # Vertex(w, s)'
        BY <3>6, <3>8 DEF OlderAt, YoungerAt, kEnd, Edge
      <3>10. \A x \in Edge : Vertex(x, s)' = Vertex(x, s)
        BY <2>1 DEF Vertex, KeySlot
      <3>11. \A x \in Edge : (\A q \in 0 .. tail-1 : free[q] # x) => Linked(x, s)'
        <4> SUFFICES ASSUME NEW x \in Edge, \A q \in 0 .. tail-1 : free[q] # x
                     PROVE  Linked(x, s) /\ x # e
          BY <3>5
        <4>1. head \in 0 .. tail-1
          BY <1>0, <2>1 DEF QueueOK
        <4>2. \A q \in Edge : q < head \/ q = head => q \in 0 .. tail-1
          BY <1>0, <2>1 DEF QueueOK, Edge
        <4>3. ~Gone(x, s)
          BY <4>2 DEF Gone
        <4> QED BY <2>1, <4>1, <4>3 DEF Linked
      <3>12. \A x \in Edge : x # w /\ (\A q \in 0 .. tail-1 : free[q] # x)
                             => Vertex(x, s) # Vertex(w, s)
        BY <3>9, <3>10, <3>11
      <3>13. QueuedEdgeHasPrivateSlot'
        BY <1>0, <2>1, <2>5, <3>7, <3>12, PushKeepsPrivate
      <3> QED BY <2>2, <2>3, <3>13
    <2>6. CASE UNCHANGED <<book, free, tail>>
      <3>1. QueuedEdgeHasPrivateSlot'
        BY <1>0, <2>1, <2>6, PrivateStays
      <3> QED BY <2>2, <2>3, <3>1
    <2> QED BY <2>4, <2>5, <2>6
  <1>7. CASE TearSucceeds
    <2>1. /\ phase = "peel" /\ phase' = "map"
          /\ UNCHANGED <<keys, hash, free, tail>>
      BY <1>7 DEF TearSucceeds, reader
    <2>2. QueuedEdgeHasPrivateSlot'
      BY <1>0, <2>1, PrivateStays
    <2> QED BY <2>1, <2>2 DEF NodesInv, LinksThreadTheRest
  <1>8. CASE TearFails
    BY <1>8, <1>a DEF TearFails, TryFails
  <1>9. CASE Mapping
    <2>1. /\ phase = "map" /\ phase' \in {"map", "abort"}
          /\ UNCHANGED <<keys, hash, free, tail>>
      BY <1>9 DEF Mapping, reader
    <2>2. QueuedEdgeHasPrivateSlot'
      BY <1>0, <2>1, PrivateStays
    <2> QED BY <2>1, <2>2 DEF NodesInv, LinksThreadTheRest
  <1>10. CASE FillTable
    BY <1>10 DEF FillTable, NodesInv, LinksThreadTheRest, QueuedEdgeHasPrivateSlot
  <1>11. CASE CheckInsert
    <2>1. phase' \in {"check", "rejected"}
      BY <1>11 DEF CheckInsert
    <2> QED BY <2>1 DEF NodesInv, LinksThreadTheRest, QueuedEdgeHasPrivateSlot
  <1>12. CASE CheckPasses
    BY <1>12, <1>a DEF CheckPasses
  <1>13. CASE UNCHANGED vars
    <2>1. /\ UNCHANGED <<keys, hash, free, tail, phase, i, nodes, head, j, prev, next>>
      BY <1>13 DEF vars, reader, graph, queue
    <2>2. NodesInv'
      BY <1>0, <2>1 DEF NodesInv, Vertex, KeySlot
    <2>3. LinksThreadTheRest'
      BY <1>0, <2>1 DEF LinksThreadTheRest, OlderAt, YoungerAt, Linked, Gone,
                        Vertex, KeySlot
    <2>4. QueuedEdgeHasPrivateSlot'
      BY <1>0, <2>1 DEF QueuedEdgeHasPrivateSlot, Vertex, KeySlot
    <2> QED BY <2>2, <2>3, <2>4
  <1> QED
    BY <1>1, <1>2, <1>3, <1>4, <1>5, <1>6, <1>7, <1>8, <1>9, <1>10, <1>11,
       <1>12, <1>13 DEF Next, Returned

-----------------------------------------------------------------------------
(* Mapping: every edge already visited owns a slot of its own.             *)

\* The slot the cells select for the edge at position p of the queue.
Own(p) == SlotOf(keys[free[p]])

MapInv ==
  /\ phase # "abort"
  /\ phase \in {"map", "done"} =>
       /\ \A v \in Slots :
            v \in book <=> \E p \in i .. N-1, t \in Side : v = Vertex(free[p], t)
       /\ \A v \in Slots : bitmap[v] # 3 => \E p \in i .. N-1 : v = Own(p)
       /\ \A p \in i .. N-1 : bitmap[Own(p)] # 3
       /\ \A p, q \in i .. N-1 : Own(p) = Own(q) => p = q
       /\ CountValidSlot(Slots) = N - i

\* The slot an edge selects is one of its three.
LEMMA OwnIsVertex ==
  ASSUME hash \in [Key -> Code], keys \in KeyLists, CellsOK, NEW e \in Edge
  PROVE  /\ \E t \in Side : SlotOf(keys[e]) = Vertex(e, t)
         /\ SlotOf(keys[e]) \in Slots
  <1> DEFINE m == bitmap[KeySlot(keys[e], 0)] + bitmap[KeySlot(keys[e], 1)]
                    + bitmap[KeySlot(keys[e], 2)]
  <1>1. \A t \in Side : Vertex(e, t) \in Slots
    BY VertexFacts
  <1>2. \A t \in Side : bitmap[KeySlot(keys[e], t)] \in 0 .. 3
    BY <1>1 DEF Vertex, CellsOK
  <1>3. m \in Nat
    BY <1>2 DEF Side
  <1>4. m % 3 \in Side
    BY <1>3 DEF Side
  <1> QED BY <1>1, <1>4 DEF SlotOf, Vertex

\* Assigning an edge its free vertex keeps the mapping invariant.
LEMMA MappingMapInv ==
  ASSUME PInv, MapInv, Mapping
  PROVE  MapInv'
  <1> USE SizeAssumption
  <1>0. /\ ReaderOK /\ ControlOK /\ QueueOK /\ CellsOK
        /\ QueueHoldsEachEdgeOnce /\ PhaseInv /\ QueuedEdgeHasPrivateSlot
    BY DEF PInv, LInv, QInv, TypeOK
  <1>1. /\ phase = "map" /\ i > 0 /\ i' = i - 1
        /\ UNCHANGED <<keys, hash, free, tail>>
        /\ tail = N /\ i \in 1 .. N /\ hash \in [Key -> Code] /\ keys \in KeyLists
    BY <1>0 DEF Mapping, reader, PhaseInv, ControlOK, ReaderOK
  <1> DEFINE e == free[i-1]
             s == FreeSide(e)
             v == Vertex(e, s)
             x == bitmap[Vertex(e, (s+1) % 3)]
             y == bitmap[Vertex(e, (s+2) % 3)]
             Old == i .. N-1
  <1>2. /\ \A p \in 0 .. N-1 : free[p] \in Edge
        /\ \A p, q \in 0 .. N-1 : free[p] = free[q] => p = q
    BY <1>0, <1>1 DEF QueueHoldsEachEdgeOnce, Edge, QueueOK
  <1>3. e \in Edge
    BY <1>1, <1>2
  <1>4. /\ \A f \in Edge, t \in Side : Vertex(f, t) \in Slots
        /\ \A f, g \in Edge, t, r \in Side : Vertex(f, t) = Vertex(g, r) => t = r
    BY <1>1, VertexFacts
  <1>5. /\ \A w \in Slots :
             w \in book <=> \E p \in Old, t \in Side : w = Vertex(free[p], t)
        /\ \A w \in Slots : bitmap[w] # 3 => \E p \in Old : w = Own(p)
        /\ \A p \in Old : bitmap[Own(p)] # 3
        /\ \A p, q \in Old : Own(p) = Own(q) => p = q
        /\ CountValidSlot(Slots) = N - i
    BY <1>1 DEF MapInv
  <1>6. s # 3 /\ s \in Side /\ v \notin book
    <2>1. PICK t \in Side : \A f \in Edge :
            (\A q \in 0 .. i-1 : free[q] # f) => Vertex(f, t) # Vertex(e, t)
      BY <1>0, <1>1 DEF QueuedEdgeHasPrivateSlot
    <2>2. \A p \in Old : free[p] \in Edge /\ \A q \in 0 .. i-1 : free[q] # free[p]
      BY <1>1, <1>2
    <2>3. Vertex(e, t) \notin book
      BY <1>3, <1>4, <1>5, <2>1, <2>2
    <2> QED BY <2>3 DEF FreeSide, Side
  <1>7. /\ bitmap' = [bitmap EXCEPT ![v] = SetBit2on11(@, CellFor(s, x + y))]
        /\ book' = book \union {Vertex(e, t) : t \in Side}
        /\ phase' = phase
    BY <1>6 DEF Mapping
  <1>8. v \in Slots
    BY <1>3, <1>4, <1>6
  <1>9. \A p \in Old : /\ Own(p) \in Slots
                       /\ \E t \in Side : Own(p) = Vertex(free[p], t)
    BY <1>0, <1>1, <1>2, OwnIsVertex DEF Own
  <1>10. bitmap[v] = 3
    BY <1>5, <1>6, <1>8, <1>9
  <1>11. x \in 0 .. 3 /\ y \in 0 .. 3 /\ (s+1) % 3 \in Side /\ (s+2) % 3 \in Side
         /\ (s+1) % 3 # s /\ (s+2) % 3 # s
    <2>1. (s+1) % 3 \in Side /\ (s+2) % 3 \in Side
          /\ (s+1) % 3 # s /\ (s+2) % 3 # s
      BY <1>6 DEF Side
    <2> QED BY <1>0, <1>3, <1>4, <2>1 DEF CellsOK
  <1>12. PICK c \in 0 .. 2 : c = CellFor(s, x + y) /\ (c + x + y) % 3 = s
    BY <1>6, <1>11, CellFacts
  <1>13. /\ bitmap'[v] = c
         /\ \A w \in Slots : w # v => bitmap'[w] = bitmap[w]
         /\ bitmap' \in [Slots -> 0 .. 3]
    BY <1>0, <1>7, <1>8, <1>10, <1>12, CellFacts DEF CellsOK
  <1>14. ASSUME NEW p \in Old
         PROVE  Own(p)' = Own(p) /\ Own(p) # v
    <2>1. \A t \in Side : Vertex(free[p], t) \in book
      BY <1>1, <1>2, <1>4, <1>5
    <2>2. \A t \in Side : bitmap'[Vertex(free[p], t)] = bitmap[Vertex(free[p], t)]
      BY <1>1, <1>2, <1>4, <1>6, <1>13, <2>1
    <2>3. Own(p)' = Own(p)
      <3> DEFINE place(t) == KeySlot(keys[free[p]], t)
                 m == bitmap[place(0)] + bitmap[place(1)] + bitmap[place(2)]
                 n == bitmap'[place(0)] + bitmap'[place(1)] + bitmap'[place(2)]
      <3>1. \A t \in Side : bitmap'[place(t)] = bitmap[place(t)]
        BY <2>2 DEF Vertex
      <3>2. n = m
        BY <3>1 DEF Side
      <3>3. Own(p) = place(m % 3)
        BY DEF Own, SlotOf
      <3>4. Own(p)' = place(n % 3)
        BY <1>1 DEF Own, SlotOf, KeySlot
      <3> QED BY <3>2, <3>3, <3>4
    <2>4. Own(p) # v
      BY <1>6, <1>9, <2>1
    <2> QED BY <2>3, <2>4
  <1>15. PICK k \in 0 .. N-1 : k = i - 1
    BY <1>1
  <1>16. /\ Own(k)' = v
         /\ \A t \in Side : Vertex(free[k], t)' = Vertex(e, t)
    <2>1. \A t \in Side : Vertex(free[k], t)' = Vertex(e, t)
      BY <1>1, <1>15 DEF Vertex, KeySlot
    <2> DEFINE cell(t) == bitmap'[Vertex(e, t)]
    <2>2. Own(k)' = Vertex(e, (cell(0) + cell(1) + cell(2)) % 3)
      BY <1>1, <1>15 DEF Own, SlotOf, Vertex, KeySlot
    <2>3. /\ cell(s) = c
          /\ cell((s+1) % 3) = x
          /\ cell((s+2) % 3) = y
      BY <1>3, <1>4, <1>6, <1>11, <1>13
    <2>4. (cell(0) + cell(1) + cell(2)) % 3 = s
      <3>1. CASE s = 0
        <4>1. cell(0) = c /\ cell(1) = x /\ cell(2) = y
          BY <2>3, <3>1
        <4> QED BY <1>11, <1>12, <4>1
      <3>2. CASE s = 1
        <4>1. cell(1) = c /\ cell(2) = x /\ cell(0) = y
          BY <2>3, <3>2
        <4>2. cell(0) + cell(1) + cell(2) = c + x + y
          BY <1>11, <1>12, <4>1
        <4> QED BY <1>12, <4>2
      <3>3. CASE s = 2
        <4>1. cell(2) = c /\ cell(0) = x /\ cell(1) = y
          BY <2>3, <3>3
        <4>2. cell(0) + cell(1) + cell(2) = c + x + y
          BY <1>11, <1>12, <4>1
        <4> QED BY <1>12, <4>2
      <3> QED BY <1>6, <3>1, <3>2, <3>3 DEF Side
    <2> QED BY <2>1, <2>2, <2>4
  <1>17. \A p : p \in i' .. N-1 <=> p = k \/ p \in Old
    BY <1>1, <1>15
  <1>18. \A p \in Old, t \in Side : Vertex(free[p], t)' = Vertex(free[p], t)
    BY <1>1 DEF Vertex, KeySlot
  <1>19. \A w \in Slots :
           w \in book' <=> \E p \in i' .. N-1, t \in Side : w = Vertex(free[p], t)'
    <2> SUFFICES ASSUME NEW w \in Slots
                 PROVE  w \in book' <=>
                          \E p \in i' .. N-1, t \in Side : w = Vertex(free[p], t)'
      OBVIOUS
    <2>1. w \in book' <=> w \in book \/ \E t \in Side : w = Vertex(e, t)
      BY <1>7
    <2>2. w \in book <=> \E p \in Old, t \in Side : w = Vertex(free[p], t)
      BY <1>5
    <2> QED BY <1>16, <1>17, <1>18, <2>1, <2>2
  <1>20. \A w \in Slots : bitmap'[w] # 3 => \E p \in i' .. N-1 : w = Own(p)'
    BY <1>5, <1>13, <1>14, <1>16, <1>17
  <1>21. \A p \in i' .. N-1 : bitmap'[Own(p)'] # 3
    <2>1. \A p \in Old : bitmap'[Own(p)'] # 3
      BY <1>5, <1>9, <1>13, <1>14
    <2>2. bitmap'[Own(k)'] # 3
      BY <1>13, <1>16
    <2> QED BY <1>17, <2>1, <2>2
  <1>22. \A p, q \in i' .. N-1 : Own(p)' = Own(q)' => p = q
    BY <1>5, <1>14, <1>16, <1>17
  <1>23. CountValidSlot(Slots)' = N - i'
    <2> DEFINE Valid == {w \in Slots : bitmap[w] # 3}
               Valid2 == {w \in Slots : bitmap'[w] # 3}
    <2>1. Valid2 = Valid \union {v} /\ v \notin Valid
      BY <1>8, <1>10, <1>13
    <2>2. IsFiniteSet(Valid)
      BY SlotsFinite, FS_Subset
    <2>3. Cardinality(Valid2) = Cardinality(Valid) + 1
      BY <2>1, <2>2, FS_AddElement
    <2>4. Cardinality(Valid) = N - i
      BY <1>5 DEF CountValidSlot
    <2>5. CountValidSlot(Slots)' = Cardinality(Valid2)
      BY DEF CountValidSlot
    <2> QED BY <1>1, <2>3, <2>4, <2>5
  <1> QED
    <2>1. phase' = "map"
      BY <1>1, <1>7
    <2> QED BY <1>19, <1>20, <1>21, <1>22, <1>23, <2>1 DEF MapInv

\* Initially nothing is mapped.
LEMMA InitMapInv == Init => MapInv
  BY DEF Init, MapInv

\* Every action of Build preserves what Mapping has established.
LEMMA NextMapInv == PInv /\ MapInv /\ [Next]_vars => MapInv'
  <1> SUFFICES ASSUME PInv, MapInv, [Next]_vars PROVE MapInv'
    OBVIOUS
  <1> USE SizeAssumption
  <1>0. PhaseInv /\ ControlOK /\ phase # "abort"
    BY DEF PInv, LInv, QInv, TypeOK, MapInv
  <1>1. CASE Mapping
    BY <1>1, MappingMapInv
  <1>2. CASE TearSucceeds
    <2>1. /\ i' = N /\ phase' = "map" /\ bitmap' = [w \in Slots |-> 3]
          /\ \A v \in Slots : v \notin book'
      BY <1>2 DEF TearSucceeds, MapBook, MapBitmap
    <2>2. i' .. N-1 = {}
      BY <2>1
    <2>3. CountValidSlot(Slots)' = 0
      <3>1. {w \in Slots : bitmap'[w] # 3} = {}
        BY <2>1
      <3> QED BY <3>1, FS_EmptySet DEF CountValidSlot
    <2> QED BY <2>1, <2>2, <2>3 DEF MapInv
  <1>a. ASSUME UNCHANGED <<keys, hash, free, i, bitmap, book>>
        PROVE  /\ \A p \in i .. N-1 : Own(p)' = Own(p)
               /\ \A p \in i .. N-1, t \in Side :
                    Vertex(free[p], t)' = Vertex(free[p], t)
               /\ CountValidSlot(Slots)' = CountValidSlot(Slots)
               /\ i' = i /\ bitmap' = bitmap /\ book' = book
    <2>1. \A p \in i .. N-1 : Own(p)' = Own(p)
      BY <1>a DEF Own, SlotOf, KeySlot
    <2>2. \A p \in i .. N-1, t \in Side : Vertex(free[p], t)' = Vertex(free[p], t)
      BY <1>a DEF Vertex, KeySlot
    <2>3. CountValidSlot(Slots)' = CountValidSlot(Slots)
      BY <1>a DEF CountValidSlot
    <2> QED BY <1>a, <2>1, <2>2, <2>3
  <1>3. CASE phase' = "done" /\ phase = "map"
             /\ UNCHANGED <<keys, hash, free, i, bitmap, book>>
    BY <1>3, <1>a DEF MapInv
  <1>4. CASE phase' = phase
             /\ UNCHANGED <<keys, hash, free, i, bitmap, book>>
    BY <1>4, <1>a DEF MapInv
  <1>5. CASE phase' \notin {"map", "done", "abort"}
    BY <1>5 DEF MapInv
  <1>6. FillTable => phase' = "done" /\ phase = "map"
             /\ UNCHANGED <<keys, hash, free, i, bitmap, book>>
    BY DEF FillTable, reader, queue
  <1>7. UNCHANGED vars => phase' = phase
             /\ UNCHANGED <<keys, hash, free, i, bitmap, book>>
    BY DEF vars, reader, queue
  <1>8. NewSeed \/ OutOfTries \/ CreateGraph \/ CreateGraphNoKey \/ TearScan
        \/ TearPeel \/ TearFails \/ CheckInsert \/ CheckPasses
        => phase' \notin {"map", "done", "abort"}
    <2>1. NewSeed \/ OutOfTries \/ CreateGraph \/ CheckPasses \/ TearScan \/ TearPeel
          => phase' \notin {"map", "done", "abort"}
      BY DEF NewSeed, OutOfTries, CreateGraph, CheckPasses, TearScan, TearPeel
    <2>2. TryFails => phase' \notin {"map", "done", "abort"}
      BY DEF TryFails
    <2>3. CheckInsert => phase' \in {"check", "rejected"}
      BY DEF CheckInsert
    <2> QED BY <2>1, <2>2, <2>3 DEF CreateGraphNoKey, TearFails
  <1> QED
    BY <1>1, <1>2, <1>3, <1>4, <1>5, <1>6, <1>7, <1>8 DEF Next, Returned

-----------------------------------------------------------------------------
(* The table, the rank of a slot, and the theorems.                        *)

\* What FillTable leaves behind: Build is over, every edge has been mapped.
TableInv ==
  phase = "done" =>
    /\ i = 0
    /\ table = [b \in Blocks |->
                 IF HasTable
                   THEN CountValidSlot({s \in Slots : s < b * Block}) ELSE 0]

\* Every step keeps the table as FillTable computed it.
LEMMA NextTableInv == TableInv /\ [Next]_vars => TableInv'
  <1> SUFFICES ASSUME TableInv, [Next]_vars PROVE TableInv'
    OBVIOUS
  <1>1. CASE FillTable
    BY <1>1 DEF FillTable, TableInv, CountValidSlot
  <1>2. CASE UNCHANGED vars
    BY <1>2 DEF vars, TableInv, CountValidSlot
  <1>3. NewSeed \/ OutOfTries \/ CreateGraph \/ CreateGraphNoKey \/ TearScan
        \/ TearPeel \/ TearFails \/ CheckInsert \/ CheckPasses \/ Mapping
        \/ TearSucceeds => phase' # "done"
    <2>1. NewSeed \/ OutOfTries \/ CreateGraph \/ CheckPasses \/ TearScan \/ TearPeel
          \/ TearSucceeds \/ Mapping => phase' # "done"
      BY DEF NewSeed, OutOfTries, CreateGraph, CheckPasses, TearScan, TearPeel,
             TearSucceeds, Mapping
    <2>2. TryFails => phase' # "done"
      BY DEF TryFails
    <2>3. CheckInsert => phase' \in {"check", "rejected"}
      BY DEF CheckInsert
    <2> QED BY <2>1, <2>2, <2>3 DEF CreateGraphNoKey, TearFails
  <1> QED BY <1>1, <1>2, <1>3 DEF Next, Returned, TableInv

\* Division by the block size (slot >> 5): the block of a slot exists and
\* holds it.
LEMMA BlockOfSlot ==
  ASSUME NEW v \in Slots
  PROVE  /\ v \div Block \in Blocks
         /\ (v \div Block) * Block \in Nat
         /\ (v \div Block) * Block <= v
         /\ ~HasTable => v \div Block = 0
  <1> USE SizeAssumption
  <1> DEFINE a == v \div Block
             b == (3*M - 1) \div Block
  <1>1. v \in Nat /\ v <= 3*M - 1 /\ 3*M - 1 \in Nat
    BY DEF Slots
  <1>2. \A x \in Nat : /\ x \div Block \in Nat
                       /\ (x \div Block) * Block <= x
                       /\ x < (x \div Block) * Block + Block
    BY SMT
  <1>3. a \in Nat /\ b \in Nat /\ a * Block <= v /\ 3*M - 1 < b * Block + Block
    BY <1>1, <1>2
  <1>4. a <= b
    <2> SUFFICES ASSUME a >= b + 1 PROVE FALSE
      BY <1>3
    <2>1. a * Block >= (b + 1) * Block
      BY <1>3
    <2> QED BY <1>1, <1>3, <2>1
  <1>5. ~HasTable => a = 0
    <2> SUFFICES ASSUME 3*M <= Block, a >= 1 PROVE FALSE
      BY <1>3 DEF HasTable
    <2>1. a * Block >= Block
      BY <1>3
    <2> QED BY <1>1, <1>3, <2>1
  <1>6. a * Block \in Nat
    BY <1>3
  <1> QED BY <1>3, <1>4, <1>5, <1>6 DEF Blocks

\* Locate returns the number of valid slots below the selected one.
LEMMA LocateIsRank ==
  ASSUME TableInv, phase = "done", NEW k, SlotOf(k) \in Slots
  PROVE  Locate(k) = CountValidSlot(0 .. SlotOf(k) - 1)
  <1> USE SizeAssumption
  <1> DEFINE v == SlotOf(k)
             a == v \div Block
             Lo == {s \in {s \in Slots : s < a * Block} : bitmap[s] # 3}
             Hi == {s \in a * Block .. v-1 : bitmap[s] # 3}
             All == {s \in 0 .. v-1 : bitmap[s] # 3}
  <1>1. a \in Blocks /\ a * Block \in Nat /\ a * Block <= v /\ (~HasTable => a = 0)
    BY BlockOfSlot
  <1>2. v \in 0 .. 3*M - 1
    BY DEF Slots
  <1>3. Lo \union Hi = All /\ Lo \cap Hi = {}
    BY <1>1, <1>2 DEF Slots
  <1>4. IsFiniteSet(Lo) /\ IsFiniteSet(Hi)
    <2>1. Lo \subseteq Slots /\ Hi \subseteq Slots
      BY <1>1, <1>2 DEF Slots
    <2> QED BY <2>1, FS_Subset, SlotsFinite
  <1>5. Cardinality(All) = Cardinality(Lo) + Cardinality(Hi)
    <2>1. Cardinality(Lo \union Hi) =
            Cardinality(Lo) + Cardinality(Hi) - Cardinality(Lo \cap Hi)
      BY <1>4, FS_Union
    <2>2. Cardinality(Lo \cap Hi) = 0
      BY <1>3, FS_EmptySet
    <2>3. Cardinality(Lo) \in Nat /\ Cardinality(Hi) \in Nat
      BY <1>4, FS_CardinalityType
    <2>4. Cardinality(All) = Cardinality(Lo \union Hi)
      BY <1>3
    <2> HIDE DEF Lo, Hi, All
    <2> QED BY <2>1, <2>2, <2>3, <2>4
  <1>6. CASE HasTable
    <2>1. table[a] = Cardinality(Lo)
      BY <1>1, <1>6 DEF TableInv, CountValidSlot
    <2> QED BY <1>5, <1>6, <2>1 DEF Locate, CountValidSlot
  <1>7. CASE ~HasTable
    <2>1. a = 0
      BY <1>1, <1>7
    <2>2. a * Block = 0
      BY <2>1
    <2>3. Lo = {}
      BY <2>2 DEF Slots
    <2>4. Cardinality(Lo) = 0
      BY <2>3, FS_EmptySet
    <2> QED BY <1>5, <1>7, <2>4 DEF Locate, CountValidSlot
  <1> QED BY <1>6, <1>7

\* The rank of a valid slot is below the number of valid slots, and below the
\* rank of every later slot.
LEMMA RankStrict ==
  ASSUME NEW v \in Slots, bitmap[v] # 3,
         NEW S \in SUBSET Slots, v \in S, 0 .. v-1 \subseteq S
  PROVE  /\ CountValidSlot(0 .. v-1) < CountValidSlot(S)
         /\ CountValidSlot(0 .. v-1) \in Nat /\ CountValidSlot(S) \in Nat
  <1> DEFINE A == {s \in 0 .. v-1 : bitmap[s] # 3}
             B == {s \in S : bitmap[s] # 3}
  <1>1. A \union {v} \subseteq B /\ v \notin A
    BY DEF Slots
  <1>2. IsFiniteSet(B) /\ IsFiniteSet(A) /\ IsFiniteSet(A \union {v})
    BY <1>1, SlotsFinite, FS_Subset
  <1>3. Cardinality(A \union {v}) = Cardinality(A) + 1
    BY <1>1, <1>2, FS_AddElement
  <1>4. Cardinality(A \union {v}) <= Cardinality(B)
    BY <1>1, <1>2, FS_Subset
  <1>5. Cardinality(A) \in Nat /\ Cardinality(B) \in Nat
    BY <1>2, FS_CardinalityType
  <1> QED BY <1>3, <1>4, <1>5 DEF CountValidSlot

Inv == QInv /\ PInv /\ MapInv /\ TableInv

\* In a finished index the selected slots are valid and pairwise different,
\* hence so are their ranks.
LEMMA InvImpliesPerfect == Inv => LocateIsPerfect /\ ValidSlotsMatchTotal
  <1> SUFFICES ASSUME Inv, phase = "done"
               PROVE  LocateIsPerfect /\ CountValidSlot(Slots) = N
    BY DEF LocateIsPerfect, ValidSlotsMatchTotal
  <1> USE SizeAssumption
  <1>0. /\ ReaderOK /\ ControlOK /\ QueueOK /\ CellsOK /\ QueueHoldsEachEdgeOnce
        /\ PhaseInv /\ MapInv /\ TableInv
    BY DEF Inv, QInv, TypeOK
  <1>1. /\ hash \in [Key -> Code] /\ keys \in KeyLists /\ tail = N /\ i = 0
    BY <1>0 DEF ControlOK, ReaderOK, PhaseInv, TableInv
  <1>2. /\ \A p \in 0 .. N-1 : bitmap[Own(p)] # 3
        /\ \A p, q \in 0 .. N-1 : Own(p) = Own(q) => p = q
        /\ CountValidSlot(Slots) = N
    BY <1>0, <1>1 DEF MapInv
  <1>3. \A e \in Edge : SlotOf(keys[e]) \in Slots
    BY <1>0, <1>1, OwnIsVertex
  <1>4. \A e \in Edge : \E p \in 0 .. N-1 : free[p] = e
    BY <1>0 DEF PhaseInv
  <1>5. \A e \in Edge : bitmap[SlotOf(keys[e])] # 3
    BY <1>2, <1>4 DEF Own
  <1>6. \A e, f \in Edge : SlotOf(keys[e]) = SlotOf(keys[f]) => e = f
    BY <1>2, <1>4 DEF Own
  <1>7. \A e \in Edge : Locate(keys[e]) = CountValidSlot(0 .. SlotOf(keys[e]) - 1)
    BY <1>0, <1>3, LocateIsRank
  <1>8. ASSUME NEW e \in Edge
        PROVE  Locate(keys[e]) \in 0 .. N-1
    <2> DEFINE v == SlotOf(keys[e])
    <2>1. v \in Slots /\ bitmap[v] # 3
      BY <1>3, <1>5
    <2>2. 0 .. v-1 \subseteq Slots
      BY <2>1 DEF Slots
    <2>3. CountValidSlot(0 .. v-1) < N /\ CountValidSlot(0 .. v-1) \in Nat
      BY <1>2, <2>1, <2>2, RankStrict
    <2> QED BY <1>7, <2>3
  <1>9. ASSUME NEW e \in Edge, NEW f \in Edge, SlotOf(keys[e]) < SlotOf(keys[f])
        PROVE  Locate(keys[e]) < Locate(keys[f])
    <2> DEFINE v == SlotOf(keys[e])
               w == SlotOf(keys[f])
    <2>1. v \in Slots /\ w \in Slots /\ bitmap[v] # 3 /\ v < w
      BY <1>3, <1>5, <1>9
    <2>2. 0 .. w-1 \subseteq Slots /\ v \in 0 .. w-1 /\ 0 .. v-1 \subseteq 0 .. w-1
      BY <2>1 DEF Slots
    <2>3. CountValidSlot(0 .. v-1) < CountValidSlot(0 .. w-1)
      BY <2>1, <2>2, RankStrict
    <2> QED BY <1>7, <2>3
  <1>10. ASSUME NEW e \in Edge, NEW f \in Edge, e # f
         PROVE  Locate(keys[e]) # Locate(keys[f])
    <2>1. SlotOf(keys[e]) < SlotOf(keys[f]) \/ SlotOf(keys[f]) < SlotOf(keys[e])
      BY <1>3, <1>6, <1>10 DEF Slots
    <2>2. Locate(keys[e]) \in 0 .. N-1 /\ Locate(keys[f]) \in 0 .. N-1
      BY <1>8
    <2> QED BY <1>9, <2>1, <2>2
  <1> QED BY <1>2, <1>8, <1>10 DEF LocateIsPerfect

\* The inductive invariant of Build.
LEMMA Invariance == Spec => []Inv
  <1>1. Init => Inv
    <2>1. Init => QInv
      BY InitQInv
    <2>2. Init => NodesInv /\ LinksThreadTheRest /\ MapInv
      BY InitLInv, InitMapInv
    <2>3. Init => QueuedEdgeHasPrivateSlot /\ TableInv
      BY DEF Init, QueuedEdgeHasPrivateSlot, TableInv
    <2> QED BY <2>1, <2>2, <2>3 DEF Inv, PInv, LInv
  <1>2. Inv /\ [Next]_vars => Inv'
    BY NextQInv, NextPInv, NextMapInv, NextTableInv DEF Inv
  <1> QED BY <1>1, <1>2, PTL DEF Spec

\* The lists that TearGraph edits in place always thread exactly the edges
\* not unlinked yet.
THEOREM LinksCorrect == Spec => []LinksThreadTheRest
  <1>1. Inv => LinksThreadTheRest
    BY DEF Inv, PInv, LInv
  <1> QED BY <1>1, Invariance, PTL

\* Every edge TearGraph has queued has a slot that no later edge touches.
THEOREM PeelingCorrect == Spec => []QueuedEdgeHasPrivateSlot
  <1>1. Inv => QueuedEdgeHasPrivateSlot
    BY DEF Inv, PInv, LInv
  <1> QED BY <1>1, Invariance, PTL

\* Mapping's assert(false) is unreachable.
THEOREM MappingSafe == Spec => []MappingNeverStuck
  <1>1. Inv => MappingNeverStuck
    BY DEF Inv, MapInv, MappingNeverStuck
  <1> QED BY <1>1, Invariance, PTL

\* Whatever the keys, the section size and the hash values: an index that
\* Build returns maps the keys one to one onto 0 .. total-1, and the count
\* asserted at L_done is right.
THEOREM PerfectHashCorrect == Spec => [](LocateIsPerfect /\ ValidSlotsMatchTotal)
  <1> QED BY InvImpliesPerfect, Invariance, PTL

\* No phase after CreateGraph is reached before the reader has given all keys.
ReadInv ==
  /\ phase = "create" => i <= avail
  /\ phase \in {"scan", "peel", "map", "done"} => avail = N

\* Every step keeps ReadInv: only reading the last key leaves "create".
LEMMA NextReadInv == Inv /\ ReadInv /\ [Next]_vars => ReadInv'
  <1> SUFFICES ASSUME Inv, ReadInv, [Next]_vars PROVE ReadInv'
    OBVIOUS
  <1> USE SizeAssumption
  <1>0. ControlOK /\ avail \in {N, N-1} /\ PhaseInv
    BY DEF Inv, QInv, TypeOK, ReaderOK
  <1>1. CASE NewSeed
    <2>1. phase' = "create" /\ i' = 0 /\ avail' = avail
      BY <1>0, <1>1 DEF NewSeed, reader, PhaseInv
    <2> QED BY <1>0, <2>1 DEF ReadInv
  <1>2. CASE CreateGraph
    <2>1. /\ avail' = avail /\ i < avail /\ phase = "create" /\ i \in 0 .. N
          /\ \/ phase' = "scan" /\ i' = N /\ i + 1 = N
             \/ phase' = phase /\ i' = i + 1
      BY <1>0, <1>2 DEF CreateGraph, reader, ControlOK
    <2> QED BY <1>0, <2>1 DEF ReadInv
  <1>3. CASE TearScan \/ TearPeel \/ TearSucceeds \/ Mapping \/ FillTable
    <2>1. /\ avail' = avail /\ phase \in {"scan", "peel", "map"}
          /\ phase' \in {"scan", "peel", "map", "abort", "done"}
      BY <1>3 DEF TearScan, TearPeel, TearSucceeds, Mapping, FillTable, reader
    <2> QED BY <2>1 DEF ReadInv
  <1>4. CASE OutOfTries \/ CreateGraphNoKey \/ TearFails \/ CheckInsert \/ CheckPasses
    <2>1. TryFails => phase' \in {"try", "check"}
      BY DEF TryFails
    <2>2. CheckInsert => phase' \in {"check", "rejected"}
      BY DEF CheckInsert
    <2>3. phase' \in {"try", "check", "rejected", "failed"}
      BY <1>4, <2>1, <2>2 DEF OutOfTries, CreateGraphNoKey, TearFails, CheckPasses
    <2> QED BY <2>3 DEF ReadInv
  <1>5. CASE UNCHANGED vars
    BY <1>5 DEF vars, reader, ReadInv
  <1> QED BY <1>1, <1>2, <1>3, <1>4, <1>5 DEF Next, Returned

\* A reader that repeats a key, or delivers too few, never gets an index:
\* its edges are never alone, so no seed tears the graph.
THEOREM BadInputRefused == Spec => []BadInputNeverIndexed
  <1>1. Init => ReadInv
    BY DEF Init, ReadInv
  <1>2. Inv /\ ReadInv => BadInputNeverIndexed
    <2> SUFFICES ASSUME Inv, ReadInv, phase = "done"
                 PROVE  avail = N /\ \A e, f \in Edge : e # f => keys[e] # keys[f]
      BY DEF BadInputNeverIndexed
    <2>1. \A e, f \in Edge : e # f => Locate(keys[e]) # Locate(keys[f])
      BY InvImpliesPerfect DEF LocateIsPerfect
    <2>2. \A e, f \in Edge : e # f => keys[e] # keys[f]
      BY <2>1
    <2> QED BY <2>2 DEF ReadInv
  <1> QED BY <1>1, <1>2, NextReadInv, Invariance, PTL DEF Spec

-----------------------------------------------------------------------------
(* Check gives up only on a bad reader.                                    *)

\* The places of Check's table that hold a code.
Taken == {p \in 0 .. 2*N-1 : space[p] # Vacant}

\* Check has stored at most one code for every key it has read, and nothing
\* else.
SpaceInv ==
  phase = "check" =>
    /\ Cardinality(Taken) <= i
    /\ \A p \in Taken : \E e \in Edge :
         e < i /\ space[p] = CheckCode(hash[keys[e]])

\* The place q steps after r, in a table of m places (Check's wrap-around).
LEMMA WrapMod ==
  ASSUME NEW m \in Nat \ {0}, NEW r \in 0 .. m-1, NEW q \in 0 .. m-1
  PROVE  (r + q) % m = IF r + q < m THEN r + q ELSE r + q - m
  <1>1. CASE r + q < m
    BY <1>1
  <1>2. CASE r + q >= m
    <2>1. r + q = m * 1 + (r + q - m) /\ r + q - m \in 0 .. m-1
      BY <1>2
    <2> QED BY <1>2, <2>1
  <1> QED BY <1>1, <1>2

\* Check probes different places: n of 2n.
LEMMA ProbesDiffer ==
  ASSUME NEW x \in Nat
  PROVE  /\ \A q \in 0 .. N-1 : ((x % (2*N)) + q) % (2*N) \in 0 .. 2*N-1
         /\ \A q, t \in 0 .. N-1 :
              ((x % (2*N)) + q) % (2*N) = ((x % (2*N)) + t) % (2*N) => q = t
  <1> DEFINE m == 2 * N
  <1>1. m \in Nat \ {0} /\ m = N + N /\ 0 .. N-1 \subseteq 0 .. m-1
    BY SizeAssumption
  <1> HIDE DEF m
  <1>2. x % m \in 0 .. m-1
    BY <1>1
  <1> DEFINE r == x % m
  <1> HIDE DEF r
  <1>3. r \in 0 .. m-1
    BY <1>2 DEF r
  <1>4. \A q \in 0 .. N-1 : (r + q) % m = IF r + q < m THEN r + q ELSE r + q - m
    BY <1>1, <1>3, WrapMod
  <1>5. \A q \in 0 .. N-1 : (r + q) % m \in 0 .. m-1
    BY <1>1, <1>3, <1>4
  <1>6. \A q, t \in 0 .. N-1 : (r + q) % m = (r + t) % m => q = t
    BY <1>1, <1>3, <1>4, SizeAssumption
  <1> QED BY <1>5, <1>6 DEF r, m

\* A set of places to probe has a first one (Check's loop finds it).
LEMMA MinInSet ==
  ASSUME NEW S \in SUBSET Nat, S # {}
  PROVE  Min(S) \in S
  <1>1. PICK x \in S : \A y \in S : ~(<<y, x>> \in OpToRel(<, Nat))
    BY WFMin, NatLessThanWellFounded
  <1>2. \A y \in S : x <= y
    <2> SUFFICES ASSUME NEW y \in S PROVE x <= y
      OBVIOUS
    <2>1. ~(y < x)
      BY <1>1 DEF OpToRel
    <2> QED BY <2>1
  <1> QED BY <1>2 DEF Min

\* What Check stores is never the code of an empty place.
LEMMA CodeNotVacant ==
  ASSUME NEW c \in [Side -> Nat]
  PROVE  CheckCode(c) # Vacant
  <1>1. c[0] \in Nat /\ 0 \in Side
    BY DEF Side
  <1>2. CheckCode(c)[0] # 0
    BY <1>1 DEF CheckCode
  <1> QED BY <1>1, <1>2 DEF Vacant

\* The places of the table are finitely many.
LEMMA TakenFinite ==
  IsFiniteSet(Taken) /\ Cardinality(Taken) \in Nat
  <1>1. IsFiniteSet(0 .. 2*N-1)
    BY FS_Interval, SizeAssumption
  <1>2. IsFiniteSet(Taken)
    BY <1>1, FS_Subset DEF Taken
  <1> QED BY <1>2, FS_CardinalityType

\* Check finds a vacant place or the code itself among the places it probes,
\* as long as it has stored fewer than n codes.
LEMMA ProbeHits ==
  ASSUME Cardinality(Taken) < N, NEW c \in [Side -> Nat]
  PROVE  \E q \in 0 .. N-1 :
           space[((c[0] % (2*N)) + q) % (2*N)] \in {Vacant, CheckCode(c)}
  <1> DEFINE at(q) == ((c[0] % (2*N)) + q) % (2*N)
             f == [q \in 0 .. N-1 |-> at(q)]
  <1> SUFFICES ASSUME \A q \in 0 .. N-1 : space[at(q)] # Vacant
               PROVE  FALSE
    OBVIOUS
  <1>1. c[0] \in Nat
    BY DEF Side
  <1>2. /\ \A q \in 0 .. N-1 : at(q) \in 0 .. 2*N-1
        /\ \A q, t \in 0 .. N-1 : at(q) = at(t) => q = t
    BY <1>1, ProbesDiffer
  <1> HIDE DEF at
  <1>3. f \in [0 .. N-1 -> Taken]
    BY <1>2 DEF Taken
  <1>4. IsFiniteSet(0 .. N-1) /\ Cardinality(0 .. N-1) = N
    BY EdgeFinite DEF Edge
  <1>5. Cardinality(Taken) < Cardinality(0 .. N-1)
    BY <1>4
  <1>6. \A q \in 0 .. N-1 : f[q] = at(q)
    OBVIOUS
  <1> HIDE DEF f
  <1>7. \E x, y \in 0 .. N-1 : x # y /\ f[x] = f[y]
    BY <1>3, <1>4, <1>5, TakenFinite, FS_PigeonHole, Zenon
  <1> QED BY <1>2, <1>6, <1>7

\* Check, one key: it is stored in a vacant place, or Check gives up for one
\* of the two good reasons.
LEMMA CheckInsertSpace ==
  ASSUME Inv, SpaceInv, CheckInsert
  PROVE  SpaceInv' /\ CheckRejectsOnlyDuplicates'
  <1> USE SizeAssumption
  <1>0. /\ phase = "check" /\ i \in 0 .. N /\ i < N /\ hash \in [Key -> Code]
        /\ keys \in [Edge -> Key] /\ avail \in {N, N-1} /\ hash' = hash
        /\ keys' = keys /\ avail' = avail /\ i' = i + 1
        /\ space \in [0 .. 2*N-1 -> [Side -> Nat]]
    BY CodeAssumption
       DEF Inv, QInv, TypeOK, ControlOK, ReaderOK, TablesOK, CheckInsert, reader
  <1> DEFINE c == hash[keys[i]]
             at(q) == ((c[0] % (2*N)) + q) % (2*N)
             hits == {q \in 0 .. N-1 : space[at(q)] \in {Vacant, CheckCode(c)}}
             pos == at(Min(hits))
  <1>1. IF i < avail /\ hits # {} /\ space[pos] = Vacant
          THEN /\ space' = [space EXCEPT ![pos] = CheckCode(c)]
               /\ UNCHANGED phase
          ELSE /\ phase' = "rejected"
               /\ UNCHANGED space
    BY DEF CheckInsert
  <1>2. i \in Edge /\ c \in Code /\ c \in [Side -> Nat] /\ c[0] \in Nat
    BY <1>0, CodeAssumption DEF Edge, Side
  <1>3. /\ Cardinality(Taken) <= i
        /\ \A p \in Taken : \E e \in Edge :
             e < i /\ space[p] = CheckCode(hash[keys[e]])
    BY <1>0 DEF SpaceInv
  <1>4. hits # {}
    <2>1. Cardinality(Taken) < N
      BY <1>0, <1>3, TakenFinite
    <2> QED BY <1>2, <2>1, ProbeHits
  <1>5. Min(hits) \in hits
    <2>1. hits \in SUBSET Nat
      OBVIOUS
    <2> HIDE DEF hits
    <2> QED BY <1>4, <2>1, MinInSet
  <1>6. pos \in 0 .. 2*N-1 /\ space[pos] \in {Vacant, CheckCode(c)}
    <2>1. Min(hits) \in 0 .. N-1 /\ space[at(Min(hits))] \in {Vacant, CheckCode(c)}
      BY <1>5
    <2>2. \A q \in 0 .. N-1 : at(q) \in 0 .. 2*N-1
      BY <1>2, ProbesDiffer
    <2> QED BY <2>1, <2>2
  <1> HIDE DEF c, at, hits, pos
  <1>7. CASE i < avail /\ space[pos] = Vacant
    <2>1. space' = [space EXCEPT ![pos] = CheckCode(c)] /\ phase' = "check"
      BY <1>0, <1>1, <1>4, <1>7
    <2>2. CheckCode(c) # Vacant
      BY <1>2, CodeNotVacant
    <2>3. Taken' = Taken \union {pos} /\ pos \notin Taken
      BY <1>0, <1>6, <1>7, <2>1, <2>2 DEF Taken, Vacant
    <2>4. Cardinality(Taken') <= i'
      <3>1. Cardinality(Taken \union {pos}) = Cardinality(Taken) + 1
        BY <2>3, TakenFinite, FS_AddElement
      <3> QED BY <1>0, <1>3, <2>3, <3>1, TakenFinite
    <2>5. ASSUME NEW p \in Taken'
          PROVE  \E e \in Edge : e < i' /\ space'[p] = CheckCode(hash'[keys'[e]])
      <3>1. CASE p = pos
        <4>1. space'[p] = CheckCode(hash[keys[i]])
          BY <1>0, <1>6, <2>1, <3>1 DEF c
        <4> QED BY <1>0, <1>2, <4>1
      <3>2. CASE p \in Taken /\ p # pos
        <4>1. PICK e \in Edge : e < i /\ space[p] = CheckCode(hash[keys[e]])
          BY <1>3, <3>2
        <4>2. space'[p] = space[p]
          BY <1>0, <2>1, <3>2 DEF Taken
        <4> QED BY <1>0, <4>1, <4>2 DEF Edge
      <3> QED BY <2>3, <3>1, <3>2
    <2> QED BY <2>1, <2>4, <2>5 DEF SpaceInv, CheckRejectsOnlyDuplicates
  <1>8. CASE ~(i < avail)
    <2>1. avail' < N /\ phase' = "rejected"
      BY <1>0, <1>1, <1>8
    <2> QED BY <2>1 DEF SpaceInv, CheckRejectsOnlyDuplicates
  <1>9. CASE space[pos] # Vacant
    <2>1. phase' = "rejected" /\ pos \in Taken /\ space[pos] = CheckCode(c)
      BY <1>1, <1>6, <1>9 DEF Taken
    <2>2. PICK e \in Edge : e < i /\ space[pos] = CheckCode(hash[keys[e]])
      BY <1>3, <2>1
    <2>3. e # i /\ CheckCode(hash'[keys'[e]]) = CheckCode(hash'[keys'[i]])
      BY <1>0, <2>1, <2>2 DEF c, Edge
    <2> QED BY <1>2, <2>1, <2>3 DEF SpaceInv, CheckRejectsOnlyDuplicates
  <1> QED BY <1>7, <1>8, <1>9

\* Every step of Build keeps Check's table as SpaceInv says.
LEMMA NextSpaceInv ==
  Inv /\ SpaceInv /\ CheckRejectsOnlyDuplicates /\ [Next]_vars
    => SpaceInv' /\ CheckRejectsOnlyDuplicates'
  <1> SUFFICES ASSUME Inv, SpaceInv, CheckRejectsOnlyDuplicates, [Next]_vars
               PROVE  SpaceInv' /\ CheckRejectsOnlyDuplicates'
    OBVIOUS
  <1>1. CASE CheckInsert
    BY <1>1, CheckInsertSpace
  <1>2. CASE CheckPasses
    <2>1. phase' = "try"
      BY <1>2 DEF CheckPasses
    <2> QED BY <2>1 DEF SpaceInv, CheckRejectsOnlyDuplicates
  <1>3. CASE CreateGraphNoKey \/ TearFails
    <2>1. /\ i' = 0
          /\ \/ phase' = "try"
             \/ phase' = "check" /\ space' = NewSpace
      BY <1>3 DEF CreateGraphNoKey, TearFails, TryFails
    <2>2. CASE phase' = "try"
      BY <2>2 DEF SpaceInv, CheckRejectsOnlyDuplicates
    <2>3. CASE phase' = "check" /\ space' = NewSpace
      <3>1. Taken' = {}
        BY <2>3 DEF Taken, NewSpace
      <3>2. Cardinality(Taken') = 0
        BY <3>1, FS_EmptySet
      <3> QED BY <2>1, <2>3, <3>1, <3>2 DEF SpaceInv, CheckRejectsOnlyDuplicates
    <2> QED BY <2>1, <2>2, <2>3
  <1>4. CASE NewSeed \/ OutOfTries \/ CreateGraph \/ TearScan \/ TearPeel
               \/ TearSucceeds \/ Mapping \/ FillTable
    <2>1. phase' \notin {"check", "rejected"}
      BY <1>4 DEF NewSeed, OutOfTries, CreateGraph, TearScan, TearPeel,
                  TearSucceeds, Mapping, FillTable
    <2> QED BY <2>1 DEF SpaceInv, CheckRejectsOnlyDuplicates
  <1>5. CASE UNCHANGED vars
    BY <1>5 DEF vars, reader, SpaceInv, Taken, CheckRejectsOnlyDuplicates
  <1> QED BY <1>1, <1>2, <1>3, <1>4, <1>5 DEF Next, Returned

\* Check refuses a key set only for a reason: the reader is short, or two keys
\* have the same code.  Probing n of the 2n places always finds room.
THEOREM CheckCorrect == Spec => []CheckRejectsOnlyDuplicates
  <1>1. Init => SpaceInv /\ CheckRejectsOnlyDuplicates
    BY DEF Init, SpaceInv, CheckRejectsOnlyDuplicates
  <1> QED BY <1>1, NextSpaceInv, Invariance, PTL DEF Spec
=============================================================================
