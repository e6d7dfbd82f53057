---------------------------- MODULE PerfectHash ----------------------------
(***************************************************************************)
(* The construction of the minimal perfect hash that indexes every         *)
(* ProtoCache map (src/perfect_hash.cc, Build) and the lookup that uses it *)
(* (PerfectHash::Locate).                                                  *)
(*                                                                         *)
(* A try hashes every key to one slot in each of three sections, which     *)
(* makes a 3-partite hypergraph with the keys as edges.  TearGraph peels   *)
(* off edges that are alone at one of their slots; Mapping walks the       *)
(* peeled edges backwards and writes the 2-bit cells so that the cells of  *)
(* a key sum up to the index of the slot the key owns.  Locate recomputes  *)
(* that slot and ranks it among the owned ones.                            *)
(*                                                                         *)
(* All tries, and Check between them, share one block of scratch memory    *)
(* that nobody clears as a whole: a try finds there what the memory        *)
(* allocator, an earlier try or Check has left, and each function resets   *)
(* what it needs.  v.slot is left out: it is written with the links of the *)
(* edge and read by Mapping, when every edge has been written (Vertex).    *)
(***************************************************************************)
EXTENDS Integers, FiniteSets, FiniteSetsExt

CONSTANTS
  N,         \* total: the number of keys the reader announces, at least 2
  M,         \* Section(total): slots per section
  Block,     \* slots per 64-bit block of the bitmap (32 in the code)
  Key,       \* the keys
  Code,      \* the values of Hash128 that matter: functions of 0..2
  KeyLists,  \* the sequences of keys the reader may deliver, 0-based
  FIRST_TRIES, SECOND_TRIES,
  Junk,      \* contents of memory that is new, or that Check has used
  NoHash     \* no seed chosen

Edge == 0 .. N-1
Side == 0 .. 2
Slots == 0 .. 3*M - 1
kEnd == N    \* ~0 of the index type, which CreateGraph asserts to be >= n

ASSUME SizeAssumption == /\ N \in Nat \ {0, 1}
                         /\ M \in Nat \ {0}
                         /\ Block \in Nat \ {0}
ASSUME JunkAssumption ==
  Junk \subseteq [word : 0 .. N, bits : SUBSET (Edge \union Slots), cell : 0 .. 3]
ASSUME TriesAssumption == /\ FIRST_TRIES \in Nat \ {0}
                          /\ SECOND_TRIES \in Nat \ {0}
ASSUME CodeAssumption == /\ Code \subseteq [Side -> Nat]
                         /\ KeyLists \subseteq [Edge -> Key]
                         /\ NoHash \notin [Key -> Code]

VARIABLES
  keys,      \* what the KeyReader delivers, in order
  avail,     \* how many keys it delivers before Read() returns null
  no_check,  \* Build's argument
  phase,     \* where Build is
  tries,     \* seeds used so far
  hash,      \* Hash128(_, header->seed), or NoHash
  i,         \* the loop index of CreateGraph, TearGraph, Mapping and Check
  nodes,     \* nodes[s]: head of the list of edges at slot s
  prev, next,\* prev[e][j], next[e][j]: links of edge e in its list on side j
  free, head, tail, \* TearGraph's queue: free[0 .. tail-1], head next to peel
  j,         \* side of the edge being peeled
  book,      \* the bits set in book: edges ever queued for TearGraph, slots
             \* whose cell is settled for Mapping
  bitmap,    \* 2-bit cells of the slots
  space,     \* Check's open-addressing table
  table      \* valid slots before each block, written at L_done

reader == <<keys, avail, no_check>>
graph  == <<nodes, prev, next>>
queue  == <<free, head, tail, j, book>>
vars   == <<reader, phase, tries, hash, i, graph, queue, bitmap, space, table>>

-----------------------------------------------------------------------------
(* Slots of an edge, and the layout of cells.                              *)

\* code.u32[s] % m + shift[s], for a key and for the key of an edge.
KeySlot(k, s) == (hash[k][s] % M) + s * M
Vertex(e, s) == KeySlot(keys[e], s)

\* Exclusive or of two 2-bit values.
Xor2(a, b) == 2 * (((a \div 2) + (b \div 2)) % 2) + (((a % 2) + (b % 2)) % 2)

\* SetBit2on11: flips the bits of a cell that are 0 in val.
SetBit2on11(cell, val) == Xor2(cell, 3 - val)

\* The blocks of the bitmap; the table is written only if there are several.
Blocks == 0 .. (3*M - 1) \div Block
HasTable == 3*M > Block

\* CountValidSlot over the slots of S: cells other than 11.
CountValidSlot(S) == Cardinality({s \in S : bitmap[s] # 3})

\* PerfectHash::Locate for a key k: which of its slots the cells select ...
SlotOf(k) ==
  LET m == bitmap[KeySlot(k, 0)] + bitmap[KeySlot(k, 1)]
             + bitmap[KeySlot(k, 2)]
  IN  KeySlot(k, m % 3)

\* ... and the rank of that slot: table entry plus valid slots before it in
\* its block.
Locate(k) ==
  LET slot == SlotOf(k)
      a    == slot \div Block
      off  == IF HasTable THEN table[a] ELSE 0
  IN  off + CountValidSlot(a * Block .. slot - 1)

-----------------------------------------------------------------------------
(* Memory: what is in it when nobody has reset it, and the resets.         *)

\* The links and the table of Check in memory with the contents g.
JunkLinks(g) == [e \in Edge |-> [s \in Side |-> g.word]]
JunkSpace(g) == [p \in 0 .. 2*N-1 |-> [s \in Side |-> g.word]]

\* memset(g.nodes, ~0, ...) of CreateGraph.
NewNodes == [s \in Slots |-> kEnd]

\* Mutants: a book, the bitmap as they were left.
TearBookKept == book
MapBookKept == book
MapBitmapKept == bitmap

\* memset(book, 0, (n+7)/8) of TearGraph: a bit for every edge.
TearBook == book \ Edge

\* memset(book, 0, (m*3+7)/8) of Mapping: a bit for every slot.
MapBook == book \ Slots

\* memset(bitmap, ~0, ...) of Mapping.
MapBitmap == [s \in Slots |-> 3]

\* What Check stores: the code with the lowest bit of u32[0] set, never 0.
CheckCode(c) == [c EXCEPT ![0] = IF c[0] % 2 = 0 THEN c[0] + 1 ELSE c[0]]
Vacant == [s \in Side |-> 0]

\* memset(space, 0, ...) of Check.
NewSpace == [p \in 0 .. 2*N-1 |-> Vacant]

Init ==
  /\ keys \in KeyLists
  /\ avail \in {N, N-1}
  /\ no_check \in BOOLEAN
  /\ phase = "try" /\ tries = 0 /\ hash = NoHash /\ i = 0
  /\ head = 0 /\ tail = 0 /\ j = 0
  /\ \E g \in Junk :
       /\ nodes = [s \in Slots |-> g.word]
       /\ prev = JunkLinks(g) /\ next = JunkLinks(g)
       /\ free = [e \in Edge |-> g.word] /\ book = g.bits
       /\ bitmap = [s \in Slots |-> g.cell]
       /\ space = JunkSpace(g)
  /\ table = [b \in Blocks |-> 0]

\* Mutant: seeds are not counted.
NewSeedUncounted ==
  /\ phase = "try"
  /\ tries < FIRST_TRIES + SECOND_TRIES
  /\ hash' \in [Key -> Code]
  /\ phase' = "create"
  /\ nodes' = NewNodes
  /\ UNCHANGED <<reader, tries, i, prev, next, queue, bitmap, space, table>>

\* header->seed = rand32.Next(); CreateGraph resets the reader and the nodes.
NewSeed ==
  /\ phase = "try"
  /\ tries < FIRST_TRIES + SECOND_TRIES
  /\ tries' = tries + 1
  /\ hash' \in [Key -> Code]
  /\ phase' = "create"
  /\ nodes' = NewNodes
  /\ UNCHANGED <<reader, i, prev, next, queue, bitmap, space, table>>

\* Both rounds of tries are used up: Build returns nullptr.
OutOfTries ==
  /\ phase = "try"
  /\ tries = FIRST_TRIES + SECOND_TRIES
  /\ phase' = "failed"
  /\ UNCHANGED <<reader, tries, hash, i, graph, queue, bitmap, space, table>>

\* build(seed) returned false: the next seed, or Check after the first round.
\* The locals of the try are gone; what it wrote to memory stays there.
TryFails ==
  /\ i' = 0 /\ head' = 0 /\ tail' = 0 /\ j' = 0
  /\ IF tries = FIRST_TRIES /\ ~no_check
       THEN phase' = "check" /\ hash' = hash /\ space' = NewSpace
       ELSE phase' = "try" /\ hash' = NoHash /\ space' = space
  /\ UNCHANGED <<reader, tries, graph, free, book, bitmap, table>>

\* CreateGraph, one key: push edge i on the lists of its three slots.  After
\* the last key TearGraph starts with its book.
CreateGraph ==
  /\ phase = "create"
  /\ i < avail
  /\ nodes' = [s \in Slots |-> IF \E t \in Side : s = Vertex(i, t)
                                 THEN i ELSE nodes[s]]
  /\ next' = [next EXCEPT ![i] = [s \in Side |-> nodes[Vertex(i, s)]]]
  /\ prev' = [e \in Edge |-> [s \in Side |->
                IF e # i /\ e = nodes[Vertex(i, s)] THEN i
                ELSE IF e = i THEN kEnd ELSE prev[e][s]]]
  /\ IF i + 1 = N THEN phase' = "scan" /\ i' = N /\ book' = TearBook
                  ELSE phase' = phase /\ i' = i + 1 /\ book' = book
  /\ UNCHANGED <<reader, tries, hash, free, head, tail, j, bitmap, space, table>>

\* Mutant: the end of the reader is taken for the end of the keys.
CreateGraphShort ==
  /\ phase = "create"
  /\ i = avail
  /\ phase' = "scan" /\ i' = N /\ book' = TearBook
  /\ UNCHANGED <<reader, tries, hash, graph, free, head, tail, j, bitmap, space,
                 table>>

\* CreateGraph: source.Read() returned null.
CreateGraphNoKey ==
  /\ phase = "create"
  /\ i = avail
  /\ TryFails

\* Mutant: one link tells that an edge is alone.
AloneEither(p, n, e, s) == p[e][s] = kEnd \/ n[e][s] = kEnd

\* Edge e is the only one on its list of side s.
Alone(p, n, e, s) == p[e][s] = kEnd /\ n[e][s] = kEnd

\* free[tail++] = e, once per edge.
Push(e) ==
  /\ book' = book \union {e}
  /\ free' = [free EXCEPT ![tail] = e]
  /\ tail' = tail + 1

\* TearGraph, first loop, downwards: queue the edges alone at some slot.
TearScan ==
  /\ phase = "scan"
  /\ i > 0
  /\ IF \E s \in Side : Alone(prev, next, i-1, s)
       THEN Push(i-1)
       ELSE UNCHANGED <<book, free, tail>>
  /\ i' = i - 1
  /\ phase' = IF i = 1 THEN "peel" ELSE phase
  /\ UNCHANGED <<reader, tries, hash, graph, head, j, bitmap, space, table>>

\* Mutants: the neighbour is queued though it is in the queue already; the
\* link back from the next edge is left as it was.
TearPeelAgain ==
  /\ phase = "peel"
  /\ head < tail
  /\ LET e == free[head]
         p == prev[e][j]
         n == next[e][j]
         u == IF n # kEnd THEN n ELSE p
     IN  /\ next' = [x \in Edge |-> [s \in Side |->
                       IF x = p /\ s = j THEN n ELSE next[x][s]]]
         /\ prev' = [x \in Edge |-> [s \in Side |->
                       IF x = n /\ s = j THEN p ELSE prev[x][s]]]
         /\ IF u # kEnd /\ Alone(prev', next', u, j)
              THEN Push(u)
              ELSE UNCHANGED <<book, free, tail>>
  /\ IF j = 2 THEN j' = 0 /\ head' = head + 1
              ELSE j' = j + 1 /\ head' = head
  /\ UNCHANGED <<reader, phase, tries, hash, i, nodes, bitmap, space, table>>

TearPeelOneWay ==
  /\ phase = "peel"
  /\ head < tail
  /\ LET e == free[head]
         p == prev[e][j]
         n == next[e][j]
         u == IF n # kEnd THEN n ELSE p
     IN  /\ next' = [x \in Edge |-> [s \in Side |->
                       IF x = p /\ s = j THEN n ELSE next[x][s]]]
         /\ prev' = prev
         /\ IF u # kEnd /\ Alone(prev', next', u, j) /\ u \notin book
              THEN Push(u)
              ELSE UNCHANGED <<book, free, tail>>
  /\ IF j = 2 THEN j' = 0 /\ head' = head + 1
              ELSE j' = j + 1 /\ head' = head
  /\ UNCHANGED <<reader, phase, tries, hash, i, nodes, bitmap, space, table>>

\* TearGraph, second loop, one side of the edge at the head of the queue:
\* unlink it, and queue the neighbour that it leaves alone.
TearPeel ==
  /\ phase = "peel"
  /\ head < tail
  /\ LET e == free[head]
         p == prev[e][j]
         n == next[e][j]
         u == IF n # kEnd THEN n ELSE p
     IN  /\ next' = [x \in Edge |-> [s \in Side |->
                       IF x = p /\ s = j THEN n ELSE next[x][s]]]
         /\ prev' = [x \in Edge |-> [s \in Side |->
                       IF x = n /\ s = j THEN p ELSE prev[x][s]]]
         /\ IF u # kEnd /\ Alone(prev', next', u, j) /\ u \notin book
              THEN Push(u)
              ELSE UNCHANGED <<book, free, tail>>
  /\ IF j = 2 THEN j' = 0 /\ head' = head + 1
              ELSE j' = j + 1 /\ head' = head
  /\ UNCHANGED <<reader, phase, tries, hash, i, nodes, bitmap, space, table>>

\* TearGraph returns true: Mapping starts with a bitmap of ones and no slot
\* in its book, whose memory has been TearGraph's.
TearSucceeds ==
  /\ phase = "peel"
  /\ head = tail
  /\ tail = N
  /\ phase' = "map"
  /\ i' = N
  /\ bitmap' = MapBitmap /\ book' = MapBook
  /\ UNCHANGED <<reader, tries, hash, graph, free, head, tail, j, space, table>>

\* TearGraph returns false: some edges are never alone.
TearFails ==
  /\ phase = "peel"
  /\ head = tail
  /\ tail # N
  /\ TryFails

\* The first side of edge e whose slot is not booked; 3 if there is none.
FreeSide(e) == IF Vertex(e, 0) \notin book THEN 0
               ELSE IF Vertex(e, 1) \notin book THEN 1
               ELSE IF Vertex(e, 2) \notin book THEN 2 ELSE 3

\* The cell that makes the cells of an edge sum up to side s modulo 3.
CellFor(s, sum) == (6 + s - sum) % 3

\* Mapping, one edge: its first slot that is not booked gets the cell that
\* makes the three cells sum up to the side modulo 3; all three are booked.
Mapping ==
  /\ phase = "map"
  /\ i > 0
  /\ LET e == free[i-1]
         s == FreeSide(e)
         v == Vertex(e, s)
         sum == bitmap[Vertex(e, (s+1) % 3)] + bitmap[Vertex(e, (s+2) % 3)]
     IN  IF s = 3
           THEN phase' = "abort" /\ UNCHANGED <<bitmap, book>>
           ELSE /\ bitmap' = [bitmap EXCEPT
                                ![v] = SetBit2on11(@, CellFor(s, sum))]
                /\ book' = book \union {Vertex(e, t) : t \in Side}
                /\ phase' = phase
  /\ i' = i - 1
  /\ UNCHANGED <<reader, tries, hash, graph, free, head, tail, j, space, table>>

\* L_done: cumulative counts of valid slots per block.
FillTable ==
  /\ phase = "map"
  /\ i = 0
  /\ table' = [b \in Blocks |->
                IF HasTable
                  THEN CountValidSlot({s \in Slots : s < b * Block}) ELSE 0]
  /\ phase' = "done"
  /\ UNCHANGED <<reader, tries, hash, i, graph, queue, bitmap, space>>

\* Mutant: a place taken by another code is not probed past.
CheckInsertShort ==
  /\ phase = "check"
  /\ i < N
  /\ LET m == 2 * N
         c == hash[keys[i]]
         at(q) == ((c[0] % m) + q) % m
         hits == {q \in {0} : space[at(q)] \in {Vacant, CheckCode(c)}}
         pos == at(Min(hits))
     IN  IF i < avail /\ hits # {} /\ space[pos] = Vacant
           THEN /\ space' = [space EXCEPT ![pos] = CheckCode(c)]
                /\ UNCHANGED phase
           ELSE /\ phase' = "rejected"
                /\ UNCHANGED space
  /\ i' = i + 1
  /\ UNCHANGED <<reader, tries, hash, graph, queue, bitmap, table>>

\* Check, one key: probe at most n places of 2n, from u32[0] % 2n on.
CheckInsert ==
  /\ phase = "check"
  /\ i < N
  /\ LET m == 2 * N
         c == hash[keys[i]]
         at(q) == ((c[0] % m) + q) % m
         hits == {q \in 0 .. N-1 : space[at(q)] \in {Vacant, CheckCode(c)}}
         pos == at(Min(hits))
     IN  IF i < avail /\ hits # {} /\ space[pos] = Vacant
           THEN /\ space' = [space EXCEPT ![pos] = CheckCode(c)]
                /\ UNCHANGED phase
           ELSE /\ phase' = "rejected"
                /\ UNCHANGED space
  /\ i' = i + 1
  /\ UNCHANGED <<reader, tries, hash, graph, queue, bitmap, table>>

\* Check returned true: the second round of tries.  Its table was a block of
\* its own, or lay over the edges (36n bytes if a Word has four, the table 32n).
CheckPasses ==
  /\ phase = "check"
  /\ i = N
  /\ phase' = "try" /\ hash' = NoHash /\ i' = 0
  /\ \E g \in Junk :
       /\ space' = JunkSpace(g)
       /\ \/ UNCHANGED <<prev, next>>
          \/ prev' = JunkLinks(g) /\ next' = JunkLinks(g)
  /\ UNCHANGED <<reader, tries, nodes, queue, bitmap, table>>

Final == phase \in {"done", "failed", "rejected"}

\* Build has returned.
Returned == Final /\ UNCHANGED vars

Next ==
  \/ NewSeed \/ OutOfTries
  \/ CreateGraph \/ CreateGraphNoKey
  \/ TearScan \/ TearPeel \/ TearSucceeds \/ TearFails
  \/ Mapping \/ FillTable
  \/ CheckInsert \/ CheckPasses
  \/ Returned

Spec == Init /\ [][Next]_vars

\* Build runs in one thread and never waits.
FairSpec == Spec /\ WF_vars(Next)

-----------------------------------------------------------------------------
(* Properties.                                                             *)

ReaderOK == keys \in KeyLists /\ avail \in {N, N-1} /\ no_check \in BOOLEAN

ControlOK ==
  /\ phase \in {"try", "create", "scan", "peel", "map", "abort", "done",
                "check", "rejected", "failed"}
  /\ tries \in 0 .. FIRST_TRIES + SECOND_TRIES
  /\ hash \in [Key -> Code] \union {NoHash}
  /\ phase \notin {"try", "failed"} => hash # NoHash
  /\ i \in 0 .. N
  /\ phase = "create" => i \in Edge

GraphOK == /\ nodes \in [Slots -> 0 .. N]
           /\ prev \in [Edge -> [Side -> 0 .. N]]
           /\ next \in [Edge -> [Side -> 0 .. N]]

QueueOK == /\ free \in [Edge -> 0 .. N]
           /\ head \in 0 .. N /\ tail \in 0 .. N /\ head <= tail
           /\ j \in Side
           /\ book \in SUBSET (Edge \union Slots)

CellsOK == bitmap \in [Slots -> 0 .. 3]

TablesOK == /\ space \in [0 .. 2*N-1 -> [Side -> Nat]]
            /\ table \in [Blocks -> 0 .. 3*M]

\* Type invariant of Build's variables.
TypeOK == ReaderOK /\ ControlOK /\ GraphOK /\ QueueOK /\ CellsOK /\ TablesOK

\* The queue free[0 .. tail-1] lists every edge once whose bit is set in
\* TearGraph's book, so that tail++ never runs past free[n-1], whatever
\* earlier tries left in both.
QueueHoldsEachEdgeOnce ==
  /\ \A p \in 0 .. tail-1 : free[p] \in Edge
  /\ \A p, q \in 0 .. tail-1 : free[p] = free[q] => p = q
  /\ phase \in {"scan", "peel"} =>
       /\ \A p \in 0 .. tail-1 : free[p] \in book
       /\ \A e \in book \cap Edge : \E p \in 0 .. tail-1 : free[p] = e
       /\ Cardinality(book \cap Edge) = tail

\* Edge e has been unlinked from its list on side s by TearGraph.
Gone(e, s) == \E p \in Edge : free[p] = e /\ (p < head \/ (p = head /\ s < j))

\* Edge e is on the list of its slot on side s.
Linked(e, s) == (phase = "create" => e < i) /\ ~Gone(e, s)

\* n is the next older edge than e linked at the same slot, or the end mark.
OlderAt(e, s, n) ==
  \/ n = kEnd /\ \A x \in Edge : x < e /\ Linked(x, s) => Vertex(x, s) # Vertex(e, s)
  \/ /\ n \in Edge /\ n < e /\ Linked(n, s) /\ Vertex(n, s) = Vertex(e, s)
     /\ \A x \in Edge : n < x /\ x < e /\ Linked(x, s)
                         => Vertex(x, s) # Vertex(e, s)

\* p is the next younger edge than e linked at the same slot, or the end mark.
YoungerAt(e, s, p) ==
  \/ p = kEnd /\ \A x \in Edge : e < x /\ Linked(x, s) => Vertex(x, s) # Vertex(e, s)
  \/ /\ p \in Edge /\ e < p /\ Linked(p, s) /\ Vertex(p, s) = Vertex(e, s)
     /\ \A x \in Edge : e < x /\ x < p /\ Linked(x, s)
                         => Vertex(x, s) # Vertex(e, s)

\* The links CreateGraph builds and TearGraph edits in place always thread,
\* from young to old, exactly the edges not unlinked yet at each slot
\* (v.prev, v.next and g.nodes).
LinksThreadTheRest ==
  phase \in {"create", "scan", "peel"} =>
    \A e \in Edge, s \in Side : Linked(e, s) =>
      OlderAt(e, s, next[e][s]) /\ YoungerAt(e, s, prev[e][s])

\* Every edge TearGraph has queued has a slot that no edge queued after it,
\* and no edge never queued, touches: the fact Mapping relies on when it
\* walks free[] backwards.
QueuedEdgeHasPrivateSlot ==
  phase \in {"scan", "peel", "map"} =>
    \A p \in 0 .. tail-1 : \E s \in Side : \A x \in Edge :
      (\A q \in 0 .. p : free[q] # x) => Vertex(x, s) # Vertex(free[p], s)

\* Mapping's "assert(false)" cannot be reached: an edge always has a slot
\* that is not booked.
MappingNeverStuck == phase # "abort"

\* The assertion at L_done, "cnt == total": as many valid slots as keys.
ValidSlotsMatchTotal == phase = "done" => CountValidSlot(Slots) = N

\* A finished index is a minimal perfect hash: two keys of the map are never
\* located at the same position, and the positions are 0 .. total-1.
LocateIsPerfect ==
  phase = "done" =>
    /\ \A e \in Edge : Locate(keys[e]) \in 0 .. N-1
    /\ \A e, f \in Edge : e # f => Locate(keys[e]) # Locate(keys[f])

\* A reader that yields a key twice, or stops early, is never indexed, with
\* or without Check (no_check only skips the early answer).
BadInputNeverIndexed ==
  phase = "done" => avail = N /\ \A e, f \in Edge : e # f => keys[e] # keys[f]

\* Check gives up only on a short reader or on two equal codes: probing n of
\* 2n places never runs out of room.
CheckRejectsOnlyDuplicates ==
  phase = "rejected" =>
    \/ avail < N
    \/ \E e, f \in Edge : /\ e # f
                          /\ CheckCode(hash[keys[e]]) = CheckCode(hash[keys[f]])

\* Build terminates, whatever the seeds give.
BuildReturns == <>Final
=============================================================================
