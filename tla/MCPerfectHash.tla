--------------------------- MODULE MCPerfectHash ---------------------------
(* Small instances of PerfectHash for TLC.                                 *)
EXTENDS PerfectHash, TLC

CONSTANTS FirstWords,   \* the values of u32[0]
          Duplicates    \* whether the reader may repeat a key

\* Codes: the first words let Check probe from several places, the last one
\* among them, and take two codes for one; the other two words only matter
\* modulo the section, and are equal for the even first words.
MCCode == {c \in [Side -> FirstWords \union {0, 1}] :
             /\ c[0] \in FirstWords /\ c[1] < M /\ c[2] < M
             /\ c[0] % 2 = 0 => c[1] = c[2]}

\* Memory in which every word is the number of the first edge, no cell is
\* free and all bits of the books are set, nothing a reset would leave; and
\* memory that looks as if edges without neighbours had been there.
MCJunk == {[word |-> 0, bits |-> Edge \union Slots, cell |-> 0],
           [word |-> N, bits |-> {}, cell |-> 3]}

MCKey == 0 .. N-1

\* All keys different, or the last one repeating the first.
MCKeyLists == {[e \in Edge |-> e]} \union
              (IF Duplicates THEN {[e \in Edge |-> e % (N-1)]} ELSE {})
=============================================================================
