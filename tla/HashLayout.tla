----------------------------- MODULE HashLayout -----------------------------
(***************************************************************************)
(* The stored form of a perfect hash index (src/perfect_hash.cc): how many *)
(* bytes PerfectHashObject::Build writes for a number of keys, what the    *)
(* constructor of PerfectHash makes of the same bytes when it only knows   *)
(* the number of keys, and the bytes Locate then reads.                    *)
(*                                                                         *)
(* The index is header (8 bytes), bitmap (2 bits per slot, whole 64-bit    *)
(* blocks) and, when there are several blocks, one Word per block.         *)
(***************************************************************************)
EXTENDS Divisor, IndexSize

CONSTANTS
  Totals,  \* numbers of keys the reader may announce
  Limit,   \* 1 << 28: Build refuses as many keys or more
  Codes    \* hash codes: triples of words

ASSUME LayoutAssumption ==
  /\ Totals \subseteq Nat
  /\ Limit \in Nat /\ Limit <= 268435456
  /\ Codes \subseteq [0 .. 2 -> 0 .. W-1]
  /\ \A n \in Totals : n < Limit => (n * 105 + 255) \div 256 < W
  /\ 10 < W

VARIABLES
  total,     \* source.Total()
  bytes,     \* data_size of the built index, 0 if Build gave up
  section,   \* the divisor of the builder
  stored,    \* bytes of the index that reach the reader
  phase,
  data,      \* PerfectHash: whether data_ is set
  data_size, \* PerfectHash::data_size_
  section_,  \* PerfectHash::section_
  code,      \* Hash128 of the key to locate
  touched    \* bytes of the index that Locate has read

vars == <<total, bytes, section, stored, phase, data, data_size, section_,
          code, touched>>

-----------------------------------------------------------------------------
\* Mutant: the reader expects 8-bit words for 256 keys.
ReaderBytesNarrow(n) ==
  LET bmsz == BitmapSize(Section(n))
  IN  8 + bmsz + (IF n > 65535 THEN bmsz \div 2
                  ELSE IF n > 256 THEN bmsz \div 4
                  ELSE IF n > 24 THEN bmsz \div 8 ELSE 0)

\* The constructor of PerfectHash: "bytes" for n > 1 keys.
ReaderBytes(n) ==
  LET bmsz == BitmapSize(Section(n))
  IN  8 + bmsz + (IF n > 65535 THEN bmsz \div 2
                  ELSE IF n > 255 THEN bmsz \div 4
                  ELSE IF n > 24 THEN bmsz \div 8 ELSE 0)

\* Scratch memory of Build<Word>: edges, free, nodes and book, in bytes; and
\* the part of it that is left for book.
BookBytes(n) == (3 * Section(n) + 7) \div 8
ScratchBytes(n) ==
  9 * WordSize(n) * n + WordSize(n) * n + 3 * WordSize(n) * Section(n)
    + BookBytes(n)

\* Check uses the scratch memory for its 2n codes of 16 bytes if they fit.
CheckReusesScratch(n) == ScratchBytes(n) \div 16 > 2 * n

-----------------------------------------------------------------------------
Init ==
  /\ total \in Totals
  /\ bytes = 0 /\ section = 0 /\ stored = 0 /\ phase = "start"
  /\ data = FALSE /\ data_size = 0 /\ section_ = 0
  /\ code = [s \in 0 .. 2 |-> 0] /\ touched = {}

\* PerfectHashObject::Build: too many keys, or an index of the right Word.
\* (That Build<Word> finds an index is PerfectHash's concern.)
Build ==
  /\ phase = "start"
  /\ IF total >= Limit
       THEN bytes' = 0 /\ section' = 0 /\ phase' = "refused"
       ELSE /\ bytes' = IF total > 1 THEN BuildBytes(total) ELSE 4
            /\ section' = IF total > 1 THEN Section(total) ELSE 0
            /\ phase' = "built"
  /\ UNCHANGED <<total, stored, data, data_size, section_, code, touched>>

\* The reader gets the index, whole or cut.
Store ==
  /\ phase = "built"
  /\ stored' \in {bytes, bytes - 1, bytes - WordSize(total), 4, 3}
  /\ stored' <= bytes
  /\ phase' = "stored"
  /\ UNCHANGED <<total, bytes, section, data, data_size, section_, code, touched>>

\* PerfectHash(data, size): size is the number of bytes stored, or 0 for
\* unknown, which callers use on whole messages only.
Open ==
  /\ phase = "stored"
  /\ \E size \in {stored} \union (IF stored = bytes THEN {0} ELSE {}) :
       IF \/ size # 0 /\ size < 4
          \/ total > 1 /\ size # 0 /\ size < ReaderBytes(total)
         THEN UNCHANGED <<data, data_size, section_>>
         ELSE /\ data' = TRUE
              /\ data_size' = IF total > 1 THEN ReaderBytes(total) ELSE 4
              /\ section_' = IF total > 1 THEN Section(total) ELSE 0
  /\ phase' = "open"
  /\ UNCHANGED <<total, bytes, section, stored, code, touched>>

\* A slot of the builder (Divisor) and of the reader (operator %).
BuilderSlot(s) == Mod(section, code[s]) + s * section
ReaderSlot(s) == (code[s] % section_) + s * section_

\* Locate: the bytes of the cells, of the block and of the table entry of
\* slot sl, where one of the three slots is taken.
CellByte(sl) == 8 + sl \div 4
BlockBytes(sl) == 8 + 8 * (sl \div 32) .. 8 + 8 * (sl \div 32) + 7
TableBytes(sl) ==
  LET w == WordSize(total)
      at == 8 + BitmapSize(section_) + w * (sl \div 32)
  IN  IF total > 24 THEN at .. at + w - 1 ELSE {}

\* The reader locates a key, of the map or not.
Locate ==
  /\ phase = "open"
  /\ data /\ total > 1
  /\ code' \in Codes
  /\ phase' = "located"
  /\ LET slots == {(code'[s] % section_) + s * section_ : s \in 0 .. 2}
     IN  \E slot \in slots :
           touched' = 0 .. 7 \union {CellByte(sl) : sl \in slots}
                        \union BlockBytes(slot) \union TableBytes(slot)
  /\ UNCHANGED <<total, bytes, section, stored, data, data_size, section_>>

\* Locate for an index that was rejected, or with one key at most.
LocateAtOnce ==
  /\ phase = "open"
  /\ ~data \/ total < 2
  /\ touched' = IF data THEN 0 .. 3 ELSE {}
  /\ phase' = "found"
  /\ UNCHANGED <<total, bytes, section, stored, data, data_size, section_, code>>

Final == phase \in {"refused", "located", "found"} /\ UNCHANGED vars

Next == Build \/ Store \/ Open \/ Locate \/ LocateAtOnce \/ Final

Spec == Init /\ [][Next]_vars

-----------------------------------------------------------------------------
(* Properties.                                                             *)

\* The reader derives the size of the index from the number of keys alone, by
\* thresholds (24, UINT8_MAX, UINT16_MAX) that appear twice in the code, and
\* must find what the builder wrote; a cut index is refused when its size is
\* known.
ReaderAgreesWithBuilder ==
  phase \in {"open", "located", "found"} =>
    /\ data <=> stored = bytes
    /\ data => data_size = bytes /\ section_ = section

\* Locate never reads outside the bytes of the index, for any code.
LocateStaysInside ==
  data => touched \subseteq 0 .. bytes - 1

\* The builder reduces codes with Divisor, the reader with %: they find the
\* same slots.
SlotsAgree ==
  phase = "located" => \A s \in 0 .. 2 : BuilderSlot(s) = ReaderSlot(s)

\* The scratch memory suffices: book, sized for the slots, also holds one bit
\* per edge in TearGraph, the 2n codes of Check fit where it reuses the
\* memory, and edges and slots within a section fit in a Word ("assert(
\* m.value() <= kEnd && n <= kEnd)").
ScratchSuffices ==
  phase = "built" /\ total > 1 =>
    /\ (total + 7) \div 8 <= BookBytes(total)
    /\ CheckReusesScratch(total) => 32 * total <= ScratchBytes(total)
    /\ WordSize(total) = 1 => total <= 255 /\ section <= 255
    /\ WordSize(total) = 2 => total <= 65535 /\ section <= 65535
=============================================================================
