----------------------------- MODULE IndexSize -----------------------------
(***************************************************************************)
(* How large PerfectHashObject::Build (src/perfect_hash.cc) makes the      *)
(* index of n keys: three sections of slots, two bits for each slot in     *)
(* whole 64-bit blocks, and a table of one Word per block.                 *)
(***************************************************************************)
EXTENDS Integers

Section(n) == IF (n * 105 + 255) \div 256 < 10 THEN 10
              ELSE (n * 105 + 255) \div 256

\* Mutant: the bitmap is cut to whole blocks.
BitmapSizeCut(s) == 8 * ((s * 3) \div 32)

\* Bytes: whole 64-bit blocks of 32 slots.
BitmapSize(s) == 8 * ((s * 3 + 31) \div 32)

\* Mutant: 256 keys are given 8-bit words.
WordSizeLate(n) == IF n > 65535 THEN 4 ELSE IF n > 256 THEN 2 ELSE 1

\* sizeof(Word) of the Build that is used for n keys.
WordSize(n) == IF n > 65535 THEN 4 ELSE IF n > 255 THEN 2 ELSE 1

\* Build<Word>: "bytes", with a table if there are several blocks.
BuildBytes(n) ==
  LET bmsz == BitmapSize(Section(n))
  IN  8 + bmsz + (IF bmsz > 8 THEN (bmsz \div 8) * WordSize(n) ELSE 0)
=============================================================================
