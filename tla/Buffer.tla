------------------------------- MODULE Buffer -------------------------------
(***************************************************************************)
(* class Buffer (include/protocache/utils.h, src/utils.cc): an array that  *)
(* is filled from its end towards its start and replaced by a larger one   *)
(* when the front reaches the start.                                       *)
(***************************************************************************)
EXTENDS Integers

CONSTANTS
  Val,        \* values of a word; memory that was never written holds any
  Initial,    \* 8: words of the first array, at least
  Large,      \* 256*1024: from this size on the array grows by half only
  MaxDelta,   \* bound on the words of one Expand
  MaxSize     \* bound on the words in use

ASSUME BufferAssumption ==
  /\ Initial \in Nat \ {0} /\ Large \in Nat
  /\ MaxDelta \in Nat /\ MaxSize \in Nat
  /\ Val # {}

VARIABLES
  null,   \* data_ == nullptr
  data,   \* the array data_, indexes 0 .. size_-1
  size_,  \* its words
  off_    \* index of the front

vars == <<null, data, size_, off_>>

Size == size_ - off_

Max2(a, b) == IF a >= b THEN a ELSE b

\* Mutant: the contents are copied to the start of the new array.
MovedLow(d, size, off) ==
  [i \in 0 .. size - 1 |-> IF i < Size THEN data[off_ + i] ELSE d[i]]

\* A fresh array d of size words with the contents copied to its end.
Moved(d, size, off) ==
  [i \in 0 .. size - 1 |-> IF i >= off THEN data[off_ + i - off] ELSE d[i]]

\* The size DoExpand asks for.
NewSize(delta) ==
  Max2(IF size_ >= Large THEN (size_ * 3) \div 2 ELSE size_ * 2, size_ + delta)

Init ==
  /\ null = TRUE
  /\ size_ = 0 /\ off_ = 0
  /\ data = [i \in 0 .. -1 |-> 0]

\* Expand, with room in front.
ExpandInPlace(delta) ==
  /\ off_ >= delta
  /\ off_' = off_ - delta
  /\ UNCHANGED <<null, data, size_>>

\* DoExpand: the first array.
ExpandFirst(delta) ==
  /\ off_ < delta
  /\ null
  /\ size_' = Max2(delta, Initial)
  /\ data' \in [0 .. size_' - 1 -> Val]
  /\ off_' = size_' - delta
  /\ null' = FALSE

\* DoExpand: a larger array.
ExpandLarger(delta) ==
  /\ off_ < delta
  /\ ~null
  /\ size_' = NewSize(delta)
  /\ \E d \in [0 .. size_' - 1 -> Val] : data' = Moved(d, size_', size_' - Size)
  /\ off_' = size_' - Size - delta
  /\ UNCHANGED null

Expand(delta) ==
  ExpandInPlace(delta) \/ ExpandFirst(delta) \/ ExpandLarger(delta)

\* Shrink; "assert(delta <= Size())" is the caller's duty.
Shrink(delta) ==
  /\ delta <= Size
  /\ off_' = off_ + delta
  /\ UNCHANGED <<null, data, size_>>

Clear ==
  /\ off_' = size_
  /\ UNCHANGED <<null, data, size_>>

\* Reserve and DoReserve.
Reserve(size) ==
  /\ size > size_
  /\ \E d \in [0 .. size - 1 -> Val] : data' = Moved(d, size, size - Size)
  /\ size_' = size
  /\ off_' = size - Size
  /\ null' = FALSE

\* *At(p) = v, for a place in use (Put writes the words it got from Expand).
WriteAt(p, v) ==
  /\ data' = [data EXCEPT ![size_ - p] = v]
  /\ UNCHANGED <<null, size_, off_>>

Next ==
  \/ \E delta \in 0 .. MaxDelta : Size + delta <= MaxSize /\ Expand(delta)
  \/ \E delta \in 0 .. Size : Shrink(delta)
  \/ Clear
  \/ \E size \in 0 .. MaxSize : Reserve(size)
  \/ \E p \in 1 .. Size, v \in Val : WriteAt(p, v)

Spec == Init /\ [][Next]_vars

-----------------------------------------------------------------------------
(* Properties.                                                             *)

ArrayOK ==
  size_ \in Nat /\ off_ \in 0 .. size_ /\ data \in [0 .. size_ - 1 -> Val]

NullOK == null \in BOOLEAN /\ (null => size_ = 0)

\* Type invariant: the front lies in the array, and there is one if it has
\* words.
TypeOK == ArrayOK /\ NullOK

\* The words in use by place: At(p) for p = 1 .. Size().
Contents == [p \in 1 .. Size |-> data[size_ - p]]

\* The buffer is the stack it promises: growing, whether in place or into a
\* new array, and reserving never change a word in use or its place.
Stack == INSTANCE WordStack WITH len <- Size, word <- Contents
ImplementsStack == Stack!Spec
=============================================================================
