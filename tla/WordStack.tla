----------------------------- MODULE WordStack -----------------------------
(***************************************************************************)
(* What Buffer (include/protocache/utils.h) promises its users: a stack of *)
(* words that is only extended and cut at its front.  A word is known by   *)
(* its place, its distance from the end, which never changes: serialized   *)
(* objects are referred to by place (Unit::Seg::pos) while the front       *)
(* moves.                                                                  *)
(***************************************************************************)
EXTENDS Integers

CONSTANTS
  Val,       \* values of a word
  MaxDelta,  \* bound on the words of one Expand
  MaxSize    \* bound on the words of the stack

VARIABLES
  len,   \* Size()
  word   \* word[p]: the word at place p, 1 .. len

vars == <<len, word>>

Init == len = 0 /\ word = [p \in 1 .. 0 |-> 0]

\* New words in front, not written yet; the others stay.
Grow(d) ==
  /\ len' = len + d
  /\ word' \in [1 .. len' -> Val]
  /\ \A p \in 1 .. len : word'[p] = word[p]

\* The first d words go.
Cut(d) ==
  /\ len' = len - d
  /\ word' = [p \in 1 .. len' |-> word[p]]

\* A word of the stack is written in place.
Write(p, v) ==
  /\ len' = len
  /\ word' = [word EXCEPT ![p] = v]

Next ==
  \/ \E d \in 0 .. MaxDelta : len + d <= MaxSize /\ Grow(d)
  \/ \E d \in 0 .. len : Cut(d)
  \/ \E p \in 1 .. len, v \in Val : Write(p, v)

Spec == Init /\ [][Next]_vars
=============================================================================
