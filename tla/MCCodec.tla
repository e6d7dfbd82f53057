------------------------------ MODULE MCCodec ------------------------------
(* Types and values for Codec.  The fields of Node are declared out of   *)
(* the order of their numbers and need two sections; Book has the          *)
(* containers.                                                             *)
EXTENDS Codec

NodeFields == <<
  Field(4, "string", 0, FALSE),
  Field(0, "i32", 0, FALSE),
  Field(9, "message", 1, FALSE),
  Field(2, "array", 2, TRUE),
  Field(1, "u64", 0, FALSE)>>

BookFields == <<
  Field(3, "array", 3, TRUE),
  Field(0, "map", 4, TRUE),
  Field(1, "bytes", 0, FALSE),
  Field(5, "bool", 0, FALSE),
  Field(2, "array", 7, FALSE)>>

MCTypes == <<
  Message(NodeFields),        \* 1
  Array("message", 1),        \* 2
  Array("string", 0),         \* 3
  Map("string", "u64", 0),    \* 4
  Map("i32", "message", 1),   \* 5
  Array("bool", 0),           \* 6
  Array("array", 3),          \* 7
  Map("u64", "bytes", 0),     \* 8
  Message(BookFields),        \* 9
  Array("i64", 0),            \* 10
  Array("map", 8)>>           \* 11

\* Strings of one, two and three words, one with a character of two bytes, and
\* one that cannot be encoded.
Strings == {<<>>, <<1>>, <<0, 2>>, <<1, 0, 1, 1>>, <<2, 2, 2>>}
BadString == <<1, 3>>

Leaf(s, n, u) == <<s, n, <<>>, <<>>, u>>
Leaves == {Leaf(s, <<0>>, <<0>>) : s \in Strings}
          \union {Leaf(<<>>, <<n>>, <<>>) : n \in {-128, -1, 3}}
          \union {Leaf(<<1>>, <<>>, <<u>>) : u \in {1, 65535}}
          \union {Leaf(BadString, <<>>, <<>>)}
Some == Leaf(<<1, 0, 1>>, <<-1>>, <<256>>)
Four == Leaf(<<>>, <<3>>, <<1>>)   \* of four words, which is not folded
Blank == Leaf(<<>>, <<0>>, <<>>)

\* n levels of messages below the root: the writer refuses the fourth.
Chain(n) == LET c[i \in 0 .. n] == [Blank EXCEPT ![2] = <<i>>,
                                                ![3] = IF i = 0 THEN <<>> ELSE c[i - 1]]
            IN  c[n]

Nodes == Leaves
         \union {[Some EXCEPT ![3] = x] : 
                   x \in {Blank, Four, Some, [Blank EXCEPT ![3] = Blank]}}
         \union {[x EXCEPT ![4] = <<y, Blank>>] : x, y \in {Blank, Some}}
         \union {[Blank EXCEPT ![4] = <<[Blank EXCEPT ![4] = <<Some>>]>>]}
         \union {Chain(n) : n \in 3 .. 4}

Long == <<1, 2, 3, 0, 1, 2, 3, 0>>

Wide == {[k \in {<<1>>, <<300>>} |-> IF k = <<1>> THEN <<2>> ELSE <<3, 1, 0, 2, 1, 0, 1>>],
         [k \in {<<7>>} |-> <<1>>], <<>>}
Books == {<<<<s, <<1>>>>, [k \in {s, <<0>>} |-> <<Len(s)>>], b, <<f>>, <<<<>>, <<s, s>>>>>> :
            s \in Strings, b \in {<<>>, <<2, 3, 1>>}, f \in 0 .. 1}
         \union {<<<<>>, <<>>, b, <<>>, <<>>>> : b \in {<<>>, Long}}

MCInputs ==
  ({1} \X Nodes)
  \union ({2} \X {<<>>, <<Blank>>, <<Some, Blank>>})
  \union ({5} \X {[k \in {<<-1>>, <<2>>} |-> x] : x \in {Blank, Some}})
  \union ({6} \X {<<>>, <<<<1>>>>, <<<<1>>, <<0>>, <<1>>>>})
  \union ({8} \X Wide) \union ({9} \X Books)
  \union ({10} \X {<<>>, <<<<-1>>>>, <<<<-32768>>, <<5>>, <<32767>>>>})
  \union ({11} \X {<<x>> : x \in Wide})
=============================================================================
