-------------------------- MODULE MCDescriptorPool --------------------------
(* Four files of one package: types that are used before they are          *)
(* registered, in a file that comes later or never; a name that two files  *)
(* define; a message that cannot be converted behind one that can; and a   *)
(* type name that is found in two scopes.                                  *)
EXTENDS DescriptorPool, TLC

MCIds == {"p", "a", "b", "c", "d", "e"}
MCProtos == {"A", "A.C", "B", "B2", "C", "D", "bad"}
MCFiles == {"f", "g", "h", "i"}
MCNameOf == [q \in MCProtos |->
  CASE q = "A" -> "a" [] q = "B" -> "b" [] q = "B2" -> "b" [] q = "C" -> "c"
    [] q = "A.C" -> "c" [] q = "D" -> "d" [] q = "bad" -> "e"]
MCNestedIn == [q \in MCProtos |-> IF q = "A" THEN <<"A.C">> ELSE <<>>]
MCEnumsOf == [q \in MCProtos \union MCFiles |->
                CASE q = "A" -> {"e"} [] q = "g" -> {"d"} [] OTHER -> {}]
MCFieldsOf ==
  ("A" :> [x |-> <<"b">>, y |-> <<"c">>, z |-> <<"e">>])
  @@ ("A.C" :> [x |-> <<>>, y |-> <<"p", "d">>])
  @@ ("B" :> [x |-> <<"a", "c">>])
  @@ ("B2" :> [x |-> <<"c">>])
  @@ ("C" :> [x |-> <<"d">>, y |-> <<"b">>])
  @@ ("D" :> [x |-> <<"a", "b">>])
  @@ ("bad" :> <<>>)
MCValid == MCProtos \ {"bad"}
MCPackage == [q \in MCFiles |-> <<"p">>]
MCMessages == ("f" :> <<"A">>) @@ ("g" :> <<"B">>) @@ ("h" :> <<"C", "B2">>)
              @@ ("i" :> <<"D", "bad">>)
MCAsked == {<<"p", "a">>, <<"p", "c">>, <<"p", "a", "c">>, <<"p", "d">>, <<"p", "e">>}
=============================================================================
