--------------------------- MODULE MCWasmSession ---------------------------
(* A message Node with a number and a list of Nodes, which is an array      *)
(* schema of its own; the rest of the scale is in the configuration.        *)
EXTENDS WasmSession

MCTypes == {"Node", "List"}
MCKindOf == [t \in MCTypes |-> IF t = "List" THEN "array" ELSE "message"]
MCFieldsOf == [t \in MCTypes |->
  IF t = "List" THEN <<Field("Node", TRUE)>>
                ELSE <<Field(NoType, FALSE), Field("List", TRUE)>>]
=============================================================================
