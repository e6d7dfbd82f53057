------------------------------ MODULE MCBuffer ------------------------------
(* Instance of Buffer for TLC, with a first array of one word.             *)
EXTENDS Buffer
=============================================================================
