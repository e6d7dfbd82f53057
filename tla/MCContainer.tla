---------------------------- MODULE MCContainer ----------------------------
(* Instance of Container for TLC; the bounds are in the configuration.     *)
EXTENDS Container
=============================================================================
