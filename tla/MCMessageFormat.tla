-------------------------- MODULE MCMessageFormat --------------------------
(* Instance of LazyMessage for TLC; the scale is in the configuration.     *)
EXTENDS LazyMessage
=============================================================================
