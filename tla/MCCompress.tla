----------------------------- MODULE MCCompress -----------------------------
(* Instance of Compress for TLC, with literals and runs of two bytes.      *)
EXTENDS Compress
=============================================================================
