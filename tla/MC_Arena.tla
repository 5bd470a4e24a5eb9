------------------------------ MODULE MC_Arena ------------------------------
(* An arena of 44 bytes, which the alignment padding can exhaust early, and *)
(* requests on both sides of a multiple of the alignment.                   *)
EXTENDS Arena
=============================================================================
