------------------------------ MODULE MCBuffer ------------------------------
(***************************************************************************)
(* TLC instance of Buffer: chunks of up to three bytes in a vector of four.*)
(***************************************************************************)
EXTENDS Buffer
=============================================================================
