------------------------------ MODULE MCRunner ------------------------------
(***************************************************************************)
(* A small instance of a command: a first process and one descendant that  *)
(* write three bytes to two pipes, of which the buffer keeps two.          *)
(***************************************************************************)
EXTENDS Runner
=============================================================================
