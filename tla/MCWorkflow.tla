----------------------------- MODULE MCWorkflow -----------------------------
(***************************************************************************)
(* A small instance of a live verification: five events of either kind,    *)
(* room for two in the output buffer, and a journal of at most seven bytes *)
(* that is empty at first, or too long and ends within a line.             *)
(***************************************************************************)
EXTENDS Workflow

Left == {<<>>, Line(-4) \o Line(-3) \o Line(-2) \o Line(-1) \o SubSeq(Line(0), 1, 1)}
=============================================================================
