------------------------- MODULE MCKnowledgeSearch -------------------------
(***************************************************************************)
(* The lesson store for TLC: two invocations at a time, one Fix Record,    *)
(* and a search, for the lessons with evidence or for the history of all,  *)
(* which prefers those without it.                                         *)
(***************************************************************************)
EXTENDS KnowledgeSearch, TLC

CONSTANTS p1, p2, fix

MCProcs == {p1, p2}
MCFixes == {fix}
MCQueries ==
    {[history |-> FALSE, weights |-> [text \in {{fix}} |-> 1]],
     [history |-> TRUE, weights |-> [text \in SUBSET {fix} |-> IF text = {} THEN 3 ELSE 1]]}
Symmetry == Permutations(MCProcs)

\* While a search is under way, one invocation is, and the Fix Record is there.
Calm ==
    at # "idle" => valid = Fixes /\ Cardinality({p \in Procs : pc[p] # "idle"}) <= 1
=============================================================================
