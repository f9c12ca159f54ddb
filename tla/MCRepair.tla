------------------------------ MODULE MCRepair ------------------------------
(***************************************************************************)
(* Small instances of Repair.  Files 1 and 2 are in HEAD and on the        *)
(* allowlist; file 3 is not: it is where an unexpected file can appear,    *)
(* and it is the forbidden one.                                            *)
(***************************************************************************)
EXTENDS RepairCli

CONSTANTS old, new, binary, none

MCFiles == {1, 2, 3}
MCContents == {old, new, binary}
MCTextual == {old, new}
MCHeadTree == [f \in MCFiles |-> IF f = 3 THEN none ELSE old]
Change(f, c) == [path |-> f, content |-> c]

\* Both files, given out of order; one; a file twice; a forbidden file.
MCProposals ==
    {[matches |-> TRUE, changes |-> <<Change(2, new), Change(1, new)>>],
     [matches |-> TRUE, changes |-> <<Change(1, new)>>],
     [matches |-> TRUE, changes |-> <<Change(1, new), Change(1, old)>>],
     [matches |-> TRUE, changes |-> <<Change(3, new)>>]}

TwoFilePatch ==
    [pre |-> [f \in MCFiles |-> IF f = 3 THEN none ELSE old],
     post |-> [f \in MCFiles |-> IF f = 3 THEN none ELSE new]]
\* The same targets with other bytes.
OtherPatch == [TwoFilePatch EXCEPT !.post[2] = old]
MCOtherPatches == {OtherPatch}

MCAllowlists == {{1, 2}, {1, 3}}
\* HEAD's files; one with text no patch may hold; one with uncommitted work.
MCTrees == {MCHeadTree, [MCHeadTree EXCEPT ![1] = binary], [MCHeadTree EXCEPT ![3] = new]}
MCCleanTree == {MCHeadTree}
=============================================================================
