----------------------------- MODULE MCRegistry -----------------------------
(***************************************************************************)
(* Small instances of the registry: two project identifiers, a directory   *)
(* that both may claim, one that only the second has, and one that is gone.*)
(***************************************************************************)
EXTENDS Registry

CONSTANTS p1, p2

X == "x"
Y == "y"
At(j, d) == [project |-> j, path |-> d]
In(state, d) == [state |-> state, path |-> d, run |-> Nobody, pid |-> Nobody]

TwoProcs == {p1, p2}
BothProjects == {X, Y}
AllPaths == {"a", "b", "moved"}
Vanished == {"moved"}

\* X and Y found in directories of their own, and Y in that of X.
ContestedJobs == {At(X, "a"), At(Y, "b"), At(Y, "a")}
SameJob == {At(X, "a")}

\* No registry yet; X left running by an invocation that has died, and Y
\* registered where it no longer is.
NoRegistry == {Empty}
Registries == {Empty, [Empty EXCEPT ![X] = In("running", "a"), ![Y] = In("finished", "moved")]}
=============================================================================
