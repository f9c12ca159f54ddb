----------------------------- MODULE RunBoundary -----------------------------
(***************************************************************************)
(* What the registry promises, and nothing of how: the per-project         *)
(* run-state boundary.  A project belongs to at most one recorded run.  It *)
(* is taken from nobody who is alive: it changes hands only when its owner *)
(* has given it back or has gone.  The promise lasts as long as the lock   *)
(* file can be trusted; afterwards nothing is promised.                    *)
(***************************************************************************)
CONSTANTS Procs, Projects, Nobody

VARIABLES
    owner,      \* the recorded run of each project, or Nobody
    alive,      \* processes that exist
    trusted     \* nobody has removed the lock of a live holder

vars == <<owner, alive, trusted>>

Init ==
    /\ owner \in [Projects -> Procs \union {Nobody}]
    /\ alive \subseteq Procs
    /\ trusted = TRUE

\* What p may do to the owner of project j in one update.
MayBecome(p, j, o) ==
    \/ o = owner[j]
    \/ owner[j] \notin alive /\ o \in {Nobody, p}
    \/ owner[j] = p /\ o = Nobody

Update(p) ==
    /\ p \in alive
    /\ owner' \in [Projects -> Procs \union {Nobody}]
    /\ trusted => \A j \in Projects : MayBecome(p, j, owner'[j])
    /\ UNCHANGED <<alive, trusted>>

Enter(p) == alive' = alive \union {p} /\ UNCHANGED <<owner, trusted>>
Leave(p) == alive' = alive \ {p} /\ UNCHANGED <<owner, trusted>>

Distrust == trusted' = FALSE

Next == Distrust \/ \E p \in Procs : Update(p) \/ Enter(p) \/ Leave(p)

Spec == Init /\ [][Next]_vars
=============================================================================
