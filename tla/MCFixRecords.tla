---------------------------- MODULE MCFixRecords ----------------------------
(* A check that fails before the repair and passes after it, two runs, and   *)
(* two invocations that may record, list and fail again and again: two       *)
(* candidates share an ID, and two refer to each other.                      *)
EXTENDS FixRecords, TLC

CONSTANTS r1, r2, p1, p2, A, B

MCRuns == {r1, r2}
MCCalls == {p1, p2}
MCReaders == {}
MCIDs == {A, B}
MCChecks == {"test"}
MCPlans == {MCChecks}
MCSources == {"broken", "fixed"}
MCIgnored == {"cache"}
MCIdentity == [s \in MCSources |-> "app"]
MCVerdict == [c \in MCChecks |-> [t \in [source : MCSources, ignored : MCIgnored] |->
    [status |-> IF t.source = "fixed" THEN "PASS" ELSE "FAIL", blocking |-> t.source # "fixed"]]]

C(i, related) ==
    [id |-> i, project |-> "app", pre |-> r1, post |-> r2, checks |-> MCChecks,
     patch |-> "none", related |-> related, supersedes |-> {}, sound |-> TRUE]
MCCandidates == {C(A, {}), C(B, {A}), C(A, {B})}
Symmetry == Permutations(MCCalls)
=============================================================================
