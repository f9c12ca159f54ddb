----------------------------- MODULE MCEvidence -----------------------------
(* Two verifications, one check, a tree that is repaired, broken or rebuilt, *)
(* and one reader of the index.                                              *)
EXTENDS Evidence

CONSTANTS r1, r2, b1

MCRuns == {r1, r2}
MCReaders == {b1}
MCChecks == {"test"}
MCPlans == {MCChecks}
MCSources == {"broken", "fixed"}
MCIgnored == {"cache"}
MCIdentity == [s \in MCSources |-> "app"]
MCVerdict == [c \in MCChecks |-> [t \in [source : MCSources, ignored : MCIgnored] |->
    [status |-> IF t.source = "fixed" THEN "PASS" ELSE "FAIL", blocking |-> t.source # "fixed"]]]
=============================================================================
