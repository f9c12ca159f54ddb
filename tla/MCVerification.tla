--------------------------- MODULE MCVerification ---------------------------
(***************************************************************************)
(* Small instances of a verification.  Two projects under every policy of  *)
(* a kind that tells results apart: an environment check, the tests that   *)
(* need it and coverage that needs the tests, behind one lock or none.     *)
(* Without a policy, every way in which three checks may depend on each    *)
(* other and lock each other out; and five checks of which three may run   *)
(* together in two slots.                                                  *)
(***************************************************************************)
EXTENDS Verification

Five == 1..5
Locks == {"gradle", "go"}

O(s, b, cov) == [status |-> s, blocking |-> b, coverage |-> cov]
Verdicts == {O("PASS", FALSE, {}), O("PASS", FALSE, {40}), O("PASS", FALSE, {75}),
             O("NOT_TESTED", FALSE, {}), O("WARN", TRUE, {}), O("FAIL", TRUE, {})}

Project(checks, requires, uses, timed) ==
    [checks |-> checks, timed |-> timed, uses |-> uses,
     requires |-> [c \in Five |-> IF c \in DOMAIN requires THEN requires[c] ELSE {}]]
Each(locks) == [c \in Five |-> locks]

Android == {Project({1, 2, 5}, [c \in {2, 5} |-> {IF c = 2 THEN 1 ELSE 2}], Each({"gradle"}), {5}),
            Project({1, 2}, [c \in {2} |-> {1}], Each({}), {})}

Small ==
    {Project(checks, requires, uses, {3}) :
        checks \in {1..2, 1..3},
        requires \in [1..3 -> SUBSET (1..3)],
        uses \in {Each({}), Each({"gradle"}),
                 [c \in Five |-> IF c = 2 THEN {"gradle", "go"} ELSE {"go"}],
                 [c \in Five |-> IF c = 1 THEN {"gradle"} ELSE {"go"}]}}
SmallPlans == {pl \in Small : Acyclic(pl) /\ \A c \in Five \ pl.checks : pl.requires[c] = {}}

\* A build, three checks that need it and one that needs two of those, all but
\* the fourth behind one lock or none.
WidePlans ==
    {Project(Five, [c \in 2..5 |-> IF c = 5 THEN {3, 4} ELSE {1}],
             [c \in Five |-> IF c = 4 THEN {} ELSE l], {2}) : l \in {{"gradle"}, {}}}

Offered == Android \union SmallPlans \union WidePlans

Policy(declared, disabled, required, blocking, minimum, preferred) ==
    [declared |-> declared, disabled |-> disabled, required |-> required,
     blocking |-> Each(blocking), minimum |-> minimum, preferred |-> preferred]
NoPolicy == Policy({}, {}, {}, "unset", {}, {})
Policies ==
    {Policy(d, off, on, b, l[1], l[2]) :
        d \in {{}, {5}}, off \in {{}, {1}, {2, 5}}, on \in {{}, {2}, {1, 5}},
        b \in {"unset", "yes", "no"},
        l \in {<<{}, {}>>, <<{70}, {80}>>, <<{80}, {70}>>}}

\* The checks that are left depend on what is disabled alone.
Selections ==
    {FilterChecks(p, [NoPolicy EXCEPT !.disabled = off]) : p \in Offered, off \in {{}, {1}, {2, 5}}}

\* The policies are tried on the projects of this kind alone.
MCInit == VInit /\ (specs \in Android \/ config = NoPolicy)
MCSpec == MCInit /\ [][VNext]_allVars /\ VFairness
=============================================================================
