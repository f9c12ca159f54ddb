---------------------------- MODULE Verification ----------------------------
(***************************************************************************)
(* verify.ProjectWithOptions: a policy selects the checks, the scheduler   *)
(* runs them, the policy is applied to their results, and the report, its  *)
(* overall status and the exit code are what a pipeline acts on.           *)
(*                                                                         *)
(* Abstractions.  What happens before there is a plan (no project, no      *)
(* technology, no readable policy) is one refusal.  Optional numbers are   *)
(* sets with at most one member.  Provenance and events are left out.      *)
(***************************************************************************)
EXTENDS Scheduler

CONSTANTS
    Projects,   \* the checks that adapters offer, as plans
    Configs,    \* merged policies
    Coverage    \* the check "android-coverage"

Config == [declared : SUBSET Checks, disabled : SUBSET Checks, required : SUBSET Checks,
           blocking : [Checks -> {"unset", "yes", "no"}],
           minimum : SUBSET Nat, preferred : SUBSET Nat]

-----------------------------------------------------------------------------
(* Package policy: which checks are left, and what it makes of a result.   *)

Valid(specs, cfg) ==
    /\ cfg.declared \subseteq specs.checks
    /\ specs.checks \cap cfg.required \cap cfg.disabled = {}
    /\ Coverage \in specs.checks =>
          /\ \A m \in cfg.minimum \union cfg.preferred : m <= 100
          /\ \A m \in cfg.minimum, p \in cfg.preferred : m <= p

\* What is not disabled, without the checks that miss a dependency, until no
\* check misses one: the largest set of enabled checks that is closed.
Kept(specs, cfg) ==
    UNION {S \in SUBSET (specs.checks \ cfg.disabled) :
              \A c \in S : specs.requires[c] \subseteq S}

FilterChecks(specs, cfg) == [specs EXCEPT !.checks = Kept(specs, cfg)]

ASSUME ProjectsAssumption == Projects \subseteq Plan /\ \A specs \in Projects : Acyclic(specs)
ASSUME ConfigsAssumption == Configs \subseteq Config
ASSUME FilterAssumption ==
    \A specs \in Projects, cfg \in Configs : FilterChecks(specs, cfg) \in Plans
ASSUME CoverageAssumption ==
    /\ \A o \in Outcomes : o.coverage \subseteq Nat
    /\ \A specs \in Projects, c \in Checks : Coverage \notin specs.requires[c]

ASSUME CleanPassAssumption == \A o \in Outcomes : o.blocking => o.status # "PASS"

\* A check of the report: its status, and whether it stops the pipeline.
Entry == [status : Status, blocking : BOOLEAN]

ASSUME EntryAssumption == None \notin Entry

Unavailable(s) == s \in {"NOT_TESTED", "SKIP"}

\* applyCoverageThreshold.
Measured(r, cfg) ==
    LET below(limits) == \E p \in r.outcome.coverage, m \in limits : p < m
    IN  [status |-> IF below(cfg.minimum) THEN "FAIL"
                    ELSE IF below(cfg.preferred) THEN "WARN" ELSE "PASS",
         blocking |-> below(cfg.minimum)]

\* Mutant of Applied: what policy says of blocking has the last word.
AppliedLast(c, r, cfg) ==
    [status |-> r.status,
     blocking |-> CASE cfg.blocking[c] = "yes" /\ r.status # "PASS" -> TRUE
                    [] cfg.blocking[c] = "no" /\ r.status # "PASS" -> FALSE
                    [] OTHER -> r.outcome.blocking \/ (c \in cfg.required /\ Unavailable(r.status))]

\* Apply: thresholds, then the policy on blocking, then on missing evidence.
Applied(c, r, cfg) ==
    LET thresholds == c = Coverage /\ cfg.minimum \union cfg.preferred # {}
        e == IF thresholds /\ r.outcome.coverage # {} THEN Measured(r, cfg)
             ELSE [status |-> r.status, blocking |-> r.outcome.blocking]
        asked == IF cfg.blocking[c] # "unset" /\ e.status # "PASS"
                 THEN cfg.blocking[c] = "yes" ELSE e.blocking
    IN  [e EXCEPT !.blocking = asked \/ (c \in cfg.required /\ Unavailable(e.status))]

-----------------------------------------------------------------------------
VARIABLES
    phase,      \* configure, run, write, ended
    specs,      \* what the adapters offer
    config,
    core,       \* technology-detection and what stands for a refusal
    report,     \* the entries of the checks of the plan
    overall,
    saved       \* evidence.Write succeeded

vvars == <<phase, specs, config, core, report, overall, saved>>
allVars == <<vars, vvars>>

VInit ==
    /\ Init
    /\ phase = "configure"
    /\ specs \in Projects
    /\ config \in Configs
    /\ core = [status |-> "PASS", blocking |-> FALSE]
    /\ report = [c \in Checks |-> None]
    /\ overall = "PASS"
    /\ saved = FALSE

\* Detection, policy loading, policy validation: the report is an error, or
\* says that there is no evidence.
Refuse ==
    /\ phase = "configure" /\ phase' = "write"
    /\ \/ core' = [status |-> "ERROR", blocking |-> FALSE]
       \/ core' = [status |-> "NOT_TESTED", blocking |-> TRUE]
    /\ overall' = core'.status
    /\ UNCHANGED <<vars, specs, config, report, saved>>

Configure ==
    /\ phase = "configure"
    /\ Valid(specs, config)
    /\ Begin(FilterChecks(specs, config))
    /\ phase' = "run"
    /\ UNCHANGED <<specs, config, core, report, overall, saved>>

RunChecks ==
    /\ phase = "run" /\ Work
    /\ UNCHANGED vvars

Severity(s) == CASE s \in {"PASS", "SKIP"} -> 0 [] s = "WARN" -> 1
                 [] s = "NOT_TESTED" -> 2 [] s = "FAIL" -> 3 [] s = "ERROR" -> 4

\* overall: the most severe of the statuses, PASS among them.
Worst(statuses) ==
    CHOOSE s \in statuses \ {"SKIP"} : \A t \in statuses : Severity(t) <= Severity(s)

Apply ==
    /\ phase = "run" /\ pc = "done" /\ phase' = "write"
    /\ report' = [c \in Checks |->
          IF c \in plan.checks THEN Applied(c, results[c], config) ELSE None]
    /\ overall' = Worst({"PASS"} \union {report'[c].status : c \in plan.checks})
    /\ UNCHANGED <<vars, specs, config, core, saved>>

\* Mutant of Finalize: a report that cannot be written keeps its status.
FinalizeQuietly ==
    /\ phase = "write" /\ phase' = "ended"
    /\ saved' \in BOOLEAN
    /\ UNCHANGED <<vars, specs, config, core, report, overall>>

\* finalize: the evidence is written, or the report is an error.
Finalize ==
    /\ phase = "write" /\ phase' = "ended"
    /\ \/ saved' = TRUE /\ UNCHANGED <<core, overall>>
       \/ /\ saved' = FALSE
          /\ core' = [status |-> "ERROR", blocking |-> FALSE] /\ overall' = "ERROR"
    /\ UNCHANGED <<vars, specs, config, report>>

\* The caller's context: verify runs without one that can be cancelled, the
\* repair session under its own.
Interrupt == phase # "ended" /\ Cancel /\ UNCHANGED vvars

Ended == phase = "ended" /\ UNCHANGED allVars

\* ExitCode.
ExitCode ==
    LET entries == {core} \union {report[c] : c \in {d \in Checks : report[d] # None}}
        stops(e) == e.status = "FAIL" \/ (e.blocking /\ e.status # "PASS")
    IN  IF overall = "ERROR" THEN 2 ELSE IF \E e \in entries : stops(e) THEN 1 ELSE 0

VNext == Refuse \/ Configure \/ RunChecks \/ Apply \/ Finalize \/ Interrupt \/ Ended

VSpec == VInit /\ [][VNext]_allVars

\* The verification's goroutine goes on, the scheduler's loop and goroutines are
\* scheduled, and every check returns: each command it runs has a hard timeout
\* of its own.
VFairness ==
    /\ WF_allVars(Refuse \/ Configure \/ Apply \/ Finalize)
    /\ WF_allVars((Iterate \/ NoProgress \/ SkipBlocked \/ StartBatch \/ CollectBatch)
                  /\ UNCHANGED vvars)
    /\ \A c \in Checks : /\ WF_allVars(Acquire(c) /\ UNCHANGED vvars)
                         /\ WF_allVars(Return(c) /\ UNCHANGED vvars)

VFairSpec == VSpec /\ VFairness

-----------------------------------------------------------------------------
(* Properties.                                                             *)

VTypeOK ==
    /\ phase \in {"configure", "run", "write", "ended"}
    /\ specs \in Projects /\ config \in Configs
    /\ core \in Entry
    /\ report \in [Checks -> Entry \union {None}]
    /\ overall \in Status \ {"SKIP"}
    /\ saved \in BOOLEAN
    /\ phase = "configure" <=> pc = "waiting" /\ core.status = "PASS"

Decided == phase \in {"write", "ended"} /\ core.status = "PASS"

\* Exit code 0 is earned: the evidence is on disk, no check failed, and every
\* check that is required and was planned has run to its end and passed, with
\* a warning at most.  Coverage is judged by its evidence instead.
ExitZeroIsEarned ==
    phase = "ended" /\ ExitCode = 0 =>
        /\ saved
        /\ \A c \in plan.checks : report[c].status \notin {"FAIL", "ERROR"}
        /\ \A c \in (plan.checks \cap config.required) \ {Coverage} :
              results[c].why = "returned" /\ results[c].status \in {"PASS", "WARN"}

\* Unless it was cancelled, a verification that reports PASS has run every
\* check of its plan.
PassHasRunAll ==
    Decided /\ overall = "PASS" /\ ~cancelled => \A c \in plan.checks : HasRun(results[c])

\* "Never turn WARN, NOT_TESTED, or ERROR into a convenient PASS."
ErrorStays ==
    Decided => \A c \in plan.checks :
        results[c].status = "ERROR" => report[c].status = "ERROR"

\* Every verification comes to its end (ProjectWithOptions, verify.go:32, and
\* scheduler.Run, scheduler.go:98), however its checks depend on, lock out and
\* block each other and whenever it is cancelled, and then its report has an
\* entry of every check of its plan.
VerificationEnds ==
    <>(phase = "ended" /\ \A c \in plan.checks : report[c] # None)
=============================================================================
