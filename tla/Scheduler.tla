------------------------------ MODULE Scheduler ------------------------------
(***************************************************************************)
(* scheduler.Run: the loop that decides which checks run together, the     *)
(* goroutine of each check in a batch, the semaphore between them, and a   *)
(* context that may be cancelled at any time.                              *)
(*                                                                         *)
(* Abstractions.  A check is a number, in the order of the identifiers.    *)
(* NOT_TESTED stands for itself, INSUFFICIENT_EVIDENCE and REQUIRES_REVIEW,*)
(* which the scheduler, the policy and the overall status treat alike.     *)
(* Time is whether a check's deadline has passed when it returns.  A check *)
(* that has stored its result and given back its slot is one step.         *)
(***************************************************************************)
EXTENDS Naturals, FiniteSets

CONSTANTS
    Checks,     \* check identifiers, in their order
    Resources,  \* what checks lock: "gradle", "go-toolchain"
    Plans,      \* plans that BuildPlan accepts
    Outcomes,   \* what check functions return
    Limit,      \* maxConcurrent
    None

Status == {"PASS", "WARN", "NOT_TESTED", "FAIL", "ERROR", "SKIP"}

Plan == [checks : SUBSET Checks, requires : [Checks -> SUBSET Checks],
         uses : [Checks -> SUBSET Resources], timed : SUBSET Checks]

\* Dependencies are in the plan, and every set of its checks has one that
\* depends on no other of the set: there is no cycle.
Acyclic(pl) ==
    /\ \A c \in pl.checks : pl.requires[c] \subseteq pl.checks
    /\ \A S \in SUBSET pl.checks : S # {} => \E c \in S : pl.requires[c] \cap S = {}

ASSUME ChecksAssumption == IsFiniteSet(Checks) /\ Checks \subseteq Nat
ASSUME PlansAssumption == Plans \subseteq Plan /\ \A pl \in Plans : Acyclic(pl)
ASSUME LimitAssumption == Limit \in Nat \ {0}
ASSUME OutcomesAssumption ==
    \A o \in Outcomes : o.status \in Status \ {"SKIP"} /\ o.blocking \in BOOLEAN

\* A check's result: what its function returned, and what the scheduler made
\* of its status.  A check that was not run is never blocking.
NoOutcome == [status |-> "SKIP", blocking |-> FALSE, coverage |-> {}]
Ends == {"returned", "timed out", "cancelled"}
Ran(o, why) ==
    [outcome |-> o, why |-> why, status |-> IF why = "returned" THEN o.status ELSE "ERROR"]
NotRun(s, why) == [outcome |-> NoOutcome, why |-> why, status |-> s]

RunResults == {Ran(o, why) : o \in Outcomes, why \in Ends}
OtherResults ==
    {NotRun("SKIP", "dependency"), NotRun("SKIP", "not run"), NotRun("ERROR", "no progress")}
Result == RunResults \union OtherResults

ASSUME NoneAssumption == None \notin Result

VARIABLES
    pc,         \* the loop: waiting, loop, select, batch, done
    plan,
    pending,
    results,
    batch,      \* the checks that run together
    stage,      \* each check's goroutine: none, queued, running, stored
    returned,   \* batchResults
    cancelled   \* the context

vars == <<pc, plan, pending, results, batch, stage, returned, cancelled>>

NoPlan == [checks |-> {}, requires |-> [c \in Checks |-> {}],
           uses |-> [c \in Checks |-> {}], timed |-> {}]

Init ==
    /\ pc = "waiting"
    /\ plan = NoPlan
    /\ pending = {}
    /\ results = [c \in Checks |-> None]
    /\ batch = {}
    /\ stage = [c \in Checks |-> "none"]
    /\ returned = [c \in Checks |-> None]
    /\ cancelled = FALSE

-----------------------------------------------------------------------------
(* readyChecks, dependencyBlocks, blockedByDependency, lockCompatibleBatch. *)

Ready == {c \in pending : \A d \in plan.requires[c] : results[d] # None}

Blocks(r) ==
    r.outcome.blocking \/ r.status \in {"FAIL", "ERROR", "SKIP", "NOT_TESTED"}

Blocked(c) == \E d \in plan.requires[c] : results[d] # None /\ Blocks(results[d])

Share(c, d) == plan.uses[c] \cap plan.uses[d] # {}

\* Mutant of Compatible: only the previous check's resources are in use.
CompatibleWithFirst(c, b) ==
    \A d \in b : d < c /\ (\A e \in b : d <= e) => ~Share(c, d)

Compatible(c, b) == \A d \in b : d < c => ~Share(c, d)

\* In the order of the identifiers, a check joins the batch unless one that
\* has joined uses a resource of its own.
IsBatch(b) == b = {c \in Ready : Compatible(c, b)}

-----------------------------------------------------------------------------
(* The loop.                                                               *)

Begin(pl) ==
    /\ pc = "waiting" /\ pc' = "loop"
    /\ plan' = pl
    /\ pending' = pl.checks
    /\ UNCHANGED <<results, batch, stage, returned, cancelled>>

\* Mutant of Give: a check with a verdict stays pending.
GiveKept(S, r) ==
    /\ results' = [c \in Checks |-> IF c \in S THEN r ELSE results[c]]
    /\ pending' = pending

Give(S, r) ==
    /\ results' = [c \in Checks |-> IF c \in S THEN r ELSE results[c]]
    /\ pending' = pending \ S

Iterate ==
    /\ pc = "loop"
    /\ \/ /\ pending = {} /\ pc' = "done"
          /\ UNCHANGED <<pending, results>>
       \/ /\ pending # {} /\ cancelled /\ pc' = "done"
          /\ Give(pending, NotRun("SKIP", "not run"))
       \/ /\ pending # {} /\ ~cancelled /\ pc' = "select"
          /\ UNCHANGED <<pending, results>>
    /\ UNCHANGED <<plan, batch, stage, returned, cancelled>>

\* Nothing is ready: every pending check is given an error, if there is one.
NoProgress ==
    /\ pc = "select" /\ Ready = {} /\ pc' = "loop"
    /\ Give(pending, NotRun("ERROR", "no progress"))
    /\ UNCHANGED <<plan, batch, stage, returned, cancelled>>

\* Mutant of SkipBlocked: one blocked check skips all that are ready.
SkipReady ==
    /\ pc = "select"
    /\ \E c \in Ready : Blocked(c)
    /\ Give(Ready, NotRun("SKIP", "dependency"))
    /\ UNCHANGED <<pc, plan, batch, stage, returned, cancelled>>

\* The ready checks that a dependency blocks; then what is ready is found anew.
SkipBlocked ==
    /\ pc = "select"
    /\ \E c \in Ready : Blocked(c)
    /\ Give({c \in Ready : Blocked(c)}, NotRun("SKIP", "dependency"))
    /\ UNCHANGED <<pc, plan, batch, stage, returned, cancelled>>

\* Mutant of StartBatch: what is ready is not looked at again after a skip.
StartUnchecked ==
    /\ pc = "select" /\ Ready # {}
    /\ \E b \in SUBSET Ready :
          /\ IsBatch(b)
          /\ batch' = b
          /\ stage' = [c \in Checks |-> IF c \in b THEN "queued" ELSE stage[c]]
    /\ pc' = "batch"
    /\ UNCHANGED <<plan, pending, results, returned, cancelled>>

\* runBatch: a goroutine for each check.
StartBatch ==
    /\ pc = "select" /\ Ready # {}
    /\ \A c \in Ready : ~Blocked(c)
    /\ \E b \in SUBSET Ready :
          /\ IsBatch(b)
          /\ batch' = b
          /\ stage' = [c \in Checks |-> IF c \in b THEN "queued" ELSE stage[c]]
    /\ pc' = "batch"
    /\ UNCHANGED <<plan, pending, results, returned, cancelled>>

\* wg.Wait, and the batch's results join the others.
CollectBatch ==
    /\ pc = "batch" /\ \A c \in batch : stage[c] = "stored"
    /\ results' = [c \in Checks |-> IF c \in batch THEN returned[c] ELSE results[c]]
    /\ pending' = pending \ batch
    /\ stage' = [c \in Checks |-> "none"]
    /\ returned' = [c \in Checks |-> None]
    /\ batch' = {}
    /\ pc' = "loop"
    /\ UNCHANGED <<plan, cancelled>>

-----------------------------------------------------------------------------
(* A check's goroutine, and the context.                                   *)

Running == {c \in Checks : stage[c] = "running"}
Goto(c, s) == stage' = [stage EXCEPT ![c] = s]

Acquire(c) ==
    /\ stage[c] = "queued" /\ Cardinality(Running) < Limit
    /\ Goto(c, "running")
    /\ UNCHANGED <<pc, plan, pending, results, batch, returned, cancelled>>

\* runOne: the check returns, and is in error if its context has ended.
Return(c) ==
    /\ stage[c] = "running" /\ Goto(c, "stored")
    /\ \E o \in Outcomes, why \in Ends :
          /\ why = "timed out" => c \in plan.timed
          /\ why = "cancelled" => cancelled
          /\ cancelled => why # "returned"
          /\ returned' = [returned EXCEPT ![c] = Ran(o, why)]
    /\ UNCHANGED <<pc, plan, pending, results, batch, cancelled>>

Cancel ==
    /\ ~cancelled /\ cancelled' = TRUE
    /\ UNCHANGED <<pc, plan, pending, results, batch, stage, returned>>

Done == pc = "done" /\ UNCHANGED vars

Work ==
    \/ Iterate \/ NoProgress \/ SkipBlocked \/ StartBatch \/ CollectBatch
    \/ \E c \in Checks : Acquire(c) \/ Return(c)

Start == \E pl \in Plans : Begin(pl)

Next == Start \/ Work \/ Cancel \/ Done

Spec == Init /\ [][Next]_vars

-----------------------------------------------------------------------------
(* Properties.                                                             *)

TypeOK ==
    /\ pc \in {"waiting", "loop", "select", "batch", "done"}
    /\ plan \in Plans \union {NoPlan}
    /\ pending \subseteq plan.checks
    /\ results \in [Checks -> Result \union {None}]
    /\ batch \subseteq pending
    /\ stage \in [Checks -> {"none", "queued", "running", "stored"}]
    /\ returned \in [Checks -> Result \union {None}]
    /\ cancelled \in BOOLEAN

\* Two checks that lock a resource in common are never under way together.
ResourcesExclusive ==
    \A c, d \in Checks :
        c # d /\ stage[c] # "none" /\ stage[d] # "none" => ~Share(c, d)

\* No more checks run at once than maxConcurrent.
ConcurrencyBounded == Cardinality(Running) <= Limit

HasRun(r) == r # None /\ r.why \in Ends

\* A check is started only after every dependency has a result that lets it
\* go on, and so it stays: no later result turns up behind a check's back.
DependenciesHold ==
    \A c \in plan.checks : stage[c] # "none" \/ HasRun(results[c]) =>
        \A d \in plan.requires[c] : results[d] # None /\ ~Blocks(results[d])

\* A check is left out for a reason that is there to see: a dependency that
\* blocks it, or the cancellation; and the loop never gives up on a plan.
SkippedForCause ==
    \A c \in plan.checks : results[c] # None =>
        /\ results[c].why = "dependency" => Blocked(c)
        /\ results[c].why = "not run" => cancelled
        /\ results[c].why # "no progress"

\* A check runs once: its verdict is final.
VerdictsFinal ==
    [][\A c \in Checks : results[c] # None =>
          results'[c] = results[c] /\ stage'[c] = "none"]_vars

=============================================================================
