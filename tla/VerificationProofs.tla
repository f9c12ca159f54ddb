------------------------- MODULE VerificationProofs -------------------------
(***************************************************************************)
(* Proofs about the scheduler, for any acyclic plan, any resources, any    *)
(* outcomes of the checks and any number of slots; and then about a        *)
(* verification that plans, schedules and judges, for any policy and any   *)
(* moment of cancellation.                                                 *)
(***************************************************************************)
EXTENDS Verification, FiniteSetTheorems, TLAPS

-----------------------------------------------------------------------------
(* The scheduler.                                                          *)

\* Pending are the checks of the plan without a verdict, and the checks whose
\* goroutines exist are those of the batch.
Accounted ==
    /\ \A c \in Checks : results[c] # None => c \in plan.checks /\ c \notin pending
    /\ \A c \in plan.checks : results[c] = None => c \in pending
    /\ \A c \in Checks : stage[c] # "none" <=> c \in batch
    /\ pc # "batch" => batch = {}
    /\ pc = "waiting" => plan = NoPlan
    /\ pc = "done" => pending = {}
    /\ \A c \in Checks : stage[c] = "stored" => returned[c] # None /\ HasRun(returned[c])
    /\ \A c \in Checks : returned[c] # None => HasRun(returned[c])

BatchCompatible == \A c, d \in batch : c # d => ~Share(c, d)

IInv ==
    /\ TypeOK
    /\ Accounted
    /\ BatchCompatible
    /\ DependenciesHold
    /\ SkippedForCause

LEMMA PlanFacts ==
    ASSUME TypeOK
    PROVE  plan \in Plan /\ Acyclic(plan)
<1>1. NoPlan \in Plan /\ Acyclic(NoPlan)
  BY DEF NoPlan, Plan, Acyclic
<1>q. QED
  BY <1>1, PlansAssumption DEF TypeOK

\* While something is pending, something can be decided: the branch that gives
\* up for lack of progress is never taken.
LEMMA SomethingReady ==
    ASSUME TypeOK, Accounted, pending # {}
    PROVE  Ready # {}
<1>1. PICK c \in pending : plan.requires[c] \cap pending = {}
  BY PlanFacts DEF TypeOK, Acyclic
<1>2. \A d \in plan.requires[c] : results[d] # None
  BY <1>1, PlanFacts DEF TypeOK, Acyclic, Accounted
<1>q. QED
  BY <1>1, <1>2 DEF Ready

\* What the loop stores without a run is a result, and does not count as one.
LEMMA NotRunType ==
    ASSUME NEW why \in {"dependency", "not run"}
    PROVE  LET r == NotRun("SKIP", why)
           IN  r \in Result /\ r # None /\ r.why = why /\ ~HasRun(r)
<1>1. NotRun("SKIP", why) \in Result
  <2>1. NotRun("SKIP", why) \in OtherResults
    BY DEF OtherResults
  <2>q. QED
    BY <2>1 DEF Result
<1>q. QED
  BY <1>1, NoneAssumption DEF NotRun, HasRun, Ends

\* A batch holds checks of which no two share a resource.
LEMMA BatchFacts ==
    ASSUME TypeOK, NEW b, IsBatch(b)
    PROVE  b \subseteq Ready /\ \A c, d \in b : c # d => ~Share(c, d)
<1>1. b \subseteq Ready /\ \A c, d \in b : d < c => ~Share(c, d)
  BY DEF IsBatch, Compatible
<1>2. b \subseteq Nat
  BY <1>1, PlanFacts, ChecksAssumption DEF Ready, TypeOK, Plan
<1>3. \A c, d : Share(c, d) <=> Share(d, c)
  BY DEF Share
<1>4. ASSUME NEW c \in b, NEW d \in b, c # d PROVE ~Share(c, d)
  <2>1. c < d \/ d < c
    BY <1>2, <1>4
  <2>q. QED
    BY <1>1, <1>3, <1>4, <2>1
<1>q. QED
  BY <1>1, <1>4

LEMMA InitInv == Init => IInv
<1> SUFFICES ASSUME Init PROVE IInv
  OBVIOUS
<1>1. plan = NoPlan /\ plan.checks = {}
  BY DEF Init, NoPlan
<1>2. TypeOK
  BY <1>1 DEF Init, TypeOK
<1>3. Accounted
  BY <1>1 DEF Init, Accounted, HasRun
<1>4. BatchCompatible /\ DependenciesHold /\ SkippedForCause
  BY <1>1 DEF Init, BatchCompatible, DependenciesHold, SkippedForCause
<1>q. QED
  BY <1>2, <1>3, <1>4 DEF IInv

\* What a verdict without a run changes: S leaves the pending checks, and no
\* earlier verdict changes.
LEMMA GiveFacts ==
    ASSUME TypeOK, Accounted, NEW S \in SUBSET pending, NEW r \in Result, Give(S, r)
    PROVE  /\ results' \in [Checks -> Result \union {None}]
           /\ pending' \subseteq pending
           /\ \A c \in S : results'[c] = r /\ results'[c] # None /\ c \notin pending'
           /\ \A c \in Checks \ S : results'[c] = results[c] /\ (c \in pending <=> c \in pending')
           /\ \A c \in Checks : results[c] # None => results'[c] = results[c]
<1>1. S \subseteq Checks
  BY PlanFacts DEF TypeOK, Plan
<1>2. /\ results' \in [Checks -> Result \union {None}]
      /\ \A c \in S : results'[c] = r
      /\ \A c \in Checks \ S : results'[c] = results[c]
  BY <1>1 DEF Give, TypeOK
<1>q. QED
  BY <1>1, <1>2, NoneAssumption DEF Give, Accounted

\* Verdicts that are given where there was none leave what is already decided
\* as it is.
LEMMA DecidedStays ==
    ASSUME TypeOK, Accounted, DependenciesHold, SkippedForCause,
           plan' = plan, cancelled => cancelled',
           \A c \in Checks : results[c] # None => results'[c] = results[c]
    PROVE  /\ \A c \in plan'.checks :
                 (stage[c] # "none" \/ (results[c] # None /\ HasRun(results'[c]))) =>
                 \A d \in plan'.requires[c] : results'[d] # None /\ ~Blocks(results'[d])
           /\ \A c \in plan'.checks : results[c] # None =>
                 /\ results'[c].why = "dependency" => Blocked(c)'
                 /\ results'[c].why = "not run" => cancelled'
                 /\ results'[c].why # "no progress"
<1>0. /\ plan'.checks \subseteq Checks
      /\ \A c \in plan'.checks : plan'.requires[c] \subseteq Checks
  BY PlanFacts DEF Plan, Acyclic
<1>1. \A c \in plan.checks : Blocked(c) => Blocked(c)'
  BY <1>0 DEF Blocked
<1>2. \A c \in Checks : results[c] # None => HasRun(results'[c]) = HasRun(results[c])
  OBVIOUS
<1>3. ASSUME NEW c \in plan'.checks,
             stage[c] # "none" \/ (results[c] # None /\ HasRun(results'[c]))
      PROVE  \A d \in plan'.requires[c] : results'[d] # None /\ ~Blocks(results'[d])
  <2>1. stage[c] # "none" \/ HasRun(results[c])
    BY <1>0, <1>2, <1>3
  <2>2. \A d \in plan.requires[c] : results[d] # None /\ ~Blocks(results[d])
    BY <2>1 DEF DependenciesHold
  <2>q. QED
    BY <1>0, <2>2
<1>q. QED
  BY <1>0, <1>1, <1>3 DEF SkippedForCause

LEMMA BeginStep ==
    ASSUME IInv, NEW pl \in Plans, Begin(pl)
    PROVE  IInv'
<1> USE DEF IInv, Begin
<1>1. plan.checks = {} /\ batch = {}
  BY DEF Accounted, NoPlan
<1>2. \A c \in Checks : results[c] = None /\ stage[c] = "none"
  BY <1>1 DEF Accounted
<1>3. TypeOK'
  BY <1>1 DEF TypeOK
<1>4. pl.checks \subseteq Checks
  BY PlansAssumption DEF Plan
<1>5. Accounted'
  BY <1>1, <1>2, <1>4 DEF Accounted
<1>6. BatchCompatible' /\ DependenciesHold' /\ SkippedForCause'
  BY <1>1, <1>2, <1>4 DEF BatchCompatible, DependenciesHold, SkippedForCause, HasRun
<1>q. QED
  BY <1>3, <1>5, <1>6

\* Checks that are given a verdict without a run, for a cause that is there.
LEMMA GiveStep ==
    ASSUME IInv, NEW S \in SUBSET pending,
           NEW why \in {"dependency", "not run"},
           Give(S, NotRun("SKIP", why)),
           why = "dependency" => \A c \in S : Blocked(c),
           why = "not run" => cancelled,
           pc \in {"loop", "select"}, pc' \in {"loop", "select", "done"},
           pc' = "done" => S = pending,
           UNCHANGED <<plan, batch, stage, returned, cancelled>>
    PROVE  IInv'
<1> DEFINE r == NotRun("SKIP", why)
<1>0. r \in Result /\ r # None /\ r.why = why /\ ~HasRun(r)
  BY NotRunType
<1>1. /\ TypeOK /\ Accounted /\ BatchCompatible /\ DependenciesHold /\ SkippedForCause
      /\ batch = {} /\ plan.checks \subseteq Checks
  BY PlanFacts DEF IInv, Accounted, Plan
<1>2. /\ results' \in [Checks -> Result \union {None}]
      /\ pending' \subseteq pending
      /\ \A c \in S : results'[c] = r /\ results'[c] # None /\ c \notin pending'
      /\ \A c \in Checks \ S : results'[c] = results[c] /\ (c \in pending <=> c \in pending')
      /\ \A c \in Checks : results[c] # None => results'[c] = results[c]
  BY <1>0, <1>1, GiveFacts
<1>3. TypeOK'
  BY <1>1, <1>2 DEF TypeOK
<1>4. Accounted'
  BY <1>1, <1>2 DEF Accounted, TypeOK
<1>5. BatchCompatible'
  BY <1>1 DEF BatchCompatible
<1>7. DependenciesHold'
  <2>1. ASSUME NEW c \in plan'.checks, stage'[c] # "none" \/ HasRun(results'[c])
        PROVE  stage[c] # "none" \/ (results[c] # None /\ HasRun(results'[c]))
    BY <1>0, <1>1, <1>2, <2>1 DEF HasRun
  <2>q. QED
    BY <1>1, <1>2, <2>1, DecidedStays DEF DependenciesHold
<1>8. SkippedForCause'
  <2>1. /\ \A c \in plan.checks : Blocked(c) => Blocked(c)'
        /\ \A c \in plan'.checks : results[c] # None =>
              /\ results'[c].why = "dependency" => Blocked(c)'
              /\ results'[c].why = "not run" => cancelled'
              /\ results'[c].why # "no progress"
    <3>1. \A c \in plan.checks : plan.requires[c] \subseteq Checks
      BY <1>1, PlanFacts DEF Plan, Acyclic
    <3>q. QED
      BY <1>1, <1>2, <3>1, DecidedStays DEF Blocked
  <2>2. \A c \in plan.checks : results'[c] # None => results[c] # None \/ c \in S
    BY <1>1, <1>2
  <2>3. \A c \in S : results'[c].why = why /\ c \in plan.checks
    BY <1>0, <1>1, <1>2 DEF TypeOK
  <2>4. ASSUME NEW c \in plan'.checks, results'[c] # None
        PROVE  /\ results'[c].why = "dependency" => Blocked(c)'
               /\ results'[c].why = "not run" => cancelled'
               /\ results'[c].why # "no progress"
    <3>1. CASE results[c] # None
      BY <2>1, <2>4, <3>1
    <3>2. CASE c \in S
      BY <2>1, <2>3, <3>2
    <3>q. QED
      BY <2>2, <2>4, <3>1, <3>2
  <2>q. QED
    BY <2>4 DEF SkippedForCause
<1>q. QED
  BY <1>3, <1>4, <1>5, <1>7, <1>8 DEF IInv

LEMMA SameVerdicts ==
    ASSUME IInv, pc' \in {"loop", "select", "done"}, pc \in {"loop", "select"},
           pc' = "done" => pending = {},
           UNCHANGED <<plan, pending, results, batch, stage, returned, cancelled>>
    PROVE  IInv'
<1>1. TypeOK' /\ Accounted' /\ BatchCompatible'
  BY DEF IInv, TypeOK, Accounted, BatchCompatible, HasRun, Share
<1>2. DependenciesHold'
  BY DEF IInv, DependenciesHold, HasRun, Blocks
<1>3. SkippedForCause'
  BY DEF IInv, SkippedForCause, Blocked, Blocks
<1>q. QED
  BY <1>1, <1>2, <1>3 DEF IInv

LEMMA LoopStep ==
    ASSUME IInv, Iterate \/ NoProgress \/ SkipBlocked
    PROVE  IInv'
<1>1. CASE Iterate
  <2>1. CASE pending = {} \/ ~cancelled
    BY <1>1, <2>1, SameVerdicts DEF Iterate
  <2>2. CASE pending # {} /\ cancelled
    BY <1>1, <2>2, GiveStep DEF Iterate, Status
  <2>q. QED
    BY <2>1, <2>2
<1>2. CASE NoProgress
  <2>1. pending = {}
    BY <1>2, SomethingReady DEF IInv, NoProgress
  <2>2. UNCHANGED <<pending, results>>
    BY <1>2, <2>1 DEF NoProgress, Give, IInv, TypeOK
  <2>q. QED
    BY <1>2, <2>2, SameVerdicts DEF NoProgress
<1>3. CASE SkipBlocked
  BY <1>3, GiveStep DEF SkipBlocked, Ready, Status
<1>q. QED
  BY <1>1, <1>2, <1>3

LEMMA StartStep ==
    ASSUME IInv, StartBatch
    PROVE  IInv'
<1>0. TypeOK /\ Accounted /\ plan.checks \subseteq Checks /\ batch = {}
  BY PlanFacts DEF IInv, StartBatch, Accounted, Plan
<1>1. PICK b \in SUBSET Ready :
         /\ IsBatch(b)
         /\ batch' = b
         /\ stage' = [c \in Checks |-> IF c \in b THEN "queued" ELSE stage[c]]
  BY DEF StartBatch
<1>2. b \subseteq Ready /\ \A c, d \in b : c # d => ~Share(c, d)
  BY <1>0, <1>1, BatchFacts
<1>3. b \subseteq pending /\ b \subseteq Checks
  BY <1>0, <1>2 DEF Ready, TypeOK
<1>4. \A c \in Checks : stage'[c] = IF c \in b THEN "queued" ELSE "none"
  BY <1>0, <1>1 DEF Accounted
<1>5. TypeOK'
  BY <1>0, <1>1, <1>3 DEF TypeOK, StartBatch
<1>6. Accounted'
  BY <1>0, <1>1, <1>3, <1>4 DEF Accounted, StartBatch, HasRun
<1>7. BatchCompatible'
  BY <1>1, <1>2 DEF BatchCompatible, StartBatch, Share
<1>8. DependenciesHold'
  <2>1. \A c \in b : \A d \in plan.requires[c] : results[d] # None /\ ~Blocks(results[d])
    BY <1>2 DEF Ready, StartBatch, Blocked
  <2>2. \A c \in plan.checks : stage'[c] # "none" => c \in b
    BY <1>0, <1>4
  <2>q. QED
    BY <2>1, <2>2 DEF DependenciesHold, StartBatch, IInv, HasRun, Blocks
<1>9. SkippedForCause'
  BY DEF SkippedForCause, StartBatch, IInv, Blocked, Blocks
<1>q. QED
  BY <1>5, <1>6, <1>7, <1>8, <1>9 DEF IInv

LEMMA CollectStep ==
    ASSUME IInv, CollectBatch
    PROVE  IInv'
<1>0. /\ TypeOK /\ Accounted /\ DependenciesHold /\ SkippedForCause
      /\ plan.checks \subseteq Checks /\ plan' = plan /\ cancelled' = cancelled
  BY PlanFacts DEF IInv, CollectBatch, Plan
<1>1. \A c \in batch : /\ returned[c] \in Result /\ returned[c] # None
                       /\ HasRun(returned[c]) /\ stage[c] # "none"
                       /\ c \in Checks /\ results[c] = None
  BY <1>0 DEF CollectBatch, Accounted, TypeOK
<1>2. \A c \in Checks : results'[c] = IF c \in batch THEN returned[c] ELSE results[c]
  BY DEF CollectBatch
<1>3. \A c \in Checks : results[c] # None => results'[c] = results[c]
  BY <1>1, <1>2
<1>4. \A c \in Checks : stage'[c] = "none" /\ returned'[c] = None
  BY DEF CollectBatch
<1>5. TypeOK'
  BY <1>0, <1>1, NoneAssumption DEF TypeOK, CollectBatch
<1>6. Accounted'
  BY <1>0, <1>1, <1>2, <1>4 DEF Accounted, CollectBatch, TypeOK
<1>7. BatchCompatible'
  BY DEF BatchCompatible, CollectBatch
<1>8. DependenciesHold'
  <2>1. ASSUME NEW c \in plan'.checks, stage'[c] # "none" \/ HasRun(results'[c])
        PROVE  stage[c] # "none" \/ (results[c] # None /\ HasRun(results'[c]))
    BY <1>0, <1>1, <1>2, <1>4, <2>1 DEF HasRun
  <2>q. QED
    BY <1>0, <1>3, <2>1, DecidedStays DEF DependenciesHold
<1>9. SkippedForCause'
  <2>1. \A c \in plan'.checks : results[c] # None =>
              /\ results'[c].why = "dependency" => Blocked(c)'
              /\ results'[c].why = "not run" => cancelled'
              /\ results'[c].why # "no progress"
    BY <1>0, <1>3, DecidedStays
  <2>2. \A c \in batch : results'[c].why \in Ends
    BY <1>1, <1>2 DEF HasRun
  <2>3. \A c \in plan.checks : results'[c] # None => results[c] # None \/ c \in batch
    BY <1>0, <1>2
  <2>q. QED
    BY <1>0, <2>1, <2>2, <2>3 DEF SkippedForCause, Ends
<1>q. QED
  BY <1>5, <1>6, <1>7, <1>8, <1>9 DEF IInv

\* A check's goroutine moves while its batch is under way; no verdict changes.
LEMMA GoroutineStep ==
    ASSUME IInv, NEW c \in Checks, Acquire(c) \/ Return(c)
    PROVE  IInv'
<1>0. /\ TypeOK /\ Accounted /\ stage[c] # "none" /\ c \in batch
      /\ stage' \in [Checks -> {"none", "queued", "running", "stored"}]
      /\ \A d \in Checks : stage'[d] # "none" <=> stage[d] # "none"
      /\ UNCHANGED <<pc, plan, pending, results, batch, cancelled>>
      /\ plan.checks \subseteq Checks
  BY PlanFacts, ZenonT(30) DEF IInv, Acquire, Return, Goto, TypeOK, Accounted, Plan
<1>1. /\ returned' \in [Checks -> Result \union {None}]
      /\ \A d \in Checks : returned'[d] # None => HasRun(returned'[d])
      /\ \A d \in Checks : stage'[d] = "stored" => returned'[d] # None
  <2>1. CASE Acquire(c)
    BY <1>0, <2>1 DEF Acquire, Goto, Accounted, TypeOK, HasRun
  <2>2. CASE Return(c)
    <3>1. PICK o \in Outcomes, why \in Ends :
             returned' = [returned EXCEPT ![c] = Ran(o, why)]
      BY <2>2 DEF Return
    <3>2. returned'[c] \in Result /\ HasRun(returned'[c])
      <4>1. Ran(o, why) \in Result
        <5>1. Ran(o, why) \in RunResults
          BY DEF RunResults
        <5>q. QED
          BY <5>1 DEF Result
      <4>q. QED
        BY <1>0, <3>1, <4>1, NoneAssumption DEF TypeOK, HasRun, Ran
    <3>q. QED
      BY <1>0, <2>2, <3>1, <3>2 DEF Return, Goto, Accounted, TypeOK, HasRun
  <2>q. QED
    BY <2>1, <2>2
<1>2. TypeOK'
  BY <1>0, <1>1 DEF TypeOK
<1>3. Accounted'
  BY <1>0, <1>1 DEF Accounted
<1>4. BatchCompatible'
  BY <1>0 DEF IInv, BatchCompatible, Share
<1>5. DependenciesHold'
  BY <1>0 DEF IInv, DependenciesHold, HasRun, Blocks
<1>6. SkippedForCause'
  BY <1>0 DEF IInv, SkippedForCause, Blocked, Blocks
<1>q. QED
  BY <1>2, <1>3, <1>4, <1>5, <1>6 DEF IInv

LEMMA QuietStep ==
    ASSUME IInv, Cancel \/ UNCHANGED vars
    PROVE  IInv'
<1>0. /\ UNCHANGED <<pc, plan, pending, results, batch, stage, returned>>
      /\ cancelled => cancelled'
      /\ cancelled' \in BOOLEAN
  BY DEF Cancel, vars, IInv, TypeOK
<1>1. TypeOK' /\ Accounted' /\ BatchCompatible'
  BY <1>0 DEF IInv, TypeOK, Accounted, BatchCompatible, HasRun, Share
<1>2. DependenciesHold'
  BY <1>0 DEF IInv, DependenciesHold, HasRun, Blocks
<1>3. SkippedForCause'
  BY <1>0 DEF IInv, SkippedForCause, Blocked, Blocks
<1>q. QED
  BY <1>1, <1>2, <1>3 DEF IInv

LEMMA NextInv == IInv /\ [Next]_vars => IInv'
<1> SUFFICES ASSUME IInv, [Next]_vars PROVE IInv'
  OBVIOUS
<1>1. CASE Start
  BY <1>1, BeginStep DEF Start
<1>2. CASE Work
  BY <1>2, LoopStep, StartStep, CollectStep, GoroutineStep DEF Work
<1>3. CASE Cancel \/ Done \/ UNCHANGED vars
  BY <1>3, QuietStep DEF Done
<1>q. QED
  BY <1>1, <1>2, <1>3 DEF Next

THEOREM Invariance == Spec => []IInv
<1>q. QED
  BY InitInv, NextInv, PTL DEF Spec

\* TypeCorrect: the state is well typed, and a batch is always pending.
THEOREM TypeCorrect == Spec => []TypeOK
<1>1. IInv => TypeOK
  BY DEF IInv
<1>q. QED
  BY <1>1, Invariance, PTL

\* LocksExclude: whatever the plan and the order in which goroutines run, two
\* checks with a resource in common are never under way together.
THEOREM LocksExclude == Spec => []ResourcesExclusive
<1>1. IInv => ResourcesExclusive
  BY DEF IInv, Accounted, BatchCompatible, ResourcesExclusive
<1>q. QED
  BY <1>1, Invariance, PTL

\* DependenciesFirst: in any acyclic plan a check starts only behind results
\* of all its dependencies that let it go on.
THEOREM DependenciesFirst == Spec => []DependenciesHold
<1>1. IInv => DependenciesHold
  BY DEF IInv
<1>q. QED
  BY <1>1, Invariance, PTL

\* NeverStuck: a check is left out only behind a dependency that blocks it or
\* by cancellation, and the loop never finds that it cannot make progress.
THEOREM NeverStuck == Spec => []SkippedForCause
<1>1. IInv => SkippedForCause
  BY DEF IInv
<1>q. QED
  BY <1>1, Invariance, PTL

\* VerdictIsFinal: no step of any goroutine changes a verdict or starts a check
\* that has one.
THEOREM VerdictIsFinal == Spec => VerdictsFinal
<1>1. ASSUME IInv, [Next]_vars, NEW c \in Checks, results[c] # None
      PROVE  results'[c] = results[c] /\ stage'[c] = "none"
  <2>0. /\ TypeOK /\ Accounted /\ c \notin pending /\ c \notin batch /\ stage[c] = "none"
        /\ pc # "waiting"
    BY <1>1 DEF IInv, Accounted, TypeOK, NoPlan
  <2>1. CASE Iterate \/ NoProgress \/ SkipBlocked
    BY <1>1, <2>0, <2>1 DEF Iterate, NoProgress, SkipBlocked, Give, Ready
  <2>2. CASE StartBatch
    BY <2>0, <2>2 DEF StartBatch, Ready
  <2>3. CASE CollectBatch
    BY <2>0, <2>3 DEF CollectBatch
  <2>4. CASE \E d \in Checks : Acquire(d) \/ Return(d)
    BY <2>0, <2>4 DEF Acquire, Return, Goto, TypeOK
  <2>5. CASE Start \/ Cancel \/ Done \/ UNCHANGED vars
    BY <2>0, <2>5 DEF Start, Begin, Cancel, Done, vars
  <2>q. QED
    BY <1>1, <2>1, <2>2, <2>3, <2>4, <2>5 DEF Next, Work
<1>2. IInv /\ [Next]_vars =>
        [\A c \in Checks : results[c] # None => results'[c] = results[c] /\ stage'[c] = "none"]_vars
  BY <1>1
<1>q. QED
  BY <1>2, Invariance, PTL DEF Spec, VerdictsFinal

\* SlotsBound: however goroutines interleave, no more checks run at once than
\* there are slots.
THEOREM SlotsBound == Spec => []ConcurrencyBounded
<1>0. IsFiniteSet(Running) /\ IsFiniteSet(Running') /\ Cardinality(Running) \in Nat
      /\ Cardinality(Running') \in Nat /\ Limit \in Nat
  <2>1. Running \subseteq Checks /\ Running' \subseteq Checks
    BY DEF Running
  <2>q. QED
    BY <2>1, ChecksAssumption, LimitAssumption, FS_Subset, FS_CardinalityType
<1>1. Init => ConcurrencyBounded
  <2> SUFFICES ASSUME Init PROVE ConcurrencyBounded
    OBVIOUS
  <2>1. Running = {}
    BY DEF Init, Running
  <2>q. QED
    BY <2>1, LimitAssumption, FS_EmptySet DEF ConcurrencyBounded
<1>2. IInv /\ ConcurrencyBounded /\ [Next]_vars => ConcurrencyBounded'
  <2> SUFFICES ASSUME IInv, ConcurrencyBounded, [Next]_vars PROVE ConcurrencyBounded'
    OBVIOUS
  <2>1. CASE \E c \in Checks : Acquire(c)
    <3>1. PICK c \in Checks : Acquire(c)
      BY <2>1
    <3>2. Running' = Running \union {c}
      BY <3>1 DEF Acquire, Goto, Running, IInv, TypeOK
    <3>3. Cardinality(Running') <= Cardinality(Running) + 1
      BY <1>0, <3>2, FS_AddElement
    <3>q. QED
      BY <1>0, <3>1, <3>3 DEF Acquire, ConcurrencyBounded
  <2>2. CASE ~\E c \in Checks : Acquire(c)
    <3>1. Running' \subseteq Running
      <4>1. CASE \E c \in Checks : Return(c)
        BY <4>1 DEF Return, Goto, Running, IInv, TypeOK
      <4>2. CASE StartBatch
        BY <4>2 DEF StartBatch, Running
      <4>3. CASE CollectBatch
        BY <4>3 DEF CollectBatch, Running
      <4>4. CASE UNCHANGED stage
        BY <4>4 DEF Running
      <4>q. QED
        BY <2>2, <4>1, <4>2, <4>3, <4>4 DEF Next, Start, Work, Begin, Iterate, NoProgress,
           SkipBlocked, Cancel, Done, vars
    <3>2. Cardinality(Running') <= Cardinality(Running)
      BY <1>0, <3>1, FS_Subset
    <3>q. QED
      BY <1>0, <3>2 DEF ConcurrencyBounded
  <2>q. QED
    BY <2>1, <2>2
<1>q. QED
  BY <1>1, <1>2, Invariance, PTL DEF Spec

-----------------------------------------------------------------------------
(* A verification.                                                         *)

\* What policy leaves of an acyclic plan is an acyclic plan: BuildPlan never
\* refuses it.
LEMMA FilterKeepsPlans ==
    ASSUME NEW pl \in Plan, Acyclic(pl), NEW cfg
    PROVE  FilterChecks(pl, cfg) \in Plan /\ Acyclic(FilterChecks(pl, cfg))
<1> DEFINE K == Kept(pl, cfg)
<1> DEFINE f == FilterChecks(pl, cfg)
<1>1. K \subseteq pl.checks /\ \A c \in K : pl.requires[c] \subseteq K
  BY DEF Kept
<1>2. f.checks = K /\ f.requires = pl.requires
  BY DEF FilterChecks, Plan
<1>3. f \in Plan
  BY <1>1 DEF FilterChecks, Plan
<1>4. Acyclic(f)
  BY <1>1, <1>2 DEF Acyclic
<1>q. QED
  BY <1>3, <1>4

LEMMA ResultShape ==
    ASSUME NEW r \in Result
    PROVE  /\ r.status \in Status /\ r.outcome.blocking \in BOOLEAN
           /\ r.why \in Ends \union {"dependency", "not run", "no progress"}
           /\ r.why \in Ends => r.status # "SKIP"
           /\ r.why \in {"timed out", "cancelled"} => r.status = "ERROR"
           /\ r.why \in {"dependency", "not run"} => r.status = "SKIP"
           /\ r.outcome.blocking => r.status # "PASS"
<1>1. CASE r \in RunResults
  <2>1. PICK o \in Outcomes, why \in Ends : r = Ran(o, why)
    BY <1>1 DEF RunResults
  <2>2. r.outcome = o /\ r.why = why /\ r.status = IF why = "returned" THEN o.status ELSE "ERROR"
    BY <2>1 DEF Ran
  <2>3. /\ o.status \in Status /\ o.status # "SKIP" /\ o.blocking \in BOOLEAN
        /\ o.blocking => o.status # "PASS"
    BY OutcomesAssumption, CleanPassAssumption
  <2>4. CASE why = "returned"
    BY <2>2, <2>3, <2>4 DEF Ends
  <2>5. CASE why # "returned"
    BY <2>2, <2>3, <2>5 DEF Status, Ends
  <2>q. QED
    BY <2>4, <2>5
<1>2. CASE r \in OtherResults
  <2>1. PICK s \in {"SKIP", "ERROR"}, why \in {"dependency", "not run", "no progress"} :
           r = NotRun(s, why) /\ (s = "SKIP" \/ why = "no progress")
    BY <1>2 DEF OtherResults
  <2>2. r.status = s /\ r.why = why /\ ~r.outcome.blocking /\ r.outcome.blocking \in BOOLEAN
    BY <2>1 DEF NotRun, NoOutcome
  <2>q. QED
    BY <2>1, <2>2 DEF Status, Ends
<1>q. QED
  BY <1>1, <1>2 DEF Result

LEMMA WorstFacts ==
    ASSUME NEW S \in SUBSET Status, "PASS" \in S
    PROVE  /\ Worst(S) \in S \ {"SKIP"}
           /\ \A t \in S : Severity(t) <= Severity(Worst(S))
<1>1. \E s \in S \ {"SKIP"} : \A t \in S : Severity(t) <= Severity(s)
  <2> USE DEF Severity, Status
  <2>1. CASE "ERROR" \in S
    BY <2>1
  <2>2. CASE "ERROR" \notin S /\ "FAIL" \in S
    BY <2>2
  <2>3. CASE "ERROR" \notin S /\ "FAIL" \notin S /\ "NOT_TESTED" \in S
    BY <2>3
  <2>4. CASE "ERROR" \notin S /\ "FAIL" \notin S /\ "NOT_TESTED" \notin S /\ "WARN" \in S
    BY <2>4
  <2>5. CASE "ERROR" \notin S /\ "FAIL" \notin S /\ "NOT_TESTED" \notin S /\ "WARN" \notin S
    BY <2>5
  <2>q. QED
    BY <2>1, <2>2, <2>3, <2>4, <2>5
<1>q. QED
  BY <1>1 DEF Worst

\* Policy keeps the status of every check but coverage, and makes missing
\* evidence that is required stop the pipeline.
LEMMA AppliedFacts ==
    ASSUME NEW c \in Checks, NEW r \in Result, NEW cfg \in Config
    PROVE  /\ Applied(c, r, cfg) \in Entry
           /\ c # Coverage => Applied(c, r, cfg).status = r.status
           /\ c \in cfg.required /\ Unavailable(Applied(c, r, cfg).status)
                => Applied(c, r, cfg).blocking
<1>1. r.status \in Status /\ r.outcome.blocking \in BOOLEAN
  BY ResultShape
<1>2. Measured(r, cfg) \in Entry
  BY DEF Measured, Entry, Status
<1> DEFINE e == IF c = Coverage /\ cfg.minimum \union cfg.preferred # {}
                   /\ r.outcome.coverage # {} THEN Measured(r, cfg)
                ELSE [status |-> r.status, blocking |-> r.outcome.blocking]
<1> DEFINE asked == IF cfg.blocking[c] # "unset" /\ e.status # "PASS"
                    THEN cfg.blocking[c] = "yes" ELSE e.blocking
<1> DEFINE stop == asked \/ (c \in cfg.required /\ Unavailable(e.status))
<1>3. e \in Entry /\ (c # Coverage => e.status = r.status)
  BY <1>1, <1>2 DEF Entry
<1>4. Applied(c, r, cfg) = [e EXCEPT !.blocking = stop]
  BY DEF Applied
<1>5. stop \in BOOLEAN
  BY <1>3 DEF Entry, Unavailable
<1> HIDE DEF e
<1>6. /\ [e EXCEPT !.blocking = stop] \in Entry
      /\ [e EXCEPT !.blocking = stop].status = e.status
      /\ [e EXCEPT !.blocking = stop].blocking = stop
  BY <1>3, <1>5 DEF Entry
<1>q. QED
  BY <1>3, <1>4, <1>6

\* The part of the invariant that the scheduler's steps need.
Selected ==
    /\ specs \in Projects /\ config \in Configs
    /\ \A c \in Checks : Coverage \notin plan.requires[c]

\* The report, from the moment policy is applied.
Reported ==
    /\ \A c \in Checks : report[c] =
          IF c \in plan.checks THEN Applied(c, results[c], config) ELSE None
    /\ overall = Worst({"PASS"} \union {report[c].status : c \in plan.checks})

VIInv ==
    /\ Selected
    /\ phase \in {"configure", "run", "write", "ended"}
    /\ saved \in BOOLEAN
    /\ core \in Entry /\ core.status \in {"PASS", "NOT_TESTED", "ERROR"}
    /\ core.status = "NOT_TESTED" => core.blocking /\ overall = "NOT_TESTED"
    /\ core.status = "ERROR" => overall = "ERROR"
    /\ phase = "configure" <=> pc = "waiting" /\ core.status = "PASS"
    /\ phase = "run" => core.status = "PASS"
    /\ phase \in {"configure", "run"} =>
          overall = "PASS" /\ \A c \in Checks : report[c] = None
    /\ Decided => pc = "done" /\ Reported
    /\ report \in [Checks -> Entry \union {None}]
    /\ phase = "ended" => saved \/ core.status = "ERROR"

\* A verification's steps are the scheduler's, or leave it alone.
LEMMA SchedulerStep ==
    ASSUME Selected, [VNext]_allVars
    PROVE  [Next]_vars
<1>1. CASE Configure
  BY <1>1, FilterAssumption DEF Configure, Selected, Next, Start
<1>2. CASE RunChecks \/ Interrupt
  BY <1>2 DEF RunChecks, Interrupt, Next
<1>3. CASE Refuse \/ Apply \/ Finalize \/ Ended \/ UNCHANGED allVars
  BY <1>3 DEF Refuse, Apply, Finalize, Ended, allVars
<1>q. QED
  BY <1>1, <1>2, <1>3 DEF VNext

LEMMA SelectedStays == Selected /\ [VNext]_allVars => Selected'
<1> SUFFICES ASSUME Selected, [VNext]_allVars PROVE Selected'
  OBVIOUS
<1> USE DEF Selected
<1>1. CASE Configure
  <2>1. plan' = FilterChecks(specs, config) /\ specs \in Plan
    BY <1>1, ProjectsAssumption DEF Configure, Begin
  <2>2. plan'.requires = specs.requires
    BY <2>1 DEF FilterChecks, Plan
  <2>q. QED
    BY <1>1, <2>2, CoverageAssumption DEF Configure
<1>2. CASE RunChecks
  BY <1>2 DEF RunChecks, Work, Iterate, NoProgress, SkipBlocked, StartBatch, CollectBatch,
     Acquire, Return, vvars
<1>3. CASE Refuse \/ Apply \/ Finalize \/ Interrupt \/ Ended \/ UNCHANGED allVars
  BY <1>3 DEF Refuse, Apply, Finalize, Interrupt, Cancel, Ended, allVars, vars, vvars
<1>q. QED
  BY <1>1, <1>2, <1>3 DEF VNext

\* Schedules: in a verification the scheduler behaves as it promises, whatever
\* the policy: what is proved of the scheduler holds of every verification.
THEOREM Schedules == VSpec => Spec
<1>1. VInit => Init /\ Selected
  BY CoverageAssumption DEF VInit, Init, Selected, NoPlan
<1>2. Selected /\ [VNext]_allVars => Selected' /\ [Next]_vars
  BY SchedulerStep, SelectedStays
<1>q. QED
  BY <1>1, <1>2, PTL DEF VSpec, Spec

\* With the loop done, every check of the plan has its verdict.
LEMMA DoneIsComplete ==
    ASSUME IInv, pc = "done"
    PROVE  \A c \in plan.checks : c \in Checks /\ results[c] \in Result /\ results[c] # None
<1>1. plan.checks \subseteq Checks
  BY PlanFacts DEF IInv, Plan
<1>q. QED
  BY <1>1 DEF IInv, Accounted, TypeOK

LEMMA VInitInv == VInit => VIInv
<1> SUFFICES ASSUME VInit PROVE VIInv
  OBVIOUS
<1>1. Selected /\ pc = "waiting"
  BY CoverageAssumption DEF VInit, Init, Selected, NoPlan
<1>q. QED
  BY <1>1 DEF VInit, VIInv, Entry, Status, Decided

LEMMA ApplyStep ==
    ASSUME IInv, VIInv, Apply
    PROVE  VIInv'
<1> USE DEF Apply
<1>0. /\ Selected' /\ phase' = "write" /\ pc = "done" /\ pc' = pc /\ core.status = "PASS"
      /\ core' = core /\ plan' = plan /\ results' = results /\ config' = config
  BY DEF VIInv, Selected, vars
<1>1. config \in Config
  BY ConfigsAssumption DEF VIInv, Selected
<1>2. \A c \in plan.checks : c \in Checks /\ Applied(c, results[c], config) \in Entry
  BY <1>0, <1>1, DoneIsComplete, AppliedFacts
<1>3. /\ report' \in [Checks -> Entry \union {None}]
      /\ \A c \in Checks : report'[c] =
            IF c \in plan.checks THEN Applied(c, results[c], config) ELSE None
  BY <1>2
<1>4. Reported'
  BY <1>0, <1>3 DEF Reported
<1>q. QED
  BY <1>0, <1>3, <1>4 DEF VIInv, Decided

LEMMA FinalizeStep ==
    ASSUME VIInv, Finalize
    PROVE  VIInv'
<1>0. /\ UNCHANGED <<pc, plan, results, specs, config, report>> /\ phase = "write"
      /\ phase' = "ended" /\ Selected'
  BY DEF Finalize, VIInv, Selected, vars
<1>1. CASE saved' = TRUE /\ UNCHANGED <<core, overall>>
  BY <1>0, <1>1 DEF VIInv, Decided, Reported
<1>2. CASE saved' = FALSE /\ core' = [status |-> "ERROR", blocking |-> FALSE] /\ overall' = "ERROR"
  BY <1>0, <1>2 DEF VIInv, Decided, Entry, Status
<1>q. QED
  BY <1>1, <1>2 DEF Finalize

LEMMA RefuseStep ==
    ASSUME VIInv, Refuse
    PROVE  VIInv'
<1>0. /\ UNCHANGED <<pc, plan, results, specs, config, report, saved>> /\ phase = "configure"
      /\ phase' = "write" /\ Selected'
  BY DEF Refuse, VIInv, Selected, vars
<1>1. /\ core' \in Entry /\ core'.status \in {"NOT_TESTED", "ERROR"}
      /\ core'.status = "NOT_TESTED" => core'.blocking
      /\ overall' = core'.status
  <2>1. CASE core' = [status |-> "ERROR", blocking |-> FALSE]
    BY <2>1 DEF Refuse, Entry, Status
  <2>2. CASE core' = [status |-> "NOT_TESTED", blocking |-> TRUE]
    BY <2>2 DEF Refuse, Entry, Status
  <2>q. QED
    BY <2>1, <2>2 DEF Refuse
<1>q. QED
  BY <1>0, <1>1 DEF VIInv, Decided

LEMMA RunStep ==
    ASSUME IInv, VIInv, Configure \/ RunChecks \/ Interrupt \/ Ended \/ UNCHANGED allVars
    PROVE  VIInv'
<1>1. Selected'
  BY SelectedStays DEF VIInv, VNext
<1>2. CASE Configure
  BY <1>1, <1>2 DEF Configure, Begin, VIInv, Decided
<1>3. CASE RunChecks
  <2>1. pc # "waiting" /\ pc' # "waiting"
    <3>1. pc # "waiting"
      BY <1>3 DEF RunChecks, VIInv
    <3>q. QED
      BY <1>3, <3>1 DEF RunChecks, Work, Iterate, NoProgress, SkipBlocked, StartBatch,
         CollectBatch, Acquire, Return
  <2>q. QED
    BY <1>1, <1>3, <2>1 DEF RunChecks, VIInv, Decided, vvars
<1>4. CASE Interrupt \/ Ended \/ UNCHANGED allVars
  <2>1. UNCHANGED <<vvars, pc, plan, results>>
    BY <1>4 DEF Interrupt, Cancel, Ended, allVars, vars
  <2>q. QED
    BY <1>1, <2>1 DEF VIInv, Decided, Reported, vvars
<1>q. QED
  BY <1>2, <1>3, <1>4

LEMMA VNextInv == IInv /\ VIInv /\ [VNext]_allVars => VIInv'
BY ApplyStep, FinalizeStep, RefuseStep, RunStep DEF VNext

THEOREM VInvariance == VSpec => [](IInv /\ VIInv)
<1>1. VSpec => []IInv
  BY Schedules, Invariance, PTL
<1>q. QED
  BY <1>1, VInitInv, VNextInv, PTL DEF VSpec

-----------------------------------------------------------------------------
(* What follows from the invariant.                                        *)

\* The overall status, once policy is applied, is at least as severe as that
\* of every check.
LEMMA OverallFacts ==
    ASSUME IInv, VIInv, Decided
    PROVE  /\ overall \in Status \ {"SKIP"}
           /\ \A c \in plan.checks :
                 /\ c \in Checks /\ report[c] = Applied(c, results[c], config)
                 /\ report[c] \in Entry
                 /\ Severity(report[c].status) <= Severity(overall)
<1> DEFINE S == {"PASS"} \union {report[c].status : c \in plan.checks}
<1>1. config \in Config /\ pc = "done" /\ Reported
  BY ConfigsAssumption DEF VIInv, Selected
<1>2. \A c \in plan.checks :
         c \in Checks /\ report[c] = Applied(c, results[c], config) /\ report[c] \in Entry
  BY <1>1, DoneIsComplete, AppliedFacts DEF Reported
<1>3. S \in SUBSET Status /\ "PASS" \in S
  BY <1>2 DEF Entry, Status
<1>4. overall = Worst(S)
  BY <1>1 DEF Reported
<1>5. overall \in S \ {"SKIP"} /\ \A t \in S : Severity(t) <= Severity(overall)
  BY <1>3, <1>4, WorstFacts
<1>q. QED
  BY <1>2, <1>3, <1>5

LEMMA EarnedHolds ==
    ASSUME IInv, VIInv, phase = "ended", ExitCode = 0
    PROVE  /\ saved
           /\ \A c \in plan.checks : report[c].status \notin {"FAIL", "ERROR"}
           /\ \A c \in (plan.checks \cap config.required) \ {Coverage} :
                 results[c].why = "returned" /\ results[c].status \in {"PASS", "WARN"}
<1> DEFINE stops(e) == e.status = "FAIL" \/ (e.blocking /\ e.status # "PASS")
<1>1. overall # "ERROR" /\ ~stops(core)
      /\ \A c \in Checks : report[c] # None => ~stops(report[c])
  BY DEF ExitCode
<1>2. core.status = "PASS"
  BY <1>1 DEF VIInv
<1>3. saved /\ Decided /\ pc = "done" /\ config \in Config
  BY <1>2, ConfigsAssumption DEF VIInv, Decided, Selected
<1>4. \A c \in plan.checks : /\ c \in Checks /\ report[c] = Applied(c, results[c], config)
                             /\ report[c] \in Entry /\ ~stops(report[c])
                             /\ Severity(report[c].status) <= Severity(overall)
  BY <1>1, <1>3, OverallFacts, EntryAssumption
<1>5. \A c \in plan.checks : report[c].status \notin {"FAIL", "ERROR"}
  BY <1>1, <1>3, <1>4, OverallFacts DEF Severity, Status
<1>6. ASSUME NEW c \in (plan.checks \cap config.required) \ {Coverage}
      PROVE  results[c].why = "returned" /\ results[c].status \in {"PASS", "WARN"}
  <2>1. c \in Checks /\ results[c] \in Result /\ results[c] # None
    BY <1>3, <1>6, DoneIsComplete
  <2>2. /\ report[c].status = results[c].status
        /\ Unavailable(report[c].status) => report[c].blocking
    BY <1>3, <1>4, <2>1, AppliedFacts
  <2>3. results[c].status \in {"PASS", "WARN"}
    <3>1. ~Unavailable(report[c].status)
      BY <1>4, <2>2 DEF Unavailable
    <3>q. QED
      BY <1>4, <1>5, <2>2, <3>1 DEF Unavailable, Entry, Status
  <2>4. /\ results[c].why \in Ends \union {"dependency", "not run", "no progress"}
        /\ results[c].why \in {"timed out", "cancelled"} => results[c].status = "ERROR"
        /\ results[c].why \in {"dependency", "not run"} => results[c].status = "SKIP"
    BY <2>1, ResultShape
  <2>5. results[c].why # "no progress"
    BY <2>1 DEF IInv, SkippedForCause
  <2>q. QED
    BY <2>3, <2>4, <2>5 DEF Ends
<1>q. QED
  BY <1>3, <1>5, <1>6

\* ZeroIsEarned: whatever the checks return and whenever the run is cancelled,
\* exit code 0 means saved evidence, no failure, and required checks that ran.
THEOREM ZeroIsEarned == VSpec => []ExitZeroIsEarned
<1>1. IInv /\ VIInv => ExitZeroIsEarned
  BY EarnedHolds DEF ExitZeroIsEarned
<1>q. QED
  BY <1>1, VInvariance, PTL

LEMMA PassHolds ==
    ASSUME IInv, VIInv, Decided, overall = "PASS", ~cancelled
    PROVE  \A c \in plan.checks : HasRun(results[c])
<1> DEFINE skipped == {c \in plan.checks : ~HasRun(results[c])}
<1>1. /\ \A c \in plan.checks : c \in Checks /\ results[c] \in Result /\ results[c] # None
      /\ config \in Config
  BY DoneIsComplete, ConfigsAssumption DEF VIInv, Selected
<1>2. \A c \in plan.checks : c # Coverage => results[c].status \in {"PASS", "SKIP"}
  <2>1. ASSUME NEW c \in plan.checks, c # Coverage
        PROVE  results[c].status \in {"PASS", "SKIP"}
    <3>1. /\ report[c].status = results[c].status
          /\ Severity(report[c].status) <= Severity("PASS")
          /\ report[c].status \in Status
      BY <1>1, <2>1, OverallFacts, AppliedFacts DEF Entry
    <3>q. QED
      BY <3>1 DEF Severity, Status
  <2>q. QED
    BY <2>1
<1>3. ASSUME NEW c \in skipped
      PROVE  \E d \in plan.requires[c] : d \in skipped
  <2>1. results[c].why = "dependency"
    <3>1. results[c].why \in Ends \union {"dependency", "not run", "no progress"}
      BY <1>1, ResultShape
    <3>2. results[c].why # "not run" /\ results[c].why # "no progress"
      BY <1>1 DEF IInv, SkippedForCause
    <3>q. QED
      BY <1>1, <3>1, <3>2 DEF HasRun
  <2>2. Blocked(c)
    BY <1>1, <2>1 DEF IInv, SkippedForCause
  <2>3. PICK d \in plan.requires[c] : Blocks(results[d])
    BY <2>2 DEF Blocked
  <2>4. d \in plan.checks /\ d # Coverage
    BY <1>1, <2>3, PlanFacts DEF IInv, Acyclic, VIInv, Selected
  <2>5. results[d].status = "SKIP"
    BY <1>1, <1>2, <2>3, <2>4, ResultShape DEF Blocks
  <2>6. ~HasRun(results[d])
    BY <1>1, <2>4, <2>5, ResultShape DEF HasRun
  <2>q. QED
    BY <2>4, <2>6
<1>4. skipped = {}
  BY <1>3, PlanFacts DEF IInv, Acyclic
<1>q. QED
  BY <1>4

\* PassIsComplete: a skipped check leads, dependency by dependency, to one that
\* did not pass; so an uncancelled verification that reports PASS skipped none.
THEOREM PassIsComplete == VSpec => []PassHasRunAll
<1>1. IInv /\ VIInv => PassHasRunAll
  BY PassHolds DEF PassHasRunAll
<1>q. QED
  BY <1>1, VInvariance, PTL

\* VerificationTypes: the report's variables are well typed, and a report that
\* was refused says so.
THEOREM VerificationTypes == VSpec => []VTypeOK
<1>1. IInv /\ VIInv => VTypeOK
  <2> SUFFICES ASSUME IInv, VIInv PROVE VTypeOK
    OBVIOUS
  <2>1. overall \in Status \ {"SKIP"}
    <3>1. CASE core.status # "PASS" \/ phase \in {"configure", "run"}
      BY <3>1 DEF VIInv, Status
    <3>2. CASE Decided
      BY <3>2, OverallFacts
    <3>q. QED
      BY <3>1, <3>2 DEF VIInv, Decided
  <2>q. QED
    BY <2>1 DEF VIInv, VTypeOK, Selected
<1>q. QED
  BY <1>1, VInvariance, PTL
=============================================================================
