--------------------------- MODULE RegistryProofs ---------------------------
(***************************************************************************)
(* Proofs about the registry, for any number of invocations, projects and  *)
(* directories, any wait, and holders that may stall.  The inductive       *)
(* invariant adds to the lock and to the recorded runs what an invocation  *)
(* about to save carries: a copy that differs from the file only as its    *)
(* own update and the deaths it saw allow.                                 *)
(***************************************************************************)
EXTENDS Registry, TLAPS

WellFormed(f) ==
    /\ f \in File
    /\ \A j \in Projects :
          /\ f[j].state = "absent" <=> f[j].path = Nowhere
          /\ f[j].state = "running" => f[j].pid = f[j].run
          /\ f[j].state = "absent" => f[j].run = Nobody

\* The runs that a registry mentions have started.
Started(f) == \A j \in Projects : f[j].run \in Procs => pc[f[j].run] # "new"

\* What the copy c that p is about to save may change in the file.
Lawful(p, c) == \A j \in Projects :
    /\ file[j].state # "absent" => c[j].state # "absent"
    /\ \/ RunOf(c, j) = RunOf(file, j)
       \/ ~Alive(RunOf(file, j)) /\ RunOf(c, j) \in {p, Nobody}
       \/ RunOf(file, j) = p /\ RunOf(c, j) = Nobody /\ op[p] = "finish"

Recording(p) ==
    LET e == copy[p][job[p].project]
    IN op[p] = "begin" => e.state = "running" /\ e.run = p /\ e.pid = p

CopiesWellFormed == \A p \in Procs : WellFormed(copy[p]) /\ Started(copy[p])

Saving ==
    \A p \in Procs : pc[p] = "save" =>
        /\ op[p] # "resolve" => result[p] = "ok"
        /\ Recording(p)
        /\ ~usurped => Lawful(p, copy[p])

\* No run is recorded of an invocation that has not begun.
Fresh == \A p \in Procs : pc[p] = "new" => ~recorded[p]

IInv ==
    /\ TypeOK
    /\ Fresh
    /\ WellFormed(file) /\ Started(file)
    /\ CopiesWellFormed
    /\ LockHeld
    /\ Saving
    /\ RecordedRunIsRunning

States == {"new", "poll", "held", "unlink", "wait", "load", "save",
           "unlock", "verify", "report", "gone", "dead"}

-----------------------------------------------------------------------------
(* The operators on registries.                                            *)

\* normalizeStale keeps everything but the runs of the dead.
LEMMA NormalizedFacts ==
    ASSUME NEW r, WellFormed(r)
    PROVE  /\ WellFormed(Normalized(r))
           /\ \A j \in Projects :
                 /\ Normalized(r)[j].run = r[j].run
                 /\ Normalized(r)[j].path = r[j].path
                 /\ Normalized(r)[j].state = "absent" <=> r[j].state = "absent"
                 /\ Normalized(r)[j].state = "running" => r[j].state = "running"
                 /\ r[j].state = "running" /\ Alive(r[j].run) => Normalized(r)[j].state = "running"
<1>1. \A j \in Projects : r[j] \in Entry
  BY DEF WellFormed, File
<1>2. \A j \in Projects : Normalized(r)[j] \in Entry
  BY <1>1 DEF Normalized, Entry
<1>3. Normalized(r) \in File
  BY <1>2 DEF Normalized, File
<1>4. \A j \in Projects :
         /\ Normalized(r)[j].run = r[j].run
         /\ Normalized(r)[j].path = r[j].path
         /\ Normalized(r)[j].state = "absent" <=> r[j].state = "absent"
         /\ Normalized(r)[j].state = "running" => r[j].state = "running" /\ Normalized(r)[j].pid = r[j].pid
  BY <1>1 DEF Normalized, Entry
<1>5. \A j \in Projects :
         r[j].state = "running" /\ Alive(r[j].run) => Normalized(r)[j].state = "running"
  BY <1>1 DEF Normalized, Entry, WellFormed
<1>q. QED
  BY <1>3, <1>4, <1>5 DEF WellFormed

\* An update that is not refused yields a registry, in which only the entry
\* of the invocation's project may have a new run, that of the invocation.
LEMMA MutatedFacts ==
    ASSUME NEW p \in Procs, NEW r, WellFormed(r),
           job[p] \in [project : Projects, path : Paths],
           op[p] = "resolve" \/ Refusal(p, r) = "ok"
    PROVE  /\ WellFormed(Mutated(p, r))
           /\ \A j \in Projects : r[j].state # "absent" => Mutated(p, r)[j].state # "absent"
           /\ \A j \in Projects : j # job[p].project => Mutated(p, r)[j] = r[j]
           /\ LET e == r[job[p].project]
                  n == Mutated(p, r)[job[p].project]
              IN /\ op[p] = "begin" => /\ n.state = "running" /\ n.run = p /\ n.pid = p
                                       /\ e.state # "running"
                 /\ op[p] = "finish" => n.state # "running" /\ n.run = e.run /\ e.run = p
                 /\ op[p] \notin {"begin", "finish"} =>
                       /\ e.state = "running" <=> n.state = "running"
                       /\ n.run = e.run \/ n.run = Nobody
                       /\ n.state = "running" => n.run = e.run
<1> DEFINE k == job[p].project
<1>0. /\ k \in Projects /\ job[p].path \in Paths /\ r \in [Projects -> Entry]
      /\ r[k] \in Entry /\ Nowhere \notin Paths
  BY BoundAssumption DEF WellFormed, File
<1>1. CASE op[p] = "register"
  <2>1. CASE r[k].state = "absent"
    <3> DEFINE n == [state |-> "idle", path |-> job[p].path, run |-> Nobody, pid |-> Nobody]
    <3>1. Mutated(p, r) = [r EXCEPT ![k] = n]
      BY <1>1, <2>1 DEF Mutated
    <3>2. n \in Entry
      BY <1>0 DEF Entry
    <3> HIDE DEF n
    <3>3. Mutated(p, r) \in File /\ Mutated(p, r)[k] = n
          /\ \A j \in Projects : j # k => Mutated(p, r)[j] = r[j]
      BY <3>1, <3>2, <1>0 DEF File
    <3>4. n.state = "idle" /\ n.path = job[p].path /\ n.run = Nobody
      BY DEF n
    <3>q. QED
      BY <3>3, <3>4, <1>0, <1>1, <2>1 DEF WellFormed
  <2>2. CASE r[k].state # "absent"
    <3> DEFINE n == [r[k] EXCEPT !.path = job[p].path]
    <3>1. Mutated(p, r) = [r EXCEPT ![k] = n]
      BY <1>1, <2>2 DEF Mutated
    <3>2. n \in Entry /\ n.state = r[k].state /\ n.path = job[p].path /\ n.run = r[k].run /\ n.pid = r[k].pid
      BY <1>0 DEF Entry
    <3> HIDE DEF n
    <3>3. Mutated(p, r) \in File /\ Mutated(p, r)[k] = n
          /\ \A j \in Projects : j # k => Mutated(p, r)[j] = r[j]
      BY <3>1, <3>2, <1>0 DEF File
    <3>q. QED
      BY <3>2, <3>3, <1>0, <1>1, <2>2 DEF WellFormed
  <2>q. QED
    BY <2>1, <2>2
<1>2. CASE op[p] = "begin"
  <2> DEFINE n == [state |-> "running", path |-> job[p].path, run |-> p, pid |-> p]
  <2>1. Mutated(p, r) = [r EXCEPT ![k] = n]
    BY <1>2 DEF Mutated
  <2>2. n \in Entry /\ n.state = "running" /\ n.path = job[p].path /\ n.run = p /\ n.pid = p
    BY <1>0 DEF Entry
  <2> HIDE DEF n
  <2>3. Mutated(p, r) \in File /\ Mutated(p, r)[k] = n
        /\ \A j \in Projects : j # k => Mutated(p, r)[j] = r[j]
    BY <2>1, <2>2, <1>0 DEF File
  <2>4. r[k].state # "running"
    BY <1>2 DEF Refusal
  <2>q. QED
    BY <2>2, <2>3, <2>4, <1>0, <1>2 DEF WellFormed
<1>3. CASE op[p] = "finish"
  <2> DEFINE n == [r[k] EXCEPT !.state = "finished", !.pid = Nobody]
  <2>1. Mutated(p, r) = [r EXCEPT ![k] = n]
    BY <1>3 DEF Mutated
  <2>2. n \in Entry /\ n.state = "finished" /\ n.path = r[k].path /\ n.run = r[k].run
    BY <1>0 DEF Entry
  <2> HIDE DEF n
  <2>3. Mutated(p, r) \in File /\ Mutated(p, r)[k] = n
        /\ \A j \in Projects : j # k => Mutated(p, r)[j] = r[j]
    BY <2>1, <2>2, <1>0 DEF File
  <2>4. r[k].run = p /\ r[k].state # "absent"
    BY <1>3, <1>0, ProcsAssumption DEF Refusal, WellFormed
  <2>q. QED
    BY <2>2, <2>3, <2>4, <1>0, <1>3 DEF WellFormed
<1>4. CASE op[p] \notin {"register", "begin", "finish"}
  <2>1. Mutated(p, r) = r
    BY <1>4 DEF Mutated
  <2>q. QED
    BY <2>1, <1>4
<1>q. QED
  BY <1>1, <1>2, <1>3, <1>4

-----------------------------------------------------------------------------
(* Steps.                                                                  *)

\* What a step of p, or p's death, leaves to the other invocations.
Frame(p) ==
    /\ \A q \in Procs \ {p} :
          /\ pc'[q] = pc[q] /\ op'[q] = op[q] /\ job'[q] = job[q]
          /\ result'[q] = result[q] /\ recorded'[q] = recorded[q] /\ copy'[q] = copy[q]
    /\ job'[p].project = job[p].project

Ops == {"resolve", "register", "begin", "finish"}
Results == {"none", "ok", "active", "error"}

\* The caller of the registry goes on; it believes that its run is recorded
\* only if it already did.
LEMMA ReturnFacts ==
    ASSUME TypeOK, NEW p \in Procs, NEW r \in Results, Return(p, r),
           pc[p] \in {"poll", "wait", "unlock"},
           r = "ok" => pc[p] = "unlock" /\ result[p] = "ok"
    PROVE  /\ pc' \in [Procs -> States] /\ op' \in [Procs -> Ops]
           /\ polls' \in [Procs -> 0..MaxPolls]
           /\ result' \in [Procs -> Results] /\ recorded' \in [Procs -> BOOLEAN]
           /\ pc'[p] \in {"poll", "verify", "report"}
           /\ Owns(p)' => Owns(p)
           /\ \A q \in Procs \ {p} :
                 /\ pc'[q] = pc[q] /\ op'[q] = op[q]
                 /\ result'[q] = result[q] /\ recorded'[q] = recorded[q]
<1>1. /\ polls' \in [Procs -> 0..MaxPolls] /\ result' = [result EXCEPT ![p] = "none"]
      /\ result' \in [Procs -> Results]
  BY BoundAssumption DEF TypeOK, Return, Results
<1>2. CASE Goto(p, "report") /\ UNCHANGED <<op, recorded>>
  BY <1>1, <1>2 DEF TypeOK, Goto, States, Ops, Results, Owns, Alive, Ended
<1>3. CASE op[p] \in {"resolve", "register"} /\ UNCHANGED recorded /\ \E o \in Ops \ {"finish"} : Enter(p, "poll", o)
  BY <1>1, <1>3 DEF TypeOK, Goto, Enter, States, Ops, Results, Owns, Alive, Ended
<1>4. CASE op[p] = "begin" /\ Goto(p, "verify") /\ UNCHANGED op
           /\ recorded' = [recorded EXCEPT ![p] = (r = "ok")]
  BY <1>1, <1>4 DEF TypeOK, Goto, States, Ops, Results, Owns, Alive, Ended
<1>q. QED
  BY <1>2, <1>3, <1>4 DEF Return, Ops

\* Load, in the terms that the invariants need.
LEMMA LoadFacts ==
    ASSUME IInv, NEW p \in Procs, Load(p)
    PROVE  /\ Frame(p) /\ TypeOK'
           /\ pc'[p] \in {"save", "unlock"} /\ op'[p] = op[p] /\ recorded'[p] = recorded[p]
           /\ result'[p] = "ok" => pc'[p] = "save" \/ op[p] = "resolve"
           /\ \/ copy' = copy /\ pc'[p] = "unlock"
              \/ LET r == Normalized(file)
                 IN /\ pc'[p] = "save" /\ result'[p] = Refusal(p, r)
                    /\ op[p] = "resolve" \/ Refusal(p, r) = "ok"
                    /\ copy'[p] = Mutated(p, r) /\ WellFormed(copy'[p])
<1> DEFINE r == Normalized(file)
<1>1. pc[p] = "load" /\ UNCHANGED <<file, lock, usurped, op, polls, recorded>>
  BY DEF Load
<1>2. WellFormed(r)
  BY NormalizedFacts DEF IInv
<1>3. Refusal(p, r) \in {"ok", "active", "error"}
  BY DEF Refusal
<1>4. job[p] \in [project : Projects, path : Paths]
  BY DEF IInv, TypeOK
<1>5. CASE result' = [result EXCEPT ![p] = "error"] /\ Goto(p, "unlock") /\ UNCHANGED <<job, copy>>
  BY <1>1, <1>5 DEF Frame, IInv, TypeOK, Goto
<1>6. CASE /\ result' = [result EXCEPT ![p] = Refusal(p, r)]
           /\ job' = [job EXCEPT ![p].path =
                         IF op[p] = "resolve" /\ Refusal(p, r) = "ok"
                         THEN r[job[p].project].path ELSE @]
           /\ \/ /\ (op[p] = "resolve" /\ r # file) \/ (op[p] # "resolve" /\ Refusal(p, r) = "ok")
                 /\ copy' = [copy EXCEPT ![p] = Mutated(p, r)] /\ Goto(p, "save")
              \/ /\ ~((op[p] = "resolve" /\ r # file) \/ (op[p] # "resolve" /\ Refusal(p, r) = "ok"))
                 /\ Goto(p, "unlock") /\ UNCHANGED copy
  <2>1. /\ pc' \in [Procs -> States] /\ pc'[p] \in {"save", "unlock"}
        /\ \A q \in Procs \ {p} : pc'[q] = pc[q]
    BY <1>6 DEF IInv, TypeOK, Goto, States
  <2>2. /\ result' \in [Procs -> Results] /\ result'[p] = Refusal(p, r)
        /\ \A q \in Procs \ {p} : result'[q] = result[q]
    BY <1>6, <1>3 DEF IInv, TypeOK, Results
  <2>3. /\ job' \in [Procs -> [project : Projects, path : Paths]]
        /\ job'[p].project = job[p].project
        /\ \A q \in Procs \ {p} : job'[q] = job[q]
    <3> DEFINE d == IF op[p] = "resolve" /\ Refusal(p, r) = "ok"
                    THEN r[job[p].project].path ELSE job[p].path
    <3>1. d \in Paths
      BY <1>2, <1>4 DEF Refusal, WellFormed, File, Entry
    <3>2. job' = [job EXCEPT ![p].path = d]
      BY <1>6
    <3>q. QED
      BY <3>1, <3>2, <1>4 DEF IInv, TypeOK
  <2>4. CASE /\ op[p] = "resolve" \/ Refusal(p, r) = "ok"
             /\ copy' = [copy EXCEPT ![p] = Mutated(p, r)] /\ Goto(p, "save")
    <3>1. WellFormed(Mutated(p, r))
      BY <2>4, <1>2, <1>4, MutatedFacts
    <3>2. /\ copy' \in [Procs -> File] /\ copy'[p] = Mutated(p, r)
          /\ \A q \in Procs \ {p} : copy'[q] = copy[q]
      BY <2>4, <3>1 DEF IInv, TypeOK, WellFormed
    <3>3. pc'[p] = "save"
      BY <2>4 DEF IInv, TypeOK, Goto
    <3>4. TypeOK'
      BY <1>1, <2>1, <2>2, <2>3, <3>2 DEF IInv, TypeOK, States, Results
    <3>q. QED
      BY <1>1, <2>1, <2>2, <2>3, <2>4, <3>1, <3>2, <3>3, <3>4 DEF Frame
  <2>5. CASE /\ op[p] = "resolve" \/ Refusal(p, r) # "ok"
             /\ Goto(p, "unlock") /\ UNCHANGED copy
    <3>3. pc'[p] = "unlock"
      BY <2>5 DEF IInv, TypeOK, Goto
    <3>4. TypeOK'
      BY <1>1, <2>1, <2>2, <2>3, <2>5 DEF IInv, TypeOK, States, Results
    <3>q. QED
      BY <1>1, <2>1, <2>2, <2>3, <2>5, <3>3, <3>4 DEF Frame
  <2>q. QED
    BY <1>6, <2>4, <2>5
<1>q. QED
  BY <1>5, <1>6 DEF Load

LEMMA RemoveLockType ==
    ASSUME TypeOK, NEW p \in Procs, RemoveLock(p) \/ UNCHANGED <<lock, usurped>>
    PROVE  lock' \in Lock /\ usurped' \in BOOLEAN
<1>1. NoLock \in Lock
  BY DEF NoLock, Lock
<1>2. CASE RemoveLock(p)
  <2>1. (usurped \/ (lock.owner # p /\ Holding(lock.owner))) \in BOOLEAN
    BY ZenonT(30) DEF TypeOK, Holding
  <2>q. QED
    BY <1>1, <1>2, <2>1 DEF RemoveLock
<1>q. QED
  BY <1>2 DEF TypeOK

\* Every step keeps the types and touches one invocation.
LEMMA StepFrame ==
    ASSUME IInv, NEW p \in Procs, Step(p) \/ Crash(p)
    PROVE  /\ TypeOK' /\ Frame(p)
           /\ copy'[p] = copy[p] \/ Load(p) \/ Save(p)
           /\ pc'[p] # "new" /\ ~Ended(p)
<1> USE DEF States, Ops, Results
<1>1. CASE Start(p)
  BY <1>1 DEF IInv, TypeOK, Start, Goto, Frame, Ended
<1>2. CASE Poll(p)
  <2>1. CASE Return(p, "error") /\ UNCHANGED lock
    BY <1>2, <2>1, ReturnFacts DEF IInv, TypeOK, Poll, Frame, Ended
  <2>2. CASE ~(Return(p, "error") /\ UNCHANGED lock)
    <3>1. lock' \in Lock
      <4>1. [owner |-> p, old |-> FALSE, there |-> TRUE] \in Lock
        BY DEF Lock
      <4>q. QED
        BY <1>2, <2>2, <4>1 DEF IInv, TypeOK, Poll
    <3>2. \E l \in {"load", "held"} : Goto(p, l)
      BY <1>2, <2>2 DEF Poll
    <3>3. UNCHANGED <<file, usurped, op, job, polls, copy, result, recorded>>
      BY <1>2, <2>2 DEF Poll
    <3>q. QED
      BY <3>1, <3>2, <3>3, <1>2 DEF IInv, TypeOK, Goto, Frame, Ended, Poll
  <2>q. QED
    BY <2>1, <2>2
<1>3. CASE Stat(p)
  BY <1>3 DEF IInv, TypeOK, Stat, Goto, Frame, Ended
<1>4. CASE Unlink(p)
  <2>1. lock' \in Lock /\ usurped' \in BOOLEAN
    BY <1>4, RemoveLockType DEF IInv, Unlink
  <2>2. \E l \in {"poll", "wait"} : Goto(p, l)
    BY <1>4 DEF Unlink
  <2>3. pc[p] = "unlink" /\ UNCHANGED <<file, op, job, polls, copy, result, recorded>>
    BY <1>4 DEF Unlink
  <2>q. QED
    BY <2>1, <2>2, <2>3 DEF IInv, TypeOK, Goto, Frame, Ended
<1>5. CASE Wait(p)
  <2>1. CASE Return(p, "error")
    BY <1>5, <2>1, ReturnFacts DEF IInv, TypeOK, Wait, Frame, Ended
  <2>2. CASE ~Return(p, "error")
    BY <1>5, <2>2, BoundAssumption, SMTT(30) DEF IInv, TypeOK, Wait, Goto, Frame, Ended
  <2>q. QED
    BY <2>1, <2>2
<1>6. CASE Load(p)
  BY <1>6, LoadFacts DEF Load, Ended
<1>7. CASE Save(p)
  <2>1. /\ WellFormed(copy[p]) /\ copy[p] \in File
        /\ \A j \in Projects : copy[p][j].state = "absent" <=> copy[p][j].path = Nowhere
    BY DEF IInv, CopiesWellFormed, WellFormed
  <2>2. Empty \in File
    BY DEF Empty, NoEntry, File, Entry
  <2>3. /\ file' \in File
        /\ \A j \in Projects : file'[j].state = "absent" <=> file'[j].path = Nowhere
    BY <1>7, <2>1 DEF IInv, TypeOK, Save
  <2>4. /\ pc' \in [Procs -> States] /\ copy' \in [Procs -> File] /\ result' \in [Procs -> Results]
        /\ pc'[p] = "unlock" /\ UNCHANGED <<lock, usurped, op, job, polls, recorded>>
        /\ \A q \in Procs \ {p} : pc'[q] = pc[q] /\ copy'[q] = copy[q] /\ result'[q] = result[q]
    BY <1>7, <2>2 DEF IInv, TypeOK, Save, Goto
  <2>q. QED
    BY <1>7, <2>3, <2>4 DEF IInv, TypeOK, Frame, Save, Ended
<1>8. CASE Unlock(p)
  <2>1. result[p] \in Results /\ pc[p] = "unlock"
    BY <1>8 DEF IInv, TypeOK, Unlock
  <2>2. lock' \in Lock /\ usurped' \in BOOLEAN
    BY <1>8, RemoveLockType DEF IInv, Unlock
  <2>q. QED
    BY <1>8, <2>1, <2>2, ReturnFacts, SMTT(30) DEF IInv, TypeOK, Unlock, Frame, Ended
<1>9. CASE Verified(p)
  BY <1>9 DEF IInv, TypeOK, Verified, Goto, Enter, Frame, Ended
<1>10. CASE Exit(p)
  BY <1>10 DEF IInv, TypeOK, Exit, Goto, Frame, Ended
<1>11. CASE Crash(p)
  BY <1>11 DEF IInv, TypeOK, Crash, Goto, Frame, Alive
<1>q. QED
  BY <1>1, <1>2, <1>3, <1>4, <1>5, <1>6, <1>7, <1>8, <1>9, <1>10, <1>11 DEF Step

LEMMA UsurpedStays ==
    ASSUME IInv, NEW p \in Procs, Step(p) \/ Crash(p), ~usurped'
    PROVE  ~usurped
<1>1. CASE UNCHANGED usurped
  BY <1>1
<1>2. CASE RemoveLock(p)
  BY <1>2 DEF RemoveLock, IInv, TypeOK
<1>q. QED
  BY <1>1, <1>2 DEF Step, Start, Poll, Stat, Unlink, Wait, Load, Save, Unlock, Verified, Exit, Crash

\* Only p's own steps make it a holder, and only Poll does.
LEMMA LockStep ==
    ASSUME IInv, NEW p \in Procs, Step(p) \/ Crash(p)
    PROVE  LockHeld'
<1>0. /\ TypeOK' /\ Frame(p) /\ TypeOK
  BY StepFrame DEF IInv
<1> SUFFICES ASSUME ~usurped', NEW q \in Procs, Holding(q)'
             PROVE  lock'.there /\ lock'.owner = q
  BY DEF LockHeld
<1>1. ~usurped
  BY UsurpedStays
<1>2. \A s \in Procs : Holding(s) => lock.there /\ lock.owner = s
  BY <1>1 DEF IInv, LockHeld
<1>3. CASE Poll(p)
  BY <1>0, <1>2, <1>3 DEF Poll, Holding, Goto, Frame, Return, Enter, TypeOK
<1>4. CASE Unlink(p) \/ Unlock(p)
  <2>1. pc'[p] \notin {"load", "save", "unlock"}
    BY <1>0, <1>4 DEF Unlink, Unlock, Goto, Return, Enter, TypeOK
  <2>2. q # p /\ Holding(q)
    BY <1>0, <2>1 DEF Holding, Frame
  <2>3. lock.there /\ lock.owner = q
    BY <1>2, <2>2
  <2>4. ~RemoveLock(p)
    BY <2>2, <2>3 DEF RemoveLock
  <2>5. lock' = lock
    BY <1>4, <2>4 DEF Unlink, Unlock
  <2>q. QED
    BY <2>3, <2>5
<1>5. CASE ~Poll(p) /\ ~Unlink(p) /\ ~Unlock(p)
  <2>1. lock' = lock
    BY <1>5 DEF Step, Start, Stat, Wait, Load, Save, Verified, Exit, Crash
  <2>2. Holding(p)' => Holding(p)
    BY <1>0, <1>5 DEF Step, Start, Stat, Wait, Load, Save, Verified, Exit, Crash, Holding, Goto, Return, Enter, TypeOK
  <2>3. Holding(q)
    BY <1>0, <2>2 DEF Holding, Frame
  <2>q. QED
    BY <1>2, <2>1, <2>3
<1>q. QED
  BY <1>3, <1>4, <1>5

\* What is saved is a registry, whose runs have started.
LEMMA RegistriesStep ==
    ASSUME IInv, NEW p \in Procs, Step(p) \/ Crash(p)
    PROVE  WellFormed(file)' /\ Started(file)' /\ CopiesWellFormed'
<1>0. /\ TypeOK' /\ Frame(p) /\ TypeOK /\ pc'[p] # "new"
      /\ copy'[p] = copy[p] \/ Load(p) \/ Save(p)
  BY StepFrame DEF IInv
<1>1. \A f : Started(f) => \A j \in Projects : f[j].run \in Procs => pc'[f[j].run] # "new"
  BY <1>0 DEF Frame, Started
<1>2. file' = file \/ (Save(p) /\ file' = copy[p])
  BY DEF Step, Start, Poll, Stat, Unlink, Wait, Load, Save, Unlock, Verified, Exit, Crash
<1>3. WellFormed(file)' /\ Started(file)'
  <2>1. WellFormed(file) /\ Started(file) /\ WellFormed(copy[p]) /\ Started(copy[p])
    BY DEF IInv, CopiesWellFormed
  <2>q. QED
    BY <1>1, <1>2, <2>1 DEF WellFormed, Started
<1>4. ASSUME NEW q \in Procs
      PROVE  WellFormed(copy[q])' /\ Started(copy[q])'
  <2>0. WellFormed(copy[q]) /\ Started(copy[q])
    BY DEF IInv, CopiesWellFormed
  <2>1. CASE copy'[q] = copy[q]
    BY <2>0, <2>1, <1>1 DEF WellFormed, Started
  <2>2. CASE q = p /\ Save(p)
    <3>1. copy'[p] = Empty
      BY <2>2 DEF Save, IInv, TypeOK
    <3>2. WellFormed(Empty) /\ \A j \in Projects : Empty[j].run \notin Procs
      BY ProcsAssumption DEF WellFormed, Empty, NoEntry, File, Entry
    <3>q. QED
      BY <2>2, <3>1, <3>2 DEF WellFormed, Started
  <2>3. CASE q = p /\ Load(p) /\ copy'[p] # copy[p]
    <3> DEFINE r == Normalized(file)
    <3>1. /\ op[p] = "resolve" \/ Refusal(p, r) = "ok"
          /\ copy'[p] = Mutated(p, r) /\ WellFormed(copy'[p])
      BY <2>3, LoadFacts
    <3>2. WellFormed(r) /\ \A j \in Projects : r[j].run = file[j].run
      BY NormalizedFacts DEF IInv
    <3>3. ASSUME NEW j \in Projects, copy'[p][j].run \in Procs
          PROVE  pc'[copy'[p][j].run] # "new"
      <4>1. copy'[p][j].run \in {p, file[j].run}
        <5>1. job[p] \in [project : Projects, path : Paths] /\ op[p] \in Ops
          BY DEF IInv, TypeOK, Ops
        <5>q. QED
          BY <3>1, <3>2, <3>3, <5>1, MutatedFacts, ProcsAssumption DEF Ops
      <4>2. Started(file)
        BY DEF IInv
      <4>q. QED
        BY <4>1, <4>2, <1>0, <1>1, <3>3
    <3>q. QED
      BY <2>3, <3>1, <3>3 DEF WellFormed, Started
  <2>q. QED
    BY <1>0, <2>1, <2>2, <2>3 DEF Frame
<1>q. QED
  BY <1>3, <1>4 DEF CopiesWellFormed

\* Who has ended stays so, and who is alive has started.
LEMMA DeadStayDead ==
    ASSUME IInv, NEW p \in Procs, Step(p) \/ Crash(p),
           NEW x \in Procs \union {Nobody}, ~Alive(x), x \in Procs => pc[x] # "new"
    PROVE  ~Alive(x)'
BY StepFrame DEF Alive, Ended, Frame

LEMMA RunOfType ==
    ASSUME NEW f, WellFormed(f), Started(f), NEW j \in Projects
    PROVE  /\ RunOf(f, j) \in Procs \union {Nobody}
           /\ RunOf(f, j) \in Procs => pc[RunOf(f, j)] # "new"
<1>1. f[j].run \in Procs \union {Nobody}
  BY DEF WellFormed, File, Entry
<1>2. CASE f[j].state = "running"
  BY <1>1, <1>2 DEF RunOf, Started
<1>3. CASE f[j].state # "running"
  BY <1>3, ProcsAssumption DEF RunOf
<1>q. QED
  BY <1>2, <1>3

\* What a copy may change it may still change when the time comes to save it.
LEMMA SavingStep ==
    ASSUME IInv, NEW p \in Procs, Step(p) \/ Crash(p)
    PROVE  Saving'
<1>0. /\ TypeOK' /\ Frame(p) /\ TypeOK
      /\ WellFormed(file) /\ Started(file) /\ Saving /\ LockHeld
  BY StepFrame DEF IInv
<1> SUFFICES ASSUME NEW q \in Procs, pc'[q] = "save"
             PROVE  /\ op'[q] # "resolve" => result'[q] = "ok"
                    /\ Recording(q)'
                    /\ ~usurped' => Lawful(q, copy[q])'
  BY DEF Saving
<1>1. CASE q # p
  <2>1. /\ pc[q] = "save" /\ op'[q] = op[q] /\ copy'[q] = copy[q]
        /\ result'[q] = result[q] /\ job'[q] = job[q]
    BY <1>0, <1>1 DEF Frame
  <2>2. ASSUME ~usurped'
        PROVE  Lawful(q, copy[q])'
    <3>1. ~usurped
      BY <2>2, UsurpedStays
    <3>2. file' = file
      <4>1. ~Save(p)
        BY <1>0, <1>1, <2>1, <3>1 DEF Save, LockHeld, Holding
      <4>q. QED
        BY <4>1 DEF Step, Start, Poll, Stat, Unlink, Wait, Load, Unlock, Verified, Exit, Crash
    <3>3. Lawful(q, copy[q])
      BY <1>0, <2>1, <3>1 DEF Saving
    <3>4. \A j \in Projects : ~Alive(RunOf(file, j)) => ~Alive(RunOf(file, j))'
      <4>1. \A x \in Procs \union {Nobody} :
               ~Alive(x) /\ (x \in Procs => pc[x] # "new") => ~Alive(x)'
        BY DeadStayDead
      <4>2. \A j \in Projects : RunOf(file', j) = RunOf(file, j)
        BY <3>2 DEF RunOf
      <4>3. \A x, y : x = y => (Alive(x)' <=> Alive(y)')
        BY DEF Alive, Ended
      <4>q. QED
        BY <4>1, <4>2, <4>3, <1>0, RunOfType DEF Alive, Ended
    <3>q. QED
      BY <2>1, <3>2, <3>3, <3>4 DEF Lawful, RunOf, Alive, Ended
  <2>q. QED
    BY <1>0, <2>1, <2>2 DEF Saving, Recording
<1>2. CASE q = p
  <2> DEFINE r == Normalized(file)
             k == job[p].project
  <2>1. Load(p)
    BY <1>0, <1>2, StepFrame DEF Step, Start, Poll, Stat, Unlink, Wait, Save, Unlock,
       Verified, Exit, Crash, Goto, Return, Enter, TypeOK
  <2>2. /\ op[p] = "resolve" \/ Refusal(p, r) = "ok"
        /\ result'[p] = Refusal(p, r) /\ copy'[p] = Mutated(p, r)
        /\ op'[p] = op[p] /\ job'[p].project = k /\ file' = file
    BY <1>0, <1>2, <2>1, LoadFacts DEF Load, Frame
  <2>3. k \in Projects /\ job[p] \in [project : Projects, path : Paths]
        /\ op[p] \in Ops
    BY <1>0 DEF TypeOK, Ops
  <2>4. /\ WellFormed(r)
        /\ \A j \in Projects :
              /\ r[j].run = file[j].run
              /\ r[j].state = "absent" <=> file[j].state = "absent"
              /\ r[j].state = "running" => file[j].state = "running"
              /\ file[j].state = "running" /\ Alive(file[j].run) => r[j].state = "running"
    BY <1>0, NormalizedFacts
  <2>5. Recording(p)'
    <3>1. op[p] = "begin" => LET e == Mutated(p, r)[k]
                             IN e.state = "running" /\ e.run = p /\ e.pid = p
      BY <2>2, <2>3, <2>4, MutatedFacts
    <3>q. QED
      BY <2>2, <3>1 DEF Recording
  <2>6. pc' = [pc EXCEPT ![p] = "save"] /\ pc[p] = "load"
    BY <1>2, <2>1 DEF Load, Goto, TypeOK, IInv
  <2>7. \A x \in Procs \union {Nobody} : Alive(x)' => Alive(x)
    BY <2>6, <1>0 DEF Alive, Ended, TypeOK
  <2>8. ASSUME NEW j \in Projects
        PROVE  /\ file[j].state # "absent" => Mutated(p, r)[j].state # "absent"
               /\ \/ RunOf(Mutated(p, r), j) = RunOf(file, j)
                  \/ ~Alive(RunOf(file, j)) /\ RunOf(Mutated(p, r), j) \in {p, Nobody}
                  \/ RunOf(file, j) = p /\ RunOf(Mutated(p, r), j) = Nobody /\ op[p] = "finish"
    <3>0. ~Alive(Nobody)
      BY ProcsAssumption DEF Alive
    <3>1. RunOf(r, j) = RunOf(file, j) \/ (~Alive(RunOf(file, j)) /\ RunOf(r, j) = Nobody)
      BY <2>4 DEF RunOf
    <3>2. file[j].state # "absent" => Mutated(p, r)[j].state # "absent"
      BY <2>2, <2>3, <2>4, MutatedFacts
    <3>3. CASE j # k
      <4>1. Mutated(p, r)[j] = r[j]
        BY <3>3, <2>2, <2>3, <2>4, MutatedFacts
      <4>q. QED
        BY <3>1, <3>2, <4>1 DEF RunOf
    <3>4. CASE j = k /\ op[p] = "begin"
      <4>1. r[j].state # "running" /\ RunOf(Mutated(p, r), j) = p
        BY <3>4, <2>2, <2>3, <2>4, MutatedFacts DEF RunOf
      <4>2. ~Alive(RunOf(file, j))
        BY <4>1, <2>4, <3>0 DEF RunOf
      <4>q. QED
        BY <3>2, <4>1, <4>2
    <3>5. CASE j = k /\ op[p] = "finish"
      <4>1. r[j].run = p /\ RunOf(Mutated(p, r), j) = Nobody
        BY <3>5, <2>2, <2>3, <2>4, MutatedFacts DEF RunOf
      <4>2. RunOf(file, j) \in {p, Nobody}
        BY <4>1, <2>4 DEF RunOf
      <4>q. QED
        BY <3>2, <3>5, <4>1, <4>2
    <3>6. CASE j = k /\ op[p] \notin {"begin", "finish"}
      <4>1. RunOf(Mutated(p, r), j) = RunOf(r, j)
        BY <3>6, <2>2, <2>3, <2>4, MutatedFacts DEF RunOf
      <4>q. QED
        BY <3>1, <3>2, <4>1
    <3>q. QED
      BY <3>3, <3>4, <3>5, <3>6
  <2>9. Lawful(p, copy[p])'
    <3>1. \A j \in Projects : ~Alive(RunOf(file, j)) => ~Alive(RunOf(file, j))'
      BY <2>2, <2>7, <1>0, RunOfType DEF RunOf, Alive, Ended
    <3>q. QED
      BY <2>2, <2>8, <3>1 DEF Lawful, RunOf, Alive, Ended
  <2>q. QED
    BY <1>2, <2>2, <2>5, <2>9
<1>q. QED
  BY <1>1, <1>2

\* An invocation believes its run to be recorded from the moment its Begin has
\* been saved, and not once its Finish has.
LEMMA OwnsStep ==
    ASSUME IInv, NEW p \in Procs, Step(p) \/ Crash(p), Owns(p)'
    PROVE  \/ Owns(p) /\ ~(Save(p) /\ file' # file)
           \/ Save(p) /\ (op[p] = "begin" \/ (Owns(p) /\ op[p] # "finish"))
<1>0. TypeOK /\ TypeOK' /\ Fresh /\ Alive(p)' /\ Saving
  BY StepFrame DEF IInv, Owns
<1>1. CASE Start(p)
  BY <1>0, <1>1 DEF Start, Fresh, Goto, Owns, TypeOK
<1>2. CASE Poll(p)
  <2>1. CASE Return(p, "error")
    BY <1>0, <1>2, <2>1, ReturnFacts DEF Poll, Results, Save
  <2>2. CASE ~Return(p, "error")
    BY <1>0, <1>2, <2>2 DEF Poll, Goto, Owns, Alive, Ended, TypeOK, Save
  <2>q. QED
    BY <2>1, <2>2
<1>3. CASE Stat(p)
  BY <1>0, <1>3 DEF Stat, Goto, Owns, Alive, Ended, TypeOK, Save
<1>4. CASE Unlink(p)
  BY <1>0, <1>4 DEF Unlink, Goto, Owns, Alive, Ended, TypeOK, Save
<1>5. CASE Wait(p)
  <2>1. CASE Return(p, "error")
    BY <1>0, <1>5, <2>1, ReturnFacts DEF Wait, Results, Save
  <2>2. CASE ~Return(p, "error")
    BY <1>0, <1>5, <2>2 DEF Wait, Goto, Owns, Alive, Ended, TypeOK, Save
  <2>q. QED
    BY <2>1, <2>2
<1>6. CASE Load(p)
  <2>1. /\ pc'[p] \in {"save", "unlock"} /\ op'[p] = op[p] /\ recorded'[p] = recorded[p]
        /\ result'[p] = "ok" => pc'[p] = "save" \/ op[p] = "resolve"
    BY <1>6, LoadFacts
  <2>2. pc[p] = "load"
    BY <1>6 DEF Load
  <2>q. QED
    BY <1>0, <2>1, <2>2 DEF Owns, Alive, Ended, Save
<1>7. CASE Save(p)
  <2>1. /\ pc[p] = "save" /\ pc'[p] = "unlock" /\ op' = op /\ recorded' = recorded
    BY <1>0, <1>7 DEF Save, Goto, TypeOK
  <2>2. CASE result' = [result EXCEPT ![p] = "error"] /\ UNCHANGED file
    BY <1>0, <2>1, <2>2 DEF Owns, Alive, Ended, TypeOK
  <2>3. CASE UNCHANGED result
    BY <1>0, <1>7, <2>1, <2>3 DEF Owns, Alive, Ended, TypeOK, Saving
  <2>q. QED
    BY <1>7, <2>2, <2>3 DEF Save
<1>8. CASE Unlock(p)
  <2>1. Owns(p)
    BY <1>0, <1>8, ReturnFacts DEF Unlock, Results, TypeOK
  <2>q. QED
    BY <1>8, <2>1 DEF Unlock, Save
<1>9. CASE Verified(p)
  BY <1>0, <1>9 DEF Verified, Goto, Enter, Owns, Alive, Ended, TypeOK, Save
<1>10. CASE Exit(p)
  BY <1>0, <1>10 DEF Exit, Goto, Alive, Ended, TypeOK
<1>11. CASE Crash(p)
  BY <1>0, <1>11 DEF Crash, Goto, Alive, Ended, TypeOK
<1>q. QED
  BY <1>1, <1>2, <1>3, <1>4, <1>5, <1>6, <1>7, <1>8, <1>9, <1>10, <1>11 DEF Step

LEMMA RecordedStep ==
    ASSUME IInv, NEW p \in Procs, Step(p) \/ Crash(p)
    PROVE  RecordedRunIsRunning'
<1>0. /\ TypeOK' /\ Frame(p) /\ TypeOK /\ Saving /\ RecordedRunIsRunning
      /\ WellFormed(copy[p])
  BY StepFrame DEF IInv, CopiesWellFormed
<1> SUFFICES ASSUME ~usurped', NEW q \in Procs, Owns(q)'
             PROVE  LET e == file'[job'[q].project]
                    IN e.state = "running" /\ e.run = q /\ e.pid = q
  BY DEF RecordedRunIsRunning
<1>1. ~usurped
  BY UsurpedStays
<1> DEFINE k == job[q].project
<1>2. job'[q].project = k /\ k \in Projects
  BY <1>0 DEF Frame, TypeOK
<1>3. Owns(q) => file[k].state = "running" /\ file[k].run = q /\ file[k].pid = q
  BY <1>0, <1>1 DEF RecordedRunIsRunning
<1>4. CASE Save(p) /\ file' # file
  <2>1. /\ file' = copy[p] /\ pc[p] = "save" /\ pc'[p] = "unlock"
    BY <1>0, <1>4 DEF Save, Goto, TypeOK
  <2>2. Lawful(p, copy[p]) /\ Recording(p)
    BY <1>0, <1>1, <2>1 DEF Saving
  <2>3. CASE Owns(q) /\ (q = p => op[p] # "finish")
    <3>1. RunOf(file, k) = q /\ Alive(q) /\ q # Nobody
      BY <1>3, <2>3, ProcsAssumption DEF RunOf, Owns
    <3>2. RunOf(copy[p], k) = q
      BY <1>2, <2>2, <2>3, <3>1 DEF Lawful
    <3>q. QED
      BY <1>0, <1>2, <2>1, <3>1, <3>2 DEF RunOf, WellFormed
  <2>4. CASE q = p /\ op[p] = "begin"
    BY <1>2, <2>1, <2>2, <2>4 DEF Recording
  <2>5. q # p => Owns(q)
    BY <1>0 DEF Owns, Alive, Ended, Frame
  <2>q. QED
    BY <1>4, <2>3, <2>4, <2>5, OwnsStep
<1>5. CASE ~(Save(p) /\ file' # file)
  <2>1. file' = file
    BY <1>5 DEF Step, Start, Poll, Stat, Unlink, Wait, Load, Save, Unlock, Verified, Exit, Crash
  <2>2. CASE q # p
    BY <1>0, <1>2, <1>3, <2>1, <2>2 DEF Owns, Alive, Ended, Frame
  <2>3. CASE q = p /\ Owns(p)
    BY <1>2, <1>3, <2>1, <2>3
  <2>4. CASE q = p /\ ~Owns(p)
    <3>1. Save(p) /\ op[p] = "begin"
      BY <2>4, OwnsStep
    <3>2. LET e == copy[p][k] IN e.state = "running" /\ e.run = p /\ e.pid = p
      BY <1>0, <2>4, <3>1 DEF Save, Saving, Recording
    <3>3. file' = copy[p] \/ result' = [result EXCEPT ![p] = "error"]
      BY <3>1 DEF Save
    <3>4. CASE file' = copy[p]
      BY <1>2, <2>4, <3>2, <3>4
    <3>5. CASE result' = [result EXCEPT ![p] = "error"]
      <4>1. Owns(p)
        BY <1>0, <2>4, <3>1, <3>5 DEF Owns, Save, Goto, Alive, Ended, TypeOK
      <4>q. QED
        BY <2>4, <4>1
    <3>q. QED
      BY <3>3, <3>4, <3>5
  <2>q. QED
    BY <2>2, <2>3, <2>4
<1>q. QED
  BY <1>4, <1>5

-----------------------------------------------------------------------------
(* The invariant.                                                          *)

LEMMA InitEstablishes == Init => IInv
<1> SUFFICES ASSUME Init PROVE IInv
  OBVIOUS
<1>1. /\ file \in File /\ \A j \in Projects :
            /\ file[j].pid = Nobody /\ file[j].run = Nobody
            /\ file[j].state = "absent" <=> file[j].path = Nowhere
  BY FilesAssumption DEF Init
<1>2. WellFormed(file) /\ Started(file)
  BY <1>1, ProcsAssumption DEF WellFormed, Started
<1>3. Empty \in File /\ WellFormed(Empty) /\ \A j \in Projects : Empty[j].run = Nobody
  BY DEF WellFormed, Empty, NoEntry, File, Entry
<1>4. lock \in Lock
  <2>1. NoLock \in Lock /\ [NoLock EXCEPT !.there = TRUE] \in Lock
    BY DEF Lock, NoLock
  <2>q. QED
    BY <2>1 DEF Init
<1>5. TypeOK
  <2>1. job \in [Procs -> [project : Projects, path : Paths]]
    BY JobsAssumption DEF Init
  <2>2. polls \in [Procs -> 0..MaxPolls]
    BY BoundAssumption DEF Init
  <2>3. copy \in [Procs -> File]
    BY <1>3 DEF Init
  <2>4. /\ usurped \in BOOLEAN /\ result \in [Procs -> {"none", "ok", "active", "error"}]
        /\ recorded \in [Procs -> BOOLEAN]
        /\ op \in [Procs -> {"resolve", "register", "begin", "finish"}]
        /\ pc \in [Procs -> {"new", "poll", "held", "unlink", "wait", "load", "save",
                             "unlock", "verify", "report", "gone", "dead"}]
    BY DEF Init
  <2>q. QED
    BY <1>1, <1>4, <2>1, <2>2, <2>3, <2>4 DEF TypeOK
<1>6. CopiesWellFormed
  BY <1>3, ProcsAssumption DEF Init, CopiesWellFormed, Started
<1>7. \A p \in Procs : pc[p] = "new" /\ ~recorded[p]
  BY DEF Init
<1>q. QED
  BY <1>2, <1>5, <1>6, <1>7 DEF IInv, Fresh, LockHeld, Holding, Saving, RecordedRunIsRunning, Owns, Alive

LEMMA AgeKeeps == ASSUME IInv, Age PROVE IInv'
<1>1. UNCHANGED <<file, usurped, pc, op, job, polls, copy, result, recorded>>
      /\ lock' = [lock EXCEPT !.old = TRUE] /\ lock \in Lock
  BY DEF Age, IInv, TypeOK
<1>2. lock' \in Lock /\ lock'.there = lock.there /\ lock'.owner = lock.owner
  BY <1>1 DEF Lock
<1>3. TypeOK'
  BY <1>1, <1>2 DEF IInv, TypeOK
<1>4. LockHeld'
  BY <1>1, <1>2 DEF IInv, LockHeld, Holding
<1>q. QED
  BY <1>1, <1>3, <1>4 DEF IInv, Fresh, WellFormed, Started, CopiesWellFormed, Saving, Lawful, RunOf,
     Recording, RecordedRunIsRunning, Owns, Alive, Ended

LEMMA NextKeeps == IInv /\ [Next]_vars => IInv'
<1> SUFFICES ASSUME IInv, [Next]_vars PROVE IInv'
  OBVIOUS
<1>1. CASE UNCHANGED vars
  BY <1>1 DEF vars, IInv, TypeOK, Fresh, WellFormed, Started, CopiesWellFormed, LockHeld, Holding, Saving,
     Lawful, RunOf, Recording, RecordedRunIsRunning, Owns, Alive, Ended
<1>2. CASE Age
  BY <1>2, AgeKeeps
<1>3. ASSUME NEW p \in Procs, Step(p) \/ Crash(p) PROVE IInv'
  <2>1. TypeOK' /\ Frame(p) /\ pc'[p] # "new"
    BY <1>3, StepFrame
  <2>2. Fresh'
    BY <2>1 DEF IInv, Fresh, Frame
  <2>q. QED
    BY <1>3, <2>1, <2>2, LockStep, RegistriesStep, SavingStep, RecordedStep DEF IInv
<1>q. QED
  BY <1>1, <1>2, <1>3 DEF Next, Stopped

LEMMA Invariance == Spec => []IInv
<1>1. Init => IInv
  BY InitEstablishes
<1>2. IInv /\ [Next]_vars => IInv'
  BY NextKeeps
<1>q. QED
  BY <1>1, <1>2, PTL DEF Spec

\* Every variable has its type, whatever the invocations do.
THEOREM TypeCorrect == Spec => []TypeOK
<1>1. IInv => TypeOK
  BY DEF IInv
<1>q. QED
  BY <1>1, Invariance, PTL

\* Mutual exclusion (withLock): until the lock of a live holder has been taken
\* for a stale one, every invocation at work on the registry holds the lock,
\* so there is one at most.
THEOREM MutualExclusion == Spec => []LockHeld
<1>1. IInv => LockHeld
  BY DEF IInv
<1>q. QED
  BY <1>1, Invariance, PTL

\* A run that Begin has answered for stays recorded until its own Finish.
THEOREM RecordedRunsStay == Spec => []RecordedRunIsRunning
<1>1. IInv => RecordedRunIsRunning
  BY DEF IInv
<1>q. QED
  BY <1>1, Invariance, PTL

\* No update is lost: what is registered stays so.
THEOREM NothingUnregistered == Spec => RegistrationLasts
<1> DEFINE Kept == ~usurped => \A j \in Projects :
                      file[j].state # "absent" => file'[j].state # "absent"
<1>1. IInv /\ [Next]_vars => [Kept]_vars
  <2> SUFFICES ASSUME IInv, Next, ~usurped PROVE Kept
    OBVIOUS
  <2>1. CASE file' = file
    BY <2>1
  <2>2. CASE file' # file
    <3>1. PICK p \in Procs : Save(p)
      BY <2>2 DEF Next, Stopped, vars, Age, Step, Crash, Start, Poll, Stat, Unlink, Wait,
         Load, Unlock, Verified, Exit
    <3>2. file' = copy[p] /\ Lawful(p, copy[p])
      BY <2>2, <3>1 DEF Save, IInv, Saving
    <3>q. QED
      BY <3>2 DEF Lawful
  <2>q. QED
    BY <2>1, <2>2
<1>2. Spec => [][Kept]_vars
  BY <1>1, Invariance, PTL DEF Spec
<1>q. QED
  BY <1>2 DEF RegistrationLasts

-----------------------------------------------------------------------------
(* The registry implements the per-project run-state boundary: a project   *)
(* changes hands only from an invocation that has finished or is gone.     *)

Owners == [j \in Projects |-> RunOf(file, j)]
Living == {p \in Procs : Alive(p)}

LEMMA BoundaryInit == Init => Boundary!Init
<1> SUFFICES ASSUME Init PROVE Boundary!Init
  OBVIOUS
<1>1. WellFormed(file) /\ Started(file)
  BY InitEstablishes DEF IInv
<1>2. Owners \in [Projects -> Procs \union {Nobody}]
  BY <1>1, RunOfType DEF Owners
<1>q. QED
  BY <1>2 DEF Boundary!Init, Init, Owners

LEMMA BoundaryStep == IInv /\ IInv' /\ [Next]_vars => [Boundary!Next]_(Boundary!vars)
<1> SUFFICES ASSUME IInv, IInv', [Next]_vars
             PROVE  [Boundary!Next]_(Boundary!vars)
  OBVIOUS
<1> USE DEF Boundary!Next, Boundary!vars
<1>1. CASE UNCHANGED vars \/ Age
  <2>1. UNCHANGED <<file, pc, usurped>>
    BY <1>1 DEF vars, Age
  <2>q. QED
    BY <2>1 DEF RunOf, Alive, Ended
<1>2. ASSUME NEW p \in Procs, Step(p) \/ Crash(p)
      PROVE  [Boundary!Next]_(Boundary!vars)
  <2>0. TypeOK /\ TypeOK' /\ Frame(p)
    BY <1>2, StepFrame DEF IInv
  <2>1. CASE Save(p)
    <3>1. Living' = Living /\ p \in Living /\ UNCHANGED usurped
      BY <2>0, <2>1 DEF Save, Goto, Living, Alive, Ended, TypeOK
    <3>2. Owners' \in [Projects -> Procs \union {Nobody}]
      <4>1. \A j \in Projects : file'[j].run \in Procs \union {Nobody}
        BY <2>0 DEF TypeOK, File, Entry
      <4>q. QED
        BY <4>1 DEF Owners, RunOf
    <3>3. file' = file \/ file' = copy[p]
      BY <2>1 DEF Save
    <3>4. ~usurped => Lawful(p, copy[p])
      BY <2>1 DEF IInv, Saving, Save
    <3>5. \A j \in Projects : Owners[j] \in Living <=> Alive(Owners[j])
      BY DEF Living, Alive
    <3>6. ASSUME ~usurped, NEW j \in Projects
          PROVE  \/ Owners'[j] = Owners[j]
                 \/ Owners[j] \notin Living /\ Owners'[j] \in {Nobody, p}
                 \/ Owners[j] = p /\ Owners'[j] = Nobody
      <4>1. CASE file' = file
        BY <4>1 DEF Owners, RunOf
      <4>2. CASE file' = copy[p]
        <5>1. Owners[j] = RunOf(file, j) /\ Owners'[j] = RunOf(copy[p], j)
          BY <4>2 DEF Owners, RunOf
        <5>q. QED
          BY <3>4, <3>5, <3>6, <5>1 DEF Lawful
      <4>q. QED
        BY <3>3, <4>1, <4>2
    <3>7. Boundary!Update(p)
      BY <3>1, <3>2, <3>6 DEF Boundary!Update, Boundary!MayBecome, Owners, Living
    <3>q. QED
      BY <3>7
  <2>2. CASE ~Save(p)
    <3>1. Owners' = Owners
      BY <1>2, <2>2 DEF Step, Crash, Start, Poll, Stat, Unlink, Wait, Load, Unlock, Verified,
         Exit, Owners, RunOf
    <3>2. CASE UNCHANGED usurped
      <4>1. Living' \in {Living, Living \union {p}, Living \ {p}}
        BY <2>0 DEF Living, Alive, Ended, Frame
      <4>q. QED
        BY <3>1, <3>2, <4>1 DEF Boundary!Enter, Boundary!Leave, Owners, Living
    <3>3. CASE ~UNCHANGED usurped
      <4>1. RemoveLock(p) /\ (Unlink(p) \/ Unlock(p))
        BY <1>2, <3>3 DEF Step, Crash, Start, Poll, Stat, Unlink, Wait, Load, Save, Unlock, Verified, Exit
      <4>2. usurped' = TRUE
        BY <3>3, <4>1, <2>0 DEF RemoveLock, TypeOK
      <4>3. Living' = Living
        BY <2>0, <4>1 DEF Unlink, Unlock, Return, Enter, Goto, Living, Alive, Ended, TypeOK
      <4>q. QED
        BY <3>1, <4>2, <4>3 DEF Boundary!Distrust, Owners, Living
    <3>q. QED
      BY <3>2, <3>3
  <2>q. QED
    BY <2>1, <2>2
<1>q. QED
  BY <1>1, <1>2 DEF Next, Stopped

THEOREM RegistryKeepsBoundary == Spec => KeepsBoundary
<1>1. Init => Boundary!Init
  BY BoundaryInit
<1>2. IInv /\ IInv' /\ [Next]_vars => [Boundary!Next]_(Boundary!vars)
  BY BoundaryStep
<1>q. QED
  BY <1>1, <1>2, Invariance, PTL DEF Spec, KeepsBoundary, Boundary!Spec

-----------------------------------------------------------------------------
(* One directory, one project: also after updates have been lost.          *)

Distinct(f) ==
    \A i, j \in Projects : i # j /\ f[i].path = f[j].path => f[i].path = Nowhere

CopiesDistinct == \A p \in Procs : pc[p] = "save" => Distinct(copy[p])

LEMMA MutatedDistinct ==
    ASSUME NEW p \in Procs, NEW r, WellFormed(r), Distinct(r),
           job[p] \in [project : Projects, path : Paths],
           op[p] = "resolve" \/ Refusal(p, r) = "ok"
    PROVE  Distinct(Mutated(p, r))
<1> DEFINE k == job[p].project
<1>0. k \in Projects /\ job[p].path \in Paths /\ r \in [Projects -> Entry] /\ r[k] \in Entry
  BY DEF WellFormed, File
<1>1. CASE op[p] \in {"register", "begin"}
  <2>1. \A i \in Projects \ {k} : r[i].path # job[p].path
    BY <1>1 DEF Refusal, ValidEntry
  <2>2. \A j \in Projects : j # k => Mutated(p, r)[j] = r[j]
    BY <1>1, MutatedFacts
  <2>3. Mutated(p, r)[k].path = job[p].path
    BY <1>0, <1>1 DEF Mutated, Entry
  <2>q. QED
    BY <2>1, <2>2, <2>3 DEF Distinct
<1>2. CASE op[p] \notin {"register", "begin"}
  <2>1. \A j \in Projects : Mutated(p, r)[j].path = r[j].path
    BY <1>0, <1>2 DEF Mutated, Entry
  <2>q. QED
    BY <2>1 DEF Distinct
<1>q. QED
  BY <1>1, <1>2

\* validateEntry keeps directories apart for every interleaving, because what
\* is saved was checked as a whole.
THEOREM DirectoriesApart == Spec => []PathsDistinct
<1> DEFINE J == Distinct(file) /\ CopiesDistinct
<1>1. Init => J
  BY FilesAssumption DEF Init, Distinct, CopiesDistinct
<1>2. IInv /\ J /\ [Next]_vars => J'
  <2> SUFFICES ASSUME IInv, J, [Next]_vars PROVE J'
    OBVIOUS
  <2>1. CASE UNCHANGED vars \/ Age
    <3>1. UNCHANGED <<file, pc, copy>>
      BY <2>1 DEF vars, Age
    <3>q. QED
      BY <3>1 DEF Distinct, CopiesDistinct
  <2>2. ASSUME NEW p \in Procs, Step(p) \/ Crash(p) PROVE J'
    <3>0. TypeOK /\ TypeOK' /\ Frame(p) /\ (copy'[p] = copy[p] \/ Load(p) \/ Save(p))
      BY <2>2, StepFrame DEF IInv
    <3>1. Distinct(file)'
      <4>1. file' = file \/ (file' = copy[p] /\ pc[p] = "save")
        BY <2>2 DEF Step, Crash, Start, Poll, Stat, Unlink, Wait, Load, Save, Unlock, Verified, Exit
      <4>q. QED
        BY <4>1 DEF Distinct, CopiesDistinct
    <3>2. ASSUME NEW q \in Procs, pc'[q] = "save" PROVE Distinct(copy'[q])
      <4>1. CASE q # p
        BY <3>0, <3>2, <4>1 DEF Frame, CopiesDistinct, Distinct
      <4>2. CASE q = p
        <5>1. Load(p)
          BY <2>2, <3>0, <3>2, <4>2 DEF Step, Start, Poll, Stat, Unlink, Wait, Save, Unlock,
             Verified, Exit, Crash, Goto, Return, Enter, TypeOK
        <5> DEFINE r == Normalized(file)
        <5>2. /\ op[p] = "resolve" \/ Refusal(p, r) = "ok"
              /\ copy'[p] = Mutated(p, r)
          BY <3>2, <4>2, <5>1, LoadFacts
        <5>3. WellFormed(r) /\ \A j \in Projects : r[j].path = file[j].path
          BY NormalizedFacts DEF IInv
        <5>4. Distinct(r)
          BY <5>3 DEF Distinct
        <5>5. job[p] \in [project : Projects, path : Paths]
          BY <3>0 DEF TypeOK
        <5>q. QED
          BY <4>2, <5>2, <5>3, <5>4, <5>5, MutatedDistinct
      <4>q. QED
        BY <4>1, <4>2
    <3>q. QED
      BY <3>1, <3>2 DEF CopiesDistinct, Distinct
  <2>q. QED
    BY <2>1, <2>2 DEF Next, Stopped
<1>3. J => PathsDistinct
  BY DEF Distinct, PathsDistinct
<1>q. QED
  BY <1>1, <1>2, <1>3, Invariance, PTL DEF Spec
=============================================================================
