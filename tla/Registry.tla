------------------------------ MODULE Registry ------------------------------
(***************************************************************************)
(* The project registry shared by every devctl invocation of a user: the   *)
(* file registry.json, the lock file beside it, and the invocations that   *)
(* register a project, begin a run, verify and finish it.                  *)
(*                                                                         *)
(* Nothing but the lock file orders the invocations.  It is created with   *)
(* O_EXCL and removed by the holder; a waiter that finds it older than     *)
(* lockStale removes it, in two steps, a Stat and a Remove.  An invocation *)
(* may die at any point, and the lock it held stays.                       *)
(*                                                                         *)
(* Abstractions.  A process is one invocation; its run identifier, its pid *)
(* and its start identity are the process itself, so ProcessMatches is     *)
(* whether it still exists.  Time is left out: a lock may be found old at  *)
(* any moment after it was made (never under a live holder unless Stalls), *)
(* and the deadline of five seconds may pass at any poll, at the           *)
(* MaxPolls-th at the latest.  The mutex that orders goroutines of one     *)
(* process is left out: an invocation uses the registry from one.          *)
(***************************************************************************)
EXTENDS Naturals

CONSTANTS
    Procs,          \* devctl invocations
    Projects,       \* project identifiers
    Paths,          \* canonical project directories
    Gone,           \* directories that no longer exist
    Jobs,           \* projects as DetectProject finds them
    InitialFiles,   \* what the registry may hold at first
    MaxPolls,       \* bound on the polls of one wait for the lock
    Stalls,         \* a holder may be delayed for longer than lockStale
    Nobody, Nowhere

Entry == [state : {"absent", "idle", "running", "finished", "stale"},
          path : Paths \union {Nowhere},
          run : Procs \union {Nobody}, pid : Procs \union {Nobody}]
NoEntry == [state |-> "absent", path |-> Nowhere, run |-> Nobody, pid |-> Nobody]
File == [Projects -> Entry]
Empty == [j \in Projects |-> NoEntry]
Lock == [owner : Procs \union {Nobody}, old : BOOLEAN, there : BOOLEAN]
NoLock == [owner |-> Nobody, old |-> FALSE, there |-> FALSE]

ASSUME ProcsAssumption == Nobody \notin Procs
ASSUME JobsAssumption == Jobs \subseteq [project : Projects, path : Paths]
ASSUME FilesAssumption ==
    /\ InitialFiles \subseteq File
    /\ \A f \in InitialFiles, j \in Projects :
          /\ f[j].pid = Nobody /\ f[j].run = Nobody
          /\ f[j].state = "absent" <=> f[j].path = Nowhere
          /\ \A i \in Projects \ {j} : f[i].path = f[j].path => f[i].path = Nowhere
ASSUME BoundAssumption == MaxPolls \in Nat /\ Stalls \in BOOLEAN /\ Nowhere \notin Paths

VARIABLES
    file,       \* registry.json
    lock,       \* registry.json.lock
    usurped,    \* history: a live holder's lock has been removed by another
    pc,         \* where each invocation is
    op,         \* the registry operation it is at
    job,        \* its project, and the directory it was found in
    polls,      \* polls of this wait
    copy,       \* the registry as loaded and changed, not yet written
    result,     \* what the operation will answer
    recorded    \* registryStarted: its run is in the registry

vars == <<file, lock, usurped, pc, op, job, polls, copy, result, recorded>>

Ended(p) == pc[p] \in {"gone", "dead"}
Alive(p) == p \in Procs /\ pc[p] # "new" /\ ~Ended(p)
Holding(p) == p \in Procs /\ pc[p] \in {"load", "save", "unlock"}

Init ==
    /\ file \in InitialFiles
    /\ lock \in {NoLock, [NoLock EXCEPT !.there = TRUE]}
    /\ usurped = FALSE
    /\ pc = [p \in Procs |-> "new"]
    /\ op \in [Procs -> {"resolve", "register"}]
    /\ job \in [Procs -> Jobs]
    /\ polls = [p \in Procs |-> 0]
    /\ copy = [p \in Procs |-> Empty]
    /\ result = [p \in Procs |-> "none"]
    /\ recorded = [p \in Procs |-> FALSE]

-----------------------------------------------------------------------------
(* What an operation does to the registry.                                 *)

\* Mutant of Normalized: a run is stale whether or not its process lives.
NormalizedAll(r) ==
    [j \in Projects |->
        IF r[j].state = "running"
        THEN [r[j] EXCEPT !.state = "stale", !.pid = Nobody]
        ELSE r[j]]

\* normalizeStale
Normalized(r) ==
    [j \in Projects |->
        IF r[j].state = "running" /\ ~Alive(r[j].pid)
        THEN [r[j] EXCEPT !.state = "stale", !.pid = Nobody]
        ELSE r[j]]

\* validateEntry
ValidEntry(r, j, path) ==
    /\ r[j].path \in {path, Nowhere} \union Gone
    /\ \A i \in Projects \ {j} : r[i].path # path

\* The answer of the mutators of Register, Begin and Finish that refuse.
Refusal(p, r) ==
    LET j == job[p].project
    IN CASE op[p] \in {"register", "begin"} /\ ~ValidEntry(r, j, job[p].path) -> "error"
         [] op[p] = "begin" /\ r[j].state = "running" -> "active"
         [] op[p] = "finish" /\ r[j].run # p -> "error"
         [] op[p] = "resolve" /\ r[j].state = "absent" -> "error"
         [] OTHER -> "ok"

\* Mutant of Mutated: Register writes the entry as DetectProject made it.
MutatedAfresh(p, r) ==
    LET running == [state |-> "running", path |-> job[p].path, run |-> p, pid |-> p]
        j == job[p].project
    IN CASE op[p] = "register" -> [r EXCEPT ![j] = [running EXCEPT !.state = "idle"]]
         [] op[p] = "begin" -> [r EXCEPT ![j] = running]
         [] op[p] = "finish" -> [r EXCEPT ![j].state = "finished", ![j].pid = Nobody]
         [] OTHER -> r

\* What they write otherwise; Load writes back what it normalized.
Mutated(p, r) ==
    LET j == job[p].project
        path == job[p].path
    IN CASE op[p] = "register" ->
              [r EXCEPT ![j] =
                 IF r[j].state = "absent"
                 THEN [state |-> "idle", path |-> path, run |-> Nobody, pid |-> Nobody]
                 ELSE [r[j] EXCEPT !.path = path]]
         [] op[p] = "begin" ->
              [r EXCEPT ![j] = [state |-> "running", path |-> path, run |-> p, pid |-> p]]
         [] op[p] = "finish" ->
              [r EXCEPT ![j] = [r[j] EXCEPT !.state = "finished", !.pid = Nobody]]
         [] OTHER -> r

-----------------------------------------------------------------------------
(* An invocation: executeVerificationWithOptions and workerCommand.        *)

Goto(p, l) == pc' = [pc EXCEPT ![p] = l]

\* The invocation detects its project; when it cannot, it verifies without
\* the registry, and a worker or a missing directory gives up.
Start(p) ==
    /\ pc[p] = "new"
    /\ \/ Goto(p, "poll")
       \/ Goto(p, "report")
       \/ op[p] = "register" /\ Goto(p, "verify")
    /\ UNCHANGED <<file, lock, usurped, op, job, polls, copy, result, recorded>>

Enter(p, l, o) == Goto(p, l) /\ op' = [op EXCEPT ![p] = o]

\* What the caller does with the answer r.  Only ErrActiveRun stops a
\* verification: any other error is printed and it goes on, unrecorded.
Return(p, r) ==
    /\ polls' = [polls EXCEPT ![p] = 0]
    /\ result' = [result EXCEPT ![p] = "none"]
    /\ \/ op[p] = "resolve" /\ Goto(p, "report") /\ UNCHANGED <<op, recorded>>
       \/ op[p] = "resolve" /\ r = "ok" /\ Enter(p, "poll", "register") /\ UNCHANGED recorded
       \/ op[p] = "register" /\ Enter(p, "poll", "begin") /\ UNCHANGED recorded
       \/ op[p] = "begin" /\ r = "active" /\ Goto(p, "report") /\ UNCHANGED <<op, recorded>>
       \/ /\ op[p] = "begin" /\ r # "active" /\ Goto(p, "verify") /\ UNCHANGED op
          /\ recorded' = [recorded EXCEPT ![p] = (r = "ok")]
       \/ op[p] = "finish" /\ Goto(p, "report") /\ UNCHANGED <<op, recorded>>

Verified(p) ==
    /\ pc[p] = "verify"
    /\ \/ recorded[p] /\ Enter(p, "poll", "finish")
       \/ ~recorded[p] /\ Goto(p, "report") /\ UNCHANGED op
    /\ UNCHANGED <<file, lock, usurped, job, polls, copy, result, recorded>>

Exit(p) ==
    /\ pc[p] = "report" /\ Goto(p, "gone")
    /\ UNCHANGED <<file, lock, usurped, op, job, polls, copy, result, recorded>>

-----------------------------------------------------------------------------
(* withLock and the work done under it.                                    *)

\* p removes whatever lock file there is now.
RemoveLock(p) ==
    /\ lock' = NoLock
    /\ usurped' = (usurped \/ (lock.owner # p /\ Holding(lock.owner)))

\* Mutant of Poll: the lock file is created without O_EXCL.
PollShared(p) ==
    /\ pc[p] = "poll"
    /\ \/ /\ Goto(p, "load")
          /\ lock' = [owner |-> p, old |-> FALSE, there |-> TRUE]
          /\ UNCHANGED <<op, polls, result, recorded>>
       \/ Return(p, "error") /\ UNCHANGED lock
    /\ UNCHANGED <<file, usurped, job, copy>>

\* os.OpenFile with O_EXCL
Poll(p) ==
    /\ pc[p] = "poll"
    /\ \/ /\ ~lock.there /\ Goto(p, "load")
          /\ lock' = [owner |-> p, old |-> FALSE, there |-> TRUE]
          /\ UNCHANGED <<op, polls, result, recorded>>
       \/ /\ lock.there /\ Goto(p, "held")
          /\ UNCHANGED <<lock, op, polls, result, recorded>>
       \/ Return(p, "error") /\ UNCHANGED lock
    /\ UNCHANGED <<file, usurped, job, copy>>

\* os.Stat: is it there still, and is it stale?
Stat(p) ==
    /\ pc[p] = "held"
    /\ Goto(p, IF lock.there /\ lock.old THEN "unlink" ELSE "wait")
    /\ UNCHANGED <<file, lock, usurped, op, job, polls, copy, result, recorded>>

\* Mutant of Unlink: a lock that cannot be removed is tried again at once.
UnlinkForever(p) ==
    /\ pc[p] = "unlink"
    /\ \/ lock.there /\ RemoveLock(p) /\ Goto(p, "poll")
       \/ Goto(p, "held") /\ UNCHANGED <<lock, usurped>>
    /\ UNCHANGED <<file, op, job, polls, copy, result, recorded>>

\* os.Remove of the lock judged stale, whosever it is by now.
Unlink(p) ==
    /\ pc[p] = "unlink"
    /\ \/ lock.there /\ RemoveLock(p) /\ Goto(p, "poll")
       \/ Goto(p, "wait") /\ UNCHANGED <<lock, usurped>>
    /\ UNCHANGED <<file, op, job, polls, copy, result, recorded>>

\* The deadline, and the pause before the next poll.
Wait(p) ==
    /\ pc[p] = "wait"
    /\ \/ /\ polls[p] < MaxPolls /\ Goto(p, "poll")
          /\ polls' = [polls EXCEPT ![p] = @ + 1]
          /\ UNCHANGED <<op, result, recorded>>
       \/ Return(p, "error")
    /\ UNCHANGED <<file, lock, usurped, job, copy>>

\* loadLocked, normalizeStale and the mutator.
Load(p) ==
    /\ pc[p] = "load"
    /\ LET r == Normalized(file)
           answer == Refusal(p, r)
           new == Mutated(p, r)
           writes == (op[p] = "resolve" /\ r # file) \/ (op[p] # "resolve" /\ answer = "ok")
       IN \/ /\ result' = [result EXCEPT ![p] = answer]
             /\ job' = [job EXCEPT ![p].path =
                           IF op[p] = "resolve" /\ answer = "ok"
                           THEN r[job[p].project].path ELSE @]
             /\ \/ writes /\ copy' = [copy EXCEPT ![p] = new] /\ Goto(p, "save")
                \/ ~writes /\ Goto(p, "unlock") /\ UNCHANGED copy
          \/ /\ result' = [result EXCEPT ![p] = "error"] /\ Goto(p, "unlock")
             /\ UNCHANGED <<job, copy>>
    /\ UNCHANGED <<file, lock, usurped, op, polls, recorded>>

\* writeLocked: the rename replaces the file, or an earlier step fails.
Save(p) ==
    /\ pc[p] = "save" /\ Goto(p, "unlock")
    /\ \/ file' = copy[p] /\ UNCHANGED result
       \/ result' = [result EXCEPT ![p] = "error"] /\ UNCHANGED file
    /\ copy' = [copy EXCEPT ![p] = Empty]
    /\ UNCHANGED <<lock, usurped, op, job, polls, recorded>>

\* The deferred os.Remove, whose error nobody sees.
Unlock(p) ==
    /\ pc[p] = "unlock"
    /\ RemoveLock(p) \/ UNCHANGED <<lock, usurped>>
    /\ Return(p, result[p])
    /\ UNCHANGED <<file, job, copy>>

-----------------------------------------------------------------------------
(* Time and death.                                                         *)

Age ==
    /\ lock.there /\ ~lock.old
    /\ Stalls \/ ~Holding(lock.owner)
    /\ lock' = [lock EXCEPT !.old = TRUE]
    /\ UNCHANGED <<file, usurped, pc, op, job, polls, copy, result, recorded>>

Crash(p) ==
    /\ Alive(p) /\ Goto(p, "dead")
    /\ UNCHANGED <<file, lock, usurped, op, job, polls, copy, result, recorded>>

Stopped == (\A p \in Procs : Ended(p)) /\ UNCHANGED vars

Step(p) ==
    \/ Start(p) \/ Poll(p) \/ Stat(p) \/ Unlink(p) \/ Wait(p)
    \/ Load(p) \/ Save(p) \/ Unlock(p) \/ Verified(p) \/ Exit(p)

Next == (\E p \in Procs : Step(p) \/ Crash(p)) \/ Age \/ Stopped

Spec == Init /\ [][Next]_vars

\* An invocation the system schedules keeps taking steps.
FairSpec == Spec /\ \A p \in Procs : WF_vars(Step(p))

-----------------------------------------------------------------------------
(* Properties.                                                             *)

\* Every variable has its type, and an entry has a directory when it is there.
TypeOK ==
    /\ file \in File
    /\ lock \in Lock
    /\ usurped \in BOOLEAN
    /\ pc \in [Procs -> {"new", "poll", "held", "unlink", "wait", "load", "save",
                         "unlock", "verify", "report", "gone", "dead"}]
    /\ op \in [Procs -> {"resolve", "register", "begin", "finish"}]
    /\ job \in [Procs -> [project : Projects, path : Paths]]
    /\ polls \in [Procs -> 0..MaxPolls]
    /\ copy \in [Procs -> File]
    /\ result \in [Procs -> {"none", "ok", "active", "error"}]
    /\ recorded \in [Procs -> BOOLEAN]
    /\ \A j \in Projects : file[j].state = "absent" <=> file[j].path = Nowhere

\* withLock's purpose: until a live holder's lock has been taken for a stale
\* one, whoever is at work on the registry is the one the lock file is of.
LockHeld ==
    ~usurped => \A p \in Procs : Holding(p) => lock.there /\ lock.owner = p

\* p has been told by Begin that its run is recorded, and has not been told
\* by Finish that it is over.
Owns(p) ==
    /\ Alive(p)
    /\ \/ op[p] = "begin" /\ pc[p] = "unlock" /\ result[p] = "ok"
       \/ recorded[p] /\ pc[p] # "report"
    /\ ~(op[p] = "finish" /\ pc[p] = "unlock" /\ result[p] = "ok")

\* While a live invocation believes that its run is recorded, the registry
\* says so: no registration, stale transition, Begin or Finish of another
\* invocation, and no update written from an older copy, undoes it.
RecordedRunIsRunning ==
    ~usurped => \A p \in Procs :
        Owns(p) => LET e == file[job[p].project]
                   IN e.state = "running" /\ e.run = p /\ e.pid = p

\* validateEntry's purpose: no directory is registered under two project
\* identifiers, even after updates have overwritten one another.
PathsDistinct ==
    \A i, j \in Projects : i # j /\ file[i].path = file[j].path => file[i].path = Nowhere

\* No update is lost: a project that has been registered stays registered.
RegistrationLasts ==
    [][~usurped => \A j \in Projects :
          file[j].state # "absent" => file'[j].state # "absent"]_vars

\* The run that a registry records for project j, or Nobody.
RunOf(f, j) == IF f[j].state = "running" THEN f[j].run ELSE Nobody

\* The registry implements the per-project run-state boundary.
Boundary == INSTANCE RunBoundary WITH
    owner <- [j \in Projects |-> RunOf(file, j)],
    alive <- {p \in Procs : Alive(p)},
    trusted <- ~usurped
KeepsBoundary == Boundary!Spec

\* Every invocation ends: a lock that nobody releases, cannot be removed or is
\* always somebody else's delays it for the bounded wait and no longer.
Terminates == \A p \in Procs : <>Ended(p)

\* Claimed: one live run of a project is recorded at a time.
\* (docs/STATUS.md:113, "atomic writes and a cross-process lock")
OneRecordedRun ==
    \A p, q \in Procs :
        Owns(p) /\ Owns(q) /\ job[p].project = job[q].project => p = q
=============================================================================
