-------------------------------- MODULE Runner --------------------------------
(***************************************************************************)
(* runner.runSpec: one external command, the tree of processes that it     *)
(* becomes, the goroutines that copy its two pipes into one bounded        *)
(* buffer and the event stream, and the race of its completion with a      *)
(* cancellation, a hard timeout and an inactivity timeout.                 *)
(*                                                                         *)
(* Abstractions.  A byte is its place in the order in which the processes  *)
(* wrote.  Time is whether the hard timer has fired and whether the output *)
(* has been silent for the inactivity limit.  Emit returns: the stream and *)
(* its sinks are EventStream.  A pipe never fills and is read without an   *)
(* error.  The length limit of an output event and the environment are     *)
(* left out.  Termination is that of process_unix.go: one signal to the    *)
(* process group, which a fork does not escape.                            *)
(***************************************************************************)
EXTENDS Naturals, Sequences, FiniteSets

CONSTANTS
    Root,       \* the command's first process
    Children,   \* processes that it may have as descendants
    Limit,      \* maxCapturedOutput
    MaxBytes,   \* bound on what the processes write
    None

Procs == {Root} \union Children
Streams == {"stdout", "stderr"}
Reasons == {"completed", "cancelled", "hard_timeout", "inactivity_timeout"}

\* What runSpec answers and says in its process_finished event, and how much
\* output had been published when it did.
Answer == [status : {"PASS", "FAIL", "ERROR"}, reason : Reasons \union {"refused", "not started"},
           output : Seq(Nat), total : Nat, truncated : BOOLEAN, after : Nat]

ASSUME RootAssumption == Root \notin Children
ASSUME BoundsAssumption == Limit \in Nat \ {0} /\ MaxBytes \in Nat
ASSUME NoneAssumption == None \notin Answer

VARIABLES
    process,    \* each process: unborn, alive, dead
    group,      \* the processes in the command's process group
    holds,      \* the pipes each process can write to
    exit,       \* how the first process ended: none, zero, other
    pipe,       \* bytes in each pipe
    written,    \* bytes written so far
    copier,     \* the goroutine of each pipe: new, read, write, emit, eof
    inHand,     \* the bytes it has read
    data,       \* boundedOutput.data
    total,      \* boundedOutput.totalBytes
    truncated,  \* boundedOutput.truncated
    idle,       \* lastActivity is older than the inactivity limit
    hardFired,  \* the hard timer has fired
    cancelled,  \* ctx.Done() is closed
    waitDone,   \* command.Wait has returned
    pc,         \* runSpec: start, announce, select, join, finish, returned
    termination,
    emitted,    \* history: the bytes of the process_output events, in order
    answer      \* the result and the process_finished event

processes == <<process, group, holds, exit>>
output == <<data, total, truncated>>
timers == <<hardFired, cancelled>>
copying == <<pipe, copier, inHand, output, idle, emitted>>
runner == <<pc, termination, answer>>
vars == <<processes, written, copying, timers, waitDone, runner>>

Init ==
    /\ process = [p \in Procs |-> "unborn"]
    /\ group = {}
    /\ holds = [p \in Procs |-> {}]
    /\ exit = "none"
    /\ pipe = [s \in Streams |-> <<>>] /\ written = 0
    /\ copier = [s \in Streams |-> "new"]
    /\ inHand = [s \in Streams |-> <<>>]
    /\ data = <<>> /\ total = 0 /\ truncated = FALSE
    /\ idle = FALSE /\ hardFired = FALSE /\ cancelled \in BOOLEAN
    /\ waitDone = FALSE
    /\ pc = "start" /\ termination = "none"
    /\ emitted = <<>> /\ answer = None

-----------------------------------------------------------------------------
(* The processes, which do as they like.                                   *)

Alive(p) == process[p] = "alive"

Fork(p, c) ==
    /\ Alive(p) /\ process[c] = "unborn"
    /\ process' = [process EXCEPT ![c] = "alive"]
    /\ group' = IF p \in group THEN group \union {c} ELSE group
    /\ holds' = [holds EXCEPT ![c] = holds[p]]
    /\ UNCHANGED <<exit, written, copying, timers, waitDone, runner>>

\* A descendant makes a session or a group of its own, as daemons do.
LeaveGroup(p) ==
    /\ Alive(p) /\ p \in group \ {Root}
    /\ group' = group \ {p}
    /\ UNCHANGED <<process, holds, exit, written, copying, timers, waitDone, runner>>

ClosePipe(p, s) ==
    /\ Alive(p) /\ s \in holds[p]
    /\ holds' = [holds EXCEPT ![p] = @ \ {s}]
    /\ UNCHANGED <<process, group, exit, written, copying, timers, waitDone, runner>>

Put(p, s) ==
    /\ Alive(p) /\ s \in holds[p] /\ written < MaxBytes
    /\ written' = written + 1
    /\ pipe' = [pipe EXCEPT ![s] = Append(@, written + 1)]
    /\ UNCHANGED <<processes, copier, inHand, output, idle, emitted, timers, waitDone, runner>>

\* A process ends; of the first one the exit code is kept.
Exit(p) ==
    /\ Alive(p)
    /\ process' = [process EXCEPT ![p] = "dead"]
    /\ holds' = [holds EXCEPT ![p] = {}]
    /\ exit' \in IF p = Root THEN {"zero", "other"} ELSE {exit}
    /\ UNCHANGED <<group, written, copying, timers, waitDone, runner>>

Processes ==
    \E p \in Procs :
        \/ (\E c \in Children : Fork(p, c)) \/ LeaveGroup(p) \/ Exit(p)
        \/ \E s \in Streams : ClosePipe(p, s) \/ Put(p, s)

-----------------------------------------------------------------------------
(* The goroutines of os/exec: one copies each pipe, one waits.             *)

Goto(s, l) == copier' = [copier EXCEPT ![s] = l]

\* Some of what is in the pipe, in one read.
Read(s) ==
    /\ copier[s] = "read" /\ pipe[s] # <<>>
    /\ \E n \in 1..Len(pipe[s]) :
          /\ inHand' = [inHand EXCEPT ![s] = SubSeq(pipe[s], 1, n)]
          /\ pipe' = [pipe EXCEPT ![s] = SubSeq(pipe[s], n + 1, Len(pipe[s]))]
    /\ Goto(s, "write")
    /\ UNCHANGED <<processes, written, output, idle, emitted, timers, waitDone, runner>>

\* Nothing is left and nobody can write any more.
EndOfFile(s) ==
    /\ copier[s] = "read" /\ pipe[s] = <<>>
    /\ \A p \in Procs : s \notin holds[p]
    /\ Goto(s, "eof")
    /\ UNCHANGED <<processes, written, pipe, inHand, output, idle, emitted, timers, waitDone, runner>>

Shorter(m, n) == IF m < n THEN m ELSE n

\* boundedOutput.write
Kept(d, chunk) == d \o SubSeq(chunk, 1, Shorter(Len(chunk), Limit - Len(d)))

\* Mutant of Write: the buffer has a lock, and the event is sent after it.
WriteUnlocked(s) ==
    /\ copier[s] = "write"
    /\ data' = Kept(data, inHand[s])
    /\ total' = total + Len(inHand[s])
    /\ truncated' = (truncated \/ Len(inHand[s]) > Limit - Len(data))
    /\ idle' = FALSE
    /\ Goto(s, "emit")
    /\ UNCHANGED <<processes, written, pipe, inHand, emitted, timers, waitDone, runner>>

\* activityWriter.Write takes the lock, which it keeps while it emits.
Write(s) ==
    /\ copier[s] = "write" /\ \A t \in Streams : copier[t] # "emit"
    /\ data' = Kept(data, inHand[s])
    /\ total' = total + Len(inHand[s])
    /\ truncated' = (truncated \/ Len(inHand[s]) > Limit - Len(data))
    /\ idle' = FALSE
    /\ Goto(s, "emit")
    /\ UNCHANGED <<processes, written, pipe, inHand, emitted, timers, waitDone, runner>>

\* The event carries all that was read, whether or not it was retained.
Emit(s) ==
    /\ copier[s] = "emit" /\ Goto(s, "read")
    /\ emitted' = emitted \o inHand[s]
    /\ inHand' = [inHand EXCEPT ![s] = <<>>]
    /\ UNCHANGED <<processes, written, pipe, output, idle, timers, waitDone, runner>>

\* Mutant of Wait: it does not wait for the copying goroutines.
WaitProcess ==
    /\ ~waitDone /\ exit # "none" /\ waitDone' = TRUE
    /\ UNCHANGED <<processes, written, copying, timers, runner>>

\* command.Wait: the first process has ended and both pipes with it.
Wait ==
    /\ ~waitDone /\ exit # "none"
    /\ \A s \in Streams : copier[s] = "eof"
    /\ waitDone' = TRUE
    /\ UNCHANGED <<processes, written, copying, timers, runner>>

-----------------------------------------------------------------------------
(* runSpec.                                                                *)

\* What is answered: the buffer as it is, and how much was published before.
Finished(status) ==
    [status |-> status, reason |-> termination,
     output |-> data, total |-> total, truncated |-> truncated, after |-> Len(emitted)]

\* There is no such command, directory or executable; or command.Start fails,
\* of which an event tells.
StartFails ==
    /\ pc = "start" /\ pc' = "returned"
    /\ \E r \in {"refused", "not started"} :
          answer' = [Finished("ERROR") EXCEPT !.reason = r]
    /\ UNCHANGED <<processes, written, copying, timers, waitDone, termination>>

\* It makes the process in a group of its own, and the copying goroutines.
Start ==
    /\ pc = "start" /\ pc' = "announce"
    /\ process' = [process EXCEPT ![Root] = "alive"]
    /\ group' = {Root}
    /\ holds' = [holds EXCEPT ![Root] = Streams]
    /\ copier' = [s \in Streams |-> "read"]
    /\ UNCHANGED <<exit, written, pipe, inHand, output, idle, emitted, timers,
                   waitDone, termination, answer>>

\* The process_started event; then Wait and the timers begin.
Announce ==
    /\ pc = "announce" /\ pc' = "select"
    /\ UNCHANGED <<processes, written, copying, timers, waitDone, termination, answer>>

Complete ==
    /\ pc = "select" /\ waitDone
    /\ termination' = "completed" /\ pc' = "finish"
    /\ UNCHANGED <<processes, written, copying, timers, waitDone, answer>>

\* Why the select statement may end the command.
Due == {r \in Reasons : \/ r = "cancelled" /\ cancelled
                        \/ r = "hard_timeout" /\ hardFired
                        \/ r = "inactivity_timeout" /\ idle}

\* Mutant of Killed: only the first process is killed.
KilledFirst == {Root}

\* terminateProcessTree: the group, and the first process at any rate.
Killed == {p \in Procs : p \in group \/ p = Root}

\* The tree is killed; then the rest of its output is waited for.
Terminate ==
    /\ pc = "select" /\ Due # {}
    /\ termination' \in Due /\ pc' = "join"
    /\ process' = [p \in Procs |-> IF p \in Killed /\ Alive(p) THEN "dead" ELSE process[p]]
    /\ holds' = [p \in Procs |-> IF p \in Killed THEN {} ELSE holds[p]]
    /\ exit' = IF Alive(Root) THEN "other" ELSE exit
    /\ UNCHANGED <<group, written, copying, timers, waitDone, answer>>

Join ==
    /\ pc = "join" /\ waitDone /\ pc' = "finish"
    /\ UNCHANGED <<processes, written, copying, timers, waitDone, termination, answer>>

Verdict ==
    IF termination # "completed" THEN "ERROR" ELSE IF exit = "zero" THEN "PASS" ELSE "FAIL"

Finish ==
    /\ pc = "finish" /\ pc' = "returned"
    /\ answer' = Finished(Verdict)
    /\ UNCHANGED <<processes, written, copying, timers, waitDone, termination>>

Returned == pc = "returned"

-----------------------------------------------------------------------------
(* Time and the caller.                                                    *)

FireHard ==
    /\ pc = "select" /\ ~hardFired /\ hardFired' = TRUE
    /\ UNCHANGED <<processes, written, copying, cancelled, waitDone, runner>>

FallSilent ==
    /\ ~idle /\ pc \in {"announce", "select"} /\ idle' = TRUE
    /\ UNCHANGED <<processes, written, pipe, copier, inHand, output, emitted, timers,
                   waitDone, runner>>

Cancel ==
    /\ ~cancelled /\ ~Returned /\ cancelled' = TRUE
    /\ UNCHANGED <<processes, written, copying, hardFired, waitDone, runner>>

Idle == Returned /\ UNCHANGED vars

Copy(s) == Read(s) \/ EndOfFile(s) \/ Write(s) \/ Emit(s)
Run == StartFails \/ Start \/ Announce \/ Complete \/ Terminate \/ Join \/ Finish

Next ==
    \/ Processes \/ (\E s \in Streams : Copy(s)) \/ Wait \/ Run
    \/ FireHard \/ FallSilent \/ Cancel \/ Idle

Spec == Init /\ [][Next]_vars

\* The goroutines are scheduled and the hard timer, which every command has,
\* fires; nothing is assumed of the processes.
Fairness ==
    /\ WF_vars(Run) /\ WF_vars(Wait) /\ WF_vars(FireHard)
    /\ \A s \in Streams : WF_vars(Copy(s))

FairSpec == Spec /\ Fairness

-----------------------------------------------------------------------------
(* Properties.                                                             *)

TypeOK ==
    /\ process \in [Procs -> {"unborn", "alive", "dead"}]
    /\ group \subseteq Procs
    /\ holds \in [Procs -> SUBSET Streams]
    /\ exit \in {"none", "zero", "other"}
    /\ pipe \in [Streams -> Seq(Nat)] /\ written \in Nat
    /\ copier \in [Streams -> {"new", "read", "write", "emit", "eof"}]
    /\ inHand \in [Streams -> Seq(Nat)]
    /\ data \in Seq(Nat) /\ total \in Nat /\ truncated \in BOOLEAN
    /\ idle \in BOOLEAN /\ hardFired \in BOOLEAN /\ cancelled \in BOOLEAN
    /\ waitDone \in BOOLEAN
    /\ pc \in {"start", "announce", "select", "join", "finish", "returned"}
    /\ termination \in Reasons \union {"none"}
    /\ emitted \in Seq(Nat)
    /\ answer \in Answer \union {None}

\* What has been given to the buffer: what was published, and what the holder
\* of the lock is about to publish.
Accepted ==
    IF copier["stdout"] = "emit" THEN emitted \o inHand["stdout"]
    ELSE IF copier["stderr"] = "emit" THEN emitted \o inHand["stderr"] ELSE emitted

\* However the two streams interleave, the buffer holds the first bytes of
\* what is published, in the order in which it is published, counts all of
\* them, and says so exactly when it does not hold all of them.
OutputFaithful ==
    /\ data = SubSeq(Accepted, 1, Shorter(Limit, Len(Accepted)))
    /\ total = Len(Accepted)
    /\ truncated <=> Len(Accepted) > Limit

\* A command that was started is answered with everything its processes ever
\* wrote, also after it was killed in the middle of it; process_finished is
\* the last of its events; and there is nobody left to write.
OutputComplete ==
    Returned /\ answer.reason \in Reasons =>
        /\ answer.total = written
        /\ answer.after = Len(emitted)
        /\ \A p \in Procs : holds[p] = {}

\* After a timeout or a cancellation no process of the command's group is
\* left, whatever was forked meanwhile, and the command is in error, even if
\* its first process had ended well before; that one is gone in every case.
TreeGone ==
    /\ termination \notin {"none", "completed"} =>
          /\ \A p \in group : ~Alive(p)
          /\ Returned => answer.status = "ERROR"
    /\ Returned => ~Alive(Root)

\* A command implements what its check relies on, AnsweredCommand: whatever
\* the interleaving of its processes, its pipes and its end, there is one
\* answer, after everything, and it passes only what ended well by itself.
Promised == INSTANCE AnsweredCommand WITH
    said <- written, heard <- emitted, end <- exit, asked <- cancelled

KeepsAnswer == Promised!Spec

\* Someone outside of the group can still write.
Escaped == \E p \in Procs : Alive(p) /\ p \notin group /\ holds[p] # {}

\* A command returns, however its processes behave, unless one that has left
\* the group keeps a pipe open for good.
Returns == []<>Escaped \/ <>Returned
=============================================================================
