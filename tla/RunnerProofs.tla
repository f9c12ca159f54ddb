---------------------------- MODULE RunnerProofs ----------------------------
(***************************************************************************)
(* Proofs about a command, for any number of processes, any output, any    *)
(* limit of the buffer and any order of termination and completion.        *)
(***************************************************************************)
EXTENDS Runner, SequenceTheorems, TLAPS

\* The processes: only the living hold pipes, the exit code is that of the
\* end of the first one, and after a kill the group is empty.
Tree ==
    /\ \A p \in Procs : ~Alive(p) => holds[p] = {}
    /\ exit = "none" <=> process[Root] # "dead"
    /\ \A p \in group : process[p] # "unborn"
    /\ pc = "start" => \A p \in Procs : process[p] = "unborn"
    /\ pc \in {"start", "announce", "select"} <=> termination = "none" /\ pc # "returned"
    /\ pc = "join" => termination # "completed"
    /\ termination \notin {"none", "completed"} => \A p \in group : ~Alive(p)

\* The bytes that are on their way from a pipe into the buffer.
Carried(s) == IF copier[s] = "write" THEN Len(inHand[s]) ELSE 0
Waiting(s) == Len(pipe[s]) + Carried(s)

\* The output: one goroutine at a time publishes, an end of file is final, and
\* every byte written is in a pipe, in hand or in the buffer.
Flow ==
    /\ copier["stdout"] # "emit" \/ copier["stderr"] # "emit"
    /\ pc = "start" => \A s \in Streams : copier[s] = "new"
    /\ \A s \in Streams :
          copier[s] = "eof" => pipe[s] = <<>> /\ \A p \in Procs : s \notin holds[p]
    /\ written = total + Waiting("stdout") + Waiting("stderr")
    /\ waitDone => exit # "none" /\ \A s \in Streams : copier[s] = "eof"
    /\ pc = "finish" => waitDone

\* The answer speaks of what there is, and nothing moves after it.
Answered ==
    /\ Returned <=> answer # None
    /\ Returned /\ answer.reason \in Reasons =>
          /\ waitDone /\ termination = answer.reason
          /\ answer.total = total /\ answer.after = Len(emitted)
          /\ termination # "completed" => answer.status = "ERROR"
    /\ Returned /\ answer.reason \notin Reasons =>
          /\ termination = "none"
          /\ \A s \in Streams : copier[s] = "new"
          /\ \A p \in Procs : ~Alive(p)

IInv ==
    /\ TypeOK
    /\ Tree
    /\ Flow
    /\ OutputFaithful
    /\ Answered

\* The first n members of a sequence.
LEMMA FirstPart ==
    ASSUME NEW a \in Seq(Nat), NEW n \in 0..Len(a)
    PROVE  /\ SubSeq(a, 1, n) \in Seq(Nat)
           /\ Len(SubSeq(a, 1, n)) = n
           /\ \A i \in 1..n : SubSeq(a, 1, n)[i] = a[i]
<1>1. n \in Int /\ 1 \in Int /\ Len(a) \in Nat
  BY LenProperties
<1>2. \A i \in 1..n : a[i] \in Nat
  BY <1>1, ElementOfSeq
<1>3. /\ SubSeq(a, 1, n) \in Seq(Nat)
      /\ Len(SubSeq(a, 1, n)) = IF 1 <= n THEN n - 1 + 1 ELSE 0
      /\ \A i \in 1..(n - 1 + 1) : SubSeq(a, 1, n)[i] = a[1 + i - 1]
  BY <1>1, <1>2, SubSeqProperties
<1>q. QED
  BY <1>1, <1>3

\* What a buffer that holds the first bytes of a holds of a \o b.
LEMMA KeepsFirst ==
    ASSUME NEW a \in Seq(Nat), NEW b \in Seq(Nat),
           data = SubSeq(a, 1, Shorter(Limit, Len(a)))
    PROVE  /\ Kept(data, b) = SubSeq(a \o b, 1, Shorter(Limit, Len(a \o b)))
           /\ Kept(data, b) \in Seq(Nat)
           /\ a \o b \in Seq(Nat)
           /\ Len(a \o b) = Len(a) + Len(b)
           /\ Len(a) > Limit \/ Len(b) > Limit - Len(data) <=> Len(a \o b) > Limit
<1> DEFINE n == Shorter(Limit, Len(a))
           k == Shorter(Len(b), Limit - n)
           l == Shorter(Limit, Len(a \o b))
<1>1. Len(a) \in Nat /\ Len(b) \in Nat /\ Limit \in Nat
  BY LenProperties, BoundsAssumption
<1>2. /\ a \o b \in Seq(Nat) /\ Len(a \o b) = Len(a) + Len(b)
      /\ \A i \in 1..(Len(a) + Len(b)) :
            (a \o b)[i] = IF i <= Len(a) THEN a[i] ELSE b[i - Len(a)]
  BY ConcatProperties
<1>3. n \in 0..Len(a) /\ k \in 0..Len(b) /\ l \in 0..Len(a \o b) /\ l = n + k
  <2>1. n \in 0..Len(a) /\ n <= Limit /\ (n = Limit \/ (n = Len(a) /\ Len(a) < Limit))
    BY <1>1 DEF Shorter
  <2>2. k = IF Len(b) < Limit - n THEN Len(b) ELSE Limit - n
    BY DEF Shorter
  <2>3. l = IF Limit < Len(a) + Len(b) THEN Limit ELSE Len(a) + Len(b)
    BY <1>2 DEF Shorter
  <2> DEFINE m == Len(a \o b)
  <2>4. m = Len(a) + Len(b)
    BY <1>2
  <2> HIDE DEF n, k, l, m
  <2>5. k \in 0..Len(b)
    BY <1>1, <2>1, <2>2
  <2>6. l = n + k
    BY <1>1, <2>1, <2>2, <2>3, SMTT(30)
  <2>7. l \in 0..m
    BY <1>1, <2>1, <2>5, <2>4, <2>6
  <2>q. QED
    BY <2>1, <2>5, <2>6, <2>7 DEF m
<1>4. /\ data \in Seq(Nat) /\ Len(data) = n
      /\ \A i \in 1..n : data[i] = a[i]
  BY <1>3, FirstPart
<1>5. /\ SubSeq(b, 1, k) \in Seq(Nat) /\ Len(SubSeq(b, 1, k)) = k
      /\ \A i \in 1..k : SubSeq(b, 1, k)[i] = b[i]
  BY <1>3, FirstPart
<1>6. /\ SubSeq(a \o b, 1, l) \in Seq(Nat) /\ Len(SubSeq(a \o b, 1, l)) = l
      /\ \A i \in 1..l : SubSeq(a \o b, 1, l)[i] = (a \o b)[i]
  BY <1>2, <1>3, FirstPart
<1>7. Kept(data, b) = data \o SubSeq(b, 1, k)
  BY <1>4 DEF Kept
<1>8. /\ Kept(data, b) \in Seq(Nat) /\ Len(Kept(data, b)) = n + k
      /\ \A i \in 1..(n + k) :
            Kept(data, b)[i] = IF i <= n THEN data[i] ELSE SubSeq(b, 1, k)[i - n]
  <2> DEFINE c == SubSeq(b, 1, k)
  <2>1. c \in Seq(Nat) /\ Len(c) = k
    BY <1>5
  <2> HIDE DEF c, n, k
  <2>2. /\ data \o c \in Seq(Nat) /\ Len(data \o c) = Len(data) + Len(c)
        /\ \A i \in 1..(Len(data) + Len(c)) :
              (data \o c)[i] = IF i <= Len(data) THEN data[i] ELSE c[i - Len(data)]
    BY <1>4, <2>1, ConcatProperties
  <2>3. Kept(data, b) = data \o c
    BY <1>7 DEF c
  <2>q. QED
    BY <1>4, <2>1, <2>2, <2>3 DEF c
<1>9. \A i \in 1..l : Kept(data, b)[i] = SubSeq(a \o b, 1, l)[i]
  <2> SUFFICES ASSUME NEW i \in 1..l PROVE Kept(data, b)[i] = SubSeq(a \o b, 1, l)[i]
    OBVIOUS
  <2>1. CASE i <= n
    BY <1>1, <1>2, <1>3, <1>4, <1>6, <1>8, <2>1
  <2>2. CASE i > n
    <3>1. n = Len(a) /\ i - n \in 1..k
      BY <1>1, <1>3, <2>2 DEF Shorter
    <3>q. QED
      BY <1>1, <1>2, <1>3, <1>5, <1>6, <1>8, <2>2, <3>1
  <2>q. QED
    BY <1>1, <1>3, <2>1, <2>2, SMTT(30)
<1>10. Kept(data, b) = SubSeq(a \o b, 1, l)
  BY <1>3, <1>6, <1>8, <1>9, SeqEqual
<1>11. Len(a) > Limit \/ Len(b) > Limit - Len(data) <=> Len(a \o b) > Limit
  BY <1>1, <1>2, <1>4 DEF Shorter
<1>q. QED
  BY <1>2, <1>8, <1>10, <1>11

LEMMA WaitingType ==
    ASSUME TypeOK, NEW s \in Streams
    PROVE  /\ Len(pipe[s]) \in Nat /\ Len(inHand[s]) \in Nat
           /\ Carried(s) \in Nat /\ Waiting(s) \in Nat
<1>1. Len(pipe[s]) \in Nat /\ Len(inHand[s]) \in Nat
  BY DEF TypeOK
<1>2. Carried(s) \in Nat
  BY <1>1 DEF Carried
<1>q. QED
  BY <1>1, <1>2 DEF Waiting

LEMMA InitInv == Init => IInv
<1> SUFFICES ASSUME Init PROVE IInv
  OBVIOUS
<1> USE DEF Init, Streams
<1>1. TypeOK
  BY EmptySeq DEF TypeOK, Reasons
<1>2. Tree
  BY DEF Tree, Alive, Procs
<1>3. Flow
  BY DEF Flow, Waiting, Carried
<1>4. OutputFaithful
  <2>1. Accepted = <<>> /\ Len(Accepted) = 0
    BY DEF Accepted
  <2>2. SubSeq(<<>>, 1, 0) = <<>>
    BY SubSeqEmpty
  <2>q. QED
    BY <2>1, <2>2, BoundsAssumption DEF OutputFaithful, Shorter
<1>5. Answered
  BY NoneAssumption DEF Answered, Returned
<1>q. QED
  BY <1>1, <1>2, <1>3, <1>4, <1>5 DEF IInv

-----------------------------------------------------------------------------
(* The processes.                                                          *)

\* What a step of a process leaves alone.
LEMMA OutputUnmoved ==
    ASSUME OutputFaithful, UNCHANGED <<copier, inHand, output, emitted>>
    PROVE  OutputFaithful'
  BY DEF OutputFaithful, Accepted, output

LEMMA AnswerUnmoved ==
    ASSUME Answered, UNCHANGED <<copier, total, emitted, waitDone, pc, termination, answer>>,
           \A p \in Procs : Alive(p)' => \E q \in Procs : Alive(q)
    PROVE  Answered'
  BY DEF Answered, Returned

LEMMA ForkInv ==
    ASSUME IInv, NEW p \in Procs, NEW c \in Children, Fork(p, c)
    PROVE  IInv'
<1> USE DEF IInv, Fork
<1>0. c \in Procs /\ c # Root
  BY RootAssumption DEF Procs
<1>1. TypeOK'
  BY <1>0 DEF TypeOK, copying, output, timers, runner
<1>2. Tree'
  BY <1>0 DEF Tree, TypeOK, Alive, copying, timers, runner, Returned
<1>3. Flow'
  BY <1>0 DEF Flow, Waiting, Carried, TypeOK, copying, output, timers, runner
<1>4. OutputFaithful'
  BY OutputUnmoved DEF copying
<1>5. Answered'
  BY AnswerUnmoved, <1>0 DEF copying, output, timers, runner
<1>q. QED
  BY <1>1, <1>2, <1>3, <1>4, <1>5

LEMMA LeaveGroupInv ==
    ASSUME IInv, NEW p \in Procs, LeaveGroup(p)
    PROVE  IInv'
<1> USE DEF IInv, LeaveGroup
<1>1. TypeOK'
  BY DEF TypeOK, copying, output, timers, runner
<1>2. Tree'
  BY DEF Tree, TypeOK, Alive, copying, timers, runner, Returned
<1>3. Flow'
  BY DEF Flow, Waiting, Carried, TypeOK, copying, output, timers, runner
<1>4. OutputFaithful'
  BY OutputUnmoved DEF copying
<1>5. Answered'
  BY AnswerUnmoved DEF copying, output, timers, runner
<1>q. QED
  BY <1>1, <1>2, <1>3, <1>4, <1>5

LEMMA ClosePipeInv ==
    ASSUME IInv, NEW p \in Procs, NEW s \in Streams, ClosePipe(p, s)
    PROVE  IInv'
<1> USE DEF IInv, ClosePipe
<1>1. TypeOK'
  BY DEF TypeOK, copying, output, timers, runner
<1>2. Tree'
  BY DEF Tree, TypeOK, Alive, copying, timers, runner, Returned
<1>3. Flow'
  BY DEF Flow, Waiting, Carried, TypeOK, copying, output, timers, runner
<1>4. OutputFaithful'
  BY OutputUnmoved DEF copying
<1>5. Answered'
  BY AnswerUnmoved, <1>2 DEF copying, output, timers, runner, Alive
<1>q. QED
  BY <1>1, <1>2, <1>3, <1>4, <1>5

LEMMA ExitInv ==
    ASSUME IInv, NEW p \in Procs, Exit(p)
    PROVE  IInv'
<1> USE DEF IInv, Exit
<1>1. TypeOK'
  BY DEF TypeOK, copying, output, timers, runner
<1>2. Tree'
  BY DEF Tree, TypeOK, Alive, copying, timers, runner, Returned, Procs
<1>3. Flow'
  BY DEF Flow, Waiting, Carried, TypeOK, copying, output, timers, runner
<1>4. OutputFaithful'
  BY OutputUnmoved DEF copying
<1>5. Answered'
  BY AnswerUnmoved DEF copying, output, timers, runner, Alive
<1>q. QED
  BY <1>1, <1>2, <1>3, <1>4, <1>5

\* The new byte is in the pipe; the pipe is not at its end.
LEMMA PutInv ==
    ASSUME IInv, NEW p \in Procs, NEW s \in Streams, Put(p, s)
    PROVE  IInv'
<1> USE DEF IInv, Put
<1>1. /\ pipe' \in [Streams -> Seq(Nat)]
      /\ Len(pipe'[s]) = Len(pipe[s]) + 1
      /\ \A t \in Streams \ {s} : pipe'[t] = pipe[t]
  BY DEF TypeOK
<1>2. copier[s] # "eof"
  BY DEF Flow
<1>3. TypeOK'
  BY <1>1 DEF TypeOK, processes, output, timers, runner
<1>4. Tree'
  BY DEF Tree, TypeOK, Alive, processes, timers, runner, Returned
<1>5. Flow'
  <2>1. \A t \in Streams : Carried(t)' = Carried(t)
    BY DEF Carried
  <2>2. /\ Waiting(s)' = Waiting(s) + 1
        /\ \A t \in Streams \ {s} : Waiting(t)' = Waiting(t)
    BY <1>1, <2>1, WaitingType DEF Waiting
  <2>3. written' = total' + Waiting("stdout")' + Waiting("stderr")'
    <3>1. Waiting("stdout") \in Nat /\ Waiting("stderr") \in Nat /\ total \in Nat
      BY WaitingType DEF Streams, TypeOK
    <3>2. \/ Waiting("stdout")' = Waiting("stdout") + 1 /\ Waiting("stderr")' = Waiting("stderr")
          \/ Waiting("stderr")' = Waiting("stderr") + 1 /\ Waiting("stdout")' = Waiting("stdout")
      BY <2>2 DEF Streams
    <3>3. written' = written + 1 /\ total' = total
      BY DEF output
    <3>4. written = total + Waiting("stdout") + Waiting("stderr")
      BY DEF Flow
    <3>q. QED
      BY <3>1, <3>2, <3>3, <3>4
  <2>q. QED
    BY <1>1, <1>2, <2>3 DEF Flow, processes, output, timers, runner
<1>6. OutputFaithful'
  BY OutputUnmoved
<1>7. Answered'
  BY AnswerUnmoved DEF processes, output, timers, runner, Alive
<1>q. QED
  BY <1>3, <1>4, <1>5, <1>6, <1>7

-----------------------------------------------------------------------------
(* The copying goroutines, and the one that waits.                         *)

\* While one of them is at work, the command is neither new nor answered.
LEMMA AtWork ==
    ASSUME IInv, NEW s \in Streams, copier[s] \in {"read", "write", "emit"}
    PROVE  ~Returned /\ ~waitDone /\ pc \notin {"start", "finish", "returned"}
  BY DEF IInv, Flow, Answered, Returned

\* What a step of a copying goroutine leaves alone.
LEMMA TreeUnmoved ==
    ASSUME Tree, UNCHANGED <<processes, pc, termination>>
    PROVE  Tree'
  BY DEF Tree, processes, Alive

LEMMA Unanswered ==
    ASSUME Answered, ~Returned, UNCHANGED <<pc, answer>>
    PROVE  Answered'
  BY DEF Answered, Returned

LEMMA ReadInv ==
    ASSUME IInv, NEW s \in Streams, Read(s)
    PROVE  IInv'
<1> USE DEF IInv, Read, Goto
<1>0. ~Returned /\ ~waitDone /\ pc \notin {"start", "finish", "returned"}
  BY AtWork
<1>1. PICK n \in 1..Len(pipe[s]) :
          /\ inHand' = [inHand EXCEPT ![s] = SubSeq(pipe[s], 1, n)]
          /\ pipe' = [pipe EXCEPT ![s] = SubSeq(pipe[s], n + 1, Len(pipe[s]))]
  OBVIOUS
<1>2. Len(pipe[s]) \in Nat /\ pipe[s] \in Seq(Nat) /\ \A i \in 1..Len(pipe[s]) : pipe[s][i] \in Nat
  BY ElementOfSeq DEF TypeOK
<1>3. /\ SubSeq(pipe[s], 1, n) \in Seq(Nat) /\ Len(SubSeq(pipe[s], 1, n)) = n
      /\ SubSeq(pipe[s], n + 1, Len(pipe[s])) \in Seq(Nat)
      /\ Len(SubSeq(pipe[s], n + 1, Len(pipe[s]))) = Len(pipe[s]) - n
  <2>1. SubSeq(pipe[s], 1, n) \in Seq(Nat) /\ Len(SubSeq(pipe[s], 1, n)) = n
    BY <1>2, FirstPart
  <2>2. n + 1 \in Int /\ Len(pipe[s]) \in Int /\ \A i \in (n + 1)..Len(pipe[s]) : pipe[s][i] \in Nat
    BY <1>2
  <2>3. /\ SubSeq(pipe[s], n + 1, Len(pipe[s])) \in Seq(Nat)
        /\ Len(SubSeq(pipe[s], n + 1, Len(pipe[s])))
              = IF n + 1 <= Len(pipe[s]) THEN Len(pipe[s]) - (n + 1) + 1 ELSE 0
    BY <2>2, SubSeqProperties
  <2>q. QED
    BY <1>2, <2>1, <2>3
<1>4. /\ pipe' \in [Streams -> Seq(Nat)] /\ Len(pipe'[s]) = Len(pipe[s]) - n
      /\ inHand' \in [Streams -> Seq(Nat)] /\ Len(inHand'[s]) = n
      /\ copier' \in [Streams -> {"new", "read", "write", "emit", "eof"}] /\ copier'[s] = "write"
      /\ \A t \in Streams \ {s} :
            pipe'[t] = pipe[t] /\ inHand'[t] = inHand[t] /\ copier'[t] = copier[t]
  BY <1>1, <1>3 DEF TypeOK
<1>5. TypeOK'
  BY <1>4 DEF TypeOK, processes, output, timers, runner
<1>6. Tree'
  BY TreeUnmoved DEF runner
<1>7. Flow'
  <2>0. /\ Carried(s) = 0 /\ Carried(s)' = n
        /\ \A t \in Streams \ {s} : Carried(t)' = Carried(t)
    BY <1>4 DEF Carried
  <2>1. \A t \in Streams : Waiting(t)' = Waiting(t)
    <3>1. Waiting(s)' = Waiting(s)
      BY <1>2, <1>4, <2>0 DEF Waiting
    <3>2. \A t \in Streams \ {s} : Waiting(t)' = Waiting(t)
      BY <1>4, <2>0 DEF Waiting
    <3>q. QED
      BY <3>1, <3>2
  <2>2. Waiting("stdout")' = Waiting("stdout") /\ Waiting("stderr")' = Waiting("stderr")
    BY <2>1 DEF Streams
  <2>q. QED
    BY <1>0, <1>4, <2>2 DEF Flow, processes, output, timers, runner, Streams
<1>8. OutputFaithful'
  <2>1. Accepted' = Accepted
    BY <1>4 DEF Accepted, Streams
  <2>q. QED
    BY <2>1 DEF OutputFaithful, output
<1>9. Answered'
  BY <1>0, Unanswered DEF runner
<1>q. QED
  BY <1>5, <1>6, <1>7, <1>8, <1>9

LEMMA EndOfFileInv ==
    ASSUME IInv, NEW s \in Streams, EndOfFile(s)
    PROVE  IInv'
<1> USE DEF IInv, EndOfFile, Goto
<1>0. ~Returned /\ ~waitDone /\ pc \notin {"start", "finish", "returned"}
  BY AtWork
<1>1. TypeOK'
  BY DEF TypeOK, processes, output, timers, runner
<1>2. Tree'
  BY TreeUnmoved DEF runner
<1>3. Flow'
  <2>1. \A t \in Streams : Waiting(t)' = Waiting(t)
    BY DEF Waiting, Carried, TypeOK
  <2>2. Waiting("stdout")' = Waiting("stdout") /\ Waiting("stderr")' = Waiting("stderr")
    BY <2>1 DEF Streams
  <2>q. QED
    BY <1>0, <2>2 DEF Flow, TypeOK, processes, output, timers, runner, Streams
<1>4. OutputFaithful'
  <2>1. Accepted' = Accepted
    BY DEF Accepted, Streams, TypeOK
  <2>q. QED
    BY <2>1 DEF OutputFaithful, output
<1>5. Answered'
  BY <1>0, Unanswered DEF runner
<1>q. QED
  BY <1>1, <1>2, <1>3, <1>4, <1>5

LEMMA WriteInv ==
    ASSUME IInv, NEW s \in Streams, Write(s)
    PROVE  IInv'
<1> USE DEF IInv, Write, Goto
<1>0. ~Returned /\ ~waitDone /\ pc \notin {"start", "finish", "returned"}
  BY AtWork
<1>1. inHand[s] \in Seq(Nat) /\ emitted \in Seq(Nat) /\ Len(inHand[s]) \in Nat
  BY DEF TypeOK
<1>2. Accepted = emitted
  BY DEF Accepted, Streams
<1>3. Accepted' = emitted \o inHand[s]
  BY DEF Accepted, Streams, TypeOK
<1>4. data = SubSeq(emitted, 1, Shorter(Limit, Len(emitted))) /\ total = Len(emitted)
  BY <1>2 DEF OutputFaithful
<1>5. /\ Kept(data, inHand[s])
            = SubSeq(emitted \o inHand[s], 1, Shorter(Limit, Len(emitted \o inHand[s])))
      /\ Kept(data, inHand[s]) \in Seq(Nat)
      /\ Len(emitted \o inHand[s]) = Len(emitted) + Len(inHand[s])
      /\ Len(emitted) > Limit \/ Len(inHand[s]) > Limit - Len(data)
            <=> Len(emitted \o inHand[s]) > Limit
  BY <1>1, <1>4, KeepsFirst
<1>6. TypeOK'
  <2>1. data' \in Seq(Nat) /\ idle' \in BOOLEAN
    BY <1>5
  <2>3. total' \in Nat
    <3>1. total \in Nat /\ total' = total + Len(inHand[s])
      BY DEF TypeOK
    <3>q. QED
      BY <1>1, <3>1
  <2>2. truncated' \in BOOLEAN
    OBVIOUS
  <2>q. QED
    BY <2>1, <2>2, <2>3 DEF TypeOK, processes, timers, runner
<1>7. Tree'
  BY TreeUnmoved DEF runner
<1>8. Flow'
  <2>1. /\ Waiting(s) = Waiting(s)' + Len(inHand[s])
        /\ Waiting(s)' \in Nat
        /\ \A t \in Streams \ {s} : Waiting(t)' = Waiting(t)
    <3>1. /\ Carried(s)' = 0 /\ Carried(s) = Len(inHand[s])
          /\ \A t \in Streams \ {s} : Carried(t)' = Carried(t)
      BY DEF Carried, TypeOK
    <3>q. QED
      BY <1>1, <3>1, WaitingType DEF Waiting
  <2>2. /\ Waiting("stdout")' \in Nat /\ Waiting("stderr")' \in Nat /\ total \in Nat
        /\ Waiting("stdout") \in Nat /\ Waiting("stderr") \in Nat
    <3>1. \A t \in Streams : Waiting(t) \in Nat /\ Waiting(t)' \in Nat
      BY <2>1, WaitingType
    <3>q. QED
      BY <3>1 DEF Streams, TypeOK
  <2>3. \/ /\ Waiting("stdout") = Waiting("stdout")' + Len(inHand[s])
           /\ Waiting("stderr") = Waiting("stderr")'
        \/ /\ Waiting("stderr") = Waiting("stderr")' + Len(inHand[s])
           /\ Waiting("stdout") = Waiting("stdout")'
    BY <2>1 DEF Streams
  <2>4. written' = written /\ total' = total + Len(inHand[s])
    OBVIOUS
  <2>5. written = total + Waiting("stdout") + Waiting("stderr")
    BY DEF Flow
  <2>6. written' = total' + Waiting("stdout")' + Waiting("stderr")'
    BY <1>1, <2>2, <2>3, <2>4, <2>5, SMTT(30)
  <2>q. QED
    BY <1>0, <2>6 DEF Flow, TypeOK, processes, timers, runner, Streams
<1>9. OutputFaithful'
  BY <1>1, <1>2, <1>3, <1>4, <1>5 DEF OutputFaithful, TypeOK
<1>10. Answered'
  BY <1>0, Unanswered DEF runner
<1>q. QED
  BY <1>6, <1>7, <1>8, <1>9, <1>10

LEMMA EmitInv ==
    ASSUME IInv, NEW s \in Streams, Emit(s)
    PROVE  IInv'
<1> USE DEF IInv, Emit, Goto
<1>0. ~Returned /\ ~waitDone /\ pc \notin {"start", "finish", "returned"}
  BY AtWork
<1>1. inHand[s] \in Seq(Nat) /\ emitted \in Seq(Nat) /\ emitted' \in Seq(Nat)
  BY ConcatProperties DEF TypeOK
<1>2. TypeOK'
  BY <1>1, EmptySeq DEF TypeOK, processes, output, timers, runner
<1>3. Tree'
  BY TreeUnmoved DEF runner
<1>4. Flow'
  <2>1. \A t \in Streams : Waiting(t)' = Waiting(t)
    BY DEF Waiting, Carried, TypeOK
  <2>2. Waiting("stdout")' = Waiting("stdout") /\ Waiting("stderr")' = Waiting("stderr")
    BY <2>1 DEF Streams
  <2>q. QED
    BY <1>0, <2>2 DEF Flow, TypeOK, processes, output, timers, runner, Streams
<1>5. OutputFaithful'
  <2>1. Accepted = emitted \o inHand[s]
    BY DEF Accepted, Streams, Flow
  <2>2. Accepted' = emitted'
    BY DEF Accepted, Streams, Flow, TypeOK
  <2>q. QED
    BY <2>1, <2>2 DEF OutputFaithful, output
<1>6. Answered'
  BY <1>0, Unanswered DEF runner
<1>q. QED
  BY <1>2, <1>3, <1>4, <1>5, <1>6

LEMMA WaitInv ==
    ASSUME IInv, Wait
    PROVE  IInv'
<1> USE DEF IInv, Wait
<1>1. TypeOK'
  BY DEF TypeOK, processes, copying, output, timers, runner
<1>2. Tree'
  BY TreeUnmoved DEF runner
<1>3. Flow'
  BY DEF Flow, Waiting, Carried, processes, copying, output, timers, runner
<1>4. OutputFaithful'
  BY OutputUnmoved DEF copying
<1>5. Answered'
  BY DEF Answered, Returned, Alive, processes, copying, output, runner
<1>q. QED
  BY <1>1, <1>2, <1>3, <1>4, <1>5

-----------------------------------------------------------------------------
(* runSpec, time and the caller.                                           *)

LEMMA FlowUnmoved ==
    ASSUME Flow, UNCHANGED <<written, copying, waitDone>>,
           \A p \in Procs : holds'[p] \subseteq holds[p],
           exit # "none" => exit' # "none",
           pc' # "start", pc' = "finish" => waitDone
    PROVE  Flow'
  BY DEF Flow, Waiting, Carried, copying, output

LEMMA AnswerType ==
    ASSUME TypeOK, NEW status \in {"PASS", "FAIL", "ERROR"},
           NEW r \in Reasons \union {"refused", "not started"}
    PROVE  [Finished(status) EXCEPT !.reason = r] \in Answer
<1>1. Len(emitted) \in Nat
  BY LenProperties DEF TypeOK
<1>q. QED
  BY <1>1 DEF Finished, Answer, TypeOK

LEMMA StartFailsInv ==
    ASSUME IInv, StartFails
    PROVE  IInv'
<1> USE DEF IInv, StartFails
<1>1. PICK r \in {"refused", "not started"} : answer' = [Finished("ERROR") EXCEPT !.reason = r]
  OBVIOUS
<1>2. answer' \in Answer /\ answer'.reason = r /\ answer' # None
  BY <1>1, AnswerType, NoneAssumption, ZenonT(30) DEF Finished
<1>3. TypeOK'
  BY <1>2 DEF TypeOK, processes, copying, output, timers
<1>4. Tree'
  BY DEF Tree, Alive, processes, Returned
<1>5. Flow'
  BY FlowUnmoved DEF processes
<1>6. OutputFaithful'
  BY OutputUnmoved DEF copying
<1>7. Answered'
  BY <1>2 DEF Answered, Returned, Reasons, Alive, Tree, Flow, processes, copying
<1>q. QED
  BY <1>3, <1>4, <1>5, <1>6, <1>7

LEMMA StartInv ==
    ASSUME IInv, Start
    PROVE  IInv'
<1> USE DEF IInv, Start
<1>0. Root \in Procs
  BY DEF Procs
<1>1. TypeOK'
  BY <1>0 DEF TypeOK, output, timers
<1>2. Tree'
  <2>1. \A p \in Procs : process'[p] = IF p = Root THEN "alive" ELSE "unborn"
    BY DEF Tree, TypeOK
  <2>2. \A p \in Procs : ~Alive(p)' => holds'[p] = {}
    BY <2>1 DEF Tree, Alive, TypeOK
  <2>3. exit' = "none"
    BY <1>0 DEF Tree
  <2>4. termination' = "none" /\ group' = {Root}
    BY DEF Tree
  <2>q. QED
    BY <1>0, <2>1, <2>2, <2>3, <2>4 DEF Tree
<1>3. Flow'
  <2>1. \A t \in Streams : Waiting(t)' = Waiting(t)
    BY DEF Waiting, Carried, Flow
  <2>2. Waiting("stdout")' = Waiting("stdout") /\ Waiting("stderr")' = Waiting("stderr")
    BY <2>1 DEF Streams
  <2>q. QED
    BY <2>2 DEF Flow, output, Streams
<1>4. OutputFaithful'
  <2>1. Accepted' = Accepted
    BY DEF Accepted, Flow, Streams
  <2>q. QED
    BY <2>1 DEF OutputFaithful, output
<1>5. Answered'
  BY DEF Answered, Returned
<1>q. QED
  BY <1>1, <1>2, <1>3, <1>4, <1>5

LEMMA AnnounceInv ==
    ASSUME IInv, Announce
    PROVE  IInv'
<1> USE DEF IInv, Announce
<1>1. TypeOK'
  BY DEF TypeOK, processes, copying, output, timers
<1>2. Tree'
  BY DEF Tree, Alive, processes, Returned
<1>3. Flow'
  BY FlowUnmoved DEF processes
<1>4. OutputFaithful'
  BY OutputUnmoved DEF copying
<1>5. Answered'
  BY DEF Answered, Returned
<1>q. QED
  BY <1>1, <1>2, <1>3, <1>4, <1>5

LEMMA CompleteInv ==
    ASSUME IInv, Complete
    PROVE  IInv'
<1> USE DEF IInv, Complete
<1>1. TypeOK'
  BY DEF TypeOK, processes, copying, output, timers, Reasons
<1>2. Tree'
  BY DEF Tree, Alive, processes, Returned
<1>3. Flow'
  BY FlowUnmoved DEF processes
<1>4. OutputFaithful'
  BY OutputUnmoved DEF copying
<1>5. Answered'
  BY DEF Answered, Returned
<1>q. QED
  BY <1>1, <1>2, <1>3, <1>4, <1>5

\* The group is dead, and the first process, of which the exit code is kept.
LEMMA TerminateInv ==
    ASSUME IInv, Terminate
    PROVE  IInv'
<1> USE DEF IInv, Terminate
<1>0. Root \in Procs /\ Root \in Killed
  BY DEF Procs, Killed
<1>1. termination' \in Reasons /\ termination' \notin {"none", "completed"}
  BY DEF Due, Reasons
<1>2. TypeOK'
  <2>1. process' \in [Procs -> {"unborn", "alive", "dead"}] /\ holds' \in [Procs -> SUBSET Streams]
    BY DEF TypeOK
  <2>q. QED
    BY <1>1, <2>1 DEF TypeOK, copying, output, timers
<1>3. \A p \in Procs : Alive(p)' => Alive(p) /\ p \notin Killed
  BY DEF Alive, TypeOK
<1>4. Tree'
  <2>1. \A p \in Procs : ~Alive(p)' => holds'[p] = {}
    BY DEF Tree, Alive, TypeOK
  <2>2. exit' = "none" <=> process'[Root] # "dead"
    BY <1>0 DEF Tree, Alive, TypeOK
  <2>3. \A p \in group' : process'[p] # "unborn" /\ ~Alive(p)'
    BY <1>3 DEF Tree, Alive, TypeOK, Killed
  <2>q. QED
    BY <1>1, <2>1, <2>2, <2>3 DEF Tree, Returned
<1>5. Flow'
  BY FlowUnmoved, <1>0 DEF TypeOK
<1>6. OutputFaithful'
  BY OutputUnmoved DEF copying
<1>7. Answered'
  BY DEF Answered, Returned
<1>q. QED
  BY <1>2, <1>4, <1>5, <1>6, <1>7

LEMMA JoinInv ==
    ASSUME IInv, Join
    PROVE  IInv'
<1> USE DEF IInv, Join
<1>1. TypeOK'
  BY DEF TypeOK, processes, copying, output, timers
<1>2. Tree'
  BY DEF Tree, Alive, processes, Returned
<1>3. Flow'
  BY FlowUnmoved DEF processes
<1>4. OutputFaithful'
  BY OutputUnmoved DEF copying
<1>5. Answered'
  BY DEF Answered, Returned
<1>q. QED
  BY <1>1, <1>2, <1>3, <1>4, <1>5

LEMMA FinishInv ==
    ASSUME IInv, Finish
    PROVE  IInv'
<1> USE DEF IInv, Finish
<1>1. termination \in Reasons /\ waitDone
  BY DEF Tree, TypeOK, Flow, Returned
<1>2. Verdict \in {"PASS", "FAIL", "ERROR"} /\ (termination # "completed" => Verdict = "ERROR")
  BY DEF Verdict
<1>3. answer' = [Finished(Verdict) EXCEPT !.reason = termination]
  BY DEF Finished
<1>4. answer' \in Answer /\ answer' # None
  <2>1. Verdict \in {"PASS", "FAIL", "ERROR"} /\ termination \in Reasons \union {"refused", "not started"}
    BY <1>1, <1>2
  <2>2. [Finished(Verdict) EXCEPT !.reason = termination] \in Answer
    <3> DEFINE v == Verdict
    <3> HIDE DEF v
    <3>1. v \in {"PASS", "FAIL", "ERROR"}
      BY <2>1 DEF v
    <3>2. [Finished(v) EXCEPT !.reason = termination] \in Answer
      BY <2>1, <3>1, AnswerType
    <3>q. QED
      BY <3>2 DEF v
  <2>q. QED
    BY <1>3, <2>2, NoneAssumption
<1>5. /\ answer'.reason = termination /\ answer'.total = total
      /\ answer'.after = Len(emitted) /\ answer'.status = Verdict
  BY DEF Finished
<1>6. TypeOK'
  BY <1>4 DEF TypeOK, processes, copying, output, timers
<1>7. Tree'
  BY DEF Tree, Alive, processes, Returned
<1>8. Flow'
  BY FlowUnmoved DEF processes
<1>9. OutputFaithful'
  BY OutputUnmoved DEF copying
<1>10. Answered'
  BY <1>1, <1>2, <1>4, <1>5 DEF Answered, Returned, copying, output
<1>q. QED
  BY <1>6, <1>7, <1>8, <1>9, <1>10

LEMMA TimersInv ==
    ASSUME IInv, FireHard \/ FallSilent \/ Cancel \/ UNCHANGED vars
    PROVE  IInv'
<1> USE DEF IInv, FireHard, FallSilent, Cancel, vars
<1>1. TypeOK'
  BY ZenonT(30) DEF TypeOK, processes, copying, output, timers, runner
<1>2. Tree'
  BY TreeUnmoved DEF runner
<1>3. UNCHANGED <<written, pipe, copier, inHand, output, emitted, waitDone, processes, pc>>
  BY DEF copying, runner
<1>4. Flow'
  BY <1>3 DEF Flow, Waiting, Carried, processes, output
<1>5. OutputFaithful'
  BY <1>3, OutputUnmoved
<1>6. Answered'
  BY <1>3, AnswerUnmoved DEF Alive, processes, runner, output
<1>q. QED
  BY <1>1, <1>2, <1>4, <1>5, <1>6

-----------------------------------------------------------------------------
(* The theorems.                                                           *)

LEMMA StepInv == IInv /\ [Next]_vars => IInv'
<1> SUFFICES ASSUME IInv, [Next]_vars PROVE IInv'
  OBVIOUS
<1>1. CASE Processes
  BY <1>1, ForkInv, LeaveGroupInv, ClosePipeInv, ExitInv, PutInv DEF Processes
<1>2. CASE \E s \in Streams : Copy(s)
  BY <1>2, ReadInv, EndOfFileInv, WriteInv, EmitInv DEF Copy
<1>3. CASE Wait
  BY <1>3, WaitInv
<1>4. CASE Run
  BY <1>4, StartFailsInv, StartInv, AnnounceInv, CompleteInv, TerminateInv, JoinInv, FinishInv DEF Run
<1>5. CASE FireHard \/ FallSilent \/ Cancel \/ UNCHANGED vars
  BY <1>5, TimersInv
<1>q. QED
  BY <1>1, <1>2, <1>3, <1>4, <1>5 DEF Next, Idle

\* The invariant of runSpec: where each byte is, and what the kill left.
THEOREM Invariant == Spec => []IInv
  BY InitInv, StepInv, PTL DEF Spec

\* The state of runSpec, of the goroutines and of the processes is well typed,
\* and what is answered is a result.
THEOREM RunnerTypes == Spec => []TypeOK
<1>1. IInv => TypeOK
  BY DEF IInv
<1>q. QED
  BY <1>1, Invariant, PTL

\* For every limit and every interleaving of the two pipes the buffer is the
\* beginning of what was published, counted whole, and marked when cut.
THEOREM OutputKept == Spec => []OutputFaithful
<1>1. IInv => OutputFaithful
  BY DEF IInv
<1>q. QED
  BY <1>1, Invariant, PTL

\* The result of a command that was started counts every byte that was ever
\* written, follows every event about them, and leaves no writer.
THEOREM NothingLost == Spec => []OutputComplete
<1>1. IInv => OutputComplete
  <2> SUFFICES ASSUME IInv, Returned, answer.reason \in Reasons
               PROVE  /\ answer.total = written
                      /\ answer.after = Len(emitted)
                      /\ \A p \in Procs : holds[p] = {}
    BY DEF OutputComplete
  <2>1. /\ waitDone /\ answer.total = total /\ answer.after = Len(emitted)
        /\ \A s \in Streams : copier[s] = "eof"
    BY DEF IInv, Answered, Flow
  <2>2. \A s \in Streams : pipe[s] = <<>> /\ \A p \in Procs : s \notin holds[p]
    BY <2>1 DEF IInv, Flow
  <2>3. Waiting("stdout") = 0 /\ Waiting("stderr") = 0
    <3>1. \A s \in Streams : Carried(s) = 0
      BY <2>1 DEF Carried
    <3>2. \A s \in Streams : Len(pipe[s]) = 0
      BY <2>2
    <3>q. QED
      BY <3>1, <3>2 DEF Waiting, Streams
  <2>4. answer.total = written
    BY <2>1, <2>3 DEF IInv, Flow, TypeOK
  <2>5. \A p \in Procs : holds[p] = {}
    BY <2>2 DEF IInv, TypeOK
  <2>q. QED
    BY <2>1, <2>4, <2>5
<1>q. QED
  BY <1>1, Invariant, PTL

\* Whatever forks and whoever ends first, a command that ends by a timeout or
\* a cancellation leaves nobody in its group, and is in error.
THEOREM TreeIsGone == Spec => []TreeGone
<1>1. IInv => TreeGone
  BY DEF IInv, TreeGone, Tree, Flow, Answered, Alive, TypeOK, Procs, Returned
<1>q. QED
  BY <1>1, Invariant, PTL
-----------------------------------------------------------------------------
(* The answer as the caller knows it: Runner implements AnsweredCommand.   *)

\* Nothing is said before the start, and a cancellation was asked for.
Causes ==
    /\ pc = "start" => written = 0
    /\ termination = "cancelled" => cancelled

LEMMA CausesStep == IInv /\ Causes /\ [Next]_vars => Causes'
<1> SUFFICES ASSUME IInv, Causes, [Next]_vars PROVE Causes'
  OBVIOUS
<1> USE DEF Causes
<1>1. CASE Processes
  <2>1. UNCHANGED <<pc, termination, cancelled>>
    BY <1>1 DEF Processes, Fork, LeaveGroup, Exit, ClosePipe, Put, timers, runner
  <2>2. pc = "start" => UNCHANGED written
    <3>1. pc = "start" => \A p \in Procs : ~Alive(p)
      BY DEF IInv, Tree, Alive
    <3>q. QED
      BY <1>1, <3>1 DEF Processes, Fork, LeaveGroup, Exit, ClosePipe, Put
  <2>q. QED
    BY <2>1, <2>2
<1>2. CASE \E s \in Streams : Copy(s)
  BY <1>2 DEF Copy, Read, EndOfFile, Write, Emit, timers, runner
<1>3. CASE Wait
  BY <1>3 DEF Wait, timers, runner
<1>4. CASE Run
  BY <1>4 DEF Run, StartFails, Start, Announce, Complete, Terminate, Due, Join, Finish, timers
<1>5. CASE FireHard \/ FallSilent \/ Cancel \/ UNCHANGED vars
  BY <1>5 DEF FireHard, FallSilent, Cancel, vars, timers, runner
<1>q. QED
  BY <1>1, <1>2, <1>3, <1>4, <1>5 DEF Next, Idle

\* What the caller can tell apart.
Known == <<written, emitted, exit, cancelled, answer>>

\* As long as a process lives or a goroutine copies, there is no answer; and
\* none before the end of runSpec.
LEMMA NoAnswerYet ==
    ASSUME IInv
    PROVE  /\ ~Returned <=> Promised!Open
           /\ (\E s \in Streams : copier[s] = "emit") => Promised!Open
           /\ Alive(Root) => Promised!Open
           /\ (\E p \in Procs, s \in Streams : Alive(p) /\ s \in holds[p]) => Promised!Open
<1> USE DEF IInv, Promised!Open
<1>1. ~Returned <=> answer = None
  BY DEF Answered
<1>2. ASSUME NEW s \in Streams, copier[s] = "emit" PROVE ~Returned
  BY <1>2, AtWork
<1>3. ASSUME Alive(Root) PROVE ~Returned
  BY <1>3 DEF Answered, Flow, Tree, Alive, Procs
<1>4. ASSUME NEW p \in Procs, NEW s \in Streams, Alive(p), s \in holds[p] PROVE ~Returned
  BY <1>4 DEF Answered, Flow
<1>q. QED
  BY <1>1, <1>2, <1>3, <1>4

\* Once nobody is about to publish, what would be answered is what was heard.
LEMMA Replied ==
    ASSUME IInv, \A s \in Streams : copier[s] \in {"new", "eof"},
           NEW status, NEW reason
    PROVE  [Finished(status) EXCEPT !.reason = reason] = Promised!Reply(status, reason)
<1>1. Accepted = emitted
  BY DEF Accepted, Streams
<1>2. data = Promised!Retained
  BY <1>1 DEF IInv, OutputFaithful, Shorter, Promised!Retained
<1>3. total = Len(emitted)
  BY <1>1 DEF IInv, OutputFaithful
<1>4. truncated = (Len(emitted) > Limit)
  <2>1. truncated <=> Len(emitted) > Limit
    BY <1>1 DEF IInv, OutputFaithful
  <2>2. truncated \in BOOLEAN
    BY DEF IInv, TypeOK
  <2>q. QED
    BY <2>1, <2>2
<1>q. QED
  BY <1>2, <1>3, <1>4 DEF Finished, Promised!Reply

\* At the end of both pipes everything said has been heard.
LEMMA AllHeard ==
    ASSUME IInv, \A s \in Streams : copier[s] = "eof"
    PROVE  Len(emitted) = written
<1>1. Accepted = emitted
  BY DEF Accepted, Streams
<1>2. total = Len(emitted)
  BY <1>1 DEF IInv, OutputFaithful
<1>3. \A s \in Streams : Waiting(s) = 0
  <2>1. \A s \in Streams : Carried(s) = 0
    BY DEF Carried
  <2>2. \A s \in Streams : Len(pipe[s]) = 0
    BY DEF IInv, Flow
  <2>q. QED
    BY <2>1, <2>2 DEF Waiting
<1>q. QED
  BY <1>2, <1>3 DEF IInv, Flow, TypeOK, Streams

LEMMA PutSays ==
    ASSUME IInv, NEW p \in Procs, NEW s \in Streams, Put(p, s)
    PROVE  Promised!Say
<1>1. Promised!Open
  BY NoAnswerYet DEF Put
<1>q. QED
  BY <1>1 DEF Put, Promised!Say, processes, timers, runner

LEMMA ExitEnds ==
    ASSUME IInv, NEW p \in Procs, Exit(p)
    PROVE  Promised!End \/ UNCHANGED Known
<1>1. CASE p = Root
  <2>1. Promised!Open /\ exit = "none"
    BY <1>1, NoAnswerYet DEF Exit, Alive, IInv, Tree
  <2>q. QED
    BY <1>1, <2>1 DEF Exit, Promised!End, copying, timers, runner
<1>2. CASE p # Root
  BY <1>2 DEF Exit, Known, copying, timers, runner
<1>q. QED
  BY <1>1, <1>2

LEMMA EmitIsHeard ==
    ASSUME IInv, NEW s \in Streams, Emit(s)
    PROVE  Promised!Hear
<1>1. Promised!Open
  BY NoAnswerYet DEF Emit
<1>2. emitted \in Seq(Nat) /\ inHand[s] \in Seq(Nat) /\ emitted' = emitted \o inHand[s]
  BY DEF Emit, IInv, TypeOK
<1>3. /\ emitted' \in Seq(Nat)
      /\ Len(emitted') = Len(emitted) + Len(inHand[s])
      /\ \A i \in 1..Len(emitted) : emitted'[i] = emitted[i]
  BY <1>2, ConcatProperties, LenProperties
<1>4. Len(emitted') = total
  <2>1. Accepted = emitted'
    BY <1>2 DEF Accepted, Streams, IInv, Flow, Emit
  <2>q. QED
    BY <2>1 DEF IInv, OutputFaithful
<1>5. total <= written
  BY WaitingType DEF IInv, Flow, TypeOK, Streams
<1>6. Len(emitted') \in Len(emitted)..written
  <2>1. Len(emitted) \in Nat /\ Len(inHand[s]) \in Nat /\ written \in Nat
    BY <1>2, LenProperties DEF IInv, TypeOK
  <2>q. QED
    BY <2>1, <1>3, <1>4, <1>5
<1>q. QED
  BY <1>1, <1>3, <1>6 DEF Emit, Promised!Hear, processes, timers, runner

LEMMA StartFailsRefuses ==
    ASSUME IInv, Causes, StartFails
    PROVE  Promised!Refuse
<1>1. Promised!Open
  BY NoAnswerYet DEF StartFails, Returned
<1>2. written = 0 /\ exit = "none" /\ \A s \in Streams : copier[s] = "new"
  BY DEF StartFails, Causes, IInv, Tree, Flow, Procs
<1>3. PICK r \in {"refused", "not started"} : answer' = [Finished("ERROR") EXCEPT !.reason = r]
  BY DEF StartFails
<1>4. answer' = Promised!Reply("ERROR", r)
  BY <1>2, <1>3, Replied
<1>q. QED
  BY <1>1, <1>2, <1>3, <1>4 DEF StartFails, Promised!Refuse, processes, copying, timers

LEMMA TerminateEnds ==
    ASSUME IInv, Terminate
    PROVE  Promised!End \/ UNCHANGED Known
<1>1. CASE Alive(Root)
  <2>1. Promised!Open /\ exit = "none"
    BY <1>1, NoAnswerYet DEF Alive, IInv, Tree
  <2>q. QED
    BY <1>1, <2>1 DEF Terminate, Promised!End, copying, timers
<1>2. CASE ~Alive(Root)
  BY <1>2 DEF Terminate, Known, copying, timers
<1>q. QED
  BY <1>1, <1>2

LEMMA FinishAnswers ==
    ASSUME IInv, Causes, Finish
    PROVE  Promised!Complete \/ Promised!Stop
<1>1. Promised!Open
  BY NoAnswerYet DEF Finish, Returned
<1>2. /\ exit # "none" /\ termination \in Reasons
      /\ \A s \in Streams : copier[s] = "eof"
  BY DEF Finish, IInv, Tree, Flow, TypeOK, Returned
<1>3. Promised!Over
  BY <1>2, AllHeard DEF Promised!Over
<1>4. answer' = [Finished(Verdict) EXCEPT !.reason = termination]
  BY DEF Finish, Finished
<1>5. answer' = Promised!Reply(Verdict, termination)
  BY <1>2, <1>4, Replied
<1>6. UNCHANGED <<written, emitted, exit, cancelled>>
  BY DEF Finish, processes, copying, timers
<1>7. CASE termination = "completed"
  BY <1>1, <1>3, <1>5, <1>6, <1>7 DEF Verdict, Promised!Complete
<1>8. CASE termination # "completed"
  <2>1. termination \in {"cancelled", "hard_timeout", "inactivity_timeout"}
    BY <1>2, <1>8 DEF Reasons
  <2>2. answer' = Promised!Reply("ERROR", termination)
    BY <1>5, <1>8 DEF Verdict
  <2>q. QED
    BY <1>1, <1>3, <1>6, <2>1, <2>2 DEF Causes, Promised!Stop
<1>q. QED
  BY <1>7, <1>8

LEMMA CancelAsks ==
    ASSUME IInv, Cancel
    PROVE  Promised!Ask
BY NoAnswerYet DEF Cancel, Promised!Ask, processes, copying, runner

\* Every step is one of the promise's, or none that the caller could notice.
LEMMA StepIsPromised == IInv /\ Causes /\ [Next]_vars => [Promised!Next]_Known
<1> SUFFICES ASSUME IInv, Causes, [Next]_vars PROVE Promised!Next \/ UNCHANGED Known
  OBVIOUS
<1> USE DEF Promised!Next
<1>1. CASE Processes
  <2>1. CASE \E p \in Procs : \E c \in Children : Fork(p, c)
    BY <2>1 DEF Fork, Known, copying, timers, runner
  <2>2. CASE \E p \in Procs : LeaveGroup(p)
    BY <2>2 DEF LeaveGroup, Known, copying, timers, runner
  <2>3. CASE \E p \in Procs : Exit(p)
    BY <2>3, ExitEnds
  <2>4. CASE \E p \in Procs, s \in Streams : ClosePipe(p, s)
    BY <2>4 DEF ClosePipe, Known, copying, timers, runner
  <2>5. CASE \E p \in Procs, s \in Streams : Put(p, s)
    BY <2>5, PutSays
  <2>q. QED
    BY <1>1, <2>1, <2>2, <2>3, <2>4, <2>5 DEF Processes
<1>2. CASE \E s \in Streams : Copy(s)
  <2>1. CASE \E s \in Streams : Emit(s)
    BY <2>1, EmitIsHeard
  <2>2. CASE \E s \in Streams : Read(s) \/ EndOfFile(s) \/ Write(s)
    BY <2>2 DEF Read, EndOfFile, Write, Known, processes, timers, runner
  <2>q. QED
    BY <1>2, <2>1, <2>2 DEF Copy
<1>3. CASE Wait
  BY <1>3 DEF Wait, Known, processes, copying, timers, runner
<1>4. CASE Run
  <2>1. CASE Start \/ Announce \/ Complete \/ Join
    BY <2>1 DEF Start, Announce, Complete, Join, Known, processes, copying, timers
  <2>q. QED
    BY <1>4, <2>1, StartFailsRefuses, TerminateEnds, FinishAnswers DEF Run
<1>5. CASE FireHard \/ FallSilent
  BY <1>5 DEF FireHard, FallSilent, Known, processes, copying, timers, runner
<1>6. CASE Cancel
  BY <1>6, CancelAsks
<1>7. CASE UNCHANGED vars
  BY <1>7 DEF vars, Known, processes, copying, timers, runner
<1>q. QED
  BY <1>1, <1>2, <1>3, <1>4, <1>5, <1>6, <1>7 DEF Next, Idle

\* For any processes, output and limit, whoever ends, stops or kills whom: a
\* caller of runSpec sees a command that is answered once, after everything it
\* said and with all of it counted, and that passes only if it ended well and
\* nothing stopped it.
THEOREM AnswerIsKept == Spec => KeepsAnswer
<1>1. Init => Promised!Init
  BY DEF Init, Promised!Init
<1>2. Init => Causes
  BY DEF Init, Causes
<1>3. IInv /\ Causes /\ [Next]_vars => [Promised!Next]_(Promised!vars)
  BY StepIsPromised DEF Known, Promised!vars
<1>q. QED
  BY <1>1, <1>2, <1>3, CausesStep, Invariant, PTL DEF Spec, KeepsAnswer, Promised!Spec
=============================================================================
