-------------------------- MODULE EventStreamProofs --------------------------
(***************************************************************************)
(* Proofs about the event stream, for any number of events, any buffer and *)
(* a terminal of any speed; also with the journal's recorder behind it,    *)
(* whatever fails in it.                                                   *)
(***************************************************************************)
EXTENDS Workflow, FiniteSetTheorems, WellFoundedInduction, TLAPS

\* What is closed stays idle, and a consumer ends on empty queues only.
Shutdown ==
    /\ closed <=> closing # "open"
    /\ closed => step = "idle"
    /\ consumer = "ended" => closed /\ lifecycle = <<>> /\ output = <<>>
    /\ closing = "done" => consumer = "ended"

\* The event under way is the last that was numbered.
Numbered ==
    /\ Len(recorded) = IF step = "idle" THEN sequence ELSE sequence - 1
    /\ step # "idle" => sending.sequence = sequence
    /\ \A i \in DOMAIN recorded : recorded[i].sequence = i

\* Each queue holds what it is for.
Sorted ==
    /\ \A i \in DOMAIN lifecycle : ~lifecycle[i].output
    /\ \A i \in DOMAIN output : output[i].output

IInv ==
    /\ TypeOK
    /\ Sorted
    /\ Shutdown
    /\ Numbered
    /\ LifecycleLossless
    /\ OutputBounded
    /\ NoLostWakeup

LEMMA EventNotNone == \A e \in Event : e # None
BY NoneAssumption

LEMMA InitInv == Init => IInv
<1> SUFFICES ASSUME Init PROVE IInv
  OBVIOUS
<1>1. TypeOK
  <2>1. <<>> \in Seq(Event)
    OBVIOUS
  <2>q. QED
    BY <2>1 DEF Init, TypeOK
<1>3. Sorted /\ Shutdown /\ Numbered
  BY DEF Init, Sorted, Shutdown, Numbered
<1>4. NoLostWakeup /\ OutputBounded
  BY MaxOutputAssumption DEF Init, NoLostWakeup, OutputBounded
<1>2. LifecycleLossless
  BY DEF Init, LifecycleLossless, Held
<1>q. QED
  BY <1>1, <1>2, <1>3, <1>4 DEF IInv

LEMMA AssignStep ==
    ASSUME IInv, NEW o \in BOOLEAN, Assign(o)
    PROVE  IInv'
<1> USE DEF IInv, Assign
<1>1. sending' \in Event /\ sending' # None
  <2>1. sending' \in Event
    BY DEF Event, TypeOK
  <2>q. QED
    BY <2>1, EventNotNone
<1>2. TypeOK'
  <2>1. UNCHANGED <<lifecycle, output, wake, closed, consumer, inHand, closing, told, shown, recorded>>
    OBVIOUS
  <2>2. sequence' \in Nat /\ step' = "render"
    BY DEF TypeOK
  <2>q. QED
    BY <1>1, <2>1, <2>2 DEF TypeOK
<1>3. Numbered'
  BY DEF Numbered, TypeOK
<1>4. Sorted' /\ Shutdown' /\ OutputBounded' /\ NoLostWakeup' /\ LifecycleLossless'
  BY DEF Sorted, Shutdown, OutputBounded, NoLostWakeup, LifecycleLossless, Held, TypeOK
<1>q. QED
  BY <1>2, <1>3, <1>4

LEMMA EnqueueStep ==
    ASSUME IInv, Enqueue
    PROVE  IInv'
<1> USE DEF IInv, Enqueue
<1>1. sending \in Event /\ step' \in {"signal", "record"}
  BY DEF TypeOK
<1>2. TypeOK'
  <2>1. /\ Append(lifecycle, sending) \in Seq(Event) /\ Append(output, sending) \in Seq(Event)
        /\ Append(told, sending) \in Seq(Event) /\ sending # None
    BY <1>1, EventNotNone DEF TypeOK
  <2>2. lifecycle' \in Seq(Event) /\ output' \in Seq(Event) /\ told' \in Seq(Event)
    BY <2>1 DEF TypeOK
  <2>3. UNCHANGED <<sequence, sending, wake, closed, consumer, inHand, closing, shown, recorded>>
    OBVIOUS
  <2>q. QED
    BY <1>1, <2>1, <2>2, <2>3 DEF TypeOK
<1>3. Numbered' /\ Shutdown'
  BY <1>1 DEF Numbered, Shutdown
<1>4. OutputBounded'
  BY <1>1, MaxOutputAssumption DEF OutputBounded, TypeOK
<1>5. NoLostWakeup'
  BY <1>1 DEF NoLostWakeup
<1>6. LifecycleLossless'
  <2>1. shown \in Seq(Event) /\ lifecycle \in Seq(Event) /\ Held \in Seq(Event) /\ Held' = Held
    BY DEF TypeOK, Held
  <2>2. shown \o Held \o Append(lifecycle, sending) = Append(shown \o Held \o lifecycle, sending)
    BY <1>1, <2>1
  <2>q. QED
    BY <2>1, <2>2 DEF LifecycleLossless
<1>7. Sorted'
  <2>1. \A i \in DOMAIN Append(lifecycle, sending) :
           Append(lifecycle, sending)[i] = sending \/
           (i \in DOMAIN lifecycle /\ Append(lifecycle, sending)[i] = lifecycle[i])
    BY <1>1 DEF TypeOK
  <2>2. \A i \in DOMAIN Append(output, sending) :
           Append(output, sending)[i] = sending \/
           (i \in DOMAIN output /\ Append(output, sending)[i] = output[i])
    BY <1>1 DEF TypeOK
  <2>q. QED
    BY <2>1, <2>2 DEF Sorted
<1>q. QED
  BY <1>2, <1>3, <1>4, <1>5, <1>6, <1>7

LEMMA DeliverStep ==
    ASSUME IInv, Signal \/ Record
    PROVE  IInv'
<1> USE DEF IInv
<1>1. CASE Signal
  BY <1>1 DEF Signal, TypeOK, Sorted, Numbered, Shutdown, OutputBounded, NoLostWakeup,
     LifecycleLossless, Held
<1>2. CASE Record
  <2>1. sending \in Event /\ recorded \in Seq(Event)
    BY <1>2 DEF TypeOK, Record
  <2>2. TypeOK'
    BY <1>2, <2>1 DEF TypeOK, Record
  <2>3. Numbered'
    BY <1>2, <2>1 DEF Numbered, Record, TypeOK
  <2>4. Sorted' /\ Shutdown' /\ OutputBounded' /\ NoLostWakeup' /\ LifecycleLossless'
    BY <1>2 DEF Record, Sorted, Shutdown, OutputBounded, NoLostWakeup, LifecycleLossless, Held
  <2>q. QED
    BY <2>2, <2>3, <2>4
<1>q. QED
  BY <1>1, <1>2

LEMMA LookStep ==
    ASSUME IInv, Look
    PROVE  IInv'
<1> USE DEF IInv, Look
<1>0. /\ TypeOK /\ inHand = None /\ Held = <<>> /\ shown \in Seq(Event)
      /\ lifecycle \in Seq(Event) /\ output \in Seq(Event)
  BY DEF TypeOK, Held
<1>1. CASE lifecycle # <<>>
  <2>1. /\ Head(lifecycle) \in Event /\ Tail(lifecycle) \in Seq(Event)
        /\ lifecycle = <<Head(lifecycle)>> \o Tail(lifecycle)
        /\ ~Head(lifecycle).output
        /\ \A i \in DOMAIN Tail(lifecycle) : ~Tail(lifecycle)[i].output
    BY <1>0, <1>1 DEF Sorted
  <2>2. /\ inHand' = Head(lifecycle) /\ lifecycle' = Tail(lifecycle)
        /\ consumer = "look" /\ consumer' = "show" /\ output' = output
        /\ UNCHANGED <<sequence, step, sending, wake, closed, closing, told, shown, recorded>>
    BY <1>1 DEF Take
  <2>3. TypeOK' /\ Sorted'
    BY <2>1, <2>2, EventNotNone DEF TypeOK, Sorted
  <2>4. Shutdown' /\ Numbered' /\ OutputBounded' /\ NoLostWakeup'
    BY <2>2 DEF Shutdown, Numbered, OutputBounded, NoLostWakeup
  <2>5. LifecycleLossless'
    <3>1. Held' = <<Head(lifecycle)>>
      BY <2>1, <2>2, EventNotNone DEF Held
    <3>2. shown \o <<>> \o lifecycle = shown \o <<Head(lifecycle)>> \o Tail(lifecycle)
      <4>1. shown \o <<>> = shown
        BY <1>0
      <4>2. shown \o (<<Head(lifecycle)>> \o Tail(lifecycle))
              = shown \o <<Head(lifecycle)>> \o Tail(lifecycle)
        BY <1>0, <2>1
      <4>q. QED
        BY <2>1, <4>1, <4>2
    <3>q. QED
      BY <1>0, <2>2, <3>1, <3>2 DEF LifecycleLossless
  <2>q. QED
    BY <2>3, <2>4, <2>5
<1>2. CASE lifecycle = <<>> /\ output # <<>>
  <2>1. /\ Head(output) \in Event /\ Tail(output) \in Seq(Event)
        /\ Head(output).output
        /\ \A i \in DOMAIN Tail(output) : Tail(output)[i].output
        /\ Len(Tail(output)) <= Len(output)
    BY <1>0, <1>2 DEF Sorted
  <2>2. /\ inHand' = Head(output) /\ output' = Tail(output)
        /\ consumer = "look" /\ consumer' = "show" /\ lifecycle' = lifecycle
        /\ UNCHANGED <<sequence, step, sending, wake, closed, closing, told, shown, recorded>>
    BY <1>2 DEF Take
  <2>3. TypeOK' /\ Sorted'
    BY <2>1, <2>2, EventNotNone DEF TypeOK, Sorted
  <2>4. Shutdown' /\ Numbered' /\ NoLostWakeup'
    BY <2>2 DEF Shutdown, Numbered, NoLostWakeup
  <2>5. OutputBounded'
    BY <1>0, <2>1, <2>2, MaxOutputAssumption DEF OutputBounded
  <2>6. LifecycleLossless'
    BY <1>0, <2>1, <2>2 DEF LifecycleLossless, Held
  <2>q. QED
    BY <2>3, <2>4, <2>5, <2>6
<1>3. CASE lifecycle = <<>> /\ output = <<>>
  <2>1. /\ consumer' = (IF closed THEN "ended" ELSE "wait") /\ consumer = "look"
        /\ UNCHANGED <<sequence, step, sending, lifecycle, output, wake, closed, inHand,
                       closing, told, shown, recorded>>
    BY <1>3
  <2>2. TypeOK' /\ Sorted'
    BY <2>1 DEF TypeOK, Sorted
  <2>3. Shutdown' /\ Numbered' /\ OutputBounded' /\ NoLostWakeup' /\ LifecycleLossless'
    BY <1>3, <2>1 DEF Shutdown, Numbered, OutputBounded, NoLostWakeup, LifecycleLossless, Held
  <2>q. QED
    BY <2>2, <2>3
<1>q. QED
  BY <1>1, <1>2, <1>3

LEMMA ShowStep ==
    ASSUME IInv, Show
    PROVE  IInv'
<1> USE DEF IInv, Show
<1>1. inHand \in Event /\ inHand # None /\ inHand' = None
  BY EventNotNone DEF TypeOK
<1>2. TypeOK' /\ Sorted'
  BY <1>1 DEF TypeOK, Sorted
<1>3. Shutdown' /\ Numbered' /\ OutputBounded' /\ NoLostWakeup'
  BY DEF Shutdown, Numbered, OutputBounded, NoLostWakeup
<1>4. LifecycleLossless'
  <2>1. Held' = <<>> /\ shown \in Seq(Event) /\ shown' \in Seq(Event) /\ lifecycle \in Seq(Event)
    BY <1>1, <1>2 DEF Held, TypeOK
  <2>2. shown' \o <<>> = shown \o Held
    BY <1>1, <2>1 DEF Held
  <2>q. QED
    BY <2>1, <2>2 DEF LifecycleLossless
<1>q. QED
  BY <1>2, <1>3, <1>4

LEMMA QuietStep ==
    ASSUME IInv, Wake \/ Close \/ Closed \/ UNCHANGED vars
    PROVE  IInv'
<1> USE DEF IInv
<1>1. /\ UNCHANGED <<sequence, step, sending, lifecycle, output, inHand, told, shown, recorded>>
      /\ wake' \in BOOLEAN /\ closed' \in BOOLEAN
  BY DEF Wake, Close, CloseSink, SignalClose, Join, Closed, vars, TypeOK
<1>2. TypeOK' /\ Sorted'
  BY <1>1 DEF TypeOK, Sorted, Wake, Close, CloseSink, SignalClose, Join, Closed, vars
<1>3. Numbered' /\ OutputBounded' /\ LifecycleLossless'
  BY <1>1 DEF Numbered, OutputBounded, LifecycleLossless, Held
<1>4. Shutdown'
  BY <1>1 DEF Shutdown, Wake, Close, CloseSink, SignalClose, Join, Closed, vars
<1>5. NoLostWakeup'
  BY <1>1 DEF NoLostWakeup, Shutdown, Wake, Close, CloseSink, SignalClose, Join, Closed, vars
<1>q. QED
  BY <1>2, <1>3, <1>4, <1>5

LEMMA NextInv == IInv /\ [Next]_vars => IInv'
BY AssignStep, EnqueueStep, DeliverStep, LookStep, ShowStep, QuietStep
   DEF Next, Publish, Consume

THEOREM Invariance == Spec => []IInv
<1>q. QED
  BY InitInv, NextInv, PTL DEF Spec

\* StreamTypes: the state is well typed.
THEOREM StreamTypes == Spec => []TypeOK
<1>1. IInv => TypeOK
  BY DEF IInv
<1>q. QED
  BY <1>1, Invariance, PTL

\* Lossless: lifecycle events reach the terminal in order, none missing.
THEOREM Lossless == Spec => []LifecycleLossless
<1>1. IInv => LifecycleLossless
  BY DEF IInv
<1>q. QED
  BY <1>1, Invariance, PTL

\* BoundKept: process output never takes more than its buffer.
THEOREM BoundKept == Spec => []OutputBounded
<1>1. IInv => OutputBounded
  BY DEF IInv
<1>q. QED
  BY <1>1, Invariance, PTL

\* Awake: there is no order of steps in which the consumer sleeps on an event
\* or on the closing of the sink.
THEOREM Awake == Spec => []NoLostWakeup
<1>1. IInv => NoLostWakeup
  BY DEF IInv
<1>q. QED
  BY <1>1, Invariance, PTL

\* Drained: Close returns when everything has been shown, and no earlier.
THEOREM Drained == Spec => []CloseDrains
<1>1. IInv => CloseDrains
  <2> SUFFICES ASSUME IInv, consumer = "ended" PROVE CloseDrains
    BY DEF CloseDrains
  <2>1. closed /\ step = "idle" /\ lifecycle = <<>> /\ output = <<>> /\ inHand = None
        /\ shown \in Seq(Event)
    BY DEF IInv, Shutdown, TypeOK
  <2>2. told = shown
    BY <2>1 DEF IInv, LifecycleLossless, Held
  <2>q. QED
    BY <2>1, <2>2 DEF CloseDrains
<1>q. QED
  BY <1>1, Invariance, PTL

\* SequenceKept: the recorder sees the events in the order of their numbers.
THEOREM SequenceKept == Spec => []RecordedInSequence
<1>1. IInv => RecordedInSequence
  BY DEF IInv, Numbered, RecordedInSequence
<1>q. QED
  BY <1>1, Invariance, PTL

-----------------------------------------------------------------------------
(* The stream with its recorder.                                           *)

LEMMA RecorderStep == Recorder \/ CloseRecorder \/ Open => [Record]_vars
<1>1. Receive \/ ReadJournal \/ CloseJournal \/ Replace \/ Reopen \/ Write => UNCHANGED vars
  BY DEF Receive, ReadJournal, CloseJournal, Replace, Reopen, Write, Goes
<1>2. ShowCurrent \/ Pass => Record
  BY DEF ShowCurrent, Pass
<1>3. Open \/ CloseRecorder => UNCHANGED vars
  BY DEF Open, CloseRecorder
<1>q. QED
  BY <1>1, <1>2, <1>3 DEF Recorder

LEMMA WorkStep == [WorkNext]_workVars => [Next]_vars
<1> SUFFICES ASSUME [WorkNext]_workVars PROVE [Next]_vars
  OBVIOUS
<1>1. CASE Recorder \/ CloseRecorder \/ Open
  BY <1>1, RecorderStep DEF Next, Publish
<1>2. CASE Streaming
  BY <1>2 DEF Streaming, Next, Publish, Consume
<1>3. CASE WorkClosed
  BY <1>3 DEF WorkClosed, Next
<1>4. CASE UNCHANGED workVars
  BY <1>4 DEF workVars
<1>q. QED
  BY <1>1, <1>2, <1>3, <1>4 DEF WorkNext

\* WorkStreams: the recorder does not disturb the stream whose lock it works
\* under.  Whatever fails in it, a recorded verification is an event stream, and
\* what holds of every stream holds of it.
THEOREM WorkStreams == WorkSpec => Spec
<1>1. WorkInit => Init
  BY DEF WorkInit
<1>q. QED
  BY <1>1, WorkStep, PTL DEF WorkSpec, Spec

\* WorkLossless: the properties that the recorded verification is checked for.
THEOREM WorkLossless == WorkSpec => [](LifecycleLossless /\ NoLostWakeup /\ CloseDrains)
  BY WorkStreams, Lossless, Awake, Drained, PTL

-----------------------------------------------------------------------------
(* The end of a sequence of bytes.                                         *)

Byte == [event : Int, at : 1..LineBytes]
Bytes == Seq(Byte)

IsTail(s, t) ==
    /\ Len(s) <= Len(t)
    /\ \A i \in 1..Len(s) : s[i] = t[i + (Len(t) - Len(s))]

LEMMA TailIsSuffix ==
    ASSUME NEW s \in Bytes, NEW t \in Bytes, IsTail(s, t)
    PROVE  IsSuffix(s, t)
<1>1. /\ Reverse(s) \in Seq(Byte) /\ Len(Reverse(s)) = Len(s)
      /\ \A i \in 1..Len(s) : Reverse(s)[i] = s[(Len(s) - i) + 1]
  BY DEF Reverse, Bytes
<1>2. /\ Reverse(t) \in Seq(Byte) /\ Len(Reverse(t)) = Len(t)
      /\ \A i \in 1..Len(t) : Reverse(t)[i] = t[(Len(t) - i) + 1]
  BY DEF Reverse, Bytes
<1>3. Len(s) \in Nat /\ Len(t) \in Nat /\ Len(s) <= Len(t)
  BY DEF IsTail, Bytes
<1>4. ASSUME NEW i \in 1..Len(s)
      PROVE  Reverse(s)[i] = Reverse(t)[i]
  <2>1. (Len(s) - i) + 1 \in 1..Len(s) /\ i \in 1..Len(t)
    BY <1>3
  <2>2. ((Len(s) - i) + 1) + (Len(t) - Len(s)) = (Len(t) - i) + 1
    BY <1>3
  <2>q. QED
    BY <1>1, <1>2, <2>1, <2>2 DEF IsTail
<1>5. SubSeq(Reverse(s), 1, Len(s)) = SubSeq(Reverse(t), 1, Len(s))
  BY <1>1, <1>2, <1>3, <1>4
<1>q. QED
  BY <1>1, <1>2, <1>3, <1>5 DEF IsSuffix, IsPrefix

\* What a concatenation holds.
LEMMA Joined ==
    ASSUME NEW s \in Bytes, NEW x \in Bytes
    PROVE  /\ s \o x \in Bytes /\ Len(s \o x) = Len(s) + Len(x)
           /\ Len(s) \in Nat /\ Len(x) \in Nat
           /\ \A i \in 1..Len(s) : (s \o x)[i] = s[i]
           /\ \A i \in 1..Len(x) : (s \o x)[Len(s) + i] = x[i]
BY DEF Bytes

LEMMA TailJoined ==
    ASSUME NEW s \in Bytes, NEW t \in Bytes, NEW x \in Bytes, IsTail(s, t)
    PROVE  IsTail(s \o x, t \o x)
<1> DEFINE u == s \o x
           v == t \o x
<1>1. /\ Len(s) \in Nat /\ Len(t) \in Nat /\ Len(x) \in Nat /\ Len(s) <= Len(t)
      /\ Len(u) = Len(s) + Len(x) /\ Len(v) = Len(t) + Len(x)
      /\ \A i \in 1..Len(s) : u[i] = s[i]
      /\ \A i \in 1..Len(t) : v[i] = t[i]
      /\ \A i \in 1..Len(x) : u[Len(s) + i] = x[i] /\ v[Len(t) + i] = x[i]
  BY Joined DEF IsTail
<1> HIDE DEF u, v
<1>2. ASSUME NEW i \in 1..Len(u)
      PROVE  u[i] = v[i + (Len(v) - Len(u))]
  <2>1. CASE i <= Len(s)
    <3>1. /\ i \in 1..Len(s) /\ i + (Len(t) - Len(s)) \in 1..Len(t)
          /\ i + (Len(v) - Len(u)) = i + (Len(t) - Len(s))
      BY <1>1, <2>1
    <3>2. u[i] = s[i] /\ v[i + (Len(t) - Len(s))] = t[i + (Len(t) - Len(s))]
      BY <1>1, <3>1
    <3>3. s[i] = t[i + (Len(t) - Len(s))]
      BY <3>1 DEF IsTail
    <3>q. QED
      BY <3>1, <3>2, <3>3
  <2>2. CASE i > Len(s)
    <3>1. i - Len(s) \in 1..Len(x)
      BY <1>1, <2>2
    <3>2. Len(s) + (i - Len(s)) = i /\ Len(t) + (i - Len(s)) = i + (Len(v) - Len(u))
      BY <1>1, <2>2
    <3>q. QED
      BY <1>1, <3>1, <3>2
  <2>q. QED
    BY <1>1, <2>1, <2>2
<1>3. IsTail(u, v)
  BY <1>1, <1>2 DEF IsTail
<1>q. QED
  BY <1>3 DEF u, v

LEMMA TailAll == \A s \in Bytes : IsTail(s, s)
BY DEF IsTail, Bytes

LEMMA TailOfTail ==
    ASSUME NEW r \in Bytes, NEW s \in Bytes, NEW t \in Bytes, IsTail(r, s), IsTail(s, t)
    PROVE  IsTail(r, t)
<1>1. /\ Len(r) \in Nat /\ Len(s) \in Nat /\ Len(t) \in Nat
      /\ Len(r) <= Len(s) /\ Len(s) <= Len(t)
  BY DEF IsTail, Bytes
<1>2. ASSUME NEW i \in 1..Len(r)
      PROVE  r[i] = t[i + (Len(t) - Len(r))]
  <2>1. i + (Len(s) - Len(r)) \in 1..Len(s)
    BY <1>1
  <2>2. (i + (Len(s) - Len(r))) + (Len(t) - Len(s)) = i + (Len(t) - Len(r))
    BY <1>1
  <2>q. QED
    BY <2>1, <2>2 DEF IsTail
<1>q. QED
  BY <1>1, <1>2 DEF IsTail

\* Of two ends of one sequence, the shorter is an end of the longer.
LEMMA TailBetween ==
    ASSUME NEW r \in Bytes, NEW s \in Bytes, NEW t \in Bytes, IsTail(r, t), IsTail(s, t),
           Len(r) <= Len(s)
    PROVE  IsTail(r, s)
<1>1. /\ Len(r) \in Nat /\ Len(s) \in Nat /\ Len(t) \in Nat /\ Len(s) <= Len(t)
  BY DEF IsTail, Bytes
<1>2. ASSUME NEW i \in 1..Len(r)
      PROVE  r[i] = s[i + (Len(s) - Len(r))]
  <2>1. i + (Len(s) - Len(r)) \in 1..Len(s)
    BY <1>1
  <2>2. (i + (Len(s) - Len(r))) + (Len(t) - Len(s)) = i + (Len(t) - Len(r))
    BY <1>1
  <2>q. QED
    BY <2>1, <2>2 DEF IsTail
<1>q. QED
  BY <1>1, <1>2 DEF IsTail

-----------------------------------------------------------------------------
(* What a cut takes away.                                                  *)

\* A set of numbers that is not empty has a least one.
LEMMA LeastOf ==
    ASSUME NEW X \in SUBSET Nat, X # {}
    PROVE  Min(X) \in X /\ \A y \in X : Min(X) <= y
<1> DEFINE Less == OpToRel(<, Nat)
<1> HIDE DEF Less
<1>1. PICK x \in X : \A y \in X : <<y, x>> \notin Less
  <2>1. IsWellFoundedOn(Less, Nat)
    BY NatLessThanWellFounded DEF Less
  <2>q. QED
    BY <2>1, WFMin
<1>2. \A i, j \in Nat : <<i, j>> \in Less <=> i < j
  BY DEF Less, OpToRel
<1>3. \A y \in X : ~(y < x)
  BY <1>1, <1>2
<1>4. \E z \in X : \A y \in X : z <= y
  BY <1>3
<1>q. QED
  BY <1>4 DEF Min

\* The places behind the cut where a line ends.
Newlines(s, cut) == {i \in 1..Len(s) : i > cut /\ IsNewline(s[i])}

LEMMA DroppedCases ==
    ASSUME NEW s \in Bytes, NEW cut, cut = Len(s) - Retained
    PROVE  /\ cut <= 0 => Dropped(s) = 0
           /\ cut > 0 /\ Newlines(s, cut) = {} => Dropped(s) = cut
           /\ cut > 0 /\ Newlines(s, cut) # {} =>
                /\ Dropped(s) \in Newlines(s, cut)
                /\ \A i \in Newlines(s, cut) : Dropped(s) <= i
           /\ cut \in Int /\ cut <= Len(s)
<1>1. Len(s) \in Nat /\ DOMAIN s = 1..Len(s) /\ Retained \in Nat
  BY JournalAssumption DEF Bytes
<1>2. Dropped(s) = IF cut <= 0 THEN 0
                   ELSE IF Newlines(s, cut) = {} THEN cut ELSE Min(Newlines(s, cut))
  BY <1>1, Zenon DEF Dropped, Newlines
<1>3. Newlines(s, cut) \in SUBSET Nat
  BY <1>1 DEF Newlines
<1>q. QED
  BY <1>1, <1>2, <1>3, LeastOf

LEMMA DroppedFacts ==
    ASSUME NEW s \in Bytes
    PROVE  /\ Dropped(s) \in Nat /\ Dropped(s) <= Len(s)
           /\ Len(s) - Dropped(s) <= Retained
<1> DEFINE cut == Len(s) - Retained
<1>1. Len(s) \in Nat /\ Retained \in Nat
  BY JournalAssumption DEF Bytes
<1>2. \A i \in Newlines(s, cut) : i \in Nat /\ i <= Len(s) /\ i > cut
  BY <1>1 DEF Newlines
<1>q. QED
  BY <1>1, <1>2, DroppedCases

LEMMA CutFacts ==
    ASSUME NEW s \in Bytes
    PROVE  /\ Tailed(s) \in Bytes /\ IsTail(Tailed(s), s)
           /\ Len(Tailed(s)) = Len(s) - Dropped(s)
<1>1. Len(s) \in Nat /\ Dropped(s) \in Nat /\ Dropped(s) <= Len(s)
  BY DroppedFacts DEF Bytes
<1>2. Tailed(s) = SubSeq(s, Dropped(s) + 1, Len(s))
  BY DEF Tailed
<1>3. /\ Tailed(s) \in Bytes /\ Len(Tailed(s)) = Len(s) - Dropped(s)
      /\ \A i \in 1..(Len(s) - Dropped(s)) : Tailed(s)[i] = s[i + Dropped(s)]
  BY <1>1, <1>2 DEF Bytes
<1>q. QED
  BY <1>1, <1>3 DEF IsTail

\* A later cut never takes less.
LEMMA DroppedGrows ==
    ASSUME NEW s \in Bytes, NEW x \in Bytes
    PROVE  Dropped(s) <= Dropped(s \o x)
<1> DEFINE t == s \o x
           before == Len(s) - Retained
           after == Len(t) - Retained
<1>1. /\ t \in Bytes /\ Len(s) \in Nat /\ Len(t) \in Nat /\ Len(s) <= Len(t) /\ Retained \in Nat
      /\ \A i \in 1..Len(s) : t[i] = s[i]
  BY Joined, JournalAssumption
<1> HIDE DEF t
<1>2. /\ Dropped(s) \in Nat /\ Dropped(s) <= Len(s) /\ Dropped(t) \in Nat /\ Dropped(t) >= after
  BY <1>1, DroppedFacts
<1>3. CASE before <= 0
  <2>1. Dropped(s) = 0
    BY <1>3, DroppedCases
  <2>q. QED
    BY <1>2, <2>1 DEF t
<1>4. CASE before > 0 /\ Newlines(s, before) = {}
  <2>1. Dropped(s) = before
    BY <1>4, DroppedCases
  <2>2. before <= after
    BY <1>1
  <2>q. QED
    BY <1>1, <1>2, <2>1, <2>2 DEF t
<1>5. CASE before > 0 /\ Newlines(s, before) # {}
  <2>1. /\ Dropped(s) \in Newlines(s, before)
        /\ \A i \in Newlines(s, before) : Dropped(s) <= i
    BY <1>1, <1>5, DroppedCases
  <2>2. ASSUME NEW i \in Newlines(t, after), i <= Len(s)
        PROVE  i \in Newlines(s, before)
    BY <1>1, <2>2 DEF Newlines
  <2>3. CASE Newlines(t, after) = {}
    <3>1. Dropped(s) \in 1..Len(s) /\ IsNewline(s[Dropped(s)])
      BY <2>1 DEF Newlines
    <3>2. Dropped(s) <= after
      BY <1>1, <2>3, <3>1 DEF Newlines
    <3>q. QED
      BY <1>1, <1>2, <3>2 DEF t
  <2>4. CASE Newlines(t, after) # {}
    <3>1. Dropped(t) \in Newlines(t, after)
      BY <1>1, <1>5, <2>4, DroppedCases
    <3>q. QED
      BY <1>1, <1>2, <2>1, <2>2, <3>1 DEF t
  <2>q. QED
    BY <2>3, <2>4
<1>q. QED
  BY <1>1, <1>3, <1>4, <1>5 DEF t

\* To cut the end of a sequence takes no more than to cut the whole.
LEMMA DroppedOfTail ==
    ASSUME NEW s \in Bytes, NEW t \in Bytes, IsTail(s, t), Len(t) - Len(s) <= Dropped(t)
    PROVE  (Len(t) - Len(s)) + Dropped(s) <= Dropped(t)
<1> DEFINE ahead == Len(t) - Len(s)
           cut == Len(s) - Retained
           whole == Len(t) - Retained
<1>1. /\ Len(s) \in Nat /\ Len(t) \in Nat /\ ahead \in Nat /\ Retained \in Nat
      /\ \A i \in 1..Len(s) : i + ahead \in 1..Len(t) /\ t[i + ahead] = s[i]
  BY JournalAssumption DEF IsTail, Bytes
<1>2. Dropped(s) \in Nat /\ Dropped(t) \in Nat /\ Dropped(t) >= whole
  BY <1>1, DroppedFacts
<1>3. CASE cut <= 0
  <2>1. Dropped(s) = 0
    BY <1>3, DroppedCases
  <2>q. QED
    BY <1>1, <1>2, <2>1
<1>4. CASE cut > 0 /\ Newlines(s, cut) = {}
  <2>1. Dropped(s) = cut
    BY <1>4, DroppedCases
  <2>q. QED
    BY <1>1, <1>2, <2>1
<1>5. CASE cut > 0 /\ Newlines(s, cut) # {}
  <2>1. /\ Dropped(s) \in Newlines(s, cut)
        /\ \A i \in Newlines(s, cut) : Dropped(s) <= i
    BY <1>1, <1>5, DroppedCases
  <2>2. Dropped(s) \in 1..Len(s) /\ Dropped(s) > cut /\ IsNewline(s[Dropped(s)])
    BY <2>1 DEF Newlines
  <2>3. Dropped(s) + ahead \in Newlines(t, whole)
    BY <1>1, <2>2 DEF Newlines
  <2>4. Dropped(t) \in Newlines(t, whole)
    BY <1>1, <1>5, <2>3, DroppedCases
  <2>5. Dropped(t) \in 1..Len(t) /\ Dropped(t) > whole /\ IsNewline(t[Dropped(t)])
    BY <2>4 DEF Newlines
  <2>6. Dropped(t) - ahead \in 1..Len(s) /\ Dropped(t) - ahead > cut
    BY <1>1, <1>5, <2>5, JournalAssumption
  <2>7. s[Dropped(t) - ahead] = t[Dropped(t)]
    <3>1. (Dropped(t) - ahead) + ahead = Dropped(t)
      BY <1>1, <1>2
    <3>q. QED
      BY <1>1, <2>6, <3>1
  <2>8. Dropped(t) - ahead \in Newlines(s, cut)
    BY <2>5, <2>6, <2>7 DEF Newlines
  <2>q. QED
    BY <1>1, <1>2, <2>1, <2>2, <2>8
<1>q. QED
  BY <1>1, <1>3, <1>4, <1>5

-----------------------------------------------------------------------------
(* Lines.                                                                  *)

\* A line that can be read stays so, whatever is written behind it.
LEMMA ReadableStays ==
    ASSUME NEW n, NEW s \in Bytes, NEW x \in Bytes, Readable(n, s)
    PROVE  Readable(n, s \o x)
<1> DEFINE t == s \o x
<1>1. /\ t \in Bytes /\ Len(s) \in Nat /\ Len(t) \in Nat /\ Len(s) <= Len(t)
      /\ DOMAIN s = 1..Len(s) /\ DOMAIN t = 1..Len(t)
      /\ \A i \in 1..Len(s) : t[i] = s[i]
  BY Joined DEF Bytes
<1> HIDE DEF t
<1>2. PICK i \in DOMAIN s :
        /\ i = 1 \/ IsNewline(s[i - 1])
        /\ \A j \in 1..LineBytes : i + j - 1 \in DOMAIN s /\ s[i + j - 1] = Line(n)[j]
  BY DEF Readable
<1>3. i \in DOMAIN t /\ (i = 1 \/ IsNewline(t[i - 1]))
  <2>1. i \in Nat /\ i <= Len(s) /\ (i # 1 => i - 1 \in 1..Len(s))
    BY <1>1
  <2>2. i # 1 => t[i - 1] = s[i - 1]
    BY <1>1, <2>1
  <2>q. QED
    BY <1>1, <1>2, <2>1, <2>2
<1>4. ASSUME NEW j \in 1..LineBytes
      PROVE  i + j - 1 \in DOMAIN t /\ t[i + j - 1] = Line(n)[j]
  <2>1. i + j - 1 \in 1..Len(s) /\ s[i + j - 1] = Line(n)[j]
    BY <1>1, <1>2
  <2>q. QED
    BY <1>1, <2>1
<1>5. Readable(n, t)
  BY <1>3, <1>4 DEF Readable
<1>q. QED
  BY <1>5 DEF t

LEMMA LineFacts ==
    ASSUME NEW n \in Int
    PROVE  /\ Line(n) \in Bytes /\ Len(Line(n)) = LineBytes
           /\ \A k \in 0..LineBytes :
                /\ SubSeq(Line(n), 1, k) \in Bytes /\ Len(SubSeq(Line(n), 1, k)) = k
                /\ \A i \in 1..k : SubSeq(Line(n), 1, k)[i] = [event |-> n, at |-> i]
           /\ \A i \in 1..LineBytes : Line(n)[i] = [event |-> n, at |-> i]
<1>1. LineBytes \in Nat
  BY JournalAssumption
<1>2. \A i \in 1..LineBytes : [event |-> n, at |-> i] \in Byte
  BY DEF Byte
<1>3. Line(n) \in Bytes /\ Len(Line(n)) = LineBytes
  BY <1>1, <1>2 DEF Line, Bytes
<1>4. \A i \in 1..LineBytes : Line(n)[i] = [event |-> n, at |-> i]
  BY DEF Line
<1>5. ASSUME NEW k \in 0..LineBytes
      PROVE  /\ SubSeq(Line(n), 1, k) \in Bytes /\ Len(SubSeq(Line(n), 1, k)) = k
             /\ \A i \in 1..k : SubSeq(Line(n), 1, k)[i] = Line(n)[i]
  <2> HIDE DEF Bytes
  <2>1. Line(n) \in Seq(Byte) /\ Len(Line(n)) = LineBytes
    BY <1>3 DEF Bytes
  <2>q. QED
    BY <1>1, <2>1 DEF Bytes
<1>6. ASSUME NEW k \in 0..LineBytes, NEW i \in 1..k
      PROVE  i \in 1..LineBytes
  BY <1>1
<1>q. QED
  BY <1>3, <1>4, <1>5, <1>6

\* A whole line behind whole lines can be read, and ends what is written.
LEMMA LineReadable ==
    ASSUME NEW n \in Int, NEW s \in Bytes
    PROVE  /\ ~Torn(s \o Line(n))
           /\ ~Torn(s) => Readable(n, s \o Line(n))
<1> DEFINE t == s \o Line(n)
<1>1. /\ Line(n) \in Bytes /\ Len(Line(n)) = LineBytes /\ LineBytes \in Nat /\ LineBytes >= 1
      /\ \A i \in 1..LineBytes : Line(n)[i] = [event |-> n, at |-> i]
  BY LineFacts, JournalAssumption
<1>2. /\ t \in Bytes /\ Len(s) \in Nat /\ Len(t) = Len(s) + LineBytes
      /\ DOMAIN t = 1..Len(t)
      /\ \A i \in 1..Len(s) : t[i] = s[i]
      /\ \A i \in 1..LineBytes : t[Len(s) + i] = Line(n)[i]
  <2>1. /\ t \in Bytes /\ Len(s) \in Nat /\ Len(t) = Len(s) + LineBytes
        /\ \A i \in 1..Len(s) : t[i] = s[i]
        /\ \A i \in 1..LineBytes : t[Len(s) + i] = Line(n)[i]
    BY <1>1, Joined
  <2>2. DOMAIN t = 1..Len(t)
    BY <2>1 DEF Bytes
  <2>q. QED
    BY <2>1, <2>2
<1> HIDE DEF t
<1>3. ~Torn(t)
  <2>1. t[Len(t)] = [event |-> n, at |-> LineBytes]
    BY <1>1, <1>2
  <2>q. QED
    BY <2>1 DEF Torn, Last, IsNewline
<1>4. ASSUME ~Torn(s) PROVE Readable(n, t)
  <2> DEFINE i == Len(s) + 1
  <2>1. i \in DOMAIN t /\ (i = 1 \/ IsNewline(t[i - 1]))
    <3>1. CASE Len(s) = 0
      BY <1>1, <1>2, <3>1
    <3>2. CASE Len(s) # 0
      <4>1. s # <<>> /\ Len(s) \in 1..Len(s) /\ i - 1 = Len(s)
        BY <1>2, <3>2
      <4>2. IsNewline(s[Len(s)])
        BY <1>4, <4>1 DEF Torn, Last
      <4>q. QED
        BY <1>1, <1>2, <4>1, <4>2
    <3>q. QED
      BY <3>1, <3>2
  <2>2. ASSUME NEW j \in 1..LineBytes
        PROVE  i + j - 1 \in DOMAIN t /\ t[i + j - 1] = Line(n)[j]
    <3>1. i + j - 1 = Len(s) + j /\ Len(s) + j \in 1..Len(t)
      BY <1>1, <1>2
    <3>q. QED
      BY <1>2, <3>1
  <2>q. QED
    BY <2>1, <2>2 DEF Readable
<1>q. QED
  BY <1>3, <1>4 DEF t

-----------------------------------------------------------------------------
(* The journal.                                                            *)

Working == {"rotate", "close", "replace", "reopen", "write", "show"}
Live == place \notin {"new", "none"}

\* An event that the terminal was told of and that the recorder is not done with.
Pending == step \in {"signal", "record"} /\ ~sending.output

\* Such an event of which no line was written yet.
Due == Pending /\ place # "show"

WorkTypes ==
    /\ place \in {"new", "ready", "closed", "none"} \union Working
    /\ journal \in Bytes /\ prior \in Bytes /\ appended \in Bytes
    /\ handle \in BOOLEAN /\ size \in Nat /\ faults \in Nat

\* The recorder works while the stream holds its lock.
Placed ==
    /\ place = "new" => step = "idle" /\ told = <<>> /\ appended = <<>>
    /\ place \in Working => step = "record" /\ ~sending.output
    /\ place = "closed" => closing = "done" /\ ~handle
    /\ place \in {"replace", "reopen"} => ~handle
    /\ Pending => told # <<>> /\ told[Len(told)] = sending

\* What was cut off would be cut off now.
Kept == IsTail(journal, All) /\ Len(All) - Len(journal) <= Dropped(All)

\* The bytes are in order, and those of the event under way are the last.
Ordered ==
    /\ \A i, j \in 1..Len(appended) : i < j => Before(appended[i], appended[j])
    /\ \A i \in 1..Len(appended) :
          appended[i].event < IF step # "idle" /\ place # "show" THEN sequence ELSE sequence + 1

\* The events that have no line of their own, nor will get one.
Lost == {i \in DOMAIN told : ~Readable(told[i].sequence, All) /\ ~(Due /\ i = Len(told))}

Unfinished(bytes) == IF Torn(bytes) THEN 1 ELSE 0

\* With its file, or about to have it again, the recorder loses two events for a
\* failure at most: what it has left of a line is an event that will be lost.
Counted ==
    handle \/ place \in {"replace", "reopen"} =>
        Cardinality(Lost) + Unfinished(All) <= 2 * faults + Unfinished(prior)

\* Nothing has failed: the recorder has its file but while it replaces it, and
\* there is room for the next line.
Exact ==
    /\ place \notin {"replace", "reopen", "closed"} => handle
    /\ handle => size = Len(journal)
    /\ Len(journal) <= MaxEvents
    /\ place \in {"reopen", "write"} => Len(journal) + LineBytes <= MaxEvents
    /\ ~Pending /\ told # <<>> => current = told[Len(told)].sequence

JournalInv ==
    /\ WorkTypes
    /\ Placed
    /\ Live => Kept /\ Ordered /\ Counted /\ (faults = 0 => Exact)

LEMMA AllFacts ==
    ASSUME WorkTypes
    PROVE  /\ All \in Bytes
           /\ \A x \in Bytes : prior \o (appended \o x) = All \o x
BY DEF WorkTypes, All, Bytes

LEMMA LostFinite == IInv => IsFiniteSet(Lost) /\ Cardinality(Lost) \in Nat
<1> SUFFICES ASSUME IInv PROVE IsFiniteSet(Lost) /\ Cardinality(Lost) \in Nat
  OBVIOUS
<1>1. Len(told) \in Nat /\ DOMAIN told = 1..Len(told)
  BY DEF IInv, TypeOK
<1>2. Lost \in SUBSET (1..Len(told))
  BY <1>1 DEF Lost
<1>3. IsFiniteSet(1..Len(told))
  BY <1>1, FS_Interval
<1>4. IsFiniteSet(Lost)
  BY <1>2, <1>3, FS_Subset
<1>q. QED
  BY <1>4, FS_CardinalityType

LEMMA SeqOfLarger ==
    ASSUME NEW S, NEW T, S \subseteq T, NEW s \in Seq(S)
    PROVE  s \in Seq(T)
OBVIOUS

LEMMA JournalInit == WorkInit => JournalInv
<1> SUFFICES ASSUME WorkInit PROVE JournalInv
  OBVIOUS
<1>1. journal \in Bytes
  <2>1. journal \in Seq([event : {n \in Int : n <= 0}, at : 1..LineBytes])
    BY JournalAssumption, Zenon DEF WorkInit
  <2>2. [event : {n \in Int : n <= 0}, at : 1..LineBytes] \subseteq Byte
    BY DEF Byte
  <2>q. QED
    BY <2>1, <2>2, SeqOfLarger, Zenon DEF Bytes
<1>2. <<>> \in Bytes
  BY DEF Bytes
<1>3. WorkTypes
  BY <1>1, <1>2 DEF WorkInit, WorkTypes
<1>4. Placed /\ ~Live
  BY DEF WorkInit, Init, Placed, Live, Working, Pending
<1>q. QED
  BY <1>3, <1>4 DEF JournalInv

LEMMA OpenKeeps ==
    ASSUME JournalInv, IInv, Open
    PROVE  JournalInv'
<1> USE DEF JournalInv
<1>1. /\ place = "new" /\ step = "idle" /\ told = <<>> /\ appended = <<>>
      /\ UNCHANGED <<sequence, step, sending, told, closing, current, appended>>
      /\ journal \in Bytes /\ faults \in Nat
  BY DEF Open, Placed, vars, WorkTypes
<1>2. BoundEvents \in Bytes /\ Len(BoundEvents) \in Nat /\ Len(BoundEvents) <= MaxEvents
  <2>1. /\ Tailed(journal) \in Bytes /\ Len(Tailed(journal)) \in Nat
        /\ Len(Tailed(journal)) <= Retained /\ Len(journal) \in Nat
    BY <1>1, CutFacts, DroppedFacts DEF Bytes
  <2>q. QED
    BY <1>1, <2>1, JournalAssumption DEF BoundEvents
<1>3. ~Pending' /\ told' = <<>>
  BY <1>1 DEF Pending
<1>4. CASE place' = "none"
  <2>1. faults' \in Nat /\ journal' \in Bytes /\ UNCHANGED <<handle, size, prior>>
    BY <1>1, <1>2, <1>4 DEF Open, Fault
  <2>q. QED
    BY <1>1, <1>3, <1>4, <2>1 DEF WorkTypes, Placed, Live, Working
<1>5. CASE place' # "none"
  <2>1. /\ journal' = BoundEvents /\ prior' = journal' /\ size' = Len(journal')
        /\ handle' = TRUE /\ place' = "ready" /\ faults' = faults
    BY <1>5 DEF Open
  <2>2. journal' \in Bytes /\ size' \in Nat /\ All' = journal' /\ appended' = <<>>
    BY <1>1, <1>2, <2>1 DEF All, Bytes
  <2>3. WorkTypes' /\ Placed'
    BY <1>1, <1>3, <2>1, <2>2 DEF WorkTypes, Placed, Working
  <2>4. Kept'
    <3>1. IsTail(journal', journal') /\ Len(journal') - Len(journal') <= Dropped(journal')
      BY <1>2, <2>1, <2>2, TailAll, DroppedFacts
    <3>q. QED
      BY <2>2, <3>1 DEF Kept
  <2>5. Ordered'
    BY <2>2 DEF Ordered
  <2>6. Counted'
    <3>1. Lost' = {}
      BY <1>3 DEF Lost
    <3>2. Unfinished(All)' = Unfinished(prior)' /\ Unfinished(prior)' \in Nat
      BY <2>1, <2>2 DEF Unfinished
    <3>q. QED
      BY <1>1, <2>1, <3>1, <3>2, FS_EmptySet DEF Counted
  <2>7. Exact'
    BY <1>2, <1>3, <2>1 DEF Exact
  <2>q. QED
    BY <2>3, <2>4, <2>5, <2>6, <2>7
<1>q. QED
  BY <1>4, <1>5

\* A step of the recorder before it writes: the journal may be cut.
Rotates ==
    /\ place \in {"ready", "rotate", "close", "replace", "reopen"} /\ Recording
    /\ place' \in {"rotate", "close", "replace", "reopen", "write"}
    /\ UNCHANGED <<vars, current, prior, appended>>
    /\ journal' \in {journal, Tailed(journal)}
    /\ handle' \in BOOLEAN /\ size' \in Nat /\ faults' \in Nat /\ faults <= faults'
    /\ handle' \/ place' \in {"replace", "reopen"} => handle \/ place \in {"replace", "reopen"}
    /\ place' \in {"replace", "reopen"} => ~handle'
    /\ faults' = 0 =>
          /\ place' \notin {"replace", "reopen"} => handle'
          /\ handle' => size' = Len(journal')
          /\ place' \in {"reopen", "write"} => Len(journal') + LineBytes <= MaxEvents

LEMMA RotateStep ==
    ASSUME JournalInv, IInv, Rotates
    PROVE  JournalInv'
<1> USE DEF JournalInv
<1>1. /\ step = "record" /\ ~sending.output
      /\ UNCHANGED <<sequence, step, sending, told, closing, prior, appended, current>>
      /\ Live /\ Live' /\ journal \in Bytes /\ faults \in Nat /\ faults' \in Nat
      /\ faults <= faults' /\ place # "show" /\ place' # "show"
  BY DEF Rotates, Recording, vars, Live, WorkTypes
<1>2. /\ journal' \in Bytes /\ Len(journal') \in Nat /\ Len(journal) \in Nat
      /\ \/ journal' = journal
         \/ journal' = Tailed(journal) /\ Len(journal') = Len(journal) - Dropped(journal)
      /\ IsTail(journal', journal) /\ Len(journal') <= Len(journal)
  <2>1. Len(journal) \in Nat /\ journal' \in {journal, Tailed(journal)}
    BY <1>1 DEF Rotates, Bytes
  <2>2. CASE journal' = journal
    BY <1>1, <2>1, <2>2, TailAll
  <2>3. CASE journal' = Tailed(journal)
    <3>1. /\ Tailed(journal) \in Bytes /\ IsTail(Tailed(journal), journal)
          /\ Len(Tailed(journal)) = Len(journal) - Dropped(journal)
          /\ Dropped(journal) \in Nat /\ Dropped(journal) <= Len(journal)
      BY <1>1, CutFacts, DroppedFacts
    <3>q. QED
      BY <2>1, <2>3, <3>1
  <2>q. QED
    BY <2>1, <2>2, <2>3
<1>3. /\ All' = All /\ All \in Bytes /\ Len(All) \in Nat
      /\ Pending /\ Pending' /\ Due /\ Due' /\ Lost' = Lost
  <2>1. All' = All /\ All \in Bytes /\ Pending /\ Pending' /\ Due /\ Due'
    BY <1>1, AllFacts DEF All, Pending, Due
  <2>2. Lost' = Lost
    BY <1>1, <2>1 DEF Lost
  <2>q. QED
    BY <2>1, <2>2 DEF Bytes
<1>4. WorkTypes'
  BY <1>1, <1>2, Zenon DEF WorkTypes, Rotates, Working
<1>5. Placed'
  BY <1>1, <1>3 DEF Placed, Rotates, Working
<1>6. Kept'
  <2>1. IsTail(journal', All)
    BY <1>1, <1>2, <1>3, TailOfTail DEF Kept
  <2>2. Len(All) - Len(journal') <= Dropped(All)
    <3>1. Len(All) - Len(journal) <= Dropped(All) /\ IsTail(journal, All)
      BY <1>1 DEF Kept
    <3>2. (Len(All) - Len(journal)) + Dropped(journal) <= Dropped(All)
      BY <1>1, <1>3, <3>1, DroppedOfTail
    <3>3. Dropped(journal) \in Nat /\ Dropped(All) \in Nat
      BY <1>1, <1>3, DroppedFacts
    <3>q. QED
      BY <1>2, <1>3, <3>1, <3>2, <3>3
  <2>q. QED
    BY <1>3, <2>1, <2>2 DEF Kept
<1>7. Ordered'
  BY <1>1 DEF Ordered
<1>8. Counted'
  <2>1. Cardinality(Lost) \in Nat /\ Unfinished(All) \in Nat /\ Unfinished(prior) \in Nat
    BY LostFinite DEF Unfinished
  <2>2. Unfinished(All)' = Unfinished(All) /\ Unfinished(prior)' = Unfinished(prior)
    BY <1>1, <1>3 DEF Unfinished
  <2>3. handle' \/ place' \in {"replace", "reopen"} => handle \/ place \in {"replace", "reopen"}
    BY DEF Rotates
  <2>q. QED
    BY <1>1, <1>3, <2>1, <2>2, <2>3 DEF Counted
<1>9. ASSUME faults' = 0 PROVE Exact'
  <2>1. faults = 0 /\ Exact
    BY <1>1, <1>9
  <2>2. Len(journal') <= MaxEvents
    BY <1>2, <2>1, JournalAssumption DEF Exact
  <2>q. QED
    BY <1>1, <1>3, <1>9, <2>1, <2>2 DEF Exact, Rotates
<1>q. QED
  BY <1>1, <1>4, <1>5, <1>6, <1>7, <1>8, <1>9

LEMMA ReceiveKeeps ==
    ASSUME JournalInv, IInv, Receive
    PROVE  JournalInv'
<1> USE DEF JournalInv
<1>1. /\ Recording /\ place = "ready"
      /\ place' = IF size + LineBytes > MaxEvents THEN "rotate" ELSE "write"
      /\ UNCHANGED <<vars, prior, journal, handle, size, current, faults, appended>>
  BY DEF Receive, Goes
<1>2. handle \in BOOLEAN /\ faults \in Nat /\ size \in Nat
  BY DEF WorkTypes
<1>3. faults = 0 => handle /\ size = Len(journal)
  BY <1>1 DEF Exact, Live
<1>4. Rotates
  <2>1. /\ UNCHANGED <<vars, current, prior, appended>> /\ handle' \in BOOLEAN
    BY <1>1, <1>2, Zenon
  <2>2. place' = "write" => size + LineBytes <= MaxEvents
    BY <1>1, <1>2, JournalAssumption
  <2>q. QED
    BY <1>1, <1>2, <1>3, <2>1, <2>2 DEF Rotates
<1>q. QED
  BY <1>4, RotateStep

LEMMA ReadJournalKeeps ==
    ASSUME JournalInv, IInv, ReadJournal
    PROVE  JournalInv'
<1> USE DEF JournalInv
<1>1. /\ place = "rotate" /\ UNCHANGED <<vars, prior, journal, handle, size, current, appended>>
      /\ \/ place' = "close" /\ UNCHANGED faults
         \/ place' = "write" /\ faults' = faults + 1
  BY DEF ReadJournal, Goes, Fault
<1>2. handle \in BOOLEAN /\ faults \in Nat /\ size \in Nat /\ Recording
  BY <1>1 DEF WorkTypes, Placed, Working, Recording
<1>3. faults = 0 => handle /\ size = Len(journal)
  BY <1>1 DEF Exact, Live
<1>4. Rotates
  <2>1. /\ UNCHANGED <<vars, current, prior, appended>> /\ handle' \in BOOLEAN
    BY <1>1, <1>2, Zenon
  <2>q. QED
    BY <1>1, <1>2, <1>3, <2>1 DEF Rotates
<1>q. QED
  BY <1>4, RotateStep

LEMMA CloseJournalKeeps ==
    ASSUME JournalInv, IInv, CloseJournal
    PROVE  JournalInv'
<1> USE DEF JournalInv
<1>1. /\ place = "close" /\ UNCHANGED <<vars, prior, journal, size, current, appended>>
      /\ handle' = FALSE
      /\ \/ handle /\ place' = "replace" /\ UNCHANGED faults
         \/ handle /\ place' = "write" /\ faults' = faults + 1
         \/ ~handle /\ place' = "write" /\ UNCHANGED faults
  BY DEF CloseJournal, Goes, Fault
<1>2. faults \in Nat /\ size \in Nat /\ Recording /\ handle' \in BOOLEAN /\ ~handle'
  BY <1>1 DEF WorkTypes, Placed, Working, Recording
<1>3. faults = 0 => handle
  BY <1>1 DEF Exact, Live
<1>4. Rotates
  <2>1. /\ UNCHANGED <<vars, current, prior, appended>>
    BY <1>1, Zenon
  <2>2. faults' = 0 => place' = "replace"
    BY <1>1, <1>2, <1>3
  <2>q. QED
    BY <1>1, <1>2, <2>1, <2>2 DEF Rotates
<1>q. QED
  BY <1>4, RotateStep

LEMMA ReplaceKeeps ==
    ASSUME JournalInv, IInv, Replace
    PROVE  JournalInv'
<1> USE DEF JournalInv
<1>1. /\ place = "replace" /\ ~handle /\ UNCHANGED <<vars, prior, current, appended>>
      /\ \/ /\ place' = "reopen" /\ journal' = Tailed(journal)
            /\ UNCHANGED <<handle, size, faults>>
         \/ /\ place' = "write" /\ faults' = faults + 1 /\ handle' = TRUE
            /\ size' = Len(journal) /\ UNCHANGED journal
         \/ /\ place' = "write" /\ faults' = faults + 2
            /\ UNCHANGED <<journal, handle, size>>
  BY DEF Replace, Goes, Fault, Placed
<1>2. /\ faults \in Nat /\ size \in Nat /\ journal \in Bytes /\ Recording
      /\ Len(journal) \in Nat /\ Len(Tailed(journal)) \in Nat /\ Len(Tailed(journal)) <= Retained
  <2>1. faults \in Nat /\ size \in Nat /\ journal \in Bytes /\ Recording
    BY <1>1 DEF WorkTypes, Placed, Working, Recording
  <2>2. Len(journal) \in Nat
    BY <2>1 DEF Bytes
  <2>q. QED
    BY <2>1, <2>2, CutFacts, DroppedFacts, JournalAssumption
<1>3. Rotates
  <2>1. UNCHANGED <<vars, current, prior, appended>>
    BY <1>1, Zenon
  <2>2. handle' \in BOOLEAN
    BY <1>1, Zenon DEF WorkTypes
  <2>3. size' \in Nat /\ faults' \in Nat /\ faults <= faults' /\ journal' \in {journal, Tailed(journal)}
    BY <1>1, <1>2
  <2>4. place' = "reopen" => ~handle' /\ Len(journal') + LineBytes <= MaxEvents
    BY <1>1, <1>2, JournalAssumption
  <2>5. faults' = 0 => place' = "reopen"
    BY <1>1, <1>2
  <2>q. QED
    BY <1>1, <1>2, <2>1, <2>2, <2>3, <2>4, <2>5 DEF Rotates
<1>q. QED
  BY <1>3, RotateStep

LEMMA ReopenKeeps ==
    ASSUME JournalInv, IInv, Reopen
    PROVE  JournalInv'
<1> USE DEF JournalInv
<1>1. /\ place = "reopen" /\ place' = "write" /\ UNCHANGED <<vars, prior, current, appended, journal>>
      /\ \/ handle' = TRUE /\ size' = Len(journal) /\ UNCHANGED faults
         \/ faults' = faults + 1 /\ UNCHANGED <<handle, size>>
  BY DEF Reopen, Goes, Fault
<1>2. /\ faults \in Nat /\ size \in Nat /\ Len(journal) \in Nat /\ Recording
  BY <1>1 DEF WorkTypes, Bytes, Placed, Working, Recording
<1>3. faults = 0 => Len(journal) + LineBytes <= MaxEvents
  BY <1>1 DEF Exact, Live
<1>4. Rotates
  <2>1. UNCHANGED <<vars, current, prior, appended>>
    BY <1>1, Zenon
  <2>2. handle' \in BOOLEAN
    BY <1>1, Zenon DEF WorkTypes
  <2>3. size' \in Nat /\ faults' \in Nat /\ faults <= faults'
    BY <1>1, <1>2
  <2>4. faults' = 0 => handle' /\ size' = Len(journal) /\ faults = 0
    BY <1>1, <1>2
  <2>q. QED
    BY <1>1, <1>2, <1>3, <2>1, <2>2, <2>3, <2>4 DEF Rotates
<1>q. QED
  BY <1>4, RotateStep

LEMMA EventOf ==
    ASSUME NEW s \in Bytes, NEW i \in 1..Len(s)
    PROVE  s[i].event \in Int
<1>1. s[i] \in Byte
  BY DEF Bytes
<1>q. QED
  BY <1>1 DEF Byte

\* A write, whole or not, in terms of the bytes that it has left.
LEMMA WriteKeeps ==
    ASSUME JournalInv, IInv, Write
    PROVE  JournalInv'
<1> USE DEF JournalInv
<1> DEFINE n == sending.sequence
<1>1. /\ place = "write" /\ place' = "show" /\ UNCHANGED <<vars, prior, handle, current>>
      /\ \/ /\ handle /\ Written(Line(n)) /\ size' = size + LineBytes /\ UNCHANGED faults
         \/ /\ handle /\ faults' = faults + 1 /\ size' = size
            /\ \E k \in 0..(LineBytes - 1) : Written(SubSeq(Line(n), 1, k))
         \/ ~handle /\ UNCHANGED <<journal, appended, size, faults>>
  BY DEF Write, Goes, Fault
<1>2. /\ step = "record" /\ ~sending.output
      /\ UNCHANGED <<sequence, step, sending, told, closing>>
      /\ Live /\ Live' /\ Pending /\ Pending' /\ Due /\ ~Due'
  BY <1>1 DEF Placed, vars, Live, Working, Due, Pending
<1>3. /\ journal \in Bytes /\ appended \in Bytes /\ prior \in Bytes /\ All \in Bytes
      /\ faults \in Nat /\ size \in Nat /\ LineBytes \in Nat
  BY AllFacts, JournalAssumption DEF WorkTypes
<1>4. /\ n \in Int /\ n = sequence /\ sequence \in Nat
      /\ told # <<>> /\ told[Len(told)] = sending /\ Len(told) \in Nat /\ DOMAIN told = 1..Len(told)
  BY <1>2 DEF IInv, TypeOK, Event, Numbered, Placed
<1> HIDE DEF n
<1>5. CASE ~handle
  <2>1. UNCHANGED <<journal, appended, size, faults, handle, prior>>
    BY <1>1, <1>5
  <2>2. WorkTypes' /\ Placed'
    BY <1>1, <1>2, <1>3, <1>5, <2>1 DEF WorkTypes, Placed, Working
  <2>3. Kept' /\ Ordered'
    <3>1. All' = All
      BY <2>1 DEF All
    <3>2. Ordered'
      <4>1. \A i \in 1..Len(appended) : appended[i].event \in Int
        BY <1>3, EventOf
      <4>q. QED
        BY <1>1, <1>2, <1>4, <2>1, <4>1 DEF Ordered
    <3>q. QED
      BY <1>2, <2>1, <3>1, <3>2 DEF Kept
  <2>4. Counted'
    BY <1>1, <1>5, <2>1 DEF Counted
  <2>5. faults' # 0
    BY <1>1, <1>2, <1>5, <2>1 DEF Exact
  <2>q. QED
    BY <2>2, <2>3, <2>4, <2>5
<1>6. ASSUME handle, NEW k \in 0..LineBytes, NEW x, x = SubSeq(Line(n), 1, k), Written(x),
             \/ k = LineBytes /\ faults' = faults /\ size' = size + LineBytes
             \/ faults' = faults + 1 /\ size' = size
      PROVE  JournalInv'
  <2>1. /\ x \in Bytes /\ Len(x) = k /\ \A i \in 1..k : x[i] = [event |-> n, at |-> i]
    BY <1>4, <1>6, LineFacts
  <2>2. /\ journal' = journal \o x /\ appended' = appended \o x /\ All' = All \o x
    BY <1>1, <1>3, <1>6, <2>1, AllFacts DEF Written, All
  <2>3. /\ journal' \in Bytes /\ appended' \in Bytes /\ All' \in Bytes
        /\ Len(journal') = Len(journal) + k /\ Len(appended') = Len(appended) + k
        /\ Len(All') = Len(All) + k
        /\ Len(journal) \in Nat /\ Len(appended) \in Nat /\ Len(All) \in Nat
    BY <1>3, <2>1, <2>2, Joined
  <2>4. WorkTypes' /\ Placed'
    <3>1. handle' \in BOOLEAN /\ prior' \in Bytes
      BY <1>1, <1>3, Zenon DEF WorkTypes
    <3>2. size' \in Nat /\ faults' \in Nat
      BY <1>3, <1>6
    <3>q. QED
      BY <1>1, <1>2, <2>3, <3>1, <3>2 DEF WorkTypes, Placed, Working
  <2>5. Kept'
    <3>1. IsTail(journal', All')
      BY <1>2, <1>3, <2>1, <2>2, TailJoined DEF Kept
    <3>2. Dropped(All) <= Dropped(All') /\ Dropped(All) \in Nat /\ Dropped(All') \in Nat
      BY <1>3, <2>1, <2>2, <2>3, DroppedGrows, DroppedFacts
    <3>3. Len(All') - Len(journal') <= Dropped(All')
      BY <1>2, <2>3, <3>2 DEF Kept
    <3>q. QED
      BY <3>1, <3>3 DEF Kept
  <2>6. Ordered'
    <3>1. ASSUME NEW i \in 1..Len(appended')
          PROVE  \/ i \in 1..Len(appended) /\ appended'[i] = appended[i] /\ appended[i].event < n
                 \/ /\ i - Len(appended) \in 1..k
                    /\ appended'[i] = [event |-> n, at |-> i - Len(appended)]
      <4>1. CASE i <= Len(appended)
        <5>1. i \in 1..Len(appended)
          BY <2>3, <4>1
        <5>2. appended'[i] = appended[i]
          BY <1>3, <2>1, <2>2, <5>1, Joined
        <5>3. appended[i].event < n
          BY <1>1, <1>2, <1>4, <5>1 DEF Ordered
        <5>q. QED
          BY <5>1, <5>2, <5>3
      <4>2. CASE i > Len(appended)
        <5>1. i - Len(appended) \in 1..k /\ Len(appended) + (i - Len(appended)) = i
          BY <2>3, <4>2
        <5>2. appended'[Len(appended) + (i - Len(appended))] = x[i - Len(appended)]
          BY <1>3, <2>1, <2>2, <5>1, Joined
        <5>q. QED
          BY <2>1, <5>1, <5>2
      <4>q. QED
        BY <2>3, <4>1, <4>2
    <3>2. ASSUME NEW i \in 1..Len(appended'), NEW j \in 1..Len(appended'), i < j
          PROVE  Before(appended'[i], appended'[j])
      <4>1. CASE j \in 1..Len(appended)
        <5>1. i \in 1..Len(appended)
          BY <2>3, <3>2, <4>1
        <5>2. appended'[i] = appended[i] /\ appended'[j] = appended[j]
          BY <1>3, <2>1, <2>2, <4>1, <5>1, Joined
        <5>q. QED
          BY <1>2, <3>2, <4>1, <5>1, <5>2 DEF Ordered
      <4>2. CASE j \notin 1..Len(appended)
        <5>0. /\ j - Len(appended) \in 1..k
              /\ appended'[j] = [event |-> n, at |-> j - Len(appended)]
          BY <3>1, <4>2
        <5>1. /\ j - Len(appended) \in 1..k
              /\ appended'[j].event = n /\ appended'[j].at = j - Len(appended)
          BY <5>0
        <5>2. CASE appended'[i] = appended[i] /\ appended[i].event < n
          BY <5>1, <5>2 DEF Before
        <5>3. CASE /\ i - Len(appended) \in 1..k
                   /\ appended'[i] = [event |-> n, at |-> i - Len(appended)]
          BY <2>3, <3>2, <5>1, <5>3 DEF Before
        <5>q. QED
          BY <3>1, <5>2, <5>3
      <4>q. QED
        BY <4>1, <4>2
    <3>3. ASSUME NEW i \in 1..Len(appended')
          PROVE  appended'[i].event < sequence + 1
      <4>1. CASE appended'[i].event = n
        BY <1>4, <4>1
      <4>2. CASE /\ i \in 1..Len(appended) /\ appended'[i] = appended[i] /\ appended[i].event < n
        <5>1. appended[i].event \in Int
          BY <1>3, <4>2, EventOf
        <5>q. QED
          BY <1>4, <4>2, <5>1
      <4>3. appended'[i] = [event |-> n, at |-> i - Len(appended)] => appended'[i].event = n
        OBVIOUS
      <4>q. QED
        BY <3>1, <4>1, <4>2, <4>3
    <3>q. QED
      BY <1>1, <1>2, <3>2, <3>3 DEF Ordered
  <2>7. Counted'
    <3>1. /\ Lost' \subseteq Lost \union {Len(told)}
          /\ k = LineBytes /\ ~Torn(All) => Lost' \subseteq Lost
          /\ k = LineBytes => ~Torn(All')
      <4>1. ASSUME NEW i \in DOMAIN told, i # Len(told), i \notin Lost
            PROVE  Readable(told[i].sequence, All')
        BY <1>2, <1>3, <2>1, <2>2, <4>1, ReadableStays DEF Lost
      <4>2. Lost' \subseteq Lost \union {Len(told)}
        BY <1>2, <4>1 DEF Lost
      <4>3. ASSUME k = LineBytes
            PROVE  ~Torn(All') /\ (~Torn(All) => Lost' \subseteq Lost)
        <5>1. x = Line(n)
          BY <1>3, <1>4, <1>6, <4>3, LineFacts DEF Bytes
        <5>2. ~Torn(All') /\ (~Torn(All) => Readable(n, All'))
          BY <1>3, <1>4, <2>2, <5>1, LineReadable
        <5>3. told[Len(told)].sequence = n
          BY <1>4 DEF n
        <5>4. ~Torn(All) => Len(told) \notin Lost'
          BY <1>2, <5>2, <5>3 DEF Lost
        <5>q. QED
          BY <4>2, <5>2, <5>4
      <4>q. QED
        BY <4>2, <4>3
    <3>2. /\ IsFiniteSet(Lost) /\ Cardinality(Lost) \in Nat
          /\ Cardinality(Lost \union {Len(told)}) <= Cardinality(Lost) + 1
          /\ IsFiniteSet(Lost \union {Len(told)})
          /\ Cardinality(Lost \union {Len(told)}) \in Nat
      <4>1. IsFiniteSet(Lost) /\ Cardinality(Lost) \in Nat
        BY LostFinite
      <4>2. /\ IsFiniteSet(Lost \union {Len(told)})
            /\ Cardinality(Lost \union {Len(told)})
                 = IF Len(told) \in Lost THEN Cardinality(Lost) ELSE Cardinality(Lost) + 1
        BY <4>1, FS_AddElement
      <4>q. QED
        BY <4>1, <4>2
    <3>3. /\ Cardinality(Lost') <= Cardinality(Lost) + 1 /\ Cardinality(Lost') \in Nat
          /\ Lost' \subseteq Lost => Cardinality(Lost') <= Cardinality(Lost)
      <4>1. IsFiniteSet(Lost') /\ Cardinality(Lost') <= Cardinality(Lost \union {Len(told)})
        BY <3>1, <3>2, FS_Subset
      <4>2. Cardinality(Lost') \in Nat
        BY <4>1, FS_CardinalityType
      <4>3. Lost' \subseteq Lost => Cardinality(Lost') <= Cardinality(Lost)
        BY <3>2, FS_Subset
      <4>q. QED
        BY <3>2, <4>1, <4>2, <4>3
    <3>4. Cardinality(Lost) + Unfinished(All) <= 2 * faults + Unfinished(prior)
      BY <1>2, <1>6 DEF Counted
    <3>5. Unfinished(prior)' = Unfinished(prior) /\ Unfinished(prior) \in {0, 1}
      BY <1>1 DEF Unfinished
    <3>6. CASE k = LineBytes
      <4>1. Unfinished(All)' = 0 /\ (Torn(All) => Unfinished(All) = 1)
            /\ (~Torn(All) => Unfinished(All) = 0)
        BY <3>1, <3>6 DEF Unfinished
      <4>2. Cardinality(Lost') + Unfinished(All)' <= Cardinality(Lost) + Unfinished(All)
        BY <3>1, <3>2, <3>3, <3>6, <4>1
      <4>3. faults <= faults' /\ faults' \in Nat
        BY <1>3, <1>6
      <4>q. QED
        BY <1>3, <3>2, <3>3, <3>4, <3>5, <4>1, <4>2, <4>3 DEF Counted
    <3>7. CASE k # LineBytes
      <4>1. faults' = faults + 1
        BY <1>6, <3>7
      <4>2. Unfinished(All)' \in {0, 1} /\ Unfinished(All) \in {0, 1}
        BY DEF Unfinished
      <4>q. QED
        BY <1>3, <3>2, <3>3, <3>4, <3>5, <4>1, <4>2 DEF Counted
    <3>q. QED
      BY <3>6, <3>7
  <2>8. ASSUME faults' = 0 PROVE Exact'
    <3>1. /\ faults = 0 /\ Exact /\ k = LineBytes /\ size' = size + LineBytes
      BY <1>2, <1>3, <1>6, <2>8
    <3>2. size = Len(journal) /\ Len(journal) + LineBytes <= MaxEvents
      BY <1>1, <1>6, <3>1 DEF Exact
    <3>3. (handle' <=> handle)
      BY <1>1
    <3>q. QED
      BY <1>1, <1>2, <1>6, <2>3, <3>1, <3>2, <3>3 DEF Exact
  <2>q. QED
    BY <2>4, <2>5, <2>6, <2>7, <2>8
<1>q. QED
  <2>1. Line(n) = SubSeq(Line(n), 1, LineBytes)
    BY <1>3, <1>4, LineFacts DEF Bytes
  <2>2. LineBytes \in 0..LineBytes /\ 0..(LineBytes - 1) \subseteq 0..LineBytes
    BY <1>3
  <2>q. QED
    <3>1. CASE handle /\ Written(Line(n)) /\ size' = size + LineBytes /\ UNCHANGED faults
      <4>1. Written(SubSeq(Line(n), 1, LineBytes))
        BY <2>1, <3>1, Zenon
      <4>2. faults' = faults /\ size' = size + LineBytes /\ handle
        BY <3>1
      <4>3. PICK k \in 0..LineBytes : k = LineBytes
        BY <2>2
      <4>4. Written(SubSeq(Line(n), 1, k))
        BY <4>1, <4>3, Zenon
      <4>q. QED
        BY <1>6, <4>2, <4>3, <4>4
    <3>2. CASE /\ handle /\ faults' = faults + 1 /\ size' = size
               /\ \E k \in 0..(LineBytes - 1) : Written(SubSeq(Line(n), 1, k))
      <4>1. PICK k \in 0..(LineBytes - 1) : Written(SubSeq(Line(n), 1, k))
        BY <3>2
      <4>q. QED
        BY <1>6, <2>2, <3>2, <4>1
    <3>q. QED
      BY <1>1, <1>5, <3>1, <3>2

LEMMA ShowCurrentKeeps ==
    ASSUME JournalInv, IInv, ShowCurrent
    PROVE  JournalInv'
<1> USE DEF JournalInv
<1>1. /\ place = "show" /\ place' = "ready" /\ step = "record" /\ step' = "idle"
      /\ UNCHANGED <<sequence, told, closing, journal, handle, size, prior, appended>>
      /\ \/ current' = sending.sequence /\ UNCHANGED faults
         \/ faults' = faults + 1
  BY DEF ShowCurrent, Record, Fault
<1>2. /\ Live /\ Live' /\ Pending /\ ~Pending' /\ ~Due /\ ~Due' /\ All' = All
  BY <1>1 DEF Live, Due, Pending, All, Placed, Working
<1>3. faults \in Nat /\ faults' \in Nat /\ faults <= faults'
  BY <1>1 DEF WorkTypes
<1>4. WorkTypes' /\ Placed'
  BY <1>1, <1>2, <1>3 DEF WorkTypes, Placed, Working
<1>5. Kept' /\ Ordered'
  BY <1>1, <1>2 DEF Kept, Ordered
<1>6. Counted'
  <2>1. Lost' = Lost
    BY <1>1, <1>2 DEF Lost
  <2>2. Unfinished(All)' = Unfinished(All) /\ Unfinished(prior)' = Unfinished(prior)
    BY <1>1, <1>2 DEF Unfinished
  <2>3. Cardinality(Lost) \in Nat /\ Unfinished(All) \in Nat /\ Unfinished(prior) \in Nat
    BY LostFinite DEF Unfinished
  <2>q. QED
    BY <1>1, <1>2, <1>3, <2>1, <2>2, <2>3 DEF Counted
<1>7. ASSUME faults' = 0 PROVE Exact'
  <2>1. Exact /\ current' = sending.sequence
    BY <1>1, <1>2, <1>3, <1>7
  <2>2. told' # <<>> /\ told'[Len(told')] = sending
    BY <1>1, <1>2 DEF Placed
  <2>q. QED
    BY <1>1, <1>2, <2>1, <2>2 DEF Exact
<1>q. QED
  BY <1>4, <1>5, <1>6, <1>7

\* A step of the stream that tells the terminal of nothing new, and leaves what
\* is under way as it is.
LEMMA AsideStep ==
    ASSUME JournalInv, IInv, UNCHANGED <<told, journal, size, current, faults, prior, appended>>,
           \/ place' = place /\ handle' = handle
           \/ place = "ready" /\ place' = "closed" /\ closing = "done" /\ ~handle',
           (Pending' <=> Pending) /\ (Pending => sending' = sending),
           place = "new" => step' = step,
           place \in Working => step' = step /\ sending' = sending,
           closing = "done" => closing' = "done",
           \/ sequence' = sequence /\ (step' = "idle" <=> step = "idle")
           \/ sequence' = sequence + 1 /\ step = "idle"
           \/ sequence' = sequence /\ step' = "idle",
           handle' \in BOOLEAN
    PROVE  JournalInv'
<1> USE DEF JournalInv
<1>1. /\ Live' = Live /\ All' = All /\ (place' = "show" <=> place = "show")
  BY DEF Live, All
<1>2. (Due' <=> Due) /\ Lost' = Lost
  <2>1. Due' <=> Due
    BY <1>1 DEF Due
  <2>q. QED
    BY <1>1, <2>1 DEF Lost
<1>3. WorkTypes'
  BY DEF WorkTypes
<1>4. Placed'
  BY DEF Placed, Working
<1>5. Live' => Kept'
  BY <1>1 DEF Kept
<1>6. ASSUME Live' PROVE Ordered'
  <2>1. \A i \in 1..Len(appended) : appended[i].event \in Int
    BY EventOf DEF WorkTypes
  <2>2. sequence \in Nat
    BY DEF IInv, TypeOK
  <2>3. place = "show" => step' = step
    BY DEF Working
  <2>q. QED
    BY <1>1, <1>6, <2>1, <2>2, <2>3 DEF Ordered
<1>7. ASSUME Live' PROVE Counted'
  <2>1. Unfinished(All)' = Unfinished(All) /\ Unfinished(prior)' = Unfinished(prior)
    BY <1>1 DEF Unfinished
  <2>q. QED
    BY <1>1, <1>2, <1>7, <2>1 DEF Counted
<1>8. ASSUME Live', faults' = 0 PROVE Exact'
  <2>1. Exact
    BY <1>1, <1>8
  <2>2. place' \notin {"replace", "reopen", "closed"} => handle'
    BY <2>1 DEF Exact
  <2>3. handle' => handle
    BY DEF WorkTypes
  <2>q. QED
    BY <2>1, <2>2, <2>3 DEF Exact
<1>q. QED
  BY <1>1, <1>3, <1>4, <1>5, <1>6, <1>7, <1>8

LEMMA PassKeeps ==
    ASSUME JournalInv, IInv, Pass \/ CloseRecorder \/ WorkClosed
    PROVE  JournalInv'
<1>1. CASE Pass
  <2>1. /\ UNCHANGED <<sequence, told, journal, size, current, faults, prior, appended, place,
                       handle, closing>>
        /\ step = "record" /\ step' = "idle"
        /\ place = "none" \/ (place = "ready" /\ sending.output)
    BY <1>1 DEF Pass, Record, journalVars, Recording
  <2>2. CASE place = "none"
    <3>1. WorkTypes' /\ ~Live'
      BY <2>1, <2>2, Zenon DEF JournalInv, WorkTypes, Live
    <3>2. Placed'
      BY <2>1, <2>2 DEF JournalInv, Placed, Working, Pending
    <3>q. QED
      BY <3>1, <3>2 DEF JournalInv
  <2>3. CASE place # "none"
    <3>1. ~Pending /\ ~Pending'
      BY <2>1, <2>3 DEF Pending
    <3>2. place # "new" /\ place \notin Working
      BY <2>1, <2>3 DEF Working
    <3>3. handle' \in BOOLEAN
      BY <2>1, Zenon DEF JournalInv, WorkTypes
    <3>q. QED
      BY <2>1, <3>1, <3>2, <3>3, AsideStep
  <2>q. QED
    BY <2>2, <2>3
<1>2. CASE CloseRecorder
  <2>1. /\ closing = "done" /\ place = "ready" /\ place' = "closed" /\ handle' = FALSE
        /\ UNCHANGED <<vars, journal, size, current, faults, prior, appended>>
    BY <1>2 DEF CloseRecorder
  <2>2. UNCHANGED <<sequence, told, step, sending, closing>>
    BY <2>1 DEF vars
  <2>3. Pending' <=> Pending
    BY <2>1, <2>2 DEF Pending
  <2>4. handle' \in BOOLEAN /\ ~handle'
    BY <2>1, Zenon
  <2>q. QED
    BY <2>1, <2>2, <2>3, <2>4, AsideStep
<1>3. CASE WorkClosed
  <2>1. UNCHANGED <<sequence, told, step, sending, closing, journal, size, current, faults, prior,
                    appended, place, handle>>
    BY <1>3 DEF WorkClosed, Closed, vars, journalVars
  <2>2. Pending' <=> Pending
    BY <2>1 DEF Pending
  <2>3. handle' \in BOOLEAN
    BY <2>1, Zenon DEF JournalInv, WorkTypes
  <2>q. QED
    BY <2>1, <2>2, <2>3, AsideStep
<1>q. QED
  BY <1>1, <1>2, <1>3

\* The terminal is told of an event.
LEMMA TellKeeps ==
    ASSUME JournalInv, IInv, UNCHANGED journalVars, place # "new", Enqueue, ~sending.output
    PROVE  JournalInv'
<1> USE DEF JournalInv
<1>1. /\ UNCHANGED <<place, journal, handle, size, current, faults, prior, appended>>
      /\ step = "render" /\ step' = "signal" /\ told' = Append(told, sending)
      /\ UNCHANGED <<sequence, closing, sending>>
  BY DEF Enqueue, journalVars
<1>2. place \notin Working
  BY <1>1 DEF Placed
<1>3. /\ Pending' /\ Due' /\ ~Due /\ All' = All /\ Live' = Live
  BY <1>1, <1>2 DEF Pending, Due, All, Live, Working
<1>4. /\ Len(told) \in Nat /\ DOMAIN told = 1..Len(told) /\ Len(told') = Len(told) + 1
      /\ DOMAIN told' = 1..(Len(told) + 1) /\ told'[Len(told) + 1] = sending
      /\ \A i \in 1..Len(told) : told'[i] = told[i]
  <2>1. sending \in Event /\ told \in Seq(Event)
    BY <1>1 DEF IInv, TypeOK
  <2>q. QED
    BY <1>1, <2>1
<1>5. WorkTypes'
  <2>1. handle' \in BOOLEAN
    BY <1>1, Zenon DEF WorkTypes
  <2>q. QED
    BY <1>1, <2>1 DEF WorkTypes
<1>6. Placed'
  <2>1. told' # <<>> /\ told'[Len(told')] = sending'
    BY <1>1, <1>4
  <2>q. QED
    BY <1>1, <1>2, <2>1 DEF Placed
<1>7. Live' => Kept' /\ Ordered'
  BY <1>1, <1>3 DEF Kept, Ordered
<1>8. ASSUME Live' PROVE Counted'
  <2>1. \A i \in DOMAIN told' :
          ~(i = Len(told')) => i \in DOMAIN told /\ told'[i] = told[i]
    BY <1>4
  <2>2. \A i \in DOMAIN told : i \in DOMAIN told' /\ i # Len(told')
    BY <1>4
  <2>3. Lost' = Lost
    BY <1>3, <2>1, <2>2 DEF Lost
  <2>4. Unfinished(All)' = Unfinished(All) /\ Unfinished(prior)' = Unfinished(prior)
    BY <1>1, <1>3 DEF Unfinished
  <2>q. QED
    BY <1>1, <1>3, <1>8, <2>3, <2>4 DEF Counted
<1>9. ASSUME Live', faults' = 0 PROVE Exact'
  BY <1>1, <1>3, <1>9 DEF Exact
<1>q. QED
  BY <1>5, <1>6, <1>7, <1>8, <1>9

LEMMA StreamingKeeps ==
    ASSUME JournalInv, IInv, Streaming
    PROVE  JournalInv'
<1>1. /\ UNCHANGED <<place, journal, handle, size, current, faults, prior, appended>>
      /\ UNCHANGED journalVars /\ place # "new"
  BY DEF Streaming, journalVars
<1>2. handle' \in BOOLEAN
  BY <1>1, Zenon DEF JournalInv, WorkTypes
<1>3. place \in Working => step = "record"
  BY DEF JournalInv, Placed
<1>4. CASE \E o \in BOOLEAN : Assign(o)
  <2>1. /\ step = "idle" /\ step' = "render" /\ sequence' = sequence + 1
        /\ UNCHANGED <<told, closing>>
    BY <1>4 DEF Assign
  <2>2. ~Pending /\ ~Pending'
    BY <2>1 DEF Pending
  <2>q. QED
    BY <1>1, <1>2, <1>3, <2>1, <2>2, AsideStep
<1>5. CASE Enqueue /\ sending.output
  <2>1. /\ step = "render" /\ step' # "idle" /\ UNCHANGED <<sequence, told, closing, sending>>
    BY <1>5 DEF Enqueue
  <2>2. ~Pending /\ ~Pending'
    BY <1>5, <2>1 DEF Pending
  <2>q. QED
    BY <1>1, <1>2, <1>3, <2>1, <2>2, AsideStep
<1>6. CASE Enqueue /\ ~sending.output
  BY <1>1, <1>6, TellKeeps
<1>7. CASE Signal
  <2>1. /\ step = "signal" /\ step' = "record" /\ UNCHANGED <<sequence, told, closing, sending>>
    BY <1>7 DEF Signal
  <2>2. Pending' <=> Pending
    BY <1>1, <2>1 DEF Pending
  <2>q. QED
    BY <1>1, <1>2, <1>3, <2>1, <2>2, AsideStep
<1>8. CASE Consume \/ Show \/ Close
  <2>1. UNCHANGED <<sequence, told, step, sending>>
    BY <1>8 DEF Consume, Look, Wake, Show, Close, CloseSink, SignalClose, Join
  <2>2. closing = "done" => closing' = "done"
    BY <1>8 DEF Consume, Look, Wake, Show, Close, CloseSink, SignalClose, Join
  <2>3. Pending' <=> Pending
    BY <1>1, <2>1 DEF Pending
  <2>q. QED
    BY <1>1, <1>2, <1>3, <2>1, <2>2, <2>3, AsideStep
<1>q. QED
  BY <1>4, <1>5, <1>6, <1>7, <1>8 DEF Streaming

LEMMA JournalStep == IInv /\ JournalInv /\ [WorkNext]_workVars => JournalInv'
<1> SUFFICES ASSUME IInv, JournalInv, [WorkNext]_workVars PROVE JournalInv'
  OBVIOUS
<1>1. CASE WorkNext
  BY <1>1, OpenKeeps, ReceiveKeeps, ReadJournalKeeps, CloseJournalKeeps, ReplaceKeeps,
     ReopenKeeps, WriteKeeps, ShowCurrentKeeps, PassKeeps, StreamingKeeps, Zenon
     DEF WorkNext, Recorder
<1>2. CASE UNCHANGED workVars
  <2>1. UNCHANGED <<sequence, told, step, sending, closing, journal, size, current, faults, prior,
                    appended, place, handle>>
    BY <1>2 DEF workVars, vars, journalVars
  <2>2. Pending' <=> Pending
    BY <2>1 DEF Pending
  <2>3. handle' \in BOOLEAN
    BY <2>1, Zenon DEF JournalInv, WorkTypes
  <2>q. QED
    BY <2>1, <2>2, <2>3, AsideStep
<1>q. QED
  BY <1>1, <1>2

\* What the journal holds follows from what is kept of it.
LEMMA JournalKept ==
    ASSUME IInv, JournalInv
    PROVE  JournalKeepsTail
<1> SUFFICES ASSUME Live PROVE
        /\ IsSuffix(journal, All) /\ IsSuffix(Tailed(All), journal)
        /\ \A i, j \in DOMAIN appended : i < j => Before(appended[i], appended[j])
        /\ handle /\ step = "idle" =>
              Cardinality(Unread) <= 2 * faults + (IF Torn(prior) THEN 1 ELSE 0)
        /\ faults = 0 =>
              /\ Len(journal) <= MaxEvents
              /\ step = "idle" /\ told # <<>> => current = Last(told).sequence
  BY DEF JournalKeepsTail, Live
<1>1. /\ journal \in Bytes /\ All \in Bytes /\ appended \in Bytes /\ faults \in Nat
      /\ Kept /\ Ordered /\ Counted /\ (faults = 0 => Exact)
  BY AllFacts DEF JournalInv, WorkTypes
<1>2. IsSuffix(journal, All)
  BY <1>1, TailIsSuffix DEF Kept
<1>3. IsSuffix(Tailed(All), journal)
  <2>1. /\ Tailed(All) \in Bytes /\ IsTail(Tailed(All), All)
        /\ Len(Tailed(All)) = Len(All) - Dropped(All) /\ Dropped(All) \in Nat
        /\ Len(All) \in Nat /\ Len(journal) \in Nat
    <3>1. Len(All) \in Nat /\ Len(journal) \in Nat
      BY <1>1 DEF Bytes
    <3>q. QED
      BY <1>1, <3>1, CutFacts, DroppedFacts
  <2>2. Len(Tailed(All)) <= Len(journal)
    BY <1>1, <2>1 DEF Kept
  <2>3. IsTail(Tailed(All), journal)
    BY <1>1, <2>1, <2>2, TailBetween DEF Kept
  <2>q. QED
    BY <1>1, <2>1, <2>3, TailIsSuffix
<1>4. DOMAIN appended = 1..Len(appended)
  BY <1>1 DEF Bytes
<1>5. \A i, j \in DOMAIN appended : i < j => Before(appended[i], appended[j])
  BY <1>1, <1>4 DEF Ordered
<1>6. step = "idle" => ~Due /\ ~Pending
  BY DEF Due, Pending
<1>7. ASSUME handle, step = "idle"
      PROVE  Cardinality(Unread) <= 2 * faults + (IF Torn(prior) THEN 1 ELSE 0)
  <2>1. Unread = Lost
    BY <1>6, <1>7 DEF Unread, Lost
  <2>2. Cardinality(Lost) \in Nat /\ Unfinished(All) \in Nat
    BY LostFinite DEF Unfinished
  <2>3. Cardinality(Lost) + Unfinished(All) <= 2 * faults + Unfinished(prior)
    BY <1>1, <1>7 DEF Counted
  <2>4. Unfinished(prior) = IF Torn(prior) THEN 1 ELSE 0
    BY DEF Unfinished
  <2>q. QED
    BY <1>1, <2>1, <2>2, <2>3, <2>4
<1>8. ASSUME faults = 0
      PROVE  /\ Len(journal) <= MaxEvents
             /\ step = "idle" /\ told # <<>> => current = Last(told).sequence
  BY <1>1, <1>6, <1>8 DEF Exact, Last
<1>q. QED
  BY <1>2, <1>3, <1>5, <1>7, <1>8

\* JournalIsTail: what a verification leaves in the journal, for every journal
\* that it found, every size of it, whatever calls fail and whatever part of a
\* line a failing write leaves.
THEOREM JournalIsTail == WorkSpec => []JournalKeepsTail
<1>1. WorkInit => IInv /\ JournalInv
  BY InitInv, JournalInit DEF WorkInit
<1>2. IInv /\ JournalInv /\ [WorkNext]_workVars => IInv' /\ JournalInv'
  BY WorkStep, NextInv, JournalStep
<1>3. IInv /\ JournalInv => JournalKeepsTail
  BY JournalKept
<1>q. QED
  BY <1>1, <1>2, <1>3, PTL DEF WorkSpec
=============================================================================
