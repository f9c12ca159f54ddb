----------------------------- MODULE EventStream -----------------------------
(***************************************************************************)
(* Package events: the stream that numbers the events of a verification    *)
(* and delivers them under one lock, the asynchronous sink between it and  *)
(* a terminal that may be slow, and the closing of that sink.              *)
(*                                                                         *)
(* Abstractions.  The goroutines that wait for the stream's lock are all   *)
(* those that may publish next: only the one that holds it has a state.    *)
(* An event is its sequence number and whether it is process output.  A    *)
(* critical section of the sink's own lock, which never blocks, is a step. *)
(* The sink is closed when the verification that publishes has returned.   *)
(***************************************************************************)
EXTENDS Naturals, Sequences

CONSTANTS
    MaxOutput,      \* maxOutput, the sink's buffer for process output
    MaxSequence,    \* bound: how many events a run publishes
    None

ASSUME MaxOutputAssumption == MaxOutput \in Nat \ {0}
ASSUME MaxSequenceAssumption == MaxSequence \in Nat

Event == [sequence : Nat \ {0}, output : BOOLEAN]

ASSUME NoneAssumption == None \notin Event

VARIABLES
    sequence,   \* Stream.sequence
    step,       \* Stream.Publish: idle, render, signal, record
    sending,    \* the event that is being delivered
    lifecycle,  \* AsyncSink's queues
    output,
    wake,       \* the channel of capacity one
    closed,
    consumer,   \* the sink's goroutine: look, show, wait, ended
    inHand,     \* the event that it shows
    closing,    \* the caller of Close: open, signal, join, done
    told,       \* history: the lifecycle events given to the sink
    shown,      \* history: those that the terminal has shown
    recorded    \* history: every event given to the recorder

vars == <<sequence, step, sending, lifecycle, output, wake, closed, consumer,
          inHand, closing, told, shown, recorded>>

Init ==
    /\ sequence = 0
    /\ step = "idle"
    /\ sending = None
    /\ lifecycle = <<>>
    /\ output = <<>>
    /\ wake = FALSE
    /\ closed = FALSE
    /\ consumer = "look"
    /\ inHand = None
    /\ closing = "open"
    /\ told = <<>>
    /\ shown = <<>>
    /\ recorded = <<>>

-----------------------------------------------------------------------------
(* Stream.Publish, whose subscribers are the sink and the recorder.        *)

\* Mutant of Assign: a publisher has its number before the lock, and the second
\* of two is first to get it.
AssignUnlocked(o) ==
    /\ step = "idle" /\ closing = "open" /\ sequence < MaxSequence
    /\ sequence' = sequence + 1
    /\ sending' = [sequence |-> IF sequence % 2 = 0 THEN sequence + 2 ELSE sequence, output |-> o]
    /\ step' = "render"
    /\ UNCHANGED <<lifecycle, output, wake, closed, consumer, inHand, closing,
                   told, shown, recorded>>

Assign(o) ==
    /\ step = "idle" /\ closing = "open" /\ sequence < MaxSequence
    /\ sequence' = sequence + 1
    /\ sending' = [sequence |-> sequence + 1, output |-> o]
    /\ step' = "render"
    /\ UNCHANGED <<lifecycle, output, wake, closed, consumer, inHand, closing,
                   told, shown, recorded>>

\* Mutant of Enqueue: the bound on output holds for every event.
EnqueueBounded ==
    /\ step = "render"
    /\ IF Len(lifecycle) + Len(output) >= MaxOutput
       THEN step' = "record" /\ UNCHANGED <<lifecycle, output>>
       ELSE /\ step' = "signal"
            /\ IF sending.output
               THEN output' = Append(output, sending) /\ UNCHANGED lifecycle
               ELSE lifecycle' = Append(lifecycle, sending) /\ UNCHANGED output
    /\ told' = IF sending.output THEN told ELSE Append(told, sending)
    /\ UNCHANGED <<sequence, sending, wake, closed, consumer, inHand, closing, shown, recorded>>

\* Mutant of Enqueue: output waits for room in its buffer.
EnqueueWaits ==
    /\ step = "render" /\ step' = "signal"
    /\ IF sending.output
       THEN /\ Len(output) < MaxOutput /\ output' = Append(output, sending)
            /\ UNCHANGED <<lifecycle, told>>
       ELSE /\ lifecycle' = Append(lifecycle, sending) /\ told' = Append(told, sending)
            /\ UNCHANGED output
    /\ UNCHANGED <<sequence, sending, wake, closed, consumer, inHand, closing, shown, recorded>>

\* AsyncSink.Publish: output is dropped when its buffer is full.
Enqueue ==
    /\ step = "render"
    /\ \/ /\ sending.output /\ Len(output) >= MaxOutput
          /\ step' = "record"
          /\ UNCHANGED <<lifecycle, output, told>>
       \/ /\ sending.output /\ Len(output) < MaxOutput
          /\ output' = Append(output, sending)
          /\ step' = "signal"
          /\ UNCHANGED <<lifecycle, told>>
       \/ /\ ~sending.output
          /\ lifecycle' = Append(lifecycle, sending)
          /\ told' = Append(told, sending)
          /\ step' = "signal"
          /\ UNCHANGED output
    /\ UNCHANGED <<sequence, sending, wake, closed, consumer, inHand, closing, shown, recorded>>

Signal ==
    /\ step = "signal" /\ step' = "record"
    /\ wake' = TRUE
    /\ UNCHANGED <<sequence, sending, lifecycle, output, closed, consumer, inHand,
                   closing, told, shown, recorded>>

\* The recorder is called in turn, and the stream's lock is given back.
Record ==
    /\ step = "record" /\ step' = "idle"
    /\ recorded' = Append(recorded, sending)
    /\ sending' = None
    /\ UNCHANGED <<sequence, lifecycle, output, wake, closed, consumer, inHand,
                   closing, told, shown>>

-----------------------------------------------------------------------------
(* The sink's goroutine.                                                   *)

Take(queue) == inHand' = Head(queue) /\ consumer' = "show"

\* Mutant of Look: a closed sink does not look at what is queued.
LookClosedFirst ==
    /\ consumer = "look"
    /\ IF closed THEN consumer' = "ended" /\ UNCHANGED <<lifecycle, output, inHand>>
       ELSE IF lifecycle # <<>>
       THEN Take(lifecycle) /\ lifecycle' = Tail(lifecycle) /\ UNCHANGED output
       ELSE IF output # <<>>
       THEN Take(output) /\ output' = Tail(output) /\ UNCHANGED lifecycle
       ELSE consumer' = "wait" /\ UNCHANGED <<lifecycle, output, inHand>>
    /\ UNCHANGED <<sequence, step, sending, wake, closed, closing, told, shown, recorded>>

Look ==
    /\ consumer = "look"
    /\ \/ /\ lifecycle # <<>>
          /\ Take(lifecycle) /\ lifecycle' = Tail(lifecycle)
          /\ UNCHANGED output
       \/ /\ lifecycle = <<>> /\ output # <<>>
          /\ Take(output) /\ output' = Tail(output)
          /\ UNCHANGED lifecycle
       \/ /\ lifecycle = <<>> /\ output = <<>>
          /\ consumer' = IF closed THEN "ended" ELSE "wait"
          /\ UNCHANGED <<lifecycle, output, inHand>>
    /\ UNCHANGED <<sequence, step, sending, wake, closed, closing, told, shown, recorded>>

\* Mutant of Show: output is given to the terminal over and over.
ShowRetry ==
    /\ consumer = "show"
    /\ consumer' = "look" /\ inHand' = None
    /\ IF inHand.output THEN lifecycle' = <<inHand>> \o lifecycle /\ UNCHANGED shown
       ELSE shown' = Append(shown, inHand) /\ UNCHANGED lifecycle
    /\ UNCHANGED <<sequence, step, sending, output, wake, closed, closing,
                   told, recorded>>

\* The terminal takes the event, when it does.
Show ==
    /\ consumer = "show" /\ consumer' = "look"
    /\ shown' = IF inHand.output THEN shown ELSE Append(shown, inHand)
    /\ inHand' = None
    /\ UNCHANGED <<sequence, step, sending, lifecycle, output, wake, closed, closing,
                   told, recorded>>

Wake ==
    /\ consumer = "wait" /\ wake
    /\ wake' = FALSE /\ consumer' = "look"
    /\ UNCHANGED <<sequence, step, sending, lifecycle, output, closed, inHand, closing,
                   told, shown, recorded>>

-----------------------------------------------------------------------------
(* AsyncSink.Close, after the last event.                                  *)

CloseSink ==
    /\ closing = "open" /\ step = "idle"
    /\ closed' = TRUE /\ closing' = "signal"
    /\ UNCHANGED <<sequence, step, sending, lifecycle, output, wake, consumer, inHand,
                   told, shown, recorded>>

\* Mutant of SignalClose: closed is a flag only.
SignalCloseSilent ==
    /\ closing = "signal" /\ closing' = "join"
    /\ UNCHANGED <<sequence, step, sending, lifecycle, output, wake, closed, consumer,
                   inHand, told, shown, recorded>>

SignalClose ==
    /\ closing = "signal" /\ closing' = "join"
    /\ wake' = TRUE
    /\ UNCHANGED <<sequence, step, sending, lifecycle, output, closed, consumer, inHand,
                   told, shown, recorded>>

Join ==
    /\ closing = "join" /\ consumer = "ended"
    /\ closing' = "done"
    /\ UNCHANGED <<sequence, step, sending, lifecycle, output, wake, closed, consumer,
                   inHand, told, shown, recorded>>

Closed == closing = "done" /\ UNCHANGED vars

-----------------------------------------------------------------------------
Publish == (\E o \in BOOLEAN : Assign(o)) \/ Enqueue \/ Signal \/ Record
Consume == Look \/ Wake
Close == CloseSink \/ SignalClose \/ Join

Next == Publish \/ Consume \/ Show \/ Close \/ Closed

Spec == Init /\ [][Next]_vars

-----------------------------------------------------------------------------
(* Properties.                                                             *)

TypeOK ==
    /\ sequence \in Nat
    /\ step \in {"idle", "render", "signal", "record"}
    /\ sending \in Event \union {None}
    /\ lifecycle \in Seq(Event) /\ output \in Seq(Event)
    /\ wake \in BOOLEAN /\ closed \in BOOLEAN
    /\ consumer \in {"look", "show", "wait", "ended"}
    /\ inHand \in Event \union {None}
    /\ closing \in {"open", "signal", "join", "done"}
    /\ told \in Seq(Event) /\ shown \in Seq(Event) /\ recorded \in Seq(Event)
    /\ step = "idle" <=> sending = None
    /\ consumer = "show" <=> inHand # None

\* What the consumer has taken and not yet shown.
Held == IF inHand # None /\ ~inHand.output THEN <<inHand>> ELSE <<>>

\* Lifecycle events are never dropped, repeated or reordered on their way to
\* the terminal, however full the output buffer and however slow the terminal.
LifecycleLossless == told = shown \o Held \o lifecycle

\* Only output is bounded.
OutputBounded == Len(output) <= MaxOutput

\* The consumer never sleeps on something to do: who left it there wakes it.
NoLostWakeup ==
    consumer = "wait" /\ (lifecycle # <<>> \/ output # <<>> \/ closed) =>
        wake \/ step = "signal" \/ closing = "signal"

\* Close returns after the last event has been shown, and nothing comes later.
CloseDrains ==
    consumer = "ended" => closed /\ step = "idle" /\ shown = told /\ output = <<>>

\* The recorder's order is the sequence, without a gap.
RecordedInSequence ==
    /\ \A i \in DOMAIN recorded : recorded[i].sequence = i
    /\ Len(recorded) = IF step = "idle" THEN sequence ELSE sequence - 1

\* A terminal that never takes an event again does not hold up the publisher.
PublishCompletes == step # "idle" ~> step = "idle"

\* Close returns, if the terminal takes every event that it is given.
CloseReturns ==
    (consumer = "show" ~> consumer # "show") => (closing # "open" ~> closing = "done")
=============================================================================
