------------------------------ MODULE Workflow ------------------------------
(***************************************************************************)
(* The recorder of a live verification: the subscriber of the event stream *)
(* that appends every event but process output to the journal              *)
(* events.jsonl, which outlives the run, rotates it when it would grow     *)
(* beyond maxEventsBytes, and rewrites current.md.  It works while the     *)
(* stream holds its lock, between the step of EventStream that hands it an *)
(* event and the one that gives the lock back.                             *)
(*                                                                         *)
(* Abstractions.  A line has LineBytes bytes, the last of them its newline; *)
(* a byte is the number of its event, not above zero for those of earlier  *)
(* runs, and its place in the line.  A write that fails may have left the  *)
(* first bytes of its line, to which the next line is then glued; a        *)
(* replacement is a rename, all at once.  current.md is the last event.    *)
(*                                                                         *)
(* Bound.  At most MaxFaults calls fail.                                   *)
(***************************************************************************)
EXTENDS EventStream, Integers, FiniteSets, SequencesExt

CONSTANTS
    Journals,       \* journals that earlier runs have left
    LineBytes,
    MaxEvents,      \* maxEventsBytes
    Retained,       \* retainedEventsBytes
    MaxFaults

ASSUME JournalAssumption ==
    /\ LineBytes \in Nat \ {0} /\ Retained \in Nat /\ MaxEvents \in Nat
    /\ Retained + LineBytes <= MaxEvents
    /\ Journals \subseteq Seq([event : {n \in Int : n <= 0}, at : 1..LineBytes])
    /\ MaxFaults \in Nat

VARIABLES
    place,      \* the recorder: new, ready, rotate, close, replace, reopen, write, show, closed, none
    journal,    \* the bytes of events.jsonl
    handle,     \* whether the recorder's file is open
    size,       \* eventBytes
    current,    \* current.md
    faults,
    prior,      \* history: the journal with which the recorder began
    appended    \* history: the bytes that it has written

journalVars == <<place, journal, handle, size, current, faults, prior, appended>>
workVars == <<vars, journalVars>>

WorkInit ==
    /\ Init
    /\ place = "new"
    /\ journal \in Journals
    /\ handle = FALSE
    /\ size = 0
    /\ current = None
    /\ faults = 0
    /\ prior = journal /\ appended = <<>>

Fault == faults < MaxFaults /\ faults' = faults + 1

Line(n) == [i \in 1..LineBytes |-> [event |-> n, at |-> i]]

IsNewline(byte) == byte.at = LineBytes

\* How much a cut takes away: up to the first newline that is not more than
\* Retained bytes from the end, or to that place when no newline follows.
Dropped(bytes) ==
    LET cut == Len(bytes) - Retained
        newlines == {i \in DOMAIN bytes : i > cut /\ IsNewline(bytes[i])}
    IN  IF cut <= 0 THEN 0 ELSE IF newlines = {} THEN cut ELSE Min(newlines)

\* Mutant of Tailed: the oldest bytes are kept.
TailedHead(bytes) == SubSeq(bytes, 1, Len(bytes) - Dropped(bytes))

Tailed(bytes) == SubSeq(bytes, Dropped(bytes) + 1, Len(bytes))

-----------------------------------------------------------------------------
(* New, before the stream has a first event: boundEvents, then the file is *)
(* opened.  Without a recorder the verification goes on.                   *)

BoundEvents == IF Len(journal) > MaxEvents THEN Tailed(journal) ELSE journal

Open ==
    /\ place = "new"
    /\ \/ /\ journal' = BoundEvents
          /\ prior' = journal' /\ size' = Len(journal')
          /\ handle' = TRUE /\ place' = "ready"
          /\ UNCHANGED faults
       \/ /\ Fault /\ place' = "none"
          /\ journal' \in {journal, BoundEvents}
          /\ UNCHANGED <<handle, size, prior>>
    /\ UNCHANGED <<vars, current, appended>>

-----------------------------------------------------------------------------
(* Recorder.Publish of an event that is not output.                        *)

Recording == step = "record" /\ ~sending.output

Goes(from, to) == place = from /\ place' = to /\ UNCHANGED <<vars, prior>>

Receive ==
    /\ Recording
    /\ Goes("ready", IF size + LineBytes > MaxEvents THEN "rotate" ELSE "write")
    /\ UNCHANGED <<journal, handle, size, current, faults, appended>>

\* rotateLocked, whose error Publish ignores.  A file that has been closed
\* cannot be closed again.
ReadJournal ==
    /\ \/ Goes("rotate", "close") /\ UNCHANGED faults
       \/ Goes("rotate", "write") /\ Fault
    /\ UNCHANGED <<journal, handle, size, current, appended>>

CloseJournal ==
    /\ \/ handle /\ Goes("close", "replace") /\ UNCHANGED faults
       \/ handle /\ Goes("close", "write") /\ Fault
       \/ ~handle /\ Goes("close", "write") /\ UNCHANGED faults
    /\ handle' = FALSE
    /\ UNCHANGED <<journal, size, current, appended>>

\* writeAtomic; when it fails the old journal is opened again.
Replace ==
    /\ \/ /\ Goes("replace", "reopen")
          /\ journal' = Tailed(journal)
          /\ UNCHANGED <<handle, size, faults>>
       \/ /\ Goes("replace", "write") /\ Fault
          /\ handle' = TRUE /\ size' = Len(journal)
          /\ UNCHANGED journal
       \/ /\ Goes("replace", "write") /\ faults + 1 < MaxFaults /\ faults' = faults + 2
          /\ UNCHANGED <<journal, handle, size>>
    /\ UNCHANGED <<current, appended>>

Reopen ==
    /\ \/ Goes("reopen", "write") /\ handle' = TRUE /\ size' = Len(journal) /\ UNCHANGED faults
       \/ Goes("reopen", "write") /\ Fault /\ UNCHANGED <<handle, size>>
    /\ UNCHANGED <<journal, current, appended>>

Written(bytes) == journal' = journal \o bytes /\ appended' = appended \o bytes

\* The size is that of what was written without an error.
Write ==
    /\ Goes("write", "show")
    /\ LET line == Line(sending.sequence)
       IN  \/ handle /\ Written(line) /\ size' = size + LineBytes /\ UNCHANGED faults
           \/ /\ handle /\ Fault
              /\ \E n \in 0..(LineBytes - 1) : Written(SubSeq(line, 1, n))
              /\ UNCHANGED size
           \/ ~handle /\ UNCHANGED <<journal, appended, size, faults>>
    /\ UNCHANGED <<handle, current>>

\* writeCurrent, the last thing that Publish does.
ShowCurrent ==
    /\ place = "show" /\ place' = "ready"
    /\ \/ current' = sending.sequence /\ UNCHANGED faults
       \/ Fault /\ UNCHANGED current
    /\ Record
    /\ UNCHANGED <<journal, handle, size, prior, appended>>

\* Output, and a verification without a recorder.
Pass ==
    /\ place = "none" \/ (place = "ready" /\ ~Recording)
    /\ Record
    /\ UNCHANGED journalVars

\* Recorder.Close, after the sink's.
CloseRecorder ==
    /\ closing = "done" /\ place = "ready" /\ place' = "closed" /\ handle' = FALSE
    /\ UNCHANGED <<vars, journal, size, current, faults, prior, appended>>

-----------------------------------------------------------------------------
Recorder == Receive \/ ReadJournal \/ CloseJournal \/ Replace \/ Reopen \/ Write \/ ShowCurrent \/ Pass

\* The rest of the stream, which starts when New has returned.
Streaming ==
    /\ place # "new"
    /\ (\E o \in BOOLEAN : Assign(o)) \/ Enqueue \/ Signal \/ Consume \/ Show \/ Close
    /\ UNCHANGED journalVars

WorkClosed == Closed /\ place # "ready" /\ UNCHANGED journalVars

WorkNext == Open \/ Recorder \/ Streaming \/ CloseRecorder \/ WorkClosed

\* A goroutine that has the lock goes on, the recorder's calls in it included,
\* and so do the consumer and Close; nothing is assumed of the terminal.
WorkSpec ==
    /\ WorkInit /\ [][WorkNext]_workVars
    /\ WF_workVars(Open)
    /\ WF_workVars((Enqueue \/ Signal) /\ UNCHANGED journalVars)
    /\ WF_workVars(Recorder)
    /\ WF_workVars(Consume /\ UNCHANGED journalVars)
    /\ WF_workVars(Close /\ UNCHANGED journalVars)

-----------------------------------------------------------------------------
(* Properties.                                                             *)

All == prior \o appended

\* The bytes end within a line.
Torn(bytes) == bytes # <<>> /\ ~IsNewline(Last(bytes))

\* An event has a line of its own, whole.
Readable(n, bytes) ==
    \E i \in DOMAIN bytes :
        /\ i = 1 \/ IsNewline(bytes[i - 1])
        /\ \A j \in 1..LineBytes : i + j - 1 \in DOMAIN bytes /\ bytes[i + j - 1] = Line(n)[j]

Unread == {i \in DOMAIN told : ~Readable(told[i].sequence, All)}

Before(b, c) == b.event < c.event \/ (b.event = c.event /\ b.at < c.at)

\* Whatever fails, the journal is the end of what was written, with that of
\* earlier runs first, no shorter than a cut leaves it, and the events are in it
\* in the order of their numbers, none twice.  A call that fails costs two events
\* at most, its own and the one whose line is glued to what it left, and a line
\* that an earlier run left unfinished costs one, as long as the recorder has its
\* file.  When nothing fails, the journal keeps to its size and current.md says
\* the last event that the terminal was told of.
JournalKeepsTail ==
    place \notin {"new", "none"} =>
        /\ IsSuffix(journal, All) /\ IsSuffix(Tailed(All), journal)
        /\ \A i, j \in DOMAIN appended : i < j => Before(appended[i], appended[j])
        /\ handle /\ step = "idle" =>
              Cardinality(Unread) <= 2 * faults + (IF Torn(prior) THEN 1 ELSE 0)
        /\ faults = 0 =>
              /\ Len(journal) <= MaxEvents
              /\ step = "idle" /\ told # <<>> => current = Last(told).sequence
=============================================================================
