----------------------------- MODULE FixRecords -----------------------------
(***************************************************************************)
(* Package fixrecord: `fixes record' closes a diagnosed fix against the    *)
(* evidence of a run before and a run after it, and leaves one file that   *)
(* is never changed again; `fixes list' reads them all.                    *)
(*                                                                         *)
(* Nothing orders the invocations.  Each audits the whole store, where one *)
(* file that is not a valid record stops everybody; reads the two reports; *)
(* compares the tree with the second; looks up the records it refers to;   *)
(* and creates its file with O_EXCL, to write, sync and close it and to    *)
(* remove it when one of these fails.                                      *)
(*                                                                         *)
(* Abstractions.  Of a candidate's texts it is kept whether they are all   *)
(* valid, and of its patch artifact whether there is one that matches.     *)
(* The files of a listing are read at one instant, and so are the two      *)
(* reports, and the records referred to.  `fixes show' changes nothing and *)
(* reads as List does.  Nobody but devctl writes in .devctl.               *)
(*                                                                         *)
(* Bounds.  MaxRecords stands for 2,000 records; MaxFaults, of Evidence,   *)
(* bounds the failures after a file was created and the deaths as well.    *)
(***************************************************************************)
EXTENDS Evidence

CONSTANTS
    IDs,            \* Fix Record identifiers
    Calls,          \* invocations of `fixes record' and `fixes list'
    Candidates,     \* what `fixes record' is given
    MaxRecords,     \* maxRecords
    Partial         \* a file that has no bytes yet, or not all of them

Candidate == [id : IDs, project : Names, pre : Runs, post : Runs,
              checks : SUBSET (Checks \union {Core}), patch : {"none", "matches", "differs"},
              related : SUBSET IDs, supersedes : SUBSET IDs, sound : BOOLEAN]

\* What a record keeps: its runs, their reports by hash, and how each check went.
FixRecord == [id : IDs, project : Names, pre : Runs, post : Runs,
              preReport : Report, postReport : Report,
              before : UNION {[S -> Status] : S \in SUBSET (Checks \union {Core})},
              after : UNION {[S -> Status] : S \in SUBSET (Checks \union {Core})},
              refers : SUBSET IDs]

ASSUME CandidatesAssumption == Candidates \subseteq Candidate
ASSUME LimitAssumption == MaxRecords \in Nat
ASSUME NoFileAssumption == Partial # None /\ None \notin Candidates /\ {None, Partial} \intersect FixRecord = {}

VARIABLES
    records,    \* the file of each ID, or None
    call,       \* where each invocation is
    given,      \* its candidate; None for `fixes list'
    listed,     \* the names that it found in the store
    made        \* the record that it has derived

fixVars == <<records, call, given, listed, made>>
vars == <<evidenceVars, fixVars>>

Init ==
    /\ EvidenceInit
    /\ records = [i \in IDs |-> None]
    /\ call = [p \in Calls |-> "idle"]
    /\ given = [p \in Calls |-> None]
    /\ listed = [p \in Calls |-> {}]
    /\ made = [p \in Calls |-> None]

Files == {i \in IDs : records[i] # None}

-----------------------------------------------------------------------------
(* What is accepted.                                                       *)

\* validateCandidate
ValidCandidate(c) ==
    /\ c.sound
    /\ c.pre # c.post
    /\ c.checks # {}
    /\ c.id \notin c.related
    /\ c.id \notin c.supersedes

\* validateClosureReport
Eligible(report) ==
    /\ report.project # None
    /\ report.started <= report.finished
    /\ report.fingerprint # None
    /\ report.overall = Overall(report.entries)

\* validateClosureReports, up to the checks that the fix is about.
Closes(c, pre, post) ==
    /\ Eligible(pre) /\ Eligible(post)
    /\ pre.project = post.project /\ c.project = pre.project
    /\ pre.finished <= post.started /\ pre.finished < post.finished
    /\ ExitCode(post) = 0

Settled(s) == s \in {"PASS", "SKIP", "NOT_APPLICABLE"}

\* deriveTransitions: every check was unresolved and passes now.
Transitions(c, pre, post) ==
    \A k \in c.checks :
        /\ k \in DOMAIN pre.entries /\ k \in DOMAIN post.entries
        /\ ~Settled(pre.entries[k].status)
        /\ post.entries[k].status = "PASS"

\* What closeCandidate derives from a candidate and its reports.
Derived(c, pre, post) ==
    [id |-> c.id, project |-> c.project, pre |-> c.pre, post |-> c.post,
     preReport |-> pre, postReport |-> post,
     before |-> [k \in c.checks |-> pre.entries[k].status],
     after |-> [k \in c.checks |-> post.entries[k].status],
     refers |-> c.related \union c.supersedes]

\* validateStoredRecord: what is read again from a record itself.
ValidRecord(record) ==
    /\ record.pre # record.post
    /\ record.id \notin record.refers
    /\ DOMAIN record.before # {} /\ DOMAIN record.after = DOMAIN record.before
    /\ \A k \in DOMAIN record.before :
          ~Settled(record.before[k]) /\ record.after[k] = "PASS"
    /\ \A report \in {record.preReport, record.postReport} :
          report.started <= report.finished /\ report.fingerprint # None
    /\ record.preReport.finished <= record.postReport.started
    /\ record.preReport.finished < record.postReport.finished

\* readRecord succeeds.
Readable(i) == records[i] \notin {None, Partial} /\ ValidRecord(records[i])

-----------------------------------------------------------------------------
(* An invocation.                                                          *)

Goto(p, l) == call' = [call EXCEPT ![p] = l]

\* The invocation answers with a listing or an error, or was killed: what it
\* knew is gone, and the next one begins.
Over(p) ==
    /\ Goto(p, "idle")
    /\ given' = [given EXCEPT ![p] = None]
    /\ listed' = [listed EXCEPT ![p] = {}]
    /\ made' = [made EXCEPT ![p] = None]

\* ReadCandidateFile and validateCandidate.
Record(p) ==
    /\ call[p] = "idle" /\ Goto(p, "scan")
    /\ \E c \in Candidates :
          ValidCandidate(c) /\ given' = [given EXCEPT ![p] = c]
    /\ UNCHANGED <<records, listed, made, evidenceVars>>

\* List has nothing to validate.
List(p) ==
    /\ call[p] = "idle" /\ Goto(p, "scan")
    /\ UNCHANGED <<records, given, listed, made, evidenceVars>>

\* auditRecordStore: the names, when they are not too many.
Scan(p) ==
    /\ call[p] = "scan"
    /\ IF Cardinality(Files) > MaxRecords THEN Over(p)
       ELSE /\ Goto(p, "audit")
            /\ listed' = [listed EXCEPT ![p] = Files]
            /\ UNCHANGED <<given, made>>
    /\ UNCHANGED <<records, evidenceVars>>

\* auditRecordStore: every file is a valid record.  A new one needs room and an
\* ID that was not listed; a listing is done.
Room(p) ==
    /\ \A i \in listed[p] : Readable(i)
    /\ given[p] # None
    /\ Cardinality(listed[p]) < MaxRecords /\ given[p].id \notin listed[p]

Audit(p) ==
    /\ call[p] = "audit"
    /\ IF ~Room(p) THEN Over(p)
       ELSE /\ Goto(p, "reports")
            /\ listed' = [listed EXCEPT ![p] = {}]
            /\ UNCHANGED <<given, made>>
    /\ UNCHANGED <<records, evidenceVars>>

\* ReadRun of both runs, validateClosureReports and deriveTransitions.
ReadReports(p) ==
    /\ call[p] = "reports"
    /\ LET c == given[p]
           pre == reports[c.pre]
           post == reports[c.post]
       IN IF /\ pre # None /\ post # None
             /\ Closes(c, pre, post) /\ Transitions(c, pre, post)
          THEN /\ Goto(p, "compare")
               /\ made' = [made EXCEPT ![p] = Derived(c, pre, post)]
               /\ UNCHANGED <<given, listed>>
          ELSE Over(p)
    /\ UNCHANGED <<records, evidenceVars>>

\* The fingerprint of the tree now, which may fail, is the one of the report.
CompareTree(p) ==
    /\ call[p] = "compare"
    /\ \/ /\ made[p].postReport.fingerprint = Fingerprint(tree)
          /\ Goto(p, "refer")
          /\ UNCHANGED <<given, listed, made>>
       \/ Over(p)
    /\ UNCHANGED <<records, evidenceVars>>

\* Mutant of Grounded: the records referred to need not be there.
GroundedAnyway(p) ==
    given[p].patch # "differs" /\ ValidRecord(made[p])

\* validatePatchArtifact, Show of the records referred to, the record's time,
\* and validateStoredRecord.
Grounded(p) ==
    /\ given[p].patch # "differs"
    /\ \A i \in made[p].refers : Readable(i)
    /\ made[p].postReport.finished <= clock
    /\ ValidRecord(made[p])

Refer(p) ==
    /\ call[p] = "refer"
    /\ IF Grounded(p) THEN Goto(p, "create") /\ UNCHANGED <<given, listed, made>>
       ELSE Over(p)
    /\ UNCHANGED <<records, evidenceVars>>

\* Mutant of Create: os.Create instead of O_EXCL.
CreateOver(p) ==
    /\ call[p] = "create"
    /\ \/ /\ records' = [records EXCEPT ![made[p].id] = Partial]
          /\ Goto(p, "write")
          /\ UNCHANGED <<given, listed, made>>
       \/ Over(p) /\ UNCHANGED records
    /\ UNCHANGED evidenceVars

\* os.OpenFile with O_EXCL, which may also fail.
Create(p) ==
    /\ call[p] = "create"
    /\ \/ /\ records[made[p].id] = None
          /\ records' = [records EXCEPT ![made[p].id] = Partial]
          /\ Goto(p, "write")
          /\ UNCHANGED <<given, listed, made>>
       \/ Over(p) /\ UNCHANGED records
    /\ UNCHANGED evidenceVars

\* The file gets its bytes, or an error is met.
Write(p) ==
    /\ call[p] = "write"
    /\ \/ /\ records' = [records EXCEPT ![made[p].id] = made[p]]
          /\ Goto(p, "sync") /\ UNCHANGED faults
       \/ Goto(p, "remove") /\ Fault /\ UNCHANGED records
    /\ UNCHANGED <<tree, edits, runVars, readVars, given, listed, made>>

\* Sync and Close: the record is returned, or an error is met.
Sync(p) ==
    /\ call[p] = "sync"
    /\ \/ Goto(p, "recorded") /\ UNCHANGED faults
       \/ Goto(p, "remove") /\ Fault
    /\ UNCHANGED <<tree, edits, runVars, readVars, records, given, listed, made>>

\* The deferred os.Remove, whose error nobody sees.
Remove(p) ==
    /\ call[p] = "remove" /\ Over(p)
    /\ \/ records' = [records EXCEPT ![made[p].id] = None] /\ UNCHANGED faults
       \/ Fault /\ UNCHANGED records
    /\ UNCHANGED <<tree, edits, runVars, readVars>>

\* The invocation is killed, and leaves its file as it is.
Die(p) ==
    /\ call[p] \notin {"idle", "recorded"} /\ Over(p) /\ Fault
    /\ UNCHANGED <<tree, edits, runVars, readVars, records>>

Invoked(p) ==
    \/ Record(p) \/ List(p) \/ Scan(p) \/ Audit(p) \/ ReadReports(p) \/ CompareTree(p)
    \/ Refer(p) \/ Create(p) \/ Write(p) \/ Sync(p) \/ Remove(p) \/ Die(p)

Next ==
    \/ EvidenceNext /\ UNCHANGED fixVars
    \/ \E p \in Calls : Invoked(p)

Spec == Init /\ [][Next]_vars

-----------------------------------------------------------------------------
(* Properties.                                                             *)

TypeOK ==
    /\ EvidenceTypeOK
    /\ records \in [IDs -> FixRecord \union {None, Partial}]
    /\ call \in [Calls -> {"idle", "scan", "audit", "reports", "compare", "refer",
                          "create", "write", "sync", "remove", "recorded"}]
    /\ given \in [Calls -> Candidates \union {None}]
    /\ listed \in [Calls -> SUBSET IDs]
    /\ made \in [Calls -> FixRecord \union {None}]

Whole == {i \in IDs : records[i] \notin {None, Partial}}

\* Both runs of a record have complete evidence and the very reports it was
\* derived from, and these close it.
Trusted(record) ==
    LET pre == reports[record.pre]
        post == reports[record.post]
    IN  /\ Complete(record.pre) /\ Complete(record.post)
        /\ pre = record.preReport /\ post = record.postReport
        /\ pre.project = record.project /\ post.project = record.project
        /\ pre.finished <= post.started
        /\ ExitCode(post) = 0
        /\ \A k \in DOMAIN record.after :
              ~Settled(pre.entries[k].status) /\ post.entries[k].status = "PASS"

\* Fix closure rule v1, over what is on disk and not over what an invocation
\* remembers (closeCandidate, closure.go:21, and store.go:86-112): as long as a
\* record exists, both runs it names have complete evidence and the very reports
\* it was derived from; the second run began after the first was over, was of the
\* same project and has nothing that blocks; and every check the fix is about was
\* unresolved in the first and passes in the second.
TrustedClosure == \A i \in Whole : Trusted(records[i])

\* A record that an invocation has returned is the file of its name, and stays it
\* (Create, store.go:86-112), whatever other invocations create, fail to write
\* and remove, also under the same name.
RecordedLasts ==
    \A p \in Calls : call[p] = "recorded" => records[made[p].id] = made[p]

\* As long as nothing fails and nobody is killed, the records that a record
\* relates to or supersedes are there (closeCandidate, closure.go:48-57), also
\* when they were still being created as it was: the history has no holes.
ReferencesHold ==
    faults = 0 => \A i \in Whole : records[i].refers \subseteq Whole
=============================================================================
