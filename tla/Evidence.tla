------------------------------ MODULE Evidence ------------------------------
(***************************************************************************)
(* The evidence of a project's verifications and those who read it: a run  *)
(* looks at the working tree check by check, takes the fingerprint of the  *)
(* tree when the checks are done, writes the files of its directory with   *)
(* report.json last, and notes itself in the saved session; `evidence      *)
(* rebuild', `history' and `context' read all reports into an index.       *)
(*                                                                         *)
(* The tree is edited all the time, and a run may be killed anywhere.      *)
(* Several runs may overlap: registry.Begin may fail for a reason that     *)
(* does not stop the verification (main.go:272-279).                       *)
(*                                                                         *)
(* Abstractions.  A file's content is a member of Sources, if the          *)
(* fingerprint covers it, or of Ignored; a hash is what it is the hash of, *)
(* and a fingerprint is taken at one instant.  Contents of a run's files   *)
(* other than report.json are left out, as nothing here reads them.  What  *)
(* adapters, policy and scheduler do with a plan is in Verification and    *)
(* Scheduler: here a check ends with an entry that depends on the tree.    *)
(* A run that ends before its checks has one entry, the worst.             *)
(*                                                                         *)
(* Bounds.  The tree is edited at most MaxEdits times; at most MaxFaults   *)
(* runs end early, calls fail and processes are killed.                    *)
(***************************************************************************)
EXTENDS Naturals, FiniteSets

CONSTANTS
    Runs,       \* verifications, by run ID
    Checks,     \* the checks that adapters offer
    Core,       \* technology-detection, an entry of every report
    Plans,      \* the sets of checks that a policy selects
    Sources,    \* contents of tracked and unignored files
    Ignored,    \* contents of ignored files: build outputs, caches
    Identity,   \* the project identity that a content declares
    Verdict,    \* what a check finds in a tree
    Readers,    \* invocations that rebuild the index
    MaxEdits,   \* bound on edits of the tree
    MaxFaults,  \* bound on failures and deaths
    None

Status == {"PASS", "NOT_APPLICABLE", "SKIP", "WARN", "NOT_TESTED", "INSUFFICIENT_EVIDENCE",
           "REQUIRES_REVIEW", "FAIL", "ERROR"}
Entry == [status : Status, blocking : BOOLEAN]
Tree == [source : Sources, ignored : Ignored]
Names == {Identity[s] : s \in Sources}

\* model.Report.  Times are counted by the clock; `plan' is what the policy chose.
Report == [project : Names \union {None}, started : Nat, finished : Nat,
           plan : SUBSET Checks, entries : UNION {[S -> Entry] : S \in SUBSET (Checks \union {Core})},
           overall : Status, fingerprint : Sources \union {None}]

ASSUME PlansAssumption == Plans \subseteq SUBSET Checks /\ Core \notin Checks
ASSUME VerdictAssumption == Verdict \in [Checks -> [Tree -> Entry]]
ASSUME IdentityAssumption == DOMAIN Identity = Sources
ASSUME NoneAssumption == None \notin Sources \union Names \union Runs \union Report
ASSUME BoundsAssumption == MaxEdits \in Nat /\ MaxFaults \in Nat

\* gitstate.Fingerprint: Git's state and every file that Git does not ignore.
Fingerprint(t) == t.source

-----------------------------------------------------------------------------
(* Packages model and verify: what the entries of a report amount to.      *)

Severity(s) ==
    CASE s = "ERROR" -> 4
      [] s = "FAIL" -> 3
      [] s \in {"NOT_TESTED", "INSUFFICIENT_EVIDENCE", "REQUIRES_REVIEW"} -> 2
      [] s = "WARN" -> 1
      [] OTHER -> 0

\* overall, and computedOverall of package fixrecord.
Overall(entries) ==
    LET bad == {s \in {entries[c].status : c \in DOMAIN entries} : Severity(s) > 0}
    IN  IF bad = {} THEN "PASS"
        ELSE CHOOSE s \in bad : \A t \in bad : Severity(t) <= Severity(s)

ExitCode(report) ==
    CASE report.overall = "ERROR" -> 2
      [] \E c \in DOMAIN report.entries :
            LET e == report.entries[c]
            IN  \/ e.status = "FAIL"
                \/ e.blocking /\ e.status \notin {"PASS", "NOT_APPLICABLE"} -> 1
      [] OTHER -> 0

-----------------------------------------------------------------------------
VARIABLES
    tree,       \* the working tree
    edits,      \* how often it was edited
    faults,     \* how often something failed or was killed
    clock,      \* counts the starts and ends of runs
    at,         \* where each run is
    draft,      \* the report that it is making
    files,      \* what is in its evidence directory, without report.json
    reports,    \* report.json of each directory, or None
    session,    \* session.json: the run last noted and its result
    reader,     \* where each reader is
    todo,       \* the directories that it has yet to read
    rows,       \* the runs in its index
    known,      \* history: the reports that were there when it began, without
                \* those that it then failed to read
    index,      \* index.json: the runs in it
    answer      \* what its reader is told

runVars == <<at, draft, files, reports, session, clock>>
treeVars == <<tree, edits, faults>>
readVars == <<reader, todo, rows, known, index, answer>>
evidenceVars == <<runVars, treeVars, readVars>>

NoReport == [project |-> None, started |-> 0, finished |-> 0, plan |-> {}, entries |-> <<>>,
             overall |-> "PASS", fingerprint |-> None]

EvidenceInit ==
    /\ tree \in Tree /\ edits = 0 /\ faults = 0
    /\ clock = 0
    /\ at = [r \in Runs |-> "idle"]
    /\ draft = [r \in Runs |-> NoReport]
    /\ files = [r \in Runs |-> "nothing"]
    /\ reports = [r \in Runs |-> None]
    /\ session = [run |-> None, result |-> "PASS"]
    /\ reader = [b \in Readers |-> "idle"]
    /\ todo = [b \in Readers |-> {}]
    /\ rows = [b \in Readers |-> {}]
    /\ known = [b \in Readers |-> {}]
    /\ index = {}
    /\ answer = [b \in Readers |-> [latest |-> {}, success |-> {}, current |-> FALSE]]

-----------------------------------------------------------------------------
(* A verification.                                                         *)

Move(r, l) == at' = [at EXCEPT ![r] = l]
Fault == faults < MaxFaults /\ faults' = faults + 1
Forget(r) == draft' = [draft EXCEPT ![r] = NoReport]

\* Whoever works in the tree.
Edit ==
    /\ edits < MaxEdits
    /\ tree' \in Tree \ {tree} /\ edits' = edits + 1
    /\ UNCHANGED <<faults, runVars, readVars>>

\* A report that begins now, with the entry of detection.
Begun(name, s, blocking) ==
    [NoReport EXCEPT !.project = name, !.started = clock + 1,
                     !.entries = [c \in {Core} |-> [status |-> s, blocking |-> blocking]]]

\* Detection and policy succeed, and the plan is known.
Start(r) ==
    /\ at[r] = "idle" /\ Move(r, "checks")
    /\ clock' = clock + 1
    /\ \E plan \in Plans :
          draft' = [draft EXCEPT ![r] =
              [Begun(Identity[tree.source], "PASS", FALSE) EXCEPT !.plan = plan]]
    /\ UNCHANGED <<treeVars, files, reports, session, readVars>>

\* An error on the way to the plan, where the project may not even have been
\* recognised, or no technology that any adapter supports.
EndEarly(r) ==
    /\ at[r] = "idle" /\ Move(r, "save") /\ Fault
    /\ clock' = clock + 1
    /\ LET project == Identity[tree.source]
           Ended(report, s) == [report EXCEPT !.finished = clock + 1, !.overall = s]
       IN  \E d \in {Ended(Begun(project, "ERROR", FALSE), "ERROR"),
                     Ended(Begun(None, "ERROR", FALSE), "ERROR"),
                     Ended(Begun(project, "INSUFFICIENT_EVIDENCE", TRUE), "INSUFFICIENT_EVIDENCE")} :
              draft' = [draft EXCEPT ![r] = d]
    /\ UNCHANGED <<tree, edits, files, reports, session, readVars>>

\* The function f, and v at c.
With(f, c, v) == [d \in DOMAIN f \union {c} |-> IF d = c THEN v ELSE f[d]]

\* A check of the plan looks at the tree.
Look(r, c) ==
    /\ at[r] = "checks"
    /\ c \in draft[r].plan \ DOMAIN draft[r].entries
    /\ draft' = [draft EXCEPT ![r].entries = With(draft[r].entries, c, Verdict[c][tree])]
    /\ UNCHANGED <<at, files, reports, session, clock, treeVars, readVars>>

\* All checks are done: the fingerprint, which may fail, and the result.
Seal(r) ==
    /\ at[r] = "checks" /\ draft[r].plan \subseteq DOMAIN draft[r].entries
    /\ clock' = clock + 1
    /\ \E f \in {Fingerprint(tree), None} :
          /\ IF f = None THEN Fault ELSE UNCHANGED faults
          /\ draft' = [draft EXCEPT ![r].fingerprint = f, ![r].finished = clock + 1,
                                    ![r].overall = Overall(draft[r].entries)]
    /\ Move(r, "save")
    /\ UNCHANGED <<tree, edits, files, reports, session, readVars>>

\* evidence.Write, up to the report: its directories, then the summary and the
\* files of every check.
SaveFiles(r) ==
    /\ at[r] = "save" /\ files[r] # "contents"
    /\ files' = [files EXCEPT ![r] = IF @ = "nothing" THEN "directories" ELSE "contents"]
    /\ UNCHANGED <<at, draft, reports, session, clock, treeVars, readVars>>

\* writeJSONAtomic: report.json appears as a whole, when all else is written.
SaveReport(r) ==
    /\ at[r] = "save" /\ files[r] = "contents"
    /\ reports' = [reports EXCEPT ![r] = draft[r]]
    /\ Move(r, "note")
    /\ UNCHANGED <<draft, files, session, clock, treeVars, readVars>>

\* Mutant of SaveFails: the run's result stays what its checks said.
SaveFailsSilently(r) ==
    /\ at[r] = "save" /\ Move(r, "note") /\ Fault
    /\ UNCHANGED <<tree, edits, draft, files, reports, session, clock, readVars>>

\* Mutant of SaveFails: the report is written first, and it is what stays.
SaveFailsAfterReport(r) ==
    /\ at[r] = "save" /\ Move(r, "note") /\ Fault
    /\ reports' = [reports EXCEPT ![r] = draft[r]]
    /\ draft' = [draft EXCEPT ![r].overall = "ERROR"]
    /\ UNCHANGED <<tree, edits, files, session, clock, readVars>>

\* evidence.Write fails: what it wrote stays, and the result is an error.
SaveFails(r) ==
    /\ at[r] = "save" /\ Move(r, "note") /\ Fault
    /\ draft' = [draft EXCEPT ![r].overall = "ERROR"]
    /\ UNCHANGED <<tree, edits, files, reports, session, clock, readVars>>

\* recordVerificationSession, whose failure nobody is told.
Note(r) ==
    /\ at[r] = "note" /\ Move(r, "over")
    /\ \/ /\ draft[r].project # None
          /\ session' = [run |-> r, result |-> draft[r].overall]
          /\ UNCHANGED faults
       \/ draft[r].project = None /\ UNCHANGED <<session, faults>>
       \/ Fault /\ UNCHANGED session
    /\ Forget(r)
    /\ UNCHANGED <<tree, edits, files, reports, clock, readVars>>

Kill(r) ==
    /\ at[r] \in {"checks", "save", "note"} /\ Move(r, "over") /\ Fault
    /\ Forget(r)
    /\ UNCHANGED <<tree, edits, files, reports, session, clock, readVars>>

-----------------------------------------------------------------------------
(* Rebuild.                                                                *)

Step(b, l) == reader' = [reader EXCEPT ![b] = l]

\* os.ReadDir
ScanRuns(b) ==
    /\ reader[b] = "idle" /\ Step(b, "read")
    /\ todo' = [todo EXCEPT ![b] = {r \in Runs : files[r] # "nothing"}]
    /\ known' = [known EXCEPT ![b] = {r \in Runs : reports[r] # None}]
    /\ UNCHANGED <<rows, index, answer, runVars, treeVars>>

\* Mutant of ReadReport: a directory without a report ends the scan.
ReadReportOrStop(b, r) ==
    /\ reader[b] = "read" /\ r \in todo[b]
    /\ todo' = [todo EXCEPT ![b] = IF reports[r] = None THEN {} ELSE @ \ {r}]
    /\ rows' = [rows EXCEPT ![b] = IF reports[r] = None THEN @ ELSE @ \union {r}]
    /\ UNCHANGED <<reader, known, index, answer, runVars, treeVars>>

\* A directory whose report is missing, cannot be read (no permission, too many
\* open files, a bad disk) or holds no report is left out, and nobody is told.
ReadReport(b, r) ==
    /\ reader[b] = "read" /\ r \in todo[b]
    /\ todo' = [todo EXCEPT ![b] = @ \ {r}]
    /\ \/ /\ reports[r] # None
          /\ rows' = [rows EXCEPT ![b] = @ \union {r}] /\ UNCHANGED known
       \/ known' = [known EXCEPT ![b] = @ \ {r}] /\ UNCHANGED rows
    /\ UNCHANGED <<reader, index, answer, runVars, treeVars>>

\* writeIndex: an atomic replacement, or an error that ends the invocation.
WriteIndex(b) ==
    /\ reader[b] = "read" /\ todo[b] = {}
    /\ \/ index' = rows[b] /\ Step(b, "answer")
       \/ Step(b, "failed") /\ UNCHANGED index
    /\ UNCHANGED <<todo, rows, known, answer, runVars, treeVars>>

\* Latest: rows are sorted by the end of the run, the last one first.
Newest(S) == {r \in S : \A q \in S : reports[q].finished <= reports[r].finished}

\* insight.Build: the latest run, the latest one that succeeded, and whether the
\* latest has the fingerprint of the tree, if that can be taken.
Answer(b) ==
    /\ reader[b] = "answer" /\ Step(b, "over")
    /\ \E taken \in BOOLEAN :
          answer' = [answer EXCEPT ![b] =
             [latest |-> Newest(rows[b]),
              success |-> Newest({r \in rows[b] : reports[r].overall \in {"PASS", "WARN"}}),
              current |-> /\ taken
                          /\ \E r \in Newest(rows[b]) :
                                reports[r].fingerprint = Fingerprint(tree)]]
    /\ UNCHANGED <<todo, rows, known, index, runVars, treeVars>>

-----------------------------------------------------------------------------
(* The next-state relation.                                                *)

RunStep(r) ==
    \/ Start(r) \/ EndEarly(r) \/ (\E c \in Checks : Look(r, c)) \/ Seal(r)
    \/ SaveFiles(r) \/ SaveReport(r) \/ SaveFails(r) \/ Note(r) \/ Kill(r)

ReaderStep(b) == ScanRuns(b) \/ (\E r \in Runs : ReadReport(b, r)) \/ WriteIndex(b) \/ Answer(b)

EvidenceNext ==
    \/ Edit
    \/ \E r \in Runs : RunStep(r)
    \/ \E b \in Readers : ReaderStep(b)

EvidenceSpec == EvidenceInit /\ [][EvidenceNext]_evidenceVars

-----------------------------------------------------------------------------
(* Properties.                                                             *)

EvidenceTypeOK ==
    /\ tree \in Tree /\ edits \in Nat /\ faults \in Nat /\ clock \in Nat
    /\ at \in [Runs -> {"idle", "checks", "save", "note", "over"}]
    /\ draft \in [Runs -> Report]
    /\ files \in [Runs -> {"nothing", "directories", "contents"}]
    /\ reports \in [Runs -> Report \union {None}]
    /\ session \in [run : Runs \union {None}, result : Status]
    /\ reader \in [Readers -> {"idle", "read", "answer", "over", "failed"}]
    /\ todo \in [Readers -> SUBSET Runs]
    /\ rows \in [Readers -> SUBSET Runs]
    /\ known \in [Readers -> SUBSET Runs]
    /\ index \subseteq Runs
    /\ answer \in [Readers -> [latest : SUBSET Runs, success : SUBSET Runs, current : BOOLEAN]]

\* A run whose evidence is whole: the report, and every file written before it.
Complete(r) == reports[r] # None /\ files[r] = "contents"

\* The saved session never claims more than the evidence it points at shows
\* (recordVerificationSession, main.go:472, after finalize, verify.go:124):
\* whatever failed or was killed on the way, the result it notes is either an
\* error or the result in the complete evidence of that very run.
SessionHonest ==
    session.run # None =>
        \/ session.result = "ERROR"
        \/ Complete(session.run) /\ reports[session.run].overall = session.result

Passed(r) == reports[r].overall \in {"PASS", "WARN"}

\* An index never lags behind the evidence that was there when it was asked for
\* and that could be read (evidence.Rebuild, index.go:43): beside the directories
\* of runs that are still writing, or died while writing, and of runs whose report
\* failed to be read, no finished run is newer than the latest one, and no
\* successful run is newer than the last successful one.  It says nothing of the
\* reports that failed to be read: index.go:59 and 63 leave such a run out without
\* a word, and the answer may then be an older one.
AnswerNotOutrun ==
    \A b \in Readers : reader[b] = "over" => \A q \in known[b] :
        /\ \E r \in answer[b].latest : reports[q].finished <= reports[r].finished
        /\ Passed(q) => \E r \in answer[b].success :
                            Passed(r) /\ reports[q].finished <= reports[r].finished
=============================================================================
