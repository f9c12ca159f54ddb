-------------------------- MODULE FixRecordsProofs --------------------------
(***************************************************************************)
(* Proofs about evidence and Fix Records, for any number of runs, checks,  *)
(* plans, readers, invocations and candidates, and any number of edits,    *)
(* failures and deaths.                                                    *)
(***************************************************************************)
EXTENDS FixRecords, WellFoundedInduction, TLAPS

-----------------------------------------------------------------------------
(* Reports.                                                                *)

Entries == UNION {[S -> Entry] : S \in SUBSET (Checks \union {Core})}

LEMMA EntriesFacts ==
    ASSUME NEW f \in Entries
    PROVE  /\ DOMAIN f \subseteq Checks \union {Core}
           /\ \A c \in DOMAIN f : f[c] \in Entry
BY DEF Entries

LEMMA EntriesIntro ==
    ASSUME NEW S \in SUBSET (Checks \union {Core}), NEW f \in [S -> Entry]
    PROVE  f \in Entries
BY DEF Entries

\* A report is never without a result: among the severities of its entries one
\* is the greatest.
LEMMA OverallIsStatus ==
    ASSUME NEW f \in Entries
    PROVE  Overall(f) \in Status
<1> DEFINE bad == {s \in {f[c].status : c \in DOMAIN f} : Severity(s) > 0}
<1>1. bad \subseteq Status
  BY EntriesFacts DEF Entry
<1>2. CASE bad = {}
  BY <1>2 DEF Overall, Status
<1>3. CASE bad # {}
  <2>1. \A s \in Status : Severity(s) \in 0 .. 4
    BY DEF Severity
  <2>2. \E s \in bad : \A t \in bad : Severity(t) <= Severity(s)
    <3> DEFINE n(k) == \E s \in bad : Severity(s) = k
    <3>1. n(1) \/ n(2) \/ n(3) \/ n(4)
      <4>1. PICK s \in bad : TRUE  BY <1>3
      <4>2. Severity(s) \in 1 .. 4  BY <2>1, <1>1
      <4> QED  BY <4>2
    <3>2. CASE n(4)  BY <3>2, <1>1, <2>1
    <3>3. CASE n(3) /\ ~n(4)  BY <3>3, <1>1, <2>1
    <3>4. CASE n(2) /\ ~n(3) /\ ~n(4)  BY <3>4, <1>1, <2>1
    <3>5. CASE n(1) /\ ~n(2) /\ ~n(3) /\ ~n(4)  BY <3>5, <1>1, <2>1
    <3> QED  BY <3>1, <3>2, <3>3, <3>4, <3>5
  <2>3. Overall(f) \in bad
    BY <1>3, <2>2 DEF Overall
  <2> QED  BY <1>1, <2>3
<1> QED  BY <1>2, <1>3

LEMMA WithEntry ==
    ASSUME NEW f \in Entries, NEW c \in Checks \union {Core}, NEW e \in Entry
    PROVE  With(f, c, e) \in Entries
<1>1. With(f, c, e) \in [DOMAIN f \union {c} -> Entry]
  BY EntriesFacts DEF With
<1> QED  BY <1>1, EntriesFacts, EntriesIntro

LEMMA ReportFacts ==
    ASSUME NEW d \in Report
    PROVE  /\ d.entries \in Entries /\ d.plan \subseteq Checks
           /\ d.started \in Nat /\ d.finished \in Nat
BY DEF Report, Entries

LEMMA NoReportIsReport == NoReport \in Report
<1>1. <<>> \in Entries
  <2>1. <<>> \in [{} -> Entry]  OBVIOUS
  <2> QED  BY <2>1, EntriesIntro
<1> QED  BY <1>1 DEF NoReport, Report, Entries, Status

\* A report stays one when a field gets a value of its kind.
LEMMA ReportUpdates ==
    ASSUME NEW d \in Report
    PROVE  /\ \A x \in Names \union {None} : [d EXCEPT !.project = x] \in Report
           /\ \A x \in Nat : /\ [d EXCEPT !.started = x] \in Report
                           /\ [d EXCEPT !.finished = x] \in Report
           /\ \A x \in SUBSET Checks : [d EXCEPT !.plan = x] \in Report
           /\ \A x \in Entries : [d EXCEPT !.entries = x] \in Report
           /\ \A x \in Status : [d EXCEPT !.overall = x] \in Report
           /\ \A x \in Sources \union {None} : [d EXCEPT !.fingerprint = x] \in Report
<1> DEFINE All == UNION {[S -> Entry] : S \in SUBSET (Checks \union {Core})}
<1>1. Report = [project : Names \union {None}, started : Nat, finished : Nat,
                plan : SUBSET Checks, entries : All,
                overall : Status, fingerprint : Sources \union {None}]
  BY DEF Report
<1>2. Entries = All  BY DEF Entries
<1> HIDE DEF All
<1> QED  BY <1>1, <1>2

LEMMA BegunIsReport ==
    ASSUME clock \in Nat, NEW name \in Names \union {None}, NEW s \in Status, NEW b \in BOOLEAN
    PROVE  Begun(name, s, b) \in Report
<1>1. [c \in {Core} |-> [status |-> s, blocking |-> b]] \in Entries
  <2>1. [c \in {Core} |-> [status |-> s, blocking |-> b]] \in [{Core} -> Entry]  BY DEF Entry
  <2> QED  BY <2>1, EntriesIntro
<1>2. [NoReport EXCEPT !.project = name] \in Report
  BY NoReportIsReport, ReportUpdates
<1>3. [[NoReport EXCEPT !.project = name] EXCEPT !.started = clock + 1] \in Report
  <2>1. clock + 1 \in Nat  OBVIOUS
  <2> QED  BY <1>2, <2>1, ReportUpdates
<1>4. [[[NoReport EXCEPT !.project = name] EXCEPT !.started = clock + 1]
         EXCEPT !.entries = [c \in {Core} |-> [status |-> s, blocking |-> b]]] \in Report
  BY <1>1, <1>3, ReportUpdates
<1> QED  BY <1>4 DEF Begun

-----------------------------------------------------------------------------
(* The evidence.                                                           *)

\* What the actions of runs have in common, without the readers' state.
RunTypes ==
    /\ tree \in Tree /\ edits \in Nat /\ faults \in Nat /\ clock \in Nat
    /\ at \in [Runs -> {"idle", "checks", "save", "note", "over"}]
    /\ draft \in [Runs -> Report]
    /\ files \in [Runs -> {"nothing", "directories", "contents"}]
    /\ reports \in [Runs -> Report \union {None}]
    /\ session \in [run : Runs \union {None}, result : Status]

ReaderTypes ==
    /\ reader \in [Readers -> {"idle", "read", "answer", "over", "failed"}]
    /\ todo \in [Readers -> SUBSET Runs]
    /\ rows \in [Readers -> SUBSET Runs]
    /\ known \in [Readers -> SUBSET Runs]
    /\ index \subseteq Runs
    /\ answer \in [Readers -> [latest : SUBSET Runs, success : SUBSET Runs, current : BOOLEAN]]

\* report.json is there only when everything else is, and then for good.
Finished == \A r \in Runs : reports[r] # None => files[r] = "contents" /\ at[r] \in {"note", "over"}

\* What a run is about to note is an error, or what its evidence says.
Noting ==
    \A r \in Runs : at[r] = "note" =>
        \/ draft[r].overall = "ERROR"
        \/ Complete(r) /\ reports[r].overall = draft[r].overall

RunInv == RunTypes /\ Finished /\ Noting /\ SessionHonest
EvidenceInv == RunInv /\ ReaderTypes

\* Reports are never changed, nor is their evidence.
ReportsKept ==
    \A r \in Runs : reports[r] # None => reports'[r] = reports[r] /\ files'[r] = files[r]

LEMMA EvidenceTypes == EvidenceTypeOK <=> RunTypes /\ ReaderTypes
BY DEF EvidenceTypeOK, RunTypes, ReaderTypes

LEMMA EvidenceInitial == EvidenceInit => EvidenceInv
<1> SUFFICES ASSUME EvidenceInit PROVE EvidenceInv  OBVIOUS
<1>1. RunTypes
  <2>1. draft \in [Runs -> Report]  BY NoReportIsReport DEF EvidenceInit
  <2>2. session \in [run : Runs \union {None}, result : Status]  BY DEF EvidenceInit, Status
  <2> QED  BY <2>1, <2>2 DEF EvidenceInit, RunTypes
<1>2. ReaderTypes  BY DEF EvidenceInit, ReaderTypes
<1>3. Finished /\ Noting  BY DEF EvidenceInit, Finished, Noting
<1>4. SessionHonest  BY DEF EvidenceInit, SessionHonest
<1> QED  BY <1>1, <1>2, <1>3, <1>4 DEF EvidenceInv, RunInv

\* A step that leaves what is on disk, and moves a run that has no report yet
\* anywhere but to the note.
LEMMA DraftStep ==
    ASSUME RunInv, NEW r \in Runs, RunTypes',
           at[r] \in {"idle", "checks"}, at'[r] # "note",
           \A q \in Runs : q # r => at'[q] = at[q] /\ draft'[q] = draft[q],
           UNCHANGED <<files, reports, session>>
    PROVE  RunInv' /\ ReportsKept
<1> USE DEF RunInv
<1>1. reports[r] = None  BY DEF Finished
<1>2. Finished'  BY <1>1 DEF Finished
<1>3. Noting'  BY DEF Noting, Complete
<1>4. SessionHonest'  BY DEF SessionHonest, Complete
<1> QED  BY <1>2, <1>3, <1>4 DEF ReportsKept

LEMMA EditKeeps == ASSUME RunInv, Edit PROVE RunInv' /\ ReportsKept
<1> USE DEF RunInv
<1>1. /\ tree' \in Tree /\ edits' = edits + 1
      /\ UNCHANGED <<faults, at, draft, files, reports, session, clock>>
  BY Zenon DEF Edit, runVars
<1>2. RunTypes'  BY <1>1 DEF RunTypes
<1> QED  BY <1>1, <1>2 DEF Finished, Noting, SessionHonest, Complete, ReportsKept

LEMMA StartKeeps ==
    ASSUME RunInv, NEW r \in Runs, Start(r)
    PROVE  RunInv' /\ ReportsKept
<1> USE DEF RunInv
<1>1. /\ at[r] = "idle" /\ at' = [at EXCEPT ![r] = "checks"] /\ clock' = clock + 1
      /\ UNCHANGED <<tree, edits, faults, files, reports, session>>
  BY Zenon DEF Start, Move, treeVars
<1>2. PICK plan \in Plans : draft' = [draft EXCEPT ![r] =
          [Begun(Identity[tree.source], "PASS", FALSE) EXCEPT !.plan = plan]]
  BY Zenon DEF Start
<1>3. [Begun(Identity[tree.source], "PASS", FALSE) EXCEPT !.plan = plan] \in Report
  <2>1. Begun(Identity[tree.source], "PASS", FALSE) \in Report
    BY BegunIsReport DEF RunTypes, Tree, Names, Status
  <2>2. plan \in SUBSET Checks  BY PlansAssumption
  <2> QED  BY <2>1, <2>2, ReportUpdates
<1>4. RunTypes'  BY <1>1, <1>2, <1>3 DEF RunTypes
<1>5. at'[r] # "note" /\ \A q \in Runs : q # r => at'[q] = at[q] /\ draft'[q] = draft[q]
  BY <1>1, <1>2 DEF RunTypes
<1> QED  BY <1>1, <1>4, <1>5, DraftStep

LEMMA EndEarlyKeeps ==
    ASSUME RunInv, NEW r \in Runs, EndEarly(r)
    PROVE  RunInv' /\ ReportsKept
<1> USE DEF RunInv
<1> DEFINE Ended(report, s) == [report EXCEPT !.finished = clock + 1, !.overall = s]
           name == Identity[tree.source]
<1>1. /\ at[r] = "idle" /\ at' = [at EXCEPT ![r] = "save"] /\ clock' = clock + 1
      /\ faults' = faults + 1
      /\ UNCHANGED <<tree, edits, files, reports, session>>
  BY Zenon DEF EndEarly, Move, Fault
<1>2. PICK d \in {Ended(Begun(name, "ERROR", FALSE), "ERROR"),
                  Ended(Begun(None, "ERROR", FALSE), "ERROR"),
                  Ended(Begun(name, "INSUFFICIENT_EVIDENCE", TRUE), "INSUFFICIENT_EVIDENCE")} :
          draft' = [draft EXCEPT ![r] = d]
  BY Zenon DEF EndEarly
<1>3. d \in Report
  <2>1. name \in Names  BY DEF RunTypes, Tree, Names
  <2>2. "ERROR" \in Status /\ "INSUFFICIENT_EVIDENCE" \in Status  BY DEF Status
  <2>3. clock \in Nat /\ clock + 1 \in Nat  BY DEF RunTypes
  <2>4. \A report \in Report : \A s \in Status : Ended(report, s) \in Report
    <3> SUFFICES ASSUME NEW report \in Report, NEW s \in Status
                 PROVE  Ended(report, s) \in Report
      OBVIOUS
    <3>1. [report EXCEPT !.finished = clock + 1] \in Report  BY <2>3, ReportUpdates
    <3> QED  BY <3>1, ReportUpdates
  <2>5. /\ Begun(name, "ERROR", FALSE) \in Report
        /\ Begun(None, "ERROR", FALSE) \in Report
        /\ Begun(name, "INSUFFICIENT_EVIDENCE", TRUE) \in Report
    BY <2>1, <2>2, <2>3, BegunIsReport
  <2> HIDE DEF Ended, name
  <2> QED  BY <1>2, <2>2, <2>4, <2>5
<1>4. RunTypes'  BY <1>1, <1>2, <1>3 DEF RunTypes
<1>5. at'[r] # "note" /\ \A q \in Runs : q # r => at'[q] = at[q] /\ draft'[q] = draft[q]
  BY <1>1, <1>2 DEF RunTypes
<1> QED  BY <1>1, <1>4, <1>5, DraftStep

LEMMA LookKeeps ==
    ASSUME RunInv, NEW r \in Runs, NEW c \in Checks, Look(r, c)
    PROVE  RunInv' /\ ReportsKept
<1> USE DEF RunInv
<1> DEFINE e == With(draft[r].entries, c, Verdict[c][tree])
<1>1. /\ at[r] = "checks"
      /\ draft' = [draft EXCEPT ![r].entries = e]
      /\ UNCHANGED <<at, files, reports, session, clock, tree, edits, faults>>
  BY Zenon DEF Look, treeVars
<1>2. e \in Entries
  <2>1. draft[r].entries \in Entries  BY ReportFacts DEF RunTypes
  <2>2. Verdict[c][tree] \in Entry  BY VerdictAssumption DEF RunTypes
  <2> QED  BY <2>1, <2>2, WithEntry
<1> HIDE DEF e
<1>3. draft' = [draft EXCEPT ![r] = [draft[r] EXCEPT !.entries = e]]  BY <1>1
<1>4. [draft[r] EXCEPT !.entries = e] \in Report
  BY <1>2, ReportUpdates DEF RunTypes
<1>5. RunTypes'  BY <1>1, <1>3, <1>4 DEF RunTypes
<1>6. at'[r] # "note" /\ \A q \in Runs : q # r => at'[q] = at[q] /\ draft'[q] = draft[q]
  BY <1>1, <1>3 DEF RunTypes
<1> QED  BY <1>1, <1>5, <1>6, DraftStep

LEMMA SealKeeps ==
    ASSUME RunInv, NEW r \in Runs, Seal(r)
    PROVE  RunInv' /\ ReportsKept
<1> USE DEF RunInv
<1> DEFINE o == Overall(draft[r].entries)
<1>1. /\ at[r] = "checks" /\ at' = [at EXCEPT ![r] = "save"] /\ clock' = clock + 1
      /\ UNCHANGED <<files, reports, session, tree, edits>>
  BY Zenon DEF Seal, Move
<1>2. PICK f \in {Fingerprint(tree), None} :
          /\ IF f = None THEN Fault ELSE UNCHANGED faults
          /\ draft' = [draft EXCEPT ![r].fingerprint = f, ![r].finished = clock + 1,
                                    ![r].overall = o]
  BY Zenon DEF Seal
<1>3. faults' \in Nat  BY <1>2 DEF Fault, RunTypes
<1>4. o \in Status  BY OverallIsStatus, ReportFacts DEF RunTypes
<1> HIDE DEF o
<1> DEFINE d == [draft[r] EXCEPT !.fingerprint = f, !.finished = clock + 1, !.overall = o]
<1>5. draft' = [draft EXCEPT ![r] = d]  BY <1>2 DEF RunTypes
<1>6. d \in Report
  <2>1. f \in Sources \union {None}  BY DEF Fingerprint, RunTypes, Tree
  <2>2. clock + 1 \in Nat /\ draft[r] \in Report  BY DEF RunTypes
  <2>3. [draft[r] EXCEPT !.fingerprint = f] \in Report
    BY <2>1, <2>2, ReportUpdates
  <2>4. [[draft[r] EXCEPT !.fingerprint = f] EXCEPT !.finished = clock + 1] \in Report
    BY <2>2, <2>3, ReportUpdates
  <2>5. [[[draft[r] EXCEPT !.fingerprint = f] EXCEPT !.finished = clock + 1]
           EXCEPT !.overall = o] \in Report
    BY <1>4, <2>4, ReportUpdates
  <2> QED  BY <2>5
<1> HIDE DEF d
<1>7. RunTypes'  BY <1>1, <1>3, <1>5, <1>6 DEF RunTypes
<1>8. at'[r] # "note" /\ \A q \in Runs : q # r => at'[q] = at[q] /\ draft'[q] = draft[q]
  BY <1>1, <1>5 DEF RunTypes
<1> QED  BY <1>1, <1>7, <1>8, DraftStep

\* The files of a run are written before its report.
LEMMA SaveFilesKeeps ==
    ASSUME RunInv, NEW r \in Runs, SaveFiles(r)
    PROVE  RunInv' /\ ReportsKept
<1> USE DEF RunInv
<1>1. /\ at[r] = "save" /\ reports[r] = None
      /\ UNCHANGED <<at, draft, reports, session, clock, tree, edits, faults>>
  BY DEF SaveFiles, treeVars, Finished
<1>2. PICK f \in {"directories", "contents"} : files' = [files EXCEPT ![r] = f]
  BY DEF SaveFiles
<1>3. \A q \in Runs : q # r => files'[q] = files[q]
  BY <1>2 DEF RunTypes
<1>4. RunTypes'  BY <1>1, <1>2 DEF RunTypes
<1>5. Finished' /\ ReportsKept  BY <1>1, <1>3 DEF Finished, ReportsKept
<1>6. Noting'  BY <1>1, <1>3 DEF Noting, Complete
<1>7. SessionHonest'
  BY <1>1, <1>3 DEF SessionHonest, Complete, RunTypes
<1> QED  BY <1>4, <1>5, <1>6, <1>7

\* The report comes last, and its run has a result to note.
LEMMA SaveReportKeeps ==
    ASSUME RunInv, NEW r \in Runs, SaveReport(r)
    PROVE  RunInv' /\ ReportsKept
<1> USE DEF RunInv
<1>1. /\ at[r] = "save" /\ files[r] = "contents" /\ reports[r] = None
      /\ at' = [at EXCEPT ![r] = "note"]
      /\ reports' = [reports EXCEPT ![r] = draft[r]]
      /\ UNCHANGED <<draft, files, session, clock, tree, edits, faults>>
  BY DEF SaveReport, treeVars, Finished, Move
<1>2. \A q \in Runs : q # r => reports'[q] = reports[q] /\ at'[q] = at[q]
  BY <1>1 DEF RunTypes
<1>3. reports'[r] = draft[r] /\ at'[r] = "note" /\ draft[r] # None
  BY <1>1, NoneAssumption DEF RunTypes
<1>4. RunTypes'  BY <1>1 DEF RunTypes
<1>5. Finished' /\ ReportsKept  BY <1>1, <1>2, <1>3 DEF Finished, ReportsKept
<1>6. Noting'  BY <1>1, <1>2, <1>3 DEF Noting, Complete
<1>7. SessionHonest'  BY <1>1, <1>2 DEF SessionHonest, Complete, RunTypes
<1> QED  BY <1>4, <1>5, <1>6, <1>7

LEMMA SaveFailsKeeps ==
    ASSUME RunInv, NEW r \in Runs, SaveFails(r)
    PROVE  RunInv' /\ ReportsKept
<1> USE DEF RunInv
<1>1. /\ at[r] = "save" /\ reports[r] = None
      /\ at' = [at EXCEPT ![r] = "note"] /\ faults' = faults + 1
      /\ draft' = [draft EXCEPT ![r].overall = "ERROR"]
      /\ UNCHANGED <<files, reports, session, clock, tree, edits>>
  BY DEF SaveFails, Finished, Move, Fault
<1>2. draft' = [draft EXCEPT ![r] = [draft[r] EXCEPT !.overall = "ERROR"]]  BY <1>1
<1>3. [draft[r] EXCEPT !.overall = "ERROR"] \in Report
  BY ReportUpdates DEF RunTypes, Status
<1>4. RunTypes'  BY <1>1, <1>2, <1>3 DEF RunTypes
<1>5. draft'[r].overall = "ERROR" /\ \A q \in Runs : q # r => at'[q] = at[q] /\ draft'[q] = draft[q]
  BY <1>1, <1>2 DEF RunTypes, Report
<1>6. Finished' /\ ReportsKept  BY <1>1, <1>5 DEF Finished, ReportsKept
<1>7. Noting'  BY <1>1, <1>5 DEF Noting, Complete
<1>8. SessionHonest'  BY <1>1 DEF SessionHonest, Complete
<1> QED  BY <1>4, <1>6, <1>7, <1>8

\* A run that is over has nothing more to say.
LEMMA OverStep ==
    ASSUME RunInv, NEW r \in Runs, at[r] # "idle", faults' \in Nat,
           at' = [at EXCEPT ![r] = "over"], Forget(r),
           UNCHANGED <<files, reports, clock, tree, edits>>,
           session' \in [run : Runs \union {None}, result : Status], SessionHonest'
    PROVE  RunInv' /\ ReportsKept
<1> USE DEF RunInv
<1>1. draft' = [draft EXCEPT ![r] = NoReport]  BY DEF Forget
<1>2. RunTypes'  BY <1>1, NoReportIsReport DEF RunTypes
<1>3. at'[r] = "over" /\ \A q \in Runs : q # r => at'[q] = at[q] /\ draft'[q] = draft[q]
  BY <1>1 DEF RunTypes
<1>4. Finished' /\ ReportsKept  BY <1>3 DEF Finished, ReportsKept
<1>5. Noting'  BY <1>3 DEF Noting, Complete
<1> QED  BY <1>2, <1>4, <1>5

LEMMA NoteKeeps ==
    ASSUME RunInv, NEW r \in Runs, Note(r)
    PROVE  RunInv' /\ ReportsKept
<1> USE DEF RunInv
<1>1. /\ at[r] = "note" /\ at' = [at EXCEPT ![r] = "over"] /\ Forget(r)
      /\ UNCHANGED <<files, reports, clock, tree, edits>>
  BY Zenon DEF Note, Move
<1>2. /\ faults' = faults \/ faults' = faults + 1
      /\ session' = session \/ session' = [run |-> r, result |-> draft[r].overall]
  BY Zenon DEF Note, Fault
<1>3. faults' \in Nat  BY <1>2 DEF RunTypes
<1>4. session' \in [run : Runs \union {None}, result : Status]
  <2>1. draft[r].overall \in Status  BY DEF RunTypes, Report
  <2> QED  BY <1>2, <2>1 DEF RunTypes
<1>5. SessionHonest'
  <2>1. CASE session' = session  BY <1>1, <2>1 DEF SessionHonest, Complete
  <2>2. CASE session' = [run |-> r, result |-> draft[r].overall]
    BY <1>1, <2>2 DEF SessionHonest, Noting, Complete
  <2> QED  BY <1>2, <2>1, <2>2
<1> QED  BY <1>1, <1>3, <1>4, <1>5, OverStep

LEMMA KillKeeps ==
    ASSUME RunInv, NEW r \in Runs, Kill(r)
    PROVE  RunInv' /\ ReportsKept
<1> USE DEF RunInv
<1>1. /\ at[r] # "idle" /\ at' = [at EXCEPT ![r] = "over"] /\ Forget(r)
      /\ faults' = faults + 1
      /\ UNCHANGED <<files, reports, clock, tree, edits, session>>
  BY DEF Kill, Move, Fault
<1>2. faults' \in Nat /\ session' \in [run : Runs \union {None}, result : Status]
  BY <1>1 DEF RunTypes
<1>3. SessionHonest'  BY <1>1 DEF SessionHonest, Complete
<1> QED  BY <1>1, <1>2, <1>3, OverStep

LEMMA RunStepKeeps ==
    ASSUME RunInv, NEW r \in Runs, RunStep(r)
    PROVE  RunInv' /\ ReportsKept
BY StartKeeps, EndEarlyKeeps, LookKeeps, SealKeeps, SaveFilesKeeps, SaveReportKeeps,
   SaveFailsKeeps, NoteKeeps, KillKeeps, Zenon DEF RunStep

-----------------------------------------------------------------------------
(* The readers of the index, who change nothing but the index.             *)

LEMMA ScanRunsTypes ==
    ASSUME ReaderTypes, NEW b \in Readers, ScanRuns(b)
    PROVE  ReaderTypes'
BY DEF ScanRuns, Step, ReaderTypes

LEMMA ReadReportTypes ==
    ASSUME ReaderTypes, NEW b \in Readers, NEW r \in Runs, ReadReport(b, r)
    PROVE  ReaderTypes'
<1>1. /\ todo' = [todo EXCEPT ![b] = todo[b] \ {r}]
      /\ rows' = [rows EXCEPT ![b] = rows[b] \union {r}] \/ rows' = rows
      /\ known' = [known EXCEPT ![b] = known[b] \ {r}] \/ known' = known
      /\ UNCHANGED <<reader, index, answer>>
  BY DEF ReadReport
<1> QED  BY <1>1 DEF ReaderTypes

LEMMA WriteIndexTypes ==
    ASSUME ReaderTypes, NEW b \in Readers, WriteIndex(b)
    PROVE  ReaderTypes'
BY DEF WriteIndex, Step, ReaderTypes

LEMMA AnswerTypes ==
    ASSUME ReaderTypes, NEW b \in Readers, Answer(b)
    PROVE  ReaderTypes'
<1> DEFINE S == {r \in rows[b] : reports[r].overall \in {"PASS", "WARN"}}
           now(taken) == taken /\ \E r \in Newest(rows[b]) :
                                    reports[r].fingerprint = Fingerprint(tree)
<1>1. /\ reader' = [reader EXCEPT ![b] = "over"]
      /\ UNCHANGED <<todo, rows, known, index>>
  BY DEF Answer, Step
<1>2. PICK taken \in BOOLEAN :
          answer' = [answer EXCEPT ![b] =
              [latest |-> Newest(rows[b]), success |-> Newest(S), current |-> now(taken)]]
  BY Zenon DEF Answer
<1>3. Newest(rows[b]) \subseteq Runs /\ Newest(S) \subseteq Runs
  BY DEF Newest, ReaderTypes
<1>4. now(taken) \in BOOLEAN  OBVIOUS
<1> HIDE DEF S, now
<1> QED  BY <1>1, <1>2, <1>3, <1>4 DEF ReaderTypes

LEMMA ReaderStepKeeps ==
    ASSUME EvidenceInv, NEW b \in Readers, ReaderStep(b)
    PROVE  EvidenceInv' /\ ReportsKept /\ faults' = faults
<1>1. ReaderTypes'
  BY ScanRunsTypes, ReadReportTypes, WriteIndexTypes, AnswerTypes, Zenon
     DEF ReaderStep, EvidenceInv
<1>2. UNCHANGED <<runVars, treeVars>>
  BY Zenon DEF ReaderStep, ScanRuns, ReadReport, WriteIndex, Answer
<1>3. UNCHANGED <<at, draft, files, reports, session, clock, tree, edits, faults>>
  BY <1>2 DEF runVars, treeVars
<1>4. RunInv'
  BY <1>3 DEF EvidenceInv, RunInv, RunTypes, Finished, Noting, SessionHonest, Complete
<1> QED  BY <1>1, <1>3, <1>4 DEF EvidenceInv, ReportsKept

\* Only failures and deaths count as faults.
LEMMA EvidenceStepKeeps ==
    ASSUME EvidenceInv, EvidenceNext
    PROVE  EvidenceInv' /\ ReportsKept /\ (faults' = 0 => faults = 0)
<1>1. CASE Edit
  <2>1. RunInv' /\ ReportsKept  BY <1>1, EditKeeps DEF EvidenceInv
  <2>2. UNCHANGED <<faults, readVars>>  BY <1>1 DEF Edit
  <2> QED  BY <2>1, <2>2 DEF EvidenceInv, ReaderTypes, readVars
<1>2. CASE \E r \in Runs : RunStep(r)
  <2>1. RunInv' /\ ReportsKept  BY <1>2, RunStepKeeps DEF EvidenceInv
  <2>2. UNCHANGED readVars
    BY <1>2, Zenon DEF RunStep, Start, EndEarly, Look, Seal, SaveFiles, SaveReport,
                       SaveFails, Note, Kill
  <2>3. faults' = faults \/ faults' = faults + 1
    BY <1>2, Zenon DEF RunStep, Start, EndEarly, Look, Seal, SaveFiles, SaveReport,
                       SaveFails, Note, Kill, Fault, treeVars
  <2>4. faults' = 0 => faults = 0  BY <2>3 DEF EvidenceInv, RunInv, RunTypes
  <2> QED  BY <2>1, <2>2, <2>4 DEF EvidenceInv, ReaderTypes, readVars
<1>3. CASE \E b \in Readers : ReaderStep(b)  BY <1>3, ReaderStepKeeps
<1> QED  BY <1>1, <1>2, <1>3 DEF EvidenceNext

LEMMA EvidenceStutterKeeps ==
    ASSUME EvidenceInv, UNCHANGED <<tree, edits, runVars, readVars>>, faults' \in Nat
    PROVE  EvidenceInv' /\ ReportsKept
BY DEF EvidenceInv, RunInv, RunTypes, ReaderTypes, Finished, Noting, SessionHonest, Complete,
       ReportsKept, runVars, readVars

\* Type correctness of the evidence, and the saved session: both for a system
\* of runs and readers alone (EvidenceSpec).
THEOREM EvidenceSafe == EvidenceSpec => []EvidenceTypeOK /\ []SessionHonest
<1>1. EvidenceInit => EvidenceInv  BY EvidenceInitial
<1>2. EvidenceInv /\ [EvidenceNext]_evidenceVars => EvidenceInv'
  <2> SUFFICES ASSUME EvidenceInv, [EvidenceNext]_evidenceVars PROVE EvidenceInv'  OBVIOUS
  <2>1. CASE EvidenceNext  BY <2>1, EvidenceStepKeeps
  <2>2. CASE UNCHANGED evidenceVars
    <3>1. faults' \in Nat  BY <2>2 DEF evidenceVars, treeVars, EvidenceInv, RunInv, RunTypes
    <3> QED  BY <2>2, <3>1, EvidenceStutterKeeps DEF evidenceVars, treeVars
  <2> QED  BY <2>1, <2>2
<1>3. EvidenceInv => EvidenceTypeOK /\ SessionHonest
  BY EvidenceTypes DEF EvidenceInv, RunInv
<1> QED  BY <1>1, <1>2, <1>3, PTL DEF EvidenceSpec

-----------------------------------------------------------------------------
(* The index.                                                              *)

\* A bounded set of numbers that is not empty has a greatest one.
LEMMA GreatestOf ==
    ASSUME NEW X \in SUBSET Nat, X # {}, NEW n \in Nat, \A x \in X : x <= n
    PROVE  \E x \in X : \A y \in X : y <= x
<1> DEFINE Less == OpToRel(<, Nat)
           below == {n - x : x \in X}
<1> HIDE DEF Less
<1>1. below \subseteq Nat /\ below # {}
  <2>1. \A x \in X : n - x \in Nat  OBVIOUS
  <2>2. PICK x \in X : TRUE  OBVIOUS
  <2>3. n - x \in below  OBVIOUS
  <2> QED  BY <2>1, <2>3
<1>2. PICK d \in below : \A e \in below : <<e, d>> \notin Less
  <2>1. IsWellFoundedOn(Less, Nat)  BY NatLessThanWellFounded DEF Less
  <2> HIDE DEF below
  <2> QED  BY <1>1, <2>1, WFMin
<1>3. \A i, j \in Nat : <<i, j>> \in Less <=> i < j  BY DEF Less, OpToRel
<1>4. PICK x \in X : d = n - x  OBVIOUS
<1>5. \A y \in X : y <= x
  <2> SUFFICES ASSUME NEW y \in X PROVE y <= x  OBVIOUS
  <2>1. n - y \in below /\ n - y \in Nat /\ n - x \in Nat /\ x \in Nat /\ y \in Nat  OBVIOUS
  <2>2. ~ (n - y < n - x)
    <3>1. <<n - y, n - x>> \notin Less  BY <1>2, <1>4, <2>1
    <3> QED  BY <1>3, <2>1, <3>1
  <2> QED  BY <2>1, <2>2
<1> QED  BY <1>5

Reported == {r \in Runs : reports[r] # None}

\* The clock is past the end of every run that has ended.
Dated ==
    /\ \A r \in Runs : draft[r].finished <= clock
    /\ \A r \in Reported : reports[r].finished <= clock

\* What was there when the reader began, and did not fail to be read, is read or
\* is yet to be read; and once the reader has its answer, nothing of that is newer.
Unmissed(b) ==
    /\ rows[b] \subseteq Reported /\ known[b] \subseteq Reported
    /\ reader[b] = "read" => known[b] \subseteq rows[b] \union todo[b]
    /\ reader[b] = "answer" => known[b] \subseteq rows[b]
    /\ reader[b] = "over" =>
          /\ answer[b].latest \subseteq Reported /\ answer[b].success \subseteq Reported
          /\ \A q \in known[b] :
                /\ \E r \in answer[b].latest : reports[q].finished <= reports[r].finished
                /\ Passed(q) => \E r \in answer[b].success :
                                    Passed(r) /\ reports[q].finished <= reports[r].finished

IndexInv == EvidenceInv /\ Dated /\ \A b \in Readers : Unmissed(b)

\* Among reports there is a last one, since the clock has passed them all.
LEMMA NewestThere ==
    ASSUME IndexInv, NEW S \in SUBSET Reported, NEW q \in S
    PROVE  \E r \in Newest(S) : reports[q].finished <= reports[r].finished
<1> DEFINE X == {reports[r].finished : r \in S}
<1>1. \A r \in S : reports[r].finished \in Nat /\ reports[r].finished <= clock
  BY ReportFacts DEF IndexInv, Dated, EvidenceInv, RunInv, RunTypes, Reported
<1>2. clock \in Nat  BY DEF IndexInv, EvidenceInv, RunInv, RunTypes
<1>3. X \in SUBSET Nat /\ X # {} /\ \A x \in X : x <= clock  BY <1>1
<1>4. PICK x \in X : \A y \in X : y <= x
  <2> HIDE DEF X
  <2> QED  BY <1>2, <1>3, GreatestOf
<1>5. PICK r \in S : x = reports[r].finished  OBVIOUS
<1>6. \A p \in S : reports[p].finished <= reports[r].finished  BY <1>4, <1>5
<1> QED  BY <1>6 DEF Newest

LEMMA IndexInitial == EvidenceInit => IndexInv
<1> SUFFICES ASSUME EvidenceInit PROVE IndexInv  OBVIOUS
<1>1. Dated  BY DEF EvidenceInit, Dated, Reported, NoReport
<1>2. \A b \in Readers : Unmissed(b)  BY DEF EvidenceInit, Unmissed
<1> QED  BY <1>1, <1>2, EvidenceInitial DEF IndexInv

\* Reports that are added do not change what was read.
LEMMA ReportsAdded ==
    ASSUME IndexInv, ReportsKept, UNCHANGED readVars, NEW b \in Readers
    PROVE  Unmissed(b)'
<1>1. /\ Reported \subseteq Reported' /\ \A r \in Reported : reports'[r] = reports[r]
      /\ UNCHANGED <<reader, todo, rows, known, answer>>
  BY DEF ReportsKept, Reported, readVars
<1>2. /\ rows[b] \subseteq Reported /\ known[b] \subseteq Reported
      /\ Unmissed(b)
  BY DEF IndexInv, Unmissed
<1>3. \A r \in Reported : (Passed(r) <=> Passed(r)')  BY <1>1 DEF Passed
<1> QED  BY <1>1, <1>2, <1>3 DEF Unmissed

\* A run changes its own draft, and may publish it.
LEMMA DatedStep ==
    ASSUME IndexInv, NEW r \in Runs, clock' \in {clock, clock + 1},
           \A q \in Runs : q # r => draft'[q] = draft[q] /\ reports'[q] = reports[q],
           draft'[r].finished \in {0, draft[r].finished, clock'},
           reports'[r] \in {reports[r], draft[r]}
    PROVE  Dated'
<1>1. /\ clock \in Nat /\ \A q \in Runs : draft[q].finished \in Nat
      /\ \A q \in Reported : reports[q].finished \in Nat
  BY ReportFacts DEF IndexInv, EvidenceInv, RunInv, RunTypes, Reported
<1>2. /\ \A q \in Runs : draft[q].finished <= clock
      /\ \A q \in Reported : reports[q].finished <= clock
  BY DEF IndexInv, Dated
<1>3. \A q \in Runs : draft'[q].finished <= clock'  BY <1>1, <1>2
<1>4. \A q \in Reported' : reports'[q].finished <= clock'
  <2> SUFFICES ASSUME NEW q \in Runs, reports'[q] # None
               PROVE  reports'[q].finished <= clock'
    BY DEF Reported
  <2>1. CASE reports'[q] = reports[q]  BY <1>1, <1>2, <2>1 DEF Reported
  <2>2. CASE q = r /\ reports'[r] = draft[r]  BY <1>1, <1>2, <2>2
  <2> QED  BY <2>1, <2>2
<1> QED  BY <1>3, <1>4 DEF Dated

LEMMA RunStepDates ==
    ASSUME IndexInv, NEW r \in Runs, RunStep(r)
    PROVE  Dated'
<1> USE DEF IndexInv, EvidenceInv, RunInv
<1>1. draft \in [Runs -> Report] /\ reports \in [Runs -> Report \union {None}]
  BY DEF RunTypes
<1>2. \A d \in Report : d = [d EXCEPT !.finished = d.finished]  BY DEF Report
<1>3. CASE Start(r)
  <2>1. PICK plan \in Plans : draft' = [draft EXCEPT ![r] =
            [Begun(Identity[tree.source], "PASS", FALSE) EXCEPT !.plan = plan]]
    BY <1>3, Zenon DEF Start
  <2>2. clock' = clock + 1 /\ reports' = reports  BY <1>3, Zenon DEF Start
  <2>3. draft'[r].finished = 0  BY <1>1, <2>1 DEF Begun, NoReport
  <2>4. \A q \in Runs : q # r => draft'[q] = draft[q]  BY <1>1, <2>1
  <2> QED  BY <2>2, <2>3, <2>4, DatedStep
<1>4. CASE EndEarly(r)
  <2> DEFINE Ended(report, s) == [report EXCEPT !.finished = clock + 1, !.overall = s]
             name == Identity[tree.source]
  <2>1. PICK d \in {Ended(Begun(name, "ERROR", FALSE), "ERROR"),
                    Ended(Begun(None, "ERROR", FALSE), "ERROR"),
                    Ended(Begun(name, "INSUFFICIENT_EVIDENCE", TRUE), "INSUFFICIENT_EVIDENCE")} :
            draft' = [draft EXCEPT ![r] = d]
    BY <1>4, Zenon DEF EndEarly
  <2>2. clock' = clock + 1 /\ reports' = reports  BY <1>4, Zenon DEF EndEarly
  <2>3. d.finished = clock + 1  BY <2>1 DEF Begun, NoReport
  <2>4. draft'[r] = d /\ \A q \in Runs : q # r => draft'[q] = draft[q]  BY <1>1, <2>1
  <2> QED  BY <2>2, <2>3, <2>4, DatedStep
<1>5. CASE \E c \in Checks : Look(r, c)
  <2>1. PICK c \in Checks : draft' = [draft EXCEPT ![r].entries =
                                         With(draft[r].entries, c, Verdict[c][tree])]
    BY <1>5 DEF Look
  <2>2. UNCHANGED <<clock, reports>>  BY <1>5 DEF Look
  <2>3. /\ draft'[r].finished = draft[r].finished
        /\ \A q \in Runs : q # r => draft'[q] = draft[q]
    BY <1>1, <2>1 DEF Report
  <2> QED  BY <2>2, <2>3, DatedStep
<1>6. CASE Seal(r)
  <2>1. PICK f \in {Fingerprint(tree), None} :
          draft' = [draft EXCEPT ![r].fingerprint = f, ![r].finished = clock + 1,
                                 ![r].overall = Overall(draft[r].entries)]
    BY <1>6, Zenon DEF Seal
  <2>2. clock' = clock + 1 /\ reports' = reports  BY <1>6, Zenon DEF Seal
  <2>3. /\ draft'[r].finished = clock + 1
        /\ \A q \in Runs : q # r => draft'[q] = draft[q]
    BY <1>1, <2>1 DEF Report
  <2> QED  BY <2>2, <2>3, DatedStep
<1>7. CASE SaveFiles(r)
  <2>1. UNCHANGED <<draft, reports, clock>>  BY <1>7 DEF SaveFiles
  <2> QED  BY <2>1, DatedStep
<1>8. CASE SaveReport(r)
  <2>1. UNCHANGED <<draft, clock>> /\ reports' = [reports EXCEPT ![r] = draft[r]]
    BY <1>8 DEF SaveReport
  <2>2. reports'[r] = draft[r] /\ \A q \in Runs : q # r => reports'[q] = reports[q]
    BY <1>1, <2>1
  <2> QED  BY <2>1, <2>2, DatedStep
<1>9. CASE SaveFails(r)
  <2>1. UNCHANGED <<reports, clock>> /\ draft' = [draft EXCEPT ![r].overall = "ERROR"]
    BY <1>9 DEF SaveFails
  <2>2. /\ draft'[r].finished = draft[r].finished
        /\ \A q \in Runs : q # r => draft'[q] = draft[q]
    BY <1>1, <2>1 DEF Report
  <2> QED  BY <2>1, <2>2, DatedStep
<1>10. CASE Note(r) \/ Kill(r)
  <2>1. UNCHANGED <<reports, clock>> /\ draft' = [draft EXCEPT ![r] = NoReport]
    BY <1>10, Zenon DEF Note, Kill, Forget
  <2>2. /\ draft'[r].finished = 0
        /\ \A q \in Runs : q # r => draft'[q] = draft[q]
    BY <1>1, <2>1 DEF NoReport
  <2> QED  BY <2>1, <2>2, DatedStep
<1> QED
  BY <1>3, <1>4, <1>5, <1>6, <1>7, <1>8, <1>9, <1>10, Zenon DEF RunStep

\* A reader's step, seen from the reader whose step it is.
LEMMA ReaderReads ==
    ASSUME IndexInv, NEW b \in Readers, ReaderStep(b), UNCHANGED reports
    PROVE  Unmissed(b)'
<1> USE DEF IndexInv
<1>1. ReaderTypes /\ Unmissed(b)  BY DEF EvidenceInv
<1>2. Reported' = Reported  BY DEF Reported
<1>3. CASE ScanRuns(b)
  <2>1. /\ reader'[b] = "read" /\ rows' = rows
        /\ todo'[b] = {r \in Runs : files[r] # "nothing"} /\ known'[b] = Reported
    BY <1>1, <1>3 DEF ScanRuns, Step, ReaderTypes, Reported
  <2>2. Reported \subseteq todo'[b]
    BY <2>1 DEF EvidenceInv, RunInv, Finished, Reported
  <2> QED  BY <1>1, <1>2, <2>1, <2>2 DEF Unmissed
<1>4. CASE \E r \in Runs : ReadReport(b, r)
  <2>1. PICK r \in Runs : ReadReport(b, r)  BY <1>4
  <2>2. reader[b] = "read" /\ reader' = reader /\ todo'[b] = todo[b] \ {r}
    BY <1>1, <2>1 DEF ReadReport, ReaderTypes
  <2>3. CASE reports[r] # None /\ rows' = [rows EXCEPT ![b] = @ \union {r}] /\ known' = known
    <3>1. rows'[b] = rows[b] \union {r} /\ known'[b] = known[b]
      BY <1>1, <2>3 DEF ReaderTypes
    <3>2. rows'[b] \subseteq Reported  BY <1>1, <2>3, <3>1 DEF Unmissed, Reported
    <3> QED  BY <1>1, <1>2, <2>2, <3>1, <3>2 DEF Unmissed
  <2>4. CASE known' = [known EXCEPT ![b] = @ \ {r}] /\ rows' = rows
    <3>1. known'[b] = known[b] \ {r}  BY <1>1, <2>4 DEF ReaderTypes
    <3> QED  BY <1>1, <1>2, <2>2, <2>4, <3>1 DEF Unmissed
  <2> QED  BY <2>1, <2>3, <2>4 DEF ReadReport
<1>5. CASE WriteIndex(b)
  <2>1. /\ reader[b] = "read" /\ todo[b] = {} /\ reader'[b] \in {"answer", "failed"}
        /\ UNCHANGED <<rows, known>>
    BY <1>1, <1>5 DEF WriteIndex, Step, ReaderTypes
  <2> QED  BY <1>1, <1>2, <2>1 DEF Unmissed
<1>6. CASE Answer(b)
  <2> DEFINE S == {r \in rows[b] : reports[r].overall \in {"PASS", "WARN"}}
             now(taken) == taken /\ \E r \in Newest(rows[b]) :
                                      reports[r].fingerprint = Fingerprint(tree)
  <2>1. PICK taken \in BOOLEAN :
          answer' = [answer EXCEPT ![b] =
              [latest |-> Newest(rows[b]), success |-> Newest(S), current |-> now(taken)]]
    BY <1>6, Zenon DEF Answer
  <2>2. reader[b] = "answer" /\ reader'[b] = "over" /\ UNCHANGED <<rows, known>>
    BY <1>1, <1>6 DEF Answer, Step, ReaderTypes
  <2>3. answer'[b].latest = Newest(rows[b]) /\ answer'[b].success = Newest(S)
    <3> HIDE DEF S, now
    <3> QED  BY <1>1, <2>1 DEF ReaderTypes
  <2>4. known[b] \subseteq rows[b] /\ rows[b] \subseteq Reported  BY <1>1, <2>2 DEF Unmissed
  <2>5. S \subseteq Reported /\ \A q \in S : Passed(q)'  BY <2>4 DEF Passed
  <2>6. Newest(rows[b]) \subseteq Reported /\ Newest(S) \subseteq S  BY <2>4 DEF Newest
  <2>7. ASSUME NEW q \in known[b]
        PROVE  /\ \E r \in Newest(rows[b]) : reports[q].finished <= reports[r].finished
               /\ Passed(q)' => \E r \in Newest(S) :
                                    Passed(r)' /\ reports[q].finished <= reports[r].finished
    <3>1. \E r \in Newest(rows[b]) : reports[q].finished <= reports[r].finished
      BY <2>4, NewestThere
    <3>2. ASSUME Passed(q)'
          PROVE  \E r \in Newest(S) : Passed(r)' /\ reports[q].finished <= reports[r].finished
      <4>1. q \in S  BY <2>4, <3>2 DEF Passed
      <4> HIDE DEF S
      <4>2. \E r \in Newest(S) : reports[q].finished <= reports[r].finished
        BY <2>5, <4>1, NewestThere
      <4> QED  BY <2>5, <2>6, <4>2
    <3> QED  BY <3>1, <3>2
  <2> HIDE DEF S
  <2> QED  BY <1>2, <2>2, <2>3, <2>4, <2>5, <2>6, <2>7 DEF Unmissed
<1> QED  BY <1>3, <1>4, <1>5, <1>6 DEF ReaderStep

\* The other readers see nothing of it.
LEMMA ReaderAlone ==
    ASSUME IndexInv, NEW b \in Readers, ReaderStep(b), UNCHANGED reports,
           NEW o \in Readers, o # b
    PROVE  Unmissed(o)'
<1>1. ReaderTypes /\ Unmissed(o)  BY DEF IndexInv, EvidenceInv
<1>2. /\ reader'[o] = reader[o] /\ todo'[o] = todo[o] /\ rows'[o] = rows[o]
      /\ known'[o] = known[o] /\ answer'[o] = answer[o]
  <2>1. CASE ScanRuns(b)  BY <1>1, <2>1 DEF ScanRuns, Step, ReaderTypes
  <2>2. CASE \E r \in Runs : ReadReport(b, r)
    BY <1>1, <2>2 DEF ReadReport, ReaderTypes
  <2>3. CASE WriteIndex(b)  BY <1>1, <2>3 DEF WriteIndex, Step, ReaderTypes
  <2>4. CASE Answer(b)
    <3>1. /\ reader' = [reader EXCEPT ![b] = "over"] /\ UNCHANGED <<todo, rows, known>>
          /\ \E v : answer' = [answer EXCEPT ![b] = v]
      BY <2>4, Zenon DEF Answer, Step
    <3> QED  BY <1>1, <3>1 DEF ReaderTypes
  <2> QED  BY <2>1, <2>2, <2>3, <2>4 DEF ReaderStep
<1>3. Reported' = Reported /\ \A r : (Passed(r)' <=> Passed(r))  BY DEF Reported, Passed
<1> QED  BY <1>1, <1>2, <1>3 DEF Unmissed

LEMMA IndexStep == ASSUME IndexInv, [EvidenceNext]_evidenceVars PROVE IndexInv'
<1> USE DEF IndexInv
<1>1. CASE Edit
  <2>1. EvidenceInv' /\ ReportsKept  BY <1>1, EvidenceStepKeeps DEF EvidenceNext
  <2>2. UNCHANGED <<draft, reports, clock>> /\ UNCHANGED readVars  BY <1>1 DEF Edit, runVars
  <2>3. Dated'  BY <2>2 DEF Dated, Reported
  <2> QED  BY <2>1, <2>2, <2>3, ReportsAdded
<1>2. CASE \E r \in Runs : RunStep(r)
  <2>1. EvidenceInv' /\ ReportsKept  BY <1>2, EvidenceStepKeeps DEF EvidenceNext
  <2>2. UNCHANGED readVars
    BY <1>2, Zenon DEF RunStep, Start, EndEarly, Look, Seal, SaveFiles, SaveReport,
                       SaveFails, Note, Kill
  <2>3. Dated'  BY <1>2, RunStepDates
  <2> QED  BY <2>1, <2>2, <2>3, ReportsAdded
<1>3. CASE \E b \in Readers : ReaderStep(b)
  <2>1. PICK b \in Readers : ReaderStep(b)  BY <1>3
  <2>2. EvidenceInv'  BY <1>3, EvidenceStepKeeps DEF EvidenceNext
  <2>3. UNCHANGED <<runVars, treeVars>>
    BY <2>1, Zenon DEF ReaderStep, ScanRuns, ReadReport, WriteIndex, Answer
  <2>4. UNCHANGED <<draft, reports, clock>>  BY <2>3 DEF runVars
  <2>5. Dated'  BY <2>4 DEF Dated, Reported
  <2>6. \A o \in Readers : Unmissed(o)'  BY <2>1, <2>4, ReaderReads, ReaderAlone
  <2> QED  BY <2>2, <2>5, <2>6
<1>4. CASE UNCHANGED evidenceVars
  <2>1. faults' \in Nat
    BY <1>4 DEF evidenceVars, treeVars, EvidenceInv, RunInv, RunTypes
  <2>2. EvidenceInv' /\ ReportsKept
    BY <1>4, <2>1, EvidenceStutterKeeps DEF evidenceVars, treeVars
  <2>3. UNCHANGED <<draft, reports, clock>> /\ UNCHANGED readVars
    BY <1>4 DEF evidenceVars, runVars
  <2>4. Dated'  BY <2>3 DEF Dated, Reported
  <2> QED  BY <2>2, <2>3, <2>4, ReportsAdded
<1> QED  BY <1>1, <1>2, <1>3, <1>4 DEF EvidenceNext

\* An index never lags behind the evidence that was there when its reader began
\* and that it was able to read (EvidenceSpec): neither the latest run nor the
\* latest that succeeded is older than any such run.
THEOREM IndexIsNotOutrun == EvidenceSpec => []AnswerNotOutrun
<1>1. IndexInv => AnswerNotOutrun
  BY DEF IndexInv, Unmissed, AnswerNotOutrun
<1> QED  BY <1>1, IndexInitial, IndexStep, PTL DEF EvidenceSpec

-----------------------------------------------------------------------------
(* The records.                                                            *)

FixTypes ==
    /\ records \in [IDs -> FixRecord \union {None, Partial}]
    /\ call \in [Calls -> {"idle", "scan", "audit", "reports", "compare", "refer",
                          "create", "write", "sync", "remove", "recorded"}]
    /\ given \in [Calls -> Candidates \union {None}]
    /\ listed \in [Calls -> SUBSET IDs]
    /\ made \in [Calls -> FixRecord \union {None}]

Deriving == {"compare", "refer", "create", "write", "sync", "remove", "recorded"}
Holding == {"write", "sync", "remove", "recorded"}

\* What an invocation has derived can be trusted as long as it keeps it.
Making ==
    \A p \in Calls :
        /\ call[p] = "reports" => given[p] # None
        /\ call[p] \in Deriving => made[p] # None /\ Trusted(made[p])

\* Of the invocations past O_EXCL no two have the same file, which is there.
Exclusive ==
    \A p, q \in Calls : p # q /\ call[p] \in Holding /\ call[q] \in Holding =>
        made[p].id # made[q].id

Held ==
    \A p \in Calls :
        /\ call[p] \in Holding => records[made[p].id] # None
        /\ call[p] \in {"sync", "recorded"} => records[made[p].id] = made[p]

\* Without failures: what an invocation is about to write refers to records that
\* are there, and nobody removes one.
Unfailing ==
    faults = 0 => \A p \in Calls :
        /\ call[p] # "remove"
        /\ call[p] \in {"create", "write"} => made[p].refers \subseteq Whole

FixInv ==
    /\ FixTypes /\ Making /\ Exclusive /\ Held /\ Unfailing
    /\ TrustedClosure /\ ReferencesHold

Inv == EvidenceInv /\ FixInv

LEMMA WholeFacts ==
    ASSUME FixTypes, NEW i \in Whole
    PROVE  i \in IDs /\ records[i] \in FixRecord
BY DEF FixTypes, Whole

\* What is trusted stays so, as no report is ever changed.
LEMMA TrustedStays ==
    ASSUME RunInv, ReportsKept, NEW record \in FixRecord, Trusted(record)
    PROVE  Trusted(record)'
<1>1. record.pre \in Runs /\ record.post \in Runs  BY DEF FixRecord
<1>2. reports[record.pre] # None /\ reports[record.post] # None
  BY DEF Trusted, Complete
<1>3. /\ reports'[record.pre] = reports[record.pre] /\ files'[record.pre] = files[record.pre]
      /\ reports'[record.post] = reports[record.post] /\ files'[record.post] = files[record.post]
  BY <1>1, <1>2 DEF ReportsKept
<1> QED  BY <1>3 DEF Trusted, Complete

LEMMA FixInitial == Init => Inv
<1> SUFFICES ASSUME Init PROVE Inv  OBVIOUS
<1>1. EvidenceInv  BY EvidenceInitial DEF Init
<1>2. FixTypes  BY DEF Init, FixTypes
<1>3. Whole = {}  BY DEF Init, Whole
<1>4. \A p \in Calls : call[p] = "idle"  BY DEF Init
<1>5. Making /\ Exclusive /\ Held /\ Unfailing
  BY <1>4 DEF Making, Exclusive, Held, Unfailing, Deriving, Holding
<1>6. TrustedClosure /\ ReferencesHold  BY <1>3 DEF TrustedClosure, ReferencesHold
<1> QED  BY <1>1, <1>2, <1>5, <1>6 DEF Inv, FixInv

\* Steps of the runs and the readers.
LEMMA EvidenceKeepsFixes ==
    ASSUME Inv, EvidenceNext, UNCHANGED fixVars
    PROVE  Inv'
<1> USE DEF Inv, FixInv
<1>1. EvidenceInv' /\ ReportsKept /\ (faults' = 0 => faults = 0)  BY EvidenceStepKeeps
<1>2. UNCHANGED <<records, call, given, listed, made>>  BY DEF fixVars
<1>3. FixTypes' /\ Exclusive' /\ Held' /\ Unfailing' /\ ReferencesHold' /\ Whole' = Whole
  BY <1>1, <1>2 DEF FixTypes, Exclusive, Held, Unfailing, ReferencesHold, Whole
<1>4. \A record \in FixRecord : Trusted(record) => Trusted(record)'
  BY <1>1, TrustedStays DEF EvidenceInv
<1>5. Making'
  BY <1>2, <1>4 DEF Making, FixTypes, Deriving, Trusted
<1>6. TrustedClosure'
  BY <1>2, <1>3, <1>4, WholeFacts DEF TrustedClosure, Trusted
<1> QED  BY <1>1, <1>3, <1>5, <1>6

\* The state of invocation p after a step of it, and all that is not p's.
Moves(p, l, g, n, m) ==
    /\ call' = [call EXCEPT ![p] = l]
    /\ given' = [given EXCEPT ![p] = g]
    /\ listed' = [listed EXCEPT ![p] = n]
    /\ made' = [made EXCEPT ![p] = m]
    /\ UNCHANGED <<tree, edits, runVars, readVars>>
    /\ faults' \in Nat /\ (faults' = 0 => faults = 0)

LEMMA MovesFacts ==
    ASSUME Inv, NEW p \in Calls, NEW l, NEW g, NEW n, NEW m, Moves(p, l, g, n, m)
    PROVE  /\ EvidenceInv' /\ ReportsKept
           /\ call'[p] = l /\ given'[p] = g /\ made'[p] = m
           /\ \A q \in Calls : q # p => call'[q] = call[q] /\ given'[q] = given[q]
                                       /\ made'[q] = made[q]
           /\ \A record \in FixRecord : Trusted(record) => Trusted(record)'
<1>1. EvidenceInv' /\ ReportsKept
  BY EvidenceStutterKeeps DEF Inv, Moves
<1>2. /\ call'[p] = l /\ given'[p] = g /\ made'[p] = m
      /\ \A q \in Calls : q # p => call'[q] = call[q] /\ given'[q] = given[q]
                                  /\ made'[q] = made[q]
  BY DEF Moves, Inv, FixInv, FixTypes
<1> QED  BY <1>1, <1>2, TrustedStays DEF Inv, EvidenceInv

\* An invocation moves on, or ends, without a file of its own.
LEMMA BareStep ==
    ASSUME Inv, NEW p \in Calls,
           NEW l \in {"idle", "scan", "audit", "reports", "compare", "refer", "create"},
           NEW g \in Candidates \union {None}, NEW n \in SUBSET IDs,
           NEW m \in FixRecord \union {None},
           Moves(p, l, g, n, m), UNCHANGED records,
           l = "reports" => g # None,
           l \in {"compare", "refer", "create"} => m # None /\ Trusted(m),
           l = "create" => (faults = 0 => m.refers \subseteq Whole)
    PROVE  Inv'
<1> USE DEF Inv, FixInv
<1>1. /\ EvidenceInv' /\ ReportsKept
      /\ call'[p] = l /\ given'[p] = g /\ made'[p] = m
      /\ \A q \in Calls : q # p => call'[q] = call[q] /\ given'[q] = given[q]
                                  /\ made'[q] = made[q]
      /\ \A record \in FixRecord : Trusted(record) => Trusted(record)'
  BY MovesFacts
<1>2. FixTypes'  BY DEF Moves, FixTypes
<1>3. Making'
  BY <1>1, SMTT(30) DEF Making, Deriving, FixTypes, Trusted
<1>4. Exclusive' /\ Held'
  BY <1>1 DEF Exclusive, Held, Holding
<1>5. Whole' = Whole  BY DEF Whole
<1>6. Unfailing' /\ ReferencesHold'
  BY <1>1, <1>5 DEF Unfailing, ReferencesHold, Moves
<1>7. TrustedClosure'
  BY <1>1, <1>5, WholeFacts DEF TrustedClosure, Trusted
<1> QED  BY <1>1, <1>2, <1>3, <1>4, <1>6, <1>7

\* An invocation that has its file moves on and keeps it.
LEMMA HoldingStep ==
    ASSUME Inv, NEW p \in Calls, call[p] \in Holding, NEW l \in Holding,
           Moves(p, l, given[p], listed[p], made[p]), UNCHANGED records,
           l \in {"sync", "recorded"} => records[made[p].id] = made[p],
           l = "remove" => faults' # 0,
           l # "write"
    PROVE  Inv'
<1> USE DEF Inv, FixInv
<1>1. /\ EvidenceInv' /\ ReportsKept
      /\ call'[p] = l /\ given'[p] = given[p] /\ made'[p] = made[p]
      /\ \A q \in Calls : q # p => call'[q] = call[q] /\ given'[q] = given[q]
                                  /\ made'[q] = made[q]
      /\ \A record \in FixRecord : Trusted(record) => Trusted(record)'
  BY MovesFacts
<1>2. FixTypes'  BY DEF Moves, FixTypes, Holding
<1>3. Making'
  BY <1>1 DEF Making, Deriving, Holding, FixTypes, Trusted
<1>4. Exclusive'  BY <1>1 DEF Exclusive
<1>5. Held'  BY <1>1 DEF Held
<1>6. Whole' = Whole  BY DEF Whole
<1>7. Unfailing' /\ ReferencesHold'
  BY <1>1, <1>6 DEF Unfailing, ReferencesHold, Moves, Holding
<1>8. TrustedClosure'
  BY <1>1, <1>6, WholeFacts DEF TrustedClosure, Trusted
<1> QED  BY <1>1, <1>2, <1>3, <1>4, <1>5, <1>7, <1>8

\* Ending: the invocation's knowledge is gone.
LEMMA OverMoves ==
    ASSUME NEW p \in Calls, Over(p), UNCHANGED <<tree, edits, runVars, readVars>>,
           faults' \in Nat, faults' = 0 => faults = 0
    PROVE  Moves(p, "idle", None, {}, None)
BY Zenon DEF Over, Goto, Moves

LEMMA OverKeeps ==
    ASSUME Inv, NEW p \in Calls, Over(p), UNCHANGED <<tree, edits, runVars, readVars>>,
           faults' = faults \/ faults' = faults + 1, UNCHANGED records
    PROVE  Inv'
<1>1. faults' \in Nat /\ (faults' = 0 => faults = 0)
  BY DEF Inv, EvidenceInv, RunInv, RunTypes
<1>2. Moves(p, "idle", None, {}, None)  BY <1>1, OverMoves
<1> QED  BY <1>2, BareStep

LEMMA SameFacts ==
    ASSUME Inv, NEW p \in Calls
    PROVE  /\ given = [given EXCEPT ![p] = given[p]] /\ given[p] \in Candidates \union {None}
           /\ listed = [listed EXCEPT ![p] = listed[p]] /\ listed[p] \in SUBSET IDs
           /\ made = [made EXCEPT ![p] = made[p]] /\ made[p] \in FixRecord \union {None}
           /\ faults \in Nat
BY DEF Inv, FixInv, FixTypes, EvidenceInv, RunInv, RunTypes

LEMMA EvidenceUnchanged ==
    ASSUME UNCHANGED evidenceVars
    PROVE  UNCHANGED <<tree, edits, runVars, readVars, faults>>
BY DEF evidenceVars, treeVars

LEMMA RecordKeeps == ASSUME Inv, NEW p \in Calls, Record(p) PROVE Inv'
<1>1. PICK c \in Candidates : given' = [given EXCEPT ![p] = c]  BY DEF Record
<1>2. Moves(p, "scan", c, listed[p], made[p]) /\ UNCHANGED records
  BY <1>1, SameFacts, EvidenceUnchanged DEF Record, Goto, Moves
<1> QED  BY <1>2, SameFacts, BareStep

LEMMA ListKeeps == ASSUME Inv, NEW p \in Calls, List(p) PROVE Inv'
<1>1. Moves(p, "scan", given[p], listed[p], made[p]) /\ UNCHANGED records
  BY SameFacts, EvidenceUnchanged DEF List, Goto, Moves
<1> QED  BY <1>1, SameFacts, BareStep

LEMMA ScanKeeps == ASSUME Inv, NEW p \in Calls, Scan(p) PROVE Inv'
<1>1. UNCHANGED <<tree, edits, runVars, readVars, faults, records>>
  BY EvidenceUnchanged DEF Scan
<1>2. CASE Over(p)  BY <1>1, <1>2, OverKeeps
<1>3. CASE ~Over(p)
  <2>1. Moves(p, "audit", given[p], Files, made[p])
    BY <1>1, <1>3, SameFacts DEF Scan, Goto, Moves
  <2>2. Files \in SUBSET IDs  BY DEF Files
  <2> QED  BY <1>1, <2>1, <2>2, SameFacts, BareStep
<1> QED  BY <1>2, <1>3

LEMMA AuditKeeps == ASSUME Inv, NEW p \in Calls, Audit(p) PROVE Inv'
<1>1. UNCHANGED <<tree, edits, runVars, readVars, faults, records>>
  BY EvidenceUnchanged DEF Audit
<1>2. CASE ~Room(p)  BY <1>1, <1>2, OverKeeps DEF Audit
<1>3. CASE Room(p)
  <2>1. Moves(p, "reports", given[p], {}, made[p])
    BY <1>1, <1>3, SameFacts DEF Audit, Goto, Moves
  <2>2. given[p] # None  BY <1>3 DEF Room
  <2> QED  BY <1>1, <2>1, <2>2, SameFacts, BareStep
<1> QED  BY <1>2, <1>3

\* The record that closes a candidate is one, and can be trusted.
LEMMA DerivedTrusted ==
    ASSUME RunInv, NEW c \in Candidates, reports[c.pre] # None, reports[c.post] # None,
           Closes(c, reports[c.pre], reports[c.post]),
           Transitions(c, reports[c.pre], reports[c.post])
    PROVE  LET d == Derived(c, reports[c.pre], reports[c.post])
           IN  d \in FixRecord /\ Trusted(d)
<1> DEFINE pre == reports[c.pre]
           post == reports[c.post]
           d == Derived(c, pre, post)
<1>1. /\ c.id \in IDs /\ c.project \in Names /\ c.pre \in Runs /\ c.post \in Runs
      /\ c.checks \in SUBSET (Checks \union {Core})
      /\ c.related \union c.supersedes \in SUBSET IDs
  BY CandidatesAssumption DEF Candidate
<1>2. pre \in Report /\ post \in Report  BY <1>1 DEF RunInv, RunTypes
<1>3. \A k \in c.checks : pre.entries[k].status \in Status /\ post.entries[k].status \in Status
  <2> SUFFICES ASSUME NEW k \in c.checks
               PROVE  pre.entries[k].status \in Status /\ post.entries[k].status \in Status
    OBVIOUS
  <2>1. k \in DOMAIN pre.entries /\ k \in DOMAIN post.entries  BY DEF Transitions
  <2>2. pre.entries[k] \in Entry /\ post.entries[k] \in Entry
    BY <1>2, <2>1, ReportFacts, EntriesFacts
  <2> QED  BY <2>2 DEF Entry
<1>4. /\ Complete(c.pre) /\ Complete(c.post)
  BY <1>1 DEF RunInv, Finished, Complete
<1> DEFINE before == [k \in c.checks |-> pre.entries[k].status]
           after == [k \in c.checks |-> post.entries[k].status]
<1>5. /\ before \in [c.checks -> Status] /\ after \in [c.checks -> Status]
  BY <1>3
<1>6. d = [id |-> c.id, project |-> c.project, pre |-> c.pre, post |-> c.post,
           preReport |-> pre, postReport |-> post, before |-> before, after |-> after,
           refers |-> c.related \union c.supersedes]
  BY DEF Derived
<1>7. d.pre = c.pre /\ d.post = c.post /\ d.preReport = pre /\ d.postReport = post
      /\ d.project = c.project /\ DOMAIN d.after = c.checks
  BY <1>6
<1>8. d \in FixRecord
  <2> DEFINE K == UNION {[S -> Status] : S \in SUBSET (Checks \union {Core})}
  <2>1. before \in K /\ after \in K  BY <1>1, <1>5
  <2>2. FixRecord = [id : IDs, project : Names, pre : Runs, post : Runs, preReport : Report,
                     postReport : Report, before : K, after : K, refers : SUBSET IDs]
    BY DEF FixRecord
  <2> HIDE DEF K, before, after, pre, post
  <2> QED  BY <1>1, <1>2, <1>6, <2>1, <2>2
<1>9. Trusted(d)
  <2>1. /\ pre.project = c.project /\ post.project = c.project
        /\ pre.finished <= post.started /\ ExitCode(post) = 0
    BY Zenon DEF Closes
  <2>2. \A k \in c.checks : ~Settled(pre.entries[k].status) /\ post.entries[k].status = "PASS"
    BY Zenon DEF Transitions
  <2> HIDE DEF d
  <2> QED  BY <1>4, <1>7, <2>1, <2>2 DEF Trusted
<1> QED  BY <1>8, <1>9

LEMMA ReadReportsKeeps == ASSUME Inv, NEW p \in Calls, ReadReports(p) PROVE Inv'
<1>1. UNCHANGED <<tree, edits, runVars, readVars, faults, records>>
  BY EvidenceUnchanged DEF ReadReports
<1>2. CASE Over(p)  BY <1>1, <1>2, OverKeeps
<1>3. CASE ~Over(p)
  <2> DEFINE c == given[p]
             d == Derived(c, reports[c.pre], reports[c.post])
  <2>1. /\ reports[c.pre] # None /\ reports[c.post] # None
        /\ Closes(c, reports[c.pre], reports[c.post])
        /\ Transitions(c, reports[c.pre], reports[c.post])
        /\ call' = [call EXCEPT ![p] = "compare"]
        /\ made' = [made EXCEPT ![p] = d]
        /\ UNCHANGED <<given, listed>>
    BY <1>3, Zenon DEF ReadReports, Goto
  <2>2. c \in Candidates
    BY SameFacts DEF ReadReports, Inv, FixInv, Making
  <2>3. d \in FixRecord /\ Trusted(d)
    BY <2>1, <2>2, DerivedTrusted DEF Inv, EvidenceInv
  <2> HIDE DEF c, d
  <2>4. Moves(p, "compare", given[p], listed[p], d)
    BY <1>1, <2>1, SameFacts DEF Moves
  <2>5. d # None  BY <2>3, NoFileAssumption
  <2> QED  BY <1>1, <2>3, <2>4, <2>5, SameFacts, BareStep
<1> QED  BY <1>2, <1>3

LEMMA CompareTreeKeeps == ASSUME Inv, NEW p \in Calls, CompareTree(p) PROVE Inv'
<1>1. UNCHANGED <<tree, edits, runVars, readVars, faults, records>>
  BY EvidenceUnchanged DEF CompareTree
<1>2. CASE Over(p)  BY <1>1, <1>2, OverKeeps
<1>3. CASE ~Over(p)
  <2>1. Moves(p, "refer", given[p], listed[p], made[p])
    BY <1>1, <1>3, SameFacts DEF CompareTree, Goto, Moves
  <2>2. made[p] # None /\ Trusted(made[p])
    BY DEF CompareTree, Inv, FixInv, Making, Deriving
  <2> QED  BY <1>1, <2>1, <2>2, SameFacts, BareStep
<1> QED  BY <1>2, <1>3

LEMMA ReferKeeps == ASSUME Inv, NEW p \in Calls, Refer(p) PROVE Inv'
<1>1. UNCHANGED <<tree, edits, runVars, readVars, faults, records>>
  BY EvidenceUnchanged DEF Refer
<1>2. CASE ~Grounded(p)  BY <1>1, <1>2, OverKeeps DEF Refer
<1>3. CASE Grounded(p)
  <2>1. Moves(p, "create", given[p], listed[p], made[p])
    BY <1>1, <1>3, SameFacts DEF Refer, Goto, Moves
  <2>2. made[p] # None /\ Trusted(made[p])
    BY DEF Refer, Inv, FixInv, Making, Deriving
  <2>3. made[p].refers \subseteq Whole
    <3>1. made[p].refers \subseteq IDs  BY <2>2, SameFacts DEF FixRecord
    <3> QED  BY <1>3, <3>1 DEF Grounded, Readable, Whole
  <2> QED  BY <1>1, <2>1, <2>2, <2>3, SameFacts, BareStep
<1> QED  BY <1>2, <1>3

LEMMA DieKeeps == ASSUME Inv, NEW p \in Calls, Die(p) PROVE Inv'
BY OverKeeps DEF Die, Fault

\* The file of p changes, and nobody else's.
LEMMA FileStep ==
    ASSUME Inv, NEW p \in Calls, made[p] # None,
           NEW v \in FixRecord \union {None, Partial},
           records' = [records EXCEPT ![made[p].id] = v]
    PROVE  /\ made[p].id \in IDs /\ records'[made[p].id] = v
           /\ \A i \in IDs : i # made[p].id => records'[i] = records[i]
           /\ records' \in [IDs -> FixRecord \union {None, Partial}]
<1>1. made[p].id \in IDs  BY SameFacts DEF FixRecord
<1> QED  BY <1>1 DEF Inv, FixInv, FixTypes

LEMMA CreateKeeps == ASSUME Inv, NEW p \in Calls, Create(p) PROVE Inv'
<1> USE DEF Inv, FixInv
<1>1. UNCHANGED <<tree, edits, runVars, readVars, faults>>
  BY EvidenceUnchanged DEF Create
<1>2. CASE Over(p) /\ UNCHANGED records  BY <1>1, <1>2, OverKeeps
<1>3. CASE ~(Over(p) /\ UNCHANGED records)
  <2>1. /\ call[p] = "create" /\ records[made[p].id] = None
        /\ records' = [records EXCEPT ![made[p].id] = Partial]
        /\ Moves(p, "write", given[p], listed[p], made[p])
    BY <1>1, <1>3, SameFacts DEF Create, Goto, Moves
  <2>2. made[p] # None /\ Trusted(made[p])
    BY <2>1 DEF Making, Deriving
  <2>3. /\ made[p].id \in IDs /\ records'[made[p].id] = Partial
        /\ \A i \in IDs : i # made[p].id => records'[i] = records[i]
        /\ records' \in [IDs -> FixRecord \union {None, Partial}]
    BY <2>1, <2>2, FileStep
  <2>4. /\ EvidenceInv' /\ ReportsKept
        /\ call'[p] = "write" /\ given'[p] = given[p] /\ made'[p] = made[p]
        /\ \A q \in Calls : q # p => call'[q] = call[q] /\ given'[q] = given[q]
                                    /\ made'[q] = made[q]
        /\ \A record \in FixRecord : Trusted(record) => Trusted(record)'
    BY <2>1, MovesFacts
  <2>5. FixTypes'  BY <2>1, <2>3 DEF Moves, FixTypes
  <2>6. Making'
    BY <2>2, <2>4, SMTT(30) DEF Making, Deriving, FixTypes, Trusted
  <2>7. \A q \in Calls : call[q] \in Holding => made[q].id # made[p].id
    BY <2>1 DEF Held
  <2>8. Exclusive'  BY <2>4, <2>7 DEF Exclusive, Holding
  <2>9. Held'
    <3>1. \A q \in Calls : q # p /\ call[q] \in Holding => records'[made[q].id] = records[made[q].id]
      <4> SUFFICES ASSUME NEW q \in Calls, q # p, call[q] \in Holding
                   PROVE  records'[made[q].id] = records[made[q].id]
        OBVIOUS
      <4>1. made[q].id \in IDs
        BY SameFacts DEF Making, Deriving, Holding, FixRecord
      <4> QED  BY <2>3, <2>7, <4>1
    <3> QED  BY <2>3, <2>4, <3>1, NoFileAssumption DEF Held, Holding
  <2>10. Whole' = Whole  BY <2>1, <2>3, NoFileAssumption DEF Whole
  <2>11. Unfailing' /\ ReferencesHold'
    <3>1. \A i \in Whole : records'[i] = records[i]
      BY <2>1, <2>3 DEF Whole
    <3> QED  BY <1>1, <2>1, <2>4, <2>10, <3>1 DEF Unfailing, ReferencesHold
  <2>12. TrustedClosure'
    <3>1. \A i \in Whole : records'[i] = records[i]
      BY <2>1, <2>3 DEF Whole
    <3> QED  BY <2>4, <2>10, <3>1, WholeFacts DEF TrustedClosure, Trusted
  <2> QED  BY <2>4, <2>5, <2>6, <2>8, <2>9, <2>11, <2>12
<1> QED  BY <1>2, <1>3

\* What the others hold is not the file of p.
LEMMA OthersKeep ==
    ASSUME Inv, NEW p \in Calls, call[p] \in Holding,
           \A i \in IDs : i # made[p].id => records'[i] = records[i]
    PROVE  \A q \in Calls : q # p /\ call[q] \in Holding =>
               records'[made[q].id] = records[made[q].id]
<1> SUFFICES ASSUME NEW q \in Calls, q # p, call[q] \in Holding
             PROVE  records'[made[q].id] = records[made[q].id]
  OBVIOUS
<1>1. made[q].id \in IDs
  BY SameFacts DEF Inv, FixInv, Making, Deriving, Holding, FixRecord
<1> QED  BY <1>1 DEF Inv, FixInv, Exclusive

LEMMA WriteKeeps == ASSUME Inv, NEW p \in Calls, Write(p) PROVE Inv'
<1> USE DEF Inv, FixInv
<1>1. /\ call[p] = "write" /\ made[p] # None /\ Trusted(made[p]) /\ made[p] \in FixRecord
      /\ UNCHANGED <<tree, edits, runVars, readVars, given, listed, made>>
  BY SameFacts DEF Write, Making, Deriving
<1>2. CASE Goto(p, "remove") /\ Fault /\ UNCHANGED records
  <2>1. faults' = faults + 1  BY <1>2 DEF Fault
  <2>2. faults' \in Nat /\ faults' # 0  BY <2>1, SameFacts
  <2>3. Moves(p, "remove", given[p], listed[p], made[p])
    BY <1>1, <1>2, <2>2, SameFacts DEF Goto, Moves
  <2> QED  BY <1>1, <1>2, <2>2, <2>3, HoldingStep DEF Holding
<1>3. CASE /\ records' = [records EXCEPT ![made[p].id] = made[p]]
           /\ Goto(p, "sync") /\ UNCHANGED faults
  <2>1. Moves(p, "sync", given[p], listed[p], made[p])
    BY <1>1, <1>3, SameFacts DEF Goto, Moves
  <2>2. /\ made[p].id \in IDs /\ records'[made[p].id] = made[p]
        /\ \A i \in IDs : i # made[p].id => records'[i] = records[i]
        /\ records' \in [IDs -> FixRecord \union {None, Partial}]
    BY <1>1, <1>3, FileStep
  <2>3. /\ EvidenceInv' /\ ReportsKept
        /\ call'[p] = "sync" /\ given'[p] = given[p] /\ made'[p] = made[p]
        /\ \A q \in Calls : q # p => call'[q] = call[q] /\ given'[q] = given[q]
                                    /\ made'[q] = made[q]
        /\ \A record \in FixRecord : Trusted(record) => Trusted(record)'
    BY <2>1, MovesFacts
  <2>4. FixTypes'  BY <2>1, <2>2 DEF Moves, FixTypes
  <2>5. Making'
    BY <1>1, <2>3 DEF Making, Deriving, FixTypes, Trusted
  <2>6. Exclusive'  BY <1>1, <2>3 DEF Exclusive, Holding
  <2>7. Held'
    <3>1. \A q \in Calls : q # p /\ call[q] \in Holding => records'[made[q].id] = records[made[q].id]
      BY <1>1, <2>2, OthersKeep DEF Holding
    <3> QED  BY <1>1, <2>2, <2>3, <3>1 DEF Held, Holding
  <2>8. /\ Whole' = Whole \union {made[p].id}
        /\ \A i \in Whole' : i = made[p].id \/ (i \in Whole /\ records'[i] = records[i])
    BY <1>1, <2>2, NoFileAssumption DEF Whole
  <2>9. Unfailing' /\ ReferencesHold'
    BY <1>1, <1>3, <2>2, <2>3, <2>8 DEF Unfailing, ReferencesHold
  <2>10. TrustedClosure'
    BY <1>1, <2>2, <2>3, <2>8, WholeFacts, SMTT(30) DEF TrustedClosure, Trusted
  <2> QED  BY <2>3, <2>4, <2>5, <2>6, <2>7, <2>9, <2>10
<1> QED  BY <1>2, <1>3 DEF Write

LEMMA SyncKeeps == ASSUME Inv, NEW p \in Calls, Sync(p) PROVE Inv'
<1> USE DEF Inv, FixInv
<1>1. /\ call[p] = "sync" /\ records[made[p].id] = made[p]
      /\ UNCHANGED <<tree, edits, runVars, readVars, records, given, listed, made>>
  BY DEF Sync, Held
<1>2. CASE Goto(p, "recorded") /\ UNCHANGED faults
  <2>1. Moves(p, "recorded", given[p], listed[p], made[p])
    BY <1>1, <1>2, SameFacts DEF Goto, Moves
  <2> QED  BY <1>1, <2>1, HoldingStep DEF Holding
<1>3. CASE Goto(p, "remove") /\ Fault
  <2>1. faults' = faults + 1  BY <1>3 DEF Fault
  <2>2. faults' \in Nat /\ faults' # 0  BY <2>1, SameFacts
  <2>3. Moves(p, "remove", given[p], listed[p], made[p])
    BY <1>1, <1>3, <2>2, SameFacts DEF Goto, Moves
  <2> QED  BY <1>1, <2>2, <2>3, HoldingStep DEF Holding
<1> QED  BY <1>2, <1>3 DEF Sync

LEMMA RemoveKeeps == ASSUME Inv, NEW p \in Calls, Remove(p) PROVE Inv'
<1> USE DEF Inv, FixInv
<1>1. /\ call[p] = "remove" /\ Over(p) /\ made[p] # None
      /\ UNCHANGED <<tree, edits, runVars, readVars>>
  BY DEF Remove, Making, Deriving
<1>2. CASE Fault /\ UNCHANGED records  BY <1>1, <1>2, OverKeeps DEF Fault
<1>3. CASE records' = [records EXCEPT ![made[p].id] = None] /\ UNCHANGED faults
  <2>1. Moves(p, "idle", None, {}, None)  BY <1>1, <1>3, SameFacts, OverMoves
  <2>2. /\ made[p].id \in IDs /\ records'[made[p].id] = None
        /\ \A i \in IDs : i # made[p].id => records'[i] = records[i]
        /\ records' \in [IDs -> FixRecord \union {None, Partial}]
    BY <1>1, <1>3, FileStep
  <2>3. /\ EvidenceInv' /\ ReportsKept
        /\ call'[p] = "idle" /\ given'[p] = None /\ made'[p] = None
        /\ \A q \in Calls : q # p => call'[q] = call[q] /\ given'[q] = given[q]
                                    /\ made'[q] = made[q]
        /\ \A record \in FixRecord : Trusted(record) => Trusted(record)'
    BY <2>1, MovesFacts
  <2>4. FixTypes'  BY <2>1, <2>2 DEF Moves, FixTypes
  <2>5. Making'
    BY <2>3 DEF Making, Deriving, FixTypes, Trusted
  <2>6. Exclusive'  BY <2>3 DEF Exclusive, Holding
  <2>7. Held'
    <3>1. \A q \in Calls : q # p /\ call[q] \in Holding => records'[made[q].id] = records[made[q].id]
      BY <1>1, <2>2, OthersKeep DEF Holding
    <3> QED  BY <2>3, <3>1 DEF Held, Holding
  <2>8. \A i \in Whole' : i \in Whole /\ records'[i] = records[i]
    BY <2>2 DEF Whole
  <2>9. Unfailing' /\ ReferencesHold'
    BY <1>1, <1>3 DEF Unfailing, ReferencesHold
  <2>10. TrustedClosure'
    BY <2>3, <2>8, WholeFacts DEF TrustedClosure, Trusted
  <2> QED  BY <2>3, <2>4, <2>5, <2>6, <2>7, <2>9, <2>10
<1> QED  BY <1>2, <1>3 DEF Remove

-----------------------------------------------------------------------------
(* The theorems.                                                           *)

\* Every step of runs, readers and invocations keeps the invariant.
LEMMA StepKeeps == ASSUME Inv, [Next]_vars PROVE Inv'
<1>1. CASE EvidenceNext /\ UNCHANGED fixVars  BY <1>1, EvidenceKeepsFixes
<1>2. CASE \E p \in Calls : Invoked(p)
  BY <1>2, RecordKeeps, ListKeeps, ScanKeeps, AuditKeeps, ReadReportsKeeps, CompareTreeKeeps,
     ReferKeeps, CreateKeeps, WriteKeeps, SyncKeeps, RemoveKeeps, DieKeeps, Zenon DEF Invoked
<1>3. CASE UNCHANGED vars
  <2>1. /\ UNCHANGED <<tree, edits, runVars, readVars, faults>>
        /\ UNCHANGED <<records, call, given, listed, made>>
    BY <1>3, EvidenceUnchanged DEF vars, fixVars
  <2>2. EvidenceInv' /\ ReportsKept
    <3>1. faults' \in Nat  BY <2>1 DEF Inv, EvidenceInv, RunInv, RunTypes
    <3> QED  BY <2>1, <3>1, EvidenceStutterKeeps DEF Inv
  <2>3. UNCHANGED <<reports, files>>  BY <2>1 DEF runVars
  <2> QED
    BY <2>1, <2>2, <2>3 DEF Inv, FixInv, FixTypes, Making, Exclusive, Held, Unfailing, Whole,
                            TrustedClosure, ReferencesHold, Trusted, Complete
<1> QED  BY <1>1, <1>2, <1>3 DEF Next

THEOREM InvHolds == Spec => []Inv
<1>1. Init => Inv  BY FixInitial
<1>2. Inv /\ [Next]_vars => Inv'  BY StepKeeps
<1> QED  BY <1>1, <1>2, PTL DEF Spec

\* The type invariant of evidence and records.
THEOREM TypesHold == Spec => []TypeOK
<1>1. Inv => TypeOK
  BY EvidenceTypes DEF Inv, EvidenceInv, RunInv, FixInv, FixTypes, TypeOK
<1> QED  BY <1>1, InvHolds, PTL

\* Every record on disk closes its fix by the rule, over complete evidence that
\* is still there.
THEOREM ClosureIsTrusted == Spec => []TrustedClosure
<1>1. Inv => TrustedClosure  BY DEF Inv, FixInv
<1> QED  BY <1>1, InvHolds, PTL

\* What `fixes record' has returned stays on disk as it returned it.
THEOREM RecordsLast == Spec => []RecordedLasts
<1>1. Inv => RecordedLasts  BY DEF Inv, FixInv, Held, RecordedLasts
<1> QED  BY <1>1, InvHolds, PTL

\* Without failures no record refers to one that is not there.
THEOREM HistoryHasNoHoles == Spec => []ReferencesHold
<1>1. Inv => ReferencesHold  BY DEF Inv, FixInv
<1> QED  BY <1>1, InvHolds, PTL

=============================================================================
