# A verification development for devctl

devctl is a command line program, written in Go, that verifies a software
project by running a fixed list of checks under a policy, records what it saw
as evidence, and can apply one AI-proposed patch after a person has approved it.
This directory models the parts of it that decide, order, write and recover:
TLA+ modules translated from the source, TLC configurations for small
instances, and TLAPS proofs for every value of the constants.

Paths below are relative to `src/`. Each property of a module is preceded by a
comment that states it; `PROJECT.json` maps every definition to the lines it
models.

Contents: [1 The system](#1-the-system) ·
[2 Modules and code](#2-modules-and-code) ·
[3 Runs](#3-runs) ·
[4 Fairness](#4-fairness) ·
[5 Proofs](#5-proofs) ·
[6 Findings](#6-findings) ·
[7 Not modelled](#7-what-is-not-modelled) ·
[8 Plan](#8-plan)

## 1 The system

Several devctl invocations may run at once; within one, the scheduler runs
checks in goroutines, each command has two copying goroutines and one that
waits, and the terminal has a goroutine of its own. Everything that outlives an
invocation is a file: the registry under the user's directory; evidence, Fix
Records, lessons and the session under the project's `.devctl`.

```
 devctl repair ──► repair.Run ──► verification callback (twice)
                       │  worktree, HEAD, index, stored patch
 devctl verify ──► registry: Register, Begin ──► verify.ProjectWithOptions ──► Finish
                                                   │ policy selects and judges
                                                   ▼
                                                 scheduler.Run ──► check ──► runner.runSpec
                                                   │                            │
                                                   └────────► events.Stream ◄───┘
                                                          │ renderer (asynchronous), recorder
                    report ──► evidence.Write: the files of a run, report.json last ──► session.json
                       │                             ▲
                       ▼                             │ read as they are
 devctl verify --agent, worker verify ──► devctl failures ──► failure ──► evidence (pages)
 devctl evidence, history, context ──► index.json, made from all reports
 devctl fixes record ──► two reports and the tree ──► fixrecord: create-only files
 devctl knowledge ──► knowledgevault: append-only directories, which refer to Fix Records
```

| Component | State | Operations | What is hard | What makes it correct |
|---|---|---|---|---|
| repair engine, `internal/repair/repair.go` | worktree, HEAD and index, the patch file under `.devctl/evidence/repair`; in memory: baseline, hash, decision, backups | `Run`: verify, capture, propose, show, ask, revalidate, write file by file, prove, verify again; two rollbacks | other writers between any two steps, a snapshot that takes several git commands, cancellation, failing writes, death half-way | only the bytes consented to are written; success and CANCELLED are proved by a capture; all or nothing |
| repair command, `internal/repaircli/cli.go` | none | classification of errors, exit code, text | an error means several things | codes 0, 3 and 4 mean what they say |
| registry, `internal/registry/registry.go` | `registry.json`, its lock file | `Resolve`, `Register`, `Begin`, `Finish` | invocations ordered only by the lock file, dead and slow holders, stale runs, moved projects | one recorded run for a project, no registration lost, no directory twice |
| scheduler, `internal/scheduler/scheduler.go` | pending checks, results, semaphore | `BuildPlan`, `Run` | goroutines of a batch, shared resources, deadlines, cancellation | locks exclude, dependencies first, each check decided once, always an end |
| verification, `internal/verify/verify.go` and `internal/policy/policy.go` | report, overall status | selection, thresholds, blocking, required checks, evidence, exit code | four rules applied in an order to results that may be errors | exit code 0 is earned, PASS has run everything |
| event stream, `internal/events/events.go` | sequence number; two queues and a wake channel | `Publish`, `Close` | publishers at once, a slow terminal, wake-ups, close with events queued | no lifecycle event lost, no lost wake-up, the recorder in sequence |
| runner, `internal/runner/runner.go` | process group, pipes, bounded buffer, timers | `runSpec` | completion against cancellation and two timeouts, forks, descendants that leave the group, two writers of one buffer | output faithful and complete, killed trees gone, a return |
| lessons, `internal/knowledgevault` | a directory of revisions for the project and a global one | draft, review, correct, supersede, promote, search | no lock; create-only files; partial files; a limit checked on a listing; a search that reads four times meanwhile | linked histories that follow the lifecycle and are never rewritten; a search shows what is current and says what it leaves out |
| workflow recorder, `internal/workflow/workflow.go` | the journal `events.jsonl`, its size, `current.md` | `New`, `Publish`, rotation, `Close` | five calls of a rotation that may each fail, with the error ignored | the journal is the end of what was reported, in order and within its size |
| evidence, `internal/evidence` | files of a run, `report.json`, index | `Write`, `Rebuild`, `ReadRun` | readers beside a run that is writing, or died or failed while writing | a report means complete evidence; the index misses no finished run |
| session, `internal/session/session.go` | one file | `Record`, `Prepare` | the result noted for a run whose evidence may not be there | never better than the evidence |
| Fix Records, `internal/fixrecord` | create-only files | record, list, show | invocations that nothing orders, one ID twice, a failed Sync after others have read the file, a tree that changes | a record closes its fix over complete evidence, lasts, and refers to what is there |
| worker protocol, `internal/worker/protocol.go`, `internal/handoff/handoff.go` | none | request, answer, encoding within a limit | four cuts one after another, each with counts, a mark and a way on | what is left out is said to be |
| retrieval, `internal/progressive` | none | failures, failure, evidence | pages that end anywhere, answers that are cut further to fit | nothing lost between pages, nothing of a key shown, no way round in circles |
| advisory knowledge, cache | one file each | read, change, replace | lost updates | the last write wins, by design |
| context, fingerprint | none, or derived | readers | | modelled where others rely on them, in `Evidence` |
| discovery and adapters, secrets, renderer, data types | none | pure functions | data, not control | out of scope, see section 7 |

The behaviours that are hard to test are listed with their lines under
"hazards" in `PROJECT.json`, and each names the properties that would catch it.

## 2 Modules and code

| Module | Models | Size |
|---|---|---|
| `Repair` | `repair.Run` among other writers | 21 variables |
| `ConsentedChange` | abstract: what a repair promises the person who is asked | implemented by `Repair` |
| `RepairCli` | `repaircli`: outcome, exit code and text; EXTENDS `Repair` | operators |
| `Registry` | the registry file, its lock and the invocations | 10 variables |
| `RunBoundary` | abstract: a project changes hands only when its owner gave it back or has gone | implemented by `Registry` |
| `Scheduler` | `scheduler.Run` | 8 variables |
| `Verification` | `verify.ProjectWithOptions` and package policy; EXTENDS `Scheduler` | composed: every step of the scheduler is one of its steps |
| `EventStream` | `events.Stream` and `AsyncSink` | 13 variables |
| `Workflow` | `workflow.Recorder` and the verification that has one; EXTENDS `EventStream` | 8 variables more; composed: every step of the stream is one of its steps |
| `Evidence` | runs that write their evidence, the session, readers of the index | 17 variables |
| `FixRecords` | the Fix Record store and its invocations beside the runs; EXTENDS `Evidence` | composed |
| `AgentResult` | packages `worker` and `handoff`: the first answer to an agent | operators |
| `Progressive` | package `progressive` and an agent that goes where it is sent; EXTENDS `AgentResult` | 8 variables |
| `Runner` | `runner.runSpec` with its processes and goroutines | 19 variables |
| `AnsweredCommand` | abstract: what a caller of `runSpec` relies on | 5 variables; implemented by `Runner` |
| `LessonStore` | abstract: what a reader relies on while lessons are appended | 4 variables; implemented by `KnowledgeVault` |
| `KnowledgeVault` | the invocations that change the lesson store; EXTENDS `LessonStore` | 8 variables |
| `KnowledgeSearch` | `knowledge search` beside the invocations; EXTENDS `KnowledgeVault` | 7 variables more; composed: every step of the store is one of its steps |
| `RepairProofs`, `RegistryProofs`, `VerificationProofs`, `EventStreamProofs`, `RunnerProofs`, `FixRecordsProofs`, `KnowledgeVaultProofs`, `ProgressiveProofs` | the theorems | section 5 |
| `MC*` | the instances for TLC | section 3 |

A definition named like `WriteUnlocked` with the comment "Mutant of" is not
used by a specification. It states a plausible slip in the code it is named
for, and one of the properties must fail when it takes that definition's place.

**Repair.** `pc` is the place in `Run` that comes next, and an action is what
happens between two calls to the outside: a callback, one git command or walk,
one write, one restore. A snapshot is two steps (`CaptureBaseGit`,
`CaptureBaseFiles` and their like) because the code asks git first and walks
the files after, with no lock. `Preflight` and `Backup` are the revalidation
after consent; `CheckBeforeWrite`, the write and `CheckAfterWrite` are the body
of `applyTransaction`'s loop; `undo` and `restore` are the rollback inside the
loop and the one after it, each followed by a capture that must equal the
baseline. `EditFile`, `Stage`, `Commit` and `Tamper` are other programs: they
may do any of these between any two steps, at most `MaxEdits` times. `Crash`
ends the process anywhere. A path is a number in the order in which the code
sorts; a patch hash is the patch; file modes and progress events are left out.

Two limits of what it shows. A target's check and its replacement are two steps
in the code, and one action in the model: an edit that falls between the two is
lost, which is a hazard without a property. And a repair's own two verifications
do not register a run: the boundary of `Registry` is not about them.

**Registry.** An invocation goes through `Resolve` (if the project was named by
its identifier), `Register`, `Begin`, the verification and `Finish`; each takes the lock (`poll`, `wait`, the two steps
`Stat` and `Remove` on a stale lock), loads the file, changes its copy, replaces
the file and removes the lock, and may die or fail at each of these. A lock may
be seen as stale at any moment after its making, also under a living holder when
`Stalls` is set. `usurped` is history: a living holder's lock has been removed
by another. What the lock is for is promised until then; `PathsDistinct`, a
theorem, and `Terminates` are promised in any case.

**Scheduler and Verification.** A plan is the set of checks, what each requires
and locks, and which have a deadline; `AllPlans` stands for what adapters may
produce, since `BuildPlan` refuses cycles and missing dependencies. `Iterate`,
`SkipBlocked`, `StartBatch` and `CollectBatch` are the loop; `Acquire` and
`Return` are the goroutine of a check with the semaphore. A result keeps what
the check returned beside what the scheduler made of it. `Verification` adds
the refusals before there is a plan, the selection by policy, the rules applied
to each result in the order of `policy.Apply` (coverage thresholds, blocking),
the overall status, the failure to save evidence and `ExitCode`.

**EventStream.** The goroutine that has the stream's lock assigns the number,
gives the event to the sink (queue, then signal) and to the recorder. The sink's
goroutine looks at the queues, shows an event, or sleeps on the channel; `Close`
marks, signals and joins. `told`, `shown` and `recorded` are history.

**Workflow.** The recorder works in the step in which `EventStream` hands it an
event, while the stream's lock is held; `place` is where `Publish` is. The five
calls of `rotateLocked` (`ReadJournal`, `CloseJournal`, `Replace`, the reopening
of the old journal in `Replace`, `Reopen`) are steps, each of which may fail, and
`Publish` goes on after any of them, as it ignores the error. A handle that a
rotation has closed and not replaced stays closed: the model keeps it (`handle`),
and no later rotation can get past its `Close`. The journal is a sequence of
bytes, each of which is the number of its event and its place in the line; the
last byte of a line is its newline. A write that fails may have written the first
bytes of its line (`Write`), and the line that comes next is glued to these, so
that a reader gets neither. A cut looks for a newline and takes the journal as it
finds it (`Dropped`).

**Evidence.** A run looks at the tree check by check while it is edited, takes
the fingerprint when all are done, writes its directory with `report.json` last
by a rename, and notes itself in the session. It may fail or be killed anywhere.
A reader lists the directories, reads each and writes `index.json`; a report
that is there and cannot be read, or does not decode, is left out without a word,
at any time (`ReadReport`). Two runs may
overlap, since a `Begin` that fails for another reason than an active run does
not stop a verification. That the fingerprint is of the tree after the checks,
not of the one that they saw, is in the model as it is in the code.

**FixRecords.** An invocation audits the store, reads both reports, compares the
tree with the second, looks up patch and references, and creates its file with
O_EXCL, to write, sync and close it. A failure removes the file by name; a death
leaves it, and one file that is not a valid record stops every later command
(`Audit`). Two things that the model makes plain about the code: after a failed
Sync a record may be removed that another has already referred to; and a check
of the tree, of the limit or of a reference is old when the file is made.
`ReferencesHold` is promised while nothing has failed.

**AgentResult and Progressive.** A text is its length, an answer a record with
the length of what it always says, and encoding is the first of ever shorter
answers that fits (`Shorter`, `Shortened`). The agent of `Progressive` does what
docs/STAGE_7E_A_AGENT_VERIFICATION_BOUNDARY.md asks of one: verify, list the
failures, look at each, read its log, always where `next` of the last answer
sends it; at the end it may call anything else (`Wander`), and the evidence may
be removed (`Lose`). A log is a sequence of bytes in which the two halves of the
markers of a private key are told apart, so that pages end in the middle of one.
What an agent has learnt when the first answer sends it nowhere is what that
answer says: of each failure the first `MaxFailureFindings` findings, which
nothing counts (`FindingsGiven`). The mark of an answer about a log is also set
when the runner had cut the log (`outputTruncated`).

`RepliesTruthful` compares the counts of each answer with the report and with
what the answer holds: of checks and failures in that of `verify --agent`, of
items and references in those of retrieval. It says nothing of the findings and
references inside the first answer.

**Runner.** Processes fork, leave their group, close pipes, write and end as
they like; only what `prepareProcess` and `terminateProcessTree` of
`process_unix.go` do to them is the program's. A copying goroutine reads some of
what a pipe holds, enters `activityWriter.Write` (the lock, the buffer), emits
the event while it has the lock, and ends when nobody can write any more.
`command.Wait` is the end of the first process and of both copiers. The select
statement takes any alternative that is ready. A byte is its number in the order
of writing, so that a lost, repeated or reordered byte is visible. Three things
that the model makes plain about the code: output events may come before
`process_started`; what has been left behind by a command that completed is not
killed; and the wait after a kill has no bound when a process outside of the
group keeps a pipe, although docs/LESSONS.md:11 speaks of "complete process-tree
cleanup". `Returns` is stated for the other case.

**KnowledgeVault.** A revision is a file made with O_EXCL, then written, synced
and closed, and removed when one of these fails; an invocation reads the
directory to find the current revision and again before it creates the next.
Any step may fail, and the process may die at any. `withdrawn` is history: a
file has been removed after its revision was whole in it (a failing Sync or
Close), which may take the ground from under a later revision; the histories are
linked until then. A promotion decides on a revision that may be superseded
meanwhile, which the properties allow because the code does.

**LessonStore and KnowledgeSearch.** `LessonStore` is the store without its
invocations: a file appears without text, as a draft, as the next revision of a
whole one or as the publication of one that was VERIFIED; it gets its text once,
or is removed; and it stays. `KnowledgeVault` implements it (`KeepsStore`), until
a whole file is withdrawn. A search lists the project's directory, reads the
files, and does the same with the global one, while invocations go on. Without
the history it reads each directory a first time only to see whether it can be
read, which may fail at any time; a search that fails shows nothing, and counts
as none. `Chosen`, `Outranks` and `FirstOf` are the choice, the order and the
limit of `Search`; how many results fit into `MaxSearchBytes` is any number.
`began` is history: the revisions that were there when the search began to read,
with their invocations done. `SearchIsCurrent` measures results by these, not by
the store at the end: a lesson superseded after its directory was read is shown,
and the code means it so. `NothingHidden` is its counterpart, with the order of
the results in it: what is missing must be outranked by all that is shown.

## 3 Runs

Every configuration gives values to constants and replaces nothing. Deadlock is
checked in all runs but `history`, where the clock that bounds the number of
files stops every invocation in the end and a search ends for good, and
`evidence` and `closure`, where a run, a reader and an invocation do.

| Run | Configuration | Asks | Distinct states |
|---|---|---|---|
| `disturbed` | `MCRepair_disturbed` | what is on disk at each instant of a repair, what a result and an exit code guarantee, that the run implements `ConsentedChange`, that it ends and settles a cancellation | 422,277 |
| `abandoned` | `MCRepair_abandoned` | that CANCELLED means that nothing changed: violated, finding 1 | |
| `contested` | `MCRegistry_contested` | mutual exclusion, what a recorded run may rely on, `RunBoundary`, that every invocation ends | 2,276,840 |
| `stale_lock` | `MCRegistry_stale_lock` | that one run of a project is recorded: violated, finding 2 | |
| `gate` | `MCVerification_gate` | exclusion, dependencies, reasons for skipping, what exit code 0 stands for, that every verification ends with a verdict on each check | 619,306 |
| `error_kept` | `MCVerification_error_kept` | that an ERROR is not turned into PASS: violated, finding 3 | |
| `events` | `MCWorkflow` | losslessness, wake-ups, the journal, that publishing and closing complete | 819,583 |
| `history` | `MCKnowledgeSearch` | that the invocations implement `LessonStore` (histories are linked, follow the lifecycle and last), and that a search beside them shows what is current and leaves nothing out unsaid | 4,645,505 |
| `evidence` | `MCEvidence` | that the session never claims more than its evidence, and the index misses no finished run whose report could be read | 1,750,028 |
| `closure` | `MCFixRecords` | that records close their fix over complete evidence, last, and refer to records that are there | 1,750,570 |
| `retrieval` | `MCProgressive_retrieval` | that an agent gets all failures and, where it is sent for them, all findings, true counts, no line of a key, and an end | 240,055 |
| `command` | `MCRunner` | that the command implements `AnsweredCommand` (one answer, after all output and faithful to it), killed trees, a return | 304,610 |

**Bounds, and why they are enough.**

- `disturbed`: three files, of which one is forbidden and ignored by git; three
  contents, one not textual; four proposals (two files out of order, one file, a
  file twice, a forbidden file); two allowlists; three worktrees (clean, with a
  binary file, with uncommitted work). Two files to write are what it takes for
  a prefix, for a failure at the second write and for a rollback of the first.
  `MaxEdits = 2` lets a foreign step be made and undone, so that a capture may
  see neither or one of them; the patch stored may be rewritten to one with the
  same targets and other bytes.
- `contested`: two invocations, two projects and three directories, of which one
  no longer exists; an invocation may claim its own directory, or its
  identifier in the other's directory. The registry is empty, or has a run whose
  process has died and a moved project. A lock may be left from before. One poll
  (`MaxPolls = 1`) is enough to fail, to find the lock old, or to take it after
  another has released it. More invocations than two add waiters, and what goes
  wrong between a waiter and a holder needs no third; the proofs are for any
  number.
- `gate`, `error_kept`: two projects of up to three checks under 162 policies
  (what is declared, disabled and required, blocking in three ways, thresholds
  absent, in order or contradictory, with coverage below, between and above
  them); without a policy, every acyclic plan of two and of three checks under
  four ways to share two resources, and plans of five checks in which three may
  run together in two slots. Checks pass, fail, are not tested, warn with a
  blocking result, pass their deadline, or meet a cancellation. Policy and order
  meet only in what is selected, so that the policies are tried on two plans.
- `events`: five events of either kind and a buffer of two: enough for output to
  be dropped while lifecycle events are queued before, between and behind it,
  and for a close to find any of these. Lines of two bytes, so that a write may
  leave nothing or half of one; a journal of seven bytes that keeps five when it is
  cut, so that cuts begin within lines; found empty, or too long and ending within
  a line, so that five events rotate it more than once; two failing calls, which is
  what it takes to lose the file in a rotation and to fail again after it, or to
  tear two lines.
- `evidence`: two runs of one check, so that one may overtake the other and each
  may be the latest, the last to succeed or without a report; a tree of two
  sources and one ignored file, two edits (a repair, and its undoing); two
  failures or deaths; one reader. Runs do not act on each other but through the
  session and the clock, and for these two are enough.
- `closure`: two runs, a check that fails before the repair, one edit of the
  tree at any time (the repair itself, or a change that leaves the evidence
  stale), two invocations that record and list again and again, three candidates of two IDs, of which
  two refer to each other, and one failure or death after a file was created.
  Two invocations are enough for one to find, audit, refer to or replace what
  the other is about to remove. Invocations are symmetric.
- `retrieval`: every report of up to four checks of five kinds (passed, warned,
  warned and blocking, failed with a log, failed with findings), with base
  lengths that leave room for all, some or none of the parts; pages of two
  items, and logs of up to four lines, begin and end markers among them, in
  pages of three bytes, so that a page ends at every place of a marker; with up to
  three lines, a line may have both markers, in either order.
- `history`: two invocations at a time, any number of them one after another,
  one Fix Record that comes and goes, up to three files in a directory and three
  creations in all: draft, review and a supersession or promotion of one lesson,
  or two lessons, with the two invocations at any two points of it. Invocations
  are symmetric.
  A search, with one result that it may show, begins at any point of these
  histories, for the lessons with evidence or for the history of all. While it is
  under way, one invocation is, any number of them one after another, and the Fix
  Record is there (`Calm`, which bounds the run; the properties are proved
  without it). A file that was left unfinished stands for one that a second
  invocation is writing. Searches act on nothing, so that one is enough, and the
  store may stop when it has been read.
- `command`: a first process and one descendant, three bytes, a buffer of two.
  One descendant is enough to be in the group or out of it, to outlive the first
  process, to hold a pipe and to be forked just before a kill. With two bytes in
  the buffer of three written, a write can meet an empty, a part-full and a full
  buffer and cross its end. (Two descendants with two bytes also pass.)

Every property of a passing run has a mutant in `PROJECT.json`: a changed
definition under which TLC must find that property violated.

## 4 Fairness

Liveness is checked under these assumptions and no others.

- `Repair`: `WF(Run)`. It is one goroutine, which goes on as long as what it
  calls returns. The verifier and the worker run their commands under hard
  timeouts, and the prompt returns on a signal; but the engine's own git commands
  (`gitOutputBytes`, repair.go:864-871) have neither a context nor a time limit.
  That they return is assumed: `Terminates` and `CancellationSettles` rest on it,
  and a git that hangs holds up the repair and its cancellation. Other programs,
  the cancellation and death are never fair.
- `Registry`: `WF(Step(p))` for each invocation: the operating system schedules
  it. An invocation never waits for another: it polls, and its wait is bounded,
  so no stronger fairness is needed. Death is not fair.
- `Verification`: `WF` of its own steps, of the scheduler's loop, and of each
  check's `Acquire` and `Return`. A check returns because each command has a
  hard timeout. Weak fairness is enough for the semaphore because the checks of
  a batch are finitely many and each releases its slot once.
- `Workflow` and `EventStream`: `WF` of the publisher that holds the lock, of
  the recorder's calls in it, of the consumer and of the caller of `Close`; none
  of `Show`, which is the terminal. `CloseReturns` has the terminal's cooperation
  as its hypothesis.
- `Progressive`: `WF(Follow)`: an agent goes on as long as it is sent on.
  `RetrievalEnds` is about reports of which every item fits on a page of its own.
- `Runner`: `WF` of `runSpec`, of `Wait`, of the hard timer, and of each copying
  goroutine. The processes may run for ever, stop writing or never end.
- `KnowledgeVault`, `Evidence` and `FixRecords` have no liveness property: each of
  their invocations is a sequence of steps without a wait.

## 5 Proofs

Everything listed here is checked by `tlapm` down to the last leaf, with SMT,
Zenon and LS4. The theorems hold for every value of the constants that the named
assumptions allow: any set of files and contents, any number of foreign steps,
invocations, checks, slots, processes, bytes and events. The assumptions are the
types of the constants, that null values are none of the values, that plans are
acyclic (`BuildPlan` refuses others), that policy and outcomes are what
`Validate` and the adapters produce, and that the registry file a user starts
with is well formed.

| Module | Proves | By |
|---|---|---|
| `RepairProofs` | `TypeOK`, `Consistent`, `SuccessIsProved`, `CancelledIsProved`, `ExitZeroIsProved`, `CancellationStopsWork`, and that `Repair` implements `ConsentedChange`; `PrefixOfPatch`, `AllOrNothing` | `TypeOK /\ Consistent`, that a settled run has a status, and `Undisturbed` |
| `RegistryProofs` | `TypeOK`, `LockHeld`, `RecordedRunIsRunning`, `RegistrationLasts`, `PathsDistinct`, and that `Registry` implements `RunBoundary` | `IInv` |
| `VerificationProofs` | of the scheduler `TypeOK`, `ResourcesExclusive`, `ConcurrencyBounded`, `DependenciesHold`, `SkippedForCause`, `VerdictsFinal`; that every verification is a run of the scheduler (`VSpec => Spec`), `VTypeOK`, `ExitZeroIsEarned`, `PassHasRunAll` | the scheduler's `IInv` and `VIInv` |
| `EventStreamProofs` | `TypeOK`, `LifecycleLossless`, `OutputBounded`, `NoLostWakeup`, `CloseDrains`, `RecordedInSequence`; that a verification with its recorder is a behaviour of the stream (`WorkSpec => Spec`), and so that these hold in it; `JournalKeepsTail` | `IInv`, `JournalInv` (`WorkTypes`, `Placed`, `Kept`, `Ordered`, `Counted`, `Exact`) |
| `RunnerProofs` | `TypeOK`, `OutputFaithful`, `OutputComplete`, `TreeGone`, and that `Runner` implements `AnsweredCommand` | `IInv`, and `Causes` |
| `FixRecordsProofs` | types of `Evidence` and `FixRecords`, `SessionHonest`, `AnswerNotOutrun`, `TrustedClosure`, `RecordedLasts`, `ReferencesHold` | one invariant for each, and what holds of every place of an invocation |
| `KnowledgeVaultProofs` | `TypeOK`, `HistoryLinked`, `LifecycleFollowed`, `SettledLasts`, that `KnowledgeVault` implements `LessonStore`; that a store with a search is one (`SearchSpec => Spec`), `SearchIsCurrent` and `NothingHidden` | `IInv`, `SearchInv`, `Gathered` |
| `ProgressiveProofs` | `TypeOK`, `RepliesTruthful`, `NothingMissed`, `LinesShownWhole` | `Gathering` (`Going`, `Learning`) and `Looking` |

Not every theorem is about a property of a run. Type invariants are proved and
not run again. `Consistent`, `CancelledIsProved`, `PathsDistinct`,
`ConcurrencyBounded`, `VerdictsFinal`, `PassHasRunAll`, `RecordedInSequence`,
`OutputBounded`, `OutputFaithful`, `HistoryLinked`, `LifecycleFollowed` and `SettledLasts` were
checked by TLC before they were proved, and are now kept by
their theorems alone, as these hold for every instance.

The properties are seldom inductive; what had to be added is the argument.

- **Repair.** `Consistent` relates what is shown, hashed, agreed to, decoded and
  backed up at each point; `SuccessIsProved` follows because `ValidateDelta`
  compares a capture with the baseline at a point at which all of these are the
  same patch. The refinement maps `shown` to the hash, `origin` to the
  baseline's files and the phase to groups of places in `Run`; each action is
  one step of the promise, a step of others or a stutter.
- **Atomicity.** A failed write is among the attempted files and not in the
  tree, so "a prefix is written" says too little: `Undisturbed` says which
  prefix at each place of the loop and of both rollbacks.
- **Registry.** The invariant says what the copy of the invocation in the
  critical section has in common with the file: unchanged since it was loaded
  while the lock can be trusted, and changed only as the operation may. That is
  what makes a whole-file replacement keep everybody else's entries.
  `PathsDistinct` is inductive by the check of the copy alone, and so survives
  the failure of the lock.
- **Scheduler.** Every check of the plan is pending or decided, never both; a
  batch is of pending, ready and pairwise compatible checks; the goroutines that
  run are of the batch. `SkippedForCause` needs that an acyclic plan with
  nothing ready and nothing blocked has nothing pending.
- **Verification.** The plan that policy leaves is among `Plans`
  (`FilterKeepsPlans`), so every step of the scheduler's part is one of the
  scheduler's, and its theorems carry over.
- **EventStream.** The history of what was told is what was shown, the event in
  hand and the queue; the queues are sorted by number, and below what comes
  next; the places of closing and consumer agree.
- **Workflow.** No step of the recorder touches a variable of the stream, but
  the last one, which is the stream's `Record`; so `WorkSpec` implements `Spec`
  and nothing has to be proved twice. `JournalKeepsTail` says too little of the
  middle of an event. `JournalInv` says where the recorder may be and in which
  places of a rotation it has no file (`Placed`); that the journal lacks no more
  than a cut of all that was written takes away, so that no later cut takes away
  more (`Kept`); that bytes come in the order of numbers and places (`Ordered`);
  and that the events lost, and one more if a line is unfinished, are no more than
  two for each failure and one for what was unfinished at first (`Counted`): a
  failing write costs its own event, and leaves a line to which the next may be
  glued. Events that the terminal was told of and the journal was not yet are
  left out of the count (`Due`). Without failures the sizes are exact (`Exact`).
  What a cut does is a lemma (`CutFacts`), as are that a cut of a longer journal
  begins no earlier (`DroppedGrows`), that a line stays readable whatever is
  appended (`ReadableStays`), and that a line written behind a newline can be read
  (`LineReadable`), for any length of lines.
- **Evidence.** What was there when a reader began is among the runs that it has
  read or has yet to read (`Unmissed`), those that it failed to read left out, and
  a report never changes. That there is
  a newest one at all needs that the clock is past the end of every run
  (`Dated`): there may be any number of runs, but only so many instants.
- **FixRecords.** A report that is there is never changed and its directory is
  complete, which makes what an invocation has read still true when it writes,
  however late; a file under a name is created once and removed only by the
  invocation that created it and has not returned, so that what has returned
  lasts. Without failures no file is ever removed, and a reference that was
  looked up stays.
- **KnowledgeVault.** A file belongs to one invocation from its creation until
  that one is done (`Owned`), so nobody replaces or removes a whole file but the
  one who wrote it; and what an invocation carries from its reading to its
  writing still continues a whole revision of the store (`Sound`), because
  nothing but a withdrawal takes one away. Neither needs the second reading of
  the directory: it is the name and O_EXCL that keep histories linked. The
  refinement adds that what is about to be created is a draft, a revision or a
  publication of what is there (`CreatedIsNext`), though it was decided on in
  the past: the revision that it continues is whole and unchanged, so a step
  that creates a file is an `Append`, one that writes or removes it a `Fill`, and
  all others stutter.
- **KnowledgeSearch.** What was settled when a search began stays settled
  (`SettledStay`), and so is among the names listed and the files read later;
  the newest of these cannot be older than it. `NothingHidden` adds that each
  directory is read once, so that what is found has no revision twice (`Distinct`),
  that the order of the results is total on such a set, and that counting what
  comes before a lesson follows that order (`FirstOutrank`).
- **Runner.** `Flow` counts each byte: in a pipe, in a copier's hands or in the
  buffer, an end of file is final, and only one copier emits. `Tree` keeps that
  the dead hold no pipes and that a killed group stays dead, whatever is forked
  outside of it. `OutputFaithful` rests on two lemmas about sequences: cutting
  the first bytes of a concatenation is cutting its parts. That `Runner`
  implements `AnsweredCommand` follows from these, read at the caller's side:
  while a byte is on its way there is no answer (`NoAnswerYet`), when both pipes
  have ended all that was said has been heard (`AllHeard`), and what the buffer
  then holds is the beginning of it (`Replied`). `Causes` adds that a
  cancellation was asked for, and that nothing is said before the start.

- **AgentResult and Progressive.** Each answer is characterised once, whichever
  of its cuts fits (`ListAnswer`, `DetailAnswer`, `LogAnswer`, `AgentAnswer`): its
  items are those from its offset on, its counts are theirs, and `next` goes on
  behind the last. The agent's state adds where it is: it goes on where what it
  was told ends (`Going`), has all findings of the checks behind its subject, none
  of those before it, and of the subject those up to its offset (`Learning`); one that
  the first answer sends nowhere has as many of each as an item holds.
  Whether an item fits does not matter for any of this, so that the sums of
  lengths can stay unopened.
- **The lines of a log.** `PageShows`: of a settled log a page shows what is due
  of it and no more. A line that does not cross the end of a page starts and ends
  on it, so all depends on whether a key is open where it starts. `OpenIs` says
  that this does not depend on the page: with no marker above the line on its
  page it is what it was when the page began (`OpenUnmarked`), else it is decided
  by the last line with markers (`OpenMarked`), since no marker stands below that
  one (`LastMarked`), also none that the end of a page cuts in two (`MarkerLine`).
  `Looking` carries this along: what was shown of the subject's log is what is due
  up to the offset, which is the end of a page. The attempt to prove it for all
  logs failed, which is how `Settled` came about; see section 6.

**Only model-checked.** Liveness, because the prover has no `ENABLED` and no
fairness: `Terminates` of both modules, `CancellationSettles`,
`VerificationEnds`, `PublishCompletes`, `CloseReturns`, `Returns`,
`RetrievalEnds`. Every other property of a passing run is a theorem. What folds
compute for every input (the sums of lengths in `AgentResult`) would need
induction over data, which is out of the prover's reach; no module declares a
recursive operator.

## 6 Findings

Each is a run with the verdict "violation" and a short trace.

1. `abandoned`: the check before a later write of `applyTransaction` returns
   without a rollback (repair.go:1129). The run ends CANCELLED, exits with 4 and
   says that no project files changed, with the first file written.
   docs/STAGE_7D_C_CONTROL.md:265 requires the rollback first.
2. `stale_lock`: a lock is judged stale by a Stat and removed by name later
   (registry.go:370). The second of two waiters removes the fresh lock of the
   first, and both record a run of one project.
3. `error_kept`: the coverage thresholds overwrite the ERROR of a coverage check
   that timed out after its evidence was read (policy.go:259); docs/LESSONS.md:41
   says never to turn an ERROR into a PASS.

Six more disagreements were met while modelling and have no run, because the
property would only restate the lines that disagree:

- `FilterChecks` drops a required check whose dependency is disabled
  (policy.go:169), without a line in the report, and the verification exits with
  0; policy.go:208 refuses only the direct form.
- The limit of a lesson store is checked on a listing and the file is made later
  (store.go:382); two appends leave a directory that every reader refuses. The
  Fix Records check theirs in the same way.
- The first answer to an agent cuts the findings of a failure to 8 and its
  evidence paths to 16 without counts (worker/protocol.go:428-436), where
  docs/STAGE_7E_A_AGENT_VERIFICATION_BOUNDARY.md:68 says "Preserve total and
  returned counts when details are truncated." The cut does not set the mark of
  the answer either, so that an agent whose answer is whole but for this is sent
  nowhere and never learns of the rest; `NothingMissed` promises it the first
  `MaxFailureFindings` and no more, and `RepliesTruthful` leaves these counts out.
- `Rebuild` leaves a run out of the index when its report cannot be read for any
  reason, or does not decode (evidence/index.go:58-64), and returns no error. The
  latest run that `history` and `context` then tell may be an older one.
  `AnswerNotOutrun` speaks of the reports that could be read.
- An item that alone does not fit makes an empty page whose next page is itself
  (progressive/protocol.go:145-148, 162). With the limits of the code an item is
  far smaller than a page, and `RetrievalEnds` names the condition.
- When a line of a log has a begin marker behind its last end marker, what
  follows it on its page is shown (`sanitizeRawLines` lets the end marker count
  last, progressive/retrieval.go:372-377) and what follows it on the next page is
  not (`privateKeyState` compares positions, retrieval.go:326-340).
  docs/LESSONS.md:65 says "Evidence redaction carries line and private-key state
  across byte pages". A log of six bytes shows it as soon as `LinesShownWhole` is
  asked of all logs; it is stated for those without such a line (`Settled`), a key
  that begins and ends in one line among them.

The properties of the passing runs are stated so that they hold beside these:
`~AbandonedWrites` is finding 1 and nothing else; `~usurped` is finding 2 and the
holder that was delayed for longer than `lockStale`; coverage is judged by its
evidence, as in finding 3; an exit code 0 may stand for a report that is
NOT_TESTED, INSUFFICIENT_EVIDENCE or REQUIRES_REVIEW, none of whose checks is
blocking (verify.go:142-165), and `ExitZeroIsProved` says no more; and no property of a store depends on its limit.

## 7 What is not modelled

- Advisory knowledge and check cache: one file each, replaced as a whole; the
  later rename wins, and their documents promise no more.
- Discovery and adapters, secrets check, renderer, data types: pure functions
  over data. What they hand to the modelled parts is enumerated there (plans,
  outcomes, proposals). The context's and the failure packet's texts.
- Paths: canonical forms, symbolic links and containment are taken to be as the
  code checks them.
- Of the modelled parts: wording and events that nothing reads back, argument
  parsing, reading and merging of policy files, provenance, the environment of
  commands, executables' resolution, taskkill on Windows, the second attempt of
  `RunGradleDependencyGraph` (which is also made after a cancellation), the
  index file of lessons (`knowledge rebuild` writes it from a reading of the
  store, as a whole, and no command reads it), the words put in place of a secret, the
  hashes of records and trees, and the bytes of patches and files.
- `BuildPlan`'s depth-first search: the plans it accepts are given.

Hazards that no property covers yet are listed with the reason in
`PROJECT.json`.

## 8 Plan

Done, in this order: `Repair`, `ConsentedChange` and `RepairCli` (the only
component that writes to a person's files); `Registry` and `RunBoundary`;
`Scheduler` and `Verification`; `EventStream` and `Workflow`; `KnowledgeVault`;
`Runner`; `Evidence` and `FixRecords`; with the proofs of each; `AgentResult` and
`Progressive`; `LessonStore`, with the proof that it is implemented, and
`KnowledgeSearch`.

Next, to extend the model:

1. The prompt of `repaircli`.
2. The loading and merging of policies.

Then, to prove more:

3. That a check's `Return` in `Scheduler` is the answer of an `AnsweredCommand`.
