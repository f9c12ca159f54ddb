------------------------------- MODULE Repair -------------------------------
(***************************************************************************)
(* One run of the controlled repair engine, repair.Run: verify the         *)
(* baseline, capture it, obtain a proposal, show it, obtain a human        *)
(* decision, revalidate, apply the patch file by file, prove the           *)
(* resulting state, verify again, or roll back and prove the restoration.  *)
(*                                                                         *)
(* Other programs and people work in the same project directory, so files, *)
(* HEAD, the index and the stored patch may change between any two steps   *)
(* (at most MaxEdits times); the context may be cancelled at any moment    *)
(* and the process may die at any moment.                                  *)
(*                                                                         *)
(* Abstractions.  A path is a number, its place in the order sort.Slice    *)
(* gives; a file is its bytes, its mode is left out; the SHA-256 of a      *)
(* canonical patch is the patch itself; HEAD, branch and project identity, *)
(* which the code always compares together, are one counter `head'.  A     *)
(* capture is two steps, the git commands and then the walk over the       *)
(* files, because the code takes them in that order with no lock.          *)
(* Progress events, which nothing reads back, are left out.  A context     *)
(* check is part of the step before it or after it, except in the write    *)
(* loop, where each check is a step of its own.                            *)
(***************************************************************************)
EXTENDS Naturals, Sequences, FiniteSets

CONSTANTS
    Files,          \* every path the project may contain, .git and .devctl excepted
    Contents,       \* file contents
    Textual,        \* contents that pass the textual validation of a patch
    Absent,         \* the file does not exist
    Forbidden,      \* paths forbiddenPath rejects
    Ignored,        \* paths git status does not report
    Allowlists,     \* values of Options.AllowedPaths
    Proposals,      \* what the worker may return
    OtherPatches,   \* patches other than this run's: tampering, a stale decision
    InitialTrees,   \* what the worktree may hold when the run starts
    HeadTree0,      \* what HEAD holds when the run starts
    MaxEdits        \* bound on the steps of others

Bytes == Contents \union {Absent}
Tree == [Files -> Bytes]
Patch == [pre : Tree, post : Tree]
\* What verify.overall returns.
Statuses == {"PASS", "WARN", "NOT_TESTED", "INSUFFICIENT_EVIDENCE", "REQUIRES_REVIEW", "FAIL", "ERROR"}

ASSUME FilesAssumption == Files \subseteq Nat /\ IsFiniteSet(Files)
ASSUME ContentsAssumption == Textual \subseteq Contents /\ Absent \notin Contents
ASSUME PathsAssumption ==
    /\ Forbidden \subseteq Files
    /\ Ignored \subseteq Files
    /\ Allowlists \subseteq SUBSET Files
ASSUME ProposalsAssumption ==
    Proposals \subseteq
        [matches : BOOLEAN, changes : Seq([path : Files, content : Contents])]
ASSUME WorldAssumption ==
    /\ OtherPatches \subseteq Patch
    /\ InitialTrees \subseteq Tree
    /\ HeadTree0 \in Tree
    /\ MaxEdits \in Nat

VARIABLES
    tree,       \* the worktree
    head,       \* HEAD, branch and project identity
    headTree,   \* the files HEAD holds
    staged,     \* the index differs from HEAD
    artifact,   \* the patch file under .devctl/evidence/repair
    edits,      \* steps others have taken
    cancelled,  \* ctx.Done() is closed
    pc,         \* where Run is
    allowed,    \* Options.AllowedPaths
    base,       \* the baseline snapshot
    snap,       \* the snapshot being captured, or captured last
    hash,       \* result.DiffHash
    changes,    \* the changes last decoded from the stored patch
    consent,    \* the patch the human's decision names
    outcome,    \* result.Approval.Outcome
    backups,    \* what applyTransaction read before writing
    attempted,  \* paths the write loop has attempted
    undo,       \* paths a rollback still has to restore
    reason,     \* why a rollback runs
    status,     \* the last report's status, then result.FinalStatus
    err         \* the error Run returns

disk == <<tree, head, headTree, staged, artifact>>
world == <<disk, edits, cancelled>>
plan == <<base, snap, hash, changes, consent>>
loop == <<backups, attempted, undo, reason>>
report == <<outcome, status, err>>
vars == <<world, pc, allowed, plan, loop, report>>

-----------------------------------------------------------------------------
(* Snapshots and patches.                                                  *)

Snapshot == [head : Nat, staged : BOOLEAN, clean : BOOLEAN, files : Tree]

NoTree == [f \in Files |-> Absent]
NoPatch == [pre |-> NoTree, post |-> NoTree]
NoSnapshot == [head |-> 0, staged |-> FALSE, clean |-> FALSE, files |-> NoTree]

\* git status --porcelain --untracked-files=all reports nothing.
StatusClean ==
    ~staged /\ \A f \in Files \ Ignored : tree[f] = headTree[f]

Targets(p) == {f \in Files : p.post[f] # Absent}

\* The tree that results from writing the patch's files in S over t.
Overlay(t, p, S) == [f \in Files |-> IF f \in S THEN p.post[f] ELSE t[f]]

\* The first and the last path of S in patch order.
IsFirst(f, S) == f \in S /\ \A g \in S : f <= g
\* Mutant of IsLast: rollbacks walk the backups forwards.
IsFirstNotLast(f, S) == IsFirst(f, S)
IsLast(f, S) == f \in S /\ \A g \in S : g <= f

\* validateAllowedPaths
AllowlistValid == allowed # {} /\ allowed \cap Forbidden = {}

ProposedPaths(p) == {p.changes[i].path : i \in DOMAIN p.changes}

\* canonicalizeProposal: the envelope, the paths and the contents.
ProposalValid(p) ==
    /\ p.matches
    /\ p.changes # <<>>
    /\ ProposedPaths(p) \subseteq allowed \ Forbidden
    /\ \A i, j \in DOMAIN p.changes :
           p.changes[i].path = p.changes[j].path => i = j
    /\ \A i \in DOMAIN p.changes :
           /\ p.changes[i].content \in Textual
           /\ tree[p.changes[i].path] # Absent

\* canonicalizeProposal: preimages are the bytes on disk now.
Canonical(p) ==
    [pre |-> [f \in Files |-> IF f \in ProposedPaths(p) THEN tree[f] ELSE Absent],
     post |-> [f \in Files |->
                 IF f \in ProposedPaths(p)
                 THEN (CHOOSE c \in Contents :
                         \E i \in DOMAIN p.changes :
                             p.changes[i] = [path |-> f, content |-> c])
                 ELSE Absent]]

\* decodePatchArtifact
Decodable(p) ==
    /\ Targets(p) # {}
    /\ \A f \in Targets(p) :
           f \notin Forbidden /\ p.pre[f] \in Textual /\ p.post[f] \in Textual

\* preflight: each target still has the baseline's and the preimage's bytes.
PreflightPasses ==
    \A f \in Targets(changes) :
        tree[f] # Absent /\ tree[f] = base.files[f] /\ tree[f] = changes.pre[f]

\* Mutant of DeltaMatches: only the approved paths are compared.
DeltaOfTargetsMatches ==
    \A f \in Targets(changes) :
        snap.files[f] # base.files[f] /\ snap.files[f] = changes.post[f]

\* deltaProvenance
DeltaMatches ==
    /\ snap.head = base.head /\ snap.staged = base.staged
    /\ \A f \in Targets(changes) :
           /\ base.files[f] # Absent
           /\ snap.files[f] # base.files[f]
           /\ snap.files[f] = changes.post[f]
    /\ \A f \in Files \ Targets(changes) : snap.files[f] = base.files[f]

-----------------------------------------------------------------------------
(* Ways a step ends.                                                       *)

\* stopAt: record the error, then persist.
StopAt(e) == pc' = "persist" /\ err' = e /\ status' = "ERROR"

Stop(e) == StopAt(e) /\ UNCHANGED outcome

\* A context check that fails once an approval record exists.
StopCancelled == outcome' = "CANCELLED" /\ StopAt("Cancelled")

\* Enter one of the two rollbacks.
RollBack(at, why, S) == pc' = at /\ reason' = why /\ undo' = S

\* rollbackOnPostApplyCancellation up to its rollback.
RollBackCancelled ==
    /\ RollBack("restore", "Cancelled", DOMAIN backups)
    /\ outcome' = "CANCELLED" /\ UNCHANGED <<status, err>>

Proceed(next) == pc' = next /\ UNCHANGED <<outcome, status, err>>

ProceedUnlessCancelled(next) ==
    \/ ~cancelled /\ Proceed(next)
    \/ cancelled /\ StopCancelled

\* captureSnapshot, its git commands: HEAD, branch, status, index.
CaptureGit(at, next) ==
    /\ pc = at
    /\ pc' = next
    /\ snap' = [head |-> head, staged |-> staged, clean |-> StatusClean,
                files |-> NoTree]
    /\ UNCHANGED <<world, allowed, base, hash, changes, consent, loop, report>>

\* captureSnapshot, its walk over the files.
Captured == [snap EXCEPT !.files = tree]

Init ==
    /\ tree \in InitialTrees /\ head = 0 /\ headTree = HeadTree0
    /\ staged = FALSE /\ artifact = NoPatch /\ edits = 0 /\ cancelled = FALSE
    /\ pc = "validate" /\ allowed \in Allowlists
    /\ base = NoSnapshot /\ snap = NoSnapshot
    /\ hash = NoPatch /\ changes = NoPatch /\ consent = NoPatch
    /\ backups = <<>> /\ attempted = {} /\ undo = {} /\ reason = "none"
    /\ outcome = "none" /\ status = "none" /\ err = "none"

-----------------------------------------------------------------------------
(* Before the human is asked.                                              *)

\* A second attempt, a missing callback, a bad task identifier or root:
\* stop without persisting anything.
RefuseRequest ==
    /\ pc = "validate"
    /\ pc' = "done" /\ err' = "Request" /\ status' = "ERROR"
    /\ UNCHANGED <<world, allowed, plan, loop, outcome>>

Validate ==
    /\ pc = "validate"
    /\ \/ cancelled /\ Stop("Cancelled")
       \/ ~cancelled /\ ~AllowlistValid /\ Stop("Paths")
       \/ ~cancelled /\ AllowlistValid /\ Proceed("verifying")
    /\ UNCHANGED <<world, allowed, plan, loop>>

\* Options.Verify returns: nothing but a FAIL baseline is repaired.
Verified ==
    /\ pc = "verifying"
    /\ \E s \in Statuses :
         \/ cancelled /\ Stop("Cancelled")
         \/ /\ ~cancelled /\ status' = s
            /\ pc' = IF s = "FAIL" THEN "baseGit" ELSE "persist"
            /\ UNCHANGED <<outcome, err>>
    /\ UNCHANGED <<world, allowed, plan, loop>>

CaptureBaseGit == CaptureGit("baseGit", "baseFiles")

CaptureBaseFiles ==
    /\ pc = "baseFiles"
    /\ \/ Stop("Capture") /\ UNCHANGED plan
       \/ ~snap.clean /\ Stop("Dirty") /\ UNCHANGED plan
       \/ /\ snap.clean
          /\ snap' = Captured /\ base' = Captured
          /\ UNCHANGED <<hash, changes, consent>>
          /\ \/ ~cancelled /\ Proceed("proposing")
             \/ cancelled /\ Stop("Cancelled")
    /\ UNCHANGED <<world, allowed, loop>>

\* Options.Propose fails, or returns after the context was cancelled.
ProposeFails ==
    /\ pc = "proposing"
    /\ Stop("Worker") \/ (cancelled /\ Stop("Cancelled"))
    /\ UNCHANGED <<world, allowed, plan, loop>>

\* Options.Propose returns a proposal, which canonicalizeProposal judges.
Propose(p) ==
    /\ pc = "proposing" /\ ~cancelled
    /\ \/ /\ ~ProposalValid(p)
          /\ Stop("Proposal") /\ UNCHANGED hash
       \/ /\ ProposalValid(p)
          /\ hash' = Canonical(p)
          /\ Proceed("storePatch")
    /\ UNCHANGED <<world, allowed, base, snap, changes, consent, loop>>

\* persistPatchArtifact
StorePatch ==
    /\ pc = "storePatch"
    /\ \/ artifact' = hash /\ Proceed("readPatch")
       \/ Stop("Store") /\ UNCHANGED artifact
    /\ UNCHANGED <<tree, head, headTree, staged, edits, cancelled, allowed,
                   plan, loop>>

\* Mutant of ReadPatch: the person is asked although the context is cancelled.
ReadPatchUnchecked ==
    /\ pc = "readPatch" /\ artifact = hash /\ Decodable(artifact)
    /\ changes' = artifact /\ Proceed("approving")
    /\ UNCHANGED <<world, allowed, base, snap, hash, consent, loop>>

\* Read back what was stored and show it.
ReadPatch ==
    /\ pc = "readPatch"
    /\ \/ artifact # hash /\ Stop("DiffMismatch") /\ UNCHANGED changes
       \/ /\ artifact = hash
          /\ changes' = artifact
          /\ LET shown == /\ Decodable(artifact)
                          /\ \A f \in Targets(artifact) : base.files[f] # Absent
             IN \/ ~shown /\ Stop("Artifact")
                \/ shown /\ ProceedUnlessCancelled("approving")
    /\ UNCHANGED <<world, allowed, base, snap, hash, consent, loop>>

-----------------------------------------------------------------------------
(* The decision.                                                           *)

Decision == [outcome : {"", "APPROVED", "REJECTED", "CANCELLED"},
             approved : BOOLEAN, hash : {hash} \union OtherPatches]

\* A decision without an outcome falls back on its Approved flag.
Effective(d) ==
    IF d.outcome # "" THEN d.outcome
    ELSE IF d.approved THEN "APPROVED" ELSE "REJECTED"

\* Options.Approve returns an error.
ApproveFails ==
    /\ pc = "approving"
    /\ \/ Stop("Approve")
       \/ /\ outcome' = "CANCELLED"
          /\ StopAt(IF cancelled THEN "Cancelled" ELSE "ApprovalCancelled")
    /\ UNCHANGED <<world, allowed, plan, loop>>

\* Options.Approve returns a decision other than approval.
Decline(d) ==
    /\ pc = "approving" /\ Effective(d) # "APPROVED"
    /\ outcome' = Effective(d)
    /\ StopAt(IF Effective(d) = "CANCELLED" THEN "ApprovalCancelled"
              ELSE "ApprovalRejected")
    /\ UNCHANGED <<world, allowed, plan, loop>>

\* Options.Approve returns an approval; it must name the patch displayed.
Approve(d) ==
    /\ pc = "approving" /\ Effective(d) = "APPROVED"
    /\ consent' = d.hash
    /\ \/ d.hash # hash /\ outcome' = "APPROVED" /\ StopAt("DiffMismatch")
       \/ /\ d.hash = hash
          /\ \/ /\ ~cancelled /\ outcome' = "APPROVED" /\ pc' = "reread"
                /\ UNCHANGED <<status, err>>
             \/ cancelled /\ StopCancelled
    /\ UNCHANGED <<world, allowed, base, snap, hash, changes, loop>>

-----------------------------------------------------------------------------
(* Between approval and the first write.                                   *)

\* Mutant of RereadPatch: the hash is not compared a second time.
RereadPatchUnhashed ==
    /\ pc = "reread" /\ Decodable(artifact)
    /\ changes' = artifact
    /\ ProceedUnlessCancelled("preGit")
    /\ UNCHANGED <<world, allowed, base, snap, hash, consent, loop>>

\* The stored patch is read again: it must still be the approved one.
RereadPatch ==
    /\ pc = "reread"
    /\ \/ artifact # hash /\ Stop("DiffMismatch") /\ UNCHANGED changes
       \/ artifact = hash /\ ~Decodable(artifact) /\ Stop("Artifact") /\ UNCHANGED changes
       \/ /\ artifact = hash /\ Decodable(artifact)
          /\ changes' = artifact
          /\ ProceedUnlessCancelled("preGit")
    /\ UNCHANGED <<world, allowed, base, snap, hash, consent, loop>>

RecaptureGit == CaptureGit("preGit", "preFiles")

RecaptureFiles ==
    /\ pc = "preFiles"
    /\ \/ Stop("Capture") /\ UNCHANGED snap
       \/ /\ snap' = Captured
          /\ \/ Captured # base /\ Stop("BaselineChanged")
             \/ /\ Captured = base
                /\ ProceedUnlessCancelled("preflight")
    /\ UNCHANGED <<world, allowed, base, hash, changes, consent, loop>>

Preflight ==
    /\ pc = "preflight"
    /\ \/ ~PreflightPasses /\ Stop("Preflight")
       \/ PreflightPasses /\ ProceedUnlessCancelled("backup")
    /\ UNCHANGED <<world, allowed, plan, loop>>

-----------------------------------------------------------------------------
(* applyTransaction and rollbackAndProve.                                  *)

\* Every target is read, compared with the baseline and kept.
Backup ==
    /\ pc = "backup"
    /\ LET unchanged == \A f \in Targets(changes) :
                            tree[f] # Absent /\ tree[f] = base.files[f]
       IN \/ ~unchanged /\ Stop("Apply") /\ UNCHANGED loop
          \/ /\ unchanged
             /\ backups' = [f \in Targets(changes) |-> tree[f]]
             /\ Proceed("beforeWrite")
             /\ UNCHANGED <<attempted, undo, reason>>
    /\ UNCHANGED <<world, allowed, plan>>

Pending == DOMAIN backups \ attempted

\* The check before each write returns without any rollback.
CheckBeforeWrite ==
    /\ pc = "beforeWrite"
    /\ ProceedUnlessCancelled("write")
    /\ UNCHANGED <<world, allowed, plan, loop>>

\* Mutant of Write: a failing write returns without restoring the earlier ones.
WriteWithoutRollback(f) ==
    /\ pc = "write" /\ IsFirst(f, Pending)
    /\ attempted' = attempted \union {f}
    /\ \/ /\ tree' = [tree EXCEPT ![f] = changes.post[f]]
          /\ pc' = "afterWrite" /\ UNCHANGED report
       \/ Stop("Apply") /\ UNCHANGED tree
    /\ UNCHANGED <<head, headTree, staged, artifact, edits, cancelled,
                   allowed, plan, backups, undo, reason>>

\* Mutant of Write: the loop does not advance.
WriteWithoutAdvance(f) ==
    /\ pc = "write" /\ IsFirst(f, Pending)
    /\ tree' = [tree EXCEPT ![f] = changes.post[f]]
    /\ pc' = "afterWrite"
    /\ UNCHANGED <<head, headTree, staged, artifact, edits, cancelled,
                   allowed, plan, loop, report>>

\* The writer replaces the next file or fails and leaves it.
Write(f) ==
    /\ pc = "write" /\ IsFirst(f, Pending)
    /\ attempted' = attempted \union {f}
    /\ \/ /\ tree' = [tree EXCEPT ![f] = changes.post[f]]
          /\ pc' = "afterWrite" /\ UNCHANGED <<undo, reason>>
       \/ RollBack("undo", "Apply", attempted') /\ UNCHANGED tree
    /\ UNCHANGED <<head, headTree, staged, artifact, edits, cancelled,
                   allowed, plan, backups, report>>

CheckAfterWrite ==
    /\ pc = "afterWrite"
    /\ \/ /\ cancelled /\ RollBack("undo", "Cancelled", attempted)
          /\ UNCHANGED report
       \/ /\ ~cancelled /\ UNCHANGED <<undo, reason>>
          /\ \/ Pending # {} /\ Proceed("beforeWrite")
             \/ Pending = {} /\ Proceed("postGit")
    /\ UNCHANGED <<world, allowed, plan, backups, attempted>>

\* rollbackAndProve restores the attempted files, last first.
Undo(f) ==
    /\ pc = "undo" /\ IsLast(f, undo)
    /\ \/ /\ tree' = [tree EXCEPT ![f] = backups[f]]
          /\ undo' = undo \ {f} /\ UNCHANGED <<pc, report>>
       \/ Stop("Rollback") /\ UNCHANGED <<tree, undo>>
    /\ UNCHANGED <<head, headTree, staged, artifact, edits, cancelled,
                   allowed, plan, backups, attempted, reason>>

UndoProveGit == undo = {} /\ CaptureGit("undo", "undoFiles")

\* The restoration is proved against the baseline before it is reported.
UndoProve ==
    /\ pc = "undoFiles"
    /\ \/ Stop("Rollback") /\ UNCHANGED snap
       \/ snap' = Captured /\ Captured # base /\ Stop("Rollback")
       \/ /\ snap' = Captured /\ Captured = base
          /\ IF reason = "Cancelled" THEN StopCancelled ELSE Stop(reason)
    /\ UNCHANGED <<world, allowed, base, hash, changes, consent, loop>>

-----------------------------------------------------------------------------
(* After the last write: prove the resulting state, verify again.          *)

PostStateGit ==
    \/ ~cancelled /\ CaptureGit("postGit", "postFiles")
    \/ /\ pc = "postGit" /\ cancelled /\ RollBackCancelled
       /\ UNCHANGED <<world, allowed, plan, backups, attempted>>

PostStateFiles ==
    /\ pc = "postFiles"
    /\ \/ cancelled /\ RollBackCancelled /\ UNCHANGED snap
       \/ /\ ~cancelled /\ RollBack("restore", "Capture", DOMAIN backups)
          /\ UNCHANGED <<snap, report>>
       \/ /\ ~cancelled /\ snap' = Captured
          /\ Proceed("postDelta") /\ UNCHANGED <<undo, reason>>
    /\ UNCHANGED <<world, allowed, base, hash, changes, consent, backups, attempted>>

\* reconstructActualPatch: the targets on disk, now, give the same patch.
ReconstructionMatches ==
    /\ \A f \in Targets(changes) : tree[f] = changes.post[f]
    /\ changes = hash

\* The reconstructed patch and then the captured delta are compared.
ValidateDelta ==
    /\ pc = "postDelta"
    /\ LET valid == ReconstructionMatches /\ DeltaMatches
       IN \/ cancelled /\ RollBackCancelled
          \/ /\ ~cancelled /\ ~valid
             /\ RollBack("restore", "Post", DOMAIN backups) /\ UNCHANGED report
          \/ /\ ~cancelled /\ valid
             /\ Proceed("reverifying")
             /\ UNCHANGED <<undo, reason>>
    /\ UNCHANGED <<world, allowed, plan, backups, attempted>>

\* Mutant of Reverified: no context check after the second verification.
ReverifiedUnchecked ==
    /\ pc = "reverifying" /\ pc' = "persist"
    /\ status' \in Statuses
    /\ UNCHANGED <<world, allowed, plan, loop, outcome, err>>

\* Options.Verify returns again; its verdict stands unless cancelled.
Reverified ==
    /\ pc = "reverifying"
    /\ status' \in Statuses
    /\ \/ /\ cancelled /\ RollBack("restore", "Cancelled", DOMAIN backups)
          /\ outcome' = "CANCELLED"
       \/ /\ ~cancelled /\ pc' = "persist"
          /\ UNCHANGED <<outcome, undo, reason>>
    /\ UNCHANGED <<world, allowed, plan, backups, attempted, err>>

-----------------------------------------------------------------------------
(* rollbackPostApplyAndProve.                                              *)

RollbackFailed == Stop("Rollback")

\* chmod, which needs the file to exist, and a write; last file first.
Restore(f) ==
    /\ pc = "restore" /\ IsLast(f, undo)
    /\ \/ /\ tree[f] # Absent
          /\ tree' = [tree EXCEPT ![f] = backups[f]]
          /\ undo' = undo \ {f} /\ UNCHANGED <<pc, report>>
       \/ RollbackFailed /\ UNCHANGED <<tree, undo>>
    /\ UNCHANGED <<head, headTree, staged, artifact, edits, cancelled,
                   allowed, plan, backups, attempted, reason>>

\* git reset --mixed HEAD
ResetIndex ==
    /\ pc = "restore" /\ undo = {}
    /\ \/ staged' = FALSE /\ Proceed("survey")
       \/ RollbackFailed /\ UNCHANGED staged
    /\ UNCHANGED <<tree, head, headTree, artifact, edits, cancelled,
                   allowed, plan, loop>>

\* A capture finds the files the baseline did not have.
Survey ==
    /\ pc = "survey"
    /\ \/ /\ undo' = {f \in Files : tree[f] # Absent /\ base.files[f] = Absent}
          /\ Proceed("remove")
       \/ RollbackFailed /\ UNCHANGED undo
    /\ UNCHANGED <<world, allowed, plan, backups, attempted, reason>>

\* They are removed in map order; a file that is gone is an error.
Remove(f) ==
    /\ pc = "remove" /\ f \in undo
    /\ \/ /\ tree[f] # Absent
          /\ tree' = [tree EXCEPT ![f] = Absent]
          /\ undo' = undo \ {f} /\ UNCHANGED <<pc, report>>
       \/ RollbackFailed /\ UNCHANGED <<tree, undo>>
    /\ UNCHANGED <<head, headTree, staged, artifact, edits, cancelled,
                   allowed, plan, backups, attempted, reason>>

RestoreProveGit == undo = {} /\ CaptureGit("remove", "restoreFiles")

RestoreProve ==
    /\ pc = "restoreFiles"
    /\ \/ RollbackFailed /\ UNCHANGED snap
       \/ snap' = Captured /\ Captured # base /\ RollbackFailed
       \/ /\ snap' = Captured /\ Captured = base
          /\ Stop(reason)
    /\ UNCHANGED <<world, allowed, base, hash, changes, consent, loop>>

\* persist: the evidence file is best effort; its failure is reported
\* only when there is no other error.
Persist ==
    /\ pc = "persist" /\ pc' = "done"
    /\ err' \in {err, IF err = "none" THEN "Persist" ELSE err}
    /\ UNCHANGED <<world, allowed, plan, loop, outcome, status>>

-----------------------------------------------------------------------------
(* The surroundings.                                                       *)

Running == pc \notin {"done", "crashed"}

Cancel ==
    /\ Running /\ ~cancelled /\ cancelled' = TRUE
    /\ UNCHANGED <<disk, edits, pc, allowed, plan, loop, report>>

\* The process is killed; repair keeps nothing that would resume it.
Crash ==
    /\ Running /\ pc' = "crashed"
    /\ UNCHANGED <<world, allowed, plan, loop, report>>

Other ==
    /\ Running /\ edits < MaxEdits /\ edits' = edits + 1
    /\ UNCHANGED <<cancelled, pc, allowed, plan, loop, report>>

EditFile ==
    /\ Other
    /\ \E f \in Files, c \in Bytes :
           tree[f] # c /\ tree' = [tree EXCEPT ![f] = c]
    /\ UNCHANGED <<head, headTree, staged, artifact>>

Stage ==
    /\ Other /\ ~staged /\ staged' = TRUE
    /\ UNCHANGED <<tree, head, headTree, artifact>>

Commit ==
    /\ Other /\ head' = head + 1 /\ staged' = FALSE
    /\ headTree' = [f \in Files |-> IF f \in Ignored THEN headTree[f] ELSE tree[f]]
    /\ UNCHANGED <<tree, artifact>>

Tamper ==
    /\ Other /\ artifact # NoPatch
    /\ \E p \in OtherPatches : artifact # p /\ artifact' = p
    /\ UNCHANGED <<tree, head, headTree, staged>>

Stopped == ~Running /\ UNCHANGED vars

PreApproval ==
    \/ RefuseRequest \/ Validate \/ Verified
    \/ CaptureBaseGit \/ CaptureBaseFiles
    \/ ProposeFails \/ (\E p \in Proposals : Propose(p))
    \/ StorePatch \/ ReadPatch
    \/ ApproveFails \/ (\E d \in Decision : Decline(d) \/ Approve(d))
PreApply == RereadPatch \/ RecaptureGit \/ RecaptureFiles \/ Preflight \/ Backup
Apply ==
    \/ CheckBeforeWrite \/ CheckAfterWrite
    \/ \E f \in Files : Write(f) \/ Undo(f)
    \/ UndoProveGit \/ UndoProve
PostApply == PostStateGit \/ PostStateFiles \/ ValidateDelta \/ Reverified
Rollback ==
    \/ \E f \in Files : Restore(f) \/ Remove(f)
    \/ ResetIndex \/ Survey \/ RestoreProveGit \/ RestoreProve

Run == PreApproval \/ PreApply \/ Apply \/ PostApply \/ Rollback \/ Persist
Others == EditFile \/ Stage \/ Commit \/ Tamper

Next == Run \/ Others \/ Cancel \/ Crash \/ Stopped

Spec == Init /\ [][Next]_vars

\* Run is one goroutine: it keeps taking steps as long as its callbacks return,
\* and the git commands, which it runs without a context and without a time limit.
FairSpec == Spec /\ WF_vars(Run)

-----------------------------------------------------------------------------
(* Properties.                                                             *)

\* The program counter's values, by what the run may do to the worktree.
Asking == {"validate", "verifying", "baseGit", "baseFiles", "proposing",
           "storePatch", "readPatch", "approving"}
Revalidating == {"reread", "preGit", "preFiles", "preflight", "backup"}
Writing == {"beforeWrite", "write", "afterWrite"}
Proving == {"postGit", "postFiles", "postDelta", "reverifying"}
Withdrawing == {"undo", "undoFiles", "restore", "survey", "remove", "restoreFiles"}
Settled == {"persist", "done", "crashed"}
Acting == Revalidating \union Writing \union Proving \union Withdrawing
Pcs == Asking \union Acting \union Settled

Phase == IF pc \in Asking THEN "asking"
         ELSE IF pc \in Withdrawing THEN "withdrawing"
         ELSE IF pc \in Settled THEN "settled" ELSE "writing"

\* Type correctness of the run's state, and the shapes the code relies on:
\* the write loop and both rollbacks index `backups' without looking.
TypeOK ==
    /\ tree \in Tree /\ headTree \in Tree /\ head \in Nat
    /\ staged \in BOOLEAN /\ cancelled \in BOOLEAN
    /\ edits \in 0..MaxEdits
    /\ artifact \in Patch /\ hash \in Patch /\ changes \in Patch /\ consent \in Patch
    /\ base \in Snapshot /\ snap \in Snapshot
    /\ pc \in Pcs /\ allowed \in Allowlists
    /\ attempted \subseteq Files /\ undo \subseteq Files
    /\ DOMAIN backups \subseteq Files
    /\ \A f \in DOMAIN backups : backups[f] \in Bytes
    /\ reason \in {"none", "Apply", "Capture", "Post", "Cancelled"}
    /\ outcome \in {"none", "APPROVED", "REJECTED", "CANCELLED"}
    /\ status \in Statuses \union {"none"}

\* From the decision on, the patch consented to, the patch whose hash was
\* shown and the patch decoded from disk are one patch, of allowed paths.
PatchAgreement ==
    /\ pc \in Asking \ {"storePatch", "readPatch", "approving"} => hash = NoPatch
    /\ pc \in Asking => consent = NoPatch
    /\ pc \in Acting => consent = hash
    /\ pc \in Acting \ {"reread"} => changes = hash
    /\ pc \in Acting \ {"reread", "preGit", "preFiles", "preflight"} =>
           \A f \in Targets(hash) : base.files[f] = hash.pre[f]
    /\ Targets(hash) \subseteq allowed \ Forbidden

\* From the first write on there is a backup of every target, it is the
\* baseline's bytes, and rollbacks stay within it; what is removed was not in
\* the baseline.
BackupAgreement ==
    /\ pc \in Asking \union Revalidating => attempted = {}
    /\ pc \in Writing \union Proving \union Withdrawing =>
           /\ DOMAIN backups = Targets(hash)
           /\ \A f \in DOMAIN backups : backups[f] = base.files[f]
           /\ attempted \subseteq DOMAIN backups
    /\ pc \in {"undo", "restore"} => undo \subseteq DOMAIN backups
    /\ pc = "remove" => \A f \in undo : base.files[f] = Absent

\* The delta the last capture proved.
DeltaProved ==
    /\ snap.files = Overlay(base.files, hash, Targets(hash))
    /\ snap.head = base.head /\ snap.staged = base.staged

\* What the end of a run may rely on.
EndAgreement ==
    /\ pc \notin Settled => err = "none"
    /\ pc \in Asking => outcome = "none"
    /\ pc \in Acting \ Withdrawing => outcome = "APPROVED"
    /\ pc \notin Withdrawing \union Settled => reason = "none"
    /\ pc \in Withdrawing => reason # "none"
    /\ pc = "reverifying" => DeltaProved
    /\ pc \in {"persist", "done"} /\ err \in {"none", "Persist"} /\ outcome = "APPROVED" =>
           /\ DeltaProved /\ consent = hash
           /\ \A f \in Targets(hash) : base.files[f] = hash.pre[f]
    /\ pc \in {"persist", "done"} /\ err = "Cancelled" /\ reason # "none" => snap = base

\* The inductive strengthening of TypeOK, KeepsPromise and the two *IsProved.
Consistent == PatchAgreement /\ BackupAgreement /\ EndAgreement

\* The run implements ConsentedChange: whatever the interleaving with other
\* writers, cancellation and crashes, its own writes are the consented bytes
\* of the displayed patch or a return to the captured baseline, never forward
\* again after a rollback began, never after it has stopped (Run, the write
\* loop, both rollbacks).
Promise == INSTANCE ConsentedChange WITH
    others <- edits, origin <- base.files, shown <- hash, phase <- Phase
KeepsPromise == Promise!Spec

\* A baseline is kept only if git status reported nothing.
BaselineCaptured == base.clean

\* S holds the approved patch's first files, in patch order.
IsPrefix(S) ==
    /\ S \subseteq Targets(consent)
    /\ \A f \in S, g \in Targets(consent) : g <= f => g \in S

\* If nobody else touches the project, the worktree is at every instant the
\* baseline with a prefix of the approved patch: forward writes go in patch
\* order and rollbacks in reverse (rollbackAndProve, rollbackPostApplyAndProve),
\* so a crash between any two steps leaves a prefix and never a patch with a
\* hole in it.
PrefixOfPatch ==
    edits = 0 /\ BaselineCaptured =>
        \E S \in SUBSET Files :
            IsPrefix(S) /\ tree = Overlay(base.files, consent, S)

\* The one way out of applyTransaction that restores nothing: the check before
\* a later write.
AbandonedWrites == err = "Cancelled" /\ attempted # {} /\ reason = "none"

WholeOrNone ==
    tree = IF err \in {"none", "Persist"} /\ outcome = "APPROVED"
           THEN Overlay(base.files, consent, Targets(consent))
           ELSE base.files

\* All or nothing when a run that nobody disturbs ends by itself: the whole
\* patch if it reports no error of its own, the exact baseline otherwise.
\* ErrRollback and the abandoned write loop are the only exceptions.
AllOrNothing ==
    pc = "done" /\ edits = 0 /\ BaselineCaptured /\ err # "Rollback" /\ ~AbandonedWrites =>
        WholeOrNone

\* The inductive strengthening of PrefixOfPatch and AllOrNothing: how far the
\* patch is written at each point of the loop and of the rollbacks.  A write
\* that failed is among the attempted files and yet not in the tree.
Written(S) == IsPrefix(S) /\ tree = Overlay(base.files, consent, S)
Undisturbed ==
    edits = 0 /\ BaselineCaptured =>
        /\ pc \in Asking \union Revalidating => tree = base.files
        /\ pc \in Writing => Written(attempted)
        /\ pc \in Proving => Written(Targets(consent))
        /\ pc = "undo" =>
              \/ Written(undo)
              \/ \E f \in undo : IsLast(f, undo) /\ IsPrefix(undo) /\ Written(undo \ {f})
        /\ pc = "restore" => Written(undo)
        /\ pc \in Withdrawing \ {"undo", "restore"} => tree = base.files
        /\ pc \in Settled => \E S \in SUBSET Files : Written(S)
        /\ pc \in {"persist", "done"} /\ err # "Rollback" /\ ~AbandonedWrites => WholeOrNone

\* A run that ends without an error after approval has captured, between its
\* last write and its last verification, a worktree that is the baseline with
\* exactly the approved patch in it and the baseline's HEAD and index,
\* whatever others did meanwhile; and the approved paths were allowed ones.
SuccessIsProved ==
    pc = "done" /\ err \in {"none", "Persist"} /\ outcome = "APPROVED" =>
        /\ snap.files = Overlay(base.files, consent, Targets(consent))
        /\ snap.head = base.head /\ snap.staged = base.staged
        /\ Targets(consent) \subseteq allowed \ Forbidden
        /\ \A f \in Targets(consent) : base.files[f] = consent.pre[f]

\* CANCELLED after a completed application is reported only when a capture
\* taken after the rollback equals the baseline, whatever others did.
CancelledIsProved ==
    pc = "done" /\ err = "Cancelled" /\ ~AbandonedWrites /\ attempted # {} =>
        snap = base

\* Once the context is cancelled no further callback or file write begins.
CancellationStopsWork ==
    [][cancelled /\ pc' # pc =>
          pc' \notin {"verifying", "proposing", "approving", "write", "reverifying"}]_vars

\* Cancellation that arrives before the result is final is never lost: a run whose
\* callbacks and git commands return ends, and it ends with an error.
CancellationSettles ==
    (cancelled /\ Running /\ pc # "persist") ~>
        (pc = "crashed" \/ (pc = "done" /\ err # "none"))

\* A run whose callbacks and git commands return ends, with others still at work.
Terminates == <>~Running
=============================================================================
