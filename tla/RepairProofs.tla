---------------------------- MODULE RepairProofs ----------------------------
(***************************************************************************)
(* Theorems about Repair, for every set of files, contents, allowlists,    *)
(* proposals and foreign patches and every number of foreign steps.        *)
(***************************************************************************)
EXTENDS RepairCli, TLAPS

\* An element of a sequence over S is in S.
LEMMA ElementInRange ==
    ASSUME NEW S, NEW s \in Seq(S), NEW i \in DOMAIN s
    PROVE  s[i] \in S
<1>1. i \in 1..Len(s)
  OBVIOUS
<1> QED BY <1>1

\* What canonicalizeProposal returns for a valid proposal is a patch, and its
\* targets are exactly the proposed paths.
LEMMA CanonicalIsPatch ==
    ASSUME NEW p \in Proposals, tree \in Tree, ProposalValid(p)
    PROVE  /\ Canonical(p) \in Patch
           /\ Targets(Canonical(p)) = ProposedPaths(p)
<1> DEFINE Chosen(f) ==
              CHOOSE c \in Contents :
                  \E i \in DOMAIN p.changes :
                      p.changes[i] = [path |-> f, content |-> c]
<1>1. p.changes \in Seq([path : Files, content : Contents])
  BY ProposalsAssumption
<1>a. \A i \in DOMAIN p.changes :
          p.changes[i] \in [path : Files, content : Contents]
  BY <1>1, ElementInRange
<1>b. \A i \in DOMAIN p.changes : p.changes[i].path \in Files
  BY <1>a
<1>2. \A f \in ProposedPaths(p) : Chosen(f) \in Contents
  <2> TAKE f \in ProposedPaths(p)
  <2>1. PICK i \in DOMAIN p.changes : p.changes[i].path = f
    BY DEF ProposedPaths
  <2>2. p.changes[i] \in [path : Files, content : Contents]
    BY <1>a
  <2>3. p.changes[i] = [path |-> f, content |-> p.changes[i].content]
    BY <2>1, <2>2
  <2>4. p.changes[i].content \in Contents
    BY <2>2
  <2>5. \E c \in Contents : \E j \in DOMAIN p.changes :
            p.changes[j] = [path |-> f, content |-> c]
    BY <2>1, <2>3, <2>4
  <2> QED BY <2>5
<1>3. ProposedPaths(p) \subseteq Files
  BY <1>b DEF ProposedPaths
<1>4. Canonical(p) =
        [pre |-> [f \in Files |-> IF f \in ProposedPaths(p) THEN tree[f] ELSE Absent],
         post |-> [f \in Files |-> IF f \in ProposedPaths(p) THEN Chosen(f) ELSE Absent]]
  BY DEF Canonical
<1> HIDE DEF Chosen
<1>5. Canonical(p) \in Patch
  BY <1>2, <1>3, <1>4 DEF Patch, Tree, Bytes
<1>6. \A f \in Files : (Canonical(p).post[f] # Absent) <=> f \in ProposedPaths(p)
  BY <1>2, <1>4, ContentsAssumption
<1> QED BY <1>3, <1>5, <1>6 DEF Targets

-----------------------------------------------------------------------------
(* Type correctness.                                                       *)

\* A capture that has walked the files is a snapshot.
LEMMA CapturedIsSnapshot ==
    ASSUME TypeOK
    PROVE  Captured \in Snapshot /\ Captured.files = tree
BY DEF TypeOK, Captured, Snapshot, Tree

\* The git half of a capture keeps the types and moves to its second half.
LEMMA CaptureGitType ==
    ASSUME TypeOK, NEW at, NEW next \in Pcs, CaptureGit(at, next)
    PROVE  TypeOK'
<1>1. snap' \in Snapshot
  BY DEF TypeOK, CaptureGit, Snapshot, StatusClean, Tree, NoTree, Bytes
<1> QED BY <1>1 DEF TypeOK, CaptureGit, world, disk, loop, report

\* The steps before approval keep the types.
LEMMA PreApprovalType ==
    ASSUME TypeOK, PreApproval
    PROVE  TypeOK'
<1> USE DEF TypeOK, Statuses, Pcs, Acting, Asking, Revalidating, Writing, Proving, Withdrawing,
        Settled
<1>1. CASE RefuseRequest
  BY <1>1 DEF RefuseRequest, world, disk, plan, loop
<1>2. CASE Validate
  BY <1>2 DEF Validate, Stop, StopAt, Proceed, world, disk, plan, loop
<1>3. CASE Verified
  BY <1>3 DEF Verified, Stop, StopAt, world, disk, plan, loop
<1>4. CASE CaptureBaseGit
  BY <1>4, CaptureGitType DEF CaptureBaseGit
<1>5. CASE CaptureBaseFiles
  BY <1>5, CapturedIsSnapshot DEF CaptureBaseFiles, Stop, StopAt, Proceed,
     world, disk, plan, loop
<1>6. CASE ProposeFails
  BY <1>6 DEF ProposeFails, Stop, StopAt, world, disk, plan, loop
<1>7. ASSUME NEW p \in Proposals, Propose(p) PROVE TypeOK'
  BY <1>7, CanonicalIsPatch DEF Propose, Stop, StopAt, Proceed, world, disk, loop
<1>8. CASE StorePatch
  BY <1>8 DEF StorePatch, Stop, StopAt, Proceed, plan, loop
<1>9. CASE ReadPatch
  BY <1>9 DEF ReadPatch, Stop, StopAt, StopCancelled, Proceed,
     ProceedUnlessCancelled, world, disk, loop
<1>10. CASE ApproveFails
  BY <1>10 DEF ApproveFails, Stop, StopAt, world, disk, plan, loop
<1>11. ASSUME NEW d \in Decision, Decline(d) PROVE TypeOK'
  <2>1. Effective(d) \in {"APPROVED", "REJECTED", "CANCELLED"}
    BY DEF Decision, Effective
  <2> QED BY <1>11, <2>1 DEF Decline, StopAt, world, disk, plan, loop
<1>12. ASSUME NEW d \in Decision, Approve(d) PROVE TypeOK'
  <2>1. d.hash \in Patch
    BY WorldAssumption DEF Decision
  <2> QED BY <1>12, <2>1 DEF Approve, StopCancelled, StopAt, world, disk, loop
<1> QED BY <1>1, <1>2, <1>3, <1>4, <1>5, <1>6, <1>7, <1>8, <1>9, <1>10, <1>11,
           <1>12 DEF PreApproval

\* Revalidation and the copies taken before the first write keep the types.
LEMMA PreApplyType ==
    ASSUME TypeOK, PreApply
    PROVE  TypeOK'
<1> USE DEF TypeOK, Statuses, Pcs, Acting, Asking, Revalidating, Writing, Proving, Withdrawing,
        Settled
<1>1. CASE RereadPatch
  BY <1>1 DEF RereadPatch, Stop, StopAt, StopCancelled, Proceed,
     ProceedUnlessCancelled, world, disk, loop
<1>2. CASE RecaptureGit
  BY <1>2, CaptureGitType DEF RecaptureGit
<1>3. CASE RecaptureFiles
  BY <1>3, CapturedIsSnapshot DEF RecaptureFiles, Stop, StopAt, StopCancelled,
     Proceed, ProceedUnlessCancelled, world, disk, loop
<1>4. CASE Preflight
  BY <1>4 DEF Preflight, Stop, StopAt, StopCancelled, Proceed,
     ProceedUnlessCancelled, world, disk, plan, loop
<1>5. CASE Backup
  BY <1>5 DEF Backup, Stop, StopAt, Proceed, world, disk, plan, loop, Targets, Tree
<1> QED BY <1>1, <1>2, <1>3, <1>4, <1>5 DEF PreApply

\* Reading a patch or a backup at a path gives bytes, so every write of the
\* run keeps the tree a tree.
LEMMA WritesAreTrees ==
    ASSUME TypeOK, NEW f \in Files
    PROVE  /\ changes.post[f] \in Bytes
           /\ [tree EXCEPT ![f] = changes.post[f]] \in Tree
           /\ [tree EXCEPT ![f] = Absent] \in Tree
           /\ f \in DOMAIN backups => [tree EXCEPT ![f] = backups[f]] \in Tree
BY DEF TypeOK, Patch, Tree, Bytes

\* The write loop and its rollback keep the types; the rollback indexes
\* `backups' only where it is defined.
LEMMA ApplyType ==
    ASSUME TypeOK, Apply, pc = "undo" => undo \subseteq DOMAIN backups
    PROVE  TypeOK'
<1> USE DEF TypeOK, Statuses, Pcs, Acting, Asking, Revalidating, Writing, Proving, Withdrawing,
        Settled
<1>1. CASE CheckBeforeWrite
  BY <1>1 DEF CheckBeforeWrite, StopCancelled, StopAt, Proceed,
     ProceedUnlessCancelled, world, disk, plan, loop
<1>2. ASSUME NEW f \in Files, Write(f) PROVE TypeOK'
  BY <1>2, WritesAreTrees, ZenonT(30) DEF Write, RollBack, plan, report
<1>3. CASE CheckAfterWrite
  BY <1>3 DEF CheckAfterWrite, RollBack, Proceed, world, disk, plan, report
<1>4. ASSUME NEW f \in Files, Undo(f) PROVE TypeOK'
  BY <1>4, WritesAreTrees, ZenonT(30) DEF Undo, IsLast, Stop, StopAt, plan, report
<1>5. CASE UndoProveGit
  BY <1>5, CaptureGitType DEF UndoProveGit
<1>6. CASE UndoProve
  BY <1>6, CapturedIsSnapshot DEF UndoProve, Stop, StopAt, StopCancelled,
     world, disk, loop
<1> QED BY <1>1, <1>2, <1>3, <1>4, <1>5, <1>6 DEF Apply

\* Post-state validation and the second verification keep the types.
LEMMA PostApplyType ==
    ASSUME TypeOK, PostApply
    PROVE  TypeOK'
<1> USE DEF TypeOK, Statuses, Pcs, Acting, Asking, Revalidating, Writing, Proving, Withdrawing,
        Settled
<1>1. CASE PostStateGit
  <2>1. CASE CaptureGit("postGit", "postFiles")
    BY <2>1, CaptureGitType
  <2>2. CASE ~CaptureGit("postGit", "postFiles")
    BY <1>1, <2>2 DEF PostStateGit, RollBackCancelled, RollBack, world, disk, plan
  <2> QED BY <2>1, <2>2
<1>2. CASE PostStateFiles
  BY <1>2, CapturedIsSnapshot DEF PostStateFiles, RollBackCancelled, RollBack, Proceed,
     world, disk, report
<1>3. CASE ValidateDelta
  BY <1>3 DEF ValidateDelta, RollBackCancelled, RollBack, Proceed, world, disk, plan,
     report
<1>4. CASE Reverified
  BY <1>4 DEF Reverified, RollBack, world, disk, plan
<1> QED BY <1>1, <1>2, <1>3, <1>4 DEF PostApply

\* So does the rollback after application.
LEMMA RollbackType ==
    ASSUME TypeOK, Rollback, pc = "restore" => undo \subseteq DOMAIN backups
    PROVE  TypeOK'
<1> USE DEF TypeOK, Statuses, Pcs, Acting, Asking, Revalidating, Writing, Proving, Withdrawing,
        Settled
<1>1. ASSUME NEW f \in Files, Restore(f) PROVE TypeOK'
  BY <1>1, WritesAreTrees, ZenonT(30) DEF Restore, IsLast, RollbackFailed, Stop, StopAt, plan, report
<1>2. ASSUME NEW f \in Files, Remove(f) PROVE TypeOK'
  BY <1>2, WritesAreTrees, ZenonT(30) DEF Remove, RollbackFailed, Stop, StopAt, plan, report
<1>3. CASE ResetIndex
  BY <1>3 DEF ResetIndex, Proceed, RollbackFailed, Stop, StopAt, plan, loop
<1>4. CASE Survey
  BY <1>4 DEF Survey, Proceed, RollbackFailed, Stop, StopAt, world, disk, plan
<1>5. CASE RestoreProveGit
  BY <1>5, CaptureGitType DEF RestoreProveGit
<1>6. CASE RestoreProve
  BY <1>6, CapturedIsSnapshot DEF RestoreProve, RollbackFailed, Stop, StopAt, world, disk,
     loop
<1> QED BY <1>1, <1>2, <1>3, <1>4, <1>5, <1>6 DEF Rollback

\* And so does everything that is not a step of the engine.
LEMMA SurroundingsType ==
    ASSUME TypeOK, Persist \/ Others \/ Cancel \/ Crash \/ UNCHANGED vars
    PROVE  TypeOK'
<1> USE DEF TypeOK, Statuses, Pcs, Acting, Asking, Revalidating, Writing, Proving, Withdrawing,
        Settled
<1>1. CASE Persist
  BY <1>1 DEF Persist, world, disk, plan, loop
<1>2. CASE Others
  <2>1. Other => edits' \in 0..MaxEdits
    BY WorldAssumption DEF Other
  <2>2. CASE EditFile
    BY <1>2, <2>1, <2>2 DEF EditFile, Other, plan, loop, report, Tree
  <2>3. CASE Stage
    BY <1>2, <2>1, <2>3 DEF Stage, Other, plan, loop, report
  <2>4. CASE Commit
    <3>1. headTree' \in Tree
      BY <2>4 DEF Commit, Tree
    <3>2. head' \in Nat
      <4>1. head \in Nat
        OBVIOUS
      <4>2. head' = head + 1
        BY <2>4 DEF Commit
      <4> HIDE DEF TypeOK
      <4> QED BY <4>1, <4>2
    <3>3. UNCHANGED <<tree, artifact, cancelled, pc, allowed, plan, loop, report>>
      BY <2>4 DEF Commit, Other
    <3>4. staged' \in BOOLEAN /\ edits' \in 0..MaxEdits
      BY <2>1, <2>4 DEF Commit
    <3> QED BY <3>1, <3>2, <3>3, <3>4 DEF plan, loop, report
  <2>5. CASE Tamper
    BY <1>2, <2>1, <2>5, WorldAssumption DEF Tamper, Other, plan, loop, report
  <2> QED BY <1>2, <2>2, <2>3, <2>4, <2>5 DEF Others
<1>3. CASE Cancel
  BY <1>3 DEF Cancel, disk, plan, loop, report
<1>4. CASE Crash
  BY <1>4 DEF Crash, world, disk, plan, loop, report
<1>5. CASE UNCHANGED vars
  BY <1>5 DEF vars, world, disk, plan, loop, report
<1> QED BY <1>1, <1>2, <1>3, <1>4, <1>5

-----------------------------------------------------------------------------
(* The inductive invariant.                                                *)

\* Nothing is consented to before the decision, and it is the shown patch after.
LEMMA PreApprovalConsistent ==
    ASSUME TypeOK, Consistent, PreApproval
    PROVE  Consistent'
<1> USE DEF Consistent, PatchAgreement, BackupAgreement, EndAgreement,
        Acting, Asking, Revalidating, Writing, Proving, Withdrawing, Settled
<1>1. CASE RefuseRequest
  BY <1>1 DEF RefuseRequest, world, disk, plan, loop, Targets
<1>2. CASE Validate
  BY <1>2 DEF Validate, Stop, StopAt, Proceed, world, disk, plan, loop, Targets
<1>3. CASE Verified
  BY <1>3 DEF Verified, Stop, StopAt, world, disk, plan, loop, Targets
<1>4. CASE CaptureBaseGit
  BY <1>4 DEF CaptureBaseGit, CaptureGit, world, disk, loop, report, Targets
<1>5. CASE CaptureBaseFiles
  BY <1>5 DEF CaptureBaseFiles, Stop, StopAt, Proceed, world, disk, plan, loop, Targets
<1>6. CASE ProposeFails
  BY <1>6 DEF ProposeFails, Stop, StopAt, world, disk, plan, loop, Targets
<1>7. ASSUME NEW p \in Proposals, Propose(p) PROVE Consistent'
  BY <1>7, CanonicalIsPatch DEF Propose, ProposalValid, Stop, StopAt, Proceed, world, disk, loop, TypeOK
<1>8. CASE StorePatch
  BY <1>8 DEF StorePatch, Stop, StopAt, Proceed, plan, loop, Targets
<1>9. CASE ReadPatch
  BY <1>9 DEF ReadPatch, Stop, StopAt, StopCancelled, ProceedUnlessCancelled, Proceed, world, disk, loop, Targets
<1>10. CASE ApproveFails
  BY <1>10 DEF ApproveFails, Stop, StopAt, world, disk, plan, loop, Targets
<1>11. ASSUME NEW d \in Decision, Decline(d) PROVE Consistent'
  BY <1>11 DEF Decline, StopAt, world, disk, plan, loop, Targets
<1>12. ASSUME NEW d \in Decision, Approve(d) PROVE Consistent'
  BY <1>12 DEF Approve, StopCancelled, StopAt, world, disk, loop, Targets
<1> QED BY <1>1, <1>2, <1>3, <1>4, <1>5, <1>6, <1>7, <1>8, <1>9, <1>10, <1>11, <1>12 DEF PreApproval

\* Revalidation ties the decoded patch to the consent and the baseline.
LEMMA PreApplyConsistent ==
    ASSUME TypeOK, Consistent, PreApply
    PROVE  Consistent'
<1> USE DEF Consistent, PatchAgreement, BackupAgreement, EndAgreement,
        Acting, Asking, Revalidating, Writing, Proving, Withdrawing, Settled
<1>1. CASE RereadPatch
  BY <1>1 DEF RereadPatch, Stop, StopAt, StopCancelled, ProceedUnlessCancelled, Proceed, world, disk, loop, Targets
<1>2. CASE RecaptureGit
  BY <1>2 DEF RecaptureGit, CaptureGit, world, disk, loop, report, Targets
<1>3. CASE RecaptureFiles
  BY <1>3 DEF RecaptureFiles, Stop, StopAt, StopCancelled, ProceedUnlessCancelled, Proceed, world, disk, loop, Targets
<1>4. CASE Preflight
  BY <1>4 DEF Preflight, PreflightPasses, Stop, StopAt, StopCancelled, ProceedUnlessCancelled, Proceed, world, disk, plan, loop, Targets
<1>5. CASE Backup
  <2>1. changes = hash
    BY <1>5 DEF Backup
  <2>2. CASE UNCHANGED loop
    BY <1>5, <2>2 DEF Backup, Stop, StopAt, Proceed, world, disk, plan, loop, Targets
  <2>3. CASE ~UNCHANGED loop
    <3>1. backups' = [f \in Targets(changes) |-> tree[f]]
      BY <1>5, <2>3 DEF Backup, loop
    <3>2. \A f \in Targets(changes) : tree[f] = base.files[f]
      BY <1>5, <2>3 DEF Backup, loop
    <3>3. pc' = "beforeWrite" /\ UNCHANGED <<outcome, err, reason, attempted, undo, plan, allowed>>
      BY <1>5, <2>3 DEF Backup, Proceed, loop
    <3>4. attempted = {}
      BY <1>5 DEF Backup
    <3> QED BY <1>5, <2>1, <3>1, <3>2, <3>3, <3>4 DEF Backup, plan, Targets
  <2> QED BY <2>2, <2>3
<1> QED BY <1>1, <1>2, <1>3, <1>4, <1>5 DEF PreApply

\* The write loop and its rollback stay within the backups.
LEMMA ApplyConsistent ==
    ASSUME TypeOK, Consistent, Apply
    PROVE  Consistent'
<1> USE DEF Consistent, PatchAgreement, BackupAgreement, EndAgreement,
        Acting, Asking, Revalidating, Writing, Proving, Withdrawing, Settled
<1>1. CASE CheckBeforeWrite
  BY <1>1 DEF CheckBeforeWrite, Stop, StopAt, StopCancelled, ProceedUnlessCancelled, Proceed, world, disk, plan, loop, Targets
<1>2. ASSUME NEW f \in Files, Write(f) PROVE Consistent'
  BY <1>2 DEF Write, IsFirst, Pending, RollBack, plan, report, Targets
<1>3. CASE CheckAfterWrite
  BY <1>3 DEF CheckAfterWrite, RollBack, Proceed, world, disk, plan, report, Targets
<1>4. ASSUME NEW f \in Files, Undo(f) PROVE Consistent'
  BY <1>4 DEF Undo, Stop, StopAt, plan, report, Targets
<1>5. CASE UndoProveGit
  BY <1>5 DEF UndoProveGit, CaptureGit, world, disk, loop, report, Targets
<1>6. CASE UndoProve
  BY <1>6 DEF TypeOK, UndoProve, Stop, StopAt, StopCancelled, world, disk, loop, Targets
<1> QED BY <1>1, <1>2, <1>3, <1>4, <1>5, <1>6 DEF Apply

\* A delta that passes deltaProvenance is the baseline with the patch in it.
LEMMA DeltaMeansProved ==
    ASSUME TypeOK, ReconstructionMatches, DeltaMatches
    PROVE  DeltaProved
<1>1. changes = hash
  BY DEF ReconstructionMatches
<1>2. \A f \in Files : snap.files[f] = Overlay(base.files, hash, Targets(hash))[f]
  BY <1>1 DEF DeltaMatches, Overlay, Targets
<1>3. snap.files \in [Files -> Bytes]
  BY DEF TypeOK, Snapshot, Tree
<1>4. snap.files = Overlay(base.files, hash, Targets(hash))
  BY <1>2, <1>3 DEF Overlay
<1> QED BY <1>4 DEF DeltaProved, DeltaMatches

\* Re-verification is reached only with the delta proved.
LEMMA PostApplyConsistent ==
    ASSUME TypeOK, Consistent, PostApply
    PROVE  Consistent'
<1> USE DEF Consistent, PatchAgreement, BackupAgreement, EndAgreement,
        Acting, Asking, Revalidating, Writing, Proving, Withdrawing, Settled
<1>1. CASE PostStateGit
  BY <1>1 DEF PostStateGit, CaptureGit, RollBackCancelled, RollBack, world, disk, plan, loop, report, Targets
<1>2. CASE PostStateFiles
  BY <1>2 DEF PostStateFiles, RollBackCancelled, RollBack, Proceed, world, disk, report, Targets
<1>3. CASE ValidateDelta
  <2>1. CASE pc' = "reverifying"
    <3>1. DeltaProved
      BY <1>3, <2>1, DeltaMeansProved DEF ValidateDelta, RollBackCancelled, RollBack
    <3>2. UNCHANGED <<plan, allowed, outcome, err, loop>>
      BY <1>3, <2>1 DEF ValidateDelta, RollBackCancelled, RollBack, Proceed, loop
    <3>3. DeltaProved'
      BY <3>1, <3>2 DEF DeltaProved, Overlay, Targets, plan
    <3> QED BY <1>3, <2>1, <3>2, <3>3 DEF ValidateDelta, plan, loop, Targets
  <2>2. CASE pc' = "restore"
    BY <1>3, <2>2 DEF ValidateDelta, RollBackCancelled, RollBack, Proceed, world, disk, plan,
       report, Targets
  <2>3. pc' \in {"reverifying", "restore"}
    BY <1>3 DEF ValidateDelta, RollBackCancelled, RollBack, Proceed
  <2> QED BY <2>1, <2>2, <2>3
<1>4. CASE Reverified
  BY <1>4 DEF Reverified, DeltaProved, RollBack, world, disk, plan, Targets
<1> QED BY <1>1, <1>2, <1>3, <1>4 DEF PostApply

\* The rollback after application ends with the baseline proved, or as a failure.
LEMMA RollbackConsistent ==
    ASSUME TypeOK, Consistent, Rollback
    PROVE  Consistent'
<1> USE DEF Consistent, PatchAgreement, BackupAgreement, EndAgreement,
        Acting, Asking, Revalidating, Writing, Proving, Withdrawing, Settled
<1>1. ASSUME NEW f \in Files, Restore(f) PROVE Consistent'
  BY <1>1 DEF Restore, RollbackFailed, Stop, StopAt, plan, report, Targets
<1>2. ASSUME NEW f \in Files, Remove(f) PROVE Consistent'
  BY <1>2 DEF Remove, RollbackFailed, Stop, StopAt, plan, report, Targets
<1>3. CASE ResetIndex
  BY <1>3 DEF ResetIndex, Proceed, RollbackFailed, Stop, StopAt, plan, loop, Targets
<1>4. CASE Survey
  BY <1>4 DEF Survey, Proceed, RollbackFailed, Stop, StopAt, world, disk, plan, Targets
<1>5. CASE RestoreProveGit
  BY <1>5 DEF RestoreProveGit, CaptureGit, world, disk, loop, report, Targets
<1>6. CASE RestoreProve
  BY <1>6 DEF TypeOK, RestoreProve, RollbackFailed, Stop, StopAt, world, disk, loop, Targets
<1> QED BY <1>1, <1>2, <1>3, <1>4, <1>5, <1>6 DEF Rollback

\* Others cannot disturb what the run has recorded.
LEMMA SurroundingsConsistent ==
    ASSUME TypeOK, Consistent, Persist \/ Others \/ Cancel \/ Crash \/ UNCHANGED vars
    PROVE  Consistent'
<1> USE DEF Consistent, PatchAgreement, BackupAgreement, EndAgreement,
        Acting, Asking, Revalidating, Writing, Proving, Withdrawing, Settled
<1>1. CASE Persist
  BY <1>1 DEF Persist, world, disk, plan, loop, Targets, DeltaProved, Overlay
<1>2. CASE Others
  <2>1. UNCHANGED <<pc, allowed, plan, loop, report>>
    BY <1>2 DEF Others, EditFile, Stage, Commit, Tamper, Other
  <2> QED BY <2>1 DEF plan, loop, report, Targets, DeltaProved, Overlay
<1>3. CASE Cancel
  BY <1>3 DEF Cancel, disk, plan, loop, report, Targets, DeltaProved, Overlay
<1>4. CASE Crash
  BY <1>4 DEF Crash, world, disk, plan, loop, report, Targets
<1>5. CASE UNCHANGED vars
  BY <1>5 DEF vars, world, disk, plan, loop, report, Targets, DeltaProved, Overlay
<1> QED BY <1>1, <1>2, <1>3, <1>4, <1>5

\* The initial state satisfies the invariant.
LEMMA InitConsistent ==
    ASSUME Init
    PROVE  TypeOK /\ Consistent
<1>1. NoTree \in Tree
  BY DEF NoTree, Tree, Bytes
<1>2. NoPatch \in Patch /\ Targets(NoPatch) = {}
  BY <1>1 DEF NoPatch, Patch, Targets, NoTree
<1>3. NoSnapshot \in Snapshot
  BY <1>1 DEF NoSnapshot, Snapshot
<1>a. DOMAIN backups = {}
  BY DEF Init
<1>b. backups = <<>> /\ edits \in 0..MaxEdits /\ head \in Nat
  BY WorldAssumption DEF Init
<1>c. /\ tree \in Tree /\ headTree \in Tree
      /\ staged \in BOOLEAN /\ cancelled \in BOOLEAN
  BY WorldAssumption DEF Init
<1>d. /\ artifact \in Patch /\ hash \in Patch /\ changes \in Patch /\ consent \in Patch
      /\ base \in Snapshot /\ snap \in Snapshot
  BY <1>2, <1>3 DEF Init
<1>e. /\ pc \in Pcs /\ allowed \in Allowlists
      /\ attempted \subseteq Files /\ undo \subseteq Files
      /\ reason = "none" /\ outcome = "none" /\ status = "none"
  BY DEF Init, Pcs, Asking
<1>4. TypeOK
  BY <1>a, <1>b, <1>c, <1>d, <1>e DEF TypeOK
<1>5. Consistent
  BY <1>2 DEF Init, Consistent, PatchAgreement, BackupAgreement, EndAgreement, Acting,
     Asking, Revalidating, Writing, Proving, Withdrawing, Settled
<1> QED BY <1>4, <1>5

\* Every step keeps it.
LEMMA NextConsistent ==
    ASSUME TypeOK, Consistent, [Next]_vars
    PROVE  TypeOK' /\ Consistent'
<1>1. (pc = "undo" => undo \subseteq DOMAIN backups)
      /\ (pc = "restore" => undo \subseteq DOMAIN backups)
  BY DEF Consistent, BackupAgreement
<1>2. CASE PreApproval
  BY <1>2, PreApprovalType, PreApprovalConsistent
<1>3. CASE PreApply
  BY <1>3, PreApplyType, PreApplyConsistent
<1>4. CASE Apply
  BY <1>1, <1>4, ApplyType, ApplyConsistent
<1>5. CASE PostApply
  BY <1>5, PostApplyType, PostApplyConsistent
<1>6. CASE Rollback
  BY <1>1, <1>6, RollbackType, RollbackConsistent
<1>7. CASE Persist \/ Others \/ Cancel \/ Crash \/ UNCHANGED vars
  BY <1>7, SurroundingsType, SurroundingsConsistent
<1> QED BY <1>2, <1>3, <1>4, <1>5, <1>6, <1>7 DEF Next, Run, Stopped

\* The types and the inductive invariant hold in every reachable state.
THEOREM InvariantHolds == Spec => [](TypeOK /\ Consistent)
<1>1. Init => TypeOK /\ Consistent
  BY InitConsistent
<1>2. TypeOK /\ Consistent /\ [Next]_vars => (TypeOK /\ Consistent)'
  BY NextConsistent
<1> QED BY <1>1, <1>2, PTL DEF Spec

\* The run's variables keep their types, so no rollback ever indexes a backup
\* that was not taken.
THEOREM TypeCorrect == Spec => []TypeOK
BY InvariantHolds, PTL

\* The patch shown, consented to, decoded and backed up stay in agreement.
THEOREM AgreementHolds == Spec => []Consistent
BY InvariantHolds, PTL

\* A run that ends well after approval has proved the consented delta.
THEOREM SuccessProved == Spec => []SuccessIsProved
<1>1. TypeOK /\ Consistent => SuccessIsProved
  <2> SUFFICES ASSUME Consistent, pc = "done", err \in {"none", "Persist"},
                      outcome = "APPROVED"
               PROVE  /\ snap.files = Overlay(base.files, consent, Targets(consent))
                      /\ snap.head = base.head /\ snap.staged = base.staged
                      /\ Targets(consent) \subseteq allowed \ Forbidden
                      /\ \A f \in Targets(consent) : base.files[f] = consent.pre[f]
    BY DEF SuccessIsProved
  <2>1. DeltaProved /\ consent = hash
        /\ \A f \in Targets(hash) : base.files[f] = hash.pre[f]
    BY DEF Consistent, EndAgreement
  <2>2. Targets(hash) \subseteq allowed \ Forbidden
    BY DEF Consistent, PatchAgreement
  <2> QED BY <2>1, <2>2 DEF DeltaProved
<1> QED BY <1>1, InvariantHolds, PTL

\* CANCELLED after a rollback is never reported without a capture that
\* equals the baseline.
THEOREM CancelledProved == Spec => []CancelledIsProved
<1>1. Consistent => CancelledIsProved
  BY DEF Consistent, EndAgreement, CancelledIsProved, AbandonedWrites
<1> QED BY <1>1, InvariantHolds, PTL

\* A run that has settled has a status: the last report's, or ERROR.
StatusRecorded == pc \in {"persist", "done"} => status # "none"

\* A run keeps it: whatever sends it to `persist' or `done' sets the status.
LEMMA StatusStep ==
    ASSUME StatusRecorded, [Next]_vars
    PROVE  StatusRecorded'
<1> USE DEF StatusRecorded, Stop, StopAt, StopCancelled, Proceed, ProceedUnlessCancelled,
        RollBack, RollBackCancelled, CaptureGit, Statuses, report
<1>1. CASE PreApproval
  <2>1. CASE RefuseRequest \/ Validate \/ Verified
    BY <2>1 DEF RefuseRequest, Validate, Verified
  <2>2. CASE CaptureBaseGit \/ CaptureBaseFiles \/ StorePatch \/ ReadPatch
    BY <2>2 DEF CaptureBaseGit, CaptureBaseFiles, StorePatch, ReadPatch
  <2>3. CASE ProposeFails \/ \E p \in Proposals : Propose(p)
    BY <2>3 DEF ProposeFails, Propose
  <2>4. CASE ApproveFails \/ \E d \in Decision : Decline(d) \/ Approve(d)
    BY <2>4 DEF ApproveFails, Decline, Approve
  <2> QED BY <1>1, <2>1, <2>2, <2>3, <2>4 DEF PreApproval
<1>2. CASE PreApply
  BY <1>2 DEF PreApply, RereadPatch, RecaptureGit, RecaptureFiles, Preflight, Backup
<1>3. CASE Apply
  BY <1>3 DEF Apply, CheckBeforeWrite, CheckAfterWrite, Write, Undo, UndoProveGit,
     UndoProve
<1>4. CASE PostApply
  BY <1>4 DEF PostApply, PostStateGit, PostStateFiles, ValidateDelta, Reverified
<1>5. CASE Rollback
  BY <1>5 DEF Rollback, Restore, Remove, ResetIndex, Survey, RestoreProveGit,
     RestoreProve, RollbackFailed
<1>6. CASE Persist \/ Others \/ Cancel \/ Crash \/ UNCHANGED vars
  BY <1>6 DEF Persist, Others, EditFile, Stage, Commit, Tamper, Other, Cancel, Crash, vars
<1> QED BY <1>1, <1>2, <1>3, <1>4, <1>5, <1>6 DEF Next, Run, Stopped

\* Exit code 0 means that the last verification found no FAIL and no ERROR and,
\* after an approval, that it saw the baseline with exactly the consented patch in
\* it.
THEOREM ExitZeroProved == Spec => []ExitZeroIsProved
<1>1. Init => StatusRecorded
  BY DEF Init, StatusRecorded
<1>2. StatusRecorded /\ [Next]_vars => StatusRecorded'
  BY StatusStep
<1>3. TypeOK /\ Consistent /\ StatusRecorded => ExitZeroIsProved
  <2> SUFFICES ASSUME TypeOK, Consistent, StatusRecorded, pc = "done", ExitOK \in ExitCodes
               PROVE  /\ status \in Statuses \ {"FAIL", "ERROR"}
                      /\ outcome \in {"none", "APPROVED"}
                      /\ outcome = "APPROVED" => DeltaProved /\ consent = hash
    BY DEF ExitZeroIsProved
  <2>1. Kind = "DETERMINISTIC_RESULT" /\ ExitOK \in VerificationCodes(status)
    BY DEF ExitCodes, ExitOK, ExitRejected, ExitCancelled, ExitFramework
  <2>2. err = "none" /\ outcome \notin {"REJECTED", "CANCELLED"}
    BY <2>1 DEF Kind
  <2>3. status \notin {"FAIL", "ERROR"}
    BY <2>1 DEF VerificationCodes, ExitOK, ExitVerificationFailure, ExitFramework
  <2>4. status \in Statuses \ {"FAIL", "ERROR"}
    BY <2>3 DEF TypeOK, StatusRecorded
  <2>5. outcome \in {"none", "APPROVED"}
    BY <2>2 DEF TypeOK
  <2>6. outcome = "APPROVED" => DeltaProved /\ consent = hash
    BY <2>2 DEF Consistent, EndAgreement
  <2> QED BY <2>4, <2>5, <2>6
<1> QED BY <1>1, <1>2, <1>3, InvariantHolds, PTL DEF Spec

\* A cancelled run begins no callback and no file write: every step that leads
\* to one checks the context first.
THEOREM CancellationStops == Spec => CancellationStopsWork
<1> DEFINE Begins == {"verifying", "proposing", "approving", "write", "reverifying"}
<1>1. [Next]_vars => [cancelled /\ pc' # pc => pc' \notin Begins]_vars
  <2> SUFFICES ASSUME Next, cancelled, pc' # pc
               PROVE  pc' \notin Begins
    OBVIOUS
  <2> USE DEF Stop, StopAt, StopCancelled, Proceed, ProceedUnlessCancelled, RollBack,
          RollBackCancelled, CaptureGit, report
  <2>1. CASE PreApproval
    <3>1. CASE RefuseRequest \/ Validate \/ Verified
      BY <3>1 DEF RefuseRequest, Validate, Verified
    <3>2. CASE CaptureBaseGit \/ CaptureBaseFiles \/ StorePatch \/ ReadPatch
      BY <3>2 DEF CaptureBaseGit, CaptureBaseFiles, StorePatch, ReadPatch
    <3>3. CASE ProposeFails \/ \E p \in Proposals : Propose(p)
      BY <3>3 DEF ProposeFails, Propose
    <3>4. CASE ApproveFails \/ \E d \in Decision : Decline(d) \/ Approve(d)
      BY <3>4 DEF ApproveFails, Decline, Approve
    <3> QED BY <2>1, <3>1, <3>2, <3>3, <3>4 DEF PreApproval
  <2>2. CASE PreApply
    BY <2>2 DEF PreApply, RereadPatch, RecaptureGit, RecaptureFiles, Preflight, Backup
  <2>3. CASE Apply
    BY <2>3 DEF Apply, CheckBeforeWrite, CheckAfterWrite, Write, Undo, UndoProveGit,
       UndoProve
  <2>4. CASE PostApply
    BY <2>4 DEF PostApply, PostStateGit, PostStateFiles, ValidateDelta, Reverified
  <2>5. CASE Rollback
    BY <2>5 DEF Rollback, Restore, Remove, ResetIndex, Survey, RestoreProveGit,
       RestoreProve, RollbackFailed
  <2>6. CASE Persist \/ Others \/ Cancel \/ Crash
    BY <2>6 DEF Persist, Others, EditFile, Stage, Commit, Tamper, Other, Cancel, Crash
  <2> QED BY <2>1, <2>2, <2>3, <2>4, <2>5, <2>6 DEF Next, Run, Stopped, vars
<1> QED BY <1>1, PTL DEF Spec, CancellationStopsWork

-----------------------------------------------------------------------------
(* Repair implements ConsentedChange.                                      *)

\* The initial states map to initial states.
LEMMA PromiseInit ==
    ASSUME Init
    PROVE  Promise!Init
BY WorldAssumption DEF Init, Promise!Init, Promise!NoPatch, Promise!Tree, NoPatch,
   NoSnapshot, NoTree, Tree, Phase, Asking

\* The program counter seen as a phase of the promise.
LEMMA PhaseOfPc ==
    /\ pc \in Asking => Phase = "asking"
    /\ pc \in Withdrawing => Phase = "withdrawing"
    /\ pc \in Settled => Phase = "settled"
    /\ pc \in Revalidating \union Writing \union Proving => Phase = "writing"
BY DEF Phase, Asking, Revalidating, Writing, Proving, Withdrawing, Settled

\* What the promise sees of the run.
Seen == <<tree, edits, base.files, hash, consent>>

\* A step that leaves the promise's state alone and does not move the run to
\* another phase is a stutter; one that settles the run settles the promise.
LEMMA QuietStep ==
    ASSUME UNCHANGED Seen, Phase' = Phase \/ Phase' = "settled"
    PROVE  [Promise!Next]_Promise!vars
BY DEF Seen, Promise!Next, Promise!Settle, Promise!vars

\* A step that begins a rollback withdraws.
LEMMA WithdrawStep ==
    ASSUME UNCHANGED Seen, Phase = "writing", Phase' = "withdrawing"
    PROVE  [Promise!Next]_Promise!vars
BY DEF Seen, Promise!Next, Promise!Withdraw

\* Before approval the run looks, shows, takes a decision, or does nothing
\* the promise can see.
LEMMA PromisePreApproval ==
    ASSUME TypeOK, TypeOK', Consistent, PreApproval
    PROVE  [Promise!Next]_Promise!vars
<1> USE DEF Asking, Revalidating, Writing, Proving, Withdrawing, Settled
<1>1. CASE RefuseRequest \/ Validate \/ Verified \/ CaptureBaseGit \/ ProposeFails
           \/ StorePatch \/ ReadPatch \/ ApproveFails
           \/ \E d \in Decision : Decline(d)
  <2>1. UNCHANGED Seen
    BY <1>1 DEF Seen, RefuseRequest, Validate, Verified, CaptureBaseGit, CaptureGit,
       ProposeFails, StorePatch, ReadPatch, ApproveFails, Decline, world, disk, plan
  <2>2. pc \in Asking /\ pc' \in Asking \union Settled
    BY <1>1 DEF RefuseRequest, Validate, Verified, CaptureBaseGit, CaptureGit,
       ProposeFails, StorePatch, ReadPatch, ApproveFails, Decline, Stop, StopAt,
       StopCancelled, Proceed, ProceedUnlessCancelled
  <2>3. Phase' = Phase \/ Phase' = "settled"
    BY <2>2 DEF Phase
  <2> QED BY <2>1, <2>3, QuietStep
<1>2. CASE CaptureBaseFiles
  <2>1. CASE UNCHANGED plan
    <3>1. UNCHANGED Seen
      BY <1>2, <2>1 DEF CaptureBaseFiles, Seen, world, disk, plan
    <3>2. Phase' = Phase \/ Phase' = "settled"
      BY <1>2 DEF CaptureBaseFiles, Stop, StopAt, Proceed, Phase
    <3> QED BY <3>1, <3>2, QuietStep
  <2>2. CASE ~UNCHANGED plan
    <3>1. Phase = "asking" /\ Phase' \in {"asking", "settled"}
      BY <1>2 DEF CaptureBaseFiles, Stop, StopAt, Proceed, Phase
    <3>2. hash = NoPatch /\ base'.files \in Tree
      BY <1>2 DEF CaptureBaseFiles, Consistent, PatchAgreement, TypeOK, Snapshot
    <3>3. UNCHANGED <<tree, edits, hash, consent>>
      BY <1>2, <2>2 DEF CaptureBaseFiles, world, disk
    <3> QED BY <3>1, <3>2, <3>3 DEF Promise!Next, Promise!Look, Promise!NoPatch, NoPatch,
               NoTree, Promise!Tree, Tree
  <2> QED BY <2>1, <2>2
<1>3. ASSUME NEW p \in Proposals, Propose(p) PROVE [Promise!Next]_Promise!vars
  <2>1. UNCHANGED <<tree, edits, base, consent>>
    BY <1>3 DEF Propose, world, disk
  <2>2. CASE UNCHANGED hash
    <3>1. Phase' = Phase \/ Phase' = "settled"
      BY <1>3 DEF Propose, Stop, StopAt, Proceed, Phase
    <3> QED BY <2>1, <2>2, <3>1, QuietStep DEF Seen
  <2>3. CASE ~UNCHANGED hash
    <3>1. Phase = "asking" /\ Phase' = "asking"
      BY <1>3, <2>3 DEF Propose, Proceed, Phase
    <3>2. hash = NoPatch /\ hash' \in Patch
      BY <1>3 DEF Propose, Consistent, PatchAgreement, TypeOK
    <3> QED BY <2>1, <3>1, <3>2 DEF Promise!Next, Promise!Show, Promise!NoPatch, NoPatch,
               NoTree, Promise!Patch, Promise!Tree, Patch, Tree
  <2> QED BY <2>2, <2>3
<1>4. ASSUME NEW d \in Decision, Approve(d) PROVE [Promise!Next]_Promise!vars
  <2>1. UNCHANGED <<tree, edits, base, hash>>
    BY <1>4 DEF Approve, world, disk
  <2>2. Phase = "asking" /\ consent = NoPatch /\ consent' \in Patch
    BY <1>4 DEF Approve, Phase, Consistent, PatchAgreement, TypeOK
  <2>3. Phase' = "settled" \/ (consent' = hash /\ Phase' = "writing")
    BY <1>4 DEF Approve, StopAt, StopCancelled, Phase
  <2> QED BY <2>1, <2>2, <2>3 DEF Promise!Next, Promise!Consent, Promise!NoPatch, NoPatch,
             NoTree, Promise!Patch, Promise!Tree, Patch, Tree
<1> QED BY <1>1, <1>2, <1>3, <1>4 DEF PreApproval

\* Revalidation is invisible to the promise.
LEMMA PromisePreApply ==
    ASSUME PreApply
    PROVE  [Promise!Next]_Promise!vars
<1>1. UNCHANGED Seen
  BY DEF PreApply, Seen, RereadPatch, RecaptureGit, CaptureGit, RecaptureFiles, Preflight,
     Backup, world, disk, plan
<1>2. pc \in Revalidating /\ pc' \in Revalidating \union Writing \union Settled
  BY DEF PreApply, RereadPatch, RecaptureGit, CaptureGit, RecaptureFiles, Preflight,
     Backup, Stop, StopAt, StopCancelled, Proceed, ProceedUnlessCancelled,
     Revalidating, Writing, Settled
<1>3. Phase' = Phase \/ Phase' = "settled"
  BY <1>2 DEF Phase, Asking, Revalidating, Writing, Proving, Withdrawing, Settled
<1> QED BY <1>1, <1>3, QuietStep

\* The write loop writes consented bytes; its rollback takes them back.
LEMMA PromiseApply ==
    ASSUME TypeOK, Consistent, Apply
    PROVE  [Promise!Next]_Promise!vars
<1> USE DEF Asking, Revalidating, Writing, Proving, Withdrawing, Settled
<1>1. CASE CheckBeforeWrite \/ UndoProveGit \/ UndoProve
  <2>1. UNCHANGED Seen
    BY <1>1 DEF Seen, CheckBeforeWrite, UndoProveGit, CaptureGit, UndoProve, world, disk, plan
  <2>2. Phase' = Phase \/ Phase' = "settled"
    BY <1>1 DEF CheckBeforeWrite, UndoProveGit, CaptureGit, UndoProve, Stop, StopAt,
       StopCancelled, Proceed, ProceedUnlessCancelled, Phase
  <2> QED BY <2>1, <2>2, QuietStep
<1>2. CASE CheckAfterWrite
  <2>1. UNCHANGED Seen
    BY <1>2 DEF Seen, CheckAfterWrite, world, disk, plan
  <2>2. Phase = "writing" /\ Phase' \in {"writing", "withdrawing"}
    BY <1>2 DEF CheckAfterWrite, RollBack, Proceed, Phase
  <2> QED BY <2>1, <2>2, QuietStep, WithdrawStep
<1>3. ASSUME NEW f \in Files, Write(f) PROVE [Promise!Next]_Promise!vars
  <2>1. UNCHANGED <<edits, base, hash, consent>> /\ Phase = "writing"
    BY <1>3 DEF Write, plan, Phase
  <2>2. CASE pc' = "afterWrite"
    <3>1. Phase' = "writing"
      BY <2>2 DEF Phase
    <3>2. changes = hash /\ consent = hash /\ f \in Targets(hash)
      BY <1>3 DEF Write, IsFirst, Pending, Consistent, PatchAgreement, BackupAgreement, Acting
    <3>3. tree' = [tree EXCEPT ![f] = hash.post[f]]
      BY <1>3, <2>2, <3>2 DEF Write, RollBack
    <3> QED BY <2>1, <3>1, <3>2, <3>3 DEF Promise!Next, Promise!Write, Targets
  <2>3. CASE pc' = "undo"
    <3>1. Phase' = "withdrawing"
      BY <2>3 DEF Phase
    <3>2. UNCHANGED Seen
      BY <1>3, <2>1, <2>3 DEF Write, Seen
    <3> QED BY <2>1, <3>1, <3>2, WithdrawStep
  <2> QED BY <1>3, <2>2, <2>3 DEF Write, RollBack
<1>4. ASSUME NEW f \in Files, Undo(f) PROVE [Promise!Next]_Promise!vars
  <2>1. UNCHANGED <<edits, base, hash, consent>> /\ Phase = "withdrawing"
    BY <1>4 DEF Undo, plan, Phase
  <2>2. backups[f] = base.files[f]
    BY <1>4 DEF Undo, IsLast, Consistent, BackupAgreement
  <2>3. CASE tree' = [tree EXCEPT ![f] = backups[f]] /\ UNCHANGED pc
    BY <2>1, <2>2, <2>3 DEF Promise!Next, Promise!TakeBack, Phase
  <2>4. CASE UNCHANGED tree /\ pc' = "persist"
    BY <2>1, <2>4, QuietStep DEF Seen, Phase
  <2> QED BY <1>4, <2>3, <2>4 DEF Undo, Stop, StopAt
<1> QED BY <1>1, <1>2, <1>3, <1>4 DEF Apply

\* Post-state validation is invisible, or begins to withdraw.
LEMMA PromisePostApply ==
    ASSUME PostApply
    PROVE  [Promise!Next]_Promise!vars
<1>1. UNCHANGED Seen
  BY DEF PostApply, Seen, PostStateGit, CaptureGit, PostStateFiles, ValidateDelta, Reverified,
     world, disk, plan
<1>2. pc \in Proving /\ pc' \in Proving \union Withdrawing \union Settled
  BY DEF PostApply, PostStateGit, CaptureGit, PostStateFiles, ValidateDelta, Reverified,
     RollBackCancelled, RollBack, Proceed, Proving, Withdrawing, Settled
<1>3. Phase = "writing" /\ Phase' \in {"writing", "withdrawing", "settled"}
  BY <1>2 DEF Phase, Asking, Revalidating, Writing, Proving, Withdrawing, Settled
<1> QED BY <1>1, <1>3, QuietStep, WithdrawStep

\* The rollback after application only takes back.
LEMMA PromiseRollback ==
    ASSUME TypeOK, Consistent, Rollback
    PROVE  [Promise!Next]_Promise!vars
<1> USE DEF Asking, Revalidating, Writing, Proving, Withdrawing, Settled
<1>1. CASE ResetIndex \/ Survey \/ RestoreProveGit \/ RestoreProve
  <2>1. UNCHANGED Seen
    BY <1>1 DEF Seen, ResetIndex, Survey, RestoreProveGit, CaptureGit, RestoreProve, world,
       disk, plan
  <2>2. Phase' = Phase \/ Phase' = "settled"
    BY <1>1 DEF ResetIndex, Survey, RestoreProveGit, CaptureGit, RestoreProve,
       RollbackFailed, Stop, StopAt, Proceed, Phase
  <2> QED BY <2>1, <2>2, QuietStep
<1>2. ASSUME NEW f \in Files, Restore(f) \/ Remove(f) PROVE [Promise!Next]_Promise!vars
  <2>1. UNCHANGED <<edits, base, hash, consent>> /\ Phase = "withdrawing"
    BY <1>2 DEF Restore, Remove, plan, Phase
  <2>2. CASE tree' = [tree EXCEPT ![f] = base.files[f]] /\ UNCHANGED pc
    BY <2>1, <2>2 DEF Promise!Next, Promise!TakeBack, Phase
  <2>3. CASE UNCHANGED tree /\ pc' = "persist"
    BY <2>1, <2>3, QuietStep DEF Seen, Phase
  <2>4. CASE Restore(f)
    BY <2>2, <2>3, <2>4 DEF Restore, IsLast, RollbackFailed, Stop, StopAt, Consistent, BackupAgreement
  <2>5. CASE Remove(f)
    BY <2>2, <2>3, <2>5 DEF Remove, RollbackFailed, Stop, StopAt, Consistent, BackupAgreement
  <2> QED BY <1>2, <2>4, <2>5
<1> QED BY <1>1, <1>2 DEF Rollback

\* Persisting, cancellation and a crash settle or stutter; others move.
LEMMA PromiseSurroundings ==
    ASSUME TypeOK, TypeOK', Persist \/ Others \/ Cancel \/ Crash \/ UNCHANGED vars
    PROVE  [Promise!Next]_Promise!vars
<1> USE DEF Asking, Withdrawing, Settled
<1>1. CASE Persist \/ Cancel \/ Crash \/ UNCHANGED vars
  <2>1. UNCHANGED Seen
    BY <1>1 DEF Seen, Persist, Cancel, Crash, vars, world, disk, plan
  <2>2. Phase' = Phase \/ Phase' = "settled"
    BY <1>1 DEF Persist, Cancel, Crash, vars, Phase
  <2> QED BY <2>1, <2>2, QuietStep
<1>2. CASE Others
  <2>1. edits' = edits + 1 /\ UNCHANGED <<pc, base, hash, consent>>
    BY <1>2 DEF Others, EditFile, Stage, Commit, Tamper, Other, plan
  <2>2. tree' \in Promise!Tree
    BY DEF TypeOK, Promise!Tree, Tree
  <2> QED BY <2>1, <2>2 DEF Promise!Next, Promise!OthersMove, Phase
<1> QED BY <1>1, <1>2

\* The run keeps its promise to the person asked, in every interleaving with
\* other writers, cancellation and crashes.
THEOREM PromiseKept == Spec => KeepsPromise
<1>1. Init => Promise!Init
  BY PromiseInit
<1>2. TypeOK /\ Consistent /\ TypeOK' /\ [Next]_vars => [Promise!Next]_Promise!vars
  BY PromisePreApproval, PromisePreApply, PromiseApply, PromisePostApply, PromiseRollback,
     PromiseSurroundings DEF Next, Run, Stopped
<1> QED BY <1>1, <1>2, InvariantHolds, PTL DEF Spec, KeepsPromise, Promise!Spec

-----------------------------------------------------------------------------
(* What a repair leaves on disk when nobody else touches the project: at   *)
(* every instant, a crash's included, the baseline with a prefix of the    *)
(* approved patch; at the end all of the patch or none of it.  The         *)
(* argument is the invariant Undisturbed of module Repair, which says how  *)
(* much of the patch is written at each point of the write loop and of the *)
(* two rollbacks.                                                          *)

Sound == TypeOK /\ Consistent /\ Undisturbed

\* Writing nothing leaves the baseline, and nothing is a prefix.
LEMMA NothingWritten ==
    ASSUME TypeOK
    PROVE  IsPrefix({}) /\ Overlay(base.files, consent, {}) = base.files
<1>1. base.files \in [Files -> Bytes]
  BY DEF TypeOK, Snapshot, Tree
<1> QED BY <1>1 DEF IsPrefix, Overlay

\* The whole patch is a prefix.
LEMMA AllIsPrefix == IsPrefix(Targets(consent))
BY DEF IsPrefix

\* In every state that satisfies the invariant some prefix is written.
LEMMA SomethingWritten ==
    ASSUME Sound, edits = 0, BaselineCaptured
    PROVE  \E S \in SUBSET Files : Written(S)
<1> USE DEF Undisturbed, Sound
<1>1. CASE tree = base.files
  BY <1>1, NothingWritten DEF Written
<1>2. \A S : Written(S) => S \in SUBSET Files
  BY DEF Written, IsPrefix, Targets
<1>3. CASE pc \in Writing \union Proving \union {"undo", "restore"}
  BY <1>2, <1>3
<1>4. CASE pc \in Settled
  BY <1>4
<1>5. pc \in Pcs
  BY DEF TypeOK
<1> QED BY <1>1, <1>3, <1>4, <1>5 DEF Pcs, Acting, Withdrawing

\* What the invariant says of a state depends on nothing but these.
Relevant == <<tree, base, consent, edits, attempted, undo>>

\* A step that settles the run in a state that is whole or none keeps it.
LEMMA SettlingStep ==
    ASSUME Sound, UNCHANGED Relevant, pc' \in Settled,
           edits = 0 /\ BaselineCaptured /\ pc' # "crashed" /\ err' # "Rollback"
               /\ ~AbandonedWrites' => WholeOrNone'
    PROVE  Undisturbed'
<1> SUFFICES ASSUME edits = 0, BaselineCaptured
             PROVE  Undisturbed'
  BY DEF Undisturbed, Relevant, BaselineCaptured
<1>1. PICK S \in SUBSET Files : Written(S)
  BY SomethingWritten
<1>2. Written(S)'
  BY <1>1 DEF Written, IsPrefix, Targets, Overlay, Relevant
<1> QED BY <1>2 DEF Undisturbed, Settled, Asking, Revalidating, Writing, Proving, Withdrawing

\* A step after which the tree is the baseline, outside the write loop.
LEMMA BaselineStep ==
    ASSUME TypeOK',
           (edits = 0 /\ BaselineCaptured => tree = base.files)',
           pc' \in Asking \union Revalidating \union Settled
                     \union (Withdrawing \ {"undo", "restore"}),
           pc' \in {"persist", "done"} =>
               ~(err' \in {"none", "Persist"} /\ outcome' = "APPROVED")
    PROVE  Undisturbed'
<1> USE DEF Asking, Revalidating, Writing, Proving, Withdrawing, Settled
<1> SUFFICES ASSUME (edits = 0 /\ BaselineCaptured)'
             PROVE  Undisturbed'
  BY DEF Undisturbed
<1>1. tree' = base'.files
  OBVIOUS
<1>2. (IsPrefix({}) /\ Overlay(base.files, consent, {}) = base.files)'
  <2>1. base'.files \in [Files -> Bytes]
    BY DEF TypeOK, Snapshot, Tree
  <2> QED BY <2>1 DEF IsPrefix, Overlay
<1>3. Written({})'
  BY <1>1, <1>2 DEF Written
<1>4. pc' \in {"persist", "done"} => WholeOrNone'
  BY <1>1 DEF WholeOrNone
<1>5. (\E S \in SUBSET Files : Written(S))'
  BY <1>3
<1> QED BY <1>1, <1>4, <1>5 DEF Undisturbed

\* Until the write loop the run leaves the tree alone.
LEMMA EarlyUndisturbed ==
    ASSUME Sound, TypeOK', Consistent', PreApproval \/ PreApply
    PROVE  Undisturbed'
<1> USE DEF Asking, Revalidating, Writing, Proving, Withdrawing, Settled
<1>1. UNCHANGED <<tree, edits>> /\ pc \in Asking \union Revalidating
  BY DEF PreApproval, PreApply, RefuseRequest, Validate, Verified, CaptureBaseGit,
     CaptureBaseFiles, CaptureGit, ProposeFails, Propose, StorePatch, ReadPatch,
     ApproveFails, Decline, Approve, RereadPatch, RecaptureGit, RecaptureFiles, Preflight,
     Backup, world, disk
<1>2. base' = base \/ base'.files = tree
  BY CapturedIsSnapshot DEF PreApproval, PreApply, RefuseRequest, Validate, Verified,
     CaptureBaseGit, CaptureBaseFiles, CaptureGit, ProposeFails, Propose, StorePatch,
     ReadPatch, ApproveFails, Decline, Approve, RereadPatch, RecaptureGit, RecaptureFiles,
     Preflight, Backup, plan, Sound
<1>3. (edits = 0 /\ BaselineCaptured => tree = base.files)'
  BY <1>1, <1>2 DEF Sound, Undisturbed, BaselineCaptured
<1>4. CASE pc' = "beforeWrite"
  <2>1. attempted' = {}
    BY <1>1, <1>4 DEF PreApproval, PreApply, RefuseRequest, Validate, Verified, CaptureBaseGit,
     CaptureBaseFiles, CaptureGit, ProposeFails, Propose, StorePatch, ReadPatch,
     ApproveFails, Decline, Approve, RereadPatch, RecaptureGit, RecaptureFiles, Preflight,
     Backup, loop, Sound, Consistent, BackupAgreement
  <2>2. (IsPrefix({}) /\ Overlay(base.files, consent, {}) = base.files)'
    <3>1. base'.files \in [Files -> Bytes]
      BY DEF TypeOK, Snapshot, Tree
    <3> QED BY <3>1 DEF IsPrefix, Overlay
  <2> QED BY <1>3, <1>4, <2>1, <2>2 DEF Undisturbed, Written
<1>5. CASE pc' # "beforeWrite"
  <2>1. /\ pc' \in Asking \union Revalidating \union Settled
        /\ pc' \in {"persist", "done"} =>
               ~(err' \in {"none", "Persist"} /\ outcome' = "APPROVED")
    <3>1. CASE PreApproval
      BY <1>5, <3>1 DEF PreApproval, RefuseRequest, Validate, Verified, CaptureBaseGit,
         CaptureBaseFiles, CaptureGit, ProposeFails, Propose, StorePatch, ReadPatch,
         ApproveFails, Decline, Approve, Stop, StopAt, StopCancelled, Proceed,
         ProceedUnlessCancelled, Sound, Consistent, EndAgreement
    <3>2. CASE PreApply
      BY <1>5, <3>2 DEF PreApply, RereadPatch, RecaptureGit, CaptureGit, RecaptureFiles,
         Preflight, Backup, Stop, StopAt, StopCancelled, Proceed, ProceedUnlessCancelled
    <3> QED BY <3>1, <3>2
  <2> QED BY <1>3, <2>1, BaselineStep
<1> QED BY <1>4, <1>5

\* Writing the first pending file extends the prefix by one.
LEMMA WriteExtends ==
    ASSUME TypeOK, NEW f \in Files, Written(attempted), attempted \subseteq Targets(consent),
           IsFirst(f, Targets(consent) \ attempted)
    PROVE  /\ IsPrefix(attempted \union {f})
           /\ [tree EXCEPT ![f] = consent.post[f]]
                = Overlay(base.files, consent, attempted \union {f})
           /\ IsLast(f, attempted \union {f})
           /\ (attempted \union {f}) \ {f} = attempted
<1> DEFINE T == Targets(consent)
<1>1. T \subseteq Nat
  BY FilesAssumption DEF Targets
<1>2. f \in T /\ f \notin attempted /\ \A g \in T \ attempted : f <= g
  BY DEF IsFirst
<1>3. \A g \in attempted : g <= f
  <2> TAKE g \in attempted
  <2>1. ~(f <= g)
    BY <1>2 DEF Written, IsPrefix
  <2>2. f \in Nat /\ g \in Nat
    BY <1>1, <1>2
  <2> QED BY <2>1, <2>2
<1>4. \A g \in T : g <= f => g \in attempted \union {f}
  <2> TAKE g \in T
  <2> HAVE g <= f
  <2>1. CASE g \notin attempted
    <3>1. f <= g
      BY <1>2, <2>1
    <3>2. f \in Nat /\ g \in Nat
      BY <1>1, <1>2
    <3> QED BY <3>1, <3>2
  <2> QED BY <2>1
<1>5. IsPrefix(attempted \union {f})
  BY <1>2, <1>4 DEF Written, IsPrefix
<1>6. f \in Nat
  BY <1>1, <1>2
<1>7. IsLast(f, attempted \union {f})
  BY <1>3, <1>6 DEF IsLast
<1>8. tree = Overlay(base.files, consent, attempted)
  BY DEF Written
<1>9. [tree EXCEPT ![f] = consent.post[f]]
        = Overlay(base.files, consent, attempted \union {f})
  BY <1>8 DEF Overlay
<1> QED BY <1>2, <1>5, <1>7, <1>9

\* Taking back the last file shortens it by one.
LEMMA UndoShortens ==
    ASSUME TypeOK, NEW S \in SUBSET Files, NEW f \in Files, IsPrefix(S), IsLast(f, S),
           tree \in {Overlay(base.files, consent, S), Overlay(base.files, consent, S \ {f})}
    PROVE  /\ IsPrefix(S \ {f})
           /\ [tree EXCEPT ![f] = base.files[f]] = Overlay(base.files, consent, S \ {f})
<1>1. S \subseteq Nat /\ f \in S /\ \A g \in S : g <= f
  BY FilesAssumption DEF IsLast
<1>2. \A h \in S \ {f}, g \in Targets(consent) : g <= h => g \in S \ {f}
  <2> TAKE h \in S \ {f}, g \in Targets(consent)
  <2> HAVE g <= h
  <2>1. g \in S
    BY DEF IsPrefix
  <2>2. g # f
    <3> SUFFICES ASSUME g = f PROVE FALSE
      OBVIOUS
    <3>1. f <= h /\ h <= f /\ f \in Nat /\ h \in Nat
      BY <1>1
    <3> QED BY <3>1
  <2> QED BY <2>1, <2>2
<1>3. IsPrefix(S \ {f})
  BY <1>2 DEF IsPrefix
<1>4. [tree EXCEPT ![f] = base.files[f]] = Overlay(base.files, consent, S \ {f})
  BY DEF Overlay
<1> QED BY <1>3, <1>4

\* The write loop writes a growing prefix; its rollback a shrinking one.
LEMMA ApplyUndisturbed ==
    ASSUME Sound, TypeOK', Consistent', Apply
    PROVE  Undisturbed'
<1> USE DEF Asking, Revalidating, Writing, Proving, Withdrawing, Settled
<1>0. UNCHANGED <<base, consent, edits>>
  BY DEF Apply, CheckBeforeWrite, CheckAfterWrite, Write, Undo, UndoProveGit, CaptureGit,
     UndoProve, world, plan
<1> SUFFICES ASSUME edits = 0, BaselineCaptured
             PROVE  Undisturbed'
  BY <1>0 DEF Undisturbed, BaselineCaptured
<1>1. TypeOK /\ Consistent /\ Undisturbed
  BY DEF Sound
<1>2. pc \in Writing \union {"undo"} => consent = hash /\ changes = hash
                                       /\ DOMAIN backups = Targets(consent)
  BY <1>1 DEF Consistent, PatchAgreement, BackupAgreement, Acting
<1>3. CASE CheckBeforeWrite
  <2>1. Written(attempted) /\ UNCHANGED Relevant
    BY <1>0, <1>1, <1>3 DEF Undisturbed, CheckBeforeWrite, Relevant, world, disk, plan, loop
  <2>2. Written(attempted)'
    BY <2>1 DEF Written, IsPrefix, Targets, Overlay, Relevant
  <2>3. CASE pc' = "write"
    BY <2>2, <2>3 DEF Undisturbed
  <2>4. CASE pc' = "persist"
    <3>1. err' = "Cancelled" /\ reason' = "none"
      BY <1>1, <1>3, <2>4 DEF CheckBeforeWrite, ProceedUnlessCancelled, Proceed, StopCancelled,
         StopAt, loop, Consistent, EndAgreement
    <3>2. CASE attempted = {}
      <4>1. tree' = base'.files
        BY <2>1, <3>2, <1>1, NothingWritten DEF Written, Relevant
      <4> QED BY <2>4, <3>1, <4>1, BaselineStep
    <3>3. CASE attempted # {}
      <4>1. AbandonedWrites'
        BY <2>1, <3>1, <3>3 DEF AbandonedWrites, Relevant
      <4> QED BY <2>1, <2>4, <4>1, SettlingStep
    <3> QED BY <3>2, <3>3
  <2> QED BY <1>3, <2>3, <2>4 DEF CheckBeforeWrite, ProceedUnlessCancelled, Proceed,
             StopCancelled, StopAt
<1>4. ASSUME NEW f \in Files, Write(f) PROVE Undisturbed'
  <2>1. Written(attempted) /\ attempted \subseteq Targets(consent)
        /\ IsFirst(f, Targets(consent) \ attempted)
    BY <1>1, <1>2, <1>4 DEF Undisturbed, Write, Pending, Consistent, BackupAgreement
  <2>2. /\ IsPrefix(attempted \union {f})
        /\ [tree EXCEPT ![f] = consent.post[f]]
             = Overlay(base.files, consent, attempted \union {f})
        /\ IsLast(f, attempted \union {f})
        /\ (attempted \union {f}) \ {f} = attempted
    BY <1>1, <2>1, WriteExtends
  <2>3. attempted' = attempted \union {f}
    BY <1>4 DEF Write
  <2>4. CASE pc' = "afterWrite"
    <3>1. tree' = [tree EXCEPT ![f] = consent.post[f]]
      BY <1>2, <1>4, <2>4 DEF Write, RollBack
    <3>2. Written(attempted)'
      BY <1>0, <2>2, <2>3, <3>1 DEF Written, IsPrefix, Targets, Overlay
    <3> QED BY <2>4, <3>2 DEF Undisturbed
  <2>5. CASE pc' = "undo"
    <3>1. UNCHANGED tree /\ undo' = attempted \union {f}
      BY <1>4, <2>3, <2>5 DEF Write, RollBack
    <3>2. Written(attempted) /\ IsPrefix(undo') /\ IsLast(f, undo') /\ undo' \ {f} = attempted
      BY <2>1, <2>2, <3>1
    <3>3. (IsLast(f, undo) /\ IsPrefix(undo) /\ Written(undo \ {f}))'
      BY <1>0, <3>1, <3>2 DEF Written, IsPrefix, IsLast, Targets, Overlay
    <3>4. f \in undo'
      BY <3>1
    <3> QED BY <2>5, <3>3, <3>4 DEF Undisturbed
  <2> QED BY <1>4, <2>4, <2>5 DEF Write, RollBack
<1>5. CASE CheckAfterWrite
  <2>1. Written(attempted) /\ UNCHANGED <<tree, attempted>>
    BY <1>1, <1>5 DEF Undisturbed, CheckAfterWrite, world, disk
  <2>2. Written(attempted)'
    BY <1>0, <2>1 DEF Written, IsPrefix, Targets, Overlay
  <2>3. CASE pc' = "undo"
    <3>1. undo' = attempted'
      BY <1>5, <2>1, <2>3 DEF CheckAfterWrite, RollBack, Proceed
    <3> QED BY <2>2, <2>3, <3>1 DEF Undisturbed
  <2>4. CASE pc' = "beforeWrite"
    BY <2>2, <2>4 DEF Undisturbed
  <2>5. CASE pc' = "postGit"
    <3>1. attempted = Targets(consent)
      BY <1>1, <1>2, <1>5, <2>5 DEF CheckAfterWrite, RollBack, Proceed, Pending, Consistent,
         BackupAgreement
    <3>2. attempted' = Targets(consent)'
      BY <1>0, <2>1, <3>1 DEF Targets
    <3> QED BY <2>2, <2>5, <3>2 DEF Undisturbed
  <2> QED BY <1>5, <2>3, <2>4, <2>5 DEF CheckAfterWrite, RollBack, Proceed
<1>6. ASSUME NEW f \in Files, Undo(f) PROVE Undisturbed'
  <2>1. pc = "undo" /\ IsLast(f, undo) /\ backups[f] = base.files[f]
    BY <1>1, <1>6 DEF Undo, IsLast, Consistent, BackupAgreement
  <2>2. CASE tree' = [tree EXCEPT ![f] = backups[f]] /\ undo' = undo \ {f} /\ UNCHANGED pc
    <3>1. IsPrefix(undo) /\ tree \in {Overlay(base.files, consent, undo),
                                      Overlay(base.files, consent, undo \ {f})}
      <4>1. CASE Written(undo)
        BY <4>1 DEF Written
      <4>2. CASE \E g \in undo : IsLast(g, undo) /\ IsPrefix(undo) /\ Written(undo \ {g})
        <5>1. PICK g \in undo : IsLast(g, undo) /\ IsPrefix(undo) /\ Written(undo \ {g})
          BY <4>2
        <5>2. g = f
          BY <1>1, <2>1, <5>1, FilesAssumption DEF IsLast, TypeOK
        <5> QED BY <5>1, <5>2 DEF Written
      <4> QED BY <1>1, <2>1, <4>1, <4>2 DEF Undisturbed
    <3>2. IsPrefix(undo \ {f}) /\ tree' = Overlay(base.files, consent, undo \ {f})
      <4>1. undo \in SUBSET Files
        BY <1>1 DEF TypeOK
      <4> QED BY <1>1, <2>1, <2>2, <3>1, <4>1, UndoShortens
    <3>3. Written(undo)'
      BY <1>0, <2>2, <3>2 DEF Written, IsPrefix, Targets, Overlay
    <3> QED BY <2>1, <2>2, <3>3 DEF Undisturbed
  <2>3. CASE pc' = "persist" /\ err' = "Rollback" /\ UNCHANGED <<tree, undo>>
    <3>1. UNCHANGED Relevant
      BY <1>0, <1>6, <2>3 DEF Undo, Relevant
    <3> QED BY <2>3, <3>1, SettlingStep
  <2> QED BY <1>6, <2>2, <2>3 DEF Undo, Stop, StopAt
<1>7. CASE UndoProveGit \/ UndoProve
  <2>1. tree' = base'.files
    <3>1. CASE UndoProveGit
      <4>1. tree = base.files
        BY <1>1, <3>1, NothingWritten DEF UndoProveGit, CaptureGit, Undisturbed, Written
      <4> QED BY <1>0, <3>1, <4>1 DEF UndoProveGit, CaptureGit, world, disk
    <3>2. CASE UndoProve
      BY <1>0, <1>1, <3>2 DEF UndoProve, Undisturbed, world, disk
    <3> QED BY <1>7, <3>1, <3>2
  <2>2. /\ pc' \in {"undoFiles", "persist"}
        /\ pc' = "persist" => err' \notin {"none", "Persist"}
    BY <1>1, <1>7 DEF UndoProveGit, CaptureGit, UndoProve, Stop, StopAt, StopCancelled,
       Consistent, EndAgreement, TypeOK
  <2> QED BY <2>1, <2>2, BaselineStep
<1> QED BY <1>3, <1>4, <1>5, <1>6, <1>7 DEF Apply

\* Validation touches nothing; a rollback starts from the whole patch.
LEMMA PostApplyUndisturbed ==
    ASSUME Sound, TypeOK', Consistent', PostApply
    PROVE  Undisturbed'
<1> USE DEF Asking, Revalidating, Writing, Proving, Withdrawing, Settled
<1>0. UNCHANGED <<tree, base, consent, edits, backups, attempted>> /\ pc \in Proving
  BY DEF PostApply, PostStateGit, CaptureGit, PostStateFiles, ValidateDelta, Reverified,
     world, disk, plan, loop
<1> SUFFICES ASSUME edits = 0, BaselineCaptured
             PROVE  Undisturbed'
  BY <1>0 DEF Undisturbed, BaselineCaptured
<1>1. Written(Targets(consent)) /\ DOMAIN backups = Targets(consent)
  BY <1>0 DEF Sound, Undisturbed, Consistent, PatchAgreement, BackupAgreement, Acting
<1>2. Written(Targets(consent))' /\ DOMAIN backups' = Targets(consent)'
  BY <1>0, <1>1 DEF Written, IsPrefix, Targets, Overlay
<1>3. CASE pc' = "restore"
  <2>1. undo' = DOMAIN backups'
    BY <1>0, <1>3 DEF PostApply, PostStateGit, CaptureGit, PostStateFiles, ValidateDelta,
       Reverified, RollBackCancelled, RollBack, Proceed
  <2> QED BY <1>2, <1>3, <2>1 DEF Undisturbed
<1>4. CASE pc' \in Proving
  BY <1>2, <1>4 DEF Undisturbed
<1>5. CASE pc' = "persist"
  <2>1. err' = "none" /\ outcome' = "APPROVED"
    BY <1>5 DEF PostApply, PostStateGit, CaptureGit, PostStateFiles, ValidateDelta,
       Reverified, RollBackCancelled, RollBack, Proceed, Sound, Consistent, EndAgreement,
       Acting
  <2>2. WholeOrNone'
    BY <1>2, <2>1 DEF Written, WholeOrNone
  <2>3. Targets(consent)' \in SUBSET Files
    BY DEF Targets
  <2> QED BY <1>2, <1>5, <2>2, <2>3 DEF Undisturbed
<1> QED BY <1>3, <1>4, <1>5 DEF PostApply, PostStateGit, CaptureGit, PostStateFiles,
           ValidateDelta, Reverified, RollBackCancelled, RollBack, Proceed

\* The rollback after application takes the files back in reverse.
LEMMA RollbackUndisturbed ==
    ASSUME Sound, TypeOK', Consistent', Rollback
    PROVE  Undisturbed'
<1> USE DEF Asking, Revalidating, Writing, Proving, Withdrawing, Settled
<1>0. UNCHANGED <<base, consent, edits, attempted>>
  BY DEF Rollback, Restore, Remove, ResetIndex, Survey, RestoreProveGit, CaptureGit,
     RestoreProve, world, plan, loop
<1> SUFFICES ASSUME edits = 0, BaselineCaptured
             PROVE  Undisturbed'
  BY <1>0 DEF Undisturbed, BaselineCaptured
<1>1. TypeOK /\ Consistent /\ Undisturbed
  BY DEF Sound
<1>2. ASSUME NEW f \in Files, Restore(f) PROVE Undisturbed'
  <2>1. pc = "restore" /\ IsLast(f, undo) /\ backups[f] = base.files[f] /\ Written(undo)
    BY <1>1, <1>2 DEF Restore, IsLast, Consistent, BackupAgreement, Undisturbed
  <2>2. CASE tree' = [tree EXCEPT ![f] = backups[f]] /\ undo' = undo \ {f} /\ UNCHANGED pc
    <3>1. IsPrefix(undo \ {f}) /\ tree' = Overlay(base.files, consent, undo \ {f})
      <4>1. undo \in SUBSET Files
        BY <1>1 DEF TypeOK
      <4> QED BY <1>1, <2>1, <2>2, <4>1, UndoShortens DEF Written
    <3>2. Written(undo)'
      BY <1>0, <2>2, <3>1 DEF Written, IsPrefix, Targets, Overlay
    <3> QED BY <2>1, <2>2, <3>2 DEF Undisturbed
  <2>3. CASE pc' = "persist" /\ err' = "Rollback" /\ UNCHANGED <<tree, undo>>
    <3>1. UNCHANGED Relevant
      BY <1>0, <2>3 DEF Relevant
    <3> QED BY <2>3, <3>1, SettlingStep
  <2> QED BY <1>2, <2>2, <2>3 DEF Restore, RollbackFailed, Stop, StopAt
<1>3. CASE ResetIndex
  <2>1. tree' = base'.files
    BY <1>0, <1>1, <1>3, NothingWritten DEF ResetIndex, Undisturbed, Written
  <2>2. pc' \in {"survey", "persist"} /\ (pc' = "persist" => err' = "Rollback")
    BY <1>3 DEF ResetIndex, Proceed, RollbackFailed, Stop, StopAt
  <2> QED BY <2>1, <2>2, BaselineStep
<1>4. CASE Survey \/ RestoreProveGit \/ RestoreProve
  <2>1. tree' = base'.files
    BY <1>0, <1>1, <1>4 DEF Survey, RestoreProveGit, CaptureGit, RestoreProve, Undisturbed,
       world, disk
  <2>2. /\ pc' \in {"remove", "restoreFiles", "persist"}
        /\ pc' = "persist" => err' \notin {"none", "Persist"}
    BY <1>1, <1>4 DEF Survey, RestoreProveGit, CaptureGit, RestoreProve, Proceed,
       RollbackFailed, Stop, StopAt, Consistent, EndAgreement, TypeOK
  <2> QED BY <2>1, <2>2, BaselineStep
<1>5. ASSUME NEW f \in Files, Remove(f) PROVE Undisturbed'
  <2>1. tree = base.files /\ base.files[f] = Absent
    BY <1>1, <1>5 DEF Remove, Undisturbed, Consistent, BackupAgreement
  <2>2. tree' = base'.files
    BY <1>0, <1>1, <1>5, <2>1 DEF Remove, TypeOK, Snapshot, Tree
  <2>3. pc' \in {"remove", "persist"} /\ (pc' = "persist" => err' = "Rollback")
    BY <1>5 DEF Remove, RollbackFailed, Stop, StopAt
  <2> QED BY <2>2, <2>3, BaselineStep
<1> QED BY <1>2, <1>3, <1>4, <1>5 DEF Rollback

\* Persisting, cancellation and crashes change nothing on disk; a step of
\* others ends the claim.
LEMMA SurroundingsUndisturbed ==
    ASSUME Sound, TypeOK', Persist \/ Others \/ Cancel \/ Crash \/ UNCHANGED vars
    PROVE  Undisturbed'
<1> USE DEF Asking, Revalidating, Writing, Proving, Withdrawing, Settled
<1>1. CASE Persist \/ Crash
  <2>1. UNCHANGED Relevant /\ pc' \in Settled
    BY <1>1 DEF Persist, Crash, Relevant, world, disk, plan, loop
  <2>2. edits = 0 /\ BaselineCaptured /\ pc' # "crashed" /\ err' # "Rollback"
            /\ ~AbandonedWrites' => WholeOrNone'
    BY <1>1 DEF Persist, Crash, world, disk, plan, loop, AbandonedWrites, WholeOrNone,
       Sound, Undisturbed, Overlay, Targets
  <2> QED BY <2>1, <2>2, SettlingStep
<1>2. CASE Others
  <2>1. edits' # 0
    <3>1. edits' = edits + 1
      BY <1>2 DEF Others, EditFile, Stage, Commit, Tamper, Other
    <3>2. edits \in Nat
      BY WorldAssumption DEF Sound, TypeOK
    <3> QED BY <3>1, <3>2
  <2> QED BY <2>1 DEF Undisturbed
<1>3. CASE Cancel \/ UNCHANGED vars
  <2>1. UNCHANGED <<disk, edits, pc, allowed, plan, loop, report>>
    BY <1>3 DEF Cancel, vars, world
  <2> QED BY <2>1 DEF disk, plan, loop, report, Sound, Undisturbed, Written, IsPrefix,
             Targets, Overlay, BaselineCaptured, AbandonedWrites, WholeOrNone, IsLast
<1> QED BY <1>1, <1>2, <1>3

\* Undisturbed holds in every reachable state.
THEOREM UndisturbedHolds == Spec => []Sound
<1>1. Init => Sound
  <2> SUFFICES ASSUME Init PROVE Sound
    OBVIOUS
  <2>1. ~BaselineCaptured
    BY DEF Init, BaselineCaptured, NoSnapshot
  <2> QED BY <2>1, InitConsistent DEF Sound, Undisturbed
<1>2. Sound /\ [Next]_vars => Sound'
  <2> SUFFICES ASSUME Sound, [Next]_vars PROVE Sound'
    OBVIOUS
  <2>1. TypeOK' /\ Consistent'
    BY NextConsistent DEF Sound
  <2>2. Undisturbed'
    BY <2>1, EarlyUndisturbed, ApplyUndisturbed, PostApplyUndisturbed, RollbackUndisturbed,
       SurroundingsUndisturbed DEF Next, Run, Stopped
  <2> QED BY <2>1, <2>2 DEF Sound
<1> QED BY <1>1, <1>2, PTL DEF Spec

\* At every instant, a crash's included, an undisturbed worktree is the
\* baseline with a prefix of the approved patch.
THEOREM PrefixHolds == Spec => []PrefixOfPatch
<1>1. Sound => PrefixOfPatch
  BY SomethingWritten DEF PrefixOfPatch, Written
<1> QED BY <1>1, UndisturbedHolds, PTL

\* An undisturbed run that ends by itself leaves the whole approved patch or
\* the exact baseline, unless it reports ErrRollback or was cancelled just
\* before a later write.
THEOREM AllOrNothingHolds == Spec => []AllOrNothing
<1>1. Sound => AllOrNothing
  BY DEF Sound, Undisturbed, AllOrNothing
<1> QED BY <1>1, UndisturbedHolds, PTL

=============================================================================
