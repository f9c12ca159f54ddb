----------------------------- MODULE RepairCli -----------------------------
(***************************************************************************)
(* What `devctl repair' tells the person and the shell about a run that    *)
(* has ended: the kind of result, the process exit code and the sentence   *)
(* printed.  All three are functions of the run's error and result, as in  *)
(* repaircli.Run, classify, exitCode and finish.                           *)
(***************************************************************************)
EXTENDS Repair

ExitOK == 0
ExitVerificationFailure == 1
ExitFramework == 2
ExitRejected == 3
ExitCancelled == 4

\* verify.ExitCode: an overall status below FAIL still exits 1 when a blocking
\* check did not pass.
VerificationCodes(s) ==
    CASE s = "ERROR" -> {ExitFramework}
      [] s = "FAIL" -> {ExitVerificationFailure}
      [] OTHER -> {ExitOK, ExitVerificationFailure}

\* classify, and Run where there is no error.
Kind ==
    CASE err = "none" /\ outcome \notin {"REJECTED", "CANCELLED"} -> "DETERMINISTIC_RESULT"
      [] (err = "none" /\ outcome = "REJECTED") \/ err = "ApprovalRejected" -> "REJECTED"
      [] (err = "none" /\ outcome = "CANCELLED")
         \/ err \in {"ApprovalCancelled", "Cancelled"} -> "CANCELLED"
      [] err = "Rollback" -> "ROLLBACK_FAILURE"
      [] err = "Worker" -> "PROVIDER_FAILURE"
      [] OTHER -> "FRAMEWORK_ERROR"

\* Mutant of ExitCodes: a final report's code is used whatever the error.
ExitCodesOfReport ==
    IF status \in Statuses THEN VerificationCodes(status) \union {ExitOK} ELSE {ExitFramework}

\* exitCode, and Run where there is no error: the codes the process may return.
ExitCodes ==
    CASE Kind = "DETERMINISTIC_RESULT" -> VerificationCodes(status)
      [] Kind = "REJECTED" -> {ExitRejected}
      [] Kind = "CANCELLED" -> {ExitCancelled}
      [] OTHER -> {ExitFramework}

\* finish: the sentence that says the worktree is untouched.
SaysNothingChanged == Kind = "CANCELLED"

-----------------------------------------------------------------------------
(* Properties.                                                             *)

\* The shell sees 0 only when a verification ran last and its report is neither
\* a FAIL nor an ERROR; it may be a WARN, or something not tested or not settled
\* that blocks nothing.  If a patch was approved, that verification saw the
\* baseline with exactly the consented patch in it, whatever others did before
\* it (Run, ExitCode).
ExitZeroIsProved ==
    pc = "done" /\ ExitOK \in ExitCodes =>
        /\ status \in Statuses \ {"FAIL", "ERROR"}
        /\ outcome \in {"none", "APPROVED"}
        /\ outcome = "APPROVED" => DeltaProved /\ consent = hash

\* docs/STAGE_7D_C_CONTROL.md: once a modification has occurred, CANCELLED is
\* returned only after the exact baseline is proved restored; and the command
\* prints that no project files changed.
NothingChangedIsTrue ==
    pc = "done" /\ SaysNothingChanged /\ edits = 0 /\ BaselineCaptured =>
        tree = base.files
=============================================================================
