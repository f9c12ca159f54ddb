---------------------------- MODULE AgentResult ----------------------------
(***************************************************************************)
(* The first answer that an agent gets of a verification: package worker   *)
(* makes it of a report, cuts its collections and, for `verify --agent',   *)
(* cuts further until it fits in MaxResult bytes.                          *)
(*                                                                         *)
(* Abstractions.  A text is its length; a finding and a reference to       *)
(* evidence are texts, and a reference has length one.  The bytes of an    *)
(* answer are the lengths of its parts and `base', the length of what it   *)
(* always says: names, versions and its own length, whose computation ends *)
(* after at most three rounds.  What sanitizing replaces is left out: it   *)
(* keeps the number of parts.                                              *)
(***************************************************************************)
EXTENDS Integers, Sequences, FiniteSets, SequencesExt

CONSTANTS
    MaxResult,          \* MaxAgentResultBytes, and MaxResultBytes of progressive
    MaxRequest,         \* maxRequestBytes
    MaxText,
    MaxChecks,
    MaxFailureItems,
    MaxFailureFindings,
    MaxFailureEvidence,
    None

Status == {"PASS", "WARN", "NOT_TESTED", "FAIL", "ERROR"}

\* model.CheckResult and model.Report; `log' is its raw output or None and
\* `outputTruncated' whether the runner kept only a part of it, `code' the exit
\* code, `stored' whether report.json can be read.
Checked(Ids, Logs) ==
    [id : Ids, status : Status, blocking : BOOLEAN, text : Nat, findings : Seq(Nat),
     paths : Nat, log : Logs \union {None}, outputTruncated : BOOLEAN]
Report(Ids, Logs) ==
    [stored : BOOLEAN, overall : Status, code : 0..2, base : Nat,
     checks : Seq(Checked(Ids, Logs))]

Least(m, n) == IF m <= n THEN m ELSE n
Bounded(text) == Least(text, MaxText)
Cut(s, n) == SubSeq(s, 1, Least(n, Len(s)))
Sum(s) == SumFunction(s)

-----------------------------------------------------------------------------
(* Package handoff, and failedChecks of package progressive.               *)

Unresolved(check) == check.status # "PASS" /\ (check.status = "WARN" => check.blocking)

\* The n-th member of a finite set of numbers.
Nth(S, n) == CHOOSE i \in S : Cardinality({j \in S : j <= i}) = n

Failed(report) ==
    LET failing == {i \in DOMAIN report.checks : Unresolved(report.checks[i])}
    IN  [n \in 1..Cardinality(failing) |-> report.checks[Nth(failing, n)]]

-----------------------------------------------------------------------------
(* Package worker: the answer, before it is encoded.                       *)

Summary(check) ==
    [id |-> check.id, status |-> check.status, blocking |-> check.blocking,
     text |-> Bounded(check.text)]

Texts(s) == [i \in DOMAIN s |-> Bounded(s[i])]

Item(check) ==
    [id |-> check.id, text |-> Bounded(check.text),
     findings |-> Texts(Cut(check.findings, MaxFailureFindings)),
     paths |-> Least(check.paths, MaxFailureEvidence)]

NewVerificationResult(report) ==
    LET checks == Cut(report.checks, MaxChecks)
        failures == Cut(Failed(report), MaxFailureItems)
    IN  [op |-> "verify", class |-> None, accepted |-> TRUE, code |-> report.code,
         overall |-> report.overall, base |-> report.base,
         truncated |-> FALSE, next |-> None,
         checks |-> [i \in DOMAIN checks |-> Summary(checks[i])],
         failures |-> [i \in DOMAIN failures |-> Item(failures[i])],
         checksTotal |-> 0, checksReturned |-> 0, failuresTotal |-> 0, failuresReturned |-> 0]

\* The sentence that asks the agent to retrieve what is missing.
Retrieve == [op |-> "failures", offset |-> 0]

NewAgentVerificationResult(report) ==
    LET r == NewVerificationResult(report)
        short == Len(r.checks) < Len(report.checks) \/ Len(r.failures) < Len(Failed(report))
    IN  [r EXCEPT !.class = "local-full",
                  !.checksTotal = Len(report.checks), !.checksReturned = Len(r.checks),
                  !.failuresTotal = Len(Failed(report)), !.failuresReturned = Len(r.failures),
                  !.truncated = short, !.next = IF short THEN Retrieve ELSE None]

\* RejectedResult, RejectedAgentResult, and Rejected of package progressive.
Rejected(op, error) == [op |-> op, accepted |-> FALSE, code |-> 2, error |-> error]

-----------------------------------------------------------------------------
(* EncodeResult.                                                           *)

ItemBytes(item) == 1 + item.text + Sum(item.findings) + item.paths

Bytes(r) ==
    r.base + (IF r.next = None THEN 0 ELSE 1)
    + Sum([i \in DOMAIN r.checks |-> 1 + r.checks[i].text])
    + Sum([i \in DOMAIN r.failures |-> ItemBytes(r.failures[i])])

\* The first of ever shorter answers that fits.
FirstFit(answers, lengths, otherwise) ==
    LET i == SelectInSeq(lengths, LAMBDA n : n <= MaxResult)
    IN  IF i = 0 THEN otherwise ELSE answers[i]

\* Lengths to which a collection of n is cut, one at a time.
Downto0(n) == [i \in 1..n |-> n - i]

\* Mutant of WithFailures: the count stays what it was before the cut.
WithFailuresUncounted(r, n) ==
    [r EXCEPT !.truncated = TRUE, !.next = Retrieve, !.failures = SubSeq(@, 1, n)]

WithFailures(r, n) ==
    [r EXCEPT !.truncated = TRUE, !.next = Retrieve,
              !.failures = SubSeq(@, 1, n), !.failuresReturned = n]

\* Without the texts of checks, and with the first n checks.
WithChecks(r, n) ==
    [WithFailures(r, 0) EXCEPT
        !.checks = [i \in 1..n |-> [r.checks[i] EXCEPT !.text = 0]], !.checksReturned = n]

\* Failures go first, then the texts of checks, then checks.
Shorter(r) ==
    LET failures == Downto0(Len(r.failures))
        checks == <<Len(r.checks)>> \o Downto0(Len(r.checks))
    IN  <<r>> \o [i \in DOMAIN failures |-> WithFailures(r, failures[i])]
              \o [i \in DOMAIN checks |-> WithChecks(r, checks[i])]

Lengths(answers) == [i \in DOMAIN answers |-> Bytes(answers[i])]

\* Mutant of EncodeResult: a shortened answer keeps the marks of the whole one.
EncodeResultUnmarked(r) ==
    LET e == FirstFit(Shorter(r), Lengths(Shorter(r)), Rejected("verify", "result_encoding_failed"))
    IN  IF e.accepted THEN [e EXCEPT !.truncated = r.truncated] ELSE e

\* EncodeResult, and printAgentResult when nothing fits.
EncodeResult(r) ==
    FirstFit(Shorter(r), Lengths(Shorter(r)), Rejected("verify", "result_encoding_failed"))

-----------------------------------------------------------------------------
(* `worker verify': the request, and the answer, which is not bounded.     *)

\* `form' says whether it is one JSON object of known fields.
Request == [bytes : Nat, form : {"strict", "other"}, version : {"1", "2"},
            id : {"fit", "unfit"}, operation : {"verify", "repair"}, project : {"fit", "unfit"}]

ValidateRequest(q) ==
    /\ q.version = "1" /\ q.operation = "verify"
    /\ q.id = "fit" /\ q.project = "fit"

DecodeRequest(q) == q.bytes <= MaxRequest /\ q.form = "strict" /\ ValidateRequest(q)

\* workerCommand, with the registry's and the verification's part as `standing'.
Served(q, standing, report) ==
    CASE ~DecodeRequest(q) -> Rejected("verify", "invalid_request")
      [] DecodeRequest(q) /\ standing # "ready" -> Rejected("verify", standing)
      [] OTHER -> NewVerificationResult(report)
=============================================================================
