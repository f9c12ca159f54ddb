---------------------------- MODULE Progressive ----------------------------
(***************************************************************************)
(* An agent that verifies a project and retrieves, a page at a time, what  *)
(* the first answer left out: the list of failed checks, the findings of   *)
(* each, and the log of its raw output.  It goes where `next' of the last  *)
(* answer sends it, as docs/STAGE_7E_A_AGENT_VERIFICATION_BOUNDARY.md asks.*)
(*                                                                         *)
(* A retrieval keeps no state: each command reads report.json, or the log, *)
(* which do not change after a run (Evidence), unless they are removed.    *)
(*                                                                         *)
(* Abstractions.  Texts and bytes are as in AgentResult.  A log is a       *)
(* sequence of bytes: "t" for any, "n" for the end of a line, and the two  *)
(* halves of the markers between which a private key stands, so that a     *)
(* page may end within one.  A page of a log shows a set of positions;     *)
(* the words put in place of the others are left out, and with them the    *)
(* cut at maxEvidenceContent, which they reach only if lines are shorter   *)
(* than six bytes on average.                                              *)
(***************************************************************************)
EXTENDS AgentResult

CONSTANTS
    Ids,                \* check IDs
    Logs,               \* raw logs
    Reports,            \* the reports of the verifications
    Requests,           \* requests to `worker verify'
    MaxFailurePage,
    MaxFindingPage,
    MaxEvidencePaths,
    MaxRawEvidence,     \* maxRawEvidenceBytes
    MaxRawChunk         \* maxRawChunkBytes

ASSUME LimitsAssumption ==
    {MaxResult, MaxRequest, MaxText, MaxChecks, MaxFailureItems, MaxFailureFindings,
     MaxFailureEvidence, MaxFailurePage, MaxFindingPage, MaxEvidencePaths,
     MaxRawEvidence, MaxRawChunk} \subseteq Nat \ {0}
Byte == {"t", "n", "B", "b", "E", "e"}
ASSUME LogsAssumption == Logs \subseteq Seq(Byte)
\* evidence.ReadRun refuses a report in which an ID occurs twice.
ASSUME ReportsAssumption ==
    \A r \in Reports : r \in Report(Ids, Logs) /\ IsInjective([i \in DOMAIN r.checks |-> r.checks[i].id])
ASSUME RequestsAssumption == Requests \subseteq Request
\* What stands for nothing is not something.
ASSUME NoneAssumption ==
    /\ None \notin Logs /\ None # "local-full"
    /\ None \notin [op : {"failures", "failure", "evidence"}, offset : Nat]

-----------------------------------------------------------------------------
(* Pages.                                                                  *)

ValidOffset(offset, total) == 0 <= offset /\ offset <= total

Page(s, offset, max) == SubSeq(s, offset + 1, Least(offset + max, Len(s)))

\* Mutant of Following: an end that is reached still has a next page.
FollowingEnd(op, offset, max, total) ==
    IF offset + max <= total \/ offset = total THEN [op |-> op, offset |-> Least(offset + max, total)]
    ELSE None

\* Where the items go on that do not fit on a page.
Following(op, offset, max, total) ==
    IF offset + max < total THEN [op |-> op, offset |-> offset + max] ELSE None

-----------------------------------------------------------------------------
(* Level 2: the failed checks.                                             *)

\* What a list and a detail say of a failed check.
FailureFromCheck(check) == [id |-> check.id, text |-> Bounded(check.text)]

Failures(r, offset) ==
    LET failed == Failed(r)
        page == Page(failed, offset, MaxFailurePage)
        following == Following("failures", offset, MaxFailurePage, Len(failed))
    IN  IF ~r.stored THEN Rejected("failures", "run_not_found")
        ELSE IF ~ValidOffset(offset, Len(failed)) THEN Rejected("failures", "invalid_offset")
        ELSE [op |-> "failures", accepted |-> TRUE, code |-> 0, overall |-> r.overall,
              base |-> r.base, offset |-> offset, truncated |-> following # None,
              next |-> following, total |-> Len(failed), returned |-> Len(page),
              items |-> [i \in DOMAIN page |-> FailureFromCheck(page[i])]]

-----------------------------------------------------------------------------
(* Level 3: one failure and its findings.                                  *)

Failing(r, id) == {i \in DOMAIN Failed(r) : Failed(r)[i].id = id}
Check(r, id) == LET i == CHOOSE j \in Failing(r, id) : TRUE IN Failed(r)[i]

RawEvidenceAvailable(check) == check.log # None

FailureDetail(r, id, offset) ==
    LET check == Check(r, id)
        page == Page(check.findings, offset, MaxFindingPage)
        paths == Least(check.paths, MaxEvidencePaths)
        available == RawEvidenceAvailable(check)
        following == Following("failure", offset, MaxFindingPage, Len(check.findings))
        log == IF paths < check.paths /\ available THEN [op |-> "evidence", offset |-> 0] ELSE None
    IN  IF ~r.stored THEN Rejected("failure", "run_not_found")
        ELSE IF Failing(r, id) = {} THEN Rejected("failure", "failure_not_found")
        ELSE IF ~ValidOffset(offset, Len(check.findings)) THEN Rejected("failure", "invalid_offset")
        ELSE [op |-> "failure", accepted |-> TRUE, code |-> 0, overall |-> r.overall,
              base |-> r.base, offset |-> offset,
              truncated |-> following # None \/ paths < check.paths,
              next |-> IF following # None THEN following ELSE log,
              total |-> Len(check.findings), returned |-> Len(page), items |-> Texts(page),
              failure |-> FailureFromCheck(check), available |-> available,
              paths |-> paths, pathsTotal |-> check.paths, pathsReturned |-> paths]

-----------------------------------------------------------------------------
(* Level 4: a page of the log, of which only whole lines are shown, and    *)
(* none from the beginning to the end of a private key.                    *)

Marker(log, lo, hi, first, second) ==
    {i \in lo..(hi - 1) : log[i] = first /\ log[i + 1] = second}
Begins(log, lo, hi) == Marker(log, lo, hi, "B", "b")
Ends(log, lo, hi) == Marker(log, lo, hi, "E", "e")

LineStart(log, p) == 1 + Max({0} \union {i \in 1..(p - 1) : log[i] = "n"})
LineEnd(log, p, stop) == Min({stop} \union {i \in p..stop : log[i] = "n"})

\* Mutant of KeyOpen: a page is judged by itself.
KeyOpenHere(log, offset) == FALSE

\* privateKeyState of what is before the page.
KeyOpen(log, offset) ==
    Max({0} \union Begins(log, 1, offset)) > Max({0} \union Ends(log, 1, offset))

\* sanitizeRawLines: a line that the page continues or does not finish is not shown.
Shown(log, offset, stop) ==
    LET starts == {p \in (offset + 1)..stop : p = offset + 1 \/ log[p - 1] = "n"}
        to(p) == LineEnd(log, p, stop)
        begins(p) == Begins(log, LineStart(log, p), to(p)) # {}
        ends(p) == Ends(log, LineStart(log, p), to(p)) # {}
        open(p) == LET marked == {q \in starts : q < p /\ (begins(q) \/ ends(q))}
                   IN  IF marked = {} THEN KeyOpen(log, offset) ELSE ~ends(Max(marked))
        whole(p) == LineStart(log, p) = p /\ (log[to(p)] = "n" \/ stop = Len(log))
    IN  UNION {p..to(p) : p \in {q \in starts : whole(q) /\ ~begins(q) /\ ~open(q)}}

ReadRawFragment(log, offset) ==
    LET stop == Least(offset + MaxRawChunk, Len(log))
    IN  [total |-> Len(log), returned |-> stop - offset, shown |-> Shown(log, offset, stop)]

SelectedEvidence(r, id, offset) ==
    LET log == Check(r, id).log
        fragment == ReadRawFragment(log, offset)
        stop == offset + fragment.returned
        more == stop < Len(log)
    IN  IF ~r.stored THEN Rejected("evidence", "run_not_found")
        ELSE IF Failing(r, id) = {} THEN Rejected("evidence", "failure_not_found")
        ELSE IF ~RawEvidenceAvailable(Check(r, id)) THEN Rejected("evidence", "evidence_unavailable")
        ELSE IF Len(log) > MaxRawEvidence THEN Rejected("evidence", "evidence_too_large")
        ELSE IF ~ValidOffset(offset, Len(log)) THEN Rejected("evidence", "invalid_offset")
        ELSE [op |-> "evidence", accepted |-> TRUE, code |-> 0, overall |-> r.overall,
              base |-> r.base, offset |-> offset,
              truncated |-> more \/ Check(r, id).outputTruncated,
              next |-> IF more THEN [op |-> "evidence", offset |-> stop] ELSE None,
              total |-> fragment.total, returned |-> fragment.returned, shown |-> fragment.shown,
              id |-> id]

-----------------------------------------------------------------------------
(* Encode, and printProgressiveJSON when nothing fits.                     *)

PageBytes(a) ==
    a.base + (IF a.next = None THEN 0 ELSE 1)
    + CASE a.op = "failures" -> Sum([i \in DOMAIN a.items |-> 1 + a.items[i].text])
        [] a.op = "failure" -> a.failure.text + Sum(a.items) + a.paths
        [] a.op = "evidence" -> Cardinality(a.shown)

\* Mutant of WithItems: the page's own offset is not counted.
WithItemsOfPage(a, n) ==
    [a EXCEPT !.truncated = TRUE, !.items = SubSeq(@, 1, n), !.returned = n,
              !.next = [op |-> a.op, offset |-> n]]

\* The first n items only; refreshNext.
WithItems(a, n) ==
    [a EXCEPT !.truncated = TRUE, !.items = SubSeq(@, 1, n), !.returned = n,
              !.next = [op |-> a.op, offset |-> a.offset + n]]

\* Mutant of WithPaths: LESSON-0017 of docs, the count stays.
WithPathsUncounted(a, n) == [a EXCEPT !.truncated = TRUE, !.paths = n]

WithPaths(a, n) == [a EXCEPT !.truncated = TRUE, !.paths = n, !.pathsReturned = n]

\* Items go first, then a failure's references to evidence.
Shortened(a) ==
    LET items == IF a.op = "evidence" THEN <<>> ELSE Downto0(Len(a.items))
        paths == IF a.op = "failure" THEN Downto0(a.paths) ELSE <<>>
        bare == IF items = <<>> THEN a ELSE WithItems(a, 0)
    IN  <<a>> \o [i \in DOMAIN items |-> WithItems(a, items[i])]
              \o [i \in DOMAIN paths |-> WithPaths(bare, paths[i])]

Encode(a) ==
    IF ~a.accepted THEN a
    ELSE LET answers == Shortened(a)
         IN  FirstFit(answers, [i \in DOMAIN answers |-> PageBytes(answers[i])],
                      Rejected(a.op, "result_encoding_failed"))

\* progressiveCommand, with parsed arguments: its one answer, in a set.
Command(r, op, id, offset) ==
    {Encode(a) : a \in
        {CASE op = "failures" -> Failures(r, offset)
           [] op = "failure" -> FailureDetail(r, id, offset)
           [] op = "evidence" -> SelectedEvidence(r, id, offset)}}

-----------------------------------------------------------------------------
VARIABLES
    report,     \* the report of the verification
    agent,      \* what it does next: start, list, detail, log, done, left, refused
    offset,     \* where it goes on
    told,       \* the failed checks that it was told of
    subject,    \* which of them it looks into
    learnt,     \* the findings of each that it was given
    seen,       \* the positions of each log that it was shown
    reply       \* the last answer

vars == <<report, agent, offset, told, subject, learnt, seen, reply>>

Init ==
    /\ report \in Reports
    /\ agent = "start"
    /\ offset = 0
    /\ told = <<>>
    /\ subject = 1
    /\ learnt = [c \in Ids |-> <<>>]
    /\ seen = [c \in Ids |-> {}]
    /\ reply = None

IdsOf(items) == [i \in DOMAIN items |-> items[i].id]

\* The findings that the first answer gives of a failed check.
FindingsGiven(a, c) ==
    LET place == {i \in DOMAIN a.failures : a.failures[i].id = c}
    IN  IF place = {} THEN <<>> ELSE a.failures[CHOOSE i \in place : TRUE].findings

\* verifyAgent: a truncated answer sends the agent on, another one ends it, with
\* the failed checks and the findings that are in it.
VerifyAgent ==
    /\ agent = "start"
    /\ \/ reply' = Rejected("verify", "verification_unavailable")
       \/ reply' = EncodeResult(NewAgentVerificationResult(report))
    /\ agent' = IF ~reply'.accepted THEN "refused" ELSE IF reply'.truncated THEN "list" ELSE "done"
    /\ told' = IF agent' = "done" THEN IdsOf(reply'.failures) ELSE <<>>
    /\ learnt' = IF agent' = "done" THEN [c \in Ids |-> FindingsGiven(reply', c)] ELSE learnt
    /\ UNCHANGED <<report, offset, subject, seen>>

\* The answer of `worker verify' has no counts: the agent asks for the list.
VerifyWorker ==
    /\ agent = "start"
    /\ \E q \in Requests, standing \in {"ready", "project_not_approved", "project_identity_mismatch",
                                        "verification_unavailable", "active_run"} :
          reply' = Served(q, standing, report)
    /\ agent' = IF reply'.accepted THEN "list" ELSE "refused"
    /\ UNCHANGED <<report, offset, told, subject, learnt, seen>>

\* The next failure, or the end.
Proceed(n) ==
    /\ subject' = n /\ offset' = 0
    /\ agent' = IF n > Len(told') THEN "done" ELSE "detail"

\* Where `next' of the answer sends the agent.
Sent(op) == IF reply'.next = None THEN FALSE ELSE reply'.next.op = op
Resume == offset' = reply'.next.offset /\ UNCHANGED <<agent, subject>>

Stop == agent' = "refused" /\ UNCHANGED <<offset, told, subject, learnt, seen>>

List ==
    /\ agent = "list"
    /\ reply' \in Command(report, "failures", None, offset)
    /\ \/ ~reply'.accepted /\ Stop
       \/ /\ reply'.accepted
          /\ told' = told \o IdsOf(reply'.items)
          /\ UNCHANGED <<learnt, seen>>
          /\ \/ Sent("failures") /\ Resume
             \/ ~Sent("failures") /\ Proceed(1)
    /\ UNCHANGED report

Detail ==
    /\ agent = "detail"
    /\ reply' \in Command(report, "failure", told[subject], offset)
    /\ \/ ~reply'.accepted /\ Stop
       \/ /\ reply'.accepted
          /\ learnt' = [learnt EXCEPT ![told[subject]] = @ \o reply'.items]
          /\ UNCHANGED <<told, seen>>
          /\ \/ Sent("failure") /\ Resume
             \/ /\ ~Sent("failure")
                /\ \/ reply'.available /\ agent' = "log" /\ offset' = 0 /\ UNCHANGED subject
                   \/ ~reply'.available /\ Proceed(subject + 1)
    /\ UNCHANGED report

ReadLog ==
    /\ agent = "log"
    /\ reply' \in Command(report, "evidence", told[subject], offset)
    /\ \/ ~reply'.accepted /\ Stop
       \/ /\ reply'.accepted
          /\ seen' = [seen EXCEPT ![told[subject]] = @ \union reply'.shown]
          /\ UNCHANGED <<told, learnt>>
          /\ \/ Sent("evidence") /\ Resume
             \/ ~Sent("evidence") /\ Proceed(subject + 1)
    /\ UNCHANGED report

\* Any other command: a check that did not fail, a page again, an offset made up.
Wander ==
    /\ agent = "done" /\ agent' = "left"
    /\ \E op \in {"failures", "failure", "evidence"}, id \in Ids, n \in -1..(MaxRawChunk + 1) :
          reply' \in Command(report, op, id, n)
    /\ UNCHANGED <<report, offset, told, subject, learnt, seen>>

Follow == List \/ Detail \/ ReadLog

\* Someone removes the run's evidence.
Lose ==
    /\ report.stored /\ report' = [report EXCEPT !.stored = FALSE]
    /\ UNCHANGED <<agent, offset, told, subject, learnt, seen, reply>>

Over == agent \in {"left", "refused"} /\ UNCHANGED vars

Next == VerifyAgent \/ VerifyWorker \/ Follow \/ Wander \/ Lose \/ Over

\* The agent goes on as long as it is sent on.
Spec == Init /\ [][Next]_vars /\ WF_vars(Follow)

-----------------------------------------------------------------------------
(* Properties.                                                             *)

TypeOK ==
    /\ agent \in {"start", "list", "detail", "log", "done", "left", "refused"}
    /\ offset \in Nat /\ subject \in 1..(Len(told) + 1)
    /\ told \in Seq(Ids)
    /\ learnt \in [Ids -> Seq(Nat)]
    /\ seen \in [Ids -> SUBSET Nat]

\* The checks that the agent has gone through, of those that it was told of.
Examined == {told[i] : i \in 1..(subject - 1)}

\* An agent that goes where it is sent is told of the failed checks in the
\* order of the report, each once, and gets their findings in order: none is
\* lost between two pages or in an answer that was shortened to fit.  When
\* retrieval sends it nowhere any more it has all of them.  The answer of
\* `verify --agent' may send it nowhere from the start (protocol.go:199): then it
\* has all failed checks, but of the findings of each only the first
\* MaxFailureFindings (protocol.go:435), and is not told that there are more.
NothingMissed ==
    LET failed == Failed(report)
        findings(c) == Texts(Check(report, c).findings)
    IN  /\ IsPrefix(told, IdsOf(failed))
        /\ agent \in {"detail", "log", "done", "left"} => told = IdsOf(failed)
        /\ \A c \in ToSet(told) : IsPrefix(learnt[c], findings(c))
        /\ \A c \in Examined : learnt[c] = findings(c)
        /\ agent \in {"done", "left"} =>
              \A c \in ToSet(told) \ Examined : learnt[c] = Cut(findings(c), MaxFailureFindings)

\* What the answer of `verify --agent' counts is so, after each of its cuts: it
\* has the first checks and the first failures, as many as it says, of as many as
\* there are.  It is marked if one is missing or a text was dropped, and else not.
AgentCountsTrue ==
    LET checks == IdsOf(report.checks)
        failed == IdsOf(Failed(report))
        short == \/ reply.checksReturned < reply.checksTotal
                 \/ reply.failuresReturned < reply.failuresTotal
        Text(i) == reply.checks[i].text
    IN  /\ reply.checksTotal = Len(checks) /\ reply.checksReturned = Len(reply.checks)
        /\ reply.failuresTotal = Len(failed) /\ reply.failuresReturned = Len(reply.failures)
        /\ IdsOf(reply.checks) = Cut(checks, reply.checksReturned)
        /\ IdsOf(reply.failures) = Cut(failed, reply.failuresReturned)
        /\ reply.truncated => short \/ \A i \in DOMAIN reply.checks : Text(i) = 0
        /\ ~reply.truncated => /\ ~short
                               /\ \A i \in DOMAIN reply.checks :
                                     Text(i) = Bounded(report.checks[i].text)

\* What an answer says of how much it has, and of how much there is, is so: of
\* the checks and failures of `verify --agent', of the items and references of a
\* page, and of the bytes of a log, whose truncation by the runner is said too
\* (retrieval.go:111).  `worker verify' counts nothing and has the first checks and
\* failures.  What neither counts is left out here: the findings and references
\* of each failure in the first answer (protocol.go:429 and 435).
RepliesTruthful ==
    reply # None /\ reply.accepted =>
        CASE reply.op = "verify" /\ reply.class = None ->
                /\ IdsOf(reply.checks) = Cut(IdsOf(report.checks), MaxChecks)
                /\ IdsOf(reply.failures) = Cut(IdsOf(Failed(report)), MaxFailureItems)
          [] reply.op = "verify" /\ reply.class # None -> AgentCountsTrue
          [] reply.op = "failures" ->
                /\ reply.returned = Len(reply.items)
                /\ reply.truncated <=> reply.offset + reply.returned < reply.total
          [] reply.op = "failure" ->
                /\ reply.returned = Len(reply.items) /\ reply.pathsReturned = reply.paths
                /\ reply.truncated <=> \/ reply.offset + reply.returned < reply.total
                                       \/ reply.pathsReturned < reply.pathsTotal
          [] reply.op = "evidence" ->
                reply.truncated <=> \/ reply.offset + reply.returned < reply.total
                                    \/ Check(report, reply.id).outputTruncated

\* The lines of a private key: from the one that begins it to the one that ends it.
KeyLine(log, p) ==
    \E b \in Begins(log, 1, LineEnd(log, p, Len(log))) :
        \A e \in Ends(log, 1, LineStart(log, p) - 1) : e < b

WholeLine(log, p) == LineStart(log, p)..LineEnd(log, p, Len(log))

\* A begin marker that follows an end marker in its line is followed by another:
\* elsewhere sanitizeRawLines takes the key to have ended with the line, whatever
\* the order, and privateKeyState of a page that starts below it to have begun.
Settled(log) ==
    \A p \in DOMAIN log :
        LET start == LineStart(log, p)
            end == LineEnd(log, p, Len(log))
        IN  Ends(log, start, end) # {} =>
                \A b \in Begins(log, start, end) : \E e \in Ends(log, start, end) : b < e

PageEnd(q) == q % MaxRawChunk = 0

\* The line of p goes on past the end of a page.
Crosses(log, p) == \E q \in DOMAIN log : PageEnd(q) /\ {q, q + 1} \subseteq WholeLine(log, p)

DueLines(log) == {p \in DOMAIN log : ~KeyLine(log, p) /\ ~Crosses(log, p)}

\* What is shown of a log does not depend on where its pages end, but for the
\* lines that cross from one to the next: all whole lines that are not of a
\* private key, and nothing else.
LinesShownWhole ==
    \A i \in DOMAIN Failed(report) :
        LET c == Failed(report)[i].id
            log == Failed(report)[i].log
        IN  /\ log = None => seen[c] = {}
            /\ log # None /\ Settled(log) =>
                  /\ seen[c] \subseteq DueLines(log)
                  /\ c \in Examined => DueLines(log) \subseteq seen[c]

\* Every failure fits on a page of its own, and so does every finding with the
\* references to evidence, and a page of a log.
Manageable(r) ==
    /\ r.stored
    /\ \A i \in DOMAIN Failed(r) :
          LET c == Failed(r)[i]
              fixed == r.base + 1 + Bounded(c.text)
          IN  /\ fixed + 1 <= MaxResult
              /\ \A n \in DOMAIN c.findings :
                    fixed + Bounded(c.findings[n]) + Least(c.paths, MaxEvidencePaths) <= MaxResult
              /\ c.log # None => Len(c.log) <= MaxRawEvidence /\ r.base + 1 + MaxRawChunk <= MaxResult

\* The agent is not sent round in circles: with parts that fit, `next' ends.
\* (An item that does not fit makes an empty page whose next page is itself.)
RetrievalEnds ==
    agent = "list" /\ Manageable(report) ~> agent = "done" \/ ~report.stored

=============================================================================
