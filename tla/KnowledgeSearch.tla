--------------------------- MODULE KnowledgeSearch ---------------------------
(***************************************************************************)
(* `devctl knowledge search' beside the invocations that append lessons.   *)
(*                                                                         *)
(* A search reads the directory of the project and then the global one,    *)
(* each twice unless the history is asked for: searchLessons calls ListAll *)
(* and then List.  Nothing holds the store still meanwhile.                *)
(*                                                                         *)
(* Abstractions.  Those of LessonStore and KnowledgeVault.  A query is the *)
(* weights of the texts that match it, a text what LessonStore keeps of a  *)
(* lesson.  How many results fit into MaxSearchBytes is any number.        *)
(***************************************************************************)
EXTENDS KnowledgeVault

CONSTANTS
    Queries,    \* weights of texts, and whether the history is asked for
    Limit       \* the results that are asked for

ASSUME QueryAssumption ==
    /\ \A q \in Queries :
          q.history \in BOOLEAN /\ \A text \in DOMAIN q.weights : q.weights[text] \in Nat
    /\ Limit \in Nat \ {0}

VARIABLES
    at,         \* where the search is
    scope,      \* the directory that it reads
    query,      \* the query
    names,      \* the names of the directory
    found,      \* the lessons that match
    answer,     \* the response: what it shows, and whether it is truncated
    began       \* history: the lessons that were settled when the search began

searchVars == <<at, scope, query, names, found, answer, began>>

NoQuery == [weights |-> <<>>, history |-> FALSE]

SearchInit ==
    /\ Init
    /\ at = "idle" /\ scope = "PROJECT" /\ query = NoQuery
    /\ names = {} /\ found = {} /\ began = {}
    /\ answer = [results |-> {}, truncated |-> FALSE]

-----------------------------------------------------------------------------
(* Which lessons, and in which order.                                      *)

\* Mutant of Current: the newest that is verified, however old.
CurrentVerified(lessons) ==
    {l \in lessons : \A k \in lessons : k.id = l.id /\ k.status = "VERIFIED" => k.rev <= l.rev}

\* List: the newest revision of each lesson.
Current(lessons) == {l \in lessons : IsNewest(l, lessons)}

\* searchLessons: those of a directory that are searched, and match.
Chosen(lessons) ==
    {l \in (IF query.history THEN lessons ELSE {k \in Current(lessons) : k.status = "VERIFIED"}) :
        l.sources \in DOMAIN query.weights}

\* scoreLesson, statusRank, scopeRank
Score(l) == query.weights[l.sources] + (IF l.status = "VERIFIED" THEN 1 ELSE 0)
StatusRank(l) ==
    CASE l.status = "VERIFIED" -> 0
      [] l.status = "CANDIDATE" -> 1
      [] l.status = "REQUIRES_REVIEW" -> 2
      [] l.status = "SUPERSEDED" -> 3
      [] OTHER -> 4
ScopeRank(l) == IF Scope(l) = "PROJECT" THEN 0 ELSE 1

\* Search, its sort: l comes before k.
Outranks(l, k) ==
    LET keys == << <<Score(k), Score(l)>>, <<StatusRank(l), StatusRank(k)>>,
                   <<ScopeRank(l), ScopeRank(k)>>, <<l.id, k.id>>, <<k.rev, l.rev>> >>
    IN  \E i \in DOMAIN keys :
            /\ keys[i][1] < keys[i][2]
            /\ \A j \in 1..(i - 1) : keys[j][1] = keys[j][2]

\* The first n of them.
FirstOf(lessons, n) ==
    {l \in lessons : Cardinality({k \in lessons : Outranks(k, l)}) < n}

-----------------------------------------------------------------------------
(* A search.                                                               *)

\* readAuthoritative: the names of a directory, when they are not too many.
Listing ==
    /\ Cardinality(store[scope]) <= MaxLessons
    /\ names' = {Name(f.lesson) : f \in store[scope]} /\ at' = "listed"

\* Search, to the names of the project's directory.
Begin ==
    /\ at = "idle" /\ Listing
    /\ query' \in Queries
    /\ began' = UNION {Settled(s) : s \in Scopes}
    /\ UNCHANGED <<scope, found, answer>>

\* searchLessons, the names of the global directory.
ListNames ==
    /\ at = "list" /\ Listing
    /\ UNCHANGED <<scope, query, found, answer, began>>

\* Too many names, or a file that cannot be read, are an error, and the search is
\* over as if it had not been.  The reading that only looks for errors may have met
\* one at any time before.
Refuse ==
    /\ \/ at = "list" /\ (~query.history \/ Cardinality(store[scope]) > MaxLessons)
       \/ at = "listed" /\ ~Intact(scope, names)
    /\ at' = "idle" /\ scope' = "PROJECT" /\ query' = NoQuery
    /\ names' = {} /\ found' = {} /\ began' = {}
    /\ UNCHANGED answer

\* Mutant of ReadFiles: what was found in the project is lost.
ReadLast ==
    /\ at = "listed" /\ Intact(scope, names)
    /\ found' = Chosen(FoundIn(scope, names))
    /\ names' = {}
    /\ IF scope = "PROJECT" THEN scope' = "GLOBAL" /\ at' = "list"
       ELSE at' = "found" /\ UNCHANGED scope
    /\ UNCHANGED <<query, answer, began>>

\* searchLessons, of the project and then of the global directory.
ReadFiles ==
    /\ at = "listed" /\ Intact(scope, names)
    /\ found' = found \union Chosen(FoundIn(scope, names))
    /\ names' = {}
    /\ IF scope = "PROJECT" THEN scope' = "GLOBAL" /\ at' = "list"
       ELSE at' = "found" /\ UNCHANGED scope
    /\ UNCHANGED <<query, answer, began>>

\* Search and boundSearchResponse: the first of them, as many as asked for and
\* as fit, and whether there are more.
Answer ==
    /\ at = "found"
    /\ \E n \in 0..Limit :
          LET results == FirstOf(found, n)
          IN  answer' = [results |-> results, truncated |-> results # found]
    /\ at' = "answered" /\ names' = {} /\ found' = {}
    /\ UNCHANGED <<scope, query, began>>

\* The store goes on until the search has read it.
SearchNext ==
    \/ (Begin \/ ListNames \/ Refuse \/ ReadFiles \/ Answer) /\ UNCHANGED vars
    \/ at \in {"idle", "list", "listed"} /\ Next /\ UNCHANGED searchVars
SearchSpec == SearchInit /\ [][SearchNext]_<<vars, searchVars>>

-----------------------------------------------------------------------------
(* What a search promises.                                                 *)

Newer(k, l) == Scope(k) = Scope(l) /\ k.id = l.id /\ k.rev > l.rev

\* A search without the history presents no lesson that had lost its status when
\* it began (searchLessons; docs/STAGE_7F_C_DETERMINISTIC_SEARCH.md:50): whatever
\* is appended, removed or left behind between its readings, a result is VERIFIED
\* and no newer revision of it had been appended then.
SearchIsCurrent ==
    at = "answered" /\ ~query.history =>
        \A l \in answer.results :
            l.status = "VERIFIED" /\ ~\E k \in began : Newer(k, l)

\* A search hides nothing without saying so: a lesson that matched and was the
\* current VERIFIED one when the search began, and still is, is among the results,
\* or the response says that it is truncated and every result outranks it.  So is
\* any revision of then, when the history was asked for (Search, searchLessons,
\* boundSearchResponse).
NothingHidden ==
    at = "answered" /\ (query.history \/ ~withdrawn) =>
        \A l \in began :
            /\ l.sources \in DOMAIN query.weights
            /\ ~query.history => l.status = "VERIFIED" /\ ~\E k \in Lessons(Scope(l)) : Newer(k, l)
            => \/ l \in answer.results
               \/ answer.truncated /\ \A r \in answer.results : Outranks(r, l)
=============================================================================
