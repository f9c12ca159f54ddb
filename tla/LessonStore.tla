----------------------------- MODULE LessonStore -----------------------------
(***************************************************************************)
(* What a reader of the authoritative lessons may rely on: the files of    *)
(* the project's directory and of the global one, and how they change      *)
(* while nobody withdraws a whole file.  KnowledgeVault, the invocations   *)
(* that change them, implements it; KnowledgeSearch reads from it.         *)
(*                                                                         *)
(* Abstractions.  A content hash is the creation at which it was computed, *)
(* and the machine ID of a lesson is the hash of its first revision: both  *)
(* are unique.  Of a lesson's text only the Fix Records that it names are  *)
(* kept.                                                                   *)
(***************************************************************************)
EXTENDS Naturals, FiniteSets

CONSTANTS
    Fixes,          \* identifiers of Fix Records
    MaxLessons,     \* maxLessons, the limit of a directory
    MaxTime         \* bound on the files created

ASSUME LimitAssumption == MaxLessons \in Nat /\ MaxTime \in Nat

Scopes == {"PROJECT", "GLOBAL"}
Statuses == {"CANDIDATE", "REQUIRES_REVIEW", "VERIFIED", "SUPERSEDED", "REJECTED"}
Time == 0..MaxTime
Lesson == [id : Time, rev : Nat, status : Statuses, sources : SUBSET Fixes,
           prev : Time, origin : Time, hash : Time]
File == [lesson : Lesson, whole : BOOLEAN]
NoLesson == [id |-> 0, rev |-> 0, status |-> "CANDIDATE", sources |-> {},
             prev |-> 0, origin |-> 0, hash |-> 0]

VARIABLES
    store,      \* the files of each directory
    clock,      \* files created so far
    shown,      \* history: the Fix Records that were valid at some time
    withdrawn   \* history: a file with a whole revision in it has been removed

storeVars == <<store, clock, shown, withdrawn>>

StoreInit ==
    /\ store = [s \in Scopes |-> {}]
    /\ clock = 0
    /\ shown \in SUBSET Fixes
    /\ withdrawn = FALSE

Name(l) == <<l.id, l.rev>>
Named(s, n) == {f \in store[s] : Name(f.lesson) = n}
Lessons(s) == {f.lesson : f \in {g \in store[s] : g.whole}}

\* Where a lesson belongs: only a global one names the lesson it was made of.
Scope(l) == IF l.origin # 0 THEN "GLOBAL" ELSE "PROJECT"

-----------------------------------------------------------------------------
(* What a directory holds for a reader.                                    *)

\* Of the files that were listed, those that are whole.
FoundIn(s, names) == {l \in Lessons(s) : Name(l) \in names}

\* readAuthoritative: every one of them is, and continues the one before it.
Intact(s, names) ==
    LET found == FoundIn(s, names)
    IN  /\ {Name(l) : l \in found} = names
        /\ \A l \in found : l.rev > 1 =>
              \E k \in found : k.id = l.id /\ k.rev = l.rev - 1 /\ k.hash = l.prev

\* Read
IsNewest(l, lessons) == \A k \in lessons : k.id = l.id => k.rev <= l.rev

-----------------------------------------------------------------------------
(* How it changes.                                                         *)

\* The revision of l's lesson that comes before l, among the whole ones of s.
Before(s, l) == {k \in Lessons(s) : k.id = l.id /\ k.rev + 1 = l.rev}

\* What may come after k.
Follows(k, l) ==
    CASE l.status = "VERIFIED" ->
            k.status \in {"CANDIDATE", "REQUIRES_REVIEW"} /\ l.sources = k.sources
      [] l.status = "SUPERSEDED" -> k.status = "VERIFIED" /\ l.sources = k.sources
      [] l.status = "REJECTED" -> k.status \in {"CANDIDATE", "REQUIRES_REVIEW"}
      [] OTHER -> TRUE

\* A candidate and a verified lesson name Fix Records, which have been valid.
Evidenced(l) ==
    l.status \in {"CANDIDATE", "VERIFIED"} => l.sources # {} /\ l.sources \subseteq shown

\* A file is created for l, without its text.
Place(l) ==
    /\ Evidenced(l) /\ Named(Scope(l), Name(l)) = {}
    /\ store' = [store EXCEPT ![Scope(l)] = @ \union {[lesson |-> l, whole |-> FALSE]}]

\* A new lesson.
AppendDraft ==
    \E status \in {"CANDIDATE", "REQUIRES_REVIEW"}, sources \in SUBSET Fixes :
        Place([NoLesson EXCEPT !.id = clock + 1, !.rev = 1, !.status = status,
                   !.sources = sources, !.hash = clock + 1])

\* The next revision of a lesson of the project.
AppendRevision ==
    \E k \in Lessons("PROJECT"), status \in Statuses, sources \in SUBSET Fixes :
        LET l == [k EXCEPT !.rev = @ + 1, !.prev = k.hash, !.status = status,
                     !.sources = sources, !.hash = clock + 1]
        IN  Follows(k, l) /\ Place(l)

\* The publication of a verified one.
AppendPromotion ==
    \E k \in Lessons("PROJECT") :
        /\ k.status = "VERIFIED"
        /\ Place([k EXCEPT !.id = clock + 1, !.rev = 1, !.prev = 0, !.origin = k.id,
                      !.hash = clock + 1])

Append ==
    /\ clock < MaxTime /\ clock' = clock + 1
    /\ AppendDraft \/ AppendRevision \/ AppendPromotion
    /\ UNCHANGED <<shown, withdrawn>>

\* It gets its text, or is removed.
Fill ==
    /\ \E s \in Scopes : \E f \in {g \in store[s] : ~g.whole} :
          \/ store' = [store EXCEPT ![s] = (@ \ {f}) \union {[lesson |-> f.lesson, whole |-> TRUE]}]
          \/ store' = [store EXCEPT ![s] = @ \ {f}]
    /\ UNCHANGED <<clock, shown, withdrawn>>

\* More Fix Records have been valid.
Show ==
    /\ shown' \in {more \in SUBSET Fixes : shown \subseteq more}
    /\ UNCHANGED <<store, clock, withdrawn>>

StoreStep == Show \/ Fill \/ Append

\* Nothing is promised once a whole file has been withdrawn.
StoreSpec == StoreInit /\ [][StoreStep \/ withdrawn']_storeVars
=============================================================================
