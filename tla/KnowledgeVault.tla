--------------------------- MODULE KnowledgeVault ---------------------------
(***************************************************************************)
(* Package knowledgevault: the authoritative lessons of a project and the  *)
(* global ones, each a directory with a file for every revision, and the   *)
(* devctl invocations that append revisions to them.                       *)
(*                                                                         *)
(* Nothing orders the invocations.  Each reads the whole directory, file   *)
(* by file, once to find the current revision and once more before it      *)
(* creates the file of the next one with O_EXCL; it then writes, syncs and *)
(* closes that file, and removes it when one of these fails.  A reader     *)
(* refuses the whole directory for one file that it cannot parse, for a    *)
(* revision whose predecessor is missing or has another hash, and for more *)
(* files than maxLessons.                                                  *)
(*                                                                         *)
(* Abstractions.  Those of LessonStore, which says what a reader sees of   *)
(* all this.  A directory is listed at one instant, and the files listed   *)
(* are read at a later one: a whole file never changes while it is there.  *)
(***************************************************************************)
EXTENDS LessonStore

CONSTANT Procs      \* devctl invocations at a time

Kinds == {"approve", "reject", "supersede", "correct", "promote"}
Operation == [kind : Kinds, sources : SUBSET Fixes]

VARIABLES
    valid,      \* the Fix Records that fixrecord.Show accepts
    pc,         \* where each invocation is
    next,       \* the revision that it appends
    listed      \* the names of the directory that it reads

vars == <<store, valid, clock, withdrawn, shown, pc, next, listed>>
local == <<next, listed>>

Init ==
    /\ StoreInit
    /\ valid = shown
    /\ pc = [p \in Procs |-> "idle"]
    /\ next = [p \in Procs |-> NoLesson]
    /\ listed = [p \in Procs |-> {}]

Goto(p, l) == pc' = [pc EXCEPT ![p] = l]

\* The invocation has or failed, or was killed: the next one begins.
Over(p) ==
    /\ Goto(p, "idle")
    /\ next' = [next EXCEPT ![p] = NoLesson]
    /\ listed' = [listed EXCEPT ![p] = {}]

-----------------------------------------------------------------------------
(* What the operations append.                                             *)

\* validateAndBindFixSources
Bound(sources) == sources # {} /\ sources \subseteq valid

\* A draft, of a new lesson or as a correction of l.
Drafted(l, sources) ==
    [NoLesson EXCEPT !.id = l.id, !.rev = l.rev + 1, !.prev = l.hash, !.sources = sources,
        !.status = IF Bound(sources) THEN "CANDIDATE" ELSE "REQUIRES_REVIEW"]

\* The next revision of l with another status.
Revised(l, status) == [l EXCEPT !.rev = @ + 1, !.prev = l.hash, !.status = status]

\* Mutant of Allowed: whatever has evidence can be promoted.
AllowedByEvidence(o, l) ==
    CASE o.kind \in {"approve", "reject"} -> l.status \in {"CANDIDATE", "REQUIRES_REVIEW"}
      [] o.kind = "supersede" -> l.status = "VERIFIED"
      [] o.kind = "promote" -> Bound(l.sources)
      [] OTHER -> TRUE

\* Whether o may be done on the current revision l, and what it appends.
Allowed(o, l) ==
    CASE o.kind \in {"approve", "reject"} -> l.status \in {"CANDIDATE", "REQUIRES_REVIEW"}
      [] o.kind = "supersede" -> l.status = "VERIFIED"
      [] o.kind = "promote" -> l.status = "VERIFIED" /\ l.sources \subseteq valid
      [] OTHER -> TRUE

\* What o appends to l.
Appended(o, l) ==
    CASE o.kind = "approve" ->
            Revised(l, IF Bound(l.sources) THEN "VERIFIED" ELSE "REQUIRES_REVIEW")
      [] o.kind = "reject" -> Revised(l, "REJECTED")
      [] o.kind = "supersede" -> Revised(l, "SUPERSEDED")
      [] o.kind = "promote" -> [l EXCEPT !.id = 0, !.rev = 1, !.prev = 0, !.origin = l.id]
      [] OTHER -> Drafted(l, o.sources)

-----------------------------------------------------------------------------
(* An invocation.                                                          *)

\* readAuthoritative: the names of the directory, when they are not too many.
List(p, s) ==
    /\ Cardinality(store[s]) <= MaxLessons
    /\ listed' = [listed EXCEPT ![p] = {Name(f.lesson) : f \in store[s]}]

\* A new lesson.
Draft(p) ==
    /\ pc[p] = "idle"
    /\ \E sources \in SUBSET Fixes :
          next' = [next EXCEPT ![p] = Drafted(NoLesson, sources)]
    /\ Goto(p, "list")
    /\ UNCHANGED <<store, valid, shown, clock, withdrawn, listed>>

\* A command on a lesson of the project; Find says which.
Call(p) ==
    /\ pc[p] = "idle"
    /\ List(p, "PROJECT")
    /\ Goto(p, "find")
    /\ UNCHANGED <<store, valid, shown, clock, withdrawn, next>>

\* readAuthoritative: the files.
Found(p) == FoundIn(Scope(next[p]), listed[p])
Readable(p) == Intact(Scope(next[p]), listed[p])

\* The current revision allows the operation, or the invocation fails.
Find(p) ==
    /\ pc[p] = "find"
    /\ \/ /\ Readable(p)
          /\ \E l \in Found(p), o \in Operation :
                /\ IsNewest(l, Found(p)) /\ Allowed(o, l)
                /\ next' = [next EXCEPT ![p] = Appended(o, l)]
          /\ Goto(p, "list")
          /\ listed' = [listed EXCEPT ![p] = {}]
       \/ Over(p)
    /\ UNCHANGED <<store, valid, shown, clock, withdrawn>>

\* appendRevision: the directory is read again.
ListAgain(p) ==
    /\ pc[p] = "list"
    /\ \/ List(p, Scope(next[p])) /\ Goto(p, "check") /\ UNCHANGED next
       \/ Cardinality(store[Scope(next[p])]) > MaxLessons /\ Over(p)
    /\ UNCHANGED <<store, valid, shown, clock, withdrawn>>

\* appendRevision, up to the file: what was read has room for this revision.
Fits(p) ==
    /\ Readable(p)
    /\ Name(next[p]) \notin listed[p]
    /\ Cardinality(listed[p]) < MaxLessons
    /\ next[p].rev > 1 => next[p].prev # 0

Check(p) ==
    /\ pc[p] = "check"
    /\ \/ /\ Fits(p)
          /\ Goto(p, "create")
          /\ listed' = [listed EXCEPT ![p] = {}]
          /\ UNCHANGED next
       \/ ~Fits(p) /\ Over(p)
    /\ UNCHANGED <<store, valid, shown, clock, withdrawn>>

Stamped(l, time) == [l EXCEPT !.hash = time, !.id = IF @ = 0 THEN time ELSE @]

\* os.OpenFile with O_EXCL, which may also fail.
Create(p) ==
    /\ pc[p] = "create"
    /\ LET l == Stamped(next[p], clock + 1)
       IN \/ /\ Named(Scope(l), Name(l)) = {} /\ clock < MaxTime
             /\ store' = [store EXCEPT ![Scope(l)] = @ \union {[lesson |-> l, whole |-> FALSE]}]
             /\ next' = [next EXCEPT ![p] = l]
             /\ clock' = clock + 1
             /\ Goto(p, "write")
             /\ UNCHANGED listed
          \/ Over(p) /\ UNCHANGED <<store, clock>>
    /\ UNCHANGED <<valid, shown, withdrawn>>

\* The file gets its bytes, or an error is met.
Write(p) ==
    /\ pc[p] = "write"
    /\ \/ /\ store' = [store EXCEPT ![Scope(next[p])] =
                (@ \ Named(Scope(next[p]), Name(next[p]))) \union {[lesson |-> next[p], whole |-> TRUE]}]
          /\ Goto(p, "close")
       \/ Goto(p, "remove") /\ UNCHANGED store
    /\ UNCHANGED <<valid, shown, clock, withdrawn, local>>

\* Sync and Close: the invocation answers, or an error is met.
Close(p) ==
    /\ pc[p] = "close"
    /\ Over(p) \/ (Goto(p, "remove") /\ UNCHANGED local)
    /\ UNCHANGED <<store, valid, shown, clock, withdrawn>>

\* The deferred os.Remove, whose error nobody sees.
Remove(p) ==
    /\ pc[p] = "remove" /\ Over(p)
    /\ \/ /\ store' = [store EXCEPT ![Scope(next[p])] = @ \ Named(Scope(next[p]), Name(next[p]))]
          /\ withdrawn' = (withdrawn \/ \E f \in Named(Scope(next[p]), Name(next[p])) : f.whole)
       \/ UNCHANGED <<store, withdrawn>>
    /\ UNCHANGED <<valid, shown, clock>>

\* The invocation is killed, and leaves its file as it is.
Crash(p) ==
    /\ pc[p] # "idle" /\ Over(p)
    /\ UNCHANGED <<store, valid, shown, clock, withdrawn>>

\* Fix Records are added, by `devctl fixes record', or damaged.
FixesChange ==
    /\ valid' \in SUBSET Fixes
    /\ shown' = shown \union valid'
    /\ UNCHANGED <<store, clock, withdrawn, pc, local>>

Invoked(p) ==
    \/ Draft(p) \/ Call(p)
    \/ Find(p) \/ ListAgain(p) \/ Check(p) \/ Create(p) \/ Write(p) \/ Close(p) \/ Remove(p)
    \/ Crash(p)
Next == (\E p \in Procs : Invoked(p)) \/ FixesChange
Spec == Init /\ [][Next]_vars

-----------------------------------------------------------------------------
(* What the store promises.                                                *)

PCs == {"idle", "find", "list", "check", "create", "write", "close", "remove"}

TypeOK ==
    /\ store \in [Scopes -> SUBSET File]
    /\ valid \subseteq Fixes /\ shown \subseteq Fixes
    /\ clock \in Time
    /\ withdrawn \in BOOLEAN
    /\ pc \in [Procs -> PCs]
    /\ next \in [Procs -> Lesson]
    /\ listed \in [Procs -> SUBSET (Time \X Nat)]
    /\ \A p \in Procs :
          pc[p] = "write" => [lesson |-> next[p], whole |-> FALSE] \in store[Scope(next[p])]

\* However appends interleave, fail or are cut short, a revision has one file,
\* and one that continues another has its predecessor beside it, whole, with
\* the hash that it names: a reader never finds a chain broken by the program,
\* unless a file was removed after it had its revision in it (store.go:414-438).
HistoryLinked ==
    \A s \in Scopes :
        /\ \A f, g \in store[s] : Name(f.lesson) = Name(g.lesson) => f = g
        /\ ~withdrawn => \A l \in Lessons(s) :
              l.rev > 1 => \E k \in Before(s, l) : k.hash = l.prev

\* No revision skips a step of the lifecycle, whatever was appended since the
\* invocation read: VERIFIED follows a revision to be reviewed, with the same
\* evidence, which was valid at some time; SUPERSEDED follows VERIFIED; and
\* what is global was VERIFIED in the project (store.go:109-248).
LifecycleFollowed ==
    /\ \A s \in Scopes : \A l \in Lessons(s) :
          l.status = "VERIFIED" => l.sources # {} /\ l.sources \subseteq shown
    /\ ~withdrawn =>
          /\ \A l \in Lessons("PROJECT") :
                /\ l.rev > 1 => \E k \in Before("PROJECT", l) : Follows(k, l)
                /\ l.rev = 1 => l.status \in {"CANDIDATE", "REQUIRES_REVIEW"}
          /\ \A l \in Lessons("GLOBAL") : \E k \in Lessons("PROJECT") :
                k.id = l.origin /\ k.status = "VERIFIED" /\ k.sources = l.sources

\* A whole revision that its invocation is done with stays in the store as it
\* is: nobody else's append, failure or death removes or changes it
\* (store.go:414-438).
Settled(s) ==
    {l \in Lessons(s) : \A p \in Procs : pc[p] \in {"close", "remove"} => next[p] # l}

SettledLasts == [][\A s \in Scopes : Settled(s) \subseteq Lessons(s)']_vars

\* All that a reader relies on: whatever invocations do, fail to do or leave
\* behind, a file appears without its text and as the draft, the next revision or
\* the publication of a whole one that is there, gets its text once and stays as
\* it is, until a whole file has been withdrawn (store.go:369-521).
KeepsStore == StoreSpec

=============================================================================
