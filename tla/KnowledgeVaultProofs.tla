------------------------ MODULE KnowledgeVaultProofs ------------------------
(***************************************************************************)
(* Proofs about the lesson store, for any number of invocations at a time, *)
(* any Fix Records and any limits.  The argument has two halves: a file    *)
(* belongs to one invocation from its creation until that one is done, so  *)
(* nobody replaces a whole file (Owned); and what an invocation carries    *)
(* from its reading to its writing still continues a revision that is in   *)
(* the store, because nothing but a withdrawal removes one (Sound).  That   *)
(* is what LessonStore promises to readers.  A search finds all that was   *)
(* settled when it began, for it stays so (SettledStay).                   *)
(***************************************************************************)
EXTENDS KnowledgeSearch, FiniteSetTheorems, TLAPS

\* From reading the current revision to writing the next one, and from the
\* creation of a file to its end.
Working == {"list", "check", "create", "write"}
Owning == {"write", "close", "remove"}

\* l continues what is in the store, by its link and by the lifecycle.
Sound(l) ==
    /\ Evidenced(l)
    /\ l.rev = 1 => l.prev = 0
    /\ Scope(l) = "GLOBAL" => l.rev = 1 /\ l.status = "VERIFIED"
    /\ ~withdrawn =>
          /\ l.rev > 1 =>
                \E k \in Before(Scope(l), l) : k.hash = l.prev /\ Follows(k, l)
          /\ Scope(l) = "PROJECT" /\ l.rev = 1 =>
                l.status \in {"CANDIDATE", "REQUIRES_REVIEW"}
          /\ Scope(l) = "GLOBAL" =>
                \E k \in Lessons("PROJECT") :
                    k.id = l.origin /\ k.status = "VERIFIED" /\ k.sources = l.sources

\* Where files are, and that a name has one.
Placed ==
    /\ \A s \in Scopes : \A f \in store[s] :
          Scope(f.lesson) = s /\ f.lesson.id # 0 /\ f.lesson.rev # 0
    /\ \A s \in Scopes : \A f, g \in store[s] : Name(f.lesson) = Name(g.lesson) => f = g

\* The file that an invocation has created is there, and nobody else's.
Owned ==
    /\ \A p \in Procs : pc[p] \in Owning =>
          \E w \in BOOLEAN :
              /\ [lesson |-> next[p], whole |-> w] \in store[Scope(next[p])]
              /\ pc[p] = "write" => w = FALSE
    /\ \A p, q \in Procs :
          /\ p # q /\ pc[p] \in Owning /\ pc[q] \in Owning
          /\ Scope(next[p]) = Scope(next[q])
          => Name(next[p]) # Name(next[q])

\* What an invocation has in hand.
Carried ==
    /\ \A p \in Procs : pc[p] \in {"idle", "find"} => next[p] = NoLesson
    /\ \A p \in Procs : pc[p] \in Working =>
          /\ Sound(next[p])
          /\ next[p].rev # 0
          /\ next[p].rev > 1 => next[p].id # 0
          /\ next[p].rev = 1 /\ pc[p] # "write" => next[p].id = 0

\* TypeOK, less what follows from Owned.
Types ==
    /\ store \in [Scopes -> SUBSET File]
    /\ valid \subseteq Fixes /\ shown \subseteq Fixes
    /\ clock \in Time
    /\ withdrawn \in BOOLEAN
    /\ pc \in [Procs -> PCs]
    /\ next \in [Procs -> Lesson]
    /\ listed \in [Procs -> SUBSET (Time \X Nat)]

IInv ==
    /\ Types /\ Placed /\ Owned /\ Carried
    /\ valid \subseteq shown
    /\ \A s \in Scopes : \A l \in Lessons(s) : Sound(l)

-----------------------------------------------------------------------------
(* Lessons and what is appended to them.                                   *)

LEMMA NoLessonType == NoLesson \in Lesson
BY LimitAssumption DEF NoLesson, Lesson, Time, Statuses

\* A draft is a lesson.
LEMMA DraftedType ==
    ASSUME NEW l \in Lesson, NEW sources \in SUBSET Fixes
    PROVE  Drafted(l, sources) \in Lesson
<1>1. l.rev + 1 \in Nat /\ l.hash \in Time /\ l.id \in Time
  BY DEF Lesson
<1> QED BY <1>1, NoLessonType DEF Drafted, Lesson, Statuses

\* So is whatever an operation appends to one.
LEMMA AppendedType ==
    ASSUME NEW l \in Lesson, NEW o \in Operation
    PROVE  Appended(o, l) \in Lesson
<1>1. l.rev + 1 \in Nat /\ l.hash \in Time /\ l.id \in Time /\ 0 \in Time
  BY LimitAssumption DEF Lesson, Time
<1>2. \A status \in Statuses : Revised(l, status) \in Lesson
  BY <1>1 DEF Revised, Lesson
<1>3. \A sources \in SUBSET Fixes : Drafted(l, sources) \in Lesson
  BY DraftedType
<1>4. [l EXCEPT !.id = 0, !.rev = 1, !.prev = 0, !.origin = l.id] \in Lesson
  BY <1>1 DEF Lesson
<1>5. o.sources \in SUBSET Fixes
  BY DEF Operation
<1>6. \A b \in BOOLEAN : (IF b THEN "VERIFIED" ELSE "REQUIRES_REVIEW") \in Statuses
  BY DEF Statuses
<1>7. "REJECTED" \in Statuses /\ "SUPERSEDED" \in Statuses
  BY DEF Statuses
<1>8. Revised(l, IF Bound(l.sources) THEN "VERIFIED" ELSE "REQUIRES_REVIEW") \in Lesson
  BY <1>2 DEF Statuses
<1> QED BY <1>2, <1>3, <1>4, <1>5, <1>7, <1>8 DEF Appended

\* A lesson in the store is the text of a whole file.
LEMMA WholeFile ==
    ASSUME Types, NEW s \in Scopes, NEW l
    PROVE  l \in Lessons(s) <=> [lesson |-> l, whole |-> TRUE] \in store[s]
<1>1. store[s] \subseteq File
  BY DEF Types
<1>2. ASSUME NEW f \in store[s], f.whole, f.lesson = l
      PROVE  f = [lesson |-> l, whole |-> TRUE]
  BY <1>1, <1>2 DEF File
<1>3. [lesson |-> l, whole |-> TRUE].lesson = l /\ [lesson |-> l, whole |-> TRUE].whole
  OBVIOUS
<1> QED BY <1>2, <1>3 DEF Lessons

\* The same, after a step.
LEMMA WholeFileNext ==
    ASSUME Types', NEW s \in Scopes, NEW l
    PROVE  l \in Lessons(s)' <=> [lesson |-> l, whole |-> TRUE] \in store'[s]
<1>1. store'[s] \subseteq File
  BY DEF Types
<1>2. ASSUME NEW f \in store'[s], f.whole, f.lesson = l
      PROVE  f = [lesson |-> l, whole |-> TRUE]
  BY <1>1, <1>2 DEF File
<1>3. [lesson |-> l, whole |-> TRUE].lesson = l /\ [lesson |-> l, whole |-> TRUE].whole
  OBVIOUS
<1> QED BY <1>2, <1>3 DEF Lessons

\* A lesson that continues the store goes on doing so while nothing is removed.
LEMMA SoundKept ==
    ASSUME NEW l, Sound(l), shown \subseteq shown', withdrawn => withdrawn',
           ~withdrawn' => \A s \in Scopes : Lessons(s) \subseteq Lessons(s)'
    PROVE  Sound(l)'
<1>1. Evidenced(l)'
  BY DEF Sound, Evidenced
<1>2. ASSUME ~withdrawn'
      PROVE  \A s \in Scopes : Lessons(s) \subseteq Lessons(s)' /\ Before(s, l) \subseteq Before(s, l)'
  BY <1>2 DEF Before
<1>3. Scope(l) \in Scopes /\ "PROJECT" \in Scopes
  BY DEF Scope, Scopes
<1> QED BY <1>1, <1>2, <1>3 DEF Sound, Scope, Follows

\* What an operation appends to a lesson of the project continues it.
LEMMA AppendedSound ==
    ASSUME IInv, NEW l \in Lessons("PROJECT"), NEW o \in Operation, Allowed(o, l)
    PROVE  /\ Sound(Appended(o, l))
           /\ Appended(o, l).rev # 0
           /\ Appended(o, l).rev > 1 => Appended(o, l).id # 0
           /\ Appended(o, l).rev = 1 => Appended(o, l).id = 0
<1> DEFINE n == Appended(o, l)
<1>1. "PROJECT" \in Scopes /\ Sound(l)
  BY DEF IInv, Scopes
<1>2. [lesson |-> l, whole |-> TRUE] \in store["PROJECT"]
  BY <1>1, WholeFile DEF IInv
<1>3. [lesson |-> l, whole |-> TRUE] \in File
  BY <1>1, <1>2 DEF IInv, Types
<1>4. l \in Lesson
  BY <1>3 DEF File
<1>5. Scope(l) = "PROJECT" /\ l.id # 0 /\ l.rev # 0
  BY <1>1, <1>2 DEF IInv, Placed
<1>6. l.origin = 0 /\ l.rev \in Nat /\ l.id \in Nat
  BY <1>4, <1>5, LimitAssumption DEF Scope, Lesson, Time
<1>7. \A b \in {"PROJECT"} : l \in Lessons(b)
  OBVIOUS
<1>8. ASSUME NEW k, k.id = l.id, k.rev = l.rev + 1, k.prev = l.hash, k.origin = 0,
             Follows(l, k), Evidenced(k)
      PROVE  Sound(k) /\ k.rev # 0 /\ (k.rev > 1 => k.id # 0) /\ (k.rev = 1 => k.id = 0)
  <2>1. Scope(k) = "PROJECT"
    BY <1>8 DEF Scope
  <2>2. l \in Before("PROJECT", k)
    BY <1>8 DEF Before
  <2>3. k.rev # 0 /\ k.rev # 1 /\ k.id # 0
    BY <1>5, <1>6, <1>8
  <2> QED BY <1>8, <2>1, <2>2, <2>3 DEF Sound
<1>9. CASE o.kind = "approve"
  <2> DEFINE st == IF Bound(l.sources) THEN "VERIFIED" ELSE "REQUIRES_REVIEW"
  <2>1. n = Revised(l, st)
    BY <1>9 DEF Appended
  <2>2. /\ n.id = l.id /\ n.rev = l.rev + 1 /\ n.prev = l.hash /\ n.origin = 0
        /\ n.status = st /\ n.sources = l.sources
    BY <2>1, <1>4, <1>6 DEF Revised, Lesson
  <2>3. l.status \in {"CANDIDATE", "REQUIRES_REVIEW"}
    BY <1>9 DEF Allowed
  <2>4. Evidenced(n)
    BY <2>2 DEF Bound, IInv, Evidenced
  <2> HIDE DEF n
  <2>5. Follows(l, n)
    BY <2>2, <2>3 DEF Follows
  <2> QED BY <1>8, <2>2, <2>4, <2>5 DEF n
<1>10. CASE o.kind = "reject"
  <2>1. n = Revised(l, "REJECTED")
    BY <1>10 DEF Appended
  <2>2. /\ n.id = l.id /\ n.rev = l.rev + 1 /\ n.prev = l.hash /\ n.origin = 0
        /\ n.status = "REJECTED" /\ Evidenced(n)
    BY <2>1, <1>4, <1>6 DEF Revised, Lesson, Evidenced
  <2>3. l.status \in {"CANDIDATE", "REQUIRES_REVIEW"}
    BY <1>10 DEF Allowed
  <2> HIDE DEF n
  <2>5. Follows(l, n)
    BY <2>2, <2>3 DEF Follows
  <2> QED BY <1>8, <2>2, <2>5 DEF n
<1>11. CASE o.kind = "supersede"
  <2>1. n = Revised(l, "SUPERSEDED")
    BY <1>11 DEF Appended
  <2>2. /\ n.id = l.id /\ n.rev = l.rev + 1 /\ n.prev = l.hash /\ n.origin = 0
        /\ n.status = "SUPERSEDED" /\ n.sources = l.sources /\ Evidenced(n)
    BY <2>1, <1>4, <1>6 DEF Revised, Lesson, Evidenced
  <2>3. l.status = "VERIFIED"
    BY <1>11 DEF Allowed
  <2> HIDE DEF n
  <2>5. Follows(l, n)
    BY <2>2, <2>3 DEF Follows
  <2> QED BY <1>8, <2>2, <2>5 DEF n
<1>12. CASE o.kind = "promote"
  <2>1. n = [l EXCEPT !.id = 0, !.rev = 1, !.prev = 0, !.origin = l.id]
    BY <1>12 DEF Appended
  <2>2. /\ n.rev = 1 /\ n.origin = l.id /\ n.status = l.status /\ n.sources = l.sources
        /\ n.prev = 0 /\ n.id = 0
    BY <2>1, <1>4 DEF Lesson
  <2>3. l.status = "VERIFIED"
    BY <1>12 DEF Allowed
  <2> HIDE DEF n
  <2>4. Scope(n) = "GLOBAL"
    BY <1>5, <2>2 DEF Scope
  <2>5. Sound(n)
    BY <1>1, <2>2, <2>3, <2>4 DEF Sound, Evidenced
  <2> QED BY <2>2, <2>5 DEF n
<1>13. CASE o.kind = "correct"
  <2>1. n = Drafted(l, o.sources)
    BY <1>13 DEF Appended
  <2>2. /\ n.id = l.id /\ n.rev = l.rev + 1 /\ n.prev = l.hash /\ n.origin = 0
        /\ n.status \in {"CANDIDATE", "REQUIRES_REVIEW"}
        /\ Evidenced(n)
    BY <2>1, <1>4, <1>6 DEF Drafted, NoLesson, Evidenced, Bound, IInv
  <2> HIDE DEF n
  <2>5. Follows(l, n)
    BY <2>2 DEF Follows
  <2> QED BY <1>8, <2>2, <2>5 DEF n
<1> QED BY <1>9, <1>10, <1>11, <1>12, <1>13 DEF Operation, Kinds

-----------------------------------------------------------------------------
(* Steps that leave the files alone.                                       *)

LEMMA StoreSame ==
    ASSUME IInv, Types', UNCHANGED <<store, withdrawn>>,
           shown \subseteq shown', valid' \subseteq shown',
           NEW p \in Procs, \A q \in Procs \ {p} : pc'[q] = pc[q] /\ next'[q] = next[q],
           pc'[p] \in Owning =>
               pc[p] \in Owning /\ pc'[p] # "write" /\ next'[p] = next[p],
           pc'[p] \in {"idle", "find"} => next'[p] = NoLesson,
           pc'[p] \in Working =>
               /\ Sound(next'[p])
               /\ next'[p].rev # 0
               /\ next'[p].rev > 1 => next'[p].id # 0
               /\ next'[p].rev = 1 /\ pc'[p] # "write" => next'[p].id = 0
    PROVE  IInv'
<1>1. \A s \in Scopes : Lessons(s)' = Lessons(s)
  BY DEF Lessons
<1>2. \A l : Sound(l) => Sound(l)'
  BY <1>1, SoundKept
<1>3. Placed'
  BY DEF IInv, Placed
<1>4. Owned'
  <2>1. \A q \in Procs : pc'[q] \in Owning =>
            pc[q] \in Owning /\ next'[q] = next[q] /\ (pc'[q] = "write" => pc[q] = "write")
    OBVIOUS
  <2> QED BY <2>1 DEF IInv, Owned
<1>5. Carried'
  BY <1>2 DEF IInv, Carried
<1> QED BY <1>1, <1>2, <1>3, <1>4, <1>5 DEF IInv

\* An invocation that is over has nothing in hand.
LEMMA OverIsOver ==
    ASSUME IInv, Types', UNCHANGED <<store, valid, shown, withdrawn>>, NEW p \in Procs, Over(p)
    PROVE  IInv'
<1>1. /\ \A q \in Procs \ {p} : pc'[q] = pc[q] /\ next'[q] = next[q]
      /\ pc'[p] = "idle" /\ next'[p] = NoLesson
  BY DEF Over, Goto, IInv, Types
<1>2. "idle" \notin Owning /\ "idle" \notin Working
  BY DEF Owning, Working
<1>3. valid \subseteq shown
  BY DEF IInv
<1> QED BY <1>1, <1>2, <1>3, StoreSame

\* Reading, and what is decided on what was read.
LEMMA ReadingStep ==
    ASSUME IInv, Types', NEW p \in Procs, Draft(p) \/ Call(p) \/ Find(p) \/ ListAgain(p) \/ Check(p)
    PROVE  IInv'
<1>a. UNCHANGED <<store, valid, shown, withdrawn>> /\ valid \subseteq shown
  BY DEF Draft, Call, Find, ListAgain, Check, IInv
<1>b. pc \in [Procs -> PCs] /\ next \in [Procs -> Lesson]
  BY DEF IInv, Types
<1>c. /\ \A l \in {"idle", "find", "list", "check", "create"} : l \notin Owning
      /\ "find" \notin Working /\ "check" \in Working /\ "list" \in Working
  BY DEF Owning, Working
<1>d. CASE Over(p)
  BY <1>a, <1>d, OverIsOver
<1>1. CASE Draft(p)
  <2>1. PICK sources \in SUBSET Fixes :
            next' = [next EXCEPT ![p] = Drafted(NoLesson, sources)]
    BY <1>1 DEF Draft
  <2>2. pc' = [pc EXCEPT ![p] = "list"]
    BY <1>1 DEF Draft, Goto
  <2> DEFINE n == Drafted(NoLesson, sources)
  <2>3. /\ n.rev = 1 /\ n.origin = 0 /\ n.status \in {"CANDIDATE", "REQUIRES_REVIEW"}
        /\ n.id = 0 /\ n.prev = 0 /\ Evidenced(n)
    BY <1>a DEF Drafted, NoLesson, Evidenced, Bound
  <2>4. next'[p] = n /\ pc'[p] = "list"
    BY <1>b, <2>1, <2>2
  <2> HIDE DEF n
  <2>5. Scope(n) = "PROJECT"
    BY <2>3 DEF Scope
  <2>6. Sound(n) /\ n.rev # 0 /\ (n.rev > 1 => n.id # 0) /\ (n.rev = 1 => n.id = 0)
    BY <2>3, <2>5 DEF Sound
  <2>7. \A q \in Procs \ {p} : pc'[q] = pc[q] /\ next'[q] = next[q]
    BY <1>b, <2>1, <2>2
  <2> QED BY <1>a, <1>c, <2>4, <2>6, <2>7, StoreSame
<1>2. CASE Call(p)
  <2>1. pc' = [pc EXCEPT ![p] = "find"] /\ next' = next /\ pc[p] = "idle"
    BY <1>2 DEF Call, Goto
  <2>2. next[p] = NoLesson
    BY <2>1 DEF IInv, Carried
  <2>3. pc'[p] = "find" /\ \A q \in Procs \ {p} : pc'[q] = pc[q] /\ next'[q] = next[q]
    BY <1>b, <2>1
  <2> QED BY <1>a, <1>c, <2>1, <2>2, <2>3, StoreSame
<1>3. CASE Find(p) /\ ~Over(p)
  <2>1. PICK l \in Found(p), o \in Operation :
            Allowed(o, l) /\ next' = [next EXCEPT ![p] = Appended(o, l)]
    BY <1>3 DEF Find
  <2>2. pc[p] = "find" /\ pc' = [pc EXCEPT ![p] = "list"]
    BY <1>3 DEF Find, Goto
  <2>3. next[p] = NoLesson
    BY <2>2 DEF IInv, Carried
  <2>4. l \in Lessons("PROJECT")
    BY <2>1, <2>3 DEF Found, FoundIn, Scope, NoLesson
  <2> DEFINE n == Appended(o, l)
  <2>5. Sound(n) /\ n.rev # 0 /\ (n.rev > 1 => n.id # 0) /\ (n.rev = 1 => n.id = 0)
    BY <2>1, <2>4, AppendedSound
  <2> HIDE DEF n
  <2>6. next'[p] = n /\ pc'[p] = "list"
    BY <1>b, <2>1, <2>2 DEF n
  <2>7. \A q \in Procs \ {p} : pc'[q] = pc[q] /\ next'[q] = next[q]
    BY <1>b, <2>1, <2>2
  <2> QED BY <1>a, <1>c, <2>5, <2>6, <2>7, StoreSame
<1>4. CASE (ListAgain(p) \/ Check(p)) /\ ~Over(p)
  <2>1. /\ pc[p] \in {"list", "check"} /\ next' = next
        /\ pc' = [pc EXCEPT ![p] = "check"] \/ pc' = [pc EXCEPT ![p] = "create"]
    BY <1>4 DEF ListAgain, Check, Goto
  <2>2. pc[p] \in Working /\ "create" \in Working
    BY <2>1 DEF Working
  <2>3. /\ Sound(next[p]) /\ next[p].rev # 0 /\ (next[p].rev > 1 => next[p].id # 0)
        /\ next[p].rev = 1 => next[p].id = 0
    BY <2>1, <2>2 DEF IInv, Carried
  <2>4. /\ pc'[p] \in {"check", "create"}
        /\ \A q \in Procs \ {p} : pc'[q] = pc[q] /\ next'[q] = next[q]
    BY <1>b, <2>1
  <2> QED BY <1>a, <1>c, <2>1, <2>3, <2>4, StoreSame
<1> QED BY <1>d, <1>1, <1>2, <1>3, <1>4

\* An owner that goes on without touching its file.
LEMMA OwnerStep ==
    ASSUME IInv, Types', NEW p \in Procs, pc[p] \in Owning,
           pc' = [pc EXCEPT ![p] = "remove"], UNCHANGED <<store, valid, shown, withdrawn, next>>
    PROVE  IInv'
<1>1. /\ pc'[p] = "remove" /\ next'[p] = next[p]
      /\ \A q \in Procs \ {p} : pc'[q] = pc[q] /\ next'[q] = next[q]
  BY DEF IInv, Types
<1>2. "remove" \notin Working /\ "remove" \in Owning /\ valid \subseteq shown
  BY DEF Working, Owning, IInv
<1> QED BY <1>1, <1>2, StoreSame

-----------------------------------------------------------------------------
(* Steps on the files.                                                     *)

\* The name and the hash that a new file gives its lesson leave it sound.
LEMMA StampedSound ==
    ASSUME NEW l \in Lesson, NEW t \in Nat, t # 0, Sound(l), l.rev > 1 => l.id # 0
    PROVE  /\ Sound(Stamped(l, t)) /\ Scope(Stamped(l, t)) = Scope(l)
           /\ Stamped(l, t).id # 0 /\ Stamped(l, t).rev = l.rev
<1> DEFINE m == Stamped(l, t)
<1>1. /\ m.rev = l.rev /\ m.prev = l.prev /\ m.origin = l.origin
      /\ m.status = l.status /\ m.sources = l.sources
      /\ m.id = IF l.id = 0 THEN t ELSE l.id
  BY DEF Stamped, Lesson
<1> HIDE DEF m
<1>2. Scope(m) = Scope(l) /\ m.id # 0
  BY <1>1 DEF Scope
<1>3. l.rev > 1 => \A s \in {Scope(l)} : Before(s, m) = Before(s, l)
  BY <1>1 DEF Before
<1>4. \A k : Follows(k, m) <=> Follows(k, l)
  BY <1>1 DEF Follows
<1>5. Sound(m)
  BY <1>1, <1>2, <1>3, <1>4 DEF Sound, Evidenced
<1> QED BY <1>1, <1>2, <1>5 DEF m

\* A new file is its creator's alone and holds no revision yet.
LEMMA CreateStep ==
    ASSUME IInv, Types', NEW p \in Procs, Create(p)
    PROVE  IInv'
<1> DEFINE l == Stamped(next[p], clock + 1)
           new == [lesson |-> l, whole |-> FALSE]
<1>a. pc \in [Procs -> PCs] /\ next \in [Procs -> Lesson] /\ store \in [Scopes -> SUBSET File]
  BY DEF IInv, Types
<1>b. UNCHANGED <<valid, shown, withdrawn>> /\ pc[p] = "create" /\ valid \subseteq shown
  BY DEF Create, IInv
<1>1. CASE Over(p) /\ UNCHANGED store
  BY <1>1, <1>b, OverIsOver
<1>2. CASE /\ Named(Scope(l), Name(l)) = {}
           /\ store' = [store EXCEPT ![Scope(l)] = @ \union {new}]
           /\ next' = [next EXCEPT ![p] = l]
           /\ pc' = [pc EXCEPT ![p] = "write"]
  <2>1. Sound(next[p]) /\ next[p].rev # 0 /\ (next[p].rev > 1 => next[p].id # 0)
    BY <1>b DEF IInv, Carried, Working
  <2>2. next[p] \in Lesson /\ clock + 1 \in Nat /\ clock + 1 # 0
    BY <1>a, LimitAssumption DEF IInv, Types, Time
  <2>3. Sound(l) /\ Scope(l) \in Scopes /\ l.id # 0 /\ l.rev = next[p].rev
    BY <2>1, <2>2, StampedSound DEF Scope, Scopes
  <2>4. new.lesson = l /\ new.whole = FALSE
    OBVIOUS
  <2> HIDE DEF l, new
  <2>5. next'[p] = l /\ pc'[p] = "write" /\
        \A q \in Procs \ {p} : next'[q] = next[q] /\ pc'[q] = pc[q]
    BY <1>a, <1>2
  <2>6. /\ store'[Scope(l)] = store[Scope(l)] \union {new}
        /\ \A s \in Scopes \ {Scope(l)} : store'[s] = store[s]
    BY <1>a, <1>2, <2>3
  <2>7. \A s \in Scopes : Lessons(s)' = Lessons(s)
    BY <2>4, <2>6 DEF Lessons
  <2>8. \A m : Sound(m) => Sound(m)'
    BY <1>b, <2>7, SoundKept
  <2>9. \A f \in store[Scope(l)] : Name(f.lesson) # Name(l)
    BY <1>2 DEF Named
  <2>10. Placed'
    <3>1. \A s \in Scopes : \A f \in store'[s] :
              Scope(f.lesson) = s /\ f.lesson.id # 0 /\ f.lesson.rev # 0
      BY <2>1, <2>3, <2>4, <2>6 DEF IInv, Placed
    <3>2. \A s \in Scopes : \A f, g \in store'[s] : Name(f.lesson) = Name(g.lesson) => f = g
      BY <2>4, <2>6, <2>9 DEF IInv, Placed
    <3> QED BY <3>1, <3>2 DEF Placed
  <2>11. Owned'
    <3>1. \A q \in Procs \ {p} : pc[q] \in Owning =>
              \E w \in BOOLEAN :
                  /\ [lesson |-> next[q], whole |-> w] \in store[Scope(next[q])]
                  /\ pc[q] = "write" => w = FALSE
      BY DEF IInv, Owned
    <3>2. \A q \in Procs : Scope(next[q]) \in Scopes
      BY DEF Scope, Scopes
    <3>3. \A q \in Procs \ {p} : pc'[q] \in Owning =>
              \E w \in BOOLEAN :
                  /\ [lesson |-> next'[q], whole |-> w] \in store'[Scope(next'[q])]
                  /\ pc'[q] = "write" => w = FALSE
      BY <2>5, <2>6, <3>1, <3>2
    <3>4. [lesson |-> next'[p], whole |-> FALSE] \in store'[Scope(next'[p])]
      BY <2>5, <2>6 DEF new
    <3>5. \A q \in Procs \ {p} : pc[q] \in Owning /\ Scope(next[q]) = Scope(l)
              => Name(next[q]) # Name(l)
      <4> SUFFICES ASSUME NEW q \in Procs \ {p}, pc[q] \in Owning, Scope(next[q]) = Scope(l)
                   PROVE  Name(next[q]) # Name(l)
        OBVIOUS
      <4>1. PICK w \in BOOLEAN : [lesson |-> next[q], whole |-> w] \in store[Scope(l)]
        BY <3>1
      <4>2. [lesson |-> next[q], whole |-> w].lesson = next[q]
        OBVIOUS
      <4> QED BY <2>9, <4>1, <4>2
    <3>6. \A q, r \in Procs :
              /\ q # r /\ pc'[q] \in Owning /\ pc'[r] \in Owning
              /\ Scope(next'[q]) = Scope(next'[r])
              => Name(next'[q]) # Name(next'[r])
      BY <2>5, <3>5 DEF IInv, Owned
    <3> QED BY <3>3, <3>4, <3>6 DEF Owned
  <2>12. Carried'
    BY <2>1, <2>3, <2>5, <2>8 DEF IInv, Carried
  <2> QED BY <1>b, <2>7, <2>8, <2>10, <2>11, <2>12 DEF IInv
<1> QED BY <1>1, <1>2 DEF Create, Goto

\* The file that an owner has is the only one of its name.
LEMMA OwnFile ==
    ASSUME IInv, NEW p \in Procs, pc[p] \in Owning
    PROVE  \E w \in BOOLEAN :
               /\ Named(Scope(next[p]), Name(next[p])) = {[lesson |-> next[p], whole |-> w]}
               /\ pc[p] = "write" => w = FALSE
<1>1. PICK w \in BOOLEAN :
          /\ [lesson |-> next[p], whole |-> w] \in store[Scope(next[p])]
          /\ pc[p] = "write" => w = FALSE
  BY DEF IInv, Owned
<1>2. [lesson |-> next[p], whole |-> w].lesson = next[p]
  OBVIOUS
<1>3. Scope(next[p]) \in Scopes
  BY DEF Scope, Scopes
<1>4. \A f \in store[Scope(next[p])] :
          Name(f.lesson) = Name(next[p]) => f = [lesson |-> next[p], whole |-> w]
  BY <1>1, <1>2, <1>3 DEF IInv, Placed
<1> QED BY <1>1, <1>2, <1>4 DEF Named

\* Its removal takes nobody else's file, and is a withdrawal if it was whole.
LEMMA RemoveStep ==
    ASSUME IInv, Types', NEW p \in Procs, Remove(p)
    PROVE  IInv'
<1> DEFINE s0 == Scope(next[p])
           gone == Named(s0, Name(next[p]))
<1>a. pc \in [Procs -> PCs] /\ next \in [Procs -> Lesson] /\ store \in [Scopes -> SUBSET File]
  BY DEF IInv, Types
<1>b. UNCHANGED <<valid, shown>> /\ pc[p] = "remove" /\ valid \subseteq shown /\ Over(p)
  BY DEF Remove, IInv
<1>1. CASE UNCHANGED <<store, withdrawn>>
  BY <1>1, <1>b, OverIsOver
<1>2. CASE /\ store' = [store EXCEPT ![s0] = @ \ gone]
           /\ withdrawn' = (withdrawn \/ \E f \in gone : f.whole)
  <2>1. s0 \in Scopes
    BY DEF Scope, Scopes
  <2>2. /\ store'[s0] = store[s0] \ gone
        /\ \A s \in Scopes \ {s0} : store'[s] = store[s]
    BY <1>a, <1>2, <2>1
  <2>3. next'[p] = NoLesson /\ pc'[p] = "idle" /\
        \A q \in Procs \ {p} : next'[q] = next[q] /\ pc'[q] = pc[q]
    BY <1>a, <1>b DEF Over, Goto
  <2>4. withdrawn => withdrawn'
    BY <1>2
  <2>5. ~withdrawn' => \A f \in gone : ~f.whole
    BY <1>2
  <2> HIDE DEF gone
  <2>6. ~withdrawn' => \A s \in Scopes : Lessons(s) \subseteq Lessons(s)'
    BY <2>2, <2>5 DEF Lessons
  <2>7. \A s \in Scopes : store'[s] \subseteq store[s]
    BY <2>2
  <2>8. \A s \in Scopes : Lessons(s)' \subseteq Lessons(s)
    BY <2>7 DEF Lessons
  <2>9. \A m : Sound(m) => Sound(m)'
    BY <1>b, <2>4, <2>6, SoundKept
  <2>10. Placed'
    BY <2>7 DEF IInv, Placed
  <2>11. Owned'
    <3>1. \A q \in Procs : pc'[q] \in Owning =>
              q # p /\ pc[q] \in Owning /\ pc'[q] = pc[q] /\ next'[q] = next[q]
      BY <2>3 DEF Owning
    <3>2. ASSUME NEW q \in Procs, pc'[q] \in Owning
          PROVE  \E w \in BOOLEAN :
                     /\ [lesson |-> next'[q], whole |-> w] \in store'[Scope(next'[q])]
                     /\ pc'[q] = "write" => w = FALSE
      <4>1. PICK w \in BOOLEAN :
                /\ [lesson |-> next[q], whole |-> w] \in store[Scope(next[q])]
                /\ pc[q] = "write" => w = FALSE
        BY <3>1, <3>2 DEF IInv, Owned
      <4>2. [lesson |-> next[q], whole |-> w].lesson = next[q]
        OBVIOUS
      <4>3. Scope(next[q]) \in Scopes
        BY DEF Scope, Scopes
      <4>4. Scope(next[q]) = s0 => Name(next[q]) # Name(next[p])
        BY <1>b, <3>1, <3>2 DEF IInv, Owned, Owning
      <4>5. Scope(next[q]) = s0 => [lesson |-> next[q], whole |-> w] \notin gone
        BY <4>2, <4>4 DEF gone, Named
      <4>6. [lesson |-> next[q], whole |-> w] \in store'[Scope(next[q])]
        BY <2>2, <4>1, <4>3, <4>5
      <4> QED BY <3>1, <3>2, <4>1, <4>6
    <3>3. \A q, r \in Procs :
              /\ q # r /\ pc'[q] \in Owning /\ pc'[r] \in Owning
              /\ Scope(next'[q]) = Scope(next'[r])
              => Name(next'[q]) # Name(next'[r])
      BY <3>1 DEF IInv, Owned
    <3> QED BY <3>2, <3>3 DEF Owned
  <2>12. Carried'
    BY <2>3, <2>9 DEF IInv, Carried, Working
  <2> QED BY <1>b, <2>8, <2>9, <2>10, <2>11, <2>12 DEF IInv
<1> QED BY <1>1, <1>2 DEF Remove

\* Writing makes the file whole: nothing else changes in its directory.
LEMMA WriteStep ==
    ASSUME IInv, Types', NEW p \in Procs, Write(p)
    PROVE  IInv'
<1> DEFINE l == next[p]
           s0 == Scope(l)
           empty == [lesson |-> l, whole |-> FALSE]
           full == [lesson |-> l, whole |-> TRUE]
<1>a. pc \in [Procs -> PCs] /\ next \in [Procs -> Lesson] /\ store \in [Scopes -> SUBSET File]
  BY DEF IInv, Types
<1>b. /\ UNCHANGED <<valid, shown, withdrawn, next>> /\ pc[p] = "write" /\ valid \subseteq shown
      /\ pc[p] \in Owning
  BY DEF Write, IInv, local, Owning
<1>1. CASE pc' = [pc EXCEPT ![p] = "remove"] /\ UNCHANGED store
  BY <1>1, <1>b, OwnerStep
<1>2. CASE /\ store' = [store EXCEPT ![s0] = (@ \ Named(s0, Name(l))) \union {full}]
           /\ pc' = [pc EXCEPT ![p] = "close"]
  <2>1. s0 \in Scopes /\ s0 = Scope(l)
    BY DEF Scope, Scopes
  <2>2. Named(s0, Name(l)) = {empty}
    BY <1>b, OwnFile
  <2>3. empty \in store[s0] /\ empty.lesson = l /\ full.lesson = l /\ ~empty.whole /\ full.whole
    BY <2>2 DEF Named
  <2>4. l.id # 0 /\ l.rev # 0
    BY <2>1, <2>3 DEF IInv, Placed
  <2>5. Sound(l)
    BY <1>b DEF IInv, Carried, Working
  <2>6. \A f \in store[s0] : Name(f.lesson) = Name(l) => f = empty
    BY <2>2 DEF Named
  <2>7. pc'[p] = "close" /\ next' = next /\ \A q \in Procs \ {p} : pc'[q] = pc[q]
    BY <1>a, <1>b, <1>2
  <2>8. \A q \in Procs \ {p} : pc[q] \in Owning /\ Scope(next[q]) = s0 => Name(next[q]) # Name(l)
    BY <1>b DEF IInv, Owned
  <2> HIDE DEF l, s0, empty, full
  <2>9. /\ store'[s0] = (store[s0] \ {empty}) \union {full}
        /\ \A s \in Scopes \ {s0} : store'[s] = store[s]
    BY <1>a, <1>2, <2>1, <2>2
  <2>10. \A s \in Scopes : Lessons(s) \subseteq Lessons(s)'
    BY <2>3, <2>9 DEF Lessons
  <2>11. \A s \in Scopes : \A m \in Lessons(s)' : m \in Lessons(s) \/ m = l
    BY <2>3, <2>9 DEF Lessons
  <2>12. \A m : Sound(m) => Sound(m)'
    BY <1>b, <2>10, SoundKept
  <2>13. Placed'
    <3>1. \A s \in Scopes : \A f \in store'[s] :
              Scope(f.lesson) = s /\ f.lesson.id # 0 /\ f.lesson.rev # 0
      BY <2>1, <2>3, <2>4, <2>9 DEF IInv, Placed
    <3>2. \A s \in Scopes : \A f, g \in store'[s] : Name(f.lesson) = Name(g.lesson) => f = g
      BY <2>3, <2>6, <2>9 DEF IInv, Placed
    <3> QED BY <3>1, <3>2 DEF Placed
  <2>14. Owned'
    <3>1. \A q \in Procs : pc'[q] \in Owning => pc[q] \in Owning
      BY <1>b, <2>7
    <3>2. ASSUME NEW q \in Procs \ {p}, pc'[q] \in Owning
          PROVE  \E w \in BOOLEAN :
                     /\ [lesson |-> next[q], whole |-> w] \in store'[Scope(next[q])]
                     /\ pc'[q] = "write" => w = FALSE
      <4>1. PICK w \in BOOLEAN :
                /\ [lesson |-> next[q], whole |-> w] \in store[Scope(next[q])]
                /\ pc[q] = "write" => w = FALSE
        BY <3>1, <3>2 DEF IInv, Owned
      <4>2. [lesson |-> next[q], whole |-> w].lesson = next[q]
        OBVIOUS
      <4>3. Scope(next[q]) \in Scopes
        BY DEF Scope, Scopes
      <4>4. Scope(next[q]) = s0 => [lesson |-> next[q], whole |-> w] # empty
        BY <2>3, <2>8, <3>1, <3>2, <4>2
      <4>5. [lesson |-> next[q], whole |-> w] \in store'[Scope(next[q])]
        BY <2>9, <4>1, <4>3, <4>4
      <4> QED BY <2>7, <4>1, <4>5
    <3>3. [lesson |-> next[p], whole |-> TRUE] \in store'[Scope(next[p])]
      BY <2>9 DEF full, l, s0
    <3>4. \A q, r \in Procs :
              /\ q # r /\ pc'[q] \in Owning /\ pc'[r] \in Owning
              /\ Scope(next[q]) = Scope(next[r])
              => Name(next[q]) # Name(next[r])
      BY <3>1 DEF IInv, Owned
    <3>5. \A q \in Procs : pc'[q] \in Owning =>
              \E w \in BOOLEAN :
                  /\ [lesson |-> next[q], whole |-> w] \in store'[Scope(next[q])]
                  /\ pc'[q] = "write" => w = FALSE
      BY <2>7, <3>2, <3>3
    <3> QED BY <2>7, <3>4, <3>5 DEF Owned
  <2>15. Carried'
    BY <2>7, <2>12 DEF IInv, Carried, Working
  <2> QED BY <1>b, <2>5, <2>11, <2>12, <2>13, <2>14, <2>15 DEF IInv
<1> QED BY <1>1, <1>2 DEF Write, Goto

-----------------------------------------------------------------------------
(* The invariant.                                                          *)

\* Every step keeps the types.
LEMMA TypesStep ==
    ASSUME IInv, Next
    PROVE  Types'
<1> USE DEF Types
<1>a. Types
  BY DEF IInv
<1>b. \A x \in PCs, p \in Procs : [pc EXCEPT ![p] = x] \in [Procs -> PCs]
  BY <1>a
<1>c. \A l \in Lesson, p \in Procs : [next EXCEPT ![p] = l] \in [Procs -> Lesson]
  BY <1>a
<1>d. \A n \in SUBSET (Time \X Nat), p \in Procs :
          [listed EXCEPT ![p] = n] \in [Procs -> SUBSET (Time \X Nat)]
  BY <1>a
<1>e. \A x \in {"idle", "find", "list", "check", "create", "write", "close", "remove"} : x \in PCs
  BY DEF PCs
<1>f. ASSUME NEW p \in Procs, Over(p)
      PROVE  /\ pc' \in [Procs -> PCs] /\ next' \in [Procs -> Lesson]
             /\ listed' \in [Procs -> SUBSET (Time \X Nat)]
  BY <1>b, <1>c, <1>d, <1>e, <1>f, NoLessonType DEF Over, Goto
<1>g. \A s \in Scopes : \A l \in Lessons(s) : l \in Lesson
  BY <1>a DEF Lessons, File
<1>h. \A s \in Scopes : {Name(f.lesson) : f \in store[s]} \in SUBSET (Time \X Nat)
  BY <1>a DEF Name, File, Lesson
<1>i. \A l : Scope(l) \in Scopes
  BY DEF Scope, Scopes
<1>1. CASE FixesChange
  BY <1>a, <1>1 DEF FixesChange, local
<1>2. ASSUME NEW p \in Procs, Draft(p)
      PROVE  Types'
  <2>1. \A sources \in SUBSET Fixes : Drafted(NoLesson, sources) \in Lesson
    BY NoLessonType, DraftedType
  <2> QED BY <1>a, <1>b, <1>c, <1>e, <1>2, <2>1 DEF Draft, Goto
<1>3. ASSUME NEW p \in Procs, Call(p)
      PROVE  Types'
  BY <1>a, <1>b, <1>d, <1>e, <1>h, <1>3 DEF Call, List, Goto, Scopes
<1>4. ASSUME NEW p \in Procs, Find(p)
      PROVE  Types'
  <2>1. \A l \in Found(p), o \in Operation : Appended(o, l) \in Lesson
    BY <1>g, <1>i, AppendedType DEF Found, FoundIn
  <2>2. {} \in SUBSET (Time \X Nat)
    OBVIOUS
  <2>3. UNCHANGED <<store, valid, shown, clock, withdrawn>>
    BY <1>4 DEF Find
  <2>4. CASE Over(p)
    BY <1>a, <1>f, <2>3, <2>4
  <2>5. ASSUME NEW l \in Found(p), NEW o \in Operation,
               next' = [next EXCEPT ![p] = Appended(o, l)],
               pc' = [pc EXCEPT ![p] = "list"], listed' = [listed EXCEPT ![p] = {}]
        PROVE  Types'
    BY <1>a, <1>b, <1>c, <1>d, <1>e, <2>1, <2>2, <2>3, <2>5
  <2> QED BY <1>4, <2>4, <2>5 DEF Find, Goto
<1>5. ASSUME NEW p \in Procs, ListAgain(p)
      PROVE  Types'
  <2>1. UNCHANGED <<store, valid, shown, clock, withdrawn>>
    BY <1>5 DEF ListAgain
  <2>2. CASE Over(p)
    BY <1>a, <1>f, <2>1, <2>2
  <2>3. CASE List(p, Scope(next[p])) /\ Goto(p, "check") /\ next' = next
    <3>1. {Name(f.lesson) : f \in store[Scope(next[p])]} \in SUBSET (Time \X Nat)
      BY <1>h, <1>i
    <3>2. listed' \in [Procs -> SUBSET (Time \X Nat)]
      BY <1>d, <2>3, <3>1 DEF List
    <3>3. pc' \in [Procs -> PCs]
      BY <1>b, <1>e, <2>3 DEF Goto
    <3> QED BY <1>a, <2>1, <2>3, <3>2, <3>3
  <2> QED BY <1>5, <2>2, <2>3 DEF ListAgain
<1>6. ASSUME NEW p \in Procs, Check(p)
      PROVE  Types'
  BY <1>a, <1>b, <1>d, <1>e, <1>f, <1>6 DEF Check, Goto
<1>7. ASSUME NEW p \in Procs, Create(p)
      PROVE  Types'
  <2> DEFINE l == Stamped(next[p], clock + 1)
  <2>1. CASE Over(p) /\ UNCHANGED <<store, clock, valid, shown, withdrawn>>
    BY <1>a, <1>f, <2>1
  <2>2. CASE /\ clock < MaxTime
             /\ store' = [store EXCEPT ![Scope(l)] = @ \union {[lesson |-> l, whole |-> FALSE]}]
             /\ next' = [next EXCEPT ![p] = l]
             /\ clock' = clock + 1
             /\ pc' = [pc EXCEPT ![p] = "write"]
             /\ UNCHANGED <<listed, valid, shown, withdrawn>>
    <3>1. clock + 1 \in Time
      BY <1>a, <2>2, LimitAssumption DEF Time
    <3>2. l \in Lesson
      BY <1>a, <3>1 DEF Stamped, Lesson
    <3> HIDE DEF l
    <3>3. [lesson |-> l, whole |-> FALSE] \in File /\ Scope(l) \in Scopes
      BY <1>i, <3>2 DEF File
    <3>4. store' \in [Scopes -> SUBSET File]
      BY <1>a, <2>2, <3>3
    <3> QED BY <1>a, <1>b, <1>c, <1>e, <2>2, <3>1, <3>2, <3>4
  <2> QED BY <1>7, <2>1, <2>2 DEF Create, Goto
<1>8. ASSUME NEW p \in Procs, Write(p)
      PROVE  Types'
  <2>1. [lesson |-> next[p], whole |-> TRUE] \in File /\ Scope(next[p]) \in Scopes
    BY <1>a, <1>i DEF File
  <2>2. store' \in [Scopes -> SUBSET File]
    BY <1>a, <1>8, <2>1 DEF Write
  <2> QED BY <1>a, <1>b, <1>e, <1>8, <2>2 DEF Write, Goto, local
<1>9. ASSUME NEW p \in Procs, Close(p)
      PROVE  Types'
  BY <1>a, <1>b, <1>e, <1>f, <1>9 DEF Close, Goto, local
<1>10. ASSUME NEW p \in Procs, Remove(p)
       PROVE  Types'
  <2>1. store' \in [Scopes -> SUBSET File] /\ withdrawn' \in BOOLEAN
    BY <1>a, <1>i, <1>10 DEF Remove
  <2> QED BY <1>a, <1>f, <1>10, <2>1 DEF Remove
<1>11. ASSUME NEW p \in Procs, Crash(p)
       PROVE  Types'
  BY <1>a, <1>f, <1>11 DEF Crash
<1> QED
  BY <1>1, <1>2, <1>3, <1>4, <1>5, <1>6, <1>7, <1>8, <1>9, <1>10, <1>11 DEF Next, Invoked

\* Every step keeps the invariant.
LEMMA InvariantStep ==
    ASSUME IInv, [Next]_vars
    PROVE  IInv'
<1>1. CASE UNCHANGED vars
  BY <1>1 DEF vars, IInv, Types, Placed, Owned, Carried, Sound, Evidenced, Before, Lessons
<1>2. CASE Next
  <2>1. Types'
    BY <1>2, TypesStep
  <2>2. CASE FixesChange
    <3>1. /\ UNCHANGED <<store, withdrawn, pc, next>>
          /\ shown \subseteq shown' /\ valid' \subseteq shown'
      BY <2>2 DEF FixesChange, local
    <3>2. \A s \in Scopes : Lessons(s)' = Lessons(s)
      BY <3>1 DEF Lessons
    <3>3. \A m : Sound(m) => Sound(m)'
      BY <3>1, <3>2, SoundKept
    <3>4. Placed' /\ Owned'
      BY <3>1 DEF IInv, Placed, Owned
    <3>5. Carried'
      BY <3>1, <3>3 DEF IInv, Carried
    <3> QED BY <2>1, <3>1, <3>2, <3>3, <3>4, <3>5 DEF IInv
  <2>3. ASSUME NEW p \in Procs, Close(p)
        PROVE  IInv'
    <3>1. UNCHANGED <<store, valid, shown, withdrawn>> /\ pc[p] \in Owning
      BY <2>3 DEF Close, Owning
    <3>2. CASE Over(p)
      BY <2>1, <3>1, <3>2, OverIsOver
    <3>3. CASE pc' = [pc EXCEPT ![p] = "remove"] /\ next' = next
      BY <2>1, <3>1, <3>3, OwnerStep
    <3> QED BY <2>3, <3>2, <3>3 DEF Close, Goto, local
  <2>4. ASSUME NEW p \in Procs, Crash(p)
        PROVE  IInv'
    BY <2>1, <2>4, OverIsOver DEF Crash
  <2>5. ASSUME NEW p \in Procs, Invoked(p)
        PROVE  IInv'
    BY <2>1, <2>3, <2>4, <2>5, ReadingStep, CreateStep, WriteStep, RemoveStep DEF Invoked
  <2> QED BY <1>2, <2>2, <2>5 DEF Next
<1> QED BY <1>1, <1>2

\* What the types, the placement of files and what invocations carry amount to
\* holds in every reachable state.
THEOREM VaultInvariant == Spec => []IInv
<1>1. Init => IInv
  <2> SUFFICES ASSUME Init PROVE IInv
    OBVIOUS
  <2>1. Types
    <3>0. \A S : {} \in SUBSET S
      OBVIOUS
    <3>1. store \in [Scopes -> SUBSET File] /\ listed \in [Procs -> SUBSET (Time \X Nat)]
      BY <3>0 DEF Init, StoreInit
    <3>2. next \in [Procs -> Lesson] /\ pc \in [Procs -> PCs]
      BY NoLessonType DEF Init, StoreInit, PCs
    <3>3. clock \in Time
      BY LimitAssumption DEF Init, StoreInit, Time
    <3>4. valid \subseteq Fixes /\ shown \subseteq Fixes
      BY DEF Init, StoreInit
    <3>5. withdrawn \in BOOLEAN
      BY Zenon DEF Init, StoreInit
    <3> QED BY <3>1, <3>2, <3>3, <3>4, <3>5 DEF Types
  <2>2. Placed /\ \A s \in Scopes : Lessons(s) = {}
    BY DEF Init, StoreInit, Placed, Lessons
  <2>3. Owned /\ Carried
    BY DEF Init, StoreInit, Owned, Carried, Owning, Working
  <2> QED BY <2>1, <2>2, <2>3 DEF Init, StoreInit, IInv
<1>2. IInv /\ [Next]_vars => IInv'
  BY InvariantStep
<1> QED BY <1>1, <1>2, PTL DEF Spec

\* The types, and that a file about to be written is there and empty.
THEOREM VaultTypeCorrect == Spec => []TypeOK
<1>1. IInv => TypeOK
  <2> SUFFICES ASSUME IInv PROVE TypeOK
    OBVIOUS
  <2>1. \A p \in Procs : pc[p] = "write" =>
            [lesson |-> next[p], whole |-> FALSE] \in store[Scope(next[p])]
    BY DEF IInv, Owned, Owning
  <2> QED BY <2>1 DEF IInv, Types, TypeOK
<1> QED BY <1>1, VaultInvariant, PTL

\* A reader never meets two files of one revision, nor, as long as no whole file
\* was withdrawn, a revision whose predecessor is missing or is another one.
THEOREM HistoryIsLinked == Spec => []HistoryLinked
<1>1. IInv => HistoryLinked
  <2> SUFFICES ASSUME IInv, NEW s \in Scopes
               PROVE  /\ \A f, g \in store[s] : Name(f.lesson) = Name(g.lesson) => f = g
                      /\ ~withdrawn => \A l \in Lessons(s) :
                            l.rev > 1 => \E k \in Before(s, l) : k.hash = l.prev
    BY DEF HistoryLinked
  <2>1. \A l \in Lessons(s) : Sound(l) /\ Scope(l) = s
    BY DEF IInv, Lessons, Placed
  <2> QED BY <2>1 DEF IInv, Placed, Sound
<1> QED BY <1>1, VaultInvariant, PTL

\* No revision skips a step of the lifecycle, however late it is written.
THEOREM LifecycleIsFollowed == Spec => []LifecycleFollowed
<1>1. IInv => LifecycleFollowed
  <2> SUFFICES ASSUME IInv PROVE LifecycleFollowed
    OBVIOUS
  <2>1. \A s \in Scopes : \A l \in Lessons(s) : Sound(l) /\ Scope(l) = s /\ l \in Lesson /\ l.rev # 0
    BY DEF IInv, Types, File, Lessons, Placed
  <2>2. "PROJECT" \in Scopes /\ "GLOBAL" \in Scopes
    BY DEF Scopes
  <2>3. \A s \in Scopes : \A l \in Lessons(s) :
            l.status = "VERIFIED" => l.sources # {} /\ l.sources \subseteq shown
    BY <2>1 DEF Sound, Evidenced
  <2>4. ~withdrawn => \A l \in Lessons("PROJECT") :
            /\ l.rev > 1 => \E k \in Before("PROJECT", l) : Follows(k, l)
            /\ l.rev = 1 => l.status \in {"CANDIDATE", "REQUIRES_REVIEW"}
    BY <2>1, <2>2 DEF Sound
  <2>5. ~withdrawn => \A l \in Lessons("GLOBAL") : \E k \in Lessons("PROJECT") :
            k.id = l.origin /\ k.status = "VERIFIED" /\ k.sources = l.sources
    BY <2>1, <2>2 DEF Sound
  <2> QED BY <2>3, <2>4, <2>5 DEF LifecycleFollowed
<1> QED BY <1>1, VaultInvariant, PTL

\* A whole revision that its invocation is done with stays so.
LEMMA SettledStay ==
    ASSUME IInv, Next, NEW s \in Scopes, NEW l \in Settled(s)
    PROVE  l \in Settled(s)'
<1>1. l \in Lessons(s) /\ \A p \in Procs : pc[p] \in {"close", "remove"} => next[p] # l
  BY DEF Settled
<1>2. PICK f \in store[s] : f.whole /\ f.lesson = l
  BY <1>1 DEF Lessons
<1>3. store \in [Scopes -> SUBSET File]
  BY DEF IInv, Types
<1>4. ASSUME NEW p \in Procs, pc[p] \in {"write", "remove"},
             f \in Named(Scope(next[p]), Name(next[p]))
      PROVE  FALSE
  <2>1. PICK w \in BOOLEAN :
            /\ Named(Scope(next[p]), Name(next[p])) = {[lesson |-> next[p], whole |-> w]}
            /\ pc[p] = "write" => w = FALSE
    BY <1>4, OwnFile DEF Owning
  <2>2. f = [lesson |-> next[p], whole |-> w]
    BY <1>4, <2>1
  <2>3. f.lesson = next[p] /\ f.whole = w
    BY <2>2
  <2> QED BY <1>1, <1>2, <1>4, <2>1, <2>3
<1>5. f \in store'[s]
  <2>1. ASSUME NEW p \in Procs, Create(p)
        PROVE  f \in store'[s]
    BY <1>2, <1>3, <2>1 DEF Create
  <2>2. ASSUME NEW p \in Procs, Write(p) \/ Remove(p)
        PROVE  f \in store'[s]
    <3>1. f \notin Named(Scope(next[p]), Name(next[p]))
      BY <1>4, <2>2 DEF Write, Remove
    <3> QED BY <1>2, <1>3, <2>2, <3>1 DEF Write, Remove
  <2>3. CASE UNCHANGED store
    BY <1>2, <2>3
  <2> QED
    BY <2>1, <2>2, <2>3 DEF Next, Invoked, Draft, Call, Find, ListAgain, Check, Close, Crash,
       FixesChange
<1>6. ASSUME NEW q \in Procs, pc'[q] \in {"close", "remove"}
      PROVE  next'[q] # l
  <2>1. pc \in [Procs -> PCs] /\ next \in [Procs -> Lesson]
    BY DEF IInv, Types
  <2>2. /\ pc[q] \in {"write", "close", "remove"}
        /\ next'[q] = next[q]
    BY <1>6, <2>1 DEF Next, Invoked, Draft, Call, Find, ListAgain, Check, Create, Write, Close,
       Remove, Crash, FixesChange, Over, Goto, local
  <2>3. ASSUME pc[q] = "write", next[q] = l
        PROVE  FALSE
    <3>1. Scope(l) = s
      BY <1>2 DEF IInv, Placed
    <3>2. f \in Named(Scope(next[q]), Name(next[q]))
      BY <1>2, <2>3, <3>1 DEF Named
    <3> QED BY <1>4, <2>3, <3>2
  <2> QED BY <1>1, <2>2, <2>3
<1> QED BY <1>2, <1>5, <1>6 DEF Settled, Lessons

\* Whole revisions stay as they are once their invocation is done with them.
THEOREM LessonsLast == Spec => SettledLasts
<1>1. IInv /\ [Next]_vars => [\A s \in Scopes : Settled(s) \subseteq Lessons(s)']_vars
  <2> SUFFICES ASSUME IInv, Next, NEW s \in Scopes, NEW l \in Settled(s)
               PROVE  l \in Lessons(s)'
    OBVIOUS
  <2>1. l \in Settled(s)'
    BY SettledStay
  <2> QED BY <2>1 DEF Settled
<1> QED BY <1>1, VaultInvariant, PTL DEF Spec, SettledLasts

-----------------------------------------------------------------------------
(* What readers rely on.                                                   *)

\* The revision that an invocation is about to create is one that may come next.
LEMMA CreatedIsNext ==
    ASSUME IInv, NEW p \in Procs, pc[p] = "create", ~withdrawn, clock < MaxTime,
           Evidenced(Stamped(next[p], clock + 1)) => Place(Stamped(next[p], clock + 1))
    PROVE  AppendDraft \/ AppendRevision \/ AppendPromotion
<1> DEFINE n == next[p]
           h == clock + 1
           l == Stamped(n, h)
<1>1. n \in Lesson /\ h \in Time /\ h # 0
  BY LimitAssumption DEF IInv, Types, Time
<1>2. /\ Sound(n) /\ n.rev # 0 /\ (n.rev > 1 => n.id # 0)
      /\ n.rev = 1 => n.id = 0
  BY DEF IInv, Carried, Working
<1>3. Place(l)
  <2>1. Evidenced(l)
    BY <1>1, <1>2 DEF Stamped, Sound, Evidenced, Lesson
  <2> QED BY <2>1
<1>4. \A s \in Scopes : \A k \in Lessons(s) : k \in Lesson /\ Scope(k) = s
  BY DEF IInv, Types, File, Lessons, Placed
<1>5. "PROJECT" \in Scopes
  BY DEF Scopes
<1> HIDE DEF n, h
<1>6. ASSUME Scope(n) = "GLOBAL"
      PROVE  AppendPromotion
  <2>1. n.rev = 1 /\ n.id = 0 /\ n.prev = 0 /\ n.status = "VERIFIED"
    BY <1>2, <1>6 DEF Sound
  <2>2. PICK k \in Lessons("PROJECT") :
            k.id = n.origin /\ k.status = "VERIFIED" /\ k.sources = n.sources
    BY <1>2, <1>6 DEF Sound
  <2>3. k \in Lesson
    BY <1>4, <1>5
  <2>4. l = [k EXCEPT !.id = h, !.rev = 1, !.prev = 0, !.origin = k.id, !.hash = h]
    BY <1>1, <2>1, <2>2, <2>3 DEF Stamped, Lesson
  <2> HIDE DEF l
  <2> QED BY <1>3, <2>2, <2>4 DEF AppendPromotion, h
<1>7. ASSUME Scope(n) = "PROJECT" /\ n.rev = 1
      PROVE  AppendDraft
  <2>1. n.id = 0 /\ n.prev = 0 /\ n.status \in {"CANDIDATE", "REQUIRES_REVIEW"} /\ n.origin = 0
    BY <1>2, <1>7 DEF Sound, Scope
  <2>2. NoLesson \in Lesson /\ NoLesson.prev = 0 /\ NoLesson.origin = 0
    BY NoLessonType DEF NoLesson
  <2>3. l = [NoLesson EXCEPT !.id = h, !.rev = 1, !.status = n.status, !.sources = n.sources,
                 !.hash = h]
    BY <1>1, <1>7, <2>1, <2>2 DEF Stamped, Lesson
  <2>4. n.sources \in SUBSET Fixes
    BY <1>1 DEF Lesson
  <2> HIDE DEF l
  <2> QED BY <1>3, <2>1, <2>3, <2>4 DEF AppendDraft, h
<1>8. ASSUME Scope(n) = "PROJECT" /\ n.rev # 1
      PROVE  AppendRevision
  <2>1. n.rev \in Nat /\ n.rev > 1 /\ n.id # 0 /\ n.origin = 0
    BY <1>1, <1>2, <1>8 DEF Lesson, Scope
  <2>2. PICK k \in Lessons("PROJECT") :
            k.id = n.id /\ k.rev + 1 = n.rev /\ k.hash = n.prev /\ Follows(k, n)
    BY <1>2, <1>8, <2>1 DEF Sound, Before
  <2>3. k \in Lesson /\ k.origin = 0
    BY <1>4, <1>5 DEF Scope
  <2>4. n.status \in Statuses /\ n.sources \in SUBSET Fixes
    BY <1>1 DEF Lesson
  <2>5. l = [k EXCEPT !.rev = @ + 1, !.prev = k.hash, !.status = n.status,
                 !.sources = n.sources, !.hash = h]
    BY <1>1, <2>1, <2>2, <2>3 DEF Stamped, Lesson
  <2>6. Follows(k, l)
    BY <1>1, <2>1, <2>2 DEF Follows, Stamped, Lesson
  <2> HIDE DEF l
  <2> QED BY <1>3, <2>4, <2>5, <2>6 DEF AppendRevision, h
<1> QED BY <1>6, <1>7, <1>8 DEF Scope

\* Whatever the invocations do, readers see what LessonStore says.
THEOREM StoreIsKept == Spec => KeepsStore
<1>1. Init => StoreInit
  BY DEF Init
<1>2. IInv /\ [Next]_vars => [StoreStep \/ withdrawn']_storeVars
  <2> SUFFICES ASSUME IInv, [Next]_vars, ~withdrawn'
               PROVE  StoreStep \/ UNCHANGED storeVars
    BY DEF storeVars
  <2>1. CASE UNCHANGED vars
    BY <2>1 DEF vars, storeVars
  <2>2. CASE FixesChange
    <3>1. shown' \in {more \in SUBSET Fixes : shown \subseteq more}
      BY <2>2 DEF FixesChange, IInv, Types
    <3> QED BY <2>2, <3>1 DEF FixesChange, StoreStep, Show
  <2>3. ASSUME NEW p \in Procs, Create(p)
        PROVE  StoreStep \/ UNCHANGED storeVars
    <3> DEFINE l == Stamped(next[p], clock + 1)
    <3>1. CASE UNCHANGED <<store, clock>>
      BY <2>3, <3>1 DEF Create, storeVars
    <3>2. CASE /\ Named(Scope(l), Name(l)) = {} /\ clock < MaxTime
               /\ store' = [store EXCEPT ![Scope(l)] = @ \union {[lesson |-> l, whole |-> FALSE]}]
               /\ clock' = clock + 1
      <4>1. ~withdrawn /\ UNCHANGED <<shown, withdrawn>> /\ pc[p] = "create"
        BY <2>3 DEF Create
      <4>2. Evidenced(l) => Place(l)
        BY <3>2, <4>1 DEF Place
      <4> QED BY <3>2, <4>1, <4>2, CreatedIsNext DEF StoreStep, Append
    <3> QED BY <2>3, <3>1, <3>2 DEF Create
  <2>4. ASSUME NEW p \in Procs, Write(p) \/ Remove(p)
        PROVE  StoreStep \/ UNCHANGED storeVars
    <3> DEFINE s == Scope(next[p])
               named == Named(s, Name(next[p]))
    <3>1. pc[p] \in Owning /\ s \in Scopes
      BY <2>4 DEF Write, Remove, Owning, Scope, Scopes
    <3>2. PICK w \in BOOLEAN :
              /\ named = {[lesson |-> next[p], whole |-> w]}
              /\ pc[p] = "write" => w = FALSE
      BY <3>1, OwnFile
    <3> DEFINE f == [lesson |-> next[p], whole |-> w]
    <3>3. f \in store[s] /\ f.whole = w
      BY <3>2 DEF Named
    <3>4. UNCHANGED <<clock, shown>>
      BY <2>4 DEF Write, Remove
    <3>5. CASE Write(p)
      <4>1. w = FALSE /\ withdrawn' = withdrawn
        BY <3>2, <3>5 DEF Write
      <4>2. f.lesson = next[p]
        OBVIOUS
      <4>3. store' = [store EXCEPT ![s] = (@ \ {f}) \union {[lesson |-> f.lesson, whole |-> TRUE]}]
            \/ store' = store
        BY <3>2, <3>5, <4>2 DEF Write
      <4> HIDE DEF f, s
      <4> QED BY <3>1, <3>3, <3>4, <4>1, <4>3 DEF StoreStep, Fill, storeVars
    <3>6. CASE Remove(p)
      <4>1. \/ UNCHANGED <<store, withdrawn>>
            \/ /\ store' = [store EXCEPT ![s] = @ \ {f}]
               /\ withdrawn' = (withdrawn \/ \E g \in {f} : g.whole)
        BY <3>2, <3>6 DEF Remove
      <4> HIDE DEF f, s
      <4>2. CASE UNCHANGED <<store, withdrawn>>
        BY <3>4, <4>2 DEF storeVars
      <4>3. CASE /\ store' = [store EXCEPT ![s] = @ \ {f}]
                 /\ withdrawn' = (withdrawn \/ \E g \in {f} : g.whole)
        <5>1. ~f.whole /\ ~withdrawn
          BY <4>3
        <5>2. withdrawn = FALSE
          BY <5>1 DEF IInv, Types
        <5>3. withdrawn' = FALSE
          BY <4>3, <5>1, <5>2
        <5> QED BY <3>1, <3>3, <3>4, <4>3, <5>1, <5>2, <5>3 DEF StoreStep, Fill
      <4> QED BY <4>1, <4>2, <4>3
    <3> QED BY <2>4, <3>5, <3>6
  <2>5. ASSUME NEW p \in Procs,
               Draft(p) \/ Call(p) \/ Find(p) \/ ListAgain(p) \/ Check(p) \/ Close(p) \/ Crash(p)
        PROVE  UNCHANGED storeVars
    BY <2>5 DEF Draft, Call, Find, ListAgain, Check, Close, Crash, storeVars
  <2> QED BY <2>1, <2>2, <2>3, <2>4, <2>5 DEF Next, Invoked
<1> QED BY <1>1, <1>2, VaultInvariant, PTL DEF Spec, KeepsStore, StoreSpec

-----------------------------------------------------------------------------
(* What a search shows.                                                    *)

\* A search leaves the store alone.
LEMMA SearchIsBeside == SearchSpec => Spec
<1>1. SearchInit => Init
  BY DEF SearchInit
<1>2. [SearchNext]_<<vars, searchVars>> => [Next]_vars
  BY DEF SearchNext
<1> QED BY <1>1, <1>2, PTL DEF SearchSpec, Spec

\* l is verified, and nothing newer was there when the search began.
Fresh(l) == l.status = "VERIFIED" /\ ~\E k \in began : Newer(k, l)

\* What was settled at the beginning stays so, and was listed; what has been found
\* since is fresh.
SearchInv ==
    /\ \A l \in began : Scope(l) \in Scopes /\ l \in Settled(Scope(l))
    /\ at = "listed" => \A l \in began : Scope(l) = scope => Name(l) \in names
    /\ scope \in Scopes
    /\ at = "idle" => found = {}
    /\ at # "answered" => answer.results = {}
    /\ ~query.history => \A l \in found \union answer.results : Fresh(l)

\* What is listed now includes all that was settled at the beginning.
LEMMA ListedAll ==
    ASSUME Listing, scope \in Scopes, NEW l \in Settled(scope)
    PROVE  Name(l) \in names'
<1>1. PICK f \in store[scope] : f.lesson = l
  BY DEF Settled, Lessons
<1> QED BY <1>1 DEF Listing

\* The newest of the lessons that are read are fresh: a newer one that was settled
\* would have been listed, and read.
LEMMA ReadIsFresh ==
    ASSUME IInv, SearchInv, at = "listed", ~query.history,
           NEW l \in Chosen(FoundIn(scope, names))
    PROVE  Fresh(l)
<1>1. l \in FoundIn(scope, names) /\ IsNewest(l, FoundIn(scope, names)) /\ l.status = "VERIFIED"
  BY DEF Chosen, Current
<1>2. \A s \in Scopes : \A k \in Lessons(s) : k \in Lesson /\ Scope(k) = s
  BY DEF IInv, Types, Placed, Lessons, File
<1>3. scope \in Scopes /\ l \in Lessons(scope)
  BY <1>1 DEF FoundIn, SearchInv
<1>4. ASSUME NEW k \in began, Newer(k, l)
      PROVE  FALSE
  <2>1. Scope(k) = scope /\ k.id = l.id /\ k.rev > l.rev
    BY <1>2, <1>3, <1>4 DEF Newer
  <2>2. k \in Lessons(scope) /\ Name(k) \in names
    BY <1>4, <2>1 DEF SearchInv, Settled
  <2>3. k \in FoundIn(scope, names)
    BY <2>2 DEF FoundIn
  <2>4. k.rev <= l.rev
    BY <1>1, <2>1, <2>3 DEF IsNewest
  <2>5. k.rev \in Nat /\ l.rev \in Nat
    BY <1>2, <1>3, <2>2 DEF Lesson
  <2> QED BY <2>1, <2>4, <2>5
<1> QED BY <1>1, <1>4 DEF Fresh

LEMMA SearchStep ==
    ASSUME IInv, SearchInv, [SearchNext]_<<vars, searchVars>>
    PROVE  SearchInv'
<1>1. CASE Next /\ UNCHANGED searchVars
  <2>1. \A l \in began : l \in Settled(Scope(l))'
    BY <1>1, SettledStay DEF SearchInv
  <2> QED BY <1>1, <2>1 DEF SearchInv, searchVars, Fresh
<1>2. CASE Begin /\ UNCHANGED vars
  <2>1. \A s \in Scopes : Settled(s)' = Settled(s)
    BY <1>2 DEF vars, local, Settled, Lessons
  <2>2. \A l \in began' : Scope(l) \in Scopes /\ l \in Settled(Scope(l))
    <3>1. \A s \in Scopes : \A l \in Settled(s) : Scope(l) = s
      BY DEF IInv, Placed, Settled, Lessons
    <3> QED BY <1>2, <3>1 DEF Begin
  <2>3. \A l \in began' : Scope(l) = scope => Name(l) \in names'
    BY <1>2, <2>2, ListedAll DEF Begin
  <2>4. found' = {} /\ answer'.results = {} /\ at' = "listed" /\ scope' = scope
    BY <1>2 DEF Begin, Listing, SearchInv
  <2> QED BY <2>1, <2>2, <2>3, <2>4 DEF SearchInv
<1>3. ASSUME UNCHANGED vars, began' = began
      PROVE  /\ \A l \in began' : Scope(l) \in Scopes /\ l \in Settled(Scope(l))'
             /\ \A l : Fresh(l)' <=> Fresh(l)
  BY <1>3 DEF SearchInv, vars, local, Settled, Lessons, Fresh
<1>4. CASE ListNames /\ UNCHANGED vars
  <2>1. \A l \in began : Scope(l) = scope => Name(l) \in names'
    BY <1>4, ListedAll DEF SearchInv, ListNames
  <2> QED BY <1>3, <1>4, <2>1 DEF SearchInv, ListNames, Listing
<1>5. CASE Refuse /\ UNCHANGED vars
  <2>1. at # "answered"
    BY <1>5 DEF Refuse
  <2>2. /\ at' = "idle" /\ scope' = "PROJECT" /\ found' = {} /\ began' = {}
        /\ answer'.results = {}
    BY <1>5, <2>1 DEF Refuse, SearchInv
  <2> QED BY <2>2 DEF SearchInv, Scopes
<1>6. CASE ReadFiles /\ UNCHANGED vars
  <2>1. ~query.history => \A l \in found' : Fresh(l)
    BY <1>6, ReadIsFresh DEF ReadFiles, SearchInv
  <2>2. /\ at' \in {"list", "found"} /\ scope' \in Scopes
        /\ UNCHANGED <<query, answer, began>> /\ answer.results = {}
    BY <1>6 DEF ReadFiles, SearchInv, Scopes
  <2> QED BY <1>3, <1>6, <2>1, <2>2 DEF SearchInv
<1>7. CASE Answer /\ UNCHANGED vars
  <2>1. PICK n \in 0..Limit : answer'.results = FirstOf(found, n)
    BY <1>7 DEF Answer
  <2>2. answer'.results \subseteq found
    BY <2>1 DEF FirstOf
  <2>3. /\ at' = "answered" /\ found' = {} /\ UNCHANGED <<scope, query, began>>
    BY <1>7 DEF Answer
  <2> QED BY <1>3, <1>7, <2>2, <2>3 DEF SearchInv
<1>8. CASE UNCHANGED <<vars, searchVars>>
  BY <1>3, <1>8 DEF SearchInv, searchVars
<1> QED BY <1>1, <1>2, <1>4, <1>5, <1>6, <1>7, <1>8 DEF SearchNext

\* No search without the history presents a lesson that had lost its status, with
\* any number of invocations at work meanwhile.
THEOREM SearchShowsCurrent == SearchSpec => []SearchIsCurrent
<1>1. SearchInit => SearchInv
  BY DEF SearchInit, SearchInv, Scopes
<1>2. IInv /\ SearchInv /\ [SearchNext]_<<vars, searchVars>> => SearchInv'
  BY SearchStep
<1>3. SearchInv => SearchIsCurrent
  BY DEF SearchInv, SearchIsCurrent, Fresh
<1> QED BY <1>1, <1>2, <1>3, SearchIsBeside, VaultInvariant, PTL DEF SearchSpec

-----------------------------------------------------------------------------
(* What a search leaves out.                                               *)

\* The lessons that match: their texts have a weight.
Matching == {l \in Lesson : l.sources \in DOMAIN query.weights}

\* The order of the results, key by key.
LEMMA OutranksByKey ==
    ASSUME NEW l, NEW k
    PROVE  Outranks(l, k) <=>
             \/ Score(k) < Score(l)
             \/ /\ Score(k) = Score(l)
                /\ \/ StatusRank(l) < StatusRank(k)
                   \/ /\ StatusRank(l) = StatusRank(k)
                      /\ \/ ScopeRank(l) < ScopeRank(k)
                         \/ /\ ScopeRank(l) = ScopeRank(k)
                            /\ l.id < k.id \/ (l.id = k.id /\ k.rev < l.rev)
<1> DEFINE keys == << <<Score(k), Score(l)>>, <<StatusRank(l), StatusRank(k)>>,
                      <<ScopeRank(l), ScopeRank(k)>>, <<l.id, k.id>>, <<k.rev, l.rev>> >>
           less(i) == keys[i][1] < keys[i][2]
           same(i) == keys[i][1] = keys[i][2]
<1>1. DOMAIN keys = {1, 2, 3, 4, 5}
  OBVIOUS
<1>2. /\ less(1) <=> Score(k) < Score(l)
      /\ same(1) <=> Score(k) = Score(l)
      /\ less(2) <=> StatusRank(l) < StatusRank(k)
      /\ same(2) <=> StatusRank(l) = StatusRank(k)
      /\ less(3) <=> ScopeRank(l) < ScopeRank(k)
      /\ same(3) <=> ScopeRank(l) = ScopeRank(k)
      /\ less(4) <=> l.id < k.id
      /\ same(4) <=> l.id = k.id
      /\ less(5) <=> k.rev < l.rev
  OBVIOUS
<1>3. Outranks(l, k) <=> \E i \in DOMAIN keys : less(i) /\ \A j \in 1..(i - 1) : same(j)
  BY DEF Outranks
<1> HIDE DEF keys, less, same
<1>4. /\ (\A j \in 1..(1 - 1) : same(j))
      /\ (\A j \in 1..(2 - 1) : same(j)) <=> same(1)
      /\ (\A j \in 1..(3 - 1) : same(j)) <=> same(1) /\ same(2)
      /\ (\A j \in 1..(4 - 1) : same(j)) <=> same(1) /\ same(2) /\ same(3)
      /\ (\A j \in 1..(5 - 1) : same(j)) <=> same(1) /\ same(2) /\ same(3) /\ same(4)
  <2>1. /\ 1..(1 - 1) = {} /\ 1..(2 - 1) = {1} /\ 1..(3 - 1) = {1, 2}
        /\ 1..(4 - 1) = {1, 2, 3} /\ 1..(5 - 1) = {1, 2, 3, 4}
    OBVIOUS
  <2> QED BY <2>1
<1>5. Outranks(l, k) <=>
         \/ less(1)
         \/ less(2) /\ same(1)
         \/ less(3) /\ same(1) /\ same(2)
         \/ less(4) /\ same(1) /\ same(2) /\ same(3)
         \/ less(5) /\ same(1) /\ same(2) /\ same(3) /\ same(4)
  BY <1>1, <1>3, <1>4
<1> QED BY <1>2, <1>5

LEMMA KeysType ==
    ASSUME query \in Queries, NEW l \in Matching
    PROVE  /\ Score(l) \in Nat /\ StatusRank(l) \in Nat /\ ScopeRank(l) \in Nat
           /\ l.id \in Nat /\ l.rev \in Nat
<1>1. query.weights[l.sources] \in Nat
  BY QueryAssumption DEF Matching
<1>2. l \in Lesson
  BY DEF Matching
<1> QED BY <1>1, <1>2 DEF Score, StatusRank, ScopeRank, Lesson, Time

LEMMA OutranksTransitive ==
    ASSUME query \in Queries, NEW a \in Matching, NEW b \in Matching, NEW c \in Matching,
           Outranks(a, b), Outranks(b, c)
    PROVE  Outranks(a, c)
BY OutranksByKey, KeysType

LEMMA OutranksTotal ==
    ASSUME query \in Queries, NEW a \in Matching, NEW b \in Matching,
           ~(Scope(a) = Scope(b) /\ Name(a) = Name(b))
    PROVE  Outranks(a, b) \/ Outranks(b, a)
<1>1. Scope(a) = Scope(b) <=> ScopeRank(a) = ScopeRank(b)
  BY DEF Scope, ScopeRank
<1>2. Name(a) = Name(b) <=> a.id = b.id /\ a.rev = b.rev
  BY DEF Name
<1> QED BY <1>1, <1>2, OutranksByKey, KeysType

\* No two of the lessons are of one revision.
Distinct(lessons) ==
    \A a, b \in lessons : Scope(a) = Scope(b) /\ Name(a) = Name(b) => a = b

\* What is not among the first is outranked by them.
LEMMA FirstOutrank ==
    ASSUME query \in Queries, NEW lessons \in SUBSET Matching, IsFiniteSet(lessons),
           Distinct(lessons), NEW n \in Nat,
           NEW l \in lessons \ FirstOf(lessons, n), NEW r \in FirstOf(lessons, n)
    PROVE  Outranks(r, l)
<1> DEFINE above(a) == {k \in lessons : Outranks(k, a)}
<1>1. r \in lessons /\ Cardinality(above(r)) < n /\ ~(Cardinality(above(l)) < n)
  BY DEF FirstOf
<1>2. l # r
  OBVIOUS
<1>3. Outranks(r, l) \/ Outranks(l, r)
  BY <1>1, <1>2, OutranksTotal DEF Distinct
<1>4. ASSUME Outranks(l, r)
      PROVE  FALSE
  <2>1. above(l) \subseteq above(r)
    BY <1>1, <1>4, OutranksTransitive
  <2>2. IsFiniteSet(above(r)) /\ IsFiniteSet(above(l))
    BY FS_Subset
  <2>3. Cardinality(above(l)) <= Cardinality(above(r))
    BY <2>1, <2>2, FS_Subset
  <2>4. Cardinality(above(l)) \in Nat /\ Cardinality(above(r)) \in Nat
    BY <2>2, FS_CardinalityType
  <2> QED BY <1>1, <2>3, <2>4
<1> QED BY <1>3, <1>4

\* While nothing is withdrawn, whole revisions stay.
LEMMA WholeStay ==
    ASSUME IInv, Next, ~withdrawn'
    PROVE  ~withdrawn /\ \A s \in Scopes : Lessons(s) \subseteq Lessons(s)'
<1>1. ~withdrawn
  BY DEF Next, Invoked, Draft, Call, Find, ListAgain, Check, Create, Write, Close, Remove, Crash,
     FixesChange
<1>2. store \in [Scopes -> SUBSET File]
  BY DEF IInv, Types
<1>3. ASSUME NEW s \in Scopes, NEW f \in store[s], f.whole
      PROVE  f \in store'[s]
  <2>1. ASSUME NEW p \in Procs, Create(p)
        PROVE  f \in store'[s]
    BY <1>2, <1>3, <2>1 DEF Create
  <2>2. ASSUME NEW p \in Procs, Write(p)
        PROVE  f \in store'[s]
    <3>1. f \notin Named(Scope(next[p]), Name(next[p]))
      <4>1. PICK w \in BOOLEAN :
                /\ Named(Scope(next[p]), Name(next[p])) = {[lesson |-> next[p], whole |-> w]}
                /\ w = FALSE
        BY <2>2, OwnFile DEF Owning, Write
      <4>2. [lesson |-> next[p], whole |-> w].whole = w
        OBVIOUS
      <4> QED BY <1>3, <4>1, <4>2
    <3> QED BY <1>2, <1>3, <2>2, <3>1 DEF Write
  <2>3. ASSUME NEW p \in Procs, Remove(p)
        PROVE  f \in store'[s]
    BY <1>2, <1>3, <2>3 DEF Remove
  <2>4. CASE UNCHANGED store
    BY <1>3, <2>4
  <2> QED
    BY <2>1, <2>2, <2>3, <2>4 DEF Next, Invoked, Draft, Call, Find, ListAgain, Check, Close, Crash,
       FixesChange
<1> QED BY <1>1, <1>3 DEF Lessons

\* Directories are finite.
FiniteStore == \A s \in Scopes : IsFiniteSet(store[s])

LEMMA FiniteStep ==
    ASSUME IInv, FiniteStore, [Next]_vars
    PROVE  FiniteStore'
<1>1. store \in [Scopes -> SUBSET File]
  BY DEF IInv, Types
<1>2. SUFFICES ASSUME NEW s \in Scopes
               PROVE  IsFiniteSet(store'[s])
  BY DEF FiniteStore
<1>3. \A f : IsFiniteSet(store[s] \union {f})
  BY FS_AddElement DEF FiniteStore
<1>4. ASSUME NEW p \in Procs, Create(p)
      PROVE  IsFiniteSet(store'[s])
  <2>1. store'[s] = store[s] \/ \E f : store'[s] = store[s] \union {f}
    BY <1>1, <1>4 DEF Create
  <2> QED BY <1>3, <2>1 DEF FiniteStore
<1>5. ASSUME NEW p \in Procs, Write(p) \/ Remove(p)
      PROVE  IsFiniteSet(store'[s])
  <2>1. \E f : store'[s] \subseteq store[s] \union {f}
    BY <1>1, <1>5 DEF Write, Remove
  <2> QED BY <1>3, <2>1, FS_Subset
<1>6. CASE UNCHANGED store
  BY <1>6 DEF FiniteStore
<1> QED
  BY <1>4, <1>5, <1>6 DEF Next, Invoked, Draft, Call, Find, ListAgain, Check, Close, Crash,
     FixesChange, vars

\* A search owes l: it matches, and is what is asked for as far as the store shows.
Owed(l) ==
    /\ l.sources \in DOMAIN query.weights
    /\ query.history \/ ~withdrawn
    /\ ~query.history => l.status = "VERIFIED" /\ ~\E k \in Lessons(Scope(l)) : Newer(k, l)

\* The directory s has been read.
Done(s) == at = "found" \/ (at \in {"list", "listed"} /\ scope = "GLOBAL" /\ s = "PROJECT")

\* What has been found is of the directories read, once each, and misses nothing owed.
Gathered ==
    /\ at \in {"idle", "list", "listed", "found", "answered"}
    /\ at \in {"list", "listed", "found"} => query \in Queries
    /\ found \subseteq Matching /\ Distinct(found) /\ IsFiniteSet(found)
    /\ scope = "PROJECT" => found = {}
    /\ at = "idle" => scope = "PROJECT"
    /\ at \in {"list", "listed"} => \A l \in found : Scope(l) = "PROJECT"
    /\ \A l \in began : Owed(l) /\ Done(Scope(l)) => l \in found
    /\ NothingHidden

\* A reading of a directory finds all that is owed of it.
LEMMA ReadIsWhole ==
    ASSUME IInv, SearchInv, at = "listed", NEW l \in began, Owed(l), Scope(l) = scope
    PROVE  l \in Chosen(FoundIn(scope, names))
<1>1. l \in Lessons(scope) /\ Name(l) \in names
  BY DEF SearchInv, Settled
<1>2. l \in FoundIn(scope, names)
  BY <1>1 DEF FoundIn
<1>3. ASSUME ~query.history
      PROVE  l.status = "VERIFIED" /\ IsNewest(l, FoundIn(scope, names))
  <2>1. \A k \in Lessons(scope) : k \in Lesson /\ Scope(k) = scope
    BY DEF IInv, Types, Placed, Lessons, File, SearchInv
  <2>2. \A k \in Lessons(scope) : k.rev \in Nat
    BY <2>1 DEF Lesson
  <2>3. \A k \in FoundIn(scope, names) : k \in Lessons(scope) /\ ~Newer(k, l)
    BY <1>3 DEF Owed, FoundIn
  <2> QED BY <1>1, <1>3, <2>1, <2>2, <2>3 DEF Owed, IsNewest, Newer
<1> QED BY <1>2, <1>3 DEF Owed, Chosen, Current

\* What is read is of one directory, a revision once, and finite.
LEMMA ReadIsDistinct ==
    ASSUME IInv, FiniteStore, SearchInv
    PROVE  LET read == Chosen(FoundIn(scope, names))
           IN  /\ read \subseteq Matching /\ Distinct(read) /\ IsFiniteSet(read)
               /\ \A l \in read : Scope(l) = scope
<1> DEFINE read == Chosen(FoundIn(scope, names))
<1>1. scope \in Scopes /\ store[scope] \subseteq File
  BY DEF SearchInv, IInv, Types
<1>2. read \subseteq Lessons(scope) /\ \A l \in read : l.sources \in DOMAIN query.weights
  BY DEF Chosen, Current, FoundIn
<1>3. \A l \in Lessons(scope) : \E f \in store[scope] : f.lesson = l
  BY DEF Lessons
<1>4. \A l \in Lessons(scope) : l \in Lesson /\ Scope(l) = scope
  BY <1>1, <1>3 DEF IInv, Placed, File
<1>5. \A a, b \in Lessons(scope) : Name(a) = Name(b) => a = b
  BY <1>1, <1>3 DEF IInv, Placed
<1>6. IsFiniteSet(read)
  <2> DEFINE lessonOf == [f \in store[scope] |-> f.lesson]
             lessons == {lessonOf[f] : f \in store[scope]}
  <2>1. lessonOf \in Surjection(store[scope], lessons)
    BY DEF Surjection
  <2>2. IsFiniteSet(lessons)
    BY <1>1, <2>1, FS_Surjection DEF FiniteStore
  <2>3. Lessons(scope) \subseteq lessons
    BY <1>3
  <2> QED BY <1>2, <2>2, <2>3, FS_Subset
<1> QED BY <1>2, <1>4, <1>5, <1>6 DEF Matching, Distinct

LEMMA GatheredStep ==
    ASSUME IInv, FiniteStore, SearchInv, Gathered, [SearchNext]_<<vars, searchVars>>
    PROVE  Gathered'
<1>1. CASE at \in {"idle", "list", "listed"} /\ Next /\ UNCHANGED searchVars
  <2>1. ASSUME NEW l \in began, Owed(l)'
        PROVE  Owed(l)
    <3>1. CASE query.history
      BY <1>1, <2>1, <3>1 DEF Owed, searchVars
    <3>2. CASE ~query.history
      <4>1. ~withdrawn' /\ Scope(l) \in Scopes
        BY <1>1, <2>1, <3>2 DEF Owed, searchVars, SearchInv
      <4>2. ~withdrawn /\ Lessons(Scope(l)) \subseteq Lessons(Scope(l))'
        BY <1>1, <4>1, WholeStay
      <4> QED BY <1>1, <2>1, <3>2, <4>2 DEF Owed, searchVars
    <3> QED BY <3>1, <3>2
  <2>2. NothingHidden'
    BY <1>1 DEF NothingHidden, searchVars
  <2> QED BY <1>1, <2>1, <2>2 DEF Gathered, searchVars, Done, Matching, Distinct
<1>2. ASSUME UNCHANGED vars, query' = query
      PROVE  /\ \A l : Owed(l)' <=> Owed(l)
             /\ Matching' = Matching
             /\ \A a, b : Outranks(a, b)' <=> Outranks(a, b)
  BY <1>2 DEF vars, Owed, Lessons, Matching, Outranks, Score
<1>3. CASE Begin /\ UNCHANGED vars
  <2>1. at' = "listed" /\ query' \in Queries /\ scope' = "PROJECT" /\ found' = {}
    BY <1>3 DEF Begin, Listing, Gathered
  <2> QED BY <2>1, FS_EmptySet DEF Gathered, Done, Distinct, NothingHidden
<1>4. CASE ListNames /\ UNCHANGED vars
  <2>1. at = "list" /\ at' = "listed" /\ UNCHANGED <<scope, query, found, answer, began>>
    BY <1>4 DEF ListNames, Listing
  <2> QED BY <1>2, <1>4, <2>1 DEF Gathered, Done, Distinct, NothingHidden
<1>5. CASE Refuse /\ UNCHANGED vars
  <2>1. at' = "idle" /\ scope' = "PROJECT" /\ found' = {} /\ began' = {}
    BY <1>5 DEF Refuse
  <2> QED BY <2>1, FS_EmptySet DEF Gathered, Done, Distinct, NothingHidden
<1>6. CASE ReadFiles /\ UNCHANGED vars
  <2> DEFINE read == Chosen(FoundIn(scope, names))
  <2>1. at = "listed" /\ found' = found \union read /\ UNCHANGED <<query, answer, began>>
    BY <1>6 DEF ReadFiles
  <2>2. \/ scope = "PROJECT" /\ scope' = "GLOBAL" /\ at' = "list"
        \/ scope = "GLOBAL" /\ scope' = "GLOBAL" /\ at' = "found"
    BY <1>6 DEF ReadFiles, SearchInv, Scopes
  <2>3. /\ read \subseteq Matching /\ Distinct(read) /\ IsFiniteSet(read)
        /\ \A l \in read : Scope(l) = scope
    BY ReadIsDistinct
  <2>4. \A l \in found : Scope(l) # scope
    BY <2>1, <2>2 DEF Gathered
  <2>5. Distinct(found')
    BY <2>1, <2>3, <2>4 DEF Gathered, Distinct
  <2>6. IsFiniteSet(found')
    BY <2>1, <2>3, FS_Union DEF Gathered
  <2>7. ASSUME NEW l \in began, Owed(l), Done(Scope(l))'
        PROVE  l \in found'
    <3>1. CASE Scope(l) = scope
      BY <2>1, <2>7, <3>1, ReadIsWhole
    <3>2. CASE Scope(l) # scope
      <4>1. Scope(l) \in Scopes
        BY <2>7 DEF SearchInv
      <4>2. Done(Scope(l))
        BY <2>1, <2>2, <2>7, <3>2, <4>1 DEF Done, Scopes
      <4> QED BY <2>1, <2>7, <4>2 DEF Gathered
    <3> QED BY <3>1, <3>2
  <2>8. at' = "list" => \A l \in found' : Scope(l) = "PROJECT"
    BY <2>1, <2>2, <2>3 DEF Gathered
  <2>9. NothingHidden'
    BY <2>2 DEF NothingHidden
  <2>10. query \in Queries /\ Matching' = Matching /\ \A l : Owed(l)' <=> Owed(l)
    BY <1>2, <1>6, <2>1 DEF Gathered
  <2> HIDE DEF read
  <2> QED BY <2>1, <2>2, <2>3, <2>5, <2>6, <2>7, <2>8, <2>9, <2>10 DEF Gathered
<1>7. CASE Answer /\ UNCHANGED vars
  <2>1. PICK n \in 0..Limit :
            /\ answer'.results = FirstOf(found, n)
            /\ answer'.truncated = (FirstOf(found, n) # found)
    BY <1>7 DEF Answer
  <2>2. /\ at = "found" /\ at' = "answered" /\ found' = {}
        /\ UNCHANGED <<scope, query, began>>
    BY <1>7 DEF Answer
  <2>3. n \in Nat
    BY <2>1, QueryAssumption
  <2>4. ASSUME NEW l \in began, Owed(l)
        PROVE  \/ l \in answer'.results
               \/ answer'.truncated /\ \A r \in answer'.results : Outranks(r, l)
    <3>1. l \in found
      BY <2>2, <2>4 DEF Gathered, Done
    <3>2. ASSUME l \notin FirstOf(found, n), NEW r \in FirstOf(found, n)
          PROVE  Outranks(r, l)
      <4>1. /\ query \in Queries /\ found \in SUBSET Matching
            /\ IsFiniteSet(found) /\ Distinct(found)
        BY <2>2 DEF Gathered
      <4> QED BY <2>3, <3>1, <3>2, <4>1, FirstOutrank
    <3> QED BY <2>1, <3>1, <3>2
  <2>5. NothingHidden'
    <3>1. SUFFICES ASSUME NEW l \in began', Owed(l)'
                   PROVE  \/ l \in answer'.results
                          \/ answer'.truncated /\ \A r \in answer'.results : Outranks(r, l)'
      BY DEF NothingHidden, Owed
    <3> QED BY <1>2, <1>7, <2>2, <2>4, <3>1
  <2> QED BY <2>2, <2>5, FS_EmptySet DEF Gathered, Done, Distinct
<1>8. CASE UNCHANGED <<vars, searchVars>>
  BY <1>2, <1>8 DEF Gathered, searchVars, vars, Lessons, Done, Distinct, NothingHidden
<1> QED BY <1>1, <1>3, <1>4, <1>5, <1>6, <1>7, <1>8 DEF SearchNext

\* What stays current is shown, or the response says that something is left out and
\* shows only what comes before it: with any number of invocations, queries and limits.
THEOREM SearchHidesNothing == SearchSpec => []NothingHidden
<1>1. SearchInit => SearchInv /\ Gathered /\ FiniteStore
  <2>1. SearchInit => SearchInv
    BY DEF SearchInit, SearchInv, Scopes
  <2>2. SearchInit => Gathered
    BY FS_EmptySet DEF SearchInit, Gathered, Distinct, NothingHidden
  <2>3. SearchInit => FiniteStore
    BY FS_EmptySet DEF SearchInit, Init, StoreInit, FiniteStore
  <2> QED BY <2>1, <2>2, <2>3
<1>2. /\ IInv /\ SearchInv /\ FiniteStore /\ Gathered
      /\ [SearchNext]_<<vars, searchVars>> /\ [Next]_vars
      => SearchInv' /\ FiniteStore' /\ Gathered'
  BY SearchStep, FiniteStep, GatheredStep
<1>3. Gathered => NothingHidden
  BY DEF Gathered
<1> QED BY <1>1, <1>2, <1>3, SearchIsBeside, VaultInvariant, PTL DEF SearchSpec, Spec
=============================================================================
