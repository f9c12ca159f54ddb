--------------------------- MODULE ConsentedChange ---------------------------
(***************************************************************************)
(* What a repair run promises the person who is asked, and nothing of how  *)
(* it is done.  The run looks at the worktree, shows one patch, and may    *)
(* receive one consent.  Only if that consent names the patch shown does   *)
(* it write, and then only that patch's files with that patch's bytes.     *)
(* It may withdraw, putting files back as they were when it looked; once   *)
(* it withdraws it never writes forward again, and once it has settled it  *)
(* writes nothing at all.  Everything else that happens to the worktree    *)
(* is counted as the doing of others.                                      *)
(***************************************************************************)
EXTENDS Naturals

CONSTANTS
    Files,      \* paths
    Bytes,      \* what a path may hold, Absent included
    Absent      \* no file there

Tree == [Files -> Bytes]
Patch == [pre : Tree, post : Tree]
NoPatch == [pre |-> [f \in Files |-> Absent], post |-> [f \in Files |-> Absent]]

VARIABLES
    tree,       \* the worktree
    others,     \* how many steps others have taken
    origin,     \* the worktree as it was looked at
    shown,      \* the patch put before the person
    consent,    \* the patch the person's decision names
    phase       \* asking, then writing, withdrawing, settled

vars == <<tree, others, origin, shown, consent, phase>>

Init ==
    /\ tree \in Tree /\ others = 0
    /\ origin = [f \in Files |-> Absent]
    /\ shown = NoPatch /\ consent = NoPatch /\ phase = "asking"

Look ==
    /\ phase = "asking" /\ shown = NoPatch
    /\ origin' \in Tree
    /\ phase' \in {"asking", "settled"}
    /\ UNCHANGED <<tree, others, shown, consent>>

Show ==
    /\ phase = "asking" /\ shown = NoPatch
    /\ shown' \in Patch
    /\ UNCHANGED <<tree, others, origin, consent, phase>>

\* The decision names a patch; writing may follow if it is the one shown.
Consent ==
    /\ phase = "asking" /\ consent = NoPatch
    /\ consent' \in Patch
    /\ phase' \in {"settled"} \union
                  (IF consent' = shown THEN {"writing"} ELSE {})
    /\ UNCHANGED <<tree, others, origin, shown>>

Write(f) ==
    /\ phase = "writing" /\ consent = shown
    /\ shown.post[f] # Absent
    /\ tree' = [tree EXCEPT ![f] = shown.post[f]]
    /\ UNCHANGED <<others, origin, shown, consent, phase>>

Withdraw ==
    /\ phase = "writing" /\ phase' = "withdrawing"
    /\ UNCHANGED <<tree, others, origin, shown, consent>>

TakeBack(f) ==
    /\ phase = "withdrawing"
    /\ tree' = [tree EXCEPT ![f] = origin[f]]
    /\ UNCHANGED <<others, origin, shown, consent, phase>>

Settle ==
    /\ phase' = "settled"
    /\ UNCHANGED <<tree, others, origin, shown, consent>>

OthersMove ==
    /\ others' = others + 1
    /\ tree' \in Tree
    /\ UNCHANGED <<origin, shown, consent, phase>>

Next ==
    \/ Look \/ Show \/ Consent \/ Withdraw \/ Settle \/ OthersMove
    \/ \E f \in Files : Write(f) \/ TakeBack(f)

Spec == Init /\ [][Next]_vars
=============================================================================
