--------------------------- MODULE AnsweredCommand ---------------------------
(***************************************************************************)
(* What runSpec promises the check that calls it, and nothing of how it is *)
(* done.  A command says bytes and ends, in either order; what it says is  *)
(* heard, in one order that is never revised; and there is one answer.     *)
(* The answer waits for the end and for the last byte, is the beginning of *)
(* what was heard with the count of all of it, and passes only a command   *)
(* that ended well and that nobody stopped.  After it nothing happens.     *)
(***************************************************************************)
EXTENDS Naturals, Sequences

CONSTANTS
    Limit,      \* how much of the output an answer holds
    None        \* no answer yet

VARIABLES
    said,       \* how many bytes the command has said
    heard,      \* those that have been published, in that order
    end,        \* how it ended: none, zero, other
    asked,      \* its caller has asked it to stop
    answer

vars == <<said, heard, end, asked, answer>>

Init ==
    /\ said = 0 /\ heard = <<>> /\ end = "none"
    /\ asked \in BOOLEAN /\ answer = None

Open == answer = None

Say ==
    /\ Open /\ said' = said + 1
    /\ UNCHANGED <<heard, end, asked, answer>>

\* More of what was said is heard, and after what was heard before.
Hear ==
    /\ Open
    /\ heard' \in Seq(Nat) /\ Len(heard') \in Len(heard)..said
    /\ \A i \in 1..Len(heard) : heard'[i] = heard[i]
    /\ UNCHANGED <<said, end, asked, answer>>

End ==
    /\ Open /\ end = "none" /\ end' \in {"zero", "other"}
    /\ UNCHANGED <<said, heard, asked, answer>>

Ask ==
    /\ Open /\ ~asked /\ asked'
    /\ UNCHANGED <<said, heard, end, answer>>

\* What was heard, as an answer has it.
Retained == SubSeq(heard, 1, IF Limit < Len(heard) THEN Limit ELSE Len(heard))
Reply(status, reason) ==
    [status |-> status, reason |-> reason, output |-> Retained, total |-> Len(heard),
     truncated |-> Len(heard) > Limit, after |-> Len(heard)]

\* There is nothing to run: it never said anything.
Refuse ==
    /\ Open /\ said = 0 /\ end = "none"
    /\ \E reason \in {"refused", "not started"} : answer' = Reply("ERROR", reason)
    /\ UNCHANGED <<said, heard, end, asked>>

Over == end # "none" /\ Len(heard) = said

Complete ==
    /\ Open /\ Over
    /\ answer' = Reply(IF end = "zero" THEN "PASS" ELSE "FAIL", "completed")
    /\ UNCHANGED <<said, heard, end, asked>>

\* It was stopped, at the caller's wish or for its time; however it ended.
Stop ==
    /\ Open /\ Over
    /\ \E reason \in {"cancelled", "hard_timeout", "inactivity_timeout"} :
          /\ reason = "cancelled" => asked
          /\ answer' = Reply("ERROR", reason)
    /\ UNCHANGED <<said, heard, end, asked>>

Next == Say \/ Hear \/ End \/ Ask \/ Refuse \/ Complete \/ Stop

Spec == Init /\ [][Next]_vars
=============================================================================
