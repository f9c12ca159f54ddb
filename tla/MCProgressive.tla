--------------------------- MODULE MCProgressive ---------------------------
(***************************************************************************)
(* Small instances of progressive retrieval: every report of up to four    *)
(* checks of five kinds, short or long, and every log of up to four lines  *)
(* of one failed check, where a page has three bytes or two items.         *)
(***************************************************************************)
EXTENDS Progressive

Four == 1..4

K(status, blocking, text, findings, paths, log, part) ==
    [status |-> status, blocking |-> blocking, text |-> text, findings |-> findings,
     paths |-> paths, log |-> log, outputTruncated |-> part]

Short == <<"t", "n", "t", "t", "n">>
Long == <<"t", "n", "t", "n", "t", "n", "t", "n", "t", "n", "t", "n", "t", "n">>

Kinds == {K("PASS", FALSE, 2, <<>>, 0, None, FALSE), K("WARN", FALSE, 1, <<1>>, 0, None, FALSE),
          K("WARN", TRUE, 5, <<1, 2, 5>>, 1, None, FALSE), K("FAIL", TRUE, 1, <<>>, 3, Short, TRUE),
          K("FAIL", TRUE, 1, <<1, 1, 1>>, 3, None, FALSE)}

R(base, kinds) ==
    LET failed == \E i \in DOMAIN kinds : kinds[i].blocking
    IN  [stored |-> TRUE, base |-> base,
         overall |-> IF failed THEN "FAIL" ELSE "PASS", code |-> IF failed THEN 1 ELSE 0,
         checks |-> [i \in DOMAIN kinds |-> [id |-> i] @@ kinds[i]]]

Lines == {<<"t", "n">>, <<"t", "t", "t", "n">>, <<"B", "b", "n">>, <<"E", "e", "n">>}

\* A key that begins and ends in a line, and one that begins where another ends.
Turns == {<<"B", "b", "E", "e", "n">>, <<"E", "e", "B", "b", "n">>}

\* The last line may lack its end.
RawLogs ==
    LET whole == {FlattenSeq(s) : s \in (SeqOf(Lines, 4) \union SeqOf(Lines \union Turns, 3)) \ {<<>>}}
    IN  whole \union {Front(l) : l \in whole} \union {Long, Short}

Retrieved ==
    {R(base, kinds) : base \in {2, 5, 8}, kinds \in SeqOf(Kinds, 4)}
    \union {R(2, <<K("FAIL", TRUE, 1, <<1>>, 0, log, FALSE)>>) : log \in RawLogs}

Q(bytes, version, operation, id) ==
    [bytes |-> bytes, form |-> "strict", version |-> version, id |-> id,
     operation |-> operation, project |-> "fit"]
Asked == {Q(2, "1", "verify", "fit"), Q(9, "1", "verify", "fit"), Q(2, "2", "verify", "fit"),
          Q(2, "1", "repair", "fit"), Q(2, "1", "verify", "unfit")}
=============================================================================
