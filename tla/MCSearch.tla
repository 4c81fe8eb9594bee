------------------------------ MODULE MCSearch ------------------------------
(* Instances of SearchEngine for TLC. *)
EXTENDS SearchEngine

Words == {"a", "b", "c", "d"}
Docs == <<"w", "x", "y", "z">>
Names == Words \cup {"w", "x", "y", "z"}

\* In one bucket all collide; in nine, a and c do, and w and x.
Hash(name) ==
    CASE name = "a" -> 1 [] name = "b" -> 5 [] name = "c" -> 10 [] name = "d" -> 3
      [] name = "w" -> 20 [] name = "x" -> 29 [] name = "y" -> 30 [] name = "z" -> 42

NameLength(name) == IF name \in Words THEN 2 ELSE 3

Text(words) == [words |-> words, closed |-> TRUE]
Open(words) == [words |-> words, closed |-> FALSE]

\* The third word of the third text is the fourth word of the index, which then
\* grows, and the fourth document makes the other tables grow.
Texts == {Text(<<"a", "b">>), Text(<<"b", "c", "b">>), Text(<<"c", "d", "a">>),
          Open(<<"b", "a">>), Open(<<"a">>)}

\* No two of the first three words are in one file.
FewTexts == {Text(<<"a">>), Text(<<"b">>), Text(<<"c">>)}
=============================================================================
