----------------------------- MODULE MCJsonText -----------------------------
(* Every short text, with every flag; short texts of plain lexemes, a handler that       *)
(* stops among them; and texts of nested containers with one lexeme replaced.            *)
EXTENDS JsonHandlers

MCLeftover == {<<"Element", 2>>}

PlainOnes == <<"[", "]", "{", "}", ",", ":", "string", "scalar">>
Plain     == Range(PlainOnes)

All(lexemes, n, comments, trailing, stop, refuse) ==
  [text : [1..n -> lexemes], comments : comments, trailing : trailing, stop : stop, refuse : refuse]

Listed(items) == {<<>>} \cup items \cup {x \o <<",">> \o y : x \in items, y \in items}
Around(items) == {<<"[">> \o l \o <<"]">> : l \in Listed(items)}
            \cup {<<"{">> \o l \o <<"}">> : l \in Listed({<<"string", ":">> \o x : x \in items})}
Nested == Around({<<"string">>} \cup Around({<<"scalar">>}))

Damaged(lexeme) ==
  {[text |-> [t EXCEPT ![i] = lexeme], comments |-> FALSE, trailing |-> trailing, stop |-> FALSE,
    refuse |-> 0] : <<t, i, trailing>> \in UNION {{t} \X (DOMAIN t) \X BOOLEAN : t \in Nested}}

MCJobs ==
     [n \in 1..5 |-> All(Plain, n, {FALSE}, BOOLEAN, {FALSE}, {0})]
  \o [n \in 1..4 |-> All(Lexeme, n - 1, BOOLEAN, BOOLEAN, BOOLEAN, {0})]
  \o [n \in 1..4 |-> All(Plain, n, {FALSE}, {TRUE}, {TRUE}, 1..3)]
  \o [n \in 1..8 |-> Damaged(PlainOnes[n])]

\* Texts in which a comment is not finished.
MCBroken == [n \in 1..4 |-> All({"[", "]", ",", "scalar", "slash"}, n, {TRUE}, BOOLEAN, {FALSE}, {0})]

=============================================================================
