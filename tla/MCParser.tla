------------------------------ MODULE MCParser ------------------------------
(***************************************************************************)
(* The texts of some programs of the grammar, with every way to leave out, *)
(* replace or insert one character, and all texts of up to four            *)
(* characters.                                                             *)
(***************************************************************************)
EXTENDS Parser

A == <<"a">>
F == <<"f">>

Characters == {"a", "f", "1", "assign", Blank} \cup Symbols

Leaves == {<<Variable(A)>>, <<Number(<<"1", "0">>)>>}

(* Calls of at most two arguments, nested at most twice. *)
Flat == {<<Call(F, 0)>>} \cup {e \o <<Call(F, 1)>> : e \in Leaves}
            \cup {d \o e \o <<Call(F, 2)>> : d, e \in Leaves}

Nested == {e \o <<Call(F, 1)>> : e \in Flat}
            \cup UNION {{d \o e \o <<Call(F, 2)>>, e \o d \o <<Call(F, 2)>>} : d \in Leaves, e \in Flat}
            \cup {d \o e \o <<Call(F, 2)>> : d, e \in Flat}

Deep == {e \o <<Call(F, 1), Call(F, 1)>> : e \in Flat}

Evaluation(e) == [name |-> NoName, value |-> e]
Assign(e)     == [name |-> A, value |-> e]

(* The longest number, and a word of digits that is longer. *)
Digits(n) == [k \in 1..n |-> "1"]
Long      == {<<Number(Digits(MaxDigits))>>, <<Variable(Digits(MaxDigits + 1))>>}

Sources ==
    {<<Evaluation(e)>> : e \in Leaves \cup Long \cup Flat \cup Nested \cup Deep}
        \cup {<<Assign(e)>> : e \in Leaves \cup Flat}
        \cup {<<Assign(d), Evaluation(e)>> : d, e \in Leaves}
        \cup {<<Evaluation(d), Assign(e)>> : d, e \in Leaves}

(* The edited ones: one of each shape. *)
Edited ==
    LET a == <<Variable(A)>>
        f == a \o a \o <<Call(F, 2)>>
    IN  {TextOf(p) : p \in {<<Evaluation(f)>>, <<Evaluation(f \o a \o <<Call(F, 2)>>)>>,
                            <<Evaluation(a \o f \o <<Call(F, 2)>>)>>,
                            <<Assign(a \o <<Call(F, 1)>>), Evaluation(a)>>,
                            <<Assign(a \o <<Call(F, 1), Call(F, 1)>>), Evaluation(a \o <<Call(F, 1)>>)>>}}

Edits(t) ==
    {RemoveAt(t, n) : n \in DOMAIN t}
        \cup {[t EXCEPT ![n] = ch] : n \in DOMAIN t, ch \in Characters}
        \cup {InsertAt(t, n, ch) : n \in 1..(Len(t) + 1), ch \in Characters}

Short == UNION {[1..n -> Characters] : n \in 0..4}

(* A comma may follow the last argument; edited, it follows another one. *)
CommaBehind == {<<"f", "(", "a", ",", ")", ";">>}

Texts == Short \cup UNION {Edits(t) : t \in Edited \cup CommaBehind}

MCInputs ==
    {[text |-> TextOf(p), source |-> p] : p \in Sources}
        \cup {[text |-> t, source |-> Unknown] : t \in Texts}
=============================================================================
