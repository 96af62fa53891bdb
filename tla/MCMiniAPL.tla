----------------------------- MODULE MCMiniAPL -----------------------------
(***************************************************************************)
(* Programs of three statements.  The first makes an array A; the second   *)
(* evaluates a call on A, or assigns one, or an alias of A, to B, or an    *)
(* array of the same dimensions to A again; the third evaluates or assigns *)
(* a call on A or B that may have another one as an argument; the result   *)
(* of "exp" is an argument of "exp" only.  In some programs more A is      *)
(* assigned arrays of two shapes, and is used, or a C that has one.        *)
(***************************************************************************)
EXTENDS MiniAPL

A == Variable("A")
B == Variable("B")
C == Variable("C")

MkArray(dims) == Call("mkArray", << >>, <<Len(dims)>> \o dims \o [n \in 1..Cells(dims) |-> n])
Neg(x)        == Call("neg", <<x>>, << >>)
Expand(x)     == Call("expand", <<x>>, <<2>>)
Exp(x)        == Call("exp", <<x>>, <<2>>)
PrintCall(x)  == Call("print", <<x>>, << >>)

Binary(x, y) == {Call("add", <<x, y>>, << >>), Call("concat", <<x, y>>, <<0>>)}

(* The calls on x alone; reduce leaves an array of at least one dimension.  *)
Calls(x, dimension) ==
    {Neg(x), Expand(x)} \cup Binary(x, x)
        \cup (IF dimension > 1 THEN {Call("reduce", <<x>>, << >>)} ELSE {})

SameShape == {A, Neg(A), Exp(A)}

SecondStatements(d) ==
    {Evaluation(e) : e \in Calls(A, Len(d)) \cup {Exp(A), PrintCall(A)}}
        \cup {Assign("B", e) : e \in SameShape \cup {Expand(A)} \cup Binary(A, A)}
        \cup {Assign("A", e) : e \in {MkArray(d), Neg(A)}}

ThirdStatements(d, second) ==
    LET x == IF second.name = "B" THEN B ELSE A
        nested == UNION {{Neg(e), Expand(e), Exp(e)} : e \in Calls(x, Len(d))}
                    \cup Binary(Neg(x), x) \cup {PrintCall(Neg(x))}
                    \cup {Exp(Exp(x)), Exp(Exp(Neg(x)))}
                    \cup (IF second.rhs \in SameShape THEN Binary(x, A) \cup Binary(A, Neg(x)) ELSE {})
    IN  {Evaluation(e) : e \in {x, Exp(x), PrintCall(x)} \cup nested}
            \cup {Assign("B", e) : e \in nested}

Reshaping ==
    {<<Assign("A", MkArray(d[1])), Assign("C", MkArray(d[2])), Assign("A", MkArray(d[3])), last>> :
        d \in {s \in [1..3 -> {<<2>>, <<3>>, <<1, 2>>}] : s[1] # s[3]},
        last \in {Evaluation(e) : e \in {Neg(A), Expand(C), Exp(Neg(C))} \cup Binary(C, C)}}

MCPrograms ==
    Reshaping \cup
    UNION {UNION {{<<Assign("A", MkArray(d)), second, third>> : third \in ThirdStatements(d, second)} :
                      second \in SecondStatements(d)} : d \in {<<2>>, <<1, 2>>}}
=============================================================================
