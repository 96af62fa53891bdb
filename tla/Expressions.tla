---------------------------- MODULE Expressions ----------------------------
(***************************************************************************)
(* The expressions of the vector compiler: the front-end expressions of    *)
(* Expr.h (ArrayRead, Add, Mul) and the set expressions of SetExpr.h       *)
(* (ArrayDim, Union, Intersection) that Lower.cpp converts them to.        *)
(*                                                                         *)
(* A tree is written in postfix order, the order in which every visitor of *)
(* the compiler reaches the nodes it acts on (operand a, operand b, then   *)
(* the node): B(i) + C(i) is << Read("B"), Read("C"), Add >>.              *)
(***************************************************************************)
EXTENDS Naturals, Sequences, FiniteSets, SequencesExt

Read(x) == [op |-> "read", name |-> x]
Add     == [op |-> "add"]
Mul     == [op |-> "mul"]

Dim(x)       == [op |-> "dim", name |-> x]
Union        == [op |-> "union"]
Intersection == [op |-> "intersection"]

(* operator+ and operator* on expressions. *)
Plus(a, b)  == a \o b \o <<Add>>
Times(a, b) == a \o b \o <<Mul>>

(* The arrays an expression reads. *)
Operands(e) == {e[n].name : n \in {m \in DOMAIN e : e[m].op = "read"}}

(* No array is read twice. *)
ReadsOnce(e) ==
    \A m, n \in DOMAIN e :
        e[m].op = "read" /\ e[m] = e[n] => m = n

(* How many of the first n tokens are reads. *)
ReadsBefore(e, n) == Cardinality({m \in 1..n : e[m].op = "read"})

(* The sequences of tokens that the constructors of Expr.h can make: the    *)
(* operands of each operator are there before it, and one tree remains.     *)
IsExpression(e) ==
    /\ e \in Seq({Add, Mul} \cup {Read(x) : x \in Operands(e)})
    /\ Len(e) = 2 * ReadsBefore(e, Len(e)) - 1
    /\ \A n \in DOMAIN e : n < 2 * ReadsBefore(e, n)

(***************************************************************************)
(* convert: an addition iterates over the union of its operands'           *)
(* coordinates, a multiplication over their intersection.                  *)
(***************************************************************************)
Convert(e) ==
    [n \in DOMAIN e |->
        CASE e[n].op = "add"  -> Union
          [] e[n].op = "mul"  -> Intersection
          [] e[n].op = "read" -> Dim(e[n].name)]

(***************************************************************************)
(* The reference meaning of an expression at one coordinate.  When only    *)
(* the arrays in S store a value there, the others are zero, and the       *)
(* expression is what remains after the zeros have been removed; Zero is   *)
(* the expression of which nothing remains.                                *)
(***************************************************************************)
Zero == << >>

SimplifyStep(S, stack, token) ==
    LET n == Len(stack)
        a == stack[n - 1]
        b == stack[n]
        rest == SubSeq(stack, 1, n - 2)
    IN  CASE token.op = "read" -> Append(stack, IF token.name \in S THEN <<token>> ELSE Zero)
          [] token.op = "add"  -> Append(rest, IF a = Zero THEN b
                                               ELSE IF b = Zero THEN a
                                               ELSE a \o b \o <<token>>)
          [] token.op = "mul"  -> Append(rest, IF a = Zero \/ b = Zero THEN Zero
                                               ELSE a \o b \o <<token>>)

Simplify(e, S) ==
    LET stack[n \in 0..Len(e)] ==
            IF n = 0 THEN << >> ELSE SimplifyStep(S, stack[n - 1], e[n])
    IN  stack[Len(e)][1]

(***************************************************************************)
(* Enumerations of expressions for model checking: all those of at most    *)
(* max reads over a set of names, and the same trees with their reads      *)
(* named in order by a sequence of names (arrays are interchangeable).     *)
(***************************************************************************)
ExprsOver(names, max) ==
    LET exprs[n \in 1..max] ==
            IF n = 1
            THEN {<<Read(x)>> : x \in names}
            ELSE UNION {UNION {{Plus(a, b), Times(a, b)} : a \in exprs[k], b \in exprs[n - k]} :
                            k \in 1..(n - 1)}
    IN  UNION {exprs[n] : n \in 1..max}

Named(e, names) ==
    [n \in DOMAIN e |-> IF e[n].op = "read" THEN Read(names[ReadsBefore(e, n)]) ELSE e[n]]

ExprsNamed(names) == {Named(e, names) : e \in ExprsOver({names[1]}, Len(names))}
============================================================================
