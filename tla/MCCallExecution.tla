-------------------------- MODULE MCCallExecution --------------------------
(***************************************************************************)
(* Calls on arrays of at most three dimensions (at most two for "expand"), *)
(* each of length one to three, with the types of fresh arrays and with    *)
(* fields that earlier calls have left; mkArray with any number of values  *)
(* up to ten, fitting or not.  exp of arrays of two integers of four bits  *)
(* to all the positive powers, and of odd integers also to the power of    *)
(* zero, for which the loop runs 2^Width times and arrives at the right    *)
(* result.                                                                 *)
(***************************************************************************)
EXTENDS CallExecution

Shapes(n) == [1..n -> 1..3]

(* The type of an array that reduce, expand and concat have worked on.      *)
LeftOver(dims) ==
    [OfDimensions(dims) EXCEPT !.innermost_dimension = 5, !.concat_dim1 = 2,
                               !.concat_dim2 = 3, !.dim_to_concat = 1]

Typed(callee, types, scalars) == [callee |-> callee, types |-> types, scalars |-> scalars]

Call(callee, dims, scalars) ==
    {Typed(callee, [n \in DOMAIN dims |-> OfDimensions(dims[n])], scalars),
     Typed(callee, [n \in DOMAIN dims |-> LeftOver(dims[n])], scalars)}

(* The second array of a "concat" may have another length along dim.        *)
Along(s, dim) == {[s EXCEPT ![dim + 1] = m] : m \in 1..3}

Concats(shapes, dim) == UNION {UNION {Call("concat", <<s, t>>, <<dim>>) : t \in Along(s, dim)} : s \in shapes}

MCCalls ==
    LET shapes == Shapes(1) \cup Shapes(2) \cup Shapes(3)
    IN       {Typed("mkArray", << >>, <<Len(s)>> \o s \o [n \in 1..m |-> 7]) :
                     s \in Shapes(1) \cup Shapes(2), m \in 0..10}
        \cup UNION {Call("neg", <<s>>, << >>) : s \in shapes}
        \cup UNION {Call("exp", <<s>>, <<p>>) : s \in {<<2>>, <<1, 2>>}, p \in Words}
        \cup UNION {Call("add", <<s, s>>, << >>) : s \in shapes}
        \cup {Typed("sub", <<OfDimensions(s), LeftOver(s)>>, << >>) : s \in shapes}
        \cup UNION {Call("reduce", <<s>>, << >>) : s \in shapes \ Shapes(1)}
        \cup UNION {Call("expand", <<s>>, <<m>>) : s \in Shapes(1) \cup Shapes(2), m \in 1..3}
        \cup Concats(shapes, 0) \cup Concats(shapes \ Shapes(1), 1) \cup Concats(Shapes(3), 2)

MCInputs ==
    {<<v, p>> : v \in [1..2 -> {0, 1, 2, 3, 6, 15}], p \in Words \ {0}}
        \cup {<<v, 0>> : v \in [1..2 -> {n \in Words : n % 2 = 1}]}
        \cup {<<<< >>, 0>>}

(* The hypothesis of a theorem of CallProofs. *)
ASSUME ZeroPowersAreOnes == ZeroPowersOK
============================================================================
