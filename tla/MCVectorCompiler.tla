-------------------------- MODULE MCVectorCompiler --------------------------
(***************************************************************************)
(* The lattices and the kernels of the right-hand sides of at most three   *)
(* reads, each of an array of its own, with all the formats that are       *)
(* supported, run on all the coordinates the operands can have; those of   *)
(* four and five reads with all arrays dense; and the assignments in place *)
(* to one of the operands, all of them dense.                              *)
(***************************************************************************)
EXTENDS VectorCompiler

Cases == ExprsNamed(<<"B", "C", "D">>) \X SUBSET {"A", "B", "C", "D"}

InPlace == {Lowered("B", e, Operands(e)) : e \in ExprsNamed(<<"B", "C", "D">>)}

Dense == {Lowered("A", e, {"A"} \cup Operands(e)) : e \in ExprsNamed(<<"B", "C", "D", "E", "F">>)}

MCPrograms ==
    InPlace \cup Dense \cup
    {Lowered("A", k[1], k[2]) :
        k \in {q \in Cases : /\ q[2] \subseteq {"A"} \cup Operands(q[1])
                              /\ Supported(Lowered("A", q[1], q[2]))}}

MCInputs == {p.rhs : p \in MCPrograms}
=============================================================================
