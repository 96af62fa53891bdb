----------------------------- MODULE MCKernelC -----------------------------
(***************************************************************************)
(* The lowered code of all the right-hand sides of at most two reads of    *)
(* one or two arrays, in all formats, supported or not, and in place when  *)
(* all are dense; and of the nested ones of three reads in the formats     *)
(* that give mixed points.                                                 *)
(***************************************************************************)
EXTENDS KernelC

Lowered(lhs, e, dense) == [lhs |-> lhs, rhs |-> e, dense |-> dense, points |-> Make(Convert(e))]

Pairs == {Lowered("A", e, dense) : e \in ExprsOver({"B", "C"}, 2), dense \in SUBSET {"A", "B", "C"}}

InPlace == {Lowered("B", e, {"B", "C"}) : e \in ExprsOver({"B", "C"}, 2)}

Triples == {Lowered("A", e, dense) : e \in ExprsNamed(<<"B", "C", "D">>), dense \in {{"A"}, {"A", "D"}}}

MCPrograms == Pairs \cup {p \in InPlace : "B" \in Operands(p.rhs)} \cup Triples
============================================================================
