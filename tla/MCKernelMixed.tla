--------------------------- MODULE MCKernelMixed ---------------------------
(***************************************************************************)
(* The kernel of A(i) = B(i) + C(i) with B compressed and C dense: the     *)
(* point that iterates over C alone has no branch of its own.              *)
(***************************************************************************)
EXTENDS Kernel

MCPrograms == {Lowered("A", <<Read("B"), Read("C"), Add>>, {"A", "C"})}
=============================================================================
