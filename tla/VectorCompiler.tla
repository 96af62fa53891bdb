--------------------------- MODULE VectorCompiler ---------------------------
(***************************************************************************)
(* From the assignment to the result: make builds the merge lattice        *)
(* (MergeLattice), node by node; the kernel that is generated from the     *)
(* points of that lattice, and of no other, then runs (Kernel).            *)
(***************************************************************************)
EXTENDS MergeLattice, Kernel

compilervars == <<visitorvars, vars>>

(* compile: the set expression that is visited is that of the assignment;   *)
(* the kernel is called, with any operands, when it has been compiled.      *)
CompilerInit == Init /\ rhs = prog.rhs /\ VisitorInit

(* compile_and_test: the kernel has the loops of the lattice the visitor    *)
(* has returned.                                                            *)
RunKernel ==
    /\ Built
    /\ stack = <<prog.points>>
    /\ Next
    /\ UNCHANGED visitorvars

BuildLattice == VisitorNext /\ UNCHANGED vars

CompilerNext == BuildLattice \/ RunKernel

CompilerSpec ==
    CompilerInit /\ [][CompilerNext]_compilervars /\ WF_compilervars(CompilerNext)
=============================================================================
