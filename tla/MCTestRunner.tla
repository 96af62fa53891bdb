---------------------------- MODULE MCTestRunner ----------------------------
(***************************************************************************)
(* One process that calls compile_and_test, round after round, for three   *)
(* tests, two of them with the same parameters, and two builds of the      *)
(* compiler.                                                               *)
(***************************************************************************)
EXTENDS TestRunner

MCTests == {"test0", "test1", "test2"}
MCBuilds == {"old", "new"}
MCSignature == [t \in MCTests |-> IF t = "test1" THEN "ABCD" ELSE "ABC"]
=============================================================================
