------------------------ MODULE MCTestRunnerParallel ------------------------
(***************************************************************************)
(* Two processes in one directory, as `make -j bin/test0 bin/test2' starts *)
(* them; the kernels of the two tests have the same parameters.            *)
(***************************************************************************)
EXTENDS TestRunner

MCTests == {"test0", "test2"}
MCBuilds == {"new"}
MCSignature == [t \in MCTests |-> "ABC"]
=============================================================================
