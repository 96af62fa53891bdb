------------------------ MODULE MCMiniAPLEvaluation -------------------------
(***************************************************************************)
(* The evaluation of a variable.                                           *)
(***************************************************************************)
EXTENDS MiniAPL

MCPrograms ==
    {<<Assign("A", Call("mkArray", << >>, <<1, 2, 7, 8>>)),
      Evaluation(Variable("A"))>>}
=============================================================================
