------------------------ MODULE MCMiniAPLReassigned -------------------------
(***************************************************************************)
(* A variable that is assigned arrays of two lengths.                      *)
(***************************************************************************)
EXTENDS MiniAPL

MCPrograms ==
    {<<Assign("A", Call("mkArray", << >>, <<1, 2, 7, 8>>)),
      Assign("A", Call("mkArray", << >>, <<1, 3, 7, 8, 9>>)),
      Evaluation(Call("neg", <<Variable("A")>>, << >>))>>}
=============================================================================
