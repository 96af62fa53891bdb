-------------------------- MODULE MCMiniAPLNested --------------------------
(***************************************************************************)
(* The result of "exp" as the argument of another call.                    *)
(***************************************************************************)
EXTENDS MiniAPL

MCPrograms ==
    {<<Assign("A", Call("mkArray", << >>, <<1, 2, 7, 8>>)),
      Evaluation(Call("neg", <<Call("exp", <<Variable("A")>>, <<2>>)>>, << >>))>>}
=============================================================================
