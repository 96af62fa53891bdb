----------------------------- MODULE MCExpZero -----------------------------
(***************************************************************************)
(* An array with an even integer to the power of zero, which README.md     *)
(* allows: "`power` shall be greater than or equal to `0`".                *)
(***************************************************************************)
EXTENDS Exp

MCInputs == {<<<<2, 3>>, 0>>}
============================================================================
