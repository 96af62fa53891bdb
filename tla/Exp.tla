-------------------------------- MODULE Exp --------------------------------
(***************************************************************************)
(* The loop that MiniAPL generates for exp(<array>, power), run on vectors *)
(* of Width-bit integers: a block `loop' that is entered from the block    *)
(* before it and tests its condition at its end, and a block `afterloop'.  *)
(***************************************************************************)
EXTENDS Integers, Sequences

CONSTANTS
    Width,       \* the width of an integer, 32 in the code
    Inputs       \* the pairs of an array (flattened) and a power

Modulus == 2 ^ Width
Words   == 0..(Modulus - 1)

ASSUME ModulusAssumption == Modulus \in Nat \ {0, 1}
ASSUME InputsAssumption  == Inputs \subseteq Seq(Words) \X Words

VARIABLES
    arg0,        \* the array
    power,
    block,       \* the block that runs next
    i_, exp_,    \* the phi nodes of the loop
    NextResult,  \* the product in the loop
    alloc        \* the memory of the result

loopvars == <<arg0, power, block, i_, exp_, NextResult, alloc>>

Uninitialised == << >>

LoopInit ==
    /\ \E input \in Inputs : arg0 = input[1] /\ power = input[2]
    /\ block = "preheader"
    /\ i_ = 0
    /\ exp_ = Uninitialised
    /\ NextResult = Uninitialised
    /\ alloc = Uninitialised

-----------------------------------------------------------------------------
(* CreateMul on vectors. *)
Mul(v, w) == [n \in DOMAIN v |-> (v[n] * w[n]) % Modulus]

(* Faulty variant: the product starts with one factor.                      *)
OneFactor == arg0

Ones == [n \in DOMAIN arg0 |-> 1]

(* The branch into the loop: the phi nodes take the incoming values of the  *)
(* preheader.                                                               *)
Enter ==
    /\ block = "preheader"
    /\ block' = "loop"
    /\ i_' = 0
    /\ exp_' = Ones
    /\ UNCHANGED <<arg0, power, NextResult, alloc>>

(* Faulty variants: an index that does not wrap around, and one that stays  *)
(* at its maximum.                                                          *)
NextVarUnbounded == i_ + 1
NextVarSaturating == IF i_ + 1 < Modulus THEN i_ + 1 ELSE i_

NextVar == (i_ + 1) % Modulus

EndCond == NextVar = power

(* The body of the loop and its conditional branch back, with the incoming  *)
(* values of the back edge.                                                 *)
Iterate ==
    /\ block = "loop"
    /\ NextResult' = Mul(exp_, arg0)
    /\ IF EndCond
       THEN block' = "afterloop" /\ UNCHANGED <<i_, exp_>>
       ELSE i_' = NextVar /\ exp_' = NextResult' /\ UNCHANGED block
    /\ UNCHANGED <<arg0, power, alloc>>

(* Faulty variant: the value of the phi node is stored.                     *)
StorePhi ==
    /\ block = "afterloop"
    /\ alloc' = exp_
    /\ block' = "stored"
    /\ UNCHANGED <<arg0, power, i_, exp_, NextResult>>

StoreResult ==
    /\ block = "afterloop"
    /\ alloc' = NextResult
    /\ block' = "stored"
    /\ UNCHANGED <<arg0, power, i_, exp_, NextResult>>

LoopLeft == block = "stored" /\ UNCHANGED loopvars

LoopNext == Enter \/ Iterate \/ StoreResult \/ LoopLeft

LoopSpec == LoopInit /\ [][LoopNext]_loopvars /\ WF_loopvars(LoopNext)

-----------------------------------------------------------------------------
(* b to the power of p, in integers of Width bits.                          *)
Pow(b, p) ==
    LET pow[n \in 0..p] == IF n = 0 THEN 1 ELSE (b * pow[n - 1]) % Modulus
    IN  pow[p]

PowerOf(v, p) == [n \in DOMAIN v |-> Pow(v[n], p)]

(* The condition under which exp is right for a power of zero, for which    *)
(* the loop multiplies Modulus factors: that these come to one.             *)
ZeroPowersOK ==
    \A input \in Inputs : input[2] = 0 => PowerOf(input[1], Modulus) = PowerOf(input[1], 0)

(* The shape of the state.                                                  *)
TypeOK ==
    /\ <<arg0, power>> \in Inputs
    /\ block \in {"preheader", "loop", "afterloop", "stored"}
    /\ i_ \in 0..(Modulus - 1)
    /\ \A v \in {exp_, NextResult, alloc} :
          v = Uninitialised \/ \A n \in DOMAIN arg0 : v[n] \in 0..(Modulus - 1)

(* At the head of the loop the phi nodes belong together: the product has   *)
(* as many factors as the index counts.                                     *)
ProductFollowsIndex ==
    block = "loop" => exp_ = PowerOf(arg0, i_)

(* exp: "Raise every number in the first argument array to the value in the *)
(* scalar that is the second argument" (README.md).                         *)
Raised == block = "stored" => alloc = PowerOf(arg0, power)

(* Once it is entered the loop ends, although it tests for equality at its  *)
(* end only: an index that starts past the power comes round to it.         *)
Ends == block = "loop" ~> block = "stored"
============================================================================
