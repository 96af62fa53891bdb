---------------------------- MODULE VectorAssign ----------------------------
(***************************************************************************)
(* What the kernel of an assignment promises to its caller: the result is  *)
(* computed coordinate by coordinate, in ascending order, each coordinate  *)
(* at most once, and in the end every coordinate has its value.            *)
(***************************************************************************)
EXTENDS Naturals

CONSTANTS
    N,           \* the dimension of the arrays
    Untouched    \* the value of a cell the caller has initialised to zero

VARIABLES
    wanted,      \* the value the assignment gives to each coordinate
    result,      \* the result array
    next,        \* the coordinates below next are settled
    returned

vars == <<wanted, result, next, returned>>

Coords == 0..(N - 1)

Init ==
    /\ DOMAIN wanted = Coords
    /\ result = [c \in Coords |-> Untouched]
    /\ next = 0
    /\ returned = FALSE

(* Only coordinates at which the value is zero are passed over. *)
Passes(c) == \A d \in next..(c - 1) : wanted[d] = Untouched

Settle(c) ==
    /\ ~returned
    /\ next <= c
    /\ Passes(c)
    /\ result' = [result EXCEPT ![c] = wanted[c]]
    /\ next' = c + 1
    /\ UNCHANGED <<wanted, returned>>

Finish ==
    /\ ~returned
    /\ Passes(N)
    /\ returned' = TRUE
    /\ UNCHANGED <<wanted, result, next>>

Next == Finish \/ \E c \in Coords : Settle(c)

Spec == Init /\ [][Next]_vars
=============================================================================
