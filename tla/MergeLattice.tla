---------------------------- MODULE MergeLattice ----------------------------
(***************************************************************************)
(* MergeLattice::make (Lattice.cpp): the BuildMergeLattice visitor walks   *)
(* the set expression of a ForAll, one action per visited node.            *)
(***************************************************************************)
EXTENDS Lattice

CONSTANT Inputs      \* the right-hand sides of the assignments to compile

(* What dominates assumes of the points ("Assumes both points contain only  *)
(* unique iterators", Lattice.h) it can only assume of assignments that     *)
(* read no array twice.                                                     *)
ASSUME InputsAssumption == \A e \in Inputs : IsExpression(e) /\ ReadsOnce(e)

VARIABLES
    rhs,             \* the right-hand side that is compiled
    sexpr,           \* convert(rhs), the set expression of the ForAll
    node,            \* the position in sexpr of the next node to visit
    stack            \* the lattices saved by the pending visits

visitorvars == <<rhs, sexpr, node, stack>>

VisitorInit ==
    /\ rhs \in Inputs
    /\ sexpr = Convert(rhs)
    /\ node = 1
    /\ stack = << >>

Visiting(op) == node <= Len(sexpr) /\ sexpr[node].op = op

(* Faulty variant: the node is visited again. *)
VisitAgain ==
    /\ stack' = VisitNode(stack, sexpr[node])
    /\ UNCHANGED <<rhs, sexpr, node>>

Visit ==
    /\ stack' = VisitNode(stack, sexpr[node])
    /\ node' = node + 1
    /\ UNCHANGED <<rhs, sexpr>>

VisitArrayDim     == Visiting("dim") /\ Visit
VisitUnion        == Visiting("union") /\ Visit
VisitIntersection == Visiting("intersection") /\ Visit

(* The visitor returns to make, which returns the lattice of the root.      *)
ReturnLattice == node > Len(sexpr) /\ UNCHANGED visitorvars

VisitorNext == VisitArrayDim \/ VisitUnion \/ VisitIntersection \/ ReturnLattice

VisitorSpec == VisitorInit /\ [][VisitorNext]_visitorvars

-----------------------------------------------------------------------------
Built == node > Len(sexpr)

(* The sub-expression a lattice of the stack was built for: the expression  *)
(* of its first point.                                                      *)
SubExpression(n) == stack[n][1].expr

(* The shape of the visitor's state.                                        *)
VisitorTypeOK ==
    /\ rhs \in Inputs
    /\ node \in 1..(Len(sexpr) + 1)
    /\ Len(stack) <= node - 1
    /\ \A n \in DOMAIN stack :
          \A k \in DOMAIN stack[n] :
              /\ Its(stack[n][k]) \subseteq Operands(rhs)
              /\ Operands(stack[n][k].expr) \subseteq Operands(rhs)

(* The lattices on the stack stand for consecutive parts of the right-hand  *)
(* side, and together for all that has been visited: the visitor's saved    *)
(* copies never mix up the operands of a node, nor their order.             *)
StackCoversVisited ==
    LET covered[n \in 0..Len(stack)] == IF n = 0 THEN << >> ELSE covered[n - 1] \o SubExpression(n)
    IN  /\ covered[Len(stack)] = SubSeq(rhs, 1, node - 1)
        /\ Built => Len(stack) = 1

(* No point iterates over an array twice, which is what dominates assumes   *)
(* (Lattice.cpp, comment at dominates) and IncrementIterator relies on: an  *)
(* iterator that occurs twice in a point is advanced twice in an iteration. *)
IteratorsUnique ==
    \A n \in DOMAIN stack : UniqueIterators(stack[n]) /\ ReadsItsIterators(stack[n])

(* The order of the points is the order of the loops and of the branches of *)
(* each if: a loop must run while any larger set of arrays is done, and the *)
(* first branch whose arrays all match must be the one with the most of     *)
(* them.                                                                    *)
LoopsInLatticeOrder ==
    \A n \in DOMAIN stack : JoinClosed(stack[n]) /\ DominatingFirst(stack[n])

(* At every coordinate the largest point whose arrays are all present has   *)
(* the right-hand side simplified "to remove any vectors that become zero"  *)
(* (Lattice.cpp, comment at add_body), and where no point applies the       *)
(* result is zero.                                                          *)
PointsComplete ==
    \A n \in DOMAIN stack : Complete(stack[n], SubExpression(n))

(* Among the sub-points of a point, visited in the order of the lattice,    *)
(* the first whose arrays are all present is the largest such sub-point:    *)
(* the if / else if chain that Lower.cpp makes of them takes the right one. *)
FirstMatchIsLargest ==
    \A n \in DOMAIN stack : \A k \in DOMAIN stack[n] : \A S \in SUBSET Its(stack[n][k]) :
        \A j \in SubPoints(stack[n], k) :
            /\ Its(stack[n][j]) \subseteq S
            /\ \A m \in SubPoints(stack[n], k) : Its(stack[n][m]) \subseteq S => j <= m
            => LargestWithin(stack[n], S, j)

=============================================================================
