------------------------------ MODULE Lattice ------------------------------
(***************************************************************************)
(* Merge points and merge lattices (Lattice.h, Lattice.cpp).               *)
(*                                                                         *)
(* A merge point has the sequence of the arrays it iterates over and the   *)
(* expression to compute when exactly these arrays have a value; a lattice *)
(* is the sequence of its points, in the order in which Lower.cpp emits    *)
(* one loop for each.                                                      *)
(***************************************************************************)
EXTENDS Expressions

Point(its, e) == [iterators |-> its, expr |-> e]

(* The set of the arrays a point iterates over. *)
Its(p) == {p.iterators[n] : n \in DOMAIN p.iterators}

(* MergePoint::dominates: every iterator of q is an iterator of p. *)
Dominates(p, q) == \A m \in DOMAIN q.iterators : q.iterators[m] \in Its(p)

(* MergePoint::merge, and the expression its callers then give the point;   *)
(* before it, two faulty variants: the operands of the expression swapped,  *)
(* the iterators of p entered again.                                        *)
MergeSwapped(p, q, token) == Point(p.iterators \o q.iterators, q.expr \o p.expr \o <<token>>)
MergeRepeats(p, q, token) ==
    Point(p.iterators \o q.iterators \o p.iterators, p.expr \o q.expr \o <<token>>)

Merge(p, q, token) == Point(p.iterators \o q.iterators, p.expr \o q.expr \o <<token>>)

(* The two nested loops over the points of a and of b: all the pairs, those *)
(* of the first point of a first.                                           *)
MergeAll(a, b, token) ==
    [n \in 1..(Len(a) * Len(b)) |->
        Merge(a[((n - 1) \div Len(b)) + 1], b[((n - 1) % Len(b)) + 1], token)]

(* MergeLattice::merge_intersection. *)
MergeIntersection(a, b) == MergeAll(a, b, Mul)

(* Faulty variants: the points of the operands before the pairs; the points *)
(* of b forgotten.                                                          *)
MergeUnionPairsLast(a, b) == a \o b \o MergeAll(a, b, Add)
MergeUnionForgets(a, b)   == MergeAll(a, b, Add) \o a

(* MergeLattice::merge_union: the pairs, then the points of a, then of b. *)
MergeUnion(a, b) == MergeAll(a, b, Add) \o a \o b

(* MergeLattice::get_sub_points, as positions in the lattice: Lower.cpp     *)
(* visits them in increasing order.                                         *)
SubPoints(points, k) == {j \in DOMAIN points : Dominates(points[k], points[j])}

(* BuildMergeLattice::visit(ArrayDim): one point, the array itself. *)
DimLattice(x) == <<Point(<<x>>, <<Read(x)>>)>>

(***************************************************************************)
(* The BuildMergeLattice visitor: what a visit of a node of the set        *)
(* expression does to the lattices of the nodes visited before it.  The    *)
(* field `lattice' and the locals a_lattice and b_lattice of the pending   *)
(* visits are one stack: a visit pushes the value it leaves in the field,  *)
(* a binary node takes the two topmost.                                    *)
(***************************************************************************)
VisitNode(stack, node) ==
    LET n == Len(stack)
        a_lattice == stack[n - 1]
        b_lattice == stack[n]
        pending == SubSeq(stack, 1, n - 2)
    IN  CASE node.op = "dim"          -> Append(stack, DimLattice(node.name))
          [] node.op = "union"        -> Append(pending, MergeUnion(a_lattice, b_lattice))
          [] node.op = "intersection" -> Append(pending, MergeIntersection(a_lattice, b_lattice))

(* MergeLattice::make. *)
Make(sexpr) ==
    LET stack[n \in 0..Len(sexpr)] ==
            IF n = 0 THEN << >> ELSE VisitNode(stack[n - 1], sexpr[n])
    IN  stack[Len(sexpr)][1]

-----------------------------------------------------------------------------
(***************************************************************************)
(* What a lattice has to satisfy for the loops generated from it to be     *)
(* right (proved in KernelProofs).                                         *)
(***************************************************************************)

(* The lattices of expressions over a set of arrays. *)
Tokens(names) == {Add, Mul} \cup {Read(x) : x \in names}
LatticesOver(names) == Seq([iterators : Seq(names), expr : Seq(Tokens(names))])

(* Lattice.h, dominates: "Assumes both points contain only unique           *)
(* iterators."                                                              *)
UniqueIterators(points) ==
    \A k \in DOMAIN points :
        \A m, n \in DOMAIN points[k].iterators :
            points[k].iterators[m] = points[k].iterators[n] => m = n

(* Two points have a join: while both sets of arrays have elements left,    *)
(* so has a loop over all of them.                                          *)
JoinClosed(points) ==
    \A j, k \in DOMAIN points :
        \E m \in DOMAIN points : Its(points[m]) = Its(points[j]) \cup Its(points[k])

(* A point comes after all those that dominate it, and no two points        *)
(* iterate over the same arrays.                                            *)
DominatingFirst(points) ==
    \A j, k \in DOMAIN points : Its(points[j]) \subseteq Its(points[k]) => k <= j

(* The position of the largest point among those that iterate over arrays   *)
(* in S only.                                                               *)
LargestWithin(points, S, j) ==
    /\ j \in DOMAIN points
    /\ Its(points[j]) \subseteq S
    /\ \A k \in DOMAIN points : Its(points[k]) \subseteq S => Its(points[k]) \subseteq Its(points[j])

(* The expression of the largest point within S is what remains of rhs when *)
(* the arrays outside S are zero; without such a point nothing remains.     *)
Complete(points, rhs) ==
    \A S \in SUBSET Operands(rhs) :
        /\ \A j \in DOMAIN points :
              LargestWithin(points, S, j) => Simplify(rhs, S) = points[j].expr
        /\ (\A j \in DOMAIN points : ~(Its(points[j]) \subseteq S)) => Simplify(rhs, S) = Zero

(* Every point reads the arrays it iterates over and no others.             *)
ReadsItsIterators(points) ==
    \A j \in DOMAIN points :
        /\ Its(points[j]) # {}
        /\ Operands(points[j].expr) = Its(points[j])
        /\ points[j].expr # Zero

(* The first point iterates over everything and computes all of rhs.        *)
StartsWithAll(points, rhs) ==
    /\ Len(points) >= 1
    /\ Its(points[1]) = Operands(rhs)
    /\ points[1].expr = rhs

WellFormedLattice(points, rhs) ==
    /\ points \in LatticesOver(Operands(rhs))
    /\ UniqueIterators(points)
    /\ JoinClosed(points)
    /\ DominatingFirst(points)
    /\ ReadsItsIterators(points)
    /\ StartsWithAll(points, rhs)
    /\ Complete(points, rhs)
============================================================================
