------------------------------- MODULE Kernel -------------------------------
(***************************************************************************)
(* The kernels the vector compiler generates and what they do when they    *)
(* run: visit(ForAll) of Lower.cpp emits one while loop for each point of  *)
(* the merge lattice, IRPrinter.cpp gives each LIR statement its meaning   *)
(* in C.  A step of this specification is one iteration of one loop, or    *)
(* the exit from it.                                                       *)
(*                                                                         *)
(* The values in the arrays are symbolic: a cell of the result holds the   *)
(* expression that was stored there and, for each array it reads, the      *)
(* position in the array's `values' that was read.                         *)
(***************************************************************************)
EXTENDS Lattice, Integers

CONSTANTS
    N,           \* shape[0], the same for all the arrays
    Programs     \* the assignments, each with its formats and its lattice

ASSUME DimensionAssumption == N \in Nat

VARIABLES
    prog,        \* [lhs, dense (the arrays of Format::Dense), rhs, points]
    crd,         \* the coordinates of each compressed array
    loop,        \* the while loop that runs, a position in prog.points
    iter,        \* the iterators: x_i of a dense array x, x_i_iter of a compressed one
    i,           \* the logical index of the last iteration, -1 before the first
    values,      \* the `values' of the result array
    wanted       \* not in the code: the right value of each coordinate

vars == <<prog, crd, loop, iter, i, values, wanted>>

-----------------------------------------------------------------------------
Coords == 0..(N - 1)

(* Coordinate arrays as array.h wants them: sorted, without repetition. *)
Sorted(s) == \A m, n \in DOMAIN s : m < n => s[m] < s[n]
CoordinateArrays == {s \in UNION {[1..n -> Coords] : n \in 0..N} : Sorted(s)}

(* gather_iterator_set: the written array, and each array that is read. *)
Gathered(p) == {p.lhs} \cup Operands(p.rhs)

IsDense(x) == x \in prog.dense
SparseIts(p) == {x \in Its(p) : ~IsDense(x)}

(* The arrays that store a value at coordinate c. *)
Stores(x, c) == IsDense(x) \/ \E n \in DOMAIN crd[x] : crd[x][n] = c
Present(c) == {x \in Operands(prog.rhs) : Stores(x, c)}

(* A compressed result has to have the coordinates of the result in its     *)
(* crd already, since a kernel only ever writes its values.                 *)
ResultAllocated ==
    \A c \in Coords :
        (\E n \in DOMAIN crd[prog.lhs] : crd[prog.lhs][n] = c) <=> Simplify(prog.rhs, Present(c)) # Zero

(* C++ rejects two definitions of x_i in one loop body, which is what       *)
(* CompressedIndexDefinition prints for a compressed array that a point     *)
(* iterates over twice.                                                     *)
CompilesInC(p) ==
    \A k \in DOMAIN p.points : \A m, n \in DOMAIN p.points[k].iterators :
        LET its == p.points[k].iterators
        IN  its[m] = its[n] /\ its[m] \notin p.dense => m = n

Value(e, at) == [expr |-> e, at |-> at]

(* The position of coordinate c in the values of array x. *)
PositionOf(x, c) ==
    IF IsDense(x) THEN c ELSE CHOOSE n \in 0..(N - 1) : n + 1 \in DOMAIN crd[x] /\ crd[x][n + 1] = c

(* The value of the assignment at coordinate c: the right-hand side without *)
(* the operands that are zero there, read from the cells of coordinate c.   *)
Wanted(c) ==
    LET e == Simplify(prog.rhs, Present(c))
    IN  Value(e, [x \in Operands(e) |-> PositionOf(x, c)])

(* What the caller has passed in a cell of the result: zero                 *)
(* (empty_dense_array) or, when the assignment is in place, an operand.     *)
Untouched == Value(Zero, [x \in {} |-> 0])

(* IteratorDefinition: 0 for a dense array, pos[0] for a compressed one. *)
Init ==
    /\ prog \in {p \in Programs : CompilesInC(p)}
    /\ \E s \in [Gathered(prog) \ prog.dense -> CoordinateArrays] :
          crd = [x \in Gathered(prog) |-> IF IsDense(x) THEN << >> ELSE s[x]]
    /\ IsDense(prog.lhs) \/ ResultAllocated
    /\ loop = 1
    /\ iter = [x \in Gathered(prog) |-> 0]
    /\ i = -1
    /\ values = [c \in Coords |-> Untouched]
    /\ wanted = [c \in Coords |-> Wanted(c)]

-----------------------------------------------------------------------------
(* print_iterator_bound: shape[0] or pos[1]. *)
Bound(x) == IF IsDense(x) THEN N ELSE Len(crd[x])

(* print_bounded_guard: the condition of the loop of point k. *)
Guard(k) == \A x \in Its(prog.points[k]) : iter[x] < Bound(x)

(* print_resolved_index: the coordinate an iterator stands at, x_i; that of *)
(* a compressed array is read from crd (CompressedIndexDefinition).         *)
Index(x) == IF IsDense(x) THEN iter[x] ELSE crd[x][iter[x] + 1]

(* Faulty variant: the greatest of the coordinates. *)
IsGreatestIndex(k, c) ==
    /\ \E x \in Its(prog.points[k]) : Index(x) = c
    /\ \A x \in Its(prog.points[k]) : Index(x) <= c

(* LogicalIndexDefinition: the least of the coordinates. *)
IsLogicalIndex(k, c) ==
    /\ \E x \in Its(prog.points[k]) : Index(x) = c
    /\ \A x \in Its(prog.points[k]) : c <= Index(x)

(* The branches of the if of loop k, one for each sub-point with a          *)
(* compressed iterator; sub-points with dense iterators only have none.     *)
Branches(k) == {j \in SubPoints(prog.points, k) : SparseIts(prog.points[j]) # {}}

(* print_set_guard: the condition of a branch. *)
Matches(j, c) == \A x \in SparseIts(prog.points[j]) : Index(x) = c

(* Faulty variant: the last branch whose condition holds. *)
IsLastMatch(k, j, c) ==
    /\ j \in Branches(k)
    /\ Matches(j, c)
    /\ \A m \in Branches(k) : Matches(m, c) => m <= j

(* The first branch, in the order of the lattice, whose condition holds. *)
IsFirstMatch(k, j, c) ==
    /\ j \in Branches(k)
    /\ Matches(j, c)
    /\ \A m \in Branches(k) : Matches(m, c) => j <= m

(* print_array_access: a dense array is accessed at the logical index, a    *)
(* compressed one at its iterator.                                          *)
Position(x, c) == IF IsDense(x) THEN c ELSE iter[x]

(* Where a read finds the value the caller has passed: an assignment in     *)
(* place finds none in a cell that it has stored to.                        *)
Overwritten == -1

ReadAt(x, c) ==
    IF x = prog.lhs /\ values[Position(x, c)] # Untouched THEN Overwritten ELSE Position(x, c)

Computed(e, c) == Value(e, [x \in Operands(e) |-> ReadAt(x, c)])

(* IncrementIterator, once for each occurrence of the iterator in the       *)
(* point, and the increment that follows a store to a compressed result.    *)
Occurrences(p, x) == Cardinality({n \in DOMAIN p.iterators : p.iterators[n] = x})

(* Faulty variant: dense iterators are forgotten. *)
IncrementSparseOnly(k, x, c) ==
    IF ~IsDense(x) /\ Index(x) = c THEN Occurrences(prog.points[k], x) ELSE 0

(* Faulty variant: every iterator of the point advances in an iteration. *)
IncrementAll(k, x, c) == Occurrences(prog.points[k], x)

Increment(k, x, c) ==
    IF IsDense(x) \/ Index(x) = c THEN Occurrences(prog.points[k], x) ELSE 0

(* Faulty variant: the iterator of a compressed result advances in every    *)
(* iteration.                                                               *)
AdvancedAlways(k, c, stored) ==
    [x \in Gathered(prog) |->
        iter[x] + (IF x \in Its(prog.points[k]) THEN Increment(k, x, c) ELSE 0)
                + (IF x = prog.lhs /\ ~IsDense(x) THEN 1 ELSE 0)]

Advanced(k, c, stored) ==
    [x \in Gathered(prog) |->
        iter[x] + (IF x \in Its(prog.points[k]) THEN Increment(k, x, c) ELSE 0)
                + (IF stored /\ x = prog.lhs /\ ~IsDense(x) THEN 1 ELSE 0)]

(* visit(LIR::ArrayAssignment). *)
Store(e, c) == values' = [values EXCEPT ![Position(prog.lhs, c)] = Computed(e, c)]

-----------------------------------------------------------------------------
(* Faulty variant: the logical index is left one too far. *)
IterateBeyond(c) ==
    /\ loop <= Len(prog.points)
    /\ Guard(loop)
    /\ IsLogicalIndex(loop, c)
    /\ i' = c + 1
    /\ UNCHANGED <<prog, crd, loop, wanted>>

(* An iteration at coordinate c: the condition of the while holds. *)
IterateAt(c) ==
    /\ loop <= Len(prog.points)
    /\ Guard(loop)
    /\ IsLogicalIndex(loop, c)
    /\ i' = c
    /\ UNCHANGED <<prog, crd, loop, wanted>>

(* A branch of the if matches and stores its expression. *)
TakeBranch ==
    \E c \in Coords :
        /\ IterateAt(c)
        /\ \E j \in DOMAIN prog.points :
              /\ IsFirstMatch(loop, j, c)
              /\ Store(prog.points[j].expr, c)
        /\ iter' = Advanced(loop, c, TRUE)

(* No branch of the if matches. *)
SkipCoordinate ==
    \E c \in Coords :
        /\ IterateAt(c)
        /\ Branches(loop) # {}
        /\ \A j \in Branches(loop) : ~Matches(j, c)
        /\ iter' = Advanced(loop, c, FALSE)
        /\ UNCHANGED values

(* There is no if: the body is the whole assignment. *)
StoreWhole ==
    \E c \in Coords :
        /\ IterateAt(c)
        /\ Branches(loop) = {}
        /\ Store(prog.rhs, c)
        /\ iter' = Advanced(loop, c, TRUE)

(* Faulty variant: a loop is left whatever its condition. *)
BreakLoop ==
    /\ loop <= Len(prog.points)
    /\ loop' = loop + 1
    /\ UNCHANGED <<prog, crd, iter, i, values, wanted>>

LeaveLoop ==
    /\ loop <= Len(prog.points)
    /\ ~Guard(loop)
    /\ loop' = loop + 1
    /\ UNCHANGED <<prog, crd, iter, i, values, wanted>>

Returned == loop > Len(prog.points)

Return == Returned /\ UNCHANGED vars

Next == TakeBranch \/ SkipCoordinate \/ StoreWhole \/ LeaveLoop \/ Return

Spec == Init /\ [][Next]_vars /\ WF_vars(Next)

-----------------------------------------------------------------------------
(* compile: the assignment lhs(i) = rhs lowered to its loops. *)
Lowered(lhs, rhs, dense) ==
    [lhs |-> lhs, rhs |-> rhs, dense |-> dense, points |-> Make(Convert(rhs))]

(* The assignments whose kernels are right, among those with a well-formed  *)
(* lattice: a point with dense iterators only gets no branch of its own, so *)
(* there must be none, unless all the operands are dense.                   *)
Supported(p) ==
    \/ Operands(p.rhs) \subseteq p.dense
    \/ \A k \in DOMAIN p.points : ~(Its(p.points[k]) \subseteq p.dense)

(* In place only dense arrays can be assigned: a compressed one has a single *)
(* iterator for the reads and the writes, and a coordinate at which no      *)
(* branch stores keeps its old value.                                       *)
WellFormed(p) ==
    /\ p.lhs \in Operands(p.rhs) => Operands(p.rhs) \subseteq p.dense
    /\ WellFormedLattice(p.points, p.rhs)

-----------------------------------------------------------------------------
(* The value of the result array at coordinate c; a compressed array is     *)
(* zero where it has no coordinate.                                         *)
Result(c) == IF Stores(prog.lhs, c) THEN values[PositionOf(prog.lhs, c)] ELSE Untouched

(* All coordinates below the frontier have been dealt with. *)
Frontier == i + 1

-----------------------------------------------------------------------------
(* The shape of the state. *)
TypeOK ==
    /\ crd \in [Gathered(prog) -> CoordinateArrays]
    /\ loop \in 1..(Len(prog.points) + 1)
    /\ iter \in [Gathered(prog) -> Nat]
    /\ i \in -1..(N - 1)
    /\ DOMAIN values = Coords

(* Element-wise correctness ("Your compiler needs to support both vector    *)
(* addition and vector multiplication (element-wise)", README.md): behind   *)
(* the frontier the result has the value of the assignment at every         *)
(* coordinate, read from the cells of the operands that belong to that      *)
(* coordinate; from the frontier on it has not been touched; and when the   *)
(* kernel returns all the coordinates have their values.                    *)
ElementWise ==
    /\ \A c \in Coords : Result(c) = IF c < Frontier THEN wanted[c] ELSE Untouched
    /\ Returned => \A c \in Coords : Result(c) = wanted[c]

(* No iterator passes the end of its array, no store of the result reads    *)
(* or writes past the end of `values': the body of a loop uses, without a   *)
(* test, iterators that an earlier loop may have exhausted.                 *)
InBounds ==
    /\ \A x \in Gathered(prog) : iter[x] <= Bound(x)
    /\ \A c \in Coords : \A x \in DOMAIN values[c].at : values[c].at[x] < Bound(x)

(* While a loop runs, every array that still has elements and could         *)
(* contribute is among the iterators of that loop: no later loop has work   *)
(* at a coordinate this one passes over.                                    *)
LoopCoversLive ==
    loop <= Len(prog.points) /\ Guard(loop) =>
        \A j \in DOMAIN prog.points :
            Guard(j) => Its(prog.points[j]) \subseteq Its(prog.points[loop])

(* The coordinates are visited in strictly ascending order across all the   *)
(* loops: no iteration repeats a coordinate that it, or an earlier loop,    *)
(* has computed.                                                            *)
CoordinatesAscend == [][loop' = loop => i' > i]_vars

(* What the iterators have consumed lies behind the frontier. *)
ConsumedBehind ==
    \A x \in Gathered(prog) :
        /\ iter[x] <= Bound(x)
        /\ IsDense(x) => iter[x] <= Frontier
        /\ ~IsDense(x) => \A n \in DOMAIN crd[x] : n <= iter[x] => crd[x][n] < Frontier

(* What a point whose loop condition holds has not consumed does not. *)
LiveAtFrontier ==
    \A j \in DOMAIN prog.points : Guard(j) =>
        \A x \in Its(prog.points[j]) :
            /\ IsDense(x) => iter[x] = Frontier
            /\ ~IsDense(x) => crd[x][iter[x] + 1] >= Frontier

(* The loops hand their iterators on to each other: in all of the pass, no  *)
(* element is skipped before its coordinate has been dealt with, and the    *)
(* iterators of every loop that can still run, this one or a later one,     *)
(* stand at the frontier, although they only advance in the iterations of   *)
(* the loops they belong to and at a coordinate of their own.               *)
IteratorsKeepPace == ConsumedBehind /\ LiveAtFrontier

(* The kernel returns. *)
Terminates == <>Returned

(* The kernel implements the abstract assignment. *)
Assign == INSTANCE VectorAssign WITH
    result   <- [c \in Coords |-> Result(c)],
    next     <- Frontier,
    returned <- Returned

Implements == Assign!Spec
=============================================================================
