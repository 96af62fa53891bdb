---------------------------- MODULE KernelProofs ----------------------------
(***************************************************************************)
(* The generated kernels compute the assignment element-wise, for every    *)
(* dimension, every content of the operands and every assignment whose     *)
(* lattice is well formed and whose formats are supported; and the lattice *)
(* of every assignment that reads no array twice is (MakeWellFormed of     *)
(* LatticeProofs).                                                         *)
(*                                                                         *)
(* The argument.  All the iterators stand at the frontier: what they have  *)
(* consumed is behind it, what the iterators of a loop whose condition     *)
(* still holds have not consumed is not.  While the loop of point k runs,  *)
(* the join of k with any other live point is live too; it does not come   *)
(* before k, since the loops before k are exhausted, and as it dominates k *)
(* it does not come after k: it is k, and k covers everything that is      *)
(* live.  So no coordinate is lost between the frontier and the logical    *)
(* index, and the first branch that matches is the largest point whose     *)
(* arrays are all present.                                                 *)
(***************************************************************************)
EXTENDS Kernel, LatticeProofs

(* The hypothesis on the assignments. *)
ProgramsOK == \A p \in Programs : WellFormed(p) /\ Supported(p)

-----------------------------------------------------------------------------
(* The inductive invariant. *)

ProgramOK == WellFormed(prog) /\ Supported(prog)

ReferenceOK ==
    /\ wanted = [c \in Coords |-> Wanted(c)]
    /\ IsDense(prog.lhs) \/ ResultAllocated

(* The condition of a loop that has been left does not hold. *)
LoopsStayExhausted ==
    \A j \in DOMAIN prog.points : j < loop => ~Guard(j)

(* The next free cell of a compressed result is for a coordinate that has   *)
(* not been dealt with.                                                     *)
ResultAtFrontier ==
    ~IsDense(prog.lhs) =>
        \A n \in DOMAIN crd[prog.lhs] : n > iter[prog.lhs] => crd[prog.lhs][n] >= Frontier

BehindFrontier ==
    \A c \in Coords : Result(c) = IF c < Frontier THEN wanted[c] ELSE Untouched

Cursors == IteratorsKeepPace /\ ResultAtFrontier

Inv ==
    /\ ProgramOK
    /\ TypeOK
    /\ ReferenceOK
    /\ LoopsStayExhausted
    /\ Cursors
    /\ BehindFrontier

-----------------------------------------------------------------------------
(* Facts about the data. *)

(* A coordinate array is a strictly increasing sequence of coordinates. *)
LEMMA CoordinateArray ==
    ASSUME NEW s \in CoordinateArrays
    PROVE  /\ s \in Seq(Coords)
           /\ Len(s) \in 0..N
           /\ DOMAIN s = 1..Len(s)
           /\ \A n \in DOMAIN s : s[n] \in Coords
           /\ \A m, n \in DOMAIN s : m < n => s[m] < s[n]
<1>1. PICK n \in 0..N : s \in [1..n -> Coords] /\ Sorted(s)
      BY DEF CoordinateArrays
<1>2. s \in Seq(Coords) /\ Len(s) = n /\ DOMAIN s = 1..n
      BY <1>1, DimensionAssumption
<1> QED BY <1>1, <1>2 DEF Sorted

(* The shape of a well-formed lattice. *)
LEMMA LatticeShape ==
    ASSUME ProgramOK
    PROVE  /\ Len(prog.points) \in Nat \ {0}
           /\ DOMAIN prog.points = 1..Len(prog.points)
           /\ \A j \in DOMAIN prog.points :
                 /\ Its(prog.points[j]) \subseteq Operands(prog.rhs)
                 /\ Its(prog.points[j]) \subseteq Gathered(prog)
                 /\ Its(prog.points[j]) # {}
                 /\ ~IsDense(prog.lhs) => prog.lhs \notin Its(prog.points[j])
<1> DEFINE ops == Operands(prog.rhs)
<1>1. prog.points \in Seq([iterators : Seq(ops), expr : Seq(Tokens(ops))])
      BY DEF ProgramOK, WellFormed, WellFormedLattice, LatticesOver
<1>2. Len(prog.points) \in Nat \ {0} /\ DOMAIN prog.points = 1..Len(prog.points)
      BY <1>1 DEF ProgramOK, WellFormed, WellFormedLattice, StartsWithAll
<1>3. ASSUME NEW j \in DOMAIN prog.points
      PROVE  Its(prog.points[j]) \subseteq ops /\ Its(prog.points[j]) # {}
  <2> DEFINE pts == prog.points
             S == [iterators : Seq(ops), expr : Seq(Tokens(ops))]
  <2>a. pts \in Seq(S) /\ j \in 1..Len(pts)
        BY <1>1, <1>2
  <2>b. pts[j] \in S
    <3> HIDE DEF pts, S
    <3> QED BY <2>a
  <2>1. prog.points[j].iterators \in Seq(ops)
        BY <2>b
  <2>2. Its(prog.points[j]) \subseteq ops
        BY <2>1 DEF Its
  <2>3. Its(prog.points[j]) # {}
        BY <1>3 DEF ProgramOK, WellFormed, WellFormedLattice, ReadsItsIterators
  <2> QED BY <2>2, <2>3
<1> QED BY <1>2, <1>3 DEF Gathered, ProgramOK, WellFormed, IsDense

(* In a well-formed lattice an iterator occurs once in a point. *)
LEMMA OccursOnce ==
    ASSUME ProgramOK, NEW k \in DOMAIN prog.points, NEW x \in Its(prog.points[k])
    PROVE  Occurrences(prog.points[k], x) = 1
<1> DEFINE its == prog.points[k].iterators
<1>1. PICK n \in DOMAIN its : its[n] = x
      BY DEF Its
<1>2. {m \in DOMAIN its : its[m] = x} = {n}
      BY <1>1 DEF ProgramOK, WellFormed, WellFormedLattice, UniqueIterators
<1> QED BY <1>2, FS_Singleton DEF Occurrences

(* The coordinates of a compressed array of the kernel. *)
LEMMA SparseArray ==
    ASSUME TypeOK, NEW x \in Gathered(prog), ~IsDense(x)
    PROVE  /\ Len(crd[x]) \in 0..N
           /\ DOMAIN crd[x] = 1..Len(crd[x])
           /\ Bound(x) = Len(crd[x])
           /\ \A n \in DOMAIN crd[x] : crd[x][n] \in Coords
           /\ \A m, n \in DOMAIN crd[x] : m < n => crd[x][m] < crd[x][n]
           /\ \A m, n \in DOMAIN crd[x] : crd[x][m] = crd[x][n] => m = n
<1>1. crd[x] \in CoordinateArrays
      BY DEF TypeOK
<1>2. /\ Len(crd[x]) \in 0..N
      /\ DOMAIN crd[x] = 1..Len(crd[x])
      /\ \A n \in DOMAIN crd[x] : crd[x][n] \in Coords
      /\ \A m, n \in DOMAIN crd[x] : m < n => crd[x][m] < crd[x][n]
      BY <1>1, CoordinateArray
<1>3. \A m, n \in DOMAIN crd[x] : crd[x][m] = crd[x][n] => m = n
      BY <1>2, DimensionAssumption DEF Coords
<1> QED BY <1>2, <1>3 DEF Bound

(* Where a coordinate of an array is found. *)
LEMMA PositionIs ==
    ASSUME TypeOK, NEW x \in Gathered(prog), ~IsDense(x),
           NEW n \in DOMAIN crd[x]
    PROVE  PositionOf(x, crd[x][n]) = n - 1
<1> DEFINE P(m) == m + 1 \in DOMAIN crd[x] /\ crd[x][m + 1] = crd[x][n]
<1>1. n - 1 \in 0..(N - 1) /\ P(n - 1)
      BY SparseArray, DimensionAssumption
<1>2. \A m \in 0..(N - 1) : P(m) => m = n - 1
      BY SparseArray
<1>3. PositionOf(x, crd[x][n]) = CHOOSE m \in 0..(N - 1) : P(m)
      BY DEF PositionOf
<1> QED BY <1>1, <1>2, <1>3

-----------------------------------------------------------------------------
(* The loop that runs and what is live.                                     *)

(* A point is live while its loop condition holds; the running loop covers  *)
(* every live point (LoopCoversLive, for a loop that has not been left).    *)
LEMMA Covers ==
    ASSUME ProgramOK, TypeOK, LoopsStayExhausted
    PROVE  LoopCoversLive
<1> SUFFICES ASSUME loop <= Len(prog.points), Guard(loop),
                    NEW j \in DOMAIN prog.points, Guard(j)
             PROVE  Its(prog.points[j]) \subseteq Its(prog.points[loop])
    BY DEF LoopCoversLive
<1>1. loop \in DOMAIN prog.points
      BY LatticeShape DEF TypeOK
<1>2. PICK m \in DOMAIN prog.points :
          Its(prog.points[m]) = Its(prog.points[j]) \cup Its(prog.points[loop])
      BY <1>1 DEF ProgramOK, WellFormed, WellFormedLattice, JoinClosed
<1>3. Guard(m)
      BY <1>2 DEF Guard
<1>4. ~(m < loop)
      BY <1>3 DEF LoopsStayExhausted
<1>5. m <= loop
      BY <1>1, <1>2 DEF ProgramOK, WellFormed, WellFormedLattice, DominatingFirst
<1>6. m = loop
      BY <1>1, <1>4, <1>5, LatticeShape
<1> QED BY <1>2, <1>6

(* Where the iterators of a live point stand. *)
LEMMA LiveIndex ==
    ASSUME ProgramOK, TypeOK, Cursors,
           NEW j \in DOMAIN prog.points, Guard(j), NEW x \in Its(prog.points[j])
    PROVE  /\ Index(x) \in Coords
           /\ Index(x) >= Frontier
           /\ IsDense(x) => Index(x) = Frontier /\ Index(x) = iter[x]
           /\ ~IsDense(x) => iter[x] + 1 \in DOMAIN crd[x] /\ Index(x) = crd[x][iter[x] + 1]
<1>1. x \in Gathered(prog) /\ iter[x] \in Nat /\ iter[x] < Bound(x) /\ Frontier \in 0..N
      BY LatticeShape, DimensionAssumption DEF TypeOK, Guard, Frontier
<1>2. CASE IsDense(x)
      BY <1>1, <1>2, DimensionAssumption DEF Cursors, IteratorsKeepPace, LiveAtFrontier, Index, Bound, Coords
<1>3. CASE ~IsDense(x)
  <2>1. iter[x] + 1 \in DOMAIN crd[x]
        BY <1>1, <1>3, SparseArray
  <2>2. Index(x) = crd[x][iter[x] + 1]
        BY <1>3 DEF Index
  <2>3. Index(x) \in Coords
        BY <1>1, <1>3, <2>1, <2>2, SparseArray
  <2>4. crd[x][iter[x] + 1] >= Frontier
        BY <1>3 DEF Cursors, IteratorsKeepPace, LiveAtFrontier
  <2> QED BY <1>3, <2>1, <2>2, <2>3, <2>4
<1> QED BY <1>2, <1>3

(* If all the arrays of a point have a value at a coordinate from the       *)
(* frontier on, the point is live and its iterators have not passed it.     *)
LEMMA PresentIsLive ==
    ASSUME ProgramOK, TypeOK, Cursors,
           NEW d \in Coords, d >= Frontier,
           NEW j \in DOMAIN prog.points, Its(prog.points[j]) \subseteq Present(d)
    PROVE  /\ Guard(j)
           /\ \A x \in Its(prog.points[j]) : Index(x) <= d
<1> SUFFICES ASSUME NEW x \in Its(prog.points[j])
             PROVE  iter[x] < Bound(x) /\ Index(x) <= d
    BY DEF Guard
<1>1. x \in Gathered(prog) /\ Stores(x, d) /\ iter[x] \in Nat /\ Frontier \in 0..N /\ d \in 0..(N - 1)
      BY LatticeShape, DimensionAssumption DEF TypeOK, Present, Frontier, Coords
<1>2. CASE IsDense(x)
      BY <1>1, <1>2, DimensionAssumption DEF Cursors, IteratorsKeepPace, ConsumedBehind, Index, Bound
<1>3. CASE ~IsDense(x)
  <2>1. PICK n \in DOMAIN crd[x] : crd[x][n] = d
        BY <1>1, <1>3 DEF Stores
  <2>2. ~(n <= iter[x])
        BY <1>1, <1>3, <2>1, DimensionAssumption DEF Cursors, IteratorsKeepPace, ConsumedBehind
  <2>3. n \in Nat /\ n <= Len(crd[x]) /\ iter[x] + 1 \in DOMAIN crd[x] /\ iter[x] + 1 <= n
        BY <1>1, <1>3, <2>2, SparseArray
  <2>4. crd[x][iter[x] + 1] <= crd[x][n]
        BY <1>1, <1>3, <2>3, SparseArray DEF Coords
  <2> QED BY <1>1, <1>3, <2>1, <2>3, <2>4, SparseArray DEF Index
<1> QED BY <1>2, <1>3

-----------------------------------------------------------------------------
(* The coordinates of an iteration.                                         *)

(* The loop runs, at coordinate c. *)
Iterating(c) ==
    /\ c \in Coords
    /\ loop <= Len(prog.points)
    /\ Guard(loop)
    /\ IsLogicalIndex(loop, c)

NothingPresent(d) == \A j \in DOMAIN prog.points : ~(Its(prog.points[j]) \subseteq Present(d))

(* The running loop is a point, and it is not behind the frontier. *)
LEMMA RunningLoop ==
    ASSUME ProgramOK, TypeOK, Cursors, NEW c, Iterating(c)
    PROVE  /\ loop \in DOMAIN prog.points
           /\ c >= Frontier
           /\ \A x \in Its(prog.points[loop]) : c <= Index(x)
<1>1. loop \in DOMAIN prog.points
      BY LatticeShape DEF TypeOK, Iterating
<1>2. PICK x \in Its(prog.points[loop]) : Index(x) = c
      BY DEF Iterating, IsLogicalIndex
<1> QED BY <1>1, <1>2, LiveIndex DEF Iterating, IsLogicalIndex

(* Between the frontier and c no point has all of its arrays present. *)
LEMMA NothingPassedOver ==
    ASSUME ProgramOK, TypeOK, LoopsStayExhausted, Cursors, NEW c, Iterating(c),
           NEW d \in Coords, d >= Frontier, d < c
    PROVE  NothingPresent(d)
<1> SUFFICES ASSUME NEW j \in DOMAIN prog.points, Its(prog.points[j]) \subseteq Present(d)
             PROVE  FALSE
    BY DEF NothingPresent
<1>1. Guard(j) /\ \A x \in Its(prog.points[j]) : Index(x) <= d
      BY PresentIsLive
<1>2. Its(prog.points[j]) \subseteq Its(prog.points[loop])
      BY <1>1, Covers DEF LoopCoversLive, Iterating
<1>3. PICK x \in Its(prog.points[j]) : TRUE
      BY LatticeShape
<1>4. Index(x) <= d /\ c <= Index(x) /\ Index(x) \in Coords /\ c \in Coords
      BY <1>1, <1>2, <1>3, RunningLoop, LiveIndex DEF Iterating
<1> QED BY <1>4, DimensionAssumption DEF Coords

(* At c itself, the points whose arrays are all present are the sub-points  *)
(* of the loop whose compressed iterators all stand at c.                   *)
LEMMA PresentAtIndex ==
    ASSUME ProgramOK, TypeOK, LoopsStayExhausted, Cursors, NEW c, Iterating(c),
           NEW j \in DOMAIN prog.points
    PROVE  Its(prog.points[j]) \subseteq Present(c)
               <=> j \in SubPoints(prog.points, loop) /\ Matches(j, c)
<1>0. SubPoints(prog.points, loop) =
          {m \in DOMAIN prog.points : Its(prog.points[m]) \subseteq Its(prog.points[loop])}
      BY DEF SubPoints, Dominates, Its
<1>1. ASSUME Its(prog.points[j]) \subseteq Present(c)
      PROVE  j \in SubPoints(prog.points, loop) /\ Matches(j, c)
  <2>1. Guard(j) /\ \A x \in Its(prog.points[j]) : Index(x) <= c
        BY <1>1, PresentIsLive, RunningLoop DEF Iterating
  <2>2. Its(prog.points[j]) \subseteq Its(prog.points[loop])
        BY <2>1, Covers DEF LoopCoversLive, Iterating
  <2>3. \A x \in Its(prog.points[j]) : Index(x) = c
    <3> SUFFICES ASSUME NEW x \in Its(prog.points[j]) PROVE Index(x) = c
        OBVIOUS
    <3>1. Index(x) <= c /\ c <= Index(x) /\ Index(x) \in Coords /\ c \in Coords
          BY <2>1, <2>2, RunningLoop, LiveIndex DEF Iterating
    <3> QED BY <3>1, DimensionAssumption DEF Coords
  <2> QED BY <1>0, <2>2, <2>3 DEF Matches, SparseIts
<1>2. ASSUME j \in SubPoints(prog.points, loop), Matches(j, c), NEW x \in Its(prog.points[j])
      PROVE  x \in Present(c)
  <2>1. x \in Its(prog.points[loop]) /\ x \in Operands(prog.rhs)
        BY <1>0, <1>2, LatticeShape
  <2>2. CASE IsDense(x)
        BY <2>1, <2>2 DEF Present, Stores
  <2>3. CASE ~IsDense(x)
    <3>1. Index(x) = c
          BY <1>2, <2>3 DEF Matches, SparseIts
    <3>2. iter[x] + 1 \in DOMAIN crd[x] /\ Index(x) = crd[x][iter[x] + 1]
          BY <2>1, <2>3, RunningLoop, LiveIndex DEF Iterating
    <3> QED BY <2>1, <3>1, <3>2 DEF Present, Stores
  <2> QED BY <2>2, <2>3
<1> QED BY <1>1, <1>2

-----------------------------------------------------------------------------
(* The values of an iteration.                                              *)

(* Where no point has all its arrays present, the assignment is zero. *)
LEMMA NothingWanted ==
    ASSUME ProgramOK, NEW d \in Coords, NothingPresent(d)
    PROVE  Simplify(prog.rhs, Present(d)) = Zero /\ Wanted(d) = Untouched
<1>1. Present(d) \in SUBSET Operands(prog.rhs)
      BY DEF Present
<1>2. Simplify(prog.rhs, Present(d)) = Zero
      BY <1>1 DEF ProgramOK, WellFormed, WellFormedLattice, Complete, NothingPresent
<1>3. Operands(Zero) = {}
      BY DEF Operands, Zero
<1>4. Wanted(d) = Value(Zero, [x \in {} |-> PositionOf(x, d)])
      BY <1>2, <1>3 DEF Wanted
<1>5. [x \in {} |-> PositionOf(x, d)] = [x \in {} |-> 0]
      OBVIOUS
<1> QED BY <1>2, <1>4, <1>5 DEF Untouched

(* The arrays of a matching branch are accessed at coordinate c. *)
LEMMA PositionAtIndex ==
    ASSUME ProgramOK, TypeOK, Cursors, NEW c, Iterating(c),
           NEW x \in Its(prog.points[loop]), IsDense(x) \/ Index(x) = c
    PROVE  Position(x, c) = PositionOf(x, c) /\ Position(x, c) < Bound(x)
<1>1. x \in Gathered(prog) /\ c \in 0..(N - 1)
      BY RunningLoop, LatticeShape DEF Iterating, Coords
<1>2. CASE IsDense(x)
      BY <1>1, <1>2, DimensionAssumption DEF Position, PositionOf, Bound
<1>3. CASE ~IsDense(x)
  <2>1. iter[x] + 1 \in DOMAIN crd[x] /\ crd[x][iter[x] + 1] = c /\ iter[x] \in Nat
        BY <1>1, <1>3, RunningLoop, LiveIndex DEF Iterating, TypeOK
  <2>2. PositionOf(x, c) = iter[x]
        BY <1>1, <1>3, <2>1, PositionIs
  <2> QED BY <1>1, <1>3, <2>1, <2>2, SparseArray DEF Position
<1> QED BY <1>2, <1>3

(* An iteration reads the values the caller has passed, in place too: the   *)
(* cell of its coordinate has not been stored to.                           *)
LEMMA ReadsFresh ==
    ASSUME ProgramOK, TypeOK, LoopsStayExhausted, Cursors, BehindFrontier, NEW c, Iterating(c),
           NEW x \in Operands(prog.rhs)
    PROVE  ReadAt(x, c) = Position(x, c)
<1>1. c \in Coords /\ c \in 0..(N - 1) /\ Frontier \in 0..N /\ c >= Frontier
      BY RunningLoop, DimensionAssumption DEF Iterating, Coords, Frontier, TypeOK
<1>2. CASE x = prog.lhs
  <2>1. IsDense(prog.lhs)
        BY <1>2 DEF ProgramOK, WellFormed, IsDense
  <2>2. Position(x, c) = c /\ Result(c) = values[c]
        BY <1>2, <2>1 DEF Position, Result, Stores, PositionOf
  <2>3. Result(c) = Untouched
        BY <1>1 DEF BehindFrontier
  <2> QED BY <2>2, <2>3 DEF ReadAt
<1>3. CASE x # prog.lhs
      BY <1>3 DEF ReadAt
<1> QED BY <1>2, <1>3

(* The branch that is taken computes the assignment at coordinate c. *)
LEMMA BranchWanted ==
    ASSUME ProgramOK, TypeOK, LoopsStayExhausted, Cursors, BehindFrontier, NEW c, Iterating(c),
           NEW j \in DOMAIN prog.points, IsFirstMatch(loop, j, c)
    PROVE  /\ Simplify(prog.rhs, Present(c)) = prog.points[j].expr
           /\ prog.points[j].expr # Zero
           /\ Computed(prog.points[j].expr, c) = Wanted(c)
           /\ \A x \in Operands(prog.points[j].expr) : ReadAt(x, c) < Bound(x)
<1> DEFINE e == prog.points[j].expr
<1>1. j \in SubPoints(prog.points, loop) /\ Matches(j, c) /\ SparseIts(prog.points[j]) # {}
      BY DEF IsFirstMatch, Branches
<1>2. Its(prog.points[j]) \subseteq Present(c) /\ Its(prog.points[j]) \subseteq Its(prog.points[loop])
      BY <1>1, PresentAtIndex DEF SubPoints, Dominates, Its
<1>3. \A k \in DOMAIN prog.points : SparseIts(prog.points[k]) # {}
  <2>1. ~(Operands(prog.rhs) \subseteq prog.dense)
        BY <1>1, LatticeShape DEF SparseIts, IsDense
  <2> QED BY <2>1 DEF ProgramOK, Supported, SparseIts, IsDense
<1>4. ASSUME NEW k \in DOMAIN prog.points, Its(prog.points[k]) \subseteq Present(c)
      PROVE  Its(prog.points[k]) \subseteq Its(prog.points[j])
  <2>1. PICK m \in DOMAIN prog.points :
            Its(prog.points[m]) = Its(prog.points[j]) \cup Its(prog.points[k])
        BY DEF ProgramOK, WellFormed, WellFormedLattice, JoinClosed
  <2>2. m \in Branches(loop) /\ Matches(m, c)
        BY <1>2, <1>3, <1>4, <2>1, PresentAtIndex DEF Branches
  <2>3. j <= m
        BY <2>2 DEF IsFirstMatch
  <2>4. m <= j
        BY <2>1 DEF ProgramOK, WellFormed, WellFormedLattice, DominatingFirst
  <2>5. m = j
        BY <2>3, <2>4, LatticeShape
  <2> QED BY <2>1, <2>5
<1>5. LargestWithin(prog.points, Present(c), j)
      BY <1>2, <1>4 DEF LargestWithin
<1>6. Simplify(prog.rhs, Present(c)) = e
  <2>1. Present(c) \in SUBSET Operands(prog.rhs)
        BY DEF Present
  <2> QED BY <1>5, <2>1 DEF ProgramOK, WellFormed, WellFormedLattice, Complete
<1>7. Operands(e) = Its(prog.points[j]) /\ e # Zero
      BY DEF ProgramOK, WellFormed, WellFormedLattice, ReadsItsIterators
<1>8. \A x \in Operands(e) : ReadAt(x, c) = PositionOf(x, c) /\ ReadAt(x, c) < Bound(x)
  <2> SUFFICES ASSUME NEW x \in Operands(e)
               PROVE  ReadAt(x, c) = PositionOf(x, c) /\ ReadAt(x, c) < Bound(x)
      OBVIOUS
  <2>1. x \in Its(prog.points[loop]) /\ (IsDense(x) \/ Index(x) = c)
        BY <1>1, <1>2, <1>7 DEF Matches, SparseIts
  <2>2. x \in Operands(prog.rhs)
        BY <1>7, LatticeShape
  <2> QED BY <2>1, <2>2, PositionAtIndex, ReadsFresh
<1>9. Computed(e, c) = Wanted(c)
  <2> HIDE DEF e
  <2> QED BY <1>6, <1>8 DEF Computed, Wanted
<1> QED BY <1>6, <1>7, <1>8, <1>9

(* When no branch matches, the assignment is zero at coordinate c. *)
LEMMA SkipWanted ==
    ASSUME ProgramOK, TypeOK, LoopsStayExhausted, Cursors, NEW c, Iterating(c),
           Branches(loop) # {}, \A j \in Branches(loop) : ~Matches(j, c)
    PROVE  Simplify(prog.rhs, Present(c)) = Zero /\ Wanted(c) = Untouched
<1>1. \A k \in DOMAIN prog.points : SparseIts(prog.points[k]) # {}
  <2>1. ~(Operands(prog.rhs) \subseteq prog.dense)
        BY LatticeShape DEF SparseIts, IsDense, Branches, SubPoints
  <2> QED BY <2>1 DEF ProgramOK, Supported, SparseIts, IsDense
<1>2. NothingPresent(c)
      BY <1>1, PresentAtIndex DEF NothingPresent, Branches
<1> QED BY <1>2, NothingWanted DEF Iterating

(* A loop without branches runs over dense arrays only: the whole right-    *)
(* hand side is wanted.                                                     *)
LEMMA WholeWanted ==
    ASSUME ProgramOK, TypeOK, LoopsStayExhausted, Cursors, BehindFrontier, NEW c, Iterating(c),
           Branches(loop) = {}
    PROVE  /\ Simplify(prog.rhs, Present(c)) = prog.rhs
           /\ prog.rhs # Zero
           /\ Computed(prog.rhs, c) = Wanted(c)
           /\ \A x \in Operands(prog.rhs) : ReadAt(x, c) < Bound(x)
<1>1. loop \in SubPoints(prog.points, loop)
      BY RunningLoop DEF SubPoints, Dominates, Its
<1>2. Its(prog.points[loop]) \subseteq prog.dense
      BY <1>1 DEF Branches, SparseIts, IsDense, SubPoints
<1>3. \A x \in Operands(prog.rhs) : IsDense(x)
      BY <1>2, RunningLoop DEF ProgramOK, Supported, IsDense
<1>4. Present(c) = Operands(prog.rhs)
      BY <1>3 DEF Present, Stores
<1>5. 1 \in DOMAIN prog.points /\ Its(prog.points[1]) = Operands(prog.rhs)
         /\ prog.points[1].expr = prog.rhs /\ prog.rhs # Zero
      BY LatticeShape DEF ProgramOK, WellFormed, WellFormedLattice, StartsWithAll, ReadsItsIterators
<1>6. LargestWithin(prog.points, Present(c), 1)
      BY <1>4, <1>5, LatticeShape DEF LargestWithin
<1>7. Simplify(prog.rhs, Present(c)) = prog.rhs
      BY <1>4, <1>5, <1>6 DEF ProgramOK, WellFormed, WellFormedLattice, Complete
<1>8. \A x \in Operands(prog.rhs) : ReadAt(x, c) = PositionOf(x, c) /\ ReadAt(x, c) < Bound(x)
      BY <1>3, ReadsFresh, DimensionAssumption DEF Position, PositionOf, Bound, Iterating, Coords
<1>9. Computed(prog.rhs, c) = Wanted(c)
      BY <1>7, <1>8 DEF Computed, Wanted
<1> QED BY <1>5, <1>7, <1>8, <1>9

-----------------------------------------------------------------------------
(* The cell of the result that belongs to an iteration.                     *)

(* If the assignment is not zero at coordinate c, the result has a cell for *)
(* it, and that is the cell a store writes to.                              *)
LEMMA ResultCell ==
    ASSUME ProgramOK, TypeOK, ReferenceOK, LoopsStayExhausted, Cursors, NEW c, Iterating(c),
           Simplify(prog.rhs, Present(c)) # Zero
    PROVE  /\ Stores(prog.lhs, c)
           /\ Position(prog.lhs, c) = PositionOf(prog.lhs, c)
           /\ ~IsDense(prog.lhs) => /\ iter[prog.lhs] + 1 \in DOMAIN crd[prog.lhs]
                                    /\ crd[prog.lhs][iter[prog.lhs] + 1] = c
<1> DEFINE a == prog.lhs
<1>1. a \in Gathered(prog) /\ c \in 0..(N - 1) /\ iter[a] \in Nat /\ Frontier \in 0..N
      BY DimensionAssumption DEF Gathered, Iterating, Coords, TypeOK, Frontier
<1>2. CASE IsDense(a)
      BY <1>2 DEF Stores, Position, PositionOf
<1>3. CASE ~IsDense(a)
  <2>1. PICK n \in DOMAIN crd[a] : crd[a][n] = c
        BY <1>3 DEF ReferenceOK, ResultAllocated, Iterating
  <2>2. n > iter[a]
        BY <1>1, <1>3, <2>1, RunningLoop, SparseArray DEF Cursors, IteratorsKeepPace, ConsumedBehind
  <2>3. iter[a] + 1 \in DOMAIN crd[a] /\ iter[a] + 1 <= n
        BY <1>1, <1>3, <2>2, SparseArray
  <2> DEFINE d == crd[a][iter[a] + 1]
  <2>4. d \in Coords /\ d >= Frontier /\ d <= c
        BY <1>1, <1>3, <2>1, <2>3, SparseArray DEF Cursors, IteratorsKeepPace, ResultAtFrontier, Coords
  <2>5. Simplify(prog.rhs, Present(d)) # Zero
        BY <1>3, <2>3, <2>4 DEF ReferenceOK, ResultAllocated
  <2>6. ~(d < c)
        BY <2>4, <2>5, NothingPassedOver, NothingWanted
  <2>7. d = c
        BY <1>1, <2>4, <2>6 DEF Coords
  <2>8. PositionOf(a, c) = iter[a]
        BY <1>1, <1>3, <2>3, <2>7, PositionIs
  <2> QED BY <1>3, <2>1, <2>3, <2>7, <2>8 DEF Stores, Position
<1> QED BY <1>2, <1>3

(* The cell of a coordinate is one of the values of the result. *)
LEMMA CellInRange ==
    ASSUME TypeOK, NEW d \in Coords, Stores(prog.lhs, d)
    PROVE  PositionOf(prog.lhs, d) \in Coords
<1>1. CASE IsDense(prog.lhs)
      BY <1>1 DEF PositionOf
<1>2. CASE ~IsDense(prog.lhs)
  <2>1. prog.lhs \in Gathered(prog)
        BY DEF Gathered
  <2>2. PICK n \in DOMAIN crd[prog.lhs] : crd[prog.lhs][n] = d
        BY <1>2 DEF Stores
  <2>3. PositionOf(prog.lhs, d) = n - 1
        BY <1>2, <2>1, <2>2, PositionIs
  <2> QED BY <1>2, <2>1, <2>3, SparseArray, DimensionAssumption DEF Coords
<1> QED BY <1>1, <1>2

(* Different coordinates have different cells. *)
LEMMA CellsDistinct ==
    ASSUME TypeOK, NEW c \in Coords, NEW d \in Coords, c # d,
           Stores(prog.lhs, c), Stores(prog.lhs, d)
    PROVE  PositionOf(prog.lhs, c) # PositionOf(prog.lhs, d)
<1> DEFINE a == prog.lhs
<1>1. a \in Gathered(prog)
      BY DEF Gathered
<1>2. CASE IsDense(a)
      BY <1>2 DEF PositionOf
<1>3. CASE ~IsDense(a)
  <2>1. PICK m \in DOMAIN crd[a] : crd[a][m] = c
        BY <1>3 DEF Stores
  <2>2. PICK n \in DOMAIN crd[a] : crd[a][n] = d
        BY <1>3 DEF Stores
  <2>3. PositionOf(a, c) = m - 1 /\ PositionOf(a, d) = n - 1 /\ m # n
        BY <1>1, <1>3, <2>1, <2>2, PositionIs
  <2>4. m \in Nat /\ n \in Nat
        BY <1>1, <1>3, <2>1, <2>2, SparseArray
  <2> QED BY <2>3, <2>4
<1> QED BY <1>2, <1>3

-----------------------------------------------------------------------------
(* The iterators after an iteration.                                        *)

(* What an iteration at c does to the cursors, when it stores if and only   *)
(* if the assignment is not zero at c.                                      *)
Iteration(c, stored) ==
    /\ Iterating(c)
    /\ stored <=> Simplify(prog.rhs, Present(c)) # Zero
    /\ iter' = Advanced(loop, c, stored)
    /\ i' = c
    /\ UNCHANGED <<prog, crd, loop, wanted>>

LEMMA AdvanceIts ==
    ASSUME ProgramOK, TypeOK, Cursors, NEW c, NEW stored \in BOOLEAN, Iteration(c, stored),
           NEW x \in Gathered(prog)
    PROVE  /\ iter'[x] \in Nat
           /\ x \in Its(prog.points[loop]) /\ (IsDense(x) \/ Index(x) = c) => iter'[x] = iter[x] + 1
           /\ x \in Its(prog.points[loop]) /\ ~(IsDense(x) \/ Index(x) = c) => iter'[x] = iter[x]
           /\ x = prog.lhs /\ ~IsDense(x) /\ stored => iter'[x] = iter[x] + 1
           /\ x \notin Its(prog.points[loop]) /\ ~(x = prog.lhs /\ ~IsDense(x) /\ stored) => iter'[x] = iter[x]
<1>1. iter'[x] = iter[x] + (IF x \in Its(prog.points[loop]) THEN Increment(loop, x, c) ELSE 0)
                         + (IF stored /\ x = prog.lhs /\ ~IsDense(x) THEN 1 ELSE 0)
      BY DEF Iteration, Advanced
<1>2. iter[x] \in Nat
      BY DEF TypeOK
<1>3. loop \in DOMAIN prog.points /\ (~IsDense(prog.lhs) => prog.lhs \notin Its(prog.points[loop]))
      BY RunningLoop, LatticeShape DEF Iteration
<1>4. x \in Its(prog.points[loop]) =>
          Increment(loop, x, c) = IF IsDense(x) \/ Index(x) = c THEN 1 ELSE 0
      BY <1>3, OccursOnce DEF Increment
<1> QED BY <1>1, <1>2, <1>3, <1>4

(* The bounds and the conditions of the loops after an iteration. *)
LEMMA AdvanceBounds ==
    ASSUME ProgramOK, TypeOK, ReferenceOK, LoopsStayExhausted, Cursors,
           NEW c, NEW stored \in BOOLEAN, Iteration(c, stored)
    PROVE  /\ ConsumedBehind'
           /\ LoopsStayExhausted'
           /\ \A j \in DOMAIN prog.points : Guard(j)' => Guard(j)
<1>1. prog' = prog /\ crd' = crd /\ loop' = loop /\ i' = c /\ Iterating(c)
      BY DEF Iteration
<1>2. c \in 0..(N - 1) /\ Frontier \in 0..N /\ Frontier' = c + 1 /\ c >= Frontier
      BY <1>1, RunningLoop, DimensionAssumption DEF Iterating, Coords, Frontier, TypeOK
<1>3. \A x \in Gathered(prog) : Bound(x)' = Bound(x) /\ Bound(x) \in Nat
      BY <1>1, SparseArray, DimensionAssumption DEF Bound, IsDense
<1>4. ASSUME NEW x \in Gathered(prog)
      PROVE  /\ iter'[x] \in Nat /\ iter[x] \in Nat /\ iter'[x] >= iter[x]
             /\ iter'[x] <= Bound(x)
             /\ IsDense(x) => iter'[x] <= c + 1
             /\ ~IsDense(x) => \A n \in DOMAIN crd[x] : n <= iter'[x] => crd[x][n] < c + 1
  <2>1. iter[x] \in Nat /\ iter[x] <= Bound(x)
        BY DEF TypeOK, Cursors, IteratorsKeepPace, ConsumedBehind
  <2>2. CASE iter'[x] = iter[x]
    <3>1. IsDense(x) => iter[x] <= Frontier
          BY DEF Cursors, IteratorsKeepPace, ConsumedBehind
    <3>2. ~IsDense(x) => \A n \in DOMAIN crd[x] : crd[x][n] \in Nat /\ (n <= iter[x] => crd[x][n] < Frontier)
          BY SparseArray DEF Cursors, IteratorsKeepPace, ConsumedBehind, Coords
    <3> QED BY <1>2, <2>1, <2>2, <3>1, <3>2
  <2>3. CASE iter'[x] # iter[x]
    <3>1. iter'[x] = iter[x] + 1
          BY <2>3, AdvanceIts
    <3>2. \/ x \in Its(prog.points[loop]) /\ (IsDense(x) \/ Index(x) = c)
          \/ x = prog.lhs /\ ~IsDense(x) /\ stored
          BY <2>3, AdvanceIts
    <3>3. CASE IsDense(x)
      <4>1. x \in Its(prog.points[loop])
            BY <3>2, <3>3
      <4>2. iter[x] = Frontier /\ iter[x] < Bound(x)
            BY <1>1, <3>3, <4>1, RunningLoop DEF Cursors, IteratorsKeepPace, LiveAtFrontier, Iterating, Guard
      <4> QED BY <1>2, <1>3, <2>1, <3>1, <3>3, <4>2
    <3>4. CASE ~IsDense(x)
      <4>1. iter[x] + 1 \in DOMAIN crd[x] /\ crd[x][iter[x] + 1] = c
        <5>1. CASE x \in Its(prog.points[loop]) /\ Index(x) = c
              BY <1>1, <3>4, <5>1, RunningLoop, LiveIndex DEF Iterating
        <5>2. CASE x = prog.lhs /\ stored
              BY <1>1, <3>4, <5>2, ResultCell DEF Iteration
        <5> QED BY <3>2, <3>4, <5>1, <5>2
      <4>2. \A n \in DOMAIN crd[x] : n <= iter[x] + 1 => crd[x][n] <= c
            BY <2>1, <3>4, <4>1, SparseArray DEF Coords
      <4> QED BY <1>2, <1>3, <2>1, <3>1, <3>4, <4>1, <4>2, SparseArray DEF Coords
    <3> QED BY <3>3, <3>4
  <2> QED BY <2>2, <2>3
<1>5. ConsumedBehind'
      BY <1>1, <1>2, <1>3, <1>4 DEF ConsumedBehind, IsDense, Gathered
<1>6. \A j \in DOMAIN prog.points : Guard(j)' => Guard(j)
  <2> SUFFICES ASSUME NEW j \in DOMAIN prog.points, Guard(j)', NEW x \in Its(prog.points[j])
               PROVE  iter[x] < Bound(x)
      BY DEF Guard
  <2>1. x \in Gathered(prog) /\ iter'[x] < Bound(x)'
        BY <1>1, LatticeShape DEF Guard
  <2> QED BY <1>3, <1>4, <2>1
<1>7. LoopsStayExhausted'
      BY <1>1, <1>6 DEF LoopsStayExhausted
<1> QED BY <1>5, <1>6, <1>7

(* The iterators of the points that are still live stand at the new         *)
(* frontier: such a point is covered by the running loop, which has moved   *)
(* all of its iterators that stood at c.                                    *)
LEMMA AdvanceLive ==
    ASSUME ProgramOK, TypeOK, ReferenceOK, LoopsStayExhausted, Cursors,
           NEW c, NEW stored \in BOOLEAN, Iteration(c, stored)
    PROVE  LiveAtFrontier'
<1>1. prog' = prog /\ crd' = crd /\ loop' = loop /\ i' = c /\ Iterating(c)
      BY DEF Iteration
<1>2. c \in 0..(N - 1) /\ Frontier \in 0..N /\ Frontier' = c + 1 /\ c >= Frontier
      BY <1>1, RunningLoop, DimensionAssumption DEF Iterating, Coords, Frontier, TypeOK
<1> SUFFICES ASSUME NEW j \in DOMAIN prog.points, Guard(j)', NEW x \in Its(prog.points[j])
             PROVE  /\ IsDense(x) => iter'[x] = c + 1
                    /\ ~IsDense(x) => crd[x][iter'[x] + 1] >= c + 1
    BY <1>1, <1>2 DEF LiveAtFrontier, IsDense
<1>3. Guard(j)
      BY AdvanceBounds
<1>4. x \in Its(prog.points[loop]) /\ x \in Gathered(prog) /\ iter[x] \in Nat
      BY <1>1, <1>3, Covers, LatticeShape DEF LoopCoversLive, Iterating, TypeOK
<1>5. Index(x) \in Coords /\ c <= Index(x)
      BY <1>1, <1>3, <1>4, LiveIndex, RunningLoop
<1>6. CASE IsDense(x)
  <2>1. iter[x] = Frontier /\ Index(x) = iter[x]
        BY <1>3, <1>6, LiveIndex
  <2>2. iter'[x] = iter[x] + 1
        BY <1>4, <1>6, AdvanceIts
  <2> QED BY <1>2, <1>5, <1>6, <2>1, <2>2
<1>7. CASE ~IsDense(x)
  <2>1. iter[x] + 1 \in DOMAIN crd[x] /\ Index(x) = crd[x][iter[x] + 1]
        BY <1>3, <1>7, LiveIndex
  <2>2. CASE Index(x) = c
    <3>1. iter'[x] = iter[x] + 1
          BY <1>4, <2>2, AdvanceIts
    <3>2. iter'[x] < Len(crd[x])
      <4>1. iter'[x] < Bound(x)'
            BY <1>1 DEF Guard
      <4> QED BY <1>1, <1>7, <4>1 DEF Bound, IsDense
    <3>3. iter'[x] + 1 \in DOMAIN crd[x]
          BY <1>4, <1>7, <3>1, <3>2, SparseArray
    <3>4. crd[x][iter[x] + 1] < crd[x][iter'[x] + 1] /\ crd[x][iter'[x] + 1] \in Coords
          BY <1>4, <1>7, <2>1, <3>1, <3>3, SparseArray
    <3> QED BY <1>2, <1>7, <2>1, <2>2, <3>4 DEF Coords
  <2>3. CASE Index(x) # c
    <3>1. iter'[x] = iter[x]
          BY <1>4, <1>7, <2>3, AdvanceIts
    <3> QED BY <1>2, <1>5, <1>7, <2>1, <2>3, <3>1 DEF Coords
  <2> QED BY <2>2, <2>3
<1> QED BY <1>6, <1>7

(* The next free cell of the result is for a coordinate beyond c. *)
LEMMA AdvanceResult ==
    ASSUME ProgramOK, TypeOK, ReferenceOK, LoopsStayExhausted, Cursors,
           NEW c, NEW stored \in BOOLEAN, Iteration(c, stored)
    PROVE  ResultAtFrontier'
<1> DEFINE a == prog.lhs
<1>1. prog' = prog /\ crd' = crd /\ i' = c /\ Iterating(c)
      BY DEF Iteration
<1>2. c \in 0..(N - 1) /\ Frontier \in 0..N /\ Frontier' = c + 1 /\ c >= Frontier
      BY <1>1, RunningLoop, DimensionAssumption DEF Iterating, Coords, Frontier, TypeOK
<1> SUFFICES ASSUME ~IsDense(a), NEW n \in DOMAIN crd[a], n > iter'[a]
             PROVE  crd[a][n] >= c + 1
    BY <1>1, <1>2 DEF ResultAtFrontier, IsDense
<1>3. /\ a \in Gathered(prog) /\ iter[a] \in Nat /\ n \in Nat /\ crd[a][n] \in Coords
      /\ loop \in DOMAIN prog.points /\ a \notin Its(prog.points[loop])
      BY <1>1, SparseArray, RunningLoop, LatticeShape DEF Gathered, TypeOK
<1>4. CASE stored
  <2>1. iter'[a] = iter[a] + 1
        BY <1>3, <1>4, AdvanceIts
  <2>2. iter[a] + 1 \in DOMAIN crd[a] /\ crd[a][iter[a] + 1] = c
        BY <1>1, <1>4, ResultCell DEF Iteration
  <2>3. crd[a][iter[a] + 1] < crd[a][n]
        BY <1>3, <2>1, <2>2, SparseArray
  <2> QED BY <1>2, <1>3, <2>2, <2>3 DEF Coords
<1>5. CASE ~stored
  <2>1. iter'[a] = iter[a]
        BY <1>3, <1>5, AdvanceIts
  <2>2. crd[a][n] >= Frontier
        BY <2>1 DEF Cursors, IteratorsKeepPace, ResultAtFrontier
  <2>3. Simplify(prog.rhs, Present(crd[a][n])) # Zero
        BY <1>3 DEF ReferenceOK, ResultAllocated
  <2>4. crd[a][n] # c
        BY <1>5, <2>3 DEF Iteration
  <2>5. ~(crd[a][n] < c)
        BY <1>1, <1>3, <2>2, <2>3, NothingPassedOver, NothingWanted
  <2> QED BY <1>2, <1>3, <2>4, <2>5 DEF Coords
<1> QED BY <1>4, <1>5

(* The types after an iteration. *)
LEMMA AdvanceTypes ==
    ASSUME ProgramOK, TypeOK, Cursors, NEW c, NEW stored \in BOOLEAN, Iteration(c, stored),
           DOMAIN values' = Coords
    PROVE  TypeOK'
<1>1. prog' = prog /\ crd' = crd /\ loop' = loop /\ i' = c /\ c \in Coords
      BY DEF Iteration, Iterating
<1>2. iter' \in [Gathered(prog) -> Nat]
  <2>1. \A x \in Gathered(prog) : iter'[x] \in Nat
        BY AdvanceIts
  <2>2. iter' = [x \in Gathered(prog) |-> iter'[x]]
        BY DEF Iteration, Advanced
  <2> QED BY <2>1, <2>2
<1>3. i' \in -1..(N - 1)
      BY <1>1, DimensionAssumption DEF Coords
<1> QED BY <1>1, <1>2, <1>3 DEF TypeOK, Gathered

-----------------------------------------------------------------------------
(* The result after an iteration.                                           *)

(* Storing at c what is wanted there settles c and everything before it. *)
LEMMA StoreResult ==
    ASSUME Inv, NEW c, NEW e, Iteration(c, TRUE), Store(e, c), Computed(e, c) = Wanted(c)
    PROVE  /\ \A d \in Coords : Result(d)' = IF d = c THEN wanted[c] ELSE Result(d)
           /\ BehindFrontier'
           /\ DOMAIN values' = Coords
<1> USE DEF Inv
<1>1. prog' = prog /\ crd' = crd /\ loop' = loop /\ i' = c /\ wanted' = wanted /\ Iterating(c)
      BY DEF Iteration
<1>2. c \in 0..(N - 1) /\ Frontier \in 0..N /\ Frontier' = c + 1 /\ c >= Frontier /\ c \in Coords
      BY <1>1, RunningLoop, DimensionAssumption DEF Iterating, Coords, Frontier, TypeOK
<1>3. Stores(prog.lhs, c) /\ Position(prog.lhs, c) = PositionOf(prog.lhs, c)
      BY <1>1, ResultCell DEF Iteration
<1>4. DOMAIN values' = Coords /\ DOMAIN values = Coords
      BY DEF Store, TypeOK
<1>5. values' = [values EXCEPT ![PositionOf(prog.lhs, c)] = wanted[c]]
      BY <1>2, <1>3 DEF Store, ReferenceOK
<1>6. ASSUME NEW d \in Coords
      PROVE  Result(d)' = IF d = c THEN wanted[c] ELSE Result(d)
  <2>1. Stores(prog.lhs, d)' = Stores(prog.lhs, d) /\ PositionOf(prog.lhs, d)' = PositionOf(prog.lhs, d)
        BY <1>1 DEF Stores, PositionOf, IsDense
  <2>2. Result(d)' = IF Stores(prog.lhs, d) THEN values'[PositionOf(prog.lhs, d)] ELSE Untouched
        BY <1>1, <2>1 DEF Result
  <2>3. Stores(prog.lhs, d) => PositionOf(prog.lhs, d) \in Coords
        BY CellInRange
  <2>4. CASE d = c
        BY <1>3, <1>4, <1>5, <2>2, <2>3, <2>4
  <2>5. CASE d # c
    <3>1. Stores(prog.lhs, d) => PositionOf(prog.lhs, d) # PositionOf(prog.lhs, c)
          BY <1>2, <1>3, <2>5, CellsDistinct
    <3>2. Stores(prog.lhs, d) => values'[PositionOf(prog.lhs, d)] = values[PositionOf(prog.lhs, d)]
          BY <1>4, <1>5, <2>3, <3>1
    <3> QED BY <2>2, <2>5, <3>2 DEF Result
  <2> QED BY <2>4, <2>5
<1>7. ASSUME NEW d \in Coords
      PROVE  Result(d)' = IF d < c + 1 THEN wanted[d] ELSE Untouched
  <2>1. d \in 0..(N - 1) /\ Result(d) = IF d < Frontier THEN wanted[d] ELSE Untouched
        BY DEF BehindFrontier, Coords
  <2>2. d >= Frontier /\ d < c => wanted[d] = Untouched
        BY <1>1, NothingPassedOver, NothingWanted DEF ReferenceOK
  <2> QED BY <1>2, <1>6, <2>1, <2>2
<1> QED BY <1>1, <1>2, <1>4, <1>6, <1>7 DEF BehindFrontier

(* Storing nothing settles c when nothing is wanted there. *)
LEMMA SkipResult ==
    ASSUME Inv, NEW c, Iteration(c, FALSE), UNCHANGED values, Wanted(c) = Untouched
    PROVE  /\ \A d \in Coords : Result(d)' = Result(d)
           /\ Result(c) = Untouched
           /\ BehindFrontier'
<1> USE DEF Inv
<1>1. prog' = prog /\ crd' = crd /\ loop' = loop /\ i' = c /\ wanted' = wanted /\ Iterating(c)
      BY DEF Iteration
<1>2. c \in 0..(N - 1) /\ Frontier \in 0..N /\ Frontier' = c + 1 /\ c >= Frontier /\ c \in Coords
      BY <1>1, RunningLoop, DimensionAssumption DEF Iterating, Coords, Frontier, TypeOK
<1>3. \A d \in Coords : Result(d)' = Result(d)
      BY <1>1 DEF Result, Stores, PositionOf, IsDense
<1>4. ASSUME NEW d \in Coords
      PROVE  Result(d)' = IF d < c + 1 THEN wanted[d] ELSE Untouched
  <2>1. d \in 0..(N - 1) /\ Result(d) = IF d < Frontier THEN wanted[d] ELSE Untouched
        BY DEF BehindFrontier, Coords
  <2>2. d >= Frontier /\ d < c => wanted[d] = Untouched
        BY <1>1, NothingPassedOver, NothingWanted DEF ReferenceOK
  <2>3. wanted[c] = Untouched
        BY <1>2 DEF ReferenceOK
  <2> QED BY <1>2, <1>3, <2>1, <2>2, <2>3
<1>5. Result(c) = Untouched
      BY <1>2 DEF BehindFrontier
<1> QED BY <1>1, <1>2, <1>3, <1>4, <1>5 DEF BehindFrontier

-----------------------------------------------------------------------------
(* The steps.                                                               *)

(* Each action that runs an iteration is an Iteration that stores if and    *)
(* only if something is wanted.                                             *)
LEMMA BranchStep ==
    ASSUME Inv, TakeBranch
    PROVE  \E c \in Coords : \E e :
              /\ Iteration(c, TRUE) /\ Store(e, c) /\ Computed(e, c) = Wanted(c)
              /\ \A x \in Operands(e) : ReadAt(x, c) < Bound(x)
<1> USE DEF Inv
<1>1. PICK c \in Coords :
          /\ IterateAt(c)
          /\ \E j \in DOMAIN prog.points : IsFirstMatch(loop, j, c) /\ Store(prog.points[j].expr, c)
          /\ iter' = Advanced(loop, c, TRUE)
      BY DEF TakeBranch
<1>2. PICK j \in DOMAIN prog.points : IsFirstMatch(loop, j, c) /\ Store(prog.points[j].expr, c)
      BY <1>1
<1>3. Iterating(c)
      BY <1>1 DEF IterateAt, Iterating
<1> DEFINE e == prog.points[j].expr
<1>4. /\ Simplify(prog.rhs, Present(c)) # Zero
      /\ Computed(e, c) = Wanted(c)
      /\ \A x \in Operands(e) : ReadAt(x, c) < Bound(x)
      BY <1>2, <1>3, BranchWanted
<1>5. Iteration(c, TRUE)
      BY <1>1, <1>3, <1>4 DEF IterateAt, Iteration
<1> QED BY <1>2, <1>4, <1>5

LEMMA WholeStep ==
    ASSUME Inv, StoreWhole
    PROVE  \E c \in Coords : \E e :
              /\ Iteration(c, TRUE) /\ Store(e, c) /\ Computed(e, c) = Wanted(c)
              /\ \A x \in Operands(e) : ReadAt(x, c) < Bound(x)
<1> USE DEF Inv
<1>1. PICK c \in Coords :
          /\ IterateAt(c)
          /\ Branches(loop) = {}
          /\ Store(prog.rhs, c)
          /\ iter' = Advanced(loop, c, TRUE)
      BY DEF StoreWhole
<1>2. Iterating(c)
      BY <1>1 DEF IterateAt, Iterating
<1>3. /\ Simplify(prog.rhs, Present(c)) # Zero
      /\ Computed(prog.rhs, c) = Wanted(c)
      /\ \A x \in Operands(prog.rhs) : ReadAt(x, c) < Bound(x)
      BY <1>1, <1>2, WholeWanted
<1>4. Iteration(c, TRUE)
      BY <1>1, <1>2, <1>3 DEF IterateAt, Iteration
<1> QED BY <1>1, <1>3, <1>4

LEMMA SkipStep ==
    ASSUME Inv, SkipCoordinate
    PROVE  \E c \in Coords : Iteration(c, FALSE) /\ UNCHANGED values /\ Wanted(c) = Untouched
<1> USE DEF Inv
<1>1. PICK c \in Coords :
          /\ IterateAt(c)
          /\ Branches(loop) # {}
          /\ \A j \in Branches(loop) : ~Matches(j, c)
          /\ iter' = Advanced(loop, c, FALSE)
          /\ UNCHANGED values
      BY DEF SkipCoordinate
<1>2. Iterating(c)
      BY <1>1 DEF IterateAt, Iterating
<1>3. Simplify(prog.rhs, Present(c)) = Zero /\ Wanted(c) = Untouched
      BY <1>1, <1>2, SkipWanted
<1>4. Iteration(c, FALSE)
      BY <1>1, <1>2, <1>3 DEF IterateAt, Iteration
<1> QED BY <1>1, <1>3, <1>4

(* The reference does not change while the assignment and its data do not. *)
LEMMA ReferenceStable ==
    ASSUME ReferenceOK, prog' = prog, crd' = crd, wanted' = wanted
    PROVE  ReferenceOK'
<1>1. \A d : Present(d)' = Present(d)
      BY DEF Present, Stores, IsDense
<1>2. \A x, d : PositionOf(x, d)' = PositionOf(x, d)
      BY DEF PositionOf, IsDense
<1>3. \A d : Wanted(d)' = Wanted(d)
      BY <1>1, <1>2 DEF Wanted
<1>4. ResultAllocated' <=> ResultAllocated
      BY <1>1 DEF ResultAllocated
<1> QED BY <1>3, <1>4 DEF ReferenceOK, IsDense

(* What all iterations have in common. *)
LEMMA IterationStep ==
    ASSUME Inv, NEW c, NEW stored \in BOOLEAN, Iteration(c, stored),
           BehindFrontier', DOMAIN values' = Coords
    PROVE  Inv'
<1> USE DEF Inv
<1>1. prog' = prog /\ crd' = crd /\ wanted' = wanted
      BY DEF Iteration
<1>2. ProgramOK'
      BY <1>1 DEF ProgramOK
<1>3. ReferenceOK'
      BY <1>1, ReferenceStable
<1>4. TypeOK'
      BY AdvanceTypes
<1>5. LoopsStayExhausted' /\ Cursors'
      BY AdvanceBounds, AdvanceLive, AdvanceResult DEF Cursors, IteratorsKeepPace
<1> QED BY <1>2, <1>3, <1>4, <1>5

LEMMA StoreStep ==
    ASSUME Inv, \E c \in Coords : \E e :
              /\ Iteration(c, TRUE) /\ Store(e, c) /\ Computed(e, c) = Wanted(c)
              /\ \A x \in Operands(e) : ReadAt(x, c) < Bound(x)
    PROVE  Inv'
<1>0. PICK c \in Coords : \E e : Iteration(c, TRUE) /\ Store(e, c) /\ Computed(e, c) = Wanted(c)
      OBVIOUS
<1>1. PICK e : Iteration(c, TRUE) /\ Store(e, c) /\ Computed(e, c) = Wanted(c)
      BY <1>0
<1>2. BehindFrontier' /\ DOMAIN values' = Coords
      BY <1>1, StoreResult
<1> QED BY <1>1, <1>2, IterationStep

LEMMA LeaveStep ==
    ASSUME Inv, LeaveLoop
    PROVE  Inv'
<1> USE DEF Inv
<1>1. /\ prog' = prog /\ crd' = crd /\ iter' = iter /\ i' = i /\ values' = values /\ wanted' = wanted
      /\ loop' = loop + 1 /\ loop \in 1..Len(prog.points) /\ ~Guard(loop)
      BY LatticeShape DEF LeaveLoop, TypeOK
<1>2. ProgramOK' /\ TypeOK'
      BY <1>1, LatticeShape DEF ProgramOK, TypeOK, Gathered
<1>3. ReferenceOK'
      BY <1>1, ReferenceStable
<1>4. Cursors'
  <2>1. ConsumedBehind'
        BY <1>1 DEF Cursors, IteratorsKeepPace, ConsumedBehind, Bound, IsDense, Frontier, Gathered
  <2>2. LiveAtFrontier'
        BY <1>1 DEF Cursors, IteratorsKeepPace, LiveAtFrontier, Guard, Bound, IsDense, Frontier
  <2>3. ResultAtFrontier'
        BY <1>1 DEF Cursors, IteratorsKeepPace, ResultAtFrontier, IsDense, Frontier
  <2> QED BY <2>1, <2>2, <2>3 DEF Cursors, IteratorsKeepPace
<1>5. BehindFrontier'
  <2>1. \A d \in Coords : Result(d)' = Result(d)
        BY <1>1 DEF Result, Stores, PositionOf, IsDense
  <2> QED BY <1>1, <2>1 DEF BehindFrontier, Frontier
<1>6. LoopsStayExhausted'
  <2> SUFFICES ASSUME NEW j \in DOMAIN prog.points, j < loop + 1 PROVE ~Guard(j)
      BY <1>1 DEF LoopsStayExhausted, Guard, Bound, IsDense
  <2>1. j < loop \/ j = loop
        BY <1>1, LatticeShape
  <2> QED BY <1>1, <2>1 DEF LoopsStayExhausted
<1> QED BY <1>2, <1>3, <1>4, <1>5, <1>6

LEMMA StutterStep ==
    ASSUME Inv, UNCHANGED vars
    PROVE  Inv'
<1> USE DEF Inv
<1>1. /\ prog' = prog /\ crd' = crd /\ iter' = iter /\ i' = i /\ values' = values /\ wanted' = wanted
      /\ loop' = loop
      BY DEF vars
<1>2. ProgramOK' /\ TypeOK'
      BY <1>1 DEF ProgramOK, TypeOK, Gathered
<1>3. ReferenceOK'
      BY <1>1, ReferenceStable
<1>4. Cursors'
  <2>1. ConsumedBehind'
        BY <1>1 DEF Cursors, IteratorsKeepPace, ConsumedBehind, Bound, IsDense, Frontier, Gathered
  <2>2. LiveAtFrontier'
        BY <1>1 DEF Cursors, IteratorsKeepPace, LiveAtFrontier, Guard, Bound, IsDense, Frontier
  <2>3. ResultAtFrontier'
        BY <1>1 DEF Cursors, IteratorsKeepPace, ResultAtFrontier, IsDense, Frontier
  <2> QED BY <2>1, <2>2, <2>3 DEF Cursors, IteratorsKeepPace
<1>5. BehindFrontier'
  <2>1. \A d \in Coords : Result(d)' = Result(d)
        BY <1>1 DEF Result, Stores, PositionOf, IsDense
  <2> QED BY <1>1, <2>1 DEF BehindFrontier, Frontier
<1>6. LoopsStayExhausted'
      BY <1>1 DEF LoopsStayExhausted, Guard, Bound, IsDense
<1> QED BY <1>2, <1>3, <1>4, <1>5, <1>6

LEMMA InvNext ==
    ASSUME Inv, [Next]_vars
    PROVE  Inv'
<1>1. CASE TakeBranch
      BY <1>1, BranchStep, StoreStep
<1>2. CASE SkipCoordinate
  <2>1. PICK c \in Coords : Iteration(c, FALSE) /\ UNCHANGED values /\ Wanted(c) = Untouched
        BY <1>2, SkipStep
  <2>2. BehindFrontier' /\ DOMAIN values' = Coords
        BY <2>1, SkipResult DEF Inv, TypeOK
  <2> QED BY <2>1, <2>2, IterationStep
<1>3. CASE StoreWhole
      BY <1>3, WholeStep, StoreStep
<1>4. CASE LeaveLoop
      BY <1>4, LeaveStep
<1>5. CASE Return \/ UNCHANGED vars
      BY <1>5, StutterStep DEF Return
<1> QED BY <1>1, <1>2, <1>3, <1>4, <1>5 DEF Next

LEMMA InvInit ==
    ASSUME ProgramsOK, Init
    PROVE  Inv
<1>1. prog \in Programs /\ ProgramOK
      BY DEF Init, ProgramsOK, ProgramOK
<1>2. PICK s \in [Gathered(prog) \ prog.dense -> CoordinateArrays] :
          crd = [x \in Gathered(prog) |-> IF IsDense(x) THEN << >> ELSE s[x]]
      BY DEF Init
<1>3. TypeOK
  <2>1. << >> \in CoordinateArrays
    <3>1. << >> \in [1..0 -> Coords] /\ Sorted(<< >>) /\ 0 \in 0..N
          BY DimensionAssumption DEF Sorted
    <3> QED BY <3>1 DEF CoordinateArrays
  <2>2. crd \in [Gathered(prog) -> CoordinateArrays]
        BY <1>2, <2>1 DEF IsDense
  <2>3. loop \in 1..(Len(prog.points) + 1)
        BY <1>1, LatticeShape DEF Init
  <2> QED BY <2>2, <2>3, DimensionAssumption DEF Init, TypeOK
<1>4. ReferenceOK
      BY DEF Init, ReferenceOK
<1>5. LoopsStayExhausted
      BY <1>1, LatticeShape DEF LoopsStayExhausted, Init
<1>6. Cursors
  <2>1. Frontier = 0 /\ \A x \in Gathered(prog) : iter[x] = 0
        BY DEF Init, Frontier
  <2>2. \A x \in Gathered(prog) : ~IsDense(x) =>
            /\ Len(crd[x]) \in Nat
            /\ \A n \in DOMAIN crd[x] : n > 0 /\ crd[x][n] >= 0
        BY <1>3, SparseArray DEF Coords
  <2>3. ConsumedBehind
        BY <2>1, <2>2, DimensionAssumption DEF ConsumedBehind, Bound
  <2>4. LiveAtFrontier
    <3> SUFFICES ASSUME NEW j \in DOMAIN prog.points, Guard(j), NEW x \in Its(prog.points[j]), ~IsDense(x)
                 PROVE  crd[x][iter[x] + 1] >= 0
        BY <1>1, <2>1, LatticeShape DEF LiveAtFrontier
    <3>1. x \in Gathered(prog) /\ iter[x] = 0 /\ 0 < Len(crd[x])
          BY <1>1, <2>1, LatticeShape DEF Guard, Bound
    <3> QED BY <1>3, <2>2, <3>1, SparseArray
  <2>5. ResultAtFrontier
        BY <2>1, <2>2 DEF ResultAtFrontier, Gathered
  <2> QED BY <2>3, <2>4, <2>5 DEF Cursors, IteratorsKeepPace
<1>7. BehindFrontier
  <2> SUFFICES ASSUME NEW d \in Coords PROVE Result(d) = Untouched
      BY DEF BehindFrontier, Init, Frontier, Coords
  <2>1. Stores(prog.lhs, d) => PositionOf(prog.lhs, d) \in Coords
        BY <1>3, CellInRange
  <2> QED BY <2>1 DEF Result, Init
<1> QED BY <1>1, <1>3, <1>4, <1>5, <1>6, <1>7 DEF Inv

-----------------------------------------------------------------------------
(* The theorems.                                                            *)

(* The inductive invariant holds in every reachable state. *)
THEOREM Invariance ==
    ASSUME ProgramsOK
    PROVE  Spec => []Inv
<1>1. Init => Inv
      BY InvInit
<1>2. Inv /\ [Next]_vars => Inv'
      BY InvNext
<1> QED BY <1>1, <1>2, PTL DEF Spec

(* Type correctness: the iterators, the loop and the logical index keep     *)
(* their ranges.                                                            *)
THEOREM TypeCorrect ==
    ASSUME ProgramsOK
    PROVE  Spec => []TypeOK
<1>1. Inv => TypeOK
      BY DEF Inv
<1> QED BY <1>1, Invariance, PTL

(* The loops hand their iterators on to each other: none skips an element,  *)
(* and none of a loop that can still run lags behind.                       *)
THEOREM IteratorsAlwaysKeepPace ==
    ASSUME ProgramsOK
    PROVE  Spec => []IteratorsKeepPace
<1>1. Inv => IteratorsKeepPace
      BY DEF Inv, Cursors
<1> QED BY <1>1, Invariance, PTL

(* Where no point is live, the assignment is zero from the frontier on. *)
LEMMA NothingLeft ==
    ASSUME Inv, \A j \in DOMAIN prog.points : ~Guard(j),
           NEW d \in Coords, d >= Frontier
    PROVE  wanted[d] = Untouched
<1> USE DEF Inv
<1>1. NothingPresent(d)
      BY PresentIsLive DEF NothingPresent
<1> QED BY <1>1, NothingWanted DEF ReferenceOK

LEMMA InvElementWise ==
    ASSUME Inv
    PROVE  ElementWise
<1>1. ASSUME Returned, NEW c \in Coords PROVE Result(c) = wanted[c]
  <2>1. \A j \in DOMAIN prog.points : ~Guard(j)
        BY <1>1, LatticeShape DEF Inv, LoopsStayExhausted, Returned, TypeOK
  <2>2. c \in 0..(N - 1) /\ Frontier \in 0..N
        BY <1>1, DimensionAssumption DEF Inv, TypeOK, Frontier, Coords
  <2>3. c >= Frontier => wanted[c] = Untouched
        BY <1>1, <2>1, NothingLeft
  <2> QED BY <1>1, <2>2, <2>3 DEF Inv, BehindFrontier
<1> QED BY <1>1 DEF Inv, BehindFrontier, ElementWise

(* The kernel computes the assignment element-wise: every coordinate has    *)
(* its value as soon as the frontier has passed it, no sooner, and all have *)
(* it when the kernel returns.                                              *)
THEOREM ElementWiseCorrect ==
    ASSUME ProgramsOK
    PROVE  Spec => []ElementWise
BY InvElementWise, Invariance, PTL

(* While a loop runs, no array that can still contribute is missing from    *)
(* its iterators.                                                           *)
THEOREM LoopsCoverLive ==
    ASSUME ProgramsOK
    PROVE  Spec => []LoopCoversLive
<1>1. Inv => LoopCoversLive
      BY Covers DEF Inv
<1> QED BY <1>1, Invariance, PTL

-----------------------------------------------------------------------------
(* Stores never read past the end of an operand. *)
StoresInBounds ==
    \A c \in Coords : \A x \in DOMAIN values[c].at : values[c].at[x] < Bound(x)

LEMMA StoresInBoundsStep ==
    ASSUME Inv, StoresInBounds, [Next]_vars
    PROVE  StoresInBounds'
<1> USE DEF Inv
<1>1. prog' = prog /\ crd' = crd
      BY DEF Next, TakeBranch, SkipCoordinate, StoreWhole, LeaveLoop, Return, IterateAt, vars
<1>2. \A x : Bound(x)' = Bound(x)
      BY <1>1 DEF Bound, IsDense
<1>3. CASE TakeBranch \/ StoreWhole
  <2>0. PICK c \in Coords : \E e : Store(e, c) /\ \A x \in Operands(e) : ReadAt(x, c) < Bound(x)
        BY <1>3, BranchStep, WholeStep
  <2>1. PICK e : Store(e, c) /\ \A x \in Operands(e) : ReadAt(x, c) < Bound(x)
        BY <2>0
  <2>2. DOMAIN Computed(e, c).at = Operands(e) /\ \A x \in Operands(e) : Computed(e, c).at[x] = ReadAt(x, c)
        BY DEF Computed, Value
  <2>3. ASSUME NEW d \in Coords PROVE values'[d] = values[d] \/ values'[d] = Computed(e, c)
        BY <2>1 DEF Store, TypeOK
  <2> QED BY <1>2, <2>1, <2>2, <2>3 DEF StoresInBounds
<1>4. CASE UNCHANGED values
      BY <1>2, <1>4 DEF StoresInBounds
<1> QED BY <1>3, <1>4 DEF Next, SkipCoordinate, LeaveLoop, Return, vars

(* No iterator passes the end of its array and no store reads past it. *)
THEOREM AccessesInBounds ==
    ASSUME ProgramsOK
    PROVE  Spec => []InBounds
<1>1. Init => StoresInBounds
      BY DEF Init, StoresInBounds, Untouched, Value
<1>2. Inv /\ StoresInBounds /\ [Next]_vars => StoresInBounds'
      BY StoresInBoundsStep
<1>3. Inv /\ StoresInBounds => InBounds
      BY DEF Inv, Cursors, IteratorsKeepPace, ConsumedBehind, StoresInBounds, InBounds
<1> QED BY <1>1, <1>2, <1>3, Invariance, PTL DEF Spec

(* No coordinate is computed twice, by whichever loops. *)
THEOREM CoordinatesAscendAlways ==
    ASSUME ProgramsOK
    PROVE  Spec => CoordinatesAscend
<1>1. ASSUME Inv, [Next]_vars PROVE [loop' = loop => i' > i]_vars
  <2> USE DEF Inv
  <2>1. ASSUME NEW c, NEW stored, Iteration(c, stored) PROVE i' > i
    <3>1. i' = c /\ c >= Frontier /\ c \in Coords
          BY <1>1, <2>1, RunningLoop DEF Iteration, Iterating
    <3> QED BY <1>1, <3>1, DimensionAssumption DEF Frontier, TypeOK, Coords
  <2>2. CASE TakeBranch \/ StoreWhole
        BY <1>1, <2>1, <2>2, BranchStep, WholeStep
  <2>3. CASE SkipCoordinate
        BY <1>1, <2>1, <2>3, SkipStep
  <2>4. CASE LeaveLoop
        BY <1>1, <2>4, LatticeShape DEF LeaveLoop, TypeOK
  <2>5. CASE UNCHANGED vars
        BY <2>5
  <2> QED BY <1>1, <2>2, <2>3, <2>4, <2>5 DEF Next, Return
<1> QED BY <1>1, Invariance, PTL DEF Spec, CoordinatesAscend

-----------------------------------------------------------------------------
(* The kernel implements the abstract assignment: an iteration settles the  *)
(* coordinate of its logical index, leaving the last loop finishes, leaving *)
(* any other loop is a stuttering step.                                     *)
THEOREM Refinement ==
    ASSUME ProgramsOK
    PROVE  Spec => Implements
<1> USE DEF Inv
<1>1. ASSUME Init PROVE Assign!Init
  <2>1. Inv
        BY <1>1, InvInit
  <2>2. wanted = [c \in Coords |-> Wanted(c)] /\ Frontier = 0
        BY <1>1 DEF Init, Frontier
  <2>3. \A c \in Coords : Result(c) = Untouched
        BY <2>1, <2>2 DEF BehindFrontier, Coords
  <2>4. ~Returned
        BY <1>1, <2>1, LatticeShape DEF Returned, Init
  <2> QED BY <2>2, <2>3, <2>4 DEF Assign!Init, Assign!Coords, Coords
<1>2. ASSUME Inv, [Next]_vars PROVE [Assign!Next]_Assign!vars
  <2>0. Inv'
        BY <1>2, InvNext
  <2>1. ASSUME NEW c \in Coords, NEW stored \in BOOLEAN, Iteration(c, stored),
               \A d \in Coords : Result(d)' = IF d = c THEN wanted[c] ELSE Result(d)
        PROVE  Assign!Settle(c)
    <3>1. loop' = loop /\ prog' = prog /\ wanted' = wanted /\ Frontier' = c + 1 /\ Iterating(c)
          BY <2>1 DEF Iteration, Frontier
    <3>2. ~Returned /\ ~Returned' /\ Returned' = Returned
          BY <1>2, <3>1, LatticeShape DEF Returned, Iterating, TypeOK
    <3>3. Frontier <= c /\ Frontier \in 0..N /\ c \in 0..(N - 1)
          BY <1>2, <3>1, RunningLoop, DimensionAssumption DEF TypeOK, Frontier, Coords
    <3>4. \A d \in Frontier..(c - 1) : wanted[d] = Untouched
      <4> SUFFICES ASSUME NEW d \in Frontier..(c - 1) PROVE wanted[d] = Untouched
          OBVIOUS
      <4>1. d \in Coords /\ d >= Frontier /\ d < c
            BY <3>3, DimensionAssumption DEF Coords
      <4> QED BY <1>2, <3>1, <4>1, NothingPassedOver, NothingWanted DEF ReferenceOK
    <3>5. [d \in Coords |-> Result(d)]' = [[d \in Coords |-> Result(d)] EXCEPT ![c] = wanted[c]]
          BY <2>1
    <3> QED BY <3>1, <3>2, <3>3, <3>4, <3>5 DEF Assign!Settle, Assign!Passes
  <2>2. CASE TakeBranch \/ StoreWhole
    <3>0. PICK c \in Coords : \E e : Iteration(c, TRUE) /\ Store(e, c) /\ Computed(e, c) = Wanted(c)
          BY <1>2, <2>2, BranchStep, WholeStep
    <3>1. PICK e : Iteration(c, TRUE) /\ Store(e, c) /\ Computed(e, c) = Wanted(c)
          BY <3>0
    <3>2. \A d \in Coords : Result(d)' = IF d = c THEN wanted[c] ELSE Result(d)
          BY <1>2, <3>1, StoreResult
    <3>3. Assign!Settle(c)
          BY <2>1, <3>1, <3>2
    <3> QED BY <3>3 DEF Assign!Next, Assign!Coords, Coords
  <2>3. CASE SkipCoordinate
    <3>1. PICK c \in Coords : Iteration(c, FALSE) /\ UNCHANGED values /\ Wanted(c) = Untouched
          BY <1>2, <2>3, SkipStep
    <3>2. /\ \A d \in Coords : Result(d)' = Result(d)
          /\ Result(c) = Untouched /\ wanted[c] = Untouched
          BY <1>2, <3>1, SkipResult DEF ReferenceOK
    <3>3. \A d \in Coords : Result(d)' = IF d = c THEN wanted[c] ELSE Result(d)
          BY <3>2
    <3>4. Assign!Settle(c)
          BY <2>1, <3>1, <3>3
    <3> QED BY <3>4 DEF Assign!Next, Assign!Coords, Coords
  <2>4. CASE LeaveLoop
    <3>1. /\ prog' = prog /\ crd' = crd /\ i' = i /\ values' = values /\ wanted' = wanted
          /\ loop' = loop + 1 /\ loop <= Len(prog.points) /\ loop \in Nat
          BY <1>2, <2>4, LatticeShape DEF LeaveLoop, TypeOK
    <3>2. Frontier' = Frontier /\ [d \in Coords |-> Result(d)]' = [d \in Coords |-> Result(d)]
          BY <3>1 DEF Result, Stores, PositionOf, IsDense, Frontier
    <3>3. ~Returned
          BY <1>2, <3>1, LatticeShape DEF Returned
    <3>4. CASE Returned'
      <4>1. \A j \in DOMAIN prog.points : ~Guard(j)
        <5>1. \A j \in DOMAIN prog.points : j < loop'
              BY <1>2, <3>1, <3>4, LatticeShape DEF Returned
        <5>2. \A j \in DOMAIN prog.points : j < loop \/ j = loop
              BY <1>2, <3>1, <5>1, LatticeShape
        <5> QED BY <1>2, <2>4, <5>2 DEF LoopsStayExhausted, LeaveLoop
      <4>2. Assign!Passes(N)
        <5> SUFFICES ASSUME NEW d \in Frontier..(N - 1) PROVE wanted[d] = Untouched
            BY DEF Assign!Passes
        <5>1. d \in Coords /\ d >= Frontier
              BY <1>2, DimensionAssumption DEF TypeOK, Frontier, Coords
        <5> QED BY <1>2, <4>1, <5>1, NothingLeft
      <4>3. Assign!Finish
            BY <3>1, <3>2, <3>3, <3>4, <4>2 DEF Assign!Finish
      <4> QED BY <4>3 DEF Assign!Next
    <3>5. CASE ~Returned'
      <4>1. Returned' = Returned
            BY <3>3, <3>5 DEF Returned
      <4> QED BY <3>1, <3>2, <4>1 DEF Assign!vars
    <3> QED BY <3>4, <3>5
  <2>5. CASE UNCHANGED vars
    <3>1. Frontier' = Frontier /\ Returned' = Returned /\ wanted' = wanted
          BY <2>5 DEF vars, Frontier, Returned
    <3>2. [d \in Coords |-> Result(d)]' = [d \in Coords |-> Result(d)]
          BY <2>5 DEF vars, Result, Stores, PositionOf, IsDense
    <3> QED BY <3>1, <3>2 DEF Assign!vars
  <2> QED BY <1>2, <2>2, <2>3, <2>4, <2>5 DEF Next, Return
<1>3. Spec => [][Assign!Next]_Assign!vars
  <2> HIDE DEF Inv
  <2> QED BY <1>2, Invariance, PTL DEF Spec
<1> QED BY <1>1, <1>3, PTL DEF Spec, Implements, Assign!Spec
-----------------------------------------------------------------------------
(* The programs that compile makes of assignments in which no array is      *)
(* read twice.                                                              *)
Compiled ==
    \A p \in Programs :
        /\ \E lhs, rhs, dense :
              /\ p = Lowered(lhs, rhs, dense)
              /\ IsExpression(rhs) /\ ReadsOnce(rhs)
              /\ lhs \in Operands(rhs) => Operands(rhs) \subseteq dense
        /\ Supported(p)

(* What MergeLattice::make builds satisfies the hypothesis of the theorems. *)
LEMMA CompiledOK ==
    ASSUME Compiled
    PROVE  ProgramsOK
<1> SUFFICES ASSUME NEW p \in Programs
             PROVE  WellFormed(p) /\ Supported(p)
    BY DEF ProgramsOK
<1>1. PICK lhs, rhs, dense :
          /\ p = Lowered(lhs, rhs, dense)
          /\ IsExpression(rhs) /\ ReadsOnce(rhs)
          /\ lhs \in Operands(rhs) => Operands(rhs) \subseteq dense
      BY DEF Compiled
<1>2. p.lhs = lhs /\ p.rhs = rhs /\ p.dense = dense /\ p.points = Make(Convert(rhs))
      BY <1>1 DEF Lowered
<1>3. WellFormedLattice(Make(Convert(rhs)), rhs)
      BY <1>1, MakeWellFormed
<1>4. WellFormed(p)
      BY <1>1, <1>2, <1>3 DEF WellFormed
<1> QED BY <1>4 DEF Compiled

(* The compiler is right: whatever the assignment, its formats, its         *)
(* dimension and the contents of its operands, the kernel made of it        *)
(* computes every element of the result from the elements that belong to it.*)
THEOREM CompilerCorrect ==
    ASSUME Compiled
    PROVE  Spec => []ElementWise
BY CompiledOK, ElementWiseCorrect
=============================================================================
