------------------------- MODULE MergeLatticeProofs -------------------------
(***************************************************************************)
(* The visitor that builds the merge lattices is right for every           *)
(* assignment that reads no array twice, whatever its size.                *)
(*                                                                         *)
(* The argument is LatticeProofs': at every node the lattices on the stack *)
(* stand for consecutive parts of the right-hand side (Visited), a lattice *)
(* stands for an expression when it is complete, closed under joins and    *)
(* ordered (LatticeFor), and the merge of the lattices of two operands     *)
(* that read different arrays is the lattice of the operator.              *)
(***************************************************************************)
EXTENDS VectorCompiler, LatticeProofs

Inv ==
    /\ rhs \in Inputs
    /\ sexpr = Convert(rhs)
    /\ node \in 1..(Len(rhs) + 1)
    /\ Visited(rhs, node - 1, stack)

LEMMA InputExpression ==
    ASSUME rhs \in Inputs
    PROVE  /\ IsExpression(rhs) /\ ReadsOnce(rhs)
           /\ Len(rhs) \in Nat \ {0} /\ Len(Convert(rhs)) = Len(rhs)
<1>1. IsExpression(rhs) /\ ReadsOnce(rhs)
      BY InputsAssumption
<1>2. Len(rhs) \in Nat \ {0} /\ DOMAIN rhs = 1..Len(rhs)
      BY <1>1, ExpressionTokens
<1>3. Len(Convert(rhs)) = Len(rhs)
      BY <1>2, ConvertedLength
<1> QED BY <1>1, <1>2, <1>3

LEMMA InvInit == VisitorInit => Inv
<1> SUFFICES ASSUME VisitorInit
             PROVE  Inv
    OBVIOUS
<1>1. rhs \in Inputs /\ sexpr = Convert(rhs) /\ node = 1 /\ stack = << >>
      BY DEF VisitorInit
<1>2. Len(rhs) \in Nat
      BY <1>1, InputExpression
<1>3. Visited(rhs, 0, stack)
      BY <1>1, VisitsNothing
<1> QED BY <1>1, <1>2, <1>3 DEF Inv

LEMMA InvNext == Inv /\ [VisitorNext]_visitorvars => Inv'
<1> SUFFICES ASSUME Inv, [VisitorNext]_visitorvars
             PROVE  Inv'
    OBVIOUS
<1> USE DEF Inv
<1>1. IsExpression(rhs) /\ ReadsOnce(rhs) /\ Len(rhs) \in Nat /\ Len(sexpr) = Len(rhs)
      BY InputExpression
<1>2. ASSUME Visit, node <= Len(sexpr)
      PROVE  Inv'
  <2>1. UNCHANGED <<rhs, sexpr>> /\ node' = node + 1 /\ stack' = VisitNode(stack, sexpr[node])
        BY <1>2 DEF Visit
  <2> DEFINE done == node - 1
  <2>2. done \in 0..(Len(rhs) - 1) /\ done + 1 = node /\ node' - 1 = node /\ node' \in 1..(Len(rhs) + 1)
        BY <1>1, <1>2, <2>1
  <2>3. Visited(rhs, done, stack)
        OBVIOUS
  <2> HIDE DEF done
  <2>4. Visited(rhs, done + 1, VisitNode(stack, Convert(rhs)[done + 1]))
        BY ONLY <1>1, <2>2, <2>3, VisitStep
  <2>5. Visited(rhs, node, stack')
        BY <2>1, <2>2, <2>4
  <2> QED BY <2>1, <2>2, <2>5
<1>3. CASE VisitArrayDim
      BY <1>2, <1>3 DEF VisitArrayDim, Visiting
<1>4. CASE VisitUnion
      BY <1>2, <1>4 DEF VisitUnion, Visiting
<1>5. CASE VisitIntersection
      BY <1>2, <1>5 DEF VisitIntersection, Visiting
<1>6. CASE ReturnLattice
      BY <1>6 DEF ReturnLattice, visitorvars
<1>7. CASE UNCHANGED visitorvars
      BY <1>7 DEF visitorvars
<1> QED BY <1>3, <1>4, <1>5, <1>6, <1>7 DEF VisitorNext

(* The visitor keeps the invariant, for all Inputs. *)
THEOREM Invariance == VisitorSpec => []Inv
BY InvInit, InvNext, PTL DEF VisitorSpec

-----------------------------------------------------------------------------
(* What the invariant says of a lattice of the stack. *)
LEMMA LatticeOnStack ==
    ASSUME Inv, NEW n \in DOMAIN stack
    PROVE  /\ \E e \in Exprs(Operands(rhs)) : LatticeFor(Operands(rhs), stack[n], e) /\ SubExpression(n) = e
           /\ SubExpression(n) \in Exprs(Operands(rhs))
           /\ Operands(SubExpression(n)) \subseteq Operands(rhs)
<1>1. stack \in Seq(Lattices(Operands(rhs)))
      BY DEF Inv, Visited
<1>2. n \in 1..Len(stack) /\ Len(stack) \in Nat
      BY <1>1
<1>3. PICK cut : Cuts(rhs, node - 1, stack, cut)
      BY DEF Inv, Visited
<1> DEFINE e == Piece(rhs, cut[n - 1], cut[n])
<1>4. LatticeFor(Operands(rhs), stack[n], e) /\ Valued(Operands(rhs), e)
      BY <1>2, <1>3 DEF Cuts, StandsFor
<1>5. e \in Exprs(Operands(rhs))
      BY <1>4 DEF Valued
<1> HIDE DEF e
<1>6. SubExpression(n) = e
      BY <1>4 DEF LatticeFor, StartsWithAll, SubExpression
<1>7. Operands(e) \subseteq Operands(rhs)
  <2>1. \A k \in DOMAIN e : e[k] \in Tokens(Operands(rhs))
        BY <1>5 DEF Exprs
  <2>2. \A k \in DOMAIN e : e[k].op = "read" => e[k].name \in Operands(rhs)
        BY <2>1 DEF Tokens, Read, Add, Mul
  <2> QED BY <2>2 DEF Operands
<1> QED BY <1>4, <1>5, <1>6, <1>7

(* No point iterates over an array twice, or reads an array it does not     *)
(* iterate over: what dominates assumes and IncrementIterator relies on.    *)
THEOREM IteratorsAlwaysUnique == VisitorSpec => []IteratorsUnique
<1>1. Inv => IteratorsUnique
      BY LatticeOnStack DEF IteratorsUnique, LatticeFor, GoodPoint, UniqueIterators, ReadsItsIterators
<1> QED BY <1>1, Invariance, PTL

(* The points are in an order in which the loops and the branches generated *)
(* from them are right: joins exist, larger points come first.              *)
THEOREM LoopsAlwaysInOrder == VisitorSpec => []LoopsInLatticeOrder
<1>1. Inv => LoopsInLatticeOrder
      BY LatticeOnStack DEF LoopsInLatticeOrder, LatticeFor
<1> QED BY <1>1, Invariance, PTL

(* Whatever arrays have a value at a coordinate, the largest point whose    *)
(* arrays all have one computes what remains of the expression.             *)
THEOREM PointsAlwaysComplete == VisitorSpec => []PointsComplete
<1>1. Inv => PointsComplete
  <2> SUFFICES ASSUME Inv, NEW n \in DOMAIN stack
               PROVE  Complete(stack[n], SubExpression(n))
      BY DEF PointsComplete
  <2>1. PICK e \in Exprs(Operands(rhs)) : LatticeFor(Operands(rhs), stack[n], e) /\ SubExpression(n) = e
        BY LatticeOnStack
  <2>2. Operands(e) \subseteq Operands(rhs)
        BY <2>1, LatticeOnStack
  <2>3. CompleteWithin(Operands(rhs), stack[n], e)
        BY <2>1 DEF LatticeFor
  <2>4. Complete(stack[n], e)
        BY <2>2, <2>3 DEF Complete, CompleteWithin
  <2> QED BY <2>1, <2>4
<1> QED BY <1>1, Invariance, PTL

(* The join of two points that apply inside a point is one of its           *)
(* sub-points: the first sub-point that applies is the largest.             *)
LEMMA FirstIsLargest ==
    ASSUME NEW points, JoinClosed(points), DominatingFirst(points), DOMAIN points \subseteq Nat,
           NEW k \in DOMAIN points, NEW S \in SUBSET Its(points[k]),
           NEW j \in SubPoints(points, k), Its(points[j]) \subseteq S,
           \A m \in SubPoints(points, k) : Its(points[m]) \subseteq S => j <= m
    PROVE  LargestWithin(points, S, j)
<1>1. \A m \in DOMAIN points : m \in SubPoints(points, k) <=> Its(points[m]) \subseteq Its(points[k])
      BY DEF SubPoints, Dominates, Its
<1>2. j \in DOMAIN points
      BY DEF SubPoints
<1>3. ASSUME NEW m \in DOMAIN points, Its(points[m]) \subseteq S
      PROVE  Its(points[m]) \subseteq Its(points[j])
  <2>1. PICK l \in DOMAIN points : Its(points[l]) = Its(points[j]) \cup Its(points[m])
        BY <1>2 DEF JoinClosed
  <2>2. j <= l
        BY <1>1, <1>3, <2>1
  <2>3. l <= j
        BY <1>2, <2>1 DEF DominatingFirst
  <2>4. l = j
        BY <1>2, <2>2, <2>3
  <2> QED BY <2>1, <2>4
<1> QED BY <1>2, <1>3 DEF LargestWithin

(* The if / else if chain that Lower.cpp makes of the sub-points of a point *)
(* takes the branch of the largest one whose arrays are all present.        *)
THEOREM FirstMatchAlwaysLargest == VisitorSpec => []FirstMatchIsLargest
<1>1. Inv => FirstMatchIsLargest
  <2> SUFFICES ASSUME Inv, NEW n \in DOMAIN stack, NEW k \in DOMAIN stack[n],
                      NEW S \in SUBSET Its(stack[n][k]), NEW j \in SubPoints(stack[n], k),
                      Its(stack[n][j]) \subseteq S,
                      \A m \in SubPoints(stack[n], k) : Its(stack[n][m]) \subseteq S => j <= m
               PROVE  LargestWithin(stack[n], S, j)
      BY DEF FirstMatchIsLargest
  <2> DEFINE points == stack[n]
  <2>1. points \in Seq(Points(Operands(rhs))) /\ JoinClosed(points) /\ DominatingFirst(points)
        BY LatticeOnStack DEF LatticeFor
  <2>2. DOMAIN points \subseteq Nat
        BY <2>1
  <2> QED BY <2>1, <2>2, FirstIsLargest
<1> QED BY <1>1, Invariance, PTL

(* The shape of the visitor's state. *)
THEOREM TypeCorrect == VisitorSpec => []VisitorTypeOK
<1>1. Inv => VisitorTypeOK
  <2> SUFFICES ASSUME Inv
               PROVE  VisitorTypeOK
      OBVIOUS
  <2>1. rhs \in Inputs /\ node \in 1..(Len(sexpr) + 1)
        BY InputExpression DEF Inv
  <2>2. Len(stack) <= node - 1
    <3> DEFINE done == node - 1
    <3>1. done \in Nat
          BY InputExpression DEF Inv
    <3>2. Len(stack) = 2 * ReadsBefore(rhs, done) - done
          BY DEF Inv, Visited
    <3> HIDE DEF done
    <3>3. ReadsBefore(rhs, done) \in 0..done
          BY ONLY <3>1, ReadsCounted
    <3>4. Len(stack) <= done
          BY ONLY <3>1, <3>2, <3>3
    <3> QED BY <3>4 DEF done
  <2>3. ASSUME NEW n \in DOMAIN stack, NEW k \in DOMAIN stack[n]
        PROVE  Its(stack[n][k]) \subseteq Operands(rhs) /\ Operands(stack[n][k].expr) \subseteq Operands(rhs)
    <3> DEFINE p == stack[n][k]
    <3>1. GoodPoint(Operands(rhs), p)
          BY LatticeOnStack DEF LatticeFor
    <3> HIDE DEF p
    <3>2. p.iterators \in Seq(Operands(rhs)) /\ Operands(p.expr) = Its(p)
          BY <3>1 DEF GoodPoint, Points
    <3>3. Its(p) \subseteq Operands(rhs)
          BY <3>2 DEF Its
    <3> QED BY <3>2, <3>3 DEF p
  <2> QED BY <2>1, <2>2, <2>3 DEF VisitorTypeOK
<1> QED BY <1>1, Invariance, PTL
(* Consecutive parts, put together. *)
LEMMA PrefixExtended ==
    ASSUME NEW names, NEW e \in Exprs(names), NEW h \in Nat, NEW j \in Nat, h <= j, j <= Len(e)
    PROVE  Piece(e, 0, h) \o Piece(e, h, j) = Piece(e, 0, j)
<1> DEFINE z == 0
           a == Piece(e, z, h)
           b == Piece(e, h, j)
           c == Piece(e, z, j)
           T == Tokens(names)
<1>1. z \in Nat /\ z <= h /\ z <= j /\ h <= Len(e) /\ z = 0 /\ h - z = h /\ j - z = j /\ Len(e) \in Nat
  <2>1. Len(e) \in Nat
        BY DEF Exprs
  <2> QED BY <2>1
<1> HIDE DEF z
<1>1a. IsPiece(a, names, e, z, h) /\ IsPiece(b, names, e, h, j) /\ IsPiece(c, names, e, z, j)
      BY <1>1, PieceIs
<1> HIDE DEF a, b, c, T
<1>2. a \in Exprs(names) /\ Len(a) = h - z /\ \A n \in 1..(h - z) : a[n] = e[z + n]
      BY <1>1a DEF IsPiece
<1>3. b \in Exprs(names) /\ Len(b) = j - h /\ \A n \in 1..(j - h) : b[n] = e[h + n]
      BY <1>1a DEF IsPiece
<1>4. c \in Exprs(names) /\ Len(c) = j - z /\ \A n \in 1..(j - z) : c[n] = e[z + n]
      BY <1>1a DEF IsPiece
<1>5. a \in Seq(T) /\ b \in Seq(T) /\ c \in Seq(T)
      BY <1>2, <1>3, <1>4 DEF Exprs, T
<1> DEFINE d == a \o b
<1>6. d \in Seq(T) /\ AreConcatenated(d, a, b)
      BY ONLY <1>5, Concatenated
<1> HIDE DEF d
<1>7. Len(d) = j /\ Len(c) = j
      BY ONLY <1>1, <1>2, <1>3, <1>4, <1>6, h \in Nat, j \in Nat DEF AreConcatenated
<1>8. ASSUME NEW n \in 1..j
      PROVE  d[n] = c[n]
  <2>1. c[n] = e[n]
        BY ONLY <1>1, <1>4, n \in 1..j, j \in Nat
  <2>2. CASE n \in 1..h
    <3>1. d[n] = a[n] /\ a[n] = e[n]
          BY ONLY <1>1, <1>2, <1>6, <2>2, h \in Nat DEF AreConcatenated
    <3> QED BY <2>1, <3>1
  <2>3. CASE n \notin 1..h
    <3> DEFINE m == n - h
    <3>1. m \in 1..(j - h) /\ h + m = n
          BY <2>3
    <3> HIDE DEF m
    <3>2. d[h + m] = b[m] /\ b[m] = e[h + m]
          BY ONLY <1>1, <1>2, <1>3, <1>6, <3>1 DEF AreConcatenated
    <3> QED BY <2>1, <3>1, <3>2
  <2> QED BY <2>2, <2>3
<1>9. d = c
      BY ONLY <1>5, <1>6, <1>7, <1>8, SeqEqual
<1> QED BY <1>1, <1>9 DEF a, b, c, d

(* The lattices on the stack stand for consecutive parts of the right-hand  *)
(* side and together for all that has been visited: the visitor's saved     *)
(* lattices are never mixed up.                                             *)
THEOREM StackAlwaysCovers == VisitorSpec => []StackCoversVisited
<1>1. Inv => StackCoversVisited
  <2> SUFFICES ASSUME Inv
               PROVE  StackCoversVisited
      OBVIOUS
  <2> DEFINE e == rhs
             names == Operands(e)
             L == Len(stack)
             done == node - 1
  <2>1. /\ IsExpression(e) /\ e \in Exprs(names) /\ Len(e) \in Nat
        /\ done \in 0..Len(e) /\ Len(sexpr) = Len(e) /\ L \in Nat
    <3>1. IsExpression(e) /\ Len(e) \in Nat /\ Len(sexpr) = Len(e)
          BY InputExpression DEF Inv
    <3>2. e \in Exprs(names)
          BY <3>1, ExpressionTokens
    <3>3. done \in 0..Len(e)
          BY <3>1 DEF Inv
    <3>4. stack \in Seq(Lattices(names))
          BY DEF Inv, Visited
    <3>5. L \in Nat
          BY <3>4
    <3> QED BY <3>1, <3>2, <3>3, <3>5
  <2>2. PICK cut : Cuts(e, done, stack, cut)
        BY DEF Inv, Visited
  <2>3. /\ \A n \in 0..L : cut[n] \in 0..done
        /\ cut[0] = 0 /\ cut[L] = done
        /\ \A n \in 1..L : cut[n - 1] < cut[n] /\ StandsFor(e, stack[n], cut[n - 1], cut[n])
        BY <2>2 DEF Cuts
  <2> DEFINE IsCover(f) == f = [n \in 0..L |-> IF n = 0 THEN << >> ELSE f[n - 1] \o SubExpression(n)]
             covered == CHOOSE f : IsCover(f)
             prefix == [n \in 0..L |-> Piece(e, 0, cut[n])]
  <2>4. \A n \in 1..L : SubExpression(n) = Piece(e, cut[n - 1], cut[n])
        BY <2>3 DEF StandsFor, LatticeFor, StartsWithAll, SubExpression
  <2>5. Piece(e, 0, 0) = << >>
    <3>1. e \in Seq(Tokens(names))
          BY <2>1 DEF Exprs
    <3> HIDE DEF names, e
    <3> QED BY <3>1 DEF Piece
  <2> HIDE DEF e, names, L, done
  <2>6. ASSUME NEW n \in 1..L
        PROVE  Piece(e, 0, cut[n - 1]) \o SubExpression(n) = Piece(e, 0, cut[n])
    <3> DEFINE h == cut[n - 1]
               j == cut[n]
    <3>1. h \in Nat /\ j \in Nat /\ h <= j /\ j <= Len(e)
          BY <2>1, <2>3
    <3>2. SubExpression(n) = Piece(e, h, j)
          BY <2>4
    <3> HIDE DEF h, j
    <3>3. Piece(e, 0, h) \o Piece(e, h, j) = Piece(e, 0, j)
          BY ONLY <2>1, <3>1, PrefixExtended
    <3> QED BY <3>2, <3>3 DEF h, j
  <2>7. IsCover(prefix)
    <3>1. ASSUME NEW n \in 0..L
          PROVE  prefix[n] = IF n = 0 THEN << >> ELSE prefix[n - 1] \o SubExpression(n)
      <4>1. CASE n = 0
            BY <4>1, <2>3, <2>5
      <4>2. CASE n # 0
        <5>1. n \in 1..L /\ n - 1 \in 0..L
              BY <4>2, <2>1
        <5> QED BY <5>1, <4>2, <2>6
      <4> QED BY <4>1, <4>2
    <3> QED BY <3>1
  <2>8. covered = [n \in 0..L |-> IF n = 0 THEN << >> ELSE covered[n - 1] \o SubExpression(n)]
    <3> HIDE DEF prefix
    <3>1. IsCover(covered)
      <4> HIDE DEF IsCover
      <4> QED BY <2>7
    <3> HIDE DEF covered
    <3> QED BY <3>1
  <2> HIDE DEF covered, prefix
  <2> DEFINE T == {n \in 0..L : covered[n] = Piece(e, 0, cut[n])}
  <2>9. 0 \in T
        BY <2>1, <2>3, <2>5, <2>8
  <2>10. ASSUME NEW n \in 0..(L - 1), n \in T
         PROVE  n + 1 \in T
    <3>1. n + 1 \in 1..L /\ (n + 1) - 1 = n /\ n + 1 \in 0..L /\ n + 1 # 0
          BY <2>1
    <3>2. covered[n + 1] = covered[n] \o SubExpression(n + 1)
          BY <3>1, <2>8
    <3>3. Piece(e, 0, cut[n]) \o SubExpression(n + 1) = Piece(e, 0, cut[n + 1])
          BY <3>1, <2>6
    <3> QED BY <3>1, <3>2, <3>3, <2>10
  <2>11. covered[L] = Piece(e, 0, done)
    <3>1. 0..L \subseteq T
      <4> HIDE DEF T
      <4> QED BY <2>1, <2>9, <2>10, NaturalsUpTo
    <3> QED BY <2>1, <2>3, <3>1
  <2>12. covered[L] = SubSeq(rhs, 1, node - 1)
         BY <2>11 DEF Piece, e, done
  <2>13. Built => L = 1
    <3> SUFFICES ASSUME Built
                 PROVE  L = 1
        OBVIOUS
    <3>1. done = Len(e)
          BY <2>1 DEF Built, done, Inv
    <3>2. Visited(e, Len(e), stack)
          BY <3>1 DEF Inv, e, done
    <3> QED BY <2>1, <3>2, VisitedAll DEF L
  <2> QED BY <2>12, <2>13 DEF StackCoversVisited, covered, L
<1> QED BY <1>1, Invariance, PTL

(* The compiler run from the assignment to the result is a run of the       *)
(* visitor and a run of the kernel: what is proved of each of the two holds *)
(* in the run of both.                                                      *)
THEOREM CompilerRunsBoth ==
    CompilerSpec => VisitorSpec /\ Init /\ [][Next]_vars
<1>1. CompilerInit => VisitorInit /\ Init
      BY DEF CompilerInit
<1>2. [CompilerNext]_compilervars => [VisitorNext]_visitorvars /\ [Next]_vars
      BY DEF CompilerNext, BuildLattice, RunKernel, compilervars
<1> QED BY <1>1, <1>2, PTL DEF CompilerSpec, VisitorSpec
============================================================================
