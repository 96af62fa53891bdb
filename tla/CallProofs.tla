----------------------------- MODULE CallProofs -----------------------------
(***************************************************************************)
(* The code generated for the calls of MiniAPL.  For arrays of any         *)
(* dimensions and any number of them, the code of each call stores into    *)
(* every cell of its result, no two stores different things, and from the  *)
(* right cells, and the nested loops that print it write each cell once,   *)
(* in its brackets.  How often a store is repeated is not said.  For       *)
(* integers of any width, arrays of any length and all powers, the loop of *)
(* exp multiplies as many factors as its index counts.  It tests its       *)
(* condition at its end, so a power of zero is reached only when the index *)
(* has come round to it: after Modulus factors.                            *)
(*                                                                         *)
(* A cell is the value of a coordinate in mixed radix (CellAt), the        *)
(* dimensions are the radices and Cells is their product.  The proofs take *)
(* the dimensions apart, as those before and after the one that a call     *)
(* adds, removes or joins, and a cell with them, as a pair of a row and a  *)
(* place in it.                                                            *)
(***************************************************************************)
EXTENDS CallExecution, Induction, FiniteSetTheorems

-----------------------------------------------------------------------------
(* The recursions of Cells and CellAt.                                      *)
IsCells(f, dims, k) == f = [n \in 0..k |-> IF n = 0 THEN 1 ELSE f[n - 1] * dims[n]]
IsCellAt(f, dims, c, k) == f = [n \in 0..k |-> IF n = 0 THEN 0 ELSE f[n - 1] * dims[n] + c[n]]

LEMMA CellsExist ==
    ASSUME NEW dims, NEW k \in Nat, \A n \in 1..k : dims[n] \in Int
    PROVE  \E f \in [0..k -> Int] : IsCells(f, dims, k)
<1> DEFINE step == [p \in Int \X (1..k) |-> p[1] * dims[p[2]]]
<1>1. step \in [Int \X (1..k) -> Int]
  <2>1. ASSUME NEW p \in Int \X (1..k)
        PROVE  p[1] * dims[p[2]] \in Int
    <3>1. p[1] \in Int /\ dims[p[2]] \in Int
          OBVIOUS
    <3> QED BY <3>1
  <2> QED BY <2>1
<1>2. PICK f : IsLoopRun(Int, 1, step, k, f)
  <2> HIDE DEF step
  <2>1. 1 \in Int
        OBVIOUS
  <2> QED BY ONLY <1>1, <2>1, k \in Nat, LoopRuns
<1>3. f \in [0..k -> Int] /\ f[0] = 1
      BY <1>2 DEF IsLoopRun
<1>4. ASSUME NEW n \in 1..k
      PROVE  f[n] = f[n - 1] * dims[n]
  <2>1. f[n] = step[<<f[n - 1], n>>]
        BY <1>2 DEF IsLoopRun
  <2>2. <<f[n - 1], n>> \in Int \X (1..k)
        BY <1>3
  <2> QED BY <2>1, <2>2
<1>5. ASSUME NEW n \in 0..k
      PROVE  f[n] = IF n = 0 THEN 1 ELSE f[n - 1] * dims[n]
  <2>1. n = 0 \/ n \in 1..k
        OBVIOUS
  <2> QED BY <1>3, <1>4, <2>1
<1> QED BY <1>3, <1>5 DEF IsCells

LEMMA CellAtExists ==
    ASSUME NEW dims, NEW c, NEW k \in Nat, \A n \in 1..k : dims[n] \in Int /\ c[n] \in Int
    PROVE  \E f \in [0..k -> Int] : IsCellAt(f, dims, c, k)
<1> DEFINE step == [p \in Int \X (1..k) |-> p[1] * dims[p[2]] + c[p[2]]]
<1>1. step \in [Int \X (1..k) -> Int]
  <2>1. ASSUME NEW p \in Int \X (1..k)
        PROVE  p[1] * dims[p[2]] + c[p[2]] \in Int
    <3>1. p[1] \in Int /\ dims[p[2]] \in Int /\ c[p[2]] \in Int
          OBVIOUS
    <3> QED BY <3>1
  <2> QED BY <2>1
<1>2. PICK f : IsLoopRun(Int, 0, step, k, f)
  <2> HIDE DEF step
  <2>1. 0 \in Int
        OBVIOUS
  <2> QED BY ONLY <1>1, <2>1, k \in Nat, LoopRuns
<1>3. f \in [0..k -> Int] /\ f[0] = 0
      BY <1>2 DEF IsLoopRun
<1>4. ASSUME NEW n \in 1..k
      PROVE  f[n] = f[n - 1] * dims[n] + c[n]
  <2>1. f[n] = step[<<f[n - 1], n>>]
        BY <1>2 DEF IsLoopRun
  <2>2. <<f[n - 1], n>> \in Int \X (1..k)
        BY <1>3
  <2> QED BY <2>1, <2>2
<1>5. ASSUME NEW n \in 0..k
      PROVE  f[n] = IF n = 0 THEN 0 ELSE f[n - 1] * dims[n] + c[n]
  <2>1. n = 0 \/ n \in 1..k
        OBVIOUS
  <2> QED BY <1>3, <1>4, <2>1
<1> QED BY <1>3, <1>5 DEF IsCellAt

SameUpTo(k, v, w) == \A n \in 1..k : v[n] = w[n]

(* Two runs of a recursion agree as far as what they read does.             *)
LEMMA CellsAgree ==
    ASSUME NEW k \in Nat, NEW d, NEW e, NEW f, NEW g, NEW l \in Nat, NEW m \in Nat,
           k <= l, k <= m, IsCells(f, d, l), IsCells(g, e, m), SameUpTo(k, d, e)
    PROVE  f[k] = g[k]
<1> DEFINE T == {n \in 0..k : f[n] = g[n]}
<1>1. 0 \in T
      BY DEF IsCells
<1>2. ASSUME NEW n \in 0..(k - 1), n \in T
      PROVE  n + 1 \in T
  <2> DEFINE j == n + 1
  <2>1. j \in 1..k /\ j \in 0..l /\ j \in 0..m /\ j # 0 /\ j - 1 = n
        OBVIOUS
  <2> HIDE DEF j
  <2>2. f[j] = f[n] * d[j] /\ g[j] = g[n] * e[j] /\ d[j] = e[j]
        BY <2>1 DEF IsCells, SameUpTo
  <2>3. j \in T
        BY <1>2, <2>1, <2>2
  <2> QED BY <2>3 DEF j
<1> HIDE DEF T
<1>3. 0..k \subseteq T
      BY <1>1, <1>2, NaturalsUpTo
<1> QED BY <1>3 DEF T

LEMMA CellAtAgrees ==
    ASSUME NEW k \in Nat, NEW d, NEW e, NEW b, NEW c, NEW f, NEW g, NEW l \in Nat, NEW m \in Nat,
           k <= l, k <= m, IsCellAt(f, d, b, l), IsCellAt(g, e, c, m),
           SameUpTo(k, d, e), SameUpTo(k, b, c)
    PROVE  f[k] = g[k]
<1> DEFINE T == {n \in 0..k : f[n] = g[n]}
<1>1. 0 \in T
      BY DEF IsCellAt
<1>2. ASSUME NEW n \in 0..(k - 1), n \in T
      PROVE  n + 1 \in T
  <2> DEFINE j == n + 1
  <2>1. j \in 1..k /\ j \in 0..l /\ j \in 0..m /\ j # 0 /\ j - 1 = n
        OBVIOUS
  <2> HIDE DEF j
  <2>2. /\ f[j] = f[n] * d[j] + b[j] /\ g[j] = g[n] * e[j] + c[j]
        /\ d[j] = e[j] /\ b[j] = c[j]
        BY <2>1 DEF IsCellAt, SameUpTo
  <2>3. j \in T
        BY <1>2, <2>1, <2>2
  <2> QED BY <2>3 DEF j
<1> HIDE DEF T
<1>3. 0..k \subseteq T
      BY <1>1, <1>2, NaturalsUpTo
<1> QED BY <1>3 DEF T
-----------------------------------------------------------------------------
(* Cells and CellAt by one dimension more.                                  *)
LEMMA CellsIs ==
    ASSUME NEW dims \in Seq(Int)
    PROVE  \E f : IsCells(f, dims, Len(dims)) /\ f[Len(dims)] \in Int /\ Cells(dims) = f[Len(dims)]
<1> DEFINE k == Len(dims)
           r == CHOOSE f : IsCells(f, dims, k)
<1>1. k \in Nat /\ SameUpTo(k, dims, dims) /\ \A n \in 1..k : dims[n] \in Int
      BY DEF SameUpTo
<1>2. Cells(dims) = r[k]
      BY DEF Cells, IsCells
<1> HIDE DEF k
<1>3. PICK f \in [0..k -> Int] : IsCells(f, dims, k)
      BY <1>1, CellsExist
<1>4. IsCells(r, dims, k)
      BY <1>3
<1> HIDE DEF r
<1>5. k <= k
      BY <1>1
<1>6. r[k] = f[k]
      BY <1>1, <1>3, <1>4, <1>5, CellsAgree
<1> QED BY <1>1, <1>2, <1>3, <1>4, <1>6 DEF k

LEMMA CellAtIs ==
    ASSUME NEW dims \in Seq(Int), NEW c, \A n \in 1..Len(dims) : c[n] \in Int
    PROVE  \E f : /\ IsCellAt(f, dims, c, Len(dims)) /\ f[Len(dims)] \in Int
                  /\ CellAt(dims, c) = f[Len(dims)]
<1> DEFINE k == Len(dims)
           r == CHOOSE f : IsCellAt(f, dims, c, k)
<1>1. k \in Nat /\ SameUpTo(k, dims, dims) /\ SameUpTo(k, c, c) /\ \A n \in 1..k : dims[n] \in Int /\ c[n] \in Int
      BY DEF SameUpTo
<1>2. CellAt(dims, c) = r[k]
      BY DEF CellAt, IsCellAt
<1> HIDE DEF k
<1>3. PICK f \in [0..k -> Int] : IsCellAt(f, dims, c, k)
      BY <1>1, CellAtExists
<1>4. IsCellAt(r, dims, c, k)
      BY <1>3
<1> HIDE DEF r
<1>5. k <= k
      BY <1>1
<1>6. r[k] = f[k]
      BY <1>1, <1>3, <1>4, <1>5, CellAtAgrees
<1> QED BY <1>1, <1>2, <1>3, <1>4, <1>6 DEF k

LEMMA CellsNone == Cells(<< >>) = 1
<1>1. << >> \in Seq(Int) /\ Len(<< >>) = 0
      OBVIOUS
<1>2. PICK f : IsCells(f, << >>, 0) /\ Cells(<< >>) = f[0]
      BY <1>1, CellsIs
<1> QED BY <1>2 DEF IsCells

LEMMA CellAtNone ==
    ASSUME NEW c
    PROVE  CellAt(<< >>, c) = 0
<1>1. << >> \in Seq(Int) /\ Len(<< >>) = 0 /\ \A n \in 1..Len(<< >>) : c[n] \in Int
      OBVIOUS
<1>2. PICK f : IsCellAt(f, << >>, c, 0) /\ CellAt(<< >>, c) = f[0]
      BY <1>1, CellAtIs
<1> QED BY <1>2 DEF IsCellAt

LEMMA CellsInt ==
    ASSUME NEW dims \in Seq(Int)
    PROVE  Cells(dims) \in Int
BY CellsIs

LEMMA CellsAppend ==
    ASSUME NEW dims \in Seq(Int), NEW n \in Int, NEW more, more = Append(dims, n)
    PROVE  Cells(more) = Cells(dims) * n
<1> DEFINE k == Len(dims)
           l == k + 1
<1>1. /\ more \in Seq(Int) /\ Len(more) = l /\ more[l] = n
      /\ \A m \in 1..k : dims[m] = more[m]
      /\ k \in Nat /\ l \in Nat /\ k <= l /\ k <= k /\ l # 0 /\ l \in 0..l /\ l - 1 = k
      OBVIOUS
<1>2. PICK f : IsCells(f, dims, k) /\ Cells(dims) = f[k]
      BY CellsIs
<1> HIDE DEF k, l
<1>3. PICK g : IsCells(g, more, l) /\ Cells(more) = g[l]
      BY <1>1, CellsIs
<1>4. SameUpTo(k, dims, more)
      BY <1>1 DEF SameUpTo
<1>5. k \in Nat /\ l \in Nat /\ k <= k /\ k <= l
      BY <1>1
<1>6. f[k] = g[k]
      BY ONLY <1>2, <1>3, <1>4, <1>5, CellsAgree
<1>7. g[l] = g[k] * n
      BY <1>1, <1>3 DEF IsCells
<1> QED BY <1>2, <1>3, <1>6, <1>7

(* The dimensions `more' are dims with n, the coordinate c is b with y.      *)
IsLonger(more, c, dims, b, n, y) ==
    /\ dims \in Seq(Int) /\ n \in Int /\ more = Append(dims, n)
    /\ \A m \in 1..Len(dims) : b[m] \in Int /\ c[m] = b[m]
    /\ y \in Int /\ c[Len(dims) + 1] = y

(* The cell at column y of a row of n cells. *)
InRow(row, n, y) == row * n + y

LEMMA CellAtAppend ==
    ASSUME NEW dims, NEW n, NEW more, NEW b, NEW c, NEW y, IsLonger(more, c, dims, b, n, y)
    PROVE  CellAt(more, c) = InRow(CellAt(dims, b), n, y)
<1> DEFINE k == Len(dims)
           l == k + 1
<1>0. dims \in Seq(Int) /\ n \in Int /\ more = Append(dims, n)
      BY DEF IsLonger
<1>1. /\ more \in Seq(Int) /\ Len(more) = l /\ more[l] = n
      /\ \A m \in 1..k : dims[m] = more[m] /\ b[m] = c[m]
      /\ \A m \in 1..l : c[m] \in Int
      /\ k \in Nat /\ l \in Nat /\ k <= l /\ k <= k /\ l # 0 /\ l \in 0..l /\ l - 1 = k /\ c[l] = y
      BY <1>0 DEF IsLonger
<1>2. PICK f : IsCellAt(f, dims, b, k) /\ CellAt(dims, b) = f[k]
      BY <1>0, CellAtIs DEF IsLonger
<1> HIDE DEF k, l
<1>3. PICK g : IsCellAt(g, more, c, l) /\ CellAt(more, c) = g[l]
      BY ONLY <1>1, CellAtIs
<1>4. SameUpTo(k, dims, more) /\ SameUpTo(k, b, c)
      BY <1>1 DEF SameUpTo
<1>5. k \in Nat /\ l \in Nat /\ k <= k /\ k <= l
      BY <1>1
<1>6. f[k] = g[k]
      BY ONLY <1>2, <1>3, <1>4, <1>5, CellAtAgrees
<1>7. g[l] = g[k] * n + c[l]
      BY <1>1, <1>3 DEF IsCellAt
<1> QED BY <1>1, <1>2, <1>3, <1>6, <1>7 DEF InRow
(* A position in rows of length b is that of one column of one row. *)
LEMMA PositionBound ==
    ASSUME NEW a \in Nat, NEW b \in Nat \ {0}, NEW p \in 0..(a - 1), NEW q \in 0..(b - 1)
    PROVE  p * b + q \in 0..(a * b - 1)
<1>1. p * b + q < a * b
      BY RowsOrdered
<1>2. p * b \in Nat /\ a * b \in Nat
      OBVIOUS
<1> QED BY <1>1, <1>2

LEMMA PositionExists ==
    ASSUME NEW a \in Nat, NEW b \in Nat \ {0}, NEW n \in 0..(a * b - 1)
    PROVE  \E p \in 0..(a - 1), q \in 0..(b - 1) : n = p * b + q
<1> DEFINE p == n \div b
           q == n % b
<1>1. n \in Nat /\ a * b \in Int /\ n < a * b
      OBVIOUS
<1>2. p \in Nat /\ q \in 0..(b - 1) /\ n = p * b + q
      BY <1>1, DivMod
<1> HIDE DEF p, q
<1>3. p < a
      BY <1>1, <1>2, RowsOrdered
<1>4. p \in 0..(a - 1)
      BY <1>2, <1>3
<1> QED BY <1>2, <1>4

LEMMA PositionUnique ==
    ASSUME NEW b \in Nat \ {0}, NEW p \in Nat, NEW q \in 0..(b - 1), NEW r \in Nat, NEW s \in 0..(b - 1),
           p * b + q = r * b + s
    PROVE  p = r /\ q = s
<1> DEFINE m == p * b + q
<1>1. m = p * b + q /\ m = r * b + s
      OBVIOUS
<1> HIDE DEF m
<1>2. m \div b = p /\ m % b = q
      BY ONLY <1>1, DivModUnique, b \in Nat \ {0}, p \in Nat, q \in 0..(b - 1)
<1>3. m \div b = r /\ m % b = s
      BY ONLY <1>1, DivModUnique, b \in Nat \ {0}, r \in Nat, s \in 0..(b - 1)
<1> QED BY <1>2, <1>3
-----------------------------------------------------------------------------
(* Arrays whose dimensions are joined.                                      *)
Extends(s, u, x) ==
    /\ Len(s) = Len(u) + 1 /\ s = Append(u, x) /\ x = s[Len(s)]
    /\ \A m \in 1..Len(u) : u[m] = s[m]

LEMMA LastDimension ==
    ASSUME NEW S, NEW s \in Seq(S), s # << >>
    PROVE  \E u \in Seq(S), x \in S : Extends(s, u, x)
<1> DEFINE n == Len(s) - 1
           u == SubSeq(s, 1, n)
<1>0. n \in Nat /\ Len(s) = n + 1
      OBVIOUS
<1> HIDE DEF n
<1>1. u \in Seq(S) /\ Len(u) = n /\ \A m \in 1..n : u[m] = s[m]
      BY <1>0
<1>2. s[n + 1] \in S
      BY <1>0
<1> HIDE DEF u
<1>3. s = Append(u, s[n + 1])
  <2>1. Len(Append(u, s[n + 1])) = Len(s)
        BY <1>0, <1>1, <1>2
  <2>2. \A m \in 1..Len(s) : Append(u, s[n + 1])[m] = s[m]
        BY <1>0, <1>1, <1>2
  <2> QED BY <1>1, <1>2, <2>1, <2>2
<1> QED BY <1>0, <1>1, <1>2, <1>3 DEF Extends

LEMMA JoinedAppend ==
    ASSUME NEW S, NEW s \in Seq(S), NEW u \in Seq(S), NEW x \in S
    PROVE  s \o Append(u, x) = Append(s \o u, x)
OBVIOUS

LEMMA JoinedNone ==
    ASSUME NEW S, NEW s \in Seq(S), NEW t \in Seq(S), Len(t) = 0
    PROVE  t = << >> /\ s \o t = s
OBVIOUS

LEMMA CellsJoined ==
    ASSUME NEW s \in Seq(Int), NEW t \in Seq(Int)
    PROVE  Cells(s \o t) = Cells(s) * Cells(t)
<1> DEFINE T == {n \in Nat : \A u \in Seq(Int) : Len(u) = n => Cells(s \o u) = Cells(s) * Cells(u)}
<1>0. Cells(s) \in Int
      BY CellsInt
<1>1. 0 \in T
  <2> SUFFICES ASSUME NEW u \in Seq(Int), Len(u) = 0
               PROVE  Cells(s \o u) = Cells(s) * Cells(u)
      OBVIOUS
  <2>1. u = << >> /\ s \o u = s
        BY JoinedNone
  <2>2. Cells(u) = 1
        BY <2>1, CellsNone
  <2> QED BY <1>0, <2>1, <2>2
<1>2. ASSUME NEW n \in Nat, n \in T
      PROVE  n + 1 \in T
  <2> SUFFICES ASSUME NEW v \in Seq(Int), Len(v) = n + 1
               PROVE  Cells(s \o v) = Cells(s) * Cells(v)
      OBVIOUS
  <2>0. v # << >>
        OBVIOUS
  <2>1. PICK u \in Seq(Int), x \in Int : Extends(v, u, x)
        BY <2>0, LastDimension
  <2>a. Len(u) = n /\ v = Append(u, x)
        BY <2>1 DEF Extends
  <2>2. s \o v = Append(s \o u, x) /\ s \o u \in Seq(Int)
        BY <2>a, JoinedAppend
  <2>3. Cells(s \o u) = Cells(s) * Cells(u) /\ Cells(u) \in Int
        BY <1>2, <2>a, CellsInt
  <2>4. Cells(s \o v) = Cells(s \o u) * x
        BY ONLY <2>2, CellsAppend, x \in Int
  <2>5. Cells(v) = Cells(u) * x
        BY ONLY <2>a, CellsAppend, x \in Int, u \in Seq(Int)
  <2> DEFINE a == Cells(s)
             b == Cells(u)
  <2>6. Cells(s \o v) = (a * b) * x /\ Cells(v) = b * x /\ a \in Int /\ b \in Int
        BY <1>0, <2>3, <2>4, <2>5
  <2> HIDE DEF a, b
  <2>7. (a * b) * x = a * (b * x)
        BY <2>6
  <2> QED BY <2>6, <2>7 DEF a
<1> HIDE DEF T
<1>3. Len(t) \in T
  <2>1. Len(t) \in Nat
        OBVIOUS
  <2> QED BY <1>1, <1>2, <2>1, NaturalsFrom
<1> QED BY <1>3 DEF T

LEMMA CellsPositive ==
    ASSUME NEW dims \in Seq(Lengths)
    PROVE  Cells(dims) \in Lengths
<1> DEFINE T == {n \in Nat : \A u \in Seq(Lengths) : Len(u) = n => Cells(u) \in Lengths}
<1>1. 0 \in T
  <2> SUFFICES ASSUME NEW u \in Seq(Lengths), Len(u) = 0
               PROVE  Cells(u) \in Lengths
      OBVIOUS
  <2>1. u = << >>
        OBVIOUS
  <2> QED BY <2>1, CellsNone DEF Lengths
<1>2. ASSUME NEW n \in Nat, n \in T
      PROVE  n + 1 \in T
  <2> SUFFICES ASSUME NEW v \in Seq(Lengths), Len(v) = n + 1
               PROVE  Cells(v) \in Lengths
      OBVIOUS
  <2>0. v # << >>
        OBVIOUS
  <2>1. PICK u \in Seq(Lengths), x \in Lengths : Extends(v, u, x)
        BY <2>0, LastDimension
  <2>a. Len(u) = n /\ v = Append(u, x)
        BY <2>1 DEF Extends
  <2>2. u \in Seq(Int) /\ x \in Int
        BY DEF Lengths
  <2>3. Cells(v) = Cells(u) * x
        BY ONLY <2>a, <2>2, CellsAppend
  <2>4. Cells(u) \in Lengths
        BY <1>2, <2>a
  <2> DEFINE b == Cells(u)
  <2> HIDE DEF b
  <2>5. b \in Lengths => b * x \in Lengths
        BY DEF Lengths
  <2> QED BY <2>3, <2>4, <2>5 DEF b
<1> HIDE DEF T
<1>3. Len(dims) \in T
  <2>1. Len(dims) \in Nat
        OBVIOUS
  <2> QED BY <1>1, <1>2, <2>1, NaturalsFrom
<1> QED BY <1>3 DEF T
(* Coordinates c in joined dimensions, made of b and e. *)
Joins(c, s, b, t, e) ==
    /\ \A m \in 1..Len(s) : b[m] \in Int /\ c[m] = b[m]
    /\ \A m \in 1..Len(t) : e[m] \in Int /\ c[Len(s) + m] = e[m]

LEMMA CellAtInt ==
    ASSUME NEW dims \in Seq(Int), NEW c, \A n \in 1..Len(dims) : c[n] \in Int
    PROVE  CellAt(dims, c) \in Int
BY CellAtIs

LEMMA CellAtSame ==
    ASSUME NEW dims \in Seq(Int), NEW b, NEW c, \A n \in 1..Len(dims) : b[n] \in Int /\ c[n] = b[n]
    PROVE  CellAt(dims, c) = CellAt(dims, b)
<1> DEFINE k == Len(dims)
<1>1. k \in Nat /\ k <= k
      OBVIOUS
<1>2. SameUpTo(k, dims, dims) /\ SameUpTo(k, b, c)
      BY DEF SameUpTo
<1>3. (\A n \in 1..k : b[n] \in Int) /\ (\A n \in 1..k : c[n] \in Int)
      OBVIOUS
<1>4. PICK f : IsCellAt(f, dims, b, k) /\ CellAt(dims, b) = f[k]
      BY <1>3, CellAtIs
<1>5. PICK g : IsCellAt(g, dims, c, k) /\ CellAt(dims, c) = g[k]
      BY <1>3, CellAtIs
<1> HIDE DEF k
<1>6. f[k] = g[k]
      BY ONLY <1>1, <1>2, <1>4, <1>5, CellAtAgrees
<1> QED BY <1>4, <1>5, <1>6

LEMMA CellAtJoined ==
    ASSUME NEW s \in Seq(Int), NEW t \in Seq(Int), NEW b, NEW c, NEW e, Joins(c, s, b, t, e)
    PROVE  CellAt(s \o t, c) = CellAt(s, b) * Cells(t) + CellAt(t, e)
<1> DEFINE Split(u) == CellAt(s \o u, c) = CellAt(s, b) * Cells(u) + CellAt(u, e)
           T == {n \in Nat : \A u \in Seq(Int) : Len(u) = n /\ Joins(c, s, b, u, e) => Split(u)}
<1>0. CellAt(s, b) \in Int
      BY CellAtInt DEF Joins
<1>1. 0 \in T
  <2> SUFFICES ASSUME NEW u \in Seq(Int), Len(u) = 0
               PROVE  Split(u)
      OBVIOUS
  <2>1. u = << >> /\ s \o u = s
        BY JoinedNone
  <2>2. Cells(u) = 1 /\ CellAt(u, e) = 0
        BY <2>1, CellsNone, CellAtNone
  <2>3. CellAt(s, c) = CellAt(s, b)
        BY CellAtSame DEF Joins
  <2> QED BY <1>0, <2>1, <2>2, <2>3
<1>2. ASSUME NEW n \in Nat, n \in T
      PROVE  n + 1 \in T
  <2> SUFFICES ASSUME NEW v \in Seq(Int), Len(v) = n + 1, Joins(c, s, b, v, e)
               PROVE  Split(v)
      OBVIOUS
  <2>0. v # << >>
        OBVIOUS
  <2>1. PICK u \in Seq(Int), x \in Int : Extends(v, u, x)
        BY <2>0, LastDimension
  <2>2. Len(u) = n /\ v = Append(u, x)
        BY <2>1 DEF Extends
  <2>3. s \o v = Append(s \o u, x) /\ s \o u \in Seq(Int)
        BY <2>2, JoinedAppend
  <2> DEFINE l == Len(s \o u) + 1
             k == n + 1
             y == c[l]
  <2>4. /\ \A m \in 1..Len(s) : b[m] \in Int /\ c[m] = b[m]
        /\ \A m \in 1..(n + 1) : e[m] \in Int /\ c[Len(s) + m] = e[m]
        BY DEF Joins
  <2>5. Joins(c, s, b, u, e)
        BY <2>2, <2>4 DEF Joins
  <2>a. Len(s \o u) = Len(s) + n /\ Len(s) \in Nat
        BY <2>2
  <2>6. \A m \in 1..Len(s \o u) : c[m] \in Int
    <3> TAKE m \in 1..Len(s \o u)
    <3>1. CASE m \in 1..Len(s)
          BY <2>4, <3>1
    <3>2. CASE m \notin 1..Len(s)
      <4> DEFINE j == m - Len(s)
      <4>1. j \in 1..(n + 1) /\ m = Len(s) + j
            BY <2>a, <3>2
      <4> HIDE DEF j
      <4> QED BY <2>4, <4>1
    <3> QED BY <3>1, <3>2
  <2>7. y = e[k] /\ y \in Int
        BY <2>4, <2>a
  <2>8. CellAt(s \o u, c) = CellAt(s, b) * Cells(u) + CellAt(u, e)
        BY <1>2, <2>2, <2>5
  <2>9. CellAt(s \o v, c) = InRow(CellAt(s \o u, c), x, y)
    <3>1. IsLonger(s \o v, c, s \o u, c, x, y)
          BY <2>3, <2>6, <2>7 DEF IsLonger
    <3> HIDE DEF y
    <3> QED BY ONLY <3>1, CellAtAppend
  <2>10. CellAt(v, e) = InRow(CellAt(u, e), x, y)
    <3>1. IsLonger(v, e, u, e, x, y)
          BY <2>2, <2>4, <2>7 DEF IsLonger
    <3> HIDE DEF y
    <3> QED BY ONLY <3>1, CellAtAppend
  <2>11. Cells(v) = Cells(u) * x
        BY ONLY <2>2, CellsAppend, x \in Int, u \in Seq(Int)
  <2>12. Cells(u) \in Int /\ CellAt(u, e) \in Int
        BY <2>2, <2>4, CellsInt, CellAtInt
  <2> DEFINE p == CellAt(s, b)
             q == Cells(u)
             r == CellAt(u, e)
  <2>13. p \in Int /\ q \in Int /\ r \in Int /\ y \in Int
        BY <1>0, <2>7, <2>12
  <2>14. CellAt(s \o v, c) = (p * q + r) * x + y /\ Cells(v) = q * x /\ CellAt(v, e) = r * x + y
        BY <2>8, <2>9, <2>10, <2>11 DEF InRow
  <2> HIDE DEF p, q, r, y
  <2>15. (p * q + r) * x + y = p * (q * x) + (r * x + y)
        BY <2>13
  <2> QED BY <2>14, <2>15 DEF p
<1> HIDE DEF T
<1>3. Len(t) \in T
  <2>1. Len(t) \in Nat
        OBVIOUS
  <2> QED BY <1>1, <1>2, <2>1, NaturalsFrom
<1> QED BY <1>3 DEF T

IsIn(dims, c) == \A n \in 1..Len(dims) : c[n] \in 0..(dims[n] - 1)

(* The cell of a coordinate is one of the array. *)
LEMMA CellAtBound ==
    ASSUME NEW dims \in Seq(Lengths), NEW c, IsIn(dims, c)
    PROVE  CellAt(dims, c) \in 0..(Cells(dims) - 1)
<1> DEFINE Bound(u) == CellAt(u, c) \in 0..(Cells(u) - 1)
           T == {n \in Nat : \A u \in Seq(Lengths) : Len(u) = n /\ IsIn(u, c) => Bound(u)}
<1>1. 0 \in T
  <2> SUFFICES ASSUME NEW u \in Seq(Lengths), Len(u) = 0
               PROVE  Bound(u)
      OBVIOUS
  <2>1. u = << >>
        OBVIOUS
  <2>2. Cells(u) = 1 /\ CellAt(u, c) = 0
        BY <2>1, CellsNone, CellAtNone
  <2> QED BY <2>2
<1>2. ASSUME NEW n \in Nat, n \in T
      PROVE  n + 1 \in T
  <2> SUFFICES ASSUME NEW v \in Seq(Lengths), Len(v) = n + 1, IsIn(v, c)
               PROVE  Bound(v)
      OBVIOUS
  <2>0. v # << >>
        OBVIOUS
  <2>1. PICK u \in Seq(Lengths), x \in Lengths : Extends(v, u, x)
        BY <2>0, LastDimension
  <2> DEFINE k == n + 1
             y == c[k]
  <2>2. /\ Len(u) = n /\ v = Append(u, x) /\ x = v[k] /\ k = Len(u) + 1
        /\ \A m \in 1..n : u[m] = v[m]
        BY <2>1 DEF Extends
  <2>3. IsIn(u, c) /\ y \in 0..(x - 1) /\ y \in Int
        BY <2>2 DEF IsIn, Lengths
  <2>4. u \in Seq(Int) /\ x \in Nat \ {0} /\ x \in Int
        BY DEF Lengths
  <2>5. IsLonger(v, c, u, c, x, y)
        BY <2>2, <2>3 DEF IsIn, Lengths, IsLonger
  <2>6. CellAt(u, c) \in 0..(Cells(u) - 1) /\ Cells(u) \in Nat
        BY <1>2, <2>2, <2>3, CellsPositive DEF Lengths
  <2> HIDE DEF y
  <2>7. CellAt(v, c) = InRow(CellAt(u, c), x, y)
        BY ONLY <2>5, CellAtAppend
  <2>8. Cells(v) = Cells(u) * x
        BY ONLY <2>2, <2>4, CellsAppend
  <2> DEFINE p == CellAt(u, c)
             a == Cells(u)
  <2>9. p \in 0..(a - 1) /\ a \in Nat
        BY <2>6
  <2> HIDE DEF p, a
  <2>10. p * x + y \in 0..(a * x - 1)
        BY ONLY <2>3, <2>4, <2>9, PositionBound
  <2> QED BY <2>7, <2>8, <2>10 DEF p, a, InRow
<1> HIDE DEF T
<1>3. Len(dims) \in T
  <2>1. Len(dims) \in Nat
        OBVIOUS
  <2> QED BY <1>1, <1>2, <2>1, NaturalsFrom
<1> QED BY <1>3 DEF T
-----------------------------------------------------------------------------
(* The stores of the generated code, by the rows and columns of the cells.  *)
StoresEach(S, n) ==
    /\ {s.dst : s \in S} = 0..(n - 1)
    /\ \A s, t \in S : s.dst = t.dst => s = t

LoadsFrom(S, arg, n) ==
    \A s \in S : \A m \in DOMAIN s.from : s.from[m].arg = arg => s.from[m].cell \in 0..(n - 1)

RowSum(i, length) == Store(i, [j \in 1..length |-> Load(1, i * length + (j - 1))])

LEMMA ReduceStoresAre ==
    ASSUME NEW dims \in Seq(Lengths), NEW length \in Lengths, NEW t, t.dimensions = dims, t.innermost_dimension = length
    PROVE  /\ ReduceStores(t) = {RowSum(i, length) : i \in 0..(Cells(dims) - 1)}
           /\ StoresEach(ReduceStores(t), Cells(dims))
           /\ LoadsFrom(ReduceStores(t), 1, Cells(dims) * length)
           /\ \A s \in ReduceStores(t) : \A m \in DOMAIN s.from : s.from[m].arg = 1
<1> DEFINE cells == Cells(dims)
           S == ReduceStores(t)
<1>0. cells \in Nat /\ length \in Nat \ {0}
      BY CellsPositive DEF Lengths
<1>1. S = {RowSum(i, length) : i \in 0..(cells - 1)}
      BY DEF ReduceStores, RowSum
<1> HIDE DEF S, cells
<1>2. \A i \in 0..(cells - 1) : RowSum(i, length).dst = i
      BY DEF RowSum, Store
<1>3. StoresEach(S, cells)
      BY <1>1, <1>2 DEF StoresEach
<1>4. ASSUME NEW i \in 0..(cells - 1), NEW m \in DOMAIN RowSum(i, length).from
      PROVE  /\ RowSum(i, length).from[m].arg = 1
             /\ RowSum(i, length).from[m].cell \in 0..(cells * length - 1)
  <2>1. m \in 1..length /\ RowSum(i, length).from[m] = Load(1, i * length + (m - 1))
        BY <1>0 DEF RowSum, Store
  <2>2. RowSum(i, length).from[m].arg = 1 /\ RowSum(i, length).from[m].cell = i * length + (m - 1)
        BY <2>1 DEF Load
  <2> DEFINE q == m - 1
  <2>3. q \in 0..(length - 1)
        BY <1>0, <2>1
  <2> HIDE DEF q
  <2>4. i * length + q \in 0..(cells * length - 1)
        BY <1>0, <2>3, PositionBound
  <2> QED BY <2>2, <2>4 DEF q
<1>5. LoadsFrom(S, 1, cells * length) /\ \A s \in S : \A m \in DOMAIN s.from : s.from[m].arg = 1
      BY <1>1, <1>4 DEF LoadsFrom
<1> QED BY <1>1, <1>3, <1>5 DEF S, cells

(* Copy number q of cell k of row j, in rows of the given length. *)
Expanded(j, q, k, times, length) ==
    Store((j * times + q) * length + k, <<Load(1, j * length + k)>>)

Expansion(rows, times, length) ==
    {Expanded(j, q, k, times, length) :
        j \in 0..(rows - 1), q \in 0..(times - 1), k \in 0..(length - 1)}

LEMMA ExpandStoresAre ==
    ASSUME NEW rows \in Lengths, NEW times \in Lengths, NEW length \in Lengths, NEW t,
           t.innermost_dimension = times, Last(t.dimensions) = length,
           Cells(SubSeq(t.dimensions, 1, Len(t.dimensions) - 2)) = rows
    PROVE  ExpandStores(t) = Expansion(rows, times, length)
<1>0. rows \in Nat \ {0} /\ times \in Nat \ {0} /\ length \in Nat \ {0}
      BY DEF Lengths
<1> DEFINE Raw(i, j, q) == Store(j * length * times + length * q + (i \div times),
                                 <<Load(1, j * length + (i \div times))>>)
<1>1. ExpandStores(t) = {Raw(i, j, q) : i \in 0..(times * length - 1), j \in 0..(rows - 1), q \in 0..(times - 1)}
      BY DEF ExpandStores
<1>2. ASSUME NEW i \in Nat, NEW j \in Nat, NEW q \in Nat, NEW k \in Nat, i \div times = k
      PROVE  Raw(i, j, q) = Expanded(j, q, k, times, length)
  <2>1. j * length * times + length * q + k = (j * times + q) * length + k
        BY <1>0
  <2> QED BY <1>2, <2>1 DEF Expanded
<1>3. ASSUME NEW i \in 0..(times * length - 1)
      PROVE  i \div times \in 0..(length - 1)
  <2> DEFINE k == i \div times
             r == i % times
  <2>1. i \in Nat /\ i < length * times
        BY <1>0
  <2>2. k \in Nat /\ r \in 0..(times - 1) /\ i = k * times + r
        BY <1>0, <2>1, DivMod
  <2> HIDE DEF k, r
  <2>3. k < length
        BY <1>0, <2>1, <2>2, RowsOrdered
  <2> QED BY <2>2, <2>3, <1>0 DEF k
<1>4. ASSUME NEW k \in 0..(length - 1)
      PROVE  k * times \in 0..(times * length - 1) /\ (k * times) \div times = k
  <2>1. k * times + 0 \in 0..(length * times - 1)
        BY <1>0, PositionBound
  <2>2. (k * times) \div times = k
        BY <1>0, DivModUnique
  <2> QED BY <1>0, <2>1, <2>2
<1> HIDE DEF Raw
<1>5. ASSUME NEW s \in ExpandStores(t)
      PROVE  \E j \in 0..(rows - 1), q \in 0..(times - 1), k \in 0..(length - 1) :
                s = Expanded(j, q, k, times, length)
  <2>1. PICK i \in 0..(times * length - 1), j \in 0..(rows - 1), q \in 0..(times - 1) : s = Raw(i, j, q)
        BY <1>1
  <2>2. i \div times \in 0..(length - 1)
        BY <1>3
  <2>3. Raw(i, j, q) = Expanded(j, q, i \div times, times, length)
        BY <1>0, <1>2, <2>2
  <2> QED BY <2>1, <2>2, <2>3
<1>6. ASSUME NEW j \in 0..(rows - 1), NEW q \in 0..(times - 1), NEW k \in 0..(length - 1)
      PROVE  Expanded(j, q, k, times, length) \in ExpandStores(t)
  <2> DEFINE i == k * times
  <2>1. i \in 0..(times * length - 1) /\ i \div times = k
        BY <1>4
  <2>a. i \in Nat /\ j \in Nat /\ q \in Nat /\ k \in Nat
        BY <1>0
  <2> HIDE DEF i
  <2>2. Raw(i, j, q) = Expanded(j, q, k, times, length)
        BY <1>2, <2>1, <2>a
  <2> QED BY <1>1, <2>1, <2>2
<1>7. \A s \in ExpandStores(t) : s \in Expansion(rows, times, length)
      BY <1>5 DEF Expansion
<1>8. \A s \in Expansion(rows, times, length) : s \in ExpandStores(t)
      BY <1>6 DEF Expansion
<1> QED BY <1>7, <1>8

FillsExpanded(S, rows, times, length) ==
    /\ StoresEach(S, (rows * times) * length)
    /\ LoadsFrom(S, 1, rows * length)
    /\ \A s \in S : \A m \in DOMAIN s.from : s.from[m].arg = 1

LEMMA ExpandedCells ==
    ASSUME NEW rows \in Lengths, NEW times \in Lengths, NEW length \in Lengths, NEW S,
           S = Expansion(rows, times, length)
    PROVE  FillsExpanded(S, rows, times, length)
<1> DEFINE all == rows * times
           Row(j, q) == j * times + q
<1>a. S = {Expanded(j, q, k, times, length) :
              j \in 0..(rows - 1), q \in 0..(times - 1), k \in 0..(length - 1)}
      BY DEF Expansion
<1>0. rows \in Nat \ {0} /\ times \in Nat \ {0} /\ length \in Nat \ {0} /\ all \in Nat
      BY DEF Lengths
<1>1. ASSUME NEW j \in 0..(rows - 1), NEW q \in 0..(times - 1)
      PROVE  Row(j, q) \in 0..(all - 1)
      BY <1>0, PositionBound
<1>2. ASSUME NEW r \in 0..(all - 1)
      PROVE  \E j \in 0..(rows - 1), q \in 0..(times - 1) : r = Row(j, q)
      BY <1>0, PositionExists
<1>3. ASSUME NEW j \in 0..(rows - 1), NEW q \in 0..(times - 1),
             NEW i \in 0..(rows - 1), NEW p \in 0..(times - 1), Row(j, q) = Row(i, p)
      PROVE  j = i /\ q = p
  <2>1. j \in Nat /\ i \in Nat
        OBVIOUS
  <2>2. j * times + q = i * times + p
        BY <1>3
  <2> QED BY <1>0, <2>1, <2>2, PositionUnique
<1>4. \A j, q, k : Expanded(j, q, k, times, length).dst = Row(j, q) * length + k
      BY DEF Expanded, Store
<1>5. \A j, q, k : Expanded(j, q, k, times, length).from = <<Load(1, j * length + k)>>
      BY DEF Expanded, Store
<1> HIDE DEF all, Row
<1>6. {s.dst : s \in S} \subseteq 0..(all * length - 1)
  <2> SUFFICES ASSUME NEW j \in 0..(rows - 1), NEW q \in 0..(times - 1), NEW k \in 0..(length - 1)
               PROVE  Row(j, q) * length + k \in 0..(all * length - 1)
      BY <1>a, <1>4
  <2> DEFINE r == Row(j, q)
  <2>1. r \in 0..(all - 1)
        BY <1>1
  <2> HIDE DEF r
  <2>2. r * length + k \in 0..(all * length - 1)
        BY <1>0, <2>1, PositionBound
  <2> QED BY <2>2 DEF r
<1>7. ASSUME NEW n \in 0..(all * length - 1)
      PROVE  n \in {s.dst : s \in S}
  <2>1. PICK r \in 0..(all - 1), k \in 0..(length - 1) : n = r * length + k
        BY <1>0, PositionExists
  <2>2. PICK j \in 0..(rows - 1), q \in 0..(times - 1) : r = Row(j, q)
        BY <1>2
  <2>3. Expanded(j, q, k, times, length) \in S /\ Expanded(j, q, k, times, length).dst = n
        BY <1>a, <1>4, <2>1, <2>2
  <2> QED BY <2>3
<1>8. ASSUME NEW s \in S, NEW t \in S, s.dst = t.dst
      PROVE  s = t
  <2>1. PICK j \in 0..(rows - 1), q \in 0..(times - 1), k \in 0..(length - 1) :
             s = Expanded(j, q, k, times, length)
        BY <1>a
  <2>2. PICK i \in 0..(rows - 1), p \in 0..(times - 1), l \in 0..(length - 1) :
             t = Expanded(i, p, l, times, length)
        BY <1>a
  <2> DEFINE r == Row(j, q)
             u == Row(i, p)
  <2>3. r \in Nat /\ u \in Nat
    <3>1. r \in 0..(all - 1) /\ u \in 0..(all - 1)
          BY <1>1
    <3> HIDE DEF r, u
    <3> QED BY <3>1
  <2>4. r * length + k = u * length + l
        BY <1>4, <1>8, <2>1, <2>2
  <2>5. r = u /\ k = l
    <3> HIDE DEF r, u
    <3> QED BY <1>0, <2>3, <2>4, PositionUnique
  <2>6. j = i /\ q = p
        BY <1>3, <2>5
  <2> QED BY <2>1, <2>2, <2>5, <2>6
<1>9. StoresEach(S, all * length)
      BY <1>6, <1>7, <1>8 DEF StoresEach
<1>10. ASSUME NEW s \in S, NEW m \in DOMAIN s.from
       PROVE  s.from[m].arg = 1 /\ s.from[m].cell \in 0..(rows * length - 1)
  <2>1. PICK j \in 0..(rows - 1), q \in 0..(times - 1), k \in 0..(length - 1) :
             s = Expanded(j, q, k, times, length)
        BY <1>a
  <2>2. s.from[m] = Load(1, j * length + k)
        BY <1>5, <2>1
  <2>3. j * length + k \in 0..(rows * length - 1)
        BY <1>0, PositionBound
  <2> QED BY <2>2, <2>3 DEF Load
<1> QED BY <1>9, <1>10 DEF FillsExpanded, LoadsFrom, all
(* Cell k of row i of block j of an argument, whose rows are placed after   *)
(* `offset' others in blocks of `both' rows.                                *)
Placed(arg, j, i, k, both, length, offset, next) ==
    Store((j * both + (offset + i)) * next + k, <<Load(arg, (j * length + i) * next + k)>>)

PlacedAll(arg, blocks, both, length, offset, next) ==
    {Placed(arg, j, i, k, both, length, offset, next) :
        j \in 0..(blocks - 1), i \in 0..(length - 1), k \in 0..(next - 1)}

LEMMA ConcatStoresAre ==
    ASSUME NEW blocks \in Lengths, NEW dim1 \in Lengths, NEW dim2 \in Lengths, NEW next \in Lengths, NEW t,
           t.concat_dim1 = dim1, t.concat_dim2 = dim2,
           Cells(SubSeq(t.dimensions, 1, t.dim_to_concat)) = blocks,
           Cells(SubSeq(t.dimensions, t.dim_to_concat + 2, Len(t.dimensions))) = next
    PROVE  ConcatStores(t) = PlacedAll(1, blocks, dim1 + dim2, dim1, 0, next)
                                \cup PlacedAll(2, blocks, dim1 + dim2, dim2, dim1, next)
<1> DEFINE both == dim1 + dim2
           Raw(arg, j, i, k, length, offset) ==
              Store(j * both * next + offset * next + i * next + k,
                    <<Load(arg, j * length * next + i * next + k)>>)
           Copy(arg, length, offset) ==
              {Raw(arg, j, i, k, length, offset) :
                  i \in 0..(length - 1), j \in 0..(blocks - 1), k \in 0..(next - 1)}
<1>0. dim1 \in Nat /\ dim2 \in Nat /\ both \in Nat /\ next \in Nat /\ blocks \in Nat
      BY DEF Lengths
<1>1. ConcatStores(t) = Copy(1, dim1, 0) \cup Copy(2, dim2, dim1)
      BY DEF ConcatStores
<1> HIDE DEF both
<1>2. ASSUME NEW arg, NEW length \in Nat, NEW offset \in Nat, NEW j \in Nat, NEW i \in Nat, NEW k \in Nat
      PROVE  Raw(arg, j, i, k, length, offset) = Placed(arg, j, i, k, both, length, offset, next)
  <2>1. j * both * next + offset * next + i * next + k = (j * both + (offset + i)) * next + k
        BY <1>0
  <2>2. j * length * next + i * next + k = (j * length + i) * next + k
        BY <1>0
  <2> QED BY <2>1, <2>2 DEF Placed
<1> HIDE DEF Raw
<1>3. ASSUME NEW arg, NEW length \in Nat, NEW offset \in Nat
      PROVE  Copy(arg, length, offset) = PlacedAll(arg, blocks, both, length, offset, next)
  <2>1. \A j \in 0..(blocks - 1), i \in 0..(length - 1), k \in 0..(next - 1) :
           Raw(arg, j, i, k, length, offset) = Placed(arg, j, i, k, both, length, offset, next)
        BY <1>2
  <2> QED BY <2>1 DEF PlacedAll
<1>4. 0 \in Nat
      OBVIOUS
<1> HIDE DEF Copy
<1> QED BY <1>0, <1>1, <1>3, <1>4 DEF both

LEMMA PlacedCells ==
    ASSUME NEW blocks \in Lengths, NEW dim1 \in Lengths, NEW dim2 \in Lengths, NEW next \in Lengths,
           NEW both, both = dim1 + dim2, NEW S,
           S = PlacedAll(1, blocks, both, dim1, 0, next) \cup PlacedAll(2, blocks, both, dim2, dim1, next)
    PROVE  /\ StoresEach(S, (blocks * both) * next)
           /\ LoadsFrom(S, 1, (blocks * dim1) * next)
           /\ LoadsFrom(S, 2, (blocks * dim2) * next)
           /\ \A s \in S : \A m \in DOMAIN s.from : s.from[m].arg \in {1, 2}
<1> DEFINE all == blocks * both
           Row(j, x) == j * both + x
<1>0. /\ blocks \in Nat \ {0} /\ next \in Nat \ {0} /\ both \in Nat \ {0}
      /\ dim1 \in Nat /\ dim2 \in Nat /\ all \in Nat
      BY DEF Lengths
<1>1. ASSUME NEW j \in 0..(blocks - 1), NEW x \in 0..(both - 1)
      PROVE  Row(j, x) \in 0..(all - 1)
      BY <1>0, PositionBound
<1>2. ASSUME NEW r \in 0..(all - 1)
      PROVE  \E j \in 0..(blocks - 1), x \in 0..(both - 1) : r = Row(j, x)
  <2>1. r \in 0..(blocks * both - 1)
        OBVIOUS
  <2> QED BY ONLY <1>0, <2>1, PositionExists
<1>3. ASSUME NEW j \in 0..(blocks - 1), NEW x \in 0..(both - 1),
             NEW i \in 0..(blocks - 1), NEW y \in 0..(both - 1), Row(j, x) = Row(i, y)
      PROVE  j = i /\ x = y
  <2>1. j \in Nat /\ i \in Nat
        OBVIOUS
  <2>2. j * both + x = i * both + y
        BY <1>3
  <2> QED BY <1>0, <2>1, <2>2, PositionUnique
<1> HIDE DEF all
<1> DEFINE IsPlaced(s, arg, length, offset, j, i, k) ==
              /\ s = Placed(arg, j, i, k, both, length, offset, next)
              /\ offset + i \in 0..(both - 1)
              /\ s.dst = Row(j, offset + i) * next + k
              /\ s.from = <<Load(arg, (j * length + i) * next + k)>>
<1> HIDE DEF Row
<1>4. ASSUME NEW arg, NEW length \in Nat, NEW offset \in Nat, offset + length <= both,
             NEW s \in PlacedAll(arg, blocks, both, length, offset, next)
      PROVE  \E j \in 0..(blocks - 1), i \in 0..(length - 1), k \in 0..(next - 1) :
                IsPlaced(s, arg, length, offset, j, i, k)
  <2>1. PICK j \in 0..(blocks - 1), i \in 0..(length - 1), k \in 0..(next - 1) :
             s = Placed(arg, j, i, k, both, length, offset, next)
        BY DEF PlacedAll
  <2>2. offset + i \in 0..(both - 1)
        BY <1>0, <1>4
  <2>3. s.dst = Row(j, offset + i) * next + k /\ s.from = <<Load(arg, (j * length + i) * next + k)>>
        BY <2>1 DEF Placed, Store, Row
  <2> QED BY <2>1, <2>2, <2>3
<1>5. dim1 <= both /\ 0 + dim1 <= both /\ dim1 + dim2 <= both /\ 0 \in Nat
      BY <1>0
<1>6. ASSUME NEW s \in S
      PROVE  \/ \E j \in 0..(blocks - 1), i \in 0..(dim1 - 1), k \in 0..(next - 1) :
                   IsPlaced(s, 1, dim1, 0, j, i, k)
             \/ \E j \in 0..(blocks - 1), i \in 0..(dim2 - 1), k \in 0..(next - 1) :
                   IsPlaced(s, 2, dim2, dim1, j, i, k)
  <2> HIDE DEF IsPlaced
  <2>1. CASE s \in PlacedAll(1, blocks, both, dim1, 0, next)
        BY <1>0, <1>4, <1>5, <2>1
  <2>2. CASE s \in PlacedAll(2, blocks, both, dim2, dim1, next)
        BY <1>0, <1>4, <1>5, <2>2
  <2> QED BY <2>1, <2>2
(* Where a store puts its cell says which argument it copies. *)
<1> DEFINE Position(s, j, x, k) == s.dst = Row(j, x) * next + k
           Source(s, j, x, k) ==
              IF x < dim1 THEN s = Placed(1, j, x, k, both, dim1, 0, next)
                          ELSE s = Placed(2, j, x - dim1, k, both, dim2, dim1, next)
<1>7. ASSUME NEW s \in S
      PROVE  \E j \in 0..(blocks - 1), x \in 0..(both - 1), k \in 0..(next - 1) :
                Position(s, j, x, k) /\ Source(s, j, x, k)
  <2>1. CASE \E j \in 0..(blocks - 1), i \in 0..(dim1 - 1), k \in 0..(next - 1) :
                   IsPlaced(s, 1, dim1, 0, j, i, k)
    <3>1. PICK j \in 0..(blocks - 1), i \in 0..(dim1 - 1), k \in 0..(next - 1) :
                   IsPlaced(s, 1, dim1, 0, j, i, k)
          BY <2>1
    <3>2. 0 + i = i /\ i < dim1
          BY <1>0
    <3> QED BY <3>1, <3>2
  <2>2. CASE \E j \in 0..(blocks - 1), i \in 0..(dim2 - 1), k \in 0..(next - 1) :
                   IsPlaced(s, 2, dim2, dim1, j, i, k)
    <3>1. PICK j \in 0..(blocks - 1), i \in 0..(dim2 - 1), k \in 0..(next - 1) :
                   IsPlaced(s, 2, dim2, dim1, j, i, k)
          BY <2>2
    <3> DEFINE x == dim1 + i
    <3>2. x - dim1 = i /\ ~(x < dim1)
          BY <1>0
    <3>3. x \in 0..(both - 1) /\ Position(s, j, x, k) /\ s = Placed(2, j, i, k, both, dim2, dim1, next)
          BY <3>1
    <3> HIDE DEF x, Position
    <3> QED BY <3>2, <3>3
  <2> QED BY <1>6, <2>1, <2>2
<1> HIDE DEF IsPlaced
<1>8. {s.dst : s \in S} \subseteq 0..(all * next - 1)
  <2> SUFFICES ASSUME NEW s \in S
               PROVE  s.dst \in 0..(all * next - 1)
      OBVIOUS
  <2>1. PICK j \in 0..(blocks - 1), x \in 0..(both - 1), k \in 0..(next - 1) : Position(s, j, x, k)
        BY <1>7
  <2> DEFINE r == Row(j, x)
  <2>2. r \in 0..(all - 1)
        BY <1>1
  <2> HIDE DEF r
  <2>3. r * next + k \in 0..(all * next - 1)
        BY <1>0, <2>2, PositionBound
  <2> QED BY <2>1, <2>3 DEF r
<1>9. ASSUME NEW n \in 0..(all * next - 1)
      PROVE  n \in {s.dst : s \in S}
  <2>1. PICK r \in 0..(all - 1), k \in 0..(next - 1) : n = r * next + k
        BY <1>0, PositionExists
  <2>2. PICK j \in 0..(blocks - 1), x \in 0..(both - 1) : r = Row(j, x)
        BY <1>2
  <2>3. CASE x < dim1
    <3> DEFINE s == Placed(1, j, x, k, both, dim1, 0, next)
    <3>1. x \in 0..(dim1 - 1) /\ 0 + x = x
          BY <2>3, <1>0
    <3>2. s \in S
          BY <3>1 DEF PlacedAll
    <3>3. s.dst = Row(j, 0 + x) * next + k
          BY DEF Placed, Store, Row
    <3> HIDE DEF s
    <3> QED BY <2>1, <2>2, <3>1, <3>2, <3>3
  <2>4. CASE ~(x < dim1)
    <3> DEFINE i == x - dim1
               s == Placed(2, j, i, k, both, dim2, dim1, next)
    <3>1. i \in 0..(dim2 - 1) /\ dim1 + i = x
          BY <2>4, <1>0
    <3> HIDE DEF i
    <3>2. s \in S
          BY <3>1 DEF PlacedAll
    <3>3. s.dst = Row(j, dim1 + i) * next + k
          BY DEF Placed, Store, Row
    <3> HIDE DEF s
    <3> QED BY <2>1, <2>2, <3>1, <3>2, <3>3
  <2> QED BY <2>3, <2>4
<1>10. ASSUME NEW s \in S, NEW t \in S, s.dst = t.dst
       PROVE  s = t
  <2>1. PICK j \in 0..(blocks - 1), x \in 0..(both - 1), k \in 0..(next - 1) :
             Position(s, j, x, k) /\ Source(s, j, x, k)
        BY <1>7
  <2>2. PICK i \in 0..(blocks - 1), y \in 0..(both - 1), l \in 0..(next - 1) :
             Position(t, i, y, l) /\ Source(t, i, y, l)
        BY <1>7
  <2> DEFINE r == Row(j, x)
             u == Row(i, y)
  <2>3. r \in Nat /\ u \in Nat
    <3>1. r \in 0..(all - 1) /\ u \in 0..(all - 1)
          BY <1>1
    <3> HIDE DEF r, u
    <3> QED BY <3>1
  <2>4. r * next + k = u * next + l
        BY <1>10, <2>1, <2>2
  <2>5. r = u /\ k = l
    <3> HIDE DEF r, u
    <3> QED BY <1>0, <2>3, <2>4, PositionUnique
  <2>6. j = i /\ x = y
        BY <1>3, <2>5
  <2> QED BY <2>1, <2>2, <2>5, <2>6
<1>11. StoresEach(S, all * next)
       BY <1>8, <1>9, <1>10 DEF StoresEach
<1>12. ASSUME NEW length \in Nat, NEW j \in 0..(blocks - 1), NEW i \in 0..(length - 1), NEW k \in 0..(next - 1)
       PROVE  (j * length + i) * next + k \in 0..((blocks * length) * next - 1)
  <2> DEFINE r == j * length + i
             n == blocks * length
  <2>1. r \in 0..(n - 1) /\ n \in Nat
        BY <1>0, PositionBound
  <2> HIDE DEF r, n
  <2>2. r * next + k \in 0..(n * next - 1)
        BY <1>0, <2>1, PositionBound
  <2> QED BY <2>2 DEF r, n
<1>13. ASSUME NEW s \in S, NEW m \in DOMAIN s.from
       PROVE  \/ s.from[m].arg = 1 /\ s.from[m].cell \in 0..((blocks * dim1) * next - 1)
              \/ s.from[m].arg = 2 /\ s.from[m].cell \in 0..((blocks * dim2) * next - 1)
  <2>1. CASE \E j \in 0..(blocks - 1), i \in 0..(dim1 - 1), k \in 0..(next - 1) :
                   IsPlaced(s, 1, dim1, 0, j, i, k)
    <3>1. PICK j \in 0..(blocks - 1), i \in 0..(dim1 - 1), k \in 0..(next - 1) :
                   s.from = <<Load(1, (j * dim1 + i) * next + k)>>
          BY <2>1 DEF IsPlaced
    <3>2. s.from[m].arg = 1 /\ s.from[m].cell = (j * dim1 + i) * next + k
          BY <3>1 DEF Load
    <3> QED BY <1>0, <1>12, <3>2
  <2>2. CASE \E j \in 0..(blocks - 1), i \in 0..(dim2 - 1), k \in 0..(next - 1) :
                   IsPlaced(s, 2, dim2, dim1, j, i, k)
    <3>1. PICK j \in 0..(blocks - 1), i \in 0..(dim2 - 1), k \in 0..(next - 1) :
                   s.from = <<Load(2, (j * dim2 + i) * next + k)>>
          BY <2>2 DEF IsPlaced
    <3>2. s.from[m].arg = 2 /\ s.from[m].cell = (j * dim2 + i) * next + k
          BY <3>1 DEF Load
    <3> QED BY <1>0, <1>12, <3>2
  <2> QED BY <1>6, <2>1, <2>2
<1>14. LoadsFrom(S, 1, (blocks * dim1) * next) /\ LoadsFrom(S, 2, (blocks * dim2) * next)
       BY <1>13 DEF LoadsFrom
<1>15. \A s \in S : \A m \in DOMAIN s.from : s.from[m].arg \in {1, 2}
       BY <1>13
<1> QED BY <1>11, <1>14, <1>15 DEF all
-----------------------------------------------------------------------------
(* The cases of the definitions. *)
LEMMA TypeCases ==
    ASSUME NEW callee, NEW types, NEW scalars
    PROVE  /\ callee = "mkArray" => CallType(callee, types, scalars) = MkArrayType(scalars)
           /\ callee = "reduce" => CallType(callee, types, scalars) = ReduceType(types[1])
           /\ callee = "expand" => CallType(callee, types, scalars) = ExpandType(types[1], scalars[1])
           /\ callee = "concat" => CallType(callee, types, scalars) = ConcatType(types[1], types[2], scalars[1])
           /\ callee \in {"neg", "exp", "add", "sub"} => CallType(callee, types, scalars) = types[1]
BY Zenon DEF CallType

LEMMA StoreCases ==
    ASSUME NEW c, NEW t
    PROVE  /\ c.callee = "mkArray" => CallStores(c, t) = MkArrayStores(t, c.scalars)
           /\ c.callee = "reduce" => CallStores(c, t) = ReduceStores(t)
           /\ c.callee = "expand" => CallStores(c, t) = ExpandStores(t)
           /\ c.callee = "concat" => CallStores(c, t) = ConcatStores(t)
           /\ c.callee \in {"neg", "exp", "add", "sub"} => CallStores(c, t) = ElementwiseStores(t, Len(c.types))
BY Zenon DEF CallStores

LEMMA LengthCases ==
    ASSUME NEW callee, NEW t, NEW args
    PROVE  /\ callee = "reduce" =>
                 LoadedLengths(callee, t, args) = <<Cells(t.dimensions) * t.innermost_dimension>>
           /\ callee = "expand" =>
                 LoadedLengths(callee, t, args) = <<Cells(t.dimensions) \div t.innermost_dimension>>
           /\ callee = "concat" =>
                 LoadedLengths(callee, t, args) =
                    <<(Cells(t.dimensions) * t.concat_dim1) \div (t.concat_dim1 + t.concat_dim2),
                      (Cells(t.dimensions) * t.concat_dim2) \div (t.concat_dim1 + t.concat_dim2)>>
BY Zenon DEF LoadedLengths

LEMMA ShapeCases ==
    /\ call.callee = "mkArray" => Shape = [d \in 1..call.scalars[1] |-> call.scalars[d + 1]]
    /\ call.callee = "reduce" => Shape = Front(Dims(1))
    /\ call.callee = "expand" => Shape = Front(Dims(1)) \o <<call.scalars[1]>> \o <<Last(Dims(1))>>
    /\ call.callee = "concat" =>
          Shape = [d \in DOMAIN Dims(1) |->
                      Dims(1)[d] + (IF d = call.scalars[1] + 1 THEN Dims(2)[d] ELSE 0)]
    /\ call.callee \in {"neg", "exp", "add", "sub"} => Shape = Dims(1)
BY Zenon DEF Shape

LEMMA SourceCases ==
    ASSUME NEW c
    PROVE  /\ call.callee = "mkArray" => Sources(c) = <<Load(Constants, Len(Shape) + 1 + CellAt(Shape, c))>>
           /\ call.callee = "reduce" => Sources(c) = [j \in 1..Last(Dims(1)) |-> At(1, Append(c, j - 1))]
           /\ call.callee = "expand" => Sources(c) = <<At(1, RemoveAt(c, Len(c) - 1))>>
           /\ call.callee = "concat" =>
                 \A d : d = call.scalars[1] + 1 =>
                    Sources(c) = IF c[d] < Dims(1)[d] THEN <<At(1, c)>>
                                 ELSE <<At(2, [c EXCEPT ![d] = c[d] - Dims(1)[d]])>>
           /\ call.callee \in {"neg", "exp", "add", "sub"} => Sources(c) = [a \in DOMAIN call.types |-> At(a, c)]
BY Zenon DEF Sources

LEMMA CallTyped ==
    ASSUME call \in Calls
    PROVE  /\ call.callee \in Callees /\ call.types \in Seq(ArrayTypes) /\ call.scalars \in Seq(Int)
           /\ MadeFor(call)
           /\ \A a \in 1..Len(call.types) : Dims(a) \in Seq(Lengths)
<1>1. call \in [callee : Callees, types : Seq(ArrayTypes), scalars : Seq(Int)] /\ MadeFor(call)
      BY CallsAssumption
<1>2. ASSUME NEW a \in 1..Len(call.types)
      PROVE  Dims(a) \in Seq(Lengths)
  <2>1. call.types[a] \in ArrayTypes
        BY <1>1
  <2> QED BY <2>1 DEF Dims, ArrayTypes
<1> QED BY <1>1, <1>2

LEMMA CoordinateIsIn ==
    ASSUME NEW dims \in Seq(Lengths), NEW c \in Coordinates(dims)
    PROVE  IsIn(dims, c) /\ c \in Seq(Nat) /\ Len(c) = Len(dims)
<1>1. DOMAIN dims = 1..Len(dims) /\ Len(dims) \in Nat
      OBVIOUS
<1>2. c \in [1..Len(dims) -> UNION {0..(dims[d] - 1) : d \in DOMAIN dims}]
      BY <1>1 DEF Coordinates
<1>3. ASSUME NEW d \in 1..Len(dims)
      PROVE  c[d] \in Nat /\ c[d] \in 0..(dims[d] - 1)
  <2>1. PICK e \in DOMAIN dims : c[d] \in 0..(dims[e] - 1)
        BY <1>2
  <2>2. dims[e] \in Nat /\ dims[d] \in Nat
        BY <1>1 DEF Lengths
  <2>3. c[d] \in Nat /\ c[d] < dims[d]
        BY <1>1, <2>1, <2>2 DEF Coordinates
  <2> QED BY <2>2, <2>3
<1>4. c \in [1..Len(dims) -> Nat]
      BY <1>2, <1>3
<1> QED BY <1>1, <1>3, <1>4 DEF IsIn

(* What is left to show of a call other than mkArray. *)
LEMMA StoresRight ==
    ASSUME call.callee # "mkArray", StoresEach(stores, Cells(type.dimensions)),
           \A s \in stores : \A m \in DOMAIN s.from : s.from[m].cell \in 0..(Cells(Dims(s.from[m].arg)) - 1),
           LoadedLengths(call.callee, type, Len(call.types)) = [a \in DOMAIN call.types |-> Cells(Dims(a))]
    PROVE  EveryCellStored
BY DEF EveryCellStored, StoresEach, Matched

Compiled ==
    /\ call \in Calls
    /\ type = CallType(call.callee, call.types, call.scalars)
    /\ stores = CallStores(call, type)

LEMMA ElementwiseRight ==
    ASSUME Compiled, call.callee \in {"neg", "exp", "add", "sub"}
    PROVE  EveryCellStored /\ ElementsRight
<1> DEFINE dims == Dims(1)
           args == Len(call.types)
           All(n) == Store(n, [a \in 1..args |-> Load(a, n)])
<1>1. call.types \in Seq(ArrayTypes) /\ MadeFor(call) /\ \A a \in 1..args : Dims(a) \in Seq(Lengths)
      BY CallTyped DEF Compiled
<1>2. args \in {1, 2} /\ DOMAIN call.types = 1..args /\ \A a \in 1..args : Dims(a) = dims
      BY <1>1 DEF MadeFor, Dims
<1>3. type.dimensions = dims
      BY TypeCases DEF Compiled, Dims
<1>4. stores = ElementwiseStores(type, args)
      BY StoreCases DEF Compiled
<1> DEFINE cells == Cells(dims)
<1>5. dims \in Seq(Lengths) /\ cells \in Nat
  <2>1. 1 \in 1..args
        BY <1>2
  <2>2. dims \in Seq(Lengths)
        BY <1>1, <2>1
  <2>3. Cells(dims) \in Lengths
        BY <2>2, CellsPositive
  <2> QED BY <2>2, <2>3 DEF Lengths
<1>6. stores = {All(n) : n \in 0..(cells - 1)}
      BY <1>3, <1>4 DEF ElementwiseStores
<1>7. \A n : All(n).dst = n /\ All(n).from = [a \in 1..args |-> Load(a, n)]
      BY DEF Store
<1> HIDE DEF All, args, cells
<1>8. StoresEach(stores, cells)
      BY <1>6, <1>7 DEF StoresEach
<1>9. ASSUME NEW s \in stores, NEW m \in DOMAIN s.from
      PROVE  s.from[m].cell \in 0..(Cells(Dims(s.from[m].arg)) - 1)
  <2>1. PICK n \in 0..(cells - 1) : s = All(n)
        BY <1>6
  <2>2. m \in 1..args /\ s.from[m] = Load(m, n)
        BY <1>7, <2>1
  <2>3. s.from[m].arg = m /\ s.from[m].cell = n
        BY <2>2 DEF Load
  <2> QED BY <1>2, <2>2, <2>3 DEF cells
<1>10. LoadedLengths(call.callee, type, args) = [a \in DOMAIN call.types |-> Cells(Dims(a))]
  <2>1. LoadedLengths(call.callee, type, args) = [a \in 1..args |-> Cells(type.dimensions)]
    <3>1. call.callee \in {"mkArray", "neg", "exp", "add", "sub"}
          OBVIOUS
    <3> QED BY <3>1, Zenon DEF LoadedLengths
  <2> QED BY <1>2, <1>3, <2>1
<1>11. EveryCellStored
       BY <1>3, <1>8, <1>9, <1>10, StoresRight DEF args, cells
<1>12. ASSUME NEW c \in Coordinates(Shape)
       PROVE  Store(CellAt(Shape, c), Sources(c)) \in stores
  <2>1. Shape = dims
        BY ShapeCases
  <2>2. IsIn(dims, c)
        BY <1>5, <2>1, CoordinateIsIn
  <2> DEFINE n == CellAt(dims, c)
  <2>3. n \in 0..(cells - 1)
        BY <1>5, <2>2, CellAtBound DEF cells
  <2>4. Sources(c) = [a \in DOMAIN call.types |-> At(a, c)]
        BY SourceCases
  <2>5. \A a \in 1..args : At(a, c) = Load(a, n)
        BY <1>2 DEF At
  <2>6. Sources(c) = [a \in 1..args |-> Load(a, n)]
        BY <1>2, <2>4, <2>5
  <2>7. Store(n, Sources(c)) = All(n)
        BY <2>6 DEF All
  <2> HIDE DEF n
  <2>8. Store(n, Sources(c)) \in stores
        BY <1>6, <2>3, <2>7
  <2> QED BY <2>1, <2>8 DEF n
<1> QED BY <1>11, <1>12 DEF ElementsRight

LEMMA FrontAndLast ==
    ASSUME NEW S, NEW s \in Seq(S), NEW u \in Seq(S), NEW x \in S, Extends(s, u, x)
    PROVE  Front(s) = u /\ Last(s) = x
<1>1. Len(s) = Len(u) + 1 /\ s = Append(u, x) /\ Len(u) \in Nat
      BY DEF Extends
<1>2. SubSeq(s, 1, Len(u)) = u
  <2> DEFINE v == SubSeq(s, 1, Len(u))
  <2>1. v \in Seq(S) /\ Len(v) = Len(u) /\ \A m \in 1..Len(u) : v[m] = u[m]
        BY <1>1
  <2> HIDE DEF v
  <2>2. v = u
        BY <2>1
  <2> QED BY <2>2 DEF v
<1>3. Len(s) - 1 = Len(u)
      BY <1>1
<1> QED BY <1>1, <1>2, <1>3 DEF Front, Last

(* The lengths and the cells of an array with one dimension more. *)
LEMMA OneMoreDimension ==
    ASSUME NEW dims \in Seq(Lengths), NEW u \in Seq(Lengths), NEW x \in Lengths, dims = Append(u, x)
    PROVE  Cells(dims) = Cells(u) * x
<1>1. u \in Seq(Int) /\ x \in Int
      BY DEF Lengths
<1> QED BY ONLY <1>1, CellsAppend, dims = Append(u, x)

LEMMA SingleArgument ==
    ASSUME NEW n, NEW x, n = Cells(Dims(1)), x = n, Len(call.types) = 1, call.types \in Seq(ArrayTypes)
    PROVE  <<x>> = [a \in DOMAIN call.types |-> Cells(Dims(a))]
<1>1. DOMAIN call.types = 1..1
      OBVIOUS
<1>2. \A a \in 1..1 : a = 1
      OBVIOUS
<1> QED BY <1>1, <1>2

LEMMA ReduceRight ==
    ASSUME Compiled, call.callee = "reduce"
    PROVE  EveryCellStored /\ ElementsRight
<1> DEFINE dims == Dims(1)
<1>1. /\ call.types \in Seq(ArrayTypes) /\ Len(call.types) = 1 /\ dims # << >>
      /\ dims \in Seq(Lengths) /\ dims = call.types[1].dimensions
      BY CallTyped DEF Compiled, MadeFor, Dims
<1> HIDE DEF dims
<1>2. PICK u \in Seq(Lengths), x \in Lengths : Extends(dims, u, x)
      BY <1>1, LastDimension
<1>3. Front(dims) = u /\ Last(dims) = x
      BY <1>1, <1>2, FrontAndLast
<1>4. dims = Append(u, x)
      BY <1>2 DEF Extends
<1>5. type = ReduceType(call.types[1]) /\ stores = ReduceStores(type)
      BY TypeCases, StoreCases DEF Compiled
<1>6. type.dimensions = u /\ type.innermost_dimension = x
      BY <1>1, <1>3, <1>5 DEF ReduceType
<1> DEFINE cells == Cells(u)
<1>7. /\ stores = {RowSum(i, x) : i \in 0..(cells - 1)}
      /\ StoresEach(stores, cells)
      /\ LoadsFrom(stores, 1, cells * x)
      /\ \A s \in stores : \A m \in DOMAIN s.from : s.from[m].arg = 1
      BY <1>5, <1>6, ReduceStoresAre
<1>8. Cells(dims) = cells * x
      BY <1>1, <1>4, OneMoreDimension
<1>9. EveryCellStored
  <2>1. \A s \in stores : \A m \in DOMAIN s.from : s.from[m].cell \in 0..(Cells(Dims(s.from[m].arg)) - 1)
        BY <1>7, <1>8 DEF LoadsFrom, dims
  <2>2. LoadedLengths(call.callee, type, Len(call.types)) = <<cells * x>>
        BY <1>6, LengthCases
  <2> DEFINE n == cells * x
  <2>3. n = Cells(Dims(1)) /\ LoadedLengths(call.callee, type, Len(call.types)) = <<n>>
        BY <1>8, <2>2 DEF dims
  <2> HIDE DEF n
  <2>4. LoadedLengths(call.callee, type, Len(call.types)) = [a \in DOMAIN call.types |-> Cells(Dims(a))]
        BY <1>1, <2>3, SingleArgument
  <2> QED BY <1>6, <1>7, <2>1, <2>4, StoresRight
<1>10. ASSUME NEW c \in Coordinates(Shape)
       PROVE  Store(CellAt(Shape, c), Sources(c)) \in stores
  <2>1. Shape = u
        BY <1>3, ShapeCases DEF dims
  <2>2. IsIn(u, c) /\ c \in Seq(Nat) /\ Len(c) = Len(u)
        BY <2>1, CoordinateIsIn
  <2> DEFINE n == CellAt(u, c)
  <2>3. n \in 0..(cells - 1)
        BY <2>2, CellAtBound
  <2>4. Sources(c) = [j \in 1..x |-> At(1, Append(c, j - 1))]
        BY <1>3, SourceCases DEF dims
  <2>5. ASSUME NEW j \in 1..x
        PROVE  At(1, Append(c, j - 1)) = Load(1, n * x + (j - 1))
    <3> DEFINE y == j - 1
               e == Append(c, y)
    <3>0. y \in Nat
          BY DEF Lengths
    <3>1. IsLonger(dims, e, u, c, x, y)
      <4>1. u \in Seq(Int) /\ x \in Int /\ y \in Int
            BY <3>0 DEF Lengths
      <4>2. (\A m \in 1..Len(u) : c[m] \in Int /\ e[m] = c[m]) /\ e[Len(u) + 1] = y
            BY <2>2, <3>0
      <4> QED BY <1>4, <4>1, <4>2 DEF IsLonger
    <3> HIDE DEF e, y
    <3>2. CellAt(dims, e) = InRow(CellAt(u, c), x, y)
          BY ONLY <3>1, CellAtAppend
    <3> QED BY <3>2 DEF At, dims, InRow, e, y
  <2>6. Store(n, Sources(c)) = RowSum(n, x)
        BY <2>4, <2>5 DEF RowSum
  <2> HIDE DEF n
  <2>7. Store(n, Sources(c)) \in stores
        BY <1>7, <2>3, <2>6
  <2> QED BY <2>1, <2>7 DEF n
<1> QED BY <1>9, <1>10 DEF ElementsRight

LEMMA ExpandRight ==
    ASSUME Compiled, call.callee = "expand"
    PROVE  EveryCellStored /\ ElementsRight
<1> DEFINE dims == Dims(1)
           times == call.scalars[1]
<1>1. /\ call.types \in Seq(ArrayTypes) /\ Len(call.types) = 1 /\ dims # << >>
      /\ dims \in Seq(Lengths) /\ dims = call.types[1].dimensions
      /\ call.scalars \in Seq(Int) /\ Len(call.scalars) = 1 /\ times \in Lengths
      BY CallTyped DEF Compiled, MadeFor, Dims
<1> HIDE DEF dims, times
<1>2. PICK u \in Seq(Lengths), x \in Lengths : Extends(dims, u, x)
      BY <1>1, LastDimension
<1>3. Front(dims) = u /\ Last(dims) = x
      BY <1>1, <1>2, FrontAndLast
<1>4. dims = Append(u, x)
      BY <1>2 DEF Extends
<1>5. type = ExpandType(call.types[1], times) /\ stores = ExpandStores(type)
      BY TypeCases, StoreCases DEF Compiled, times
<1> DEFINE rows == Cells(u)
           v == Append(u, times)
           shape == Append(v, x)
<1>6. v \in Seq(Lengths) /\ shape \in Seq(Lengths) /\ rows \in Lengths
      BY <1>1, CellsPositive
<1>7. u \o <<times, x>> = shape /\ u \o <<times>> \o <<x>> = shape
      BY <1>1
<1>8. type.dimensions = shape /\ type.innermost_dimension = times
      BY <1>1, <1>3, <1>5, <1>7 DEF ExpandType
<1>9. Cells(dims) = rows * x /\ Cells(v) = rows * times /\ Cells(shape) = (rows * times) * x
  <2>1. Cells(dims) = rows * x
        BY <1>1, <1>4, OneMoreDimension
  <2>2. Cells(v) = rows * times
        BY <1>1, <1>6, OneMoreDimension
  <2>3. Cells(shape) = Cells(v) * x
    <3> HIDE DEF v
    <3> QED BY <1>6, OneMoreDimension
  <2> QED BY <2>1, <2>2, <2>3
<1>10. Last(shape) = x /\ SubSeq(shape, 1, Len(shape) - 2) = u
  <2>1. Len(shape) = Len(u) + 2 /\ Len(u) \in Nat /\ Len(shape) - 2 = Len(u)
        BY <1>1
  <2>2. shape[Len(shape)] = x
        BY <1>1
  <2> DEFINE w == SubSeq(shape, 1, Len(u))
  <2>3. w \in Seq(Lengths) /\ Len(w) = Len(u) /\ \A m \in 1..Len(u) : w[m] = u[m]
        BY <1>1, <1>6, <2>1
  <2>4. w = u
    <3> HIDE DEF w
    <3> QED BY <2>3
  <2> QED BY <2>1, <2>2, <2>4 DEF Last
<1> HIDE DEF shape, v, rows
<1>11. stores = Expansion(rows, times, x)
  <2>1. /\ type.innermost_dimension = times /\ Last(type.dimensions) = x
        /\ Cells(SubSeq(type.dimensions, 1, Len(type.dimensions) - 2)) = rows
        BY <1>8, <1>10 DEF rows
  <2> QED BY <1>1, <1>5, <1>6, <2>1, ExpandStoresAre
<1>12. /\ StoresEach(stores, (rows * times) * x)
       /\ LoadsFrom(stores, 1, rows * x)
       /\ \A s \in stores : \A m \in DOMAIN s.from : s.from[m].arg = 1
  <2>1. FillsExpanded(stores, rows, times, x)
        BY <1>1, <1>6, <1>11, ExpandedCells
  <2> QED BY <2>1 DEF FillsExpanded
<1>13. EveryCellStored
  <2>1. \A s \in stores : \A m \in DOMAIN s.from : s.from[m].cell \in 0..(Cells(Dims(s.from[m].arg)) - 1)
        BY <1>9, <1>12 DEF LoadsFrom, dims
  <2>2. LoadedLengths(call.callee, type, Len(call.types)) = <<((rows * times) * x) \div times>>
        BY <1>8, <1>9, LengthCases
  <2> DEFINE n == rows * x
             l == ((rows * times) * x) \div times
  <2>3. l = n
    <3>1. rows \in Nat /\ x \in Nat /\ times \in Nat \ {0} /\ n \in Nat
          BY <1>1, <1>6 DEF Lengths
    <3>2. (rows * times) * x = n * times + 0
          BY <3>1
    <3> HIDE DEF n
    <3> QED BY <3>1, <3>2, DivModUnique
  <2>4. n = Cells(Dims(1)) /\ LoadedLengths(call.callee, type, Len(call.types)) = <<l>>
        BY <1>9, <2>2 DEF dims
  <2> HIDE DEF n, l
  <2>5. LoadedLengths(call.callee, type, Len(call.types)) = [a \in DOMAIN call.types |-> Cells(Dims(a))]
        BY <1>1, <2>3, <2>4, SingleArgument
  <2> QED BY <1>8, <1>9, <1>12, <2>1, <2>5, StoresRight
<1>14. ASSUME NEW c \in Coordinates(Shape)
       PROVE  Store(CellAt(Shape, c), Sources(c)) \in stores
  <2>1. Shape = shape
        BY <1>3, <1>7, ShapeCases DEF dims, times
  <2>2. IsIn(shape, c) /\ c \in Seq(Nat) /\ Len(c) = Len(shape)
        BY <1>6, <2>1, CoordinateIsIn
  <2> DEFINE n == Len(u)
             q == c[n + 1]
             k == c[n + 2]
             e == RemoveAt(c, n + 1)
             j == CellAt(u, c)
  <2>3. /\ n \in Nat /\ Len(shape) = n + 2 /\ Len(v) = n + 1
        /\ shape[n + 1] = times /\ shape[n + 2] = x /\ \A m \in 1..n : shape[m] = u[m]
        BY <1>1 DEF shape, v
  <2>4. IsIn(u, c) /\ q \in 0..(times - 1) /\ k \in 0..(x - 1)
        BY <2>2, <2>3 DEF IsIn
  <2>5. (\A m \in 1..(n + 2) : c[m] \in Int) /\ Len(c) = n + 2
        BY <2>2, <2>3
  <2>6. j \in 0..(rows - 1)
        BY <2>4, CellAtBound DEF rows
  <2>7. CellAt(v, c) = InRow(j, times, q)
    <3>1. IsLonger(v, c, u, c, times, q)
          BY <1>1, <2>5 DEF IsLonger, v, Lengths
    <3> HIDE DEF q, j
    <3> QED BY ONLY <3>1, CellAtAppend DEF j
  <2>8. CellAt(shape, c) = InRow(CellAt(v, c), x, k)
    <3>1. IsLonger(shape, c, v, c, x, k)
          BY <1>6, <2>3, <2>5 DEF IsLonger, shape, Lengths
    <3> HIDE DEF k
    <3> QED BY ONLY <3>1, CellAtAppend
  <2>9. e \in Seq(Nat) /\ Len(e) = n + 1 /\ e[n + 1] = k /\ \A m \in 1..n : e[m] = c[m]
    <3> DEFINE front == SubSeq(c, 1, n)
               last == SubSeq(c, n + 2, n + 2)
    <3>1. front \in Seq(Nat) /\ Len(front) = n /\ \A m \in 1..n : front[m] = c[m]
          BY <2>2, <2>3
    <3>2. last \in Seq(Nat) /\ Len(last) = 1 /\ last[1] = k
          BY <2>2, <2>3
    <3>3. e = front \o last
      <4>1. Len(c) = n + 2 /\ (n + 1) - 1 = n /\ (n + 1) + 1 = n + 2
            BY <2>2, <2>3
      <4> QED BY <4>1 DEF RemoveAt
    <3>4. last = <<k>> /\ k \in Nat
      <4>1. k \in Nat
            BY <2>2, <2>3
      <4> HIDE DEF last, k
      <4>2. Len(<<k>>) = Len(last) /\ \A m \in 1..Len(last) : last[m] = <<k>>[m]
            BY <3>2
      <4>3. <<k>> \in Seq(Nat)
            BY <4>1
      <4> QED BY <3>2, <4>1, <4>2, <4>3
    <3>5. e = Append(front, k)
      <4> HIDE DEF front, last, e, k
      <4> QED BY <3>1, <3>3, <3>4
    <3> HIDE DEF front, e, k
    <3>6. /\ e \in Seq(Nat) /\ Len(front) \in Nat /\ Len(e) = Len(front) + 1
          /\ e[Len(front) + 1] = k /\ \A m \in 1..Len(front) : e[m] = front[m]
          BY ONLY <3>1, <3>4, <3>5, AppendedNumber
    <3> QED BY <3>1, <3>6
  <2>10. CellAt(dims, e) = InRow(j, x, k)
    <3>1. IsLonger(dims, e, u, c, x, k)
          BY <1>4, <2>5, <2>9 DEF IsLonger, Lengths
    <3> HIDE DEF k, e, j
    <3> QED BY ONLY <3>1, CellAtAppend DEF j
  <2>11. Sources(c) = <<Load(1, j * x + k)>>
    <3>1. Sources(c) = <<At(1, RemoveAt(c, Len(c) - 1))>>
          BY SourceCases
    <3>2. Len(c) - 1 = n + 1
          BY <2>5, <2>3
    <3>3. At(1, e) = Load(1, j * x + k)
          BY <2>10 DEF At, InRow, dims
    <3> QED BY <3>1, <3>2, <3>3
  <2>12. CellAt(Shape, c) = (j * times + q) * x + k
         BY <2>1, <2>7, <2>8 DEF InRow
  <2> HIDE DEF j, q, k
  <2>13. Expanded(j, q, k, times, x) \in stores
         BY <1>11, <2>4, <2>6 DEF Expansion
  <2> QED BY <2>11, <2>12, <2>13 DEF Expanded
<1> QED BY <1>13, <1>14 DEF ElementsRight
(* An array with a dimension of length x between the dimensions s and t.    *)
IsAround(dims, s, x, t) ==
    /\ dims \in Seq(Lengths) /\ s \in Seq(Lengths) /\ t \in Seq(Lengths) /\ x \in Lengths
    /\ Len(dims) = Len(s) + 1 + Len(t)
    /\ \A m \in 1..Len(s) : dims[m] = s[m]
    /\ dims[Len(s) + 1] = x
    /\ \A m \in 1..Len(t) : dims[Len(s) + 1 + m] = t[m]

LEMMA AroundJoined ==
    ASSUME NEW dims, NEW s, NEW x, NEW t, IsAround(dims, s, x, t)
    PROVE  dims = Append(s, x) \o t
<1> DEFINE e == Append(s, x) \o t
           k == Len(s)
           l == Len(t)
<1>1. /\ dims \in Seq(Lengths) /\ s \in Seq(Lengths) /\ t \in Seq(Lengths) /\ x \in Lengths
      /\ k \in Nat /\ l \in Nat /\ Len(dims) = k + 1 + l
      BY DEF IsAround
<1>2. e \in Seq(Lengths) /\ Len(e) = k + 1 + l
      BY <1>1
<1>3. ASSUME NEW m \in 1..(k + 1 + l)
      PROVE  e[m] = dims[m]
  <2>1. CASE m <= k
        BY <1>1, <2>1 DEF IsAround
  <2>2. CASE m = k + 1
        BY <1>1, <2>2 DEF IsAround
  <2>3. CASE m > k + 1
    <3> DEFINE j == m - (k + 1)
    <3>1. j \in 1..l /\ m = k + 1 + j
          BY <1>1, <2>3
    <3>2. e[m] = t[j]
          BY <1>1, <2>3, <3>1
    <3> HIDE DEF j
    <3> QED BY <3>1, <3>2 DEF IsAround
  <2> QED BY <1>1, <2>1, <2>2, <2>3
<1> HIDE DEF e, k, l
<1>4. e = dims
      BY <1>1, <1>2, <1>3
<1> QED BY <1>4 DEF e

LEMMA AroundParts ==
    ASSUME NEW dims, NEW s, NEW x, NEW t, IsAround(dims, s, x, t), NEW d, d = Len(s)
    PROVE  SubSeq(dims, 1, d) = s /\ SubSeq(dims, d + 2, Len(dims)) = t
<1> DEFINE u == SubSeq(dims, 1, d)
           v == SubSeq(dims, d + 2, Len(dims))
           l == Len(t)
<1>1. /\ dims \in Seq(Lengths) /\ s \in Seq(Lengths) /\ t \in Seq(Lengths)
      /\ d \in Nat /\ l \in Nat /\ Len(dims) = d + 1 + l
      BY DEF IsAround
<1>2. u \in Seq(Lengths) /\ Len(u) = Len(s) /\ \A m \in 1..Len(s) : u[m] = s[m]
      BY <1>1 DEF IsAround
<1>3. v \in Seq(Lengths) /\ Len(v) = l
      BY <1>1
<1>4. ASSUME NEW m \in 1..l
      PROVE  v[m] = t[m]
  <2>1. v[m] = dims[d + 1 + m]
        BY <1>1
  <2> QED BY <2>1 DEF IsAround
<1>5. u = s
  <2> HIDE DEF u
  <2> QED BY <1>1, <1>2
<1>6. v = t
  <2>1. Len(v) = Len(t) /\ \A m \in 1..Len(t) : v[m] = t[m]
        BY <1>3, <1>4
  <2>2. v \in Seq(Lengths) /\ t \in Seq(Lengths)
        BY <1>1, <1>3
  <2> HIDE DEF v
  <2> QED BY ONLY <2>1, <2>2
<1> QED BY <1>5, <1>6

LEMMA CellsAround ==
    ASSUME NEW dims, NEW s, NEW x, NEW t, IsAround(dims, s, x, t)
    PROVE  Cells(dims) = (Cells(s) * x) * Cells(t)
<1> DEFINE u == Append(s, x)
<1>1. s \in Seq(Lengths) /\ t \in Seq(Lengths) /\ x \in Lengths /\ u \in Seq(Lengths)
      BY DEF IsAround
<1>2. u \in Seq(Int) /\ t \in Seq(Int)
      BY <1>1 DEF Lengths
<1>3. dims = u \o t
      BY AroundJoined
<1>4. Cells(u) = Cells(s) * x
      BY <1>1, OneMoreDimension
<1> HIDE DEF u
<1>5. Cells(u \o t) = Cells(u) * Cells(t)
      BY <1>2, CellsJoined
<1> QED BY <1>3, <1>4, <1>5

(* The coordinate c after the dimensions s and one more. *)
After(c, s, t) == [m \in 1..Len(t) |-> c[Len(s) + 1 + m]]

Coordinate(c, dims) == \A m \in 1..Len(dims) : c[m] \in Int

LEMMA CellAtAround ==
    ASSUME NEW dims, NEW s, NEW x, NEW t, IsAround(dims, s, x, t), NEW c, Coordinate(c, dims),
           NEW y, y = c[Len(s) + 1]
    PROVE  CellAt(dims, c) = InRow(InRow(CellAt(s, c), x, y), Cells(t), CellAt(t, After(c, s, t)))
<1> DEFINE u == Append(s, x)
           e == After(c, s, t)
<1>1. /\ s \in Seq(Lengths) /\ t \in Seq(Lengths) /\ x \in Lengths /\ Len(s) \in Nat /\ Len(t) \in Nat
      /\ Len(dims) = Len(s) + 1 + Len(t)
      BY DEF IsAround
<1>2. s \in Seq(Int) /\ u \in Seq(Int) /\ t \in Seq(Int) /\ x \in Int /\ Len(u) = Len(s) + 1
      BY <1>1 DEF Lengths
<1>3. \A m \in 1..(Len(s) + 1 + Len(t)) : c[m] \in Int
      BY <1>1 DEF Coordinate
<1>4. CellAt(u, c) = InRow(CellAt(s, c), x, y)
  <2>1. IsLonger(u, c, s, c, x, y)
        BY <1>1, <1>2, <1>3 DEF IsLonger
  <2> HIDE DEF u
  <2> QED BY ONLY <2>1, CellAtAppend
<1>5. Joins(c, u, c, t, e)
  <2>1. \A m \in 1..Len(u) : c[m] \in Int
        BY <1>1, <1>2, <1>3
  <2>2. ASSUME NEW m \in 1..Len(t)
        PROVE  e[m] \in Int /\ c[Len(u) + m] = e[m]
    <3>1. e[m] = c[Len(s) + 1 + m] /\ Len(s) + 1 + m \in 1..(Len(s) + 1 + Len(t))
          BY <1>1 DEF After
    <3>2. e[m] \in Int
          BY <1>3, <3>1
    <3>3. Len(u) + m = Len(s) + 1 + m
          BY <1>1, <1>2
    <3> HIDE DEF e, u
    <3> QED BY <3>1, <3>2, <3>3
  <2> HIDE DEF e, u
  <2> QED BY <2>1, <2>2 DEF Joins
<1>6. CellAt(u \o t, c) = CellAt(u, c) * Cells(t) + CellAt(t, e)
  <2> HIDE DEF u, e
  <2> QED BY <1>2, <1>5, CellAtJoined
<1>7. dims = u \o t
      BY AroundJoined
<1> HIDE DEF u, e
<1> QED BY <1>4, <1>6, <1>7 DEF InRow, e
(* e and dims differ in one place at most, the one after the first k. *)
DifferAfter(k, dims, e) ==
    /\ dims \in Seq(Lengths) /\ k \in 0..(Len(dims) - 1)
    /\ e \in Seq(Lengths) /\ Len(e) = Len(dims)
    /\ \A m \in 1..Len(dims) : m # k + 1 => e[m] = dims[m]

LEMMA AroundIs ==
    ASSUME NEW k, NEW dims, NEW e, DifferAfter(k, dims, e),
           NEW s, s = SubSeq(dims, 1, k), NEW t, t = SubSeq(dims, k + 2, Len(dims)),
           NEW x, x = e[k + 1]
    PROVE  IsAround(e, s, x, t) /\ Len(s) = k
<1> DEFINE len == Len(dims)
           l == len - (k + 1)
<1>0. /\ dims \in Seq(Lengths) /\ k \in 0..(Len(dims) - 1)
      /\ e \in Seq(Lengths) /\ Len(e) = Len(dims)
      /\ \A m \in 1..Len(dims) : m # k + 1 => e[m] = dims[m]
      BY DEF DifferAfter
<1>1. k \in Nat /\ len \in Nat /\ l \in Nat /\ len = k + 1 + l
      BY <1>0
<1>2. s \in Seq(Lengths) /\ Len(s) = k /\ \A m \in 1..k : s[m] = dims[m]
      BY <1>0, <1>1
<1>3. t \in Seq(Lengths) /\ Len(t) = l /\ \A m \in 1..l : t[m] = dims[k + 1 + m]
  <2> HIDE DEF len, l
  <2>1. t = SubSeq(dims, k + 2, len) /\ dims \in Seq(Lengths) /\ len = Len(dims)
        BY <1>0 DEF len
  <2>2. t \in Seq(Lengths) /\ Len(t) = l
        BY ONLY <1>1, <2>1
  <2>3. ASSUME NEW m \in 1..l
        PROVE  t[m] = dims[k + 1 + m]
    <3>1. t[m] = dims[k + 2 + m - 1]
          BY ONLY <1>1, <2>1, m \in 1..l
    <3>2. k + 2 + m - 1 = k + 1 + m
          BY ONLY <1>1, m \in 1..l
    <3> QED BY <3>1, <3>2
  <2> QED BY <2>2, <2>3
<1>4. x \in Lengths
      BY <1>0, <1>1
<1>5. \A m \in 1..k : e[m] = s[m]
      BY <1>0, <1>1, <1>2
<1>6. \A m \in 1..l : e[k + 1 + m] = t[m]
  <2> TAKE m \in 1..l
  <2>1. k + 1 + m \in 1..len /\ k + 1 + m # k + 1
        BY <1>1
  <2>2. e[k + 1 + m] = dims[k + 1 + m]
        BY <1>0, <2>1
  <2> QED BY <1>3, <2>2
<1>7. Len(e) = k + 1 + l
      BY <1>0, <1>1
<1> HIDE DEF len, l
<1>8. Len(s) = k /\ Len(t) = l /\ e[k + 1] = x
      BY <1>2, <1>3
<1> QED BY <1>0, <1>2, <1>3, <1>4, <1>5, <1>6, <1>7, <1>8 DEF IsAround

FillsConcatenated(S, blocks, dim1, dim2, next) ==
    /\ StoresEach(S, (blocks * (dim1 + dim2)) * next)
    /\ LoadsFrom(S, 1, (blocks * dim1) * next)
    /\ LoadsFrom(S, 2, (blocks * dim2) * next)
    /\ \A s \in S : \A m \in DOMAIN s.from : s.from[m].arg \in {1, 2}

Concatenation(blocks, dim1, dim2, next) ==
    PlacedAll(1, blocks, dim1 + dim2, dim1, 0, next) \cup PlacedAll(2, blocks, dim1 + dim2, dim2, dim1, next)

LEMMA ConcatenatedCells ==
    ASSUME NEW blocks \in Lengths, NEW dim1 \in Lengths, NEW dim2 \in Lengths, NEW next \in Lengths, NEW t,
           t.concat_dim1 = dim1, t.concat_dim2 = dim2,
           Cells(SubSeq(t.dimensions, 1, t.dim_to_concat)) = blocks,
           Cells(SubSeq(t.dimensions, t.dim_to_concat + 2, Len(t.dimensions))) = next,
           NEW S, S = ConcatStores(t)
    PROVE  S = Concatenation(blocks, dim1, dim2, next) /\ FillsConcatenated(S, blocks, dim1, dim2, next)
<1> DEFINE both == dim1 + dim2
<1>1. S = PlacedAll(1, blocks, dim1 + dim2, dim1, 0, next)
             \cup PlacedAll(2, blocks, dim1 + dim2, dim2, dim1, next)
      BY ConcatStoresAre
<1>2. both = dim1 + dim2
      OBVIOUS
<1>3. S = PlacedAll(1, blocks, both, dim1, 0, next) \cup PlacedAll(2, blocks, both, dim2, dim1, next)
      BY <1>1
<1> HIDE DEF both
<1>4. /\ StoresEach(S, (blocks * both) * next)
      /\ LoadsFrom(S, 1, (blocks * dim1) * next)
      /\ LoadsFrom(S, 2, (blocks * dim2) * next)
      /\ \A s \in S : \A m \in DOMAIN s.from : s.from[m].arg \in {1, 2}
      BY <1>2, <1>3, PlacedCells
<1> QED BY <1>1, <1>4 DEF Concatenation, FillsConcatenated, both

LEMMA ConcatRight ==
    ASSUME Compiled, call.callee = "concat"
    PROVE  EveryCellStored /\ ElementsRight
<1> DEFINE dims == Dims(1)
           other == Dims(2)
           d == call.scalars[1]
           k == d + 1
<1>1. /\ call.types \in Seq(ArrayTypes) /\ Len(call.types) = 2
      /\ dims \in Seq(Lengths) /\ dims = call.types[1].dimensions
      /\ other \in Seq(Lengths) /\ other = call.types[2].dimensions
      /\ Len(other) = Len(dims) /\ d \in 0..(Len(dims) - 1)
      /\ \A m \in 1..Len(dims) : m = k \/ dims[m] = other[m]
  <2>1. /\ call.types \in Seq(ArrayTypes) /\ Len(call.types) = 2
        /\ dims = call.types[1].dimensions /\ other = call.types[2].dimensions
        /\ Len(dims) = Len(other) /\ d \in 0..(Len(dims) - 1)
        /\ \A m \in DOMAIN dims : m = k \/ dims[m] = other[m]
        BY CallTyped DEF Compiled, MadeFor, Dims
  <2>2. dims \in Seq(Lengths) /\ other \in Seq(Lengths)
    <3>1. 1 \in 1..Len(call.types) /\ 2 \in 1..Len(call.types)
          BY <2>1
    <3> QED BY <3>1, CallTyped DEF Compiled
  <2> QED BY <2>1, <2>2
<1>2. type = ConcatType(call.types[1], call.types[2], d) /\ stores = ConcatStores(type)
      BY TypeCases, StoreCases DEF Compiled
<1>3. Shape = [m \in DOMAIN dims |-> dims[m] + (IF m = k THEN other[m] ELSE 0)]
      BY ShapeCases
<1> HIDE DEF dims, other, d
<1>4. d \in Nat /\ k \in 1..Len(dims) /\ k \in Nat
      BY <1>1
<1> DEFINE a == dims[k]
           b == other[k]
           both == a + b
           shape == [dims EXCEPT ![k] = both]
           s == SubSeq(dims, 1, d)
           t == SubSeq(dims, d + 2, Len(dims))
<1>5. a \in Lengths /\ b \in Lengths /\ both \in Lengths
  <2>1. a \in Lengths /\ b \in Lengths
        BY <1>1, <1>4
  <2> HIDE DEF a, b
  <2> QED BY <2>1 DEF Lengths
<1>6. /\ type.dimensions = shape /\ type.concat_dim1 = a /\ type.concat_dim2 = b /\ type.dim_to_concat = d
      BY <1>1, <1>2 DEF ConcatType
<1> HIDE DEF both
<1>7. /\ shape \in Seq(Lengths) /\ Len(shape) = Len(dims) /\ shape[k] = both
      /\ \A m \in 1..Len(dims) : m # k => shape[m] = dims[m]
      BY <1>1, <1>4, <1>5
<1>8. Shape = shape
  <2>1. \A m \in 1..Len(dims) : Shape[m] = shape[m]
    <3> TAKE m \in 1..Len(dims)
    <3>1. CASE m = k
          BY <1>1, <1>3, <1>4, <3>1 DEF both
    <3>2. CASE m # k
      <4>1. dims[m] \in Int
            BY <1>1 DEF Lengths
      <4> QED BY <1>1, <1>3, <3>2, <4>1
    <3> QED BY <3>1, <3>2
  <2>2. DOMAIN Shape = 1..Len(dims) /\ DOMAIN shape = 1..Len(dims)
        BY <1>1, <1>3
  <2>3. Shape = [m \in 1..Len(dims) |-> Shape[m]]
        BY <1>1, <1>3
  <2>4. shape = [m \in 1..Len(dims) |-> shape[m]]
        BY <1>1
  <2> HIDE DEF shape
  <2> QED BY <2>1, <2>3, <2>4
<1> HIDE DEF shape
<1>9. IsAround(dims, s, a, t) /\ Len(s) = d
  <2>1. DifferAfter(d, dims, dims)
        BY <1>1 DEF DifferAfter
  <2>2. s = SubSeq(dims, 1, d) /\ t = SubSeq(dims, d + 2, Len(dims)) /\ a = dims[d + 1]
        BY DEF s, t
  <2> HIDE DEF s, t, a
  <2> QED BY <2>1, <2>2, AroundIs
<1>10. IsAround(other, s, b, t)
  <2>1. DifferAfter(d, dims, other)
        BY <1>1 DEF DifferAfter
  <2>2. s = SubSeq(dims, 1, d) /\ t = SubSeq(dims, d + 2, Len(dims)) /\ b = other[d + 1]
        BY DEF s, t
  <2> HIDE DEF s, t, b
  <2> QED BY <2>1, <2>2, AroundIs
<1>11. IsAround(shape, s, both, t)
  <2>1. DifferAfter(d, dims, shape)
        BY <1>1, <1>7 DEF DifferAfter
  <2>2. s = SubSeq(dims, 1, d) /\ t = SubSeq(dims, d + 2, Len(dims)) /\ both = shape[d + 1]
        BY <1>7 DEF s, t
  <2> HIDE DEF s, t
  <2> QED BY <2>1, <2>2, AroundIs
<1> HIDE DEF s, t, a, b
<1> DEFINE blocks == Cells(s)
           next == Cells(t)
<1>12. /\ Cells(dims) = (blocks * a) * next
       /\ Cells(other) = (blocks * b) * next
       /\ Cells(shape) = (blocks * both) * next
       BY <1>9, <1>10, <1>11, CellsAround
<1>13. s \in Seq(Lengths) /\ t \in Seq(Lengths)
       BY <1>9 DEF IsAround
<1>14. blocks \in Lengths /\ next \in Lengths
       BY <1>13, CellsPositive
<1>15. SubSeq(shape, 1, d) = s /\ SubSeq(shape, d + 2, Len(shape)) = t
  <2>1. d = Len(s)
        BY <1>9
  <2> QED BY <1>11, <2>1, AroundParts
<1>16. stores = Concatenation(blocks, a, b, next) /\ FillsConcatenated(stores, blocks, a, b, next)
  <2>1. /\ type.concat_dim1 = a /\ type.concat_dim2 = b
        /\ Cells(SubSeq(type.dimensions, 1, type.dim_to_concat)) = blocks
        /\ Cells(SubSeq(type.dimensions, type.dim_to_concat + 2, Len(type.dimensions))) = next
        BY <1>6, <1>15
  <2> HIDE DEF blocks, next
  <2> QED BY <1>2, <1>5, <1>14, <2>1, ConcatenatedCells
<1> HIDE DEF blocks, next
<1>17. EveryCellStored
  <2>1. /\ StoresEach(stores, (blocks * both) * next)
        /\ LoadsFrom(stores, 1, (blocks * a) * next)
        /\ LoadsFrom(stores, 2, (blocks * b) * next)
        /\ \A st \in stores : \A m \in DOMAIN st.from : st.from[m].arg \in {1, 2}
        BY <1>16 DEF FillsConcatenated, both
  <2>2. ASSUME NEW st \in stores, NEW m \in DOMAIN st.from
        PROVE  st.from[m].cell \in 0..(Cells(Dims(st.from[m].arg)) - 1)
    <3>1. CASE st.from[m].arg = 1
      <4>1. st.from[m].cell \in 0..((blocks * a) * next - 1)
            BY <2>1, <3>1 DEF LoadsFrom
      <4> QED BY <1>12, <3>1, <4>1 DEF dims
    <3>2. CASE st.from[m].arg = 2
      <4>1. st.from[m].cell \in 0..((blocks * b) * next - 1)
            BY <2>1, <3>2 DEF LoadsFrom
      <4> QED BY <1>12, <3>2, <4>1 DEF other
    <3> QED BY <2>1, <3>1, <3>2
  <2> DEFINE size == (blocks * both) * next
  <2>3. LoadedLengths(call.callee, type, Len(call.types)) =
           <<(size * a) \div both, (size * b) \div both>>
    <3>1. Cells(type.dimensions) = size /\ both = a + b
          BY <1>6, <1>12 DEF both
    <3> HIDE DEF size
    <3> QED BY <1>6, <3>1, LengthCases
  <2>4. ASSUME NEW n \in Lengths
        PROVE  (size * n) \div both = (blocks * n) * next
    <3> DEFINE p == (blocks * n) * next
    <3>1. blocks \in Nat /\ next \in Nat /\ both \in Nat \ {0} /\ n \in Nat
          BY <1>5, <1>14 DEF Lengths
    <3>2. p \in Nat /\ size * n = p * both + 0
          BY <3>1
    <3> HIDE DEF p, size
    <3>3. (size * n) \div both = p
          BY <3>1, <3>2, DivModUnique
    <3> QED BY <3>3 DEF p
  <2>5. /\ (size * a) \div both = Cells(Dims(1)) /\ (size * b) \div both = Cells(Dims(2))
    <3>1. (size * a) \div both = (blocks * a) * next /\ (size * b) \div both = (blocks * b) * next
          BY <1>5, <2>4
    <3> HIDE DEF size
    <3> QED BY <1>12, <3>1 DEF dims, other
  <2>6. LoadedLengths(call.callee, type, Len(call.types)) = [n \in DOMAIN call.types |-> Cells(Dims(n))]
    <3>1. LoadedLengths(call.callee, type, Len(call.types)) = <<Cells(Dims(1)), Cells(Dims(2))>>
          BY <2>3, <2>5
    <3>2. DOMAIN call.types = 1..2 /\ \A n \in 1..2 : n = 1 \/ n = 2
          BY <1>1
    <3>3. <<Cells(Dims(1)), Cells(Dims(2))>> = [n \in 1..2 |-> Cells(Dims(n))]
          BY <3>2
    <3> QED BY <3>1, <3>2, <3>3
  <2> QED BY <1>6, <1>12, <2>1, <2>2, <2>6, StoresRight
<1>18. ASSUME NEW c \in Coordinates(Shape)
       PROVE  Store(CellAt(Shape, c), Sources(c)) \in stores
  <2>1. IsIn(shape, c) /\ c \in Seq(Nat) /\ Len(c) = Len(shape)
        BY <1>7, <1>8, CoordinateIsIn
  <2>2. /\ Len(shape) = Len(dims) /\ Len(dims) = d + 1 + Len(t) /\ Len(t) \in Nat
        /\ \A m \in 1..d : shape[m] = s[m]
        /\ \A m \in 1..Len(t) : shape[d + 1 + m] = t[m]
        BY <1>7, <1>9, <1>11 DEF IsAround
  <2> DEFINE y == c[k]
             e == After(c, s, t)
             j == CellAt(s, c)
             n == CellAt(t, e)
  <2>3. IsIn(s, c) /\ y \in 0..(both - 1)
    <3>1. \A m \in 1..d : m \in 1..Len(shape)
          BY <1>4, <2>2
    <3>2. y \in 0..(shape[k] - 1)
          BY <1>4, <2>1, <2>2 DEF IsIn
    <3> QED BY <1>7, <1>9, <2>1, <2>2, <3>1, <3>2 DEF IsIn
  <2>4. IsIn(t, e)
    <3> SUFFICES ASSUME NEW m \in 1..Len(t)
                 PROVE  e[m] \in 0..(t[m] - 1)
        BY DEF IsIn
    <3>1. e[m] = c[d + 1 + m]
          BY <1>9 DEF After
    <3>2. d + 1 + m \in 1..Len(shape)
          BY <1>4, <2>2
    <3> QED BY <2>1, <2>2, <3>1, <3>2 DEF IsIn
  <2>5. j \in 0..(blocks - 1) /\ n \in 0..(next - 1)
        BY <1>13, <2>3, <2>4, CellAtBound DEF blocks, next
  <2>6. Coordinate(c, shape) /\ Coordinate(c, dims)
        BY <2>1, <2>2 DEF Coordinate
  <2>7. y = c[Len(s) + 1] /\ y \in Int
        BY <1>9, <2>3, <1>5 DEF Lengths
  <2>8. CellAt(shape, c) = InRow(InRow(j, both, y), next, n)
    <3> HIDE DEF y
    <3> QED BY <1>11, <2>6, <2>7, CellAtAround DEF next
  <2>9. CellAt(dims, c) = InRow(InRow(j, a, y), next, n)
    <3> HIDE DEF y
    <3> QED BY <1>9, <2>6, <2>7, CellAtAround DEF next
  <2>10. Sources(c) = IF y < a THEN <<At(1, c)>> ELSE <<At(2, [c EXCEPT ![k] = y - a])>>
         BY SourceCases DEF a, dims, d
  <2>11. CASE y < a
    <3>1. Sources(c) = <<Load(1, InRow(InRow(j, a, y), next, n))>>
          BY <2>9, <2>10, <2>11 DEF At, dims
    <3>2. Placed(1, j, y, n, both, a, 0, next) \in stores
      <4>1. y \in 0..(a - 1)
            BY <2>3, <2>11, <1>5 DEF Lengths
      <4> HIDE DEF y, j, n
      <4>2. Placed(1, j, y, n, both, a, 0, next) \in PlacedAll(1, blocks, both, a, 0, next)
            BY <2>5, <4>1 DEF PlacedAll
      <4> QED BY <1>16, <4>2 DEF Concatenation, both
    <3>3. 0 + y = y
          BY <2>7
    <3> HIDE DEF y, j, n
    <3> QED BY <1>8, <2>8, <3>1, <3>2, <3>3 DEF Placed, InRow
  <2>12. CASE ~(y < a)
    <3> DEFINE z == y - a
               f == [c EXCEPT ![k] = z]
    <3>1. z \in 0..(b - 1) /\ a + z = y /\ z \in Int
          BY <1>5, <2>3, <2>12 DEF Lengths, both
    <3>2. /\ f[k] = z /\ Len(f) = Len(c) /\ \A m \in 1..Len(dims) : m # k => f[m] = c[m]
          BY <1>4, <2>1, <2>2
    <3>3. Coordinate(f, other)
          BY <1>1, <2>6, <3>1, <3>2 DEF Coordinate
    <3>4. After(f, s, t) = e
      <4> HIDE DEF f
      <4>1. \A m \in 1..Len(t) : f[Len(s) + 1 + m] = c[Len(s) + 1 + m]
        <5> TAKE m \in 1..Len(t)
        <5>1. d + 1 + m \in 1..Len(dims) /\ d + 1 + m # k
              BY <1>4, <2>2
        <5> QED BY <1>9, <3>2, <5>1
      <4> QED BY <4>1 DEF After
    <3>5. CellAt(s, f) = j
      <4> HIDE DEF f
      <4>1. s \in Seq(Int)
            BY <1>13 DEF Lengths
      <4>2. \A m \in 1..Len(s) : c[m] \in Int /\ f[m] = c[m]
        <5> TAKE m \in 1..Len(s)
        <5>1. m \in 1..Len(dims) /\ m # k
              BY <1>4, <1>9, <2>2
        <5> QED BY <2>6, <3>2, <5>1 DEF Coordinate
      <4> QED BY <4>1, <4>2, CellAtSame
    <3>6. z = f[Len(s) + 1]
          BY <1>9, <3>2
    <3>7. CellAt(other, f) = InRow(InRow(j, b, z), next, n)
      <4>1. CellAt(other, f) = InRow(InRow(CellAt(s, f), b, z), Cells(t), CellAt(t, After(f, s, t)))
        <5> HIDE DEF f, z
        <5> QED BY <1>10, <3>3, <3>6, CellAtAround
      <4> QED BY <3>4, <3>5, <4>1 DEF next
    <3>8. Sources(c) = <<Load(2, InRow(InRow(j, b, z), next, n))>>
          BY <2>10, <2>12, <3>7 DEF At, other
    <3>9. Placed(2, j, z, n, both, b, a, next) \in stores
      <4> HIDE DEF z, j, n
      <4>2. Placed(2, j, z, n, both, b, a, next) \in PlacedAll(2, blocks, both, b, a, next)
            BY <2>5, <3>1 DEF PlacedAll
      <4> QED BY <1>16, <4>2 DEF Concatenation, both
    <3> HIDE DEF z, y, j, n
    <3> QED BY <1>8, <2>8, <3>1, <3>8, <3>9 DEF Placed, InRow
  <2> QED BY <2>11, <2>12
<1> QED BY <1>17, <1>18 DEF ElementsRight
(* The constants of mkArray after the number of dimensions and these. *)
LEMMA MkArrayRight ==
    ASSUME Compiled, call.callee = "mkArray"
    PROVE  EveryCellStored /\ ElementsRight
<1> DEFINE args == call.scalars
           r == args[1]
           cells == Cells(Shape)
           v == Len(args) - (1 + r)
           One(n) == Store(n, <<Load(Constants, 1 + r + n)>>)
<1>1. /\ args \in Seq(Int) /\ Len(args) > 0 /\ r \in 1..(Len(args) - 1) /\ call.types = << >>
      /\ \A d \in 1..r : args[d + 1] \in Lengths
      BY CallTyped DEF Compiled, MadeFor
<1>2. Shape = [d \in 1..r |-> args[d + 1]]
      BY ShapeCases
<1>3. r \in Nat /\ v \in Nat /\ Len(args) = v + 1 + r
      BY <1>1
<1>4. Shape \in Seq(Lengths) /\ Len(Shape) = r
  <2> HIDE DEF args, r
  <2>1. Shape \in [1..r -> Lengths]
        BY <1>1, <1>2
  <2> QED BY <1>3, <2>1
<1>5. cells \in Lengths
      BY <1>4, CellsPositive
<1>6. type.dimensions = Shape
  <2> DEFINE dims == SubSeq(args, 2, 1 + r)
  <2>1. dims \in Seq(Int) /\ Len(dims) = r /\ \A d \in 1..r : dims[d] = args[d + 1]
    <3> HIDE DEF args, r
    <3> QED BY <1>1, <1>3
  <2>2. type.dimensions = dims
        BY TypeCases DEF Compiled, MkArrayType, OfDimensions
  <2> HIDE DEF dims, args, r
  <2>3. dims = [d \in 1..r |-> args[d + 1]]
        BY <1>3, <2>1
  <2> QED BY <1>2, <2>2, <2>3
<1>7. stores = {One(n) : n \in 0..(v - 1)}
  <2>1. stores = MkArrayStores(type, args)
        BY StoreCases DEF Compiled
  <2>2. 1 + Len(type.dimensions) = 1 + r
        BY <1>4, <1>6
  <2> HIDE DEF args, r
  <2> QED BY <2>1, <2>2 DEF MkArrayStores
<1>8. \A n : One(n).dst = n /\ One(n).from = <<Load(Constants, 1 + r + n)>>
      BY DEF Store
<1>9. \A n : DOMAIN One(n).from = {1} /\ One(n).from[1].arg = Constants
      BY <1>8 DEF Load
<1> HIDE DEF One, args, r, cells, v
<1>10. {s.dst : s \in stores} = 0..(v - 1)
       BY <1>7, <1>8
<1>11. Matched <=> v = cells
  <2>1. Matched <=> Len(args) = 1 + r + cells
        BY <1>4 DEF Matched, args, cells
  <2> QED BY <1>3, <1>5, <2>1 DEF Lengths
<1>12. (v = cells) <=> 0..(v - 1) = 0..(cells - 1)
  <2>1. cells \in Nat \ {0}
        BY <1>5 DEF Lengths
  <2>2. v - 1 \in Int /\ cells - 1 \in Int /\ (v < cells => v \in 0..(cells - 1) /\ v \notin 0..(v - 1))
                /\ (cells < v => cells \in 0..(v - 1) /\ cells \notin 0..(cells - 1))
        BY <1>3, <2>1
  <2> QED BY <1>3, <2>1, <2>2
<1>13. EveryCellStored
  <2>1. Matched <=> {s.dst : s \in stores} = 0..(Cells(type.dimensions) - 1)
        BY <1>6, <1>10, <1>11, <1>12 DEF cells
  <2>2. \A s, t \in stores : s.dst = t.dst => s = t
        BY <1>7, <1>8
  <2>3. \A s \in stores : \A n \in DOMAIN s.from : s.from[n].arg = Constants
        BY <1>7, <1>9
  <2>4. LoadedLengths(call.callee, type, Len(call.types)) = [a \in DOMAIN call.types |-> Cells(Dims(a))]
    <3>1. LoadedLengths(call.callee, type, 0) = [a \in 1..0 |-> Cells(type.dimensions)]
          BY Zenon DEF LoadedLengths
    <3>2. Len(call.types) = 0 /\ DOMAIN call.types = 1..0 /\ 1..0 = {}
          BY <1>1
    <3> QED BY <3>1, <3>2
  <2> QED BY <2>1, <2>2, <2>3, <2>4 DEF EveryCellStored
<1>14. ASSUME v = cells, NEW c \in Coordinates(Shape)
       PROVE  Store(CellAt(Shape, c), Sources(c)) \in stores
  <2>1. IsIn(Shape, c)
        BY <1>4, CoordinateIsIn
  <2> DEFINE n == CellAt(Shape, c)
  <2>2. n \in 0..(v - 1)
        BY <1>4, <1>14, <2>1, CellAtBound DEF cells
  <2>3. Sources(c) = <<Load(Constants, Len(Shape) + 1 + n)>>
        BY SourceCases
  <2>4. Len(Shape) + 1 + n = 1 + r + n
        BY <1>3, <1>4, <2>2
  <2> HIDE DEF n
  <2>5. Store(n, Sources(c)) = One(n)
        BY <2>3, <2>4 DEF One
  <2> QED BY <1>7, <2>2, <2>5 DEF n
<1> QED BY <1>11, <1>13, <1>14 DEF ElementsRight

-----------------------------------------------------------------------------
(* All the functions, and the steps of the compilation. *)
LEMMA CompiledRight == Compiled => EveryCellStored /\ ElementsRight
<1> SUFFICES ASSUME Compiled
             PROVE  EveryCellStored /\ ElementsRight
    OBVIOUS
<1>1. \/ call.callee = "mkArray" \/ call.callee \in {"neg", "exp", "add", "sub"}
      \/ call.callee = "reduce" \/ call.callee = "expand" \/ call.callee = "concat"
      BY CallTyped DEF Compiled, Callees
<1> QED BY <1>1, MkArrayRight, ElementwiseRight, ReduceRight, ExpandRight, ConcatRight

(* Nothing changes the call, its type or the stores once they are made. *)
CallInv ==
    /\ call \in Calls
    /\ done \in {"parsed", "typed", "stored", "printed"}
    /\ done # "parsed" => type = CallType(call.callee, call.types, call.scalars)
    /\ done \in {"stored", "printed"} => stores = CallStores(call, type)

LEMMA CallInvInit == Init => CallInv
BY DEF Init, CallInv

LEMMA CallInvNext == CallInv /\ [Next]_vars => CallInv'
<1> SUFFICES ASSUME CallInv, [Next]_vars
             PROVE  CallInv'
    OBVIOUS
<1>1. CASE InferType
  <2>1. CallType(call.callee, call.types, call.scalars)' = CallType(call.callee, call.types, call.scalars)
        BY <1>1 DEF InferType
  <2> QED BY <1>1, <2>1 DEF InferType, CallInv
<1>2. CASE GenerateStores
  <2>1. call' = call /\ type' = type /\ stores' = CallStores(call, type) /\ done' = "stored" /\ done = "typed"
        BY <1>2 DEF GenerateStores
  <2>2. /\ CallType(call.callee, call.types, call.scalars)' = CallType(call.callee, call.types, call.scalars)
        /\ CallStores(call, type)' = CallStores(call, type)
        BY <2>1
  <2> QED BY <2>1, <2>2 DEF CallInv
<1>3. CASE GeneratePrint
  <2>1. call' = call /\ type' = type /\ stores' = stores /\ done' = "printed" /\ done = "stored"
        BY <1>3 DEF GeneratePrint
  <2> QED BY <2>1 DEF CallInv
<1>4. CASE UNCHANGED vars
      BY <1>4 DEF vars, CallInv
<1>5. CASE Finished
      BY <1>4, <1>5 DEF Finished
<1> QED BY <1>1, <1>2, <1>3, <1>4, <1>5 DEF Next

(* CallInv is invariant: what is stored is what CallStores makes of the    *)
(* call and of the type SetType gave it.                                    *)
THEOREM CallInvariance == Spec => []CallInv
BY CallInvInit, CallInvNext, PTL DEF Spec

(* Of every call, for arrays of any dimensions, whatever earlier calls have *)
(* left in the fields of their types: the generated code stores into every  *)
(* cell of the result, no two stores different things, and loads only cells *)
(* that the arguments have.                                                 *)
THEOREM AllCellsStored == Spec => []EveryCellStored
<1>1. CallInv => EveryCellStored
  <2>1. CASE done \in {"stored", "printed"}
        BY <2>1, CompiledRight DEF CallInv, Compiled
  <2> QED BY <2>1 DEF EveryCellStored
<1> QED BY <1>1, CallInvariance, PTL

(* The index arithmetic of the generated code computes what README.md says  *)
(* of each function: the element at every coordinate of the result is made  *)
(* from the cells of the arguments at the coordinates it is to come from.   *)
THEOREM AllElementsRight == Spec => []ElementsRight
<1>1. CallInv => ElementsRight
  <2>1. CASE done \in {"stored", "printed"}
        BY <2>1, CompiledRight DEF CallInv, Compiled
  <2> QED BY <2>1 DEF ElementsRight
<1> QED BY <1>1, CallInvariance, PTL

-----------------------------------------------------------------------------
(* codegen_print_array.  From dimension j on, and for the cells from p on,  *)
(* an element opens and closes the lists whose lengths divide its place.    *)
Symbols == {Open, Close} \cup {Cell(n) : n \in Nat}

CellsFrom(dims, d) == Cells(SubSeq(dims, d, Len(dims)))

Enclosing(dims, j, n) == {d \in (j + 1)..Len(dims) : n % CellsFrom(dims, d) = 0}
Depth(dims, j, n) == Cardinality(Enclosing(dims, j, n))

Enclosed(opened, n, closed) == Repeat(Open, opened) \o <<Open, Cell(n), Close>> \o Repeat(Close, closed)
Element(dims, j, p, n) == Enclosed(Depth(dims, j, n - 1), p + (n - 1), Depth(dims, j, n))

Elements(dims, j, p) == [n \in 1..CellsFrom(dims, j + 1) |-> Element(dims, j, p, n)]
Part(dims, j, p) == FlattenSeq(Elements(dims, j, p))

LEMMA CellsFromLengths ==
    ASSUME NEW dims \in Seq(Lengths), NEW d \in 1..(Len(dims) + 1)
    PROVE  CellsFrom(dims, d) \in Lengths
<1>1. SubSeq(dims, d, Len(dims)) \in Seq(Lengths)
      OBVIOUS
<1> QED BY <1>1, CellsPositive DEF CellsFrom

LEMMA CellsFromEnd ==
    ASSUME NEW dims \in Seq(Lengths)
    PROVE  CellsFrom(dims, Len(dims) + 1) = 1
<1>1. SubSeq(dims, Len(dims) + 1, Len(dims)) = << >>
      OBVIOUS
<1> QED BY <1>1, CellsNone DEF CellsFrom

(* The dimensions from d on, those up to e and those from e on. *)
LEMMA CellsFromJoined ==
    ASSUME NEW dims \in Seq(Lengths), NEW d \in 1..(Len(dims) + 1), NEW e \in d..(Len(dims) + 1)
    PROVE  CellsFrom(dims, d) = Cells(SubSeq(dims, d, e - 1)) * CellsFrom(dims, e)
<1> DEFINE s == SubSeq(dims, d, e - 1)
           t == SubSeq(dims, e, Len(dims))
<1>1. s \in Seq(Int) /\ t \in Seq(Int)
      BY DEF Lengths
<1>2. SubSeq(dims, d, Len(dims)) = s \o t
  <2>1. e - 1 \in (d - 1)..Len(dims) /\ Len(dims) \in (e - 1)..Len(dims) /\ (e - 1) + 1 = e
        OBVIOUS
  <2>2. SubSeq(dims, d, e - 1) \o SubSeq(dims, (e - 1) + 1, Len(dims)) = SubSeq(dims, d, Len(dims))
        BY <2>1, ConcatAdjacentSubSeq
  <2> QED BY <2>1, <2>2
<1> HIDE DEF s, t
<1>3. Cells(s \o t) = Cells(s) * Cells(t)
      BY <1>1, CellsJoined
<1> QED BY <1>2, <1>3 DEF CellsFrom, s, t

LEMMA CellsFromNext ==
    ASSUME NEW dims \in Seq(Lengths), NEW j \in 0..(Len(dims) - 1)
    PROVE  CellsFrom(dims, j + 1) = dims[j + 1] * CellsFrom(dims, j + 2)
<1> DEFINE d == j + 1
           x == dims[d]
<1>1. d \in 1..(Len(dims) + 1) /\ d + 1 \in d..(Len(dims) + 1) /\ (d + 1) - 1 = d /\ d + 1 = j + 2
      /\ d <= Len(dims)
      OBVIOUS
<1>2. SubSeq(dims, d, d) = <<x>> /\ x \in Lengths
      BY <1>1, OneElement
<1>3. Cells(<<x>>) = x
  <2>1. << >> \in Seq(Int) /\ x \in Int /\ <<x>> = Append(<< >>, x)
        BY <1>2 DEF Lengths
  <2> DEFINE more == <<x>>
             none == << >>
  <2>2. more = Append(none, x) /\ none \in Seq(Int) /\ Cells(none) = 1
        BY <2>1, CellsNone
  <2> HIDE DEF more, none, x
  <2>3. Cells(more) = Cells(none) * x
        BY <2>1, <2>2, CellsAppend
  <2>4. Cells(more) = x
        BY <2>1, <2>2, <2>3
  <2> QED BY <2>4 DEF more
<1> HIDE DEF d, x
<1>4. CellsFrom(dims, d) = Cells(SubSeq(dims, d, (d + 1) - 1)) * CellsFrom(dims, d + 1)
      BY <1>1, CellsFromJoined
<1>5. CellsFrom(dims, d) = x * CellsFrom(dims, j + 2)
      BY <1>1, <1>2, <1>3, <1>4
<1> QED BY <1>5 DEF d, x

IsMore(y, k, m, x) == m \in Nat \ {0} /\ k \in Nat /\ x \in Nat /\ y = k * m + x

LEMMA RestOfMore ==
    ASSUME NEW y, NEW k, NEW m, NEW x, IsMore(y, k, m, x)
    PROVE  y % m = x % m
<1> DEFINE q == x \div m
           r == x % m
           kq == k + q
<1>0. m \in Nat \ {0} /\ k \in Nat /\ x \in Nat /\ y = k * m + x
      BY DEF IsMore
<1>1. q \in Nat /\ r \in 0..(m - 1) /\ x = q * m + r
      BY <1>0, DivMod
<1> HIDE DEF q, r
<1>2. y = kq * m + r /\ kq \in Nat
      BY <1>0, <1>1
<1> HIDE DEF kq
<1>3. y % m = r
  <2>1. m \in Nat \ {0} /\ r \in 0..(m - 1)
        BY <1>0, <1>1
  <2> QED BY ONLY <1>2, <2>1, DivModUnique
<1> QED BY <1>3 DEF r

LEMMA NoRest ==
    ASSUME NEW m \in Nat \ {0}, NEW n \in 0..m
    PROVE  n % m = 0 <=> n \in {0, m}
<1>1. CASE n < m
  <2> DEFINE p == 0
  <2>1. n = p * m + n /\ n \in 0..(m - 1) /\ p \in Nat
        BY <1>1
  <2> HIDE DEF p
  <2>2. n % m = n
        BY <2>1, DivModUnique
  <2> QED BY <1>1, <2>2
<1>2. CASE n = m
  <2> DEFINE p == 1
             q == 0
  <2>1. n = p * m + q /\ q \in 0..(m - 1) /\ p \in Nat
        BY <1>2
  <2> HIDE DEF p, q
  <2>2. n % m = q
        BY <2>1, DivModUnique
  <2> QED BY <1>2, <2>2 DEF q
<1> QED BY <1>1, <1>2

LEMMA EnclosingRepeat ==
    ASSUME NEW dims \in Seq(Lengths), NEW j \in 0..Len(dims), NEW r \in Nat, NEW x \in Nat,
           NEW y, y = r * CellsFrom(dims, j + 1) + x
    PROVE  Enclosing(dims, j, y) = Enclosing(dims, j, x)
<1>1. ASSUME NEW d \in (j + 1)..Len(dims)
      PROVE  y % CellsFrom(dims, d) = x % CellsFrom(dims, d)
  <2> DEFINE c == CellsFrom(dims, j + 1)
             m == CellsFrom(dims, d)
             k == Cells(SubSeq(dims, j + 1, d - 1))
             rk == r * k
  <2>1. j + 1 \in 1..(Len(dims) + 1) /\ d \in (j + 1)..(Len(dims) + 1) /\ d \in 1..(Len(dims) + 1)
        OBVIOUS
  <2>2. c = k * m
        BY <2>1, CellsFromJoined
  <2>3. m \in Nat \ {0}
        BY <2>1, CellsFromLengths DEF Lengths
  <2>4. k \in Nat
    <3>1. SubSeq(dims, j + 1, d - 1) \in Seq(Lengths)
          OBVIOUS
    <3> QED BY <3>1, CellsPositive DEF Lengths
  <2>5. y = r * c + x
        OBVIOUS
  <2> HIDE DEF c, m, k
  <2>6. y = rk * m + x /\ rk \in Nat
        BY <2>2, <2>3, <2>4, <2>5
  <2> HIDE DEF rk
  <2>7. y % m = x % m
    <3>1. IsMore(y, rk, m, x)
          BY <2>3, <2>6 DEF IsMore
    <3> QED BY <3>1, RestOfMore
  <2> QED BY <2>7 DEF m
<1> QED BY <1>1 DEF Enclosing

(* At its first element and behind its last one a list opens and closes. *)
LEMMA EnclosingNext ==
    ASSUME NEW dims \in Seq(Lengths), NEW j \in 0..(Len(dims) - 1), NEW n \in 0..CellsFrom(dims, j + 1)
    PROVE  Enclosing(dims, j, n) =
              Enclosing(dims, j + 1, n) \cup (IF n \in {0, CellsFrom(dims, j + 1)} THEN {j + 1} ELSE {})
<1> DEFINE c == CellsFrom(dims, j + 1)
<1>1. c \in Nat \ {0}
  <2>1. j + 1 \in 1..(Len(dims) + 1)
        OBVIOUS
  <2> QED BY <2>1, CellsFromLengths DEF Lengths
<1>2. n % c = 0 <=> n \in {0, c}
  <2> HIDE DEF c
  <2>1. n \in 0..c
        BY DEF c
  <2> QED BY <1>1, <2>1, NoRest
<1>3. (j + 1)..Len(dims) = ((j + 1) + 1)..Len(dims) \cup {j + 1}
      OBVIOUS
<1> QED BY <1>2, <1>3 DEF Enclosing

LEMMA DepthNext ==
    ASSUME NEW dims \in Seq(Lengths), NEW j \in 0..(Len(dims) - 1), NEW n \in 0..CellsFrom(dims, j + 1)
    PROVE  /\ Depth(dims, j + 1, n) \in Nat
           /\ n \in {0, CellsFrom(dims, j + 1)} => Depth(dims, j, n) = Depth(dims, j + 1, n) + 1
           /\ n \notin {0, CellsFrom(dims, j + 1)} => Depth(dims, j, n) = Depth(dims, j + 1, n)
<1> DEFINE S == Enclosing(dims, j + 1, n)
<1>1. IsFiniteSet(S) /\ j + 1 \notin S
  <2>1. IsFiniteSet(((j + 1) + 1)..Len(dims))
        BY FS_Interval
  <2>2. S \subseteq ((j + 1) + 1)..Len(dims)
        BY DEF Enclosing
  <2> QED BY <2>1, <2>2, FS_Subset
<1>2. Cardinality(S) \in Nat
      BY <1>1, FS_CardinalityType
<1>3. Enclosing(dims, j, n) = S \cup (IF n \in {0, CellsFrom(dims, j + 1)} THEN {j + 1} ELSE {})
      BY EnclosingNext
<1> HIDE DEF S
<1>4. /\ n \in {0, CellsFrom(dims, j + 1)} => Enclosing(dims, j, n) = S \cup {j + 1}
      /\ n \notin {0, CellsFrom(dims, j + 1)} => Enclosing(dims, j, n) = S
      BY <1>3
<1>5. Cardinality(S \cup {j + 1}) = Cardinality(S) + 1
      BY <1>1, FS_AddElement
<1> QED BY <1>2, <1>4, <1>5 DEF Depth, S

LEMMA RepeatTyped ==
    ASSUME NEW t \in Symbols, NEW k \in Nat
    PROVE  Repeat(t, k) \in Seq(Symbols) /\ Len(Repeat(t, k)) = k
BY DEF Repeat

LEMMA RepeatNext ==
    ASSUME NEW t \in Symbols, NEW k \in Nat, NEW l, l = k + 1
    PROVE  Repeat(t, l) = <<t>> \o Repeat(t, k) /\ Repeat(t, l) = Repeat(t, k) \o <<t>>
<1> DEFINE r == Repeat(t, k)
           more == Repeat(t, l)
           one == <<t>>
           a == one \o r
           b == r \o one
<1>1. r \in Seq(Symbols) /\ Len(r) = k /\ \A m \in 1..k : r[m] = t
      BY RepeatTyped DEF Repeat
<1>2. more \in Seq(Symbols) /\ Len(more) = l /\ \A m \in 1..l : more[m] = t
      BY RepeatTyped DEF Repeat
<1>3. one \in Seq(Symbols) /\ Len(one) = 1 /\ one[1] = t
      OBVIOUS
<1> HIDE DEF r, more, one
<1>4. a \in Seq(Symbols) /\ Len(a) = l /\ b \in Seq(Symbols) /\ Len(b) = l
      BY <1>1, <1>3, ConcatProperties
<1>5. ASSUME NEW m \in 1..l
      PROVE  a[m] = t /\ b[m] = t
  <2>0. m \in 1..(Len(one) + Len(r)) /\ m \in 1..(Len(r) + Len(one))
        BY <1>1, <1>3
  <2>1. a[m] = (IF m <= Len(one) THEN one[m] ELSE r[m - Len(one)])
    <3>1. \A i \in 1..(Len(one) + Len(r)) : (one \o r)[i] = IF i <= Len(one) THEN one[i] ELSE r[i - Len(one)]
          BY <1>1, <1>3, ConcatProperties
    <3> HIDE DEF a, b
    <3>2. a = one \o r
          BY DEF a
    <3> QED BY <2>0, <3>1, <3>2, Zenon
  <2>2. b[m] = (IF m <= Len(r) THEN r[m] ELSE one[m - Len(r)])
    <3>1. \A i \in 1..(Len(r) + Len(one)) : (r \o one)[i] = IF i <= Len(r) THEN r[i] ELSE one[i - Len(r)]
          BY <1>1, <1>3, ConcatProperties
    <3> HIDE DEF a, b
    <3>2. b = r \o one
          BY DEF b
    <3> QED BY <2>0, <3>1, <3>2, Zenon
  <2>3. (m <= 1 => m = 1) /\ (~(m <= 1) => m - 1 \in 1..k) /\ (m <= k => m \in 1..k) /\ (~(m <= k) => m - k = 1)
        OBVIOUS
  <2> QED BY <1>1, <1>3, <2>1, <2>2, <2>3
<1> HIDE DEF a, b
<1>6. a = more /\ b = more
      BY <1>2, <1>4, <1>5, SeqEqual
<1> QED BY <1>6 DEF a, b, r, more, one

LEMMA EnclosedTyped ==
    ASSUME NEW opened \in Nat, NEW n \in Nat, NEW closed \in Nat
    PROVE  /\ Enclosed(opened, n, closed) \in Seq(Symbols)
           /\ <<Open, Cell(n), Close>> \in Seq(Symbols)
           /\ Repeat(Open, opened) \o <<Open, Cell(n), Close>> \in Seq(Symbols)
           /\ Repeat(Open, opened) \in Seq(Symbols) /\ Repeat(Close, closed) \in Seq(Symbols)
<1> DEFINE o == Repeat(Open, opened)
           e == <<Open, Cell(n), Close>>
           c == Repeat(Close, closed)
<1>1. Open \in Symbols /\ Close \in Symbols /\ Cell(n) \in Symbols
      BY DEF Symbols
<1>2. o \in Seq(Symbols) /\ c \in Seq(Symbols)
      BY <1>1, RepeatTyped
<1>3. e \in Seq(Symbols)
  <2> HIDE DEF o, c
  <2> DEFINE x == Open
             y == Cell(n)
             z == Close
  <2>1. x \in Symbols /\ y \in Symbols /\ z \in Symbols
        BY <1>1
  <2> HIDE DEF x, y, z
  <2>2. <<x, y, z>> \in Seq(Symbols)
        BY <2>1
  <2> QED BY <2>2 DEF x, y, z
<1> HIDE DEF o, e, c
<1>4. o \o e \in Seq(Symbols)
      BY <1>2, <1>3, ConcatProperties
<1>5. (o \o e) \o c \in Seq(Symbols)
      BY <1>2, <1>4, ConcatProperties
<1> QED BY <1>2, <1>3, <1>4, <1>5 DEF Enclosed, o, e, c

IsEnclosed(opened, n, closed) == opened \in Nat /\ n \in Nat /\ closed \in Nat

IsNext(more, k) == more = k + 1

LEMMA EnclosedNext ==
    ASSUME NEW opened, NEW n, NEW closed, IsEnclosed(opened, n, closed)
    PROVE  /\ \A more : IsNext(more, opened) =>
                 Enclosed(more, n, closed) = <<Open>> \o Enclosed(opened, n, closed)
           /\ \A more : IsNext(more, closed) =>
                 Enclosed(opened, n, more) = Enclosed(opened, n, closed) \o <<Close>>
<1> DEFINE more == opened + 1
           further == closed + 1
           o == Repeat(Open, opened)
           e == <<Open, Cell(n), Close>>
           c == Repeat(Close, closed)
           open == <<Open>>
           close == <<Close>>
           oe == o \o e
<1>1. Open \in Symbols /\ Close \in Symbols
      BY DEF Symbols
<1>0. opened \in Nat /\ n \in Nat /\ closed \in Nat
      BY DEF IsEnclosed
<1>2. Repeat(Open, more) = open \o o /\ Repeat(Close, further) = c \o close
      BY <1>0, <1>1, RepeatNext
<1>3. e \in Seq(Symbols) /\ o \in Seq(Symbols) /\ c \in Seq(Symbols) /\ oe \in Seq(Symbols)
      BY <1>0, EnclosedTyped
<1>4. open \in Seq(Symbols) /\ close \in Seq(Symbols)
  <2> DEFINE x == Open
             z == Close
  <2>1. x \in Symbols /\ z \in Symbols
        BY <1>1
  <2> HIDE DEF x, z
  <2>2. <<x>> \in Seq(Symbols) /\ <<z>> \in Seq(Symbols)
        BY <2>1
  <2> QED BY <2>2 DEF x, z
<1>5. /\ Enclosed(opened, n, closed) = oe \o c
      /\ Enclosed(more, n, closed) = ((open \o o) \o e) \o c
      /\ Enclosed(opened, n, further) = oe \o (c \o close)
      BY <1>2 DEF Enclosed
<1> HIDE DEF oe
<1>6. Associates(oe, c, close) /\ Associates(open, oe, c)
      BY <1>3, <1>4, ThreeJoined
<1> HIDE DEF o, e, c, open, close
<1>7. Associates(open, o, e)
      BY <1>3, <1>4, ThreeJoined
<1>8. (open \o o) \o e = open \o oe
      BY <1>7 DEF Associates, oe
<1>9. /\ Enclosed(more, n, closed) = open \o Enclosed(opened, n, closed)
      /\ Enclosed(opened, n, further) = Enclosed(opened, n, closed) \o close
      BY <1>5, <1>6, <1>8 DEF Associates
<1> QED BY <1>9 DEF IsNext, open, close

LEMMA DepthTyped ==
    ASSUME NEW dims \in Seq(Lengths), NEW j \in 0..Len(dims), NEW n \in Nat
    PROVE  Depth(dims, j, n) \in Nat
<1>1. IsFiniteSet((j + 1)..Len(dims))
      BY FS_Interval
<1>2. Enclosing(dims, j, n) \subseteq (j + 1)..Len(dims)
      BY DEF Enclosing
<1>3. IsFiniteSet(Enclosing(dims, j, n))
      BY <1>1, <1>2, FS_Subset
<1> QED BY <1>3, FS_CardinalityType DEF Depth

LEMMA ElementTyped ==
    ASSUME NEW dims \in Seq(Lengths), NEW j \in 0..Len(dims), NEW p \in Nat, NEW n \in Nat \ {0}
    PROVE  Element(dims, j, p, n) \in Seq(Symbols)
<1>1. n - 1 \in Nat /\ p + (n - 1) \in Nat /\ n \in Nat
      OBVIOUS
<1>2. Depth(dims, j, n - 1) \in Nat /\ Depth(dims, j, n) \in Nat
      BY <1>1, DepthTyped
<1> QED BY <1>1, <1>2, EnclosedTyped DEF Element

(* The elements of a row, counted from its start or from that of the list. *)
IsInRow(dims, j, p, r, x, b, n, q) ==
    /\ dims \in Seq(Lengths) /\ j \in 0..Len(dims) /\ p \in Nat
    /\ r \in Nat /\ x \in Nat \ {0} /\ b = CellsFrom(dims, j + 1)
    /\ n = r * b + x /\ q = p + r * b

LEMMA ElementInRow ==
    ASSUME NEW dims, NEW j, NEW p, NEW r, NEW x, NEW b, NEW n, NEW q,
           IsInRow(dims, j, p, r, x, b, n, q)
    PROVE  Element(dims, j, q, x) = Element(dims, j, p, n)
<1> DEFINE rb == r * b
           x1 == x - 1
           n1 == n - 1
<1>0. /\ dims \in Seq(Lengths) /\ j \in 0..Len(dims) /\ p \in Nat
      /\ r \in Nat /\ x \in Nat \ {0} /\ b = CellsFrom(dims, j + 1)
      BY DEF IsInRow
<1>1. b \in Nat
  <2>1. j + 1 \in 1..(Len(dims) + 1)
        BY <1>0
  <2> QED BY <1>0, <2>1, CellsFromLengths DEF Lengths
<1>2. rb \in Nat
      BY <1>0, <1>1
<1>3. n = r * CellsFrom(dims, j + 1) + x /\ x \in Nat
      BY DEF IsInRow
<1>4. n = rb + x /\ q = p + rb
      BY DEF IsInRow
<1> HIDE DEF rb
<1>5. n1 = rb + x1 /\ x1 \in Nat
      BY <1>0, <1>2, <1>4
<1>6. q + x1 = p + n1
      BY <1>0, <1>2, <1>4, <1>5
<1>7. Enclosing(dims, j, n) = Enclosing(dims, j, x)
      BY <1>0, <1>3, EnclosingRepeat
<1>8. n1 = r * CellsFrom(dims, j + 1) + x1
      BY <1>0, <1>5 DEF rb
<1> HIDE DEF n1, x1
<1>9. Enclosing(dims, j, n1) = Enclosing(dims, j, x1)
      BY <1>0, <1>5, <1>8, EnclosingRepeat
<1> QED BY <1>6, <1>7, <1>9 DEF Element, Depth, n1, x1

(* The elements without what opens the list in dimension j + 1. *)
Unopened(dims, j, p, n) == Enclosed(Depth(dims, j + 1, n - 1), p + (n - 1), Depth(dims, j, n))

LEMMA ElementNext ==
    ASSUME NEW dims \in Seq(Lengths), NEW j \in 0..(Len(dims) - 1), NEW p \in Nat,
           NEW n \in 1..CellsFrom(dims, j + 1)
    PROVE  /\ Element(dims, j, p, n) \in Seq(Symbols)
           /\ Unopened(dims, j, p, n) \in Seq(Symbols)
           /\ Element(dims, j + 1, p, n) \in Seq(Symbols)
           /\ n = 1 => Element(dims, j, p, n) = <<Open>> \o Unopened(dims, j, p, n)
           /\ n # 1 => Element(dims, j, p, n) = Unopened(dims, j, p, n)
           /\ n = CellsFrom(dims, j + 1) => Unopened(dims, j, p, n) = Element(dims, j + 1, p, n) \o <<Close>>
           /\ n # CellsFrom(dims, j + 1) => Unopened(dims, j, p, n) = Element(dims, j + 1, p, n)
<1> DEFINE c == CellsFrom(dims, j + 1)
           n1 == n - 1
           x == p + n1
           o == Depth(dims, j + 1, n1)
           e == Depth(dims, j + 1, n)
           oj == Depth(dims, j, n1)
           ej == Depth(dims, j, n)
<1>1. c \in Nat \ {0}
  <2>1. j + 1 \in 1..(Len(dims) + 1)
        OBVIOUS
  <2> QED BY <2>1, CellsFromLengths DEF Lengths
<1>2. /\ n \in 1..c /\ n \in 0..c /\ n1 \in 0..c /\ x \in Nat
      /\ (n1 \in {0, c} <=> n = 1) /\ (n \in {0, c} <=> n = c)
      BY <1>1
<1> HIDE DEF n1, x
<1>3. /\ o \in Nat /\ (n = 1 => oj = o + 1) /\ (n # 1 => oj = o)
      /\ e \in Nat /\ (n = c => ej = e + 1) /\ (n # c => ej = e)
      BY <1>2, DepthNext
<1>4. oj \in Nat /\ ej \in Nat
      BY <1>3
<1>5. /\ Element(dims, j, p, n) = Enclosed(oj, x, ej)
      /\ Element(dims, j + 1, p, n) = Enclosed(o, x, e)
      /\ Unopened(dims, j, p, n) = Enclosed(o, x, ej)
      BY DEF Element, Unopened, n1, x
<1> HIDE DEF o, e, oj, ej, c
<1>6. /\ Enclosed(oj, x, ej) \in Seq(Symbols)
      /\ Enclosed(o, x, e) \in Seq(Symbols)
      /\ Enclosed(o, x, ej) \in Seq(Symbols)
      BY <1>2, <1>3, <1>4, EnclosedTyped
<1>7. ASSUME n = 1
      PROVE  Enclosed(oj, x, ej) = <<Open>> \o Enclosed(o, x, ej)
  <2>1. IsEnclosed(o, x, ej) /\ IsNext(oj, o)
        BY <1>2, <1>3, <1>4, <1>7 DEF IsEnclosed, IsNext
  <2>2. Enclosed(oj, x, ej) = <<Open>> \o Enclosed(o, x, ej)
        BY ONLY <2>1, EnclosedNext
  <2> QED BY <2>2
<1>8. ASSUME n = c
      PROVE  Enclosed(o, x, ej) = Enclosed(o, x, e) \o <<Close>>
  <2>1. IsEnclosed(o, x, e) /\ IsNext(ej, e)
        BY <1>2, <1>3, <1>4, <1>8 DEF IsEnclosed, IsNext
  <2>2. Enclosed(o, x, ej) = Enclosed(o, x, e) \o <<Close>>
        BY ONLY <2>1, EnclosedNext
  <2> QED BY <2>2
<1> QED BY <1>3, <1>5, <1>6, <1>7, <1>8 DEF c

(* The elements of the lists in dimension j + 1. *)
Inner(dims, j, p) == [n \in 1..CellsFrom(dims, j + 1) |-> Element(dims, j + 1, p, n)]

LEMMA PartBracketed ==
    ASSUME NEW dims \in Seq(Lengths), NEW j \in 0..(Len(dims) - 1), NEW p \in Nat
    PROVE  IsBracketed(Symbols, Elements(dims, j, p), Inner(dims, j, p), <<Open>>, <<Close>>)
<1> DEFINE c == CellsFrom(dims, j + 1)
           gs == Elements(dims, j, p)
           ms == [n \in 1..c |-> Unopened(dims, j, p, n)]
           hs == Inner(dims, j, p)
           open == <<Open>>
           close == <<Close>>
<1>1. c \in Nat \ {0}
  <2>1. j + 1 \in 1..(Len(dims) + 1)
        OBVIOUS
  <2> QED BY <2>1, CellsFromLengths DEF Lengths
<1>2. /\ gs = [n \in 1..c |-> gs[n]] /\ \A n \in 1..c : gs[n] = Element(dims, j, p, n)
      /\ ms = [n \in 1..c |-> ms[n]] /\ \A n \in 1..c : ms[n] = Unopened(dims, j, p, n)
      /\ hs = [n \in 1..c |-> hs[n]] /\ \A n \in 1..c : hs[n] = Element(dims, j + 1, p, n)
      BY DEF Elements, Inner
<1>3. open \in Seq(Symbols) /\ close \in Seq(Symbols)
  <2>1. Open \in Symbols /\ Close \in Symbols
        BY DEF Symbols
  <2> DEFINE x == Open
             z == Close
  <2>2. x \in Symbols /\ z \in Symbols
        BY <2>1
  <2> HIDE DEF x, z
  <2>3. <<x>> \in Seq(Symbols) /\ <<z>> \in Seq(Symbols)
        BY <2>2
  <2> QED BY <2>3 DEF x, z
<1>4. open = <<Open>> /\ close = <<Close>>
      OBVIOUS
<1> HIDE DEF gs, ms, hs, open, close
<1>5. ASSUME NEW n \in 1..c
      PROVE  /\ gs[n] \in Seq(Symbols) /\ ms[n] \in Seq(Symbols) /\ hs[n] \in Seq(Symbols)
             /\ n = 1 => gs[n] = open \o ms[n]
             /\ n # 1 => gs[n] = ms[n]
             /\ n = c => ms[n] = hs[n] \o close
             /\ n # c => ms[n] = hs[n]
  <2>1. /\ Element(dims, j, p, n) \in Seq(Symbols)
        /\ Unopened(dims, j, p, n) \in Seq(Symbols)
        /\ Element(dims, j + 1, p, n) \in Seq(Symbols)
        /\ n = 1 => Element(dims, j, p, n) = <<Open>> \o Unopened(dims, j, p, n)
        /\ n # 1 => Element(dims, j, p, n) = Unopened(dims, j, p, n)
        /\ n = c => Unopened(dims, j, p, n) = Element(dims, j + 1, p, n) \o <<Close>>
        /\ n # c => Unopened(dims, j, p, n) = Element(dims, j + 1, p, n)
        BY ElementNext
  <2> HIDE DEF c
  <2> QED BY <1>2, <1>4, <2>1
<1> HIDE DEF c
<1>6. gs \in Seq(Seq(Symbols)) /\ Len(gs) = c
      BY <1>1, <1>2, <1>5, VectorTyped
<1>7. ms \in Seq(Seq(Symbols)) /\ Len(ms) = c
      BY <1>1, <1>2, <1>5, VectorTyped
<1>8. hs \in Seq(Seq(Symbols)) /\ Len(hs) = c
      BY <1>1, <1>2, <1>5, VectorTyped
<1>9. /\ gs[1] = open \o ms[1] /\ \A n \in 2..c : gs[n] = ms[n]
      /\ ms[c] = hs[c] \o close /\ \A n \in 1..(c - 1) : ms[n] = hs[n]
  <2>1. 1 \in 1..c /\ c \in 1..c /\ (\A n \in 2..c : n \in 1..c /\ n # 1) /\ (\A n \in 1..(c - 1) : n \in 1..c /\ n # c)
        BY <1>1
  <2> QED BY ONLY <1>5, <2>1
<1>10. IsBracketed(Symbols, gs, hs, open, close)
       BY <1>1, <1>3, <1>6, <1>7, <1>8, <1>9 DEF IsBracketed, IsOpened, IsClosed
<1> QED BY <1>10 DEF gs, hs, open, close

(* The lists in dimension j + 1 that a list in dimension j has. *)
Rows(dims, j, p) == [i \in 1..dims[j + 1] |-> Part(dims, j + 1, p + (i - 1) * CellsFrom(dims, j + 2))]

(* Row r of the elements hs of the lists in dimension k, that begins at s.  *)
IsRow(dims, k, p, c, hs, b, r, s, q) ==
    /\ dims \in Seq(Lengths) /\ k \in 0..Len(dims) /\ p \in Nat /\ c \in Nat
    /\ hs = [n \in 1..c |-> Element(dims, k, p, n)]
    /\ b = CellsFrom(dims, k + 1) /\ r \in Nat /\ s \in Nat /\ s = r * b /\ s + b <= c
    /\ q = p + s

LEMMA RowIs ==
    ASSUME NEW dims, NEW k, NEW p, NEW c, NEW hs, NEW b, NEW r, NEW s, NEW q,
           IsRow(dims, k, p, c, hs, b, r, s, q)
    PROVE  Elements(dims, k, q) = SubSeq(hs, s + 1, s + b) /\ SubSeq(hs, s + 1, s + b) \in Seq(Seq(Symbols))
<1> DEFINE v == SubSeq(hs, s + 1, s + b)
           t == Elements(dims, k, q)
<1>0. /\ dims \in Seq(Lengths) /\ k \in 0..Len(dims) /\ p \in Nat /\ c \in Nat
      /\ hs = [n \in 1..c |-> Element(dims, k, p, n)]
      /\ b = CellsFrom(dims, k + 1) /\ r \in Nat /\ s \in Nat /\ s + b <= c
      /\ q = p + s
      BY DEF IsRow
<1>s. s = r * b
      BY DEF IsRow
<1>1. b \in Nat \ {0}
  <2>1. k + 1 \in 1..(Len(dims) + 1)
        BY <1>0
  <2> QED BY <1>0, <2>1, CellsFromLengths DEF Lengths
<1>2. ASSUME NEW m \in 1..b
      PROVE  /\ s + m \in 1..c /\ hs[s + m] = Element(dims, k, q, m)
             /\ Element(dims, k, q, m) \in Seq(Symbols)
  <2> DEFINE n == s + m
  <2>1. n \in 1..c /\ m \in Nat \ {0} /\ q \in Nat
        BY ONLY <1>0, <1>1, m \in 1..b
  <2>2. n = r * b + m /\ q = p + r * b
        BY <1>0, <1>s
  <2>3. hs[n] = Element(dims, k, p, n)
        BY <1>0, <2>1
  <2> HIDE DEF n
  <2>4. Element(dims, k, q, m) = Element(dims, k, p, n)
    <3>1. IsInRow(dims, k, p, r, m, b, n, q)
          BY <1>0, <2>1, <2>2 DEF IsInRow
    <3> QED BY <3>1, ElementInRow
  <2>5. Element(dims, k, q, m) \in Seq(Symbols)
        BY <1>0, <2>1, ElementTyped
  <2> QED BY <2>1, <2>3, <2>4, <2>5 DEF n
<1>3. v \in Seq(Seq(Symbols)) /\ Len(v) = b /\ \A m \in 1..b : v[m] = hs[s + m]
  <2>1. ASSUME NEW i \in (s + 1)..(s + b)
        PROVE  hs[i] \in Seq(Symbols)
    <3>1. i - s \in 1..b /\ s + (i - s) = i
          BY ONLY <1>0, <1>1, i \in (s + 1)..(s + b)
    <3> QED BY ONLY <1>2, <3>1
  <2>2. s + 1 \in Int /\ s + b \in Int /\ (s + b) - (s + 1) + 1 = b /\ s + 1 <= s + b
        BY ONLY <1>0, <1>1
  <2>3. v \in Seq(Seq(Symbols)) /\ Len(v) = b
        BY ONLY <2>1, <2>2, SubSeqProperties
  <2>4. \A m \in 1..((s + b) - (s + 1) + 1) : v[m] = hs[(s + 1) + m - 1]
        BY ONLY <2>1, <2>2, SubSeqProperties
  <2>5. \A m \in 1..b : (s + 1) + m - 1 = s + m
        BY ONLY <1>0, <1>1
  <2> HIDE DEF v
  <2> QED BY ONLY <2>2, <2>3, <2>4, <2>5
<1>4. t = [m \in 1..b |-> t[m]] /\ \A m \in 1..b : t[m] = Element(dims, k, q, m)
      BY <1>0 DEF Elements
<1> HIDE DEF v, t
<1>5. t \in Seq(Seq(Symbols)) /\ Len(t) = b
      BY ONLY <1>1, <1>2, <1>4, VectorTyped
<1>6. \A m \in 1..Len(v) : v[m] = t[m]
      BY <1>2, <1>3, <1>4
<1>7. v = t
      BY <1>3, <1>5, <1>6, SeqEqual
<1> QED BY <1>3, <1>7 DEF v, t

LEMMA PartNext ==
    ASSUME NEW dims \in Seq(Lengths), NEW j \in 0..(Len(dims) - 1), NEW p \in Nat
    PROVE  Part(dims, j, p) = <<Open>> \o FlattenSeq(Rows(dims, j, p)) \o <<Close>>
<1> DEFINE k == j + 1
           a == dims[j + 1]
           b == CellsFrom(dims, j + 2)
           c == CellsFrom(dims, j + 1)
           hs == Inner(dims, j, p)
           rows == Rows(dims, j, p)
<1>1. /\ a \in Nat \ {0} /\ b \in Nat \ {0} /\ c \in Nat \ {0} /\ c = a * b
      /\ k \in 0..Len(dims) /\ b = CellsFrom(dims, k + 1)
  <2>1. j + 1 \in 1..(Len(dims) + 1) /\ j + 2 \in 1..(Len(dims) + 1) /\ j + 1 \in 1..Len(dims)
        /\ k \in 0..Len(dims) /\ k + 1 = j + 2
        OBVIOUS
  <2>2. a \in Lengths
        BY <2>1
  <2>3. b \in Lengths /\ c \in Lengths
        BY <2>1, CellsFromLengths
  <2>4. c = a * b
        BY CellsFromNext
  <2> QED BY <2>1, <2>2, <2>3, <2>4 DEF Lengths
<1>2. hs = [n \in 1..c |-> Element(dims, k, p, n)]
      BY DEF Inner
<1>3. rows = [i \in 1..a |-> rows[i]] /\ \A i \in 1..a : rows[i] = FlattenSeq(Elements(dims, k, p + (i - 1) * b))
      BY DEF Rows, Part
<1>4. IsBracketed(Symbols, Elements(dims, j, p), hs, <<Open>>, <<Close>>)
      BY PartBracketed
<1>5. hs \in Seq(Seq(Symbols)) /\ Len(hs) = c
  <2> HIDE DEF k, c, hs
  <2>1. ASSUME NEW n \in 1..c
        PROVE  hs[n] = Element(dims, k, p, n) /\ hs[n] \in Seq(Symbols)
    <3>1. n \in Nat \ {0}
          BY <1>1
    <3> QED BY <1>1, <1>2, <3>1, ElementTyped
  <2>2. hs = [n \in 1..c |-> hs[n]] /\ \A n \in 1..c : hs[n] \in Seq(Symbols)
        BY <1>2, <2>1
  <2> QED BY ONLY <1>1, <2>2, VectorTyped
<1> HIDE DEF k, a, b, c, hs, rows
<1>6. ASSUME NEW i \in 1..a
      PROVE  /\ rows[i] = FlattenSeq(SubSeq(hs, (i - 1) * b + 1, i * b))
             /\ rows[i] \in Seq(Symbols)
  <2> DEFINE r == i - 1
             s == r * b
             q == p + s
  <2>1. r \in Nat /\ s \in Nat /\ i * b = s + b /\ s + b <= c
    <3>1. PICK d \in Nat : a = i + d
          BY <1>1
    <3>2. i \in Nat /\ r \in Nat /\ i = r + 1
          BY <1>1
    <3> HIDE DEF r
    <3>3. /\ a * b = i * b + d * b /\ d * b \in Nat
          /\ r * b \in Nat /\ i * b = r * b + b /\ i * b \in Nat
      <4>1. \A x, y, z \in Nat : (x + y) * z = x * z + y * z /\ x * z \in Nat /\ 1 * z = z
            OBVIOUS
      <4>2. a \in Nat /\ b \in Nat /\ d \in Nat /\ i \in Nat /\ r \in Nat /\ 1 \in Nat
            BY <1>1, <3>2
      <4>3. (i + d) * b = i * b + d * b /\ (r + 1) * b = r * b + 1 * b /\ 1 * b = b
            /\ d * b \in Nat /\ r * b \in Nat /\ i * b \in Nat
            BY ONLY <4>1, <4>2
      <4> QED BY ONLY <3>1, <3>2, <4>3
    <3>4. c = i * b + d * b /\ s = r * b
          BY <1>1, <3>3
    <3> HIDE DEF s
    <3> DEFINE ib == i * b
               db == d * b
               rb == r * b
    <3>5. c = ib + db /\ ib = s + b /\ db \in Nat /\ s \in Nat /\ ib \in Nat
          BY <3>3, <3>4
    <3> HIDE DEF ib, db
    <3>6. s + b <= c
          BY ONLY <1>1, <3>5
    <3> QED BY ONLY <3>2, <3>5, <3>6 DEF ib
  <2>2. rows[i] = FlattenSeq(Elements(dims, k, q))
        BY <1>3
  <2>3. s = r * b /\ q = p + s
        OBVIOUS
  <2> HIDE DEF r, s, q
  <2>4. Elements(dims, k, q) = SubSeq(hs, s + 1, s + b) /\ SubSeq(hs, s + 1, s + b) \in Seq(Seq(Symbols))
    <3>1. IsRow(dims, k, p, c, hs, b, r, s, q)
          BY <1>1, <1>2, <2>1, <2>3 DEF IsRow
    <3> QED BY ONLY <3>1, RowIs
  <2>5. FlattenSeq(SubSeq(hs, s + 1, s + b)) \in Seq(Symbols)
        BY <2>4, FlattenTyped
  <2>6. SubSeq(hs, s + 1, s + b) = SubSeq(hs, (i - 1) * b + 1, i * b)
        BY <2>1, <2>3 DEF r
  <2> QED BY <2>2, <2>4, <2>5, <2>6
<1>7. rows \in Seq(Seq(Symbols)) /\ Len(rows) = a
      BY <1>1, <1>3, <1>6, VectorTyped
<1>8. InRows(Symbols, hs, rows, a, b)
      BY <1>1, <1>5, <1>6, <1>7 DEF InRows
<1>9. FlattenSeq(hs) = FlattenSeq(rows)
      BY <1>1, <1>8, FlattenRows
<1>10. FlattenSeq(Elements(dims, j, p)) = <<Open>> \o FlattenSeq(hs) \o <<Close>>
  <2> DEFINE open == <<Open>>
             close == <<Close>>
             gs == Elements(dims, j, p)
  <2>1. IsBracketed(Symbols, gs, hs, open, close)
        BY <1>4
  <2> HIDE DEF open, close, gs
  <2>2. FlattenSeq(gs) = open \o FlattenSeq(hs) \o close
        BY <2>1, FlattenBracketed
  <2> QED BY <2>2 DEF open, close, gs
<1> QED BY <1>9, <1>10 DEF Part, rows

LEMMA PartEnd ==
    ASSUME NEW dims \in Seq(Lengths), NEW p \in Nat
    PROVE  Part(dims, Len(dims), p) = <<Open, Cell(p), Close>>
<1> DEFINE k == Len(dims)
           e == <<Open, Cell(p), Close>>
<1>1. CellsFrom(dims, k + 1) = 1
      BY CellsFromEnd
<1>2. \A n : Depth(dims, k, n) = 0
  <2>1. \A n : Enclosing(dims, k, n) = {}
        BY DEF Enclosing
  <2> QED BY <2>1, FS_EmptySet DEF Depth
<1>3. e \in Seq(Symbols) /\ Element(dims, k, p, 1) = e
  <2>1. e \in Seq(Symbols)
        BY EnclosedTyped
  <2>2. Element(dims, k, p, 1) = Repeat(Open, 0) \o <<Open, Cell(p), Close>> \o Repeat(Close, 0)
    <3> HIDE DEF k
    <3>1. p + (1 - 1) = p /\ Depth(dims, k, 1 - 1) = 0 /\ Depth(dims, k, 1) = 0
          BY <1>2
    <3>2. Element(dims, k, p, 1) = Enclosed(Depth(dims, k, 1 - 1), p + (1 - 1), Depth(dims, k, 1))
          BY DEF Element
    <3>3. Element(dims, k, p, 1) = Enclosed(0, p, 0)
          BY ONLY <3>1, <3>2
    <3> QED BY <3>3 DEF Enclosed
  <2>3. Repeat(Open, 0) = << >> /\ Repeat(Close, 0) = << >>
        BY DEF Repeat
  <2> HIDE DEF k
  <2>4. Element(dims, k, p, 1) = << >> \o e \o << >>
        BY <2>2, <2>3
  <2> HIDE DEF e
  <2>5. << >> \o e \o << >> = e
        BY <2>1, ConcatEmptySeq
  <2> QED BY <2>1, <2>4, <2>5
<1>4. Elements(dims, k, p) = <<Element(dims, k, p, 1)>>
      BY <1>1 DEF Elements
<1>5. Elements(dims, k, p) = <<e>>
      BY <1>3, <1>4
<1> HIDE DEF e
<1>6. FlattenSeq(<<e>>) = e
      BY <1>3, FlattenOne
<1> QED BY <1>5, <1>6 DEF Part, e

-----------------------------------------------------------------------------
(* The recursion of codegen_print_array. *)
Prints(dims, dim, print) ==
    [prefix \in Nat |->
        <<Open>>
        \o FlattenSeq([i \in 1..dims[dim + 1] |->
                IF dim = Len(dims) - 1
                THEN <<Open, Cell(prefix + (i - 1)), Close>>
                ELSE print[dim + 1][prefix + (i - 1) * Cells(SubSeq(dims, dim + 2, Len(dims)))]])
        \o <<Close>>]

IsPrint(dims, print) == print = [dim \in 0..(Len(dims) - 1) |-> Prints(dims, dim, print)]

LEMMA PrintsPart ==
    ASSUME NEW dims \in Seq(Lengths), NEW dim \in 0..(Len(dims) - 1), NEW print,
           dim # Len(dims) - 1 => \A p \in Nat : print[dim + 1][p] = Part(dims, dim + 1, p)
    PROVE  Prints(dims, dim, print) = [p \in Nat |-> Part(dims, dim, p)]
<1>1. ASSUME NEW p \in Nat
      PROVE  Prints(dims, dim, print)[p] = Part(dims, dim, p)
  <2> DEFINE x == dims[dim + 1]
             b == CellsFrom(dims, dim + 2)
             Printed(i) == IF dim = Len(dims) - 1 THEN <<Open, Cell(p + (i - 1)), Close>>
                           ELSE print[dim + 1][p + (i - 1) * b]
  <2>1. Prints(dims, dim, print)[p] = <<Open>> \o FlattenSeq([i \in 1..x |-> Printed(i)]) \o <<Close>>
        BY DEF Prints, CellsFrom
  <2>2. x \in Nat /\ b \in Nat
    <3>1. dim + 1 \in 1..Len(dims) /\ dim + 2 \in 1..(Len(dims) + 1)
          OBVIOUS
    <3>2. x \in Lengths
          BY <3>1
    <3> QED BY <3>1, <3>2, CellsFromLengths DEF Lengths
  <2>3. ASSUME NEW i \in 1..x
        PROVE  Printed(i) = Part(dims, dim + 1, p + (i - 1) * b)
    <3> DEFINE r == i - 1
               q == p + r * b
    <3>1. r \in Nat /\ r * b \in Nat /\ q \in Nat
      <4>1. r \in Nat
            BY <2>2
      <4> HIDE DEF r, x, b
      <4>2. r * b \in Nat
            BY <2>2, <4>1
      <4> QED BY <4>1, <4>2
    <3>2. CASE dim = Len(dims) - 1
      <4>1. dim + 1 = Len(dims) /\ dim + 2 = Len(dims) + 1
            BY <3>2
      <4>2. b = 1
            BY <4>1, CellsFromEnd
      <4>3. q = p + r
            BY <3>1, <4>2
      <4>4. Printed(i) = <<Open, Cell(p + r), Close>>
            BY <3>2
      <4> HIDE DEF q, r, b, x, Printed
      <4>5. Part(dims, Len(dims), q) = <<Open, Cell(q), Close>>
            BY <3>1, PartEnd
      <4>6. Printed(i) = Part(dims, dim + 1, q)
            BY <4>1, <4>3, <4>4, <4>5
      <4> QED BY <4>6 DEF q, r
    <3>3. CASE dim # Len(dims) - 1
      <4>1. Printed(i) = print[dim + 1][q]
            BY <3>3
      <4> HIDE DEF q, r, b, x, Printed
      <4>2. print[dim + 1][q] = Part(dims, dim + 1, q)
            BY <3>1, <3>3
      <4>3. Printed(i) = Part(dims, dim + 1, q)
            BY <4>1, <4>2
      <4> QED BY <4>3 DEF q, r
    <3> QED BY <3>2, <3>3
  <2> HIDE DEF x, b, Printed
  <2>4. [i \in 1..x |-> Printed(i)] = [i \in 1..x |-> Part(dims, dim + 1, p + (i - 1) * b)]
        BY <2>3
  <2>5. Rows(dims, dim, p) = [i \in 1..x |-> Part(dims, dim + 1, p + (i - 1) * b)]
        BY DEF Rows, x, b
  <2>6. Prints(dims, dim, print)[p] = <<Open>> \o FlattenSeq(Rows(dims, dim, p)) \o <<Close>>
        BY <2>1, <2>4, <2>5
  <2> QED BY <2>6, PartNext
<1> DEFINE f == Prints(dims, dim, print)
<1>2. f = [p \in Nat |-> f[p]]
      BY DEF Prints
<1> HIDE DEF f
<1>3. \A p \in Nat : f[p] = Part(dims, dim, p)
      BY <1>1 DEF f
<1>4. f = [p \in Nat |-> Part(dims, dim, p)]
      BY <1>2, <1>3
<1> QED BY <1>4 DEF f

LEMMA PrintArrayIs ==
    ASSUME NEW dims \in Seq(Lengths), dims # << >>
    PROVE  PrintArray(dims) = Part(dims, 0, 0)
<1> DEFINE last == Len(dims) - 1
           parts == [dim \in 0..last |-> [p \in Nat |-> Part(dims, dim, p)]]
           f == CHOOSE print : IsPrint(dims, print)
<1>1. last \in Nat
      OBVIOUS
<1>2. IsPrint(dims, parts)
  <2>1. ASSUME NEW dim \in 0..last
        PROVE  Prints(dims, dim, parts) = [p \in Nat |-> Part(dims, dim, p)]
    <3>1. dim # Len(dims) - 1 => \A p \in Nat : parts[dim + 1][p] = Part(dims, dim + 1, p)
      <4>1. dim # Len(dims) - 1 => dim + 1 \in 0..last
            OBVIOUS
      <4> QED BY <4>1
    <3>2. dim \in 0..(Len(dims) - 1)
          OBVIOUS
    <3> HIDE DEF parts
    <3> QED BY <3>1, <3>2, PrintsPart
  <2>2. parts = [dim \in 0..last |-> Prints(dims, dim, parts)]
        BY <2>1
  <2> QED BY <2>2 DEF IsPrint
<1>3. IsPrint(dims, f)
  <2> HIDE DEF IsPrint, parts
  <2> QED BY <1>2
<1>4. PrintArray(dims) = f[0][0]
      BY DEF PrintArray, IsPrint, Prints
<1>5. \A dim \in 0..last : f[dim] = Prints(dims, dim, f)
  <2> HIDE DEF f
  <2> QED BY <1>3 DEF IsPrint
<1> HIDE DEF f, parts
<1> DEFINE Right(dim) == \A p \in Nat : f[dim][p] = Part(dims, dim, p)
           T == {n \in Nat : n <= last => Right(last - n)}
<1>6. ASSUME NEW dim \in 0..last, dim # last => Right(dim + 1)
      PROVE  Right(dim)
  <2>1. dim \in 0..(Len(dims) - 1) /\ (dim # Len(dims) - 1 => \A p \in Nat : f[dim + 1][p] = Part(dims, dim + 1, p))
        BY <1>6
  <2>2. Prints(dims, dim, f) = [p \in Nat |-> Part(dims, dim, p)]
        BY <2>1, PrintsPart
  <2> QED BY <1>5, <2>2
<1> HIDE DEF Right
<1>7. 0 \in T
  <2>1. last - 0 = last /\ last \in 0..last
        BY <1>1
  <2>2. Right(last)
        BY <1>6, <2>1
  <2> QED BY <2>1, <2>2
<1>8. ASSUME NEW n \in Nat, n \in T
      PROVE  n + 1 \in T
  <2> SUFFICES ASSUME n + 1 <= last
               PROVE  Right(last - (n + 1))
      OBVIOUS
  <2>1. last - (n + 1) \in 0..last /\ (last - (n + 1)) + 1 = last - n /\ n <= last
        BY <1>1
  <2>2. Right(last - n)
        BY <1>8, <2>1
  <2> QED BY <1>6, <2>1, <2>2
<1>9. last \in T
  <2> HIDE DEF T
  <2> QED BY <1>1, <1>7, <1>8, NaturalsFrom
<1>10. Right(0)
  <2>1. last <= last /\ last - last = 0
        BY <1>1
  <2> QED BY <1>9, <2>1
<1> QED BY <1>4, <1>10 DEF Right
-----------------------------------------------------------------------------
(* The notation of README.md, and the shape of the result. *)
LEMMA NotationIs ==
    ASSUME Shape \in Seq(Lengths)
    PROVE  Notation = Part(Shape, 0, 0)
<1> DEFINE dims == Shape
<1>1. dims \in Seq(Lengths) /\ DOMAIN dims = (0 + 1)..Len(dims) /\ SubSeq(dims, 0 + 1, Len(dims)) = dims
  <2> HIDE DEF dims
  <2>1. dims \in Seq(Lengths)
        BY DEF dims
  <2>2. SubSeq(dims, 1, Len(dims)) = dims
        BY <2>1, SubSeqFull
  <2> QED BY <2>1, <2>2
<1>2. \A n : Starting(n) = Enclosing(dims, 0, n)
  <2>1. \A n : Starting(n) = {d \in DOMAIN dims : n % CellsFrom(dims, d) = 0}
        BY DEF Starting, CellsFrom
  <2> HIDE DEF dims
  <2> QED BY <1>1, <2>1 DEF Enclosing
<1>3. Cells(dims) = CellsFrom(dims, 0 + 1)
  <2> HIDE DEF dims
  <2> QED BY <1>1 DEF CellsFrom
<1> DEFINE Written(n) == Repeat(Open, Cardinality(Starting(n - 1)))
                         \o <<Open, Cell(n - 1), Close>>
                         \o Repeat(Close, Cardinality(Starting(n)))
<1>4. Notation = FlattenSeq([n \in 1..Cells(dims) |-> Written(n)])
      BY DEF Notation
<1> HIDE DEF dims
<1>5. ASSUME NEW n \in 1..Cells(dims)
      PROVE  Written(n) = Element(dims, 0, 0, n)
  <2>0. Cells(dims) \in Nat
        BY <1>1, CellsPositive DEF Lengths
  <2>1. 0 + (n - 1) = n - 1
        BY <2>0
  <2>2. Element(dims, 0, 0, n) = Enclosed(Cardinality(Enclosing(dims, 0, n - 1)), n - 1, Cardinality(Enclosing(dims, 0, n)))
        BY <2>1 DEF Element, Depth
  <2>3. Written(n) = Enclosed(Cardinality(Starting(n - 1)), n - 1, Cardinality(Starting(n)))
        BY DEF Enclosed
  <2> HIDE DEF Written
  <2> QED BY <1>2, <2>2, <2>3
<1> HIDE DEF Written
<1>6. [n \in 1..Cells(dims) |-> Written(n)] = [n \in 1..Cells(dims) |-> Element(dims, 0, 0, n)]
      BY <1>5
<1>7. Elements(dims, 0, 0) = [n \in 1..Cells(dims) |-> Element(dims, 0, 0, n)]
      BY <1>3 DEF Elements
<1>8. Notation = Part(dims, 0, 0)
      BY <1>4, <1>6, <1>7 DEF Part
<1> QED BY <1>8 DEF dims

(* SetType gives every result but that of mkArray the dimensions README.md  *)
(* gives it.                                                                *)
LEMMA DimensionsRight ==
    ASSUME call \in Calls, type = CallType(call.callee, call.types, call.scalars),
           call.callee # "mkArray"
    PROVE  type.dimensions = Shape /\ Shape \in Seq(Lengths)
<1> DEFINE dims == Dims(1)
<1>0. /\ call.types \in Seq(ArrayTypes) /\ call.scalars \in Seq(Int) /\ MadeFor(call)
      /\ \A a \in 1..Len(call.types) : Dims(a) \in Seq(Lengths)
      BY CallTyped
<1>1. Len(call.types) > 0 /\ dims = call.types[1].dimensions /\ dims \in Seq(Lengths)
  <2>1. Len(call.types) \in {1, 2}
        BY <1>0 DEF MadeFor
  <2> QED BY <1>0, <2>1 DEF Dims
<1>2. CASE call.callee \in {"neg", "exp", "add", "sub"}
  <2>1. type = call.types[1] /\ Shape = dims
        BY <1>2, TypeCases, ShapeCases
  <2> QED BY <1>1, <2>1
<1>3. CASE call.callee = "reduce"
  <2>1. dims # << >>
        BY <1>0, <1>1, <1>3 DEF MadeFor
  <2>2. type = ReduceType(call.types[1]) /\ Shape = Front(dims)
        BY <1>3, TypeCases, ShapeCases
  <2> HIDE DEF dims
  <2>3. PICK u \in Seq(Lengths), x \in Lengths : Extends(dims, u, x)
        BY <1>1, <2>1, LastDimension
  <2>4. Front(dims) = u
        BY <1>1, <2>3, FrontAndLast
  <2> QED BY <1>1, <2>2, <2>4 DEF ReduceType
<1>4. CASE call.callee = "expand"
  <2> DEFINE times == call.scalars[1]
  <2>1. dims # << >> /\ times \in Lengths
        BY <1>0, <1>1, <1>4 DEF MadeFor
  <2>2. type = ExpandType(call.types[1], times) /\ Shape = Front(dims) \o <<times>> \o <<Last(dims)>>
        BY <1>4, TypeCases, ShapeCases
  <2> HIDE DEF dims, times
  <2>3. PICK u \in Seq(Lengths), x \in Lengths : Extends(dims, u, x)
        BY <1>1, <2>1, LastDimension
  <2>4. Front(dims) = u /\ Last(dims) = x
        BY <1>1, <2>3, FrontAndLast
  <2> DEFINE v == Append(u, times)
             shape == Append(v, x)
  <2>5. shape \in Seq(Lengths)
        BY <2>1, <2>3
  <2>6. u \o <<times, x>> = shape /\ u \o <<times>> \o <<x>> = shape
        BY <2>1, <2>3
  <2>7. type.dimensions = Front(dims) \o <<times, Last(dims)>>
        BY <1>1, <2>2 DEF ExpandType
  <2> HIDE DEF shape
  <2> QED BY <2>2, <2>4, <2>5, <2>6, <2>7
<1>5. CASE call.callee = "concat"
  <2> DEFINE other == Dims(2)
             d == call.scalars[1]
             k == d + 1
  <2>1. /\ other \in Seq(Lengths) /\ other = call.types[2].dimensions
        /\ Len(other) = Len(dims) /\ d \in 0..(Len(dims) - 1)
    <3>1. Len(call.types) = 2 /\ Len(dims) = Len(other) /\ d \in 0..(Len(dims) - 1)
          BY <1>0, <1>5 DEF MadeFor, Dims
    <3>2. 2 \in 1..Len(call.types)
          BY <3>1
    <3>3. other = call.types[2].dimensions
          BY DEF Dims
    <3> QED BY <1>0, <3>1, <3>2, <3>3
  <2>2. type = ConcatType(call.types[1], call.types[2], d)
        BY <1>5, TypeCases
  <2>3. Shape = [m \in DOMAIN dims |-> dims[m] + (IF m = k THEN other[m] ELSE 0)]
        BY <1>5, ShapeCases
  <2> HIDE DEF dims, other, d
  <2>4. k \in 1..Len(dims) /\ k \in 1..Len(other) /\ DOMAIN dims = 1..Len(dims) /\ Len(dims) \in Nat
        BY <1>1, <2>1
  <2> DEFINE both == dims[k] + other[k]
             shape == [dims EXCEPT ![k] = both]
  <2>5. type.dimensions = shape
        BY <1>1, <2>1, <2>2 DEF ConcatType
  <2>6. \A m \in 1..Len(dims) : dims[m] \in Lengths /\ other[m] \in Lengths
        BY <1>1, <2>1
  <2>7. \A m \in 1..Len(dims) : Shape[m] = shape[m] /\ Shape[m] \in Lengths
    <3> TAKE m \in 1..Len(dims)
    <3>1. CASE m = k
          BY <2>3, <2>4, <2>6, <3>1 DEF Lengths
    <3>2. CASE m # k
      <4>1. dims[m] \in Int /\ dims[m] \in Lengths
            BY <2>6 DEF Lengths
      <4> QED BY <2>3, <2>4, <3>2, <4>1
    <3> QED BY <3>1, <3>2
  <2>8. Shape = [m \in 1..Len(dims) |-> Shape[m]] /\ shape = [m \in 1..Len(dims) |-> shape[m]]
        BY <2>3, <2>4
  <2> HIDE DEF shape
  <2>9. Shape = shape
        BY <2>7, <2>8
  <2>10. Shape \in Seq(Lengths)
    <3> DEFINE len == Len(dims)
               w == Shape
    <3>1. w = [m \in 1..len |-> w[m]] /\ (\A m \in 1..len : w[m] \in Lengths) /\ len \in Nat
          BY <2>4, <2>7, <2>8
    <3> HIDE DEF len, w
    <3>2. w \in Seq(Lengths)
          BY <3>1, VectorTyped
    <3> QED BY <3>2 DEF w
  <2> QED BY <2>5, <2>9, <2>10
<1> QED BY <1>2, <1>3, <1>4, <1>5, CallTyped DEF Callees

(* What is printed is made of the dimensions the result has. *)
PrintInv ==
    /\ CallInv
    /\ done = "printed" => call.callee # "mkArray" /\ printed = PrintArray(type.dimensions)

LEMMA PrintInvInit == Init => PrintInv
BY CallInvInit DEF Init, PrintInv

LEMMA PrintInvNext == PrintInv /\ [Next]_vars => PrintInv'
<1> SUFFICES ASSUME PrintInv, [Next]_vars
             PROVE  PrintInv'
    OBVIOUS
<1>1. CallInv'
      BY CallInvNext DEF PrintInv
<1>2. CASE InferType
      BY <1>1, <1>2 DEF InferType, PrintInv
<1>3. CASE GenerateStores
      BY <1>1, <1>3 DEF GenerateStores, PrintInv
<1>4. CASE GeneratePrint
  <2>1. call.callee # "mkArray" /\ printed' = PrintArray(type.dimensions) /\ call' = call /\ type' = type
        BY <1>4 DEF GeneratePrint
  <2>2. PrintArray(type.dimensions)' = PrintArray(type.dimensions)
        BY <2>1
  <2> QED BY <1>1, <2>1, <2>2 DEF PrintInv
<1>5. CASE UNCHANGED vars
  <2>1. call' = call /\ type' = type /\ printed' = printed /\ done' = done
        BY <1>5 DEF vars
  <2>2. PrintArray(type.dimensions)' = PrintArray(type.dimensions)
        BY <2>1
  <2> QED BY <1>1, <2>1, <2>2 DEF PrintInv
<1>6. CASE Finished
      BY <1>5, <1>6 DEF Finished
<1> QED BY <1>2, <1>3, <1>4, <1>5, <1>6 DEF Next

(* No call makes an array without dimensions.  It takes the sum of an array *)
(* of one dimension, or an argument that has none; of such a type           *)
(* codegen_print_array reads a dimension that is not there.                 *)
ResultsHaveDimensions ==
    \A c \in Calls :
        c.callee # "mkArray" => CallType(c.callee, c.types, c.scalars).dimensions # << >>

(* For arrays of any dimensions the nested loops of codegen_print_array     *)
(* write the result in the notation of README.md: each cell in brackets of  *)
(* its own, and brackets around each row, each matrix of rows and so on.    *)
THEOREM AllPrintedInNotation ==
    ASSUME ResultsHaveDimensions
    PROVE  Spec => []PrintedInNotation
<1>1. Spec => []PrintInv
      BY PrintInvInit, PrintInvNext, PTL DEF Spec
<1>2. PrintInv => PrintedInNotation
  <2> SUFFICES ASSUME PrintInv, done = "printed"
               PROVE  printed = Notation
      BY DEF PrintedInNotation
  <2>1. /\ call \in Calls /\ type = CallType(call.callee, call.types, call.scalars)
        /\ call.callee # "mkArray" /\ printed = PrintArray(type.dimensions)
        BY DEF PrintInv, CallInv
  <2>2. type.dimensions # << >>
        BY <2>1 DEF ResultsHaveDimensions
  <2>3. type.dimensions = Shape /\ Shape \in Seq(Lengths)
        BY <2>1, DimensionsRight
  <2> DEFINE dims == type.dimensions
  <2>4. Notation = Part(dims, 0, 0)
        BY <2>3, NotationIs
  <2>5. dims \in Seq(Lengths) /\ dims # << >>
        BY <2>2, <2>3
  <2> HIDE DEF dims
  <2>6. PrintArray(dims) = Part(dims, 0, 0)
        BY <2>5, PrintArrayIs
  <2> QED BY <2>1, <2>4, <2>6 DEF dims
<1> QED BY <1>1, <1>2, PTL

-----------------------------------------------------------------------------
(* exp. *)

(* The factors the loop multiplies. *)
Factors == IF power = 0 THEN Modulus ELSE power

(* The head of the loop: the index is at most the power it is to reach. *)
LoopInv ==
    /\ TypeOK
    /\ block = "loop" => exp_ = PowerOf(arg0, i_) /\ (power = 0 \/ i_ < power)
    /\ block = "afterloop" => NextResult = PowerOf(arg0, Factors)
    /\ block = "stored" => alloc = PowerOf(arg0, Factors)

-----------------------------------------------------------------------------
(* The recursion of Pow. *)
IsPower(f, b, p) == f = [n \in 0..p |-> IF n = 0 THEN 1 ELSE (b * f[n - 1]) % Modulus]

LEMMA PowerExists ==
    ASSUME NEW b, NEW p \in Nat
    PROVE  \E f : IsPower(f, b, p) /\ Pow(b, p) = f[p]
<1> DEFINE T == {n \in Nat : \E f : IsPower(f, b, n)}
<1>1. 0 \in T
  <2>1. IsPower([n \in 0..0 |-> 1], b, 0)
        BY DEF IsPower
  <2> QED BY <2>1
<1>2. ASSUME NEW n \in Nat, n \in T
      PROVE  n + 1 \in T
  <2>1. PICK f : IsPower(f, b, n)
        BY <1>2
  <2> DEFINE g == [m \in 0..(n + 1) |-> IF m <= n THEN f[m] ELSE (b * f[n]) % Modulus]
  <2>2. ASSUME NEW m \in 0..(n + 1)
        PROVE  g[m] = IF m = 0 THEN 1 ELSE (b * g[m - 1]) % Modulus
    <3>1. CASE m <= n
      <4>1. g[m] = IF m = 0 THEN 1 ELSE (b * f[m - 1]) % Modulus
            BY <2>1, <3>1 DEF IsPower
      <4>2. m # 0 => g[m - 1] = f[m - 1]
            BY <3>1
      <4> QED BY <4>1, <4>2
    <3>2. CASE m = n + 1
      <4>1. g[m] = (b * f[n]) % Modulus /\ g[m - 1] = f[n] /\ m # 0
            BY <3>2
      <4> QED BY <4>1
    <3> QED BY <3>1, <3>2
  <2>3. IsPower(g, b, n + 1)
        BY <2>2 DEF IsPower
  <2> QED BY <2>3
<1>3. p \in T
  <2> HIDE DEF T
  <2> QED BY <1>1, <1>2, NaturalsFrom
<1> DEFINE r == CHOOSE f : IsPower(f, b, p)
<1>4. IsPower(r, b, p)
      BY <1>3
<1>5. Pow(b, p) = r[p]
      BY DEF Pow, IsPower
<1> QED BY <1>4, <1>5

LEMMA PowerZero ==
    ASSUME NEW b
    PROVE  Pow(b, 0) = 1
<1>1. PICK f : IsPower(f, b, 0) /\ Pow(b, 0) = f[0]
      BY PowerExists
<1> QED BY <1>1 DEF IsPower

LEMMA PowerNext ==
    ASSUME NEW b, NEW p \in Nat, NEW q, q = p + 1
    PROVE  Pow(b, q) = (b * Pow(b, p)) % Modulus
<1>1. PICK f : IsPower(f, b, p) /\ Pow(b, p) = f[p]
      BY PowerExists
<1>2. PICK g : IsPower(g, b, q) /\ Pow(b, q) = g[q]
      BY PowerExists
<1> DEFINE T == {n \in 0..p : f[n] = g[n]}
<1>3. 0 \in T
      BY <1>1, <1>2 DEF IsPower
<1>4. ASSUME NEW n \in 0..(p - 1), n \in T
      PROVE  n + 1 \in T
  <2>1. n + 1 \in 0..p /\ n + 1 \in 0..q /\ n + 1 # 0 /\ (n + 1) - 1 = n
        OBVIOUS
  <2>2. f[n + 1] = (b * f[n]) % Modulus /\ g[n + 1] = (b * g[n]) % Modulus
        BY <1>1, <1>2, <2>1 DEF IsPower
  <2> QED BY <1>4, <2>1, <2>2
<1>5. f[p] = g[p]
  <2>1. 0..p \subseteq T
    <3> HIDE DEF T
    <3> QED BY <1>3, <1>4, NaturalsUpTo
  <2> QED BY <2>1
<1>6. g[q] = (b * g[p]) % Modulus
  <2>1. q \in 0..q /\ q # 0 /\ q - 1 = p
        OBVIOUS
  <2> QED BY <1>2, <2>1 DEF IsPower
<1> QED BY <1>1, <1>2, <1>5, <1>6

LEMMA PowerWord ==
    ASSUME NEW b \in Int, NEW p \in Nat
    PROVE  Pow(b, p) \in Words
<1> DEFINE T == {n \in Nat : Pow(b, n) \in Words}
<1>1. 0 \in T
      BY PowerZero, ModulusAssumption DEF Words
<1>2. ASSUME NEW n \in Nat, n \in T
      PROVE  n + 1 \in T
  <2> DEFINE m == n + 1
             x == Pow(b, n)
             y == Pow(b, m)
  <2>1. m \in Nat /\ m = n + 1
        OBVIOUS
  <2> HIDE DEF m
  <2>2. y = (b * x) % Modulus
        BY <2>1, PowerNext
  <2>3. x \in Int
        BY <1>2 DEF Words
  <2> HIDE DEF x, y
  <2>4. y \in Words
    <3> DEFINE z == b * x
    <3>1. z \in Int
          BY <2>3
    <3> HIDE DEF z
    <3>2. z % Modulus \in 0..(Modulus - 1)
          BY <3>1, ModulusAssumption
    <3> QED BY <2>2, <3>2 DEF z, Words
  <2> QED BY <2>1, <2>4 DEF m, y
<1> HIDE DEF T
<1>3. p \in T
      BY <1>1, <1>2, NaturalsFrom
<1> QED BY <1>3 DEF T

(* One more factor. *)
LEMMA PowerOfNext ==
    ASSUME NEW v \in Seq(Words), NEW p \in Nat, NEW q, q = p + 1
    PROVE  Mul(PowerOf(v, p), v) = PowerOf(v, q)
<1>1. ASSUME NEW n \in DOMAIN v
      PROVE  (PowerOf(v, p)[n] * v[n]) % Modulus = Pow(v[n], q)
  <2>1. Pow(v[n], q) = (v[n] * Pow(v[n], p)) % Modulus
        BY PowerNext
  <2>2. PowerOf(v, p)[n] = Pow(v[n], p)
        BY DEF PowerOf
  <2>3. v[n] \in Int
        BY ModulusAssumption DEF Words
  <2>4. Pow(v[n], p) \in Int
        BY <2>3, PowerWord DEF Words
  <2> DEFINE x == Pow(v[n], p)
             y == v[n]
  <2> HIDE DEF x, y
  <2>5. x * y = y * x
        BY <2>3, <2>4 DEF x, y
  <2> QED BY <2>1, <2>2, <2>5 DEF x, y
<1>2. DOMAIN PowerOf(v, p) = DOMAIN v
      BY DEF PowerOf
<1> QED BY <1>1, <1>2 DEF Mul, PowerOf

LEMMA PowerOfWords ==
    ASSUME NEW v \in Seq(Words), NEW p \in Nat
    PROVE  \A n \in DOMAIN v : PowerOf(v, p)[n] \in Words
<1> TAKE n \in DOMAIN v
<1>1. v[n] \in Int
      BY ModulusAssumption DEF Words
<1>2. Pow(v[n], p) \in Words
      BY <1>1, PowerWord
<1> QED BY <1>2 DEF PowerOf

LEMMA PowerOfZero ==
    ASSUME NEW v
    PROVE  PowerOf(v, 0) = [n \in DOMAIN v |-> 1]
BY PowerZero DEF PowerOf

-----------------------------------------------------------------------------

LEMMA InputTypes ==
    ASSUME <<arg0, power>> \in Inputs
    PROVE  arg0 \in Seq(Words) /\ power \in Words
BY InputsAssumption

LEMMA LoopInvInit == LoopInit => LoopInv
<1> SUFFICES ASSUME LoopInit
             PROVE  LoopInv
    OBVIOUS
<1>1. PICK input \in Inputs : arg0 = input[1] /\ power = input[2]
      BY DEF LoopInit
<1>2. input = <<arg0, power>>
      BY <1>1, InputsAssumption
<1>3. 0 \in 0..(Modulus - 1)
      BY ModulusAssumption
<1> QED BY <1>1, <1>2, <1>3 DEF LoopInit, LoopInv, TypeOK

(* The index after the next factor. *)
LEMMA NextIndex ==
    ASSUME i_ \in Words, power \in Words, power = 0 \/ i_ < power
    PROVE  /\ NextVar \in Words
           /\ EndCond => Factors = i_ + 1
           /\ ~EndCond => NextVar = i_ + 1 /\ (power = 0 \/ NextVar < power)
<1>1. Modulus \in Nat \ {0, 1} /\ i_ \in 0..(Modulus - 1) /\ power \in 0..(Modulus - 1)
      BY ModulusAssumption DEF Words
<1>2. CASE i_ + 1 < Modulus
  <2>1. (i_ + 1) % Modulus = i_ + 1
        BY <1>1, <1>2
  <2> QED BY <1>1, <1>2, <2>1 DEF NextVar, EndCond, Factors, Words
<1>3. CASE i_ + 1 = Modulus
  <2>1. (i_ + 1) % Modulus = 0
        BY <1>1, <1>3
  <2>2. power = 0
        BY <1>1, <1>3
  <2> QED BY <1>1, <1>3, <2>1, <2>2 DEF NextVar, EndCond, Factors, Words
<1> QED BY <1>1, <1>2, <1>3

LEMMA LoopInvNext == LoopInv /\ [LoopNext]_loopvars => LoopInv'
<1> SUFFICES ASSUME LoopInv, [LoopNext]_loopvars
             PROVE  LoopInv'
    OBVIOUS
<1>1. TypeOK
      BY DEF LoopInv
<1>2. arg0 \in Seq(Words) /\ power \in Words
      BY <1>1, InputTypes DEF TypeOK
<1>3. CASE Enter
  <2>1. /\ block' = "loop" /\ i_' = 0 /\ exp_' = [n \in DOMAIN arg0 |-> 1]
        /\ UNCHANGED <<arg0, power, NextResult, alloc>>
        BY <1>3 DEF Enter, Ones
  <2>2. exp_' = PowerOf(arg0, 0)
        BY <2>1, PowerOfZero
  <2>3. (\A n \in DOMAIN arg0 : exp_'[n] \in Words) /\ 0 \in Words
        BY <2>1, ModulusAssumption DEF Words
  <2>4. TypeOK'
        BY <1>1, <2>1, <2>3 DEF TypeOK, Words
  <2>5. power = 0 \/ 0 < power
        BY <1>2, ModulusAssumption DEF Words
  <2>6. PowerOf(arg0, 0)' = PowerOf(arg0, 0)
        BY <2>1 DEF PowerOf, Pow
  <2>7. exp_' = PowerOf(arg0, i_)' /\ (power' = 0 \/ i_' < power')
        BY <2>1, <2>2, <2>5, <2>6
  <2> QED BY <2>1, <2>4, <2>7 DEF LoopInv
<1>4. CASE Iterate
  <2> DEFINE q == i_ + 1
  <2>0. block = "loop" /\ NextResult' = Mul(exp_, arg0) /\ UNCHANGED <<arg0, power, alloc>>
        BY <1>4 DEF Iterate
  <2>1. exp_ = PowerOf(arg0, i_) /\ (power = 0 \/ i_ < power) /\ i_ \in Words /\ i_ \in Nat
        BY <1>1, <2>0, ModulusAssumption DEF LoopInv, TypeOK, Words
  <2>2. q \in Nat /\ q = i_ + 1
        BY <2>1
  <2> HIDE DEF q
  <2>3. NextResult' = PowerOf(arg0, q)
        BY <1>2, <2>0, <2>1, <2>2, PowerOfNext
  <2>4. \A n \in DOMAIN arg0 : NextResult'[n] \in Words
        BY <1>2, <2>2, <2>3, PowerOfWords
  <2>5. /\ NextVar \in Words
        /\ EndCond => Factors = q
        /\ ~EndCond => NextVar = q /\ (power = 0 \/ NextVar < power)
        BY <1>2, <2>1, <2>2, NextIndex
  <2>6. CASE EndCond
    <3>1. block' = "afterloop" /\ UNCHANGED <<i_, exp_>>
          BY <1>4, <2>6 DEF Iterate
    <3>2. TypeOK'
          BY <1>1, <2>0, <2>4, <3>1 DEF TypeOK, Words
    <3>3. NextResult' = PowerOf(arg0, Factors)'
          BY <2>0, <2>3, <2>5, <2>6 DEF Factors
    <3> QED BY <3>1, <3>2, <3>3 DEF LoopInv
  <2>7. CASE ~EndCond
    <3>1. block' = "loop" /\ i_' = NextVar /\ exp_' = NextResult'
          BY <1>4, <2>0, <2>7 DEF Iterate
    <3>2. TypeOK'
          BY <1>1, <2>0, <2>4, <2>5, <3>1 DEF TypeOK, Words
    <3>3. exp_' = PowerOf(arg0, i_)' /\ (power' = 0 \/ i_' < power')
          BY <2>0, <2>3, <2>5, <2>7, <3>1
    <3> QED BY <3>1, <3>2, <3>3 DEF LoopInv
  <2> QED BY <2>6, <2>7
<1>5. CASE StoreResult
  <2>1. /\ block = "afterloop" /\ block' = "stored" /\ alloc' = NextResult
        /\ UNCHANGED <<arg0, power, i_, exp_, NextResult>>
        BY <1>5 DEF StoreResult
  <2>2. TypeOK'
        BY <1>1, <2>1 DEF TypeOK
  <2>3. alloc' = PowerOf(arg0, Factors)'
        BY <2>1 DEF LoopInv, Factors
  <2> QED BY <2>1, <2>2, <2>3 DEF LoopInv
<1>6. CASE LoopLeft
      BY <1>6 DEF LoopLeft, loopvars, LoopInv, TypeOK, Factors
<1>7. CASE UNCHANGED loopvars
      BY <1>7 DEF loopvars, LoopInv, TypeOK, Factors
<1> QED BY <1>3, <1>4, <1>5, <1>6, <1>7 DEF LoopNext

(* LoopInv is invariant, through the wrap-around of index and product.      *)
THEOREM LoopInvariance == LoopSpec => []LoopInv
BY LoopInvInit, LoopInvNext, PTL DEF LoopSpec

-----------------------------------------------------------------------------
(* The index and all the products stay within the width of an integer.      *)
THEOREM TypeCorrect == LoopSpec => []TypeOK
<1>1. LoopInv => TypeOK
      BY DEF LoopInv
<1> QED BY <1>1, LoopInvariance, PTL

(* At the head of the loop the product has as many factors as the index     *)
(* counts: the two phi nodes never part.                                    *)
THEOREM ProductAlwaysFollows == LoopSpec => []ProductFollowsIndex
<1>1. LoopInv => ProductFollowsIndex
      BY DEF LoopInv, ProductFollowsIndex
<1> QED BY <1>1, LoopInvariance, PTL

(* What exp stores, whatever the power: for a power of zero the product of  *)
(* Modulus factors.                                                         *)
THEOREM StoresPower == LoopSpec => [](block = "stored" => alloc = PowerOf(arg0, IF power = 0 THEN Modulus ELSE power))
<1>1. LoopInv => (block = "stored" => alloc = PowerOf(arg0, IF power = 0 THEN Modulus ELSE power))
      BY DEF LoopInv, Factors
<1> QED BY <1>1, LoopInvariance, PTL

(* exp raises every number of the array to the power, provided that what it *)
(* multiplies for a power of zero comes to one.                             *)
THEOREM AlwaysRaised ==
    ASSUME ZeroPowersOK
    PROVE  LoopSpec => []Raised
<1>1. LoopInv => Raised
  <2> SUFFICES ASSUME LoopInv, block = "stored"
               PROVE  alloc = PowerOf(arg0, power)
      BY DEF Raised
  <2>1. alloc = PowerOf(arg0, Factors) /\ <<arg0, power>> \in Inputs
        BY DEF LoopInv, TypeOK
  <2>2. <<arg0, power>>[1] = arg0 /\ <<arg0, power>>[2] = power
        OBVIOUS
  <2>3. power = 0 => PowerOf(arg0, Modulus) = PowerOf(arg0, 0)
        BY <2>1, <2>2 DEF ZeroPowersOK
  <2> QED BY <2>1, <2>3 DEF Factors
<1> QED BY <1>1, LoopInvariance, PTL

-----------------------------------------------------------------------------
(* The run of a call is a run of its compilation and, of exp, a run of the  *)
(* loop: what is proved of each of the two holds in the run of both.        *)
THEOREM CallRunsBoth ==
    CallSpec => Spec /\ LoopInit /\ [][LoopNext]_loopvars
<1>1. CallInit => Init /\ LoopInit
      BY DEF CallInit
<1>2. [CallNext]_callvars => [Next]_vars /\ [LoopNext]_loopvars
      BY DEF CallNext, CompileCall, RunLoop, callvars
<1> QED BY <1>1, <1>2, PTL DEF CallSpec, Spec
=============================================================================
