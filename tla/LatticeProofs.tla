--------------------------- MODULE LatticeProofs ---------------------------
(***************************************************************************)
(* MergeLattice::make builds a lattice that is right (LatticeFor) for      *)
(* every expression that reads no array twice, of whatever size.           *)
(*                                                                         *)
(* The argument.  An expression in postfix order is a sequence of parts,   *)
(* one for each lattice the visitor has on its stack; so is its evaluation *)
(* with the operands that are missing left out.  The lattice of an array   *)
(* is right, and if two lattices are right for expressions that share no   *)
(* array, so is their merge for the operator.  The induction is along the  *)
(* visited nodes (Induction).                                              *)
(***************************************************************************)
EXTENDS Lattice, Integers, Induction, FiniteSetTheorems, SequenceTheorems

-----------------------------------------------------------------------------
(* The evaluation of an expression in postfix order.  A run of e is what    *)
(* the stack of Simplify becomes, from any stack at the start.              *)
IsRun(S, e, run) ==
    \A n \in 1..Len(e) : run[n] = SimplifyStep(S, run[n - 1], e[n])

Exprs(names)  == Seq(Tokens(names))
Stacks(names) == Seq(Exprs(names))

Push(stack, v) == Append(stack, v)

(* Whatever is below it, a run of e leaves v on the stack, and nothing else. *)
HasValue(names, S, e, v) ==
    \A run : IsRun(S, e, run) /\ run[0] \in Stacks(names) => run[Len(e)] = Push(run[0], v)

(* A run exists: the recursion of Simplify is well founded. *)
LEMMA SimplifyRun ==
    ASSUME NEW S, NEW e, Len(e) \in Nat
    PROVE  \E run : /\ IsRun(S, e, run)
                    /\ run[0] = << >>
                    /\ Simplify(e, S) = run[Len(e)][1]
<1> DEFINE Entry(f, n) == IF n = 0 THEN << >> ELSE SimplifyStep(S, f[n - 1], e[n])
           IsPrefixRun(f, n) == f = [m \in 0..n |-> Entry(f, m)]
           T == {n \in Nat : \E f : IsPrefixRun(f, n)}
<1>1. 0 \in T
  <2>1. IsPrefixRun([m \in 0..0 |-> << >>], 0)
        OBVIOUS
  <2> QED BY <2>1
<1>2. ASSUME NEW n \in Nat, n \in T
      PROVE  n + 1 \in T
  <2>1. PICK f : IsPrefixRun(f, n)
        BY <1>2
  <2> DEFINE g == [m \in 0..(n + 1) |-> IF m <= n THEN f[m] ELSE SimplifyStep(S, f[n], e[n + 1])]
  <2>2. ASSUME NEW m \in 0..(n + 1)
        PROVE  g[m] = Entry(g, m)
    <3>1. CASE m <= n
      <4>1. g[m] = Entry(f, m)
            BY <2>1, <3>1
      <4>2. m # 0 => g[m - 1] = f[m - 1]
            BY <3>1
      <4> QED BY <4>1, <4>2
    <3>2. CASE m = n + 1
      <4>1. g[m] = SimplifyStep(S, f[n], e[n + 1]) /\ g[m - 1] = f[n] /\ m # 0
            BY <3>2
      <4> QED BY <3>2, <4>1
    <3> QED BY <3>1, <3>2
  <2>3. IsPrefixRun(g, n + 1)
        BY <2>2
  <2> HIDE DEF IsPrefixRun, g
  <2> QED BY <2>3
<1>3. PICK f : IsPrefixRun(f, Len(e))
  <2> HIDE DEF IsPrefixRun
  <2>1. Nat \subseteq T
    <3> HIDE DEF T
    <3> QED BY <1>1, <1>2, NaturalsFrom
  <2> QED BY <2>1
<1> DEFINE r == CHOOSE stack : stack = [n \in 0..Len(e) |-> Entry(stack, n)]
<1>4. r = [n \in 0..Len(e) |-> Entry(r, n)]
      BY <1>3
<1>5. Simplify(e, S) = r[Len(e)][1]
      BY DEF Simplify
<1>6. IsRun(S, e, r) /\ r[0] = << >>
  <2> HIDE DEF r
  <2> QED BY <1>4 DEF IsRun
<1> QED BY <1>5, <1>6

(* The value of an expression is what Simplify makes of it. *)
LEMMA ValueIsSimplified ==
    ASSUME NEW names, NEW S, NEW e, Len(e) \in Nat, NEW v, HasValue(names, S, e, v)
    PROVE  Simplify(e, S) = v
<1>1. PICK run : IsRun(S, e, run) /\ run[0] = << >> /\ Simplify(e, S) = run[Len(e)][1]
      BY SimplifyRun
<1>2. run[Len(e)] = Push(<< >>, v)
  <2>1. << >> \in Stacks(names)
        BY EmptySeq DEF Stacks
  <2> QED BY <1>1, <2>1 DEF HasValue
<1>3. Push(<< >>, v)[1] = v
      BY DEF Push
<1> QED BY <1>1, <1>2, <1>3

(* The step of each kind of token. *)
LEMMA ReadStep ==
    ASSUME NEW S, NEW stack, NEW token, token.op = "read"
    PROVE  SimplifyStep(S, stack, token) = Append(stack, IF token.name \in S THEN <<token>> ELSE Zero)
BY Zenon DEF SimplifyStep

LEMMA AddStep ==
    ASSUME NEW S, NEW stack, NEW token, token.op = "add"
    PROVE  LET n == Len(stack)
               a == stack[n - 1]
               b == stack[n]
           IN  SimplifyStep(S, stack, token)
                   = Append(SubSeq(stack, 1, n - 2),
                            IF a = Zero THEN b ELSE IF b = Zero THEN a ELSE a \o b \o <<token>>)
BY Zenon DEF SimplifyStep

LEMMA MulStep ==
    ASSUME NEW S, NEW stack, NEW token, token.op = "mul"
    PROVE  LET n == Len(stack)
               a == stack[n - 1]
               b == stack[n]
           IN  SimplifyStep(S, stack, token)
                   = Append(SubSeq(stack, 1, n - 2),
                            IF a = Zero \/ b = Zero THEN Zero ELSE a \o b \o <<token>>)
BY Zenon DEF SimplifyStep

LEMMA ReadValue ==
    ASSUME NEW names, NEW S, NEW x
    PROVE  HasValue(names, S, <<Read(x)>>, IF x \in S THEN <<Read(x)>> ELSE Zero)
<1> SUFFICES ASSUME NEW run, IsRun(S, <<Read(x)>>, run)
             PROVE  run[1] = Push(run[0], IF x \in S THEN <<Read(x)>> ELSE Zero)
    BY DEF HasValue
<1>1. run[1] = SimplifyStep(S, run[0], Read(x))
      BY DEF IsRun
<1> QED BY <1>1, ReadStep DEF Read, Push

(* The expression of an operator and its operands. *)
Joined(a, b, token) == a \o b \o <<token>>

(* What Simplify makes of an operator and its simplified operands. *)
Combined(token, a, b) ==
    IF token = Add
    THEN IF a = Zero THEN b ELSE IF b = Zero THEN a ELSE Joined(a, b, token)
    ELSE IF a = Zero \/ b = Zero THEN Zero ELSE Joined(a, b, token)

(* The tokens of an operator and its operands. *)
AreJoined(e, a, b, token) ==
    /\ DOMAIN e = 1..Len(e) /\ DOMAIN a = 1..Len(a) /\ DOMAIN b = 1..Len(b)
    /\ Len(a) \in Nat /\ Len(b) \in Nat
    /\ Len(e) = Len(a) + Len(b) + 1
    /\ \A n \in 1..Len(a) : e[n] = a[n]
    /\ \A n \in 1..Len(b) : e[Len(a) + n] = b[n]
    /\ e[Len(a) + Len(b) + 1] = token

LEMMA JoinedTokens ==
    ASSUME NEW names, NEW a \in Exprs(names), NEW b \in Exprs(names), NEW token \in {Add, Mul}
    PROVE  /\ Joined(a, b, token) \in Exprs(names)
           /\ Joined(a, b, token) # Zero
           /\ AreJoined(Joined(a, b, token), a, b, token)
<1> DEFINE Tok == Tokens(names)
<1>1. token \in Tok
      BY DEF Tokens
<1> HIDE DEF Tok
<1>2. a \in Seq(Tok) /\ b \in Seq(Tok)
      BY DEF Exprs, Tok
<1>3. a \o b \in Seq(Tok) /\ Len(a \o b) = Len(a) + Len(b)
      BY <1>2
<1>4. Joined(a, b, token) \in Seq(Tok)
      BY <1>1, <1>3 DEF Joined
<1>5. AreJoined(Joined(a, b, token), a, b, token)
      BY <1>1, <1>2, <1>3 DEF Joined, AreJoined
<1>6. Joined(a, b, token) # << >>
      BY <1>1, <1>3 DEF Joined
<1> QED BY <1>4, <1>5, <1>6 DEF Exprs, Tok, Zero

LEMMA CombinedType ==
    ASSUME NEW names, NEW token \in {Add, Mul},
           NEW a \in Exprs(names), NEW b \in Exprs(names)
    PROVE  Combined(token, a, b) \in Exprs(names)
<1>1. Joined(a, b, token) \in Exprs(names)
      BY JoinedTokens
<1>2. Zero \in Exprs(names)
      BY DEF Exprs, Zero
<1> QED BY <1>1, <1>2 DEF Combined

(* The step of an operator on a stack with two values on its top. *)
LEMMA OperatorStep ==
    ASSUME NEW names, NEW S, NEW token \in {Add, Mul}, NEW stack \in Stacks(names),
           NEW a \in Exprs(names), NEW b \in Exprs(names),
           NEW below, below = Push(stack, a), NEW top, top = Push(below, b)
    PROVE  SimplifyStep(S, top, token) = Push(stack, Combined(token, a, b))
<1> DEFINE E == Exprs(names)
<1>1. /\ top \in Seq(E) /\ Len(top) = Len(stack) + 2 /\ Len(stack) \in Nat
      /\ top[Len(stack) + 1] = a /\ top[Len(stack) + 2] = b
      /\ \A n \in 1..Len(stack) : top[n] = stack[n]
  <2> HIDE DEF E
  <2> QED BY DEF Stacks, E, Push
<1>2. SubSeq(top, 1, Len(top) - 2) = stack
  <2> HIDE DEF E
  <2>1. stack \in Seq(E)
        BY DEF Stacks, E
  <2>2. SubSeq(top, 1, Len(stack)) \in Seq(E) /\ Len(SubSeq(top, 1, Len(stack))) = Len(stack)
        BY <1>1, <2>1
  <2>3. \A n \in 1..Len(stack) : SubSeq(top, 1, Len(stack))[n] = stack[n]
        BY <1>1, <2>1
  <2>4. SubSeq(top, 1, Len(stack)) = stack
        BY <2>1, <2>2, <2>3, SeqEqual
  <2> QED BY <2>4, <1>1
<1>3. top[Len(top) - 1] = a /\ top[Len(top)] = b
      BY <1>1
<1>4. CASE token = Add
  <2>1. token.op = "add"
        BY <1>4 DEF Add
  <2>2. SimplifyStep(S, top, token) = Append(stack, IF a = Zero THEN b ELSE IF b = Zero THEN a ELSE a \o b \o <<token>>)
        BY <1>2, <1>3, <2>1, AddStep
  <2> QED BY <2>2, <1>4 DEF Combined, Joined, Push
<1>5. CASE token = Mul
  <2>1. token.op = "mul"
        BY <1>5 DEF Mul
  <2>2. SimplifyStep(S, top, token) = Append(stack, IF a = Zero \/ b = Zero THEN Zero ELSE a \o b \o <<token>>)
        BY <1>2, <1>3, <2>1, MulStep
  <2> QED BY <2>2, <1>5 DEF Combined, Joined, Add, Mul, Push
<1> QED BY <1>4, <1>5

(* The values of the operands are combined into the value of the operator:  *)
(* the runs of the operands are parts of the run of the whole.              *)
LEMMA OperatorValue ==
    ASSUME NEW names, NEW S, NEW token \in {Add, Mul},
           NEW a \in Exprs(names), NEW b \in Exprs(names),
           NEW v \in Exprs(names), HasValue(names, S, a, v),
           NEW w \in Exprs(names), HasValue(names, S, b, w)
    PROVE  HasValue(names, S, Joined(a, b, token), Combined(token, v, w))
<1> DEFINE e == Joined(a, b, token)
<1>1. /\ Len(e) = Len(a) + Len(b) + 1
      /\ \A n \in 1..Len(a) : e[n] = a[n]
      /\ \A n \in 1..Len(b) : e[Len(a) + n] = b[n]
      /\ e[Len(a) + Len(b) + 1] = token
      /\ Len(a) \in Nat /\ Len(b) \in Nat
  <2>1. AreJoined(e, a, b, token)
        BY JoinedTokens
  <2> HIDE DEF e
  <2> QED BY <2>1 DEF AreJoined
<1> SUFFICES ASSUME NEW run, IsRun(S, e, run), run[0] \in Stacks(names)
             PROVE  run[Len(e)] = Push(run[0], Combined(token, v, w))
    BY DEF HasValue
<1> HIDE DEF e
<1> DEFINE below == run[Len(a)]
           top   == run[Len(a) + Len(b)]
<1>2. below = Push(run[0], v)
  <2>1. \A n \in 1..Len(a) : n \in 1..Len(e)
        BY <1>1
  <2>2. IsRun(S, a, run)
        BY <1>1, <2>1 DEF IsRun
  <2> QED BY <2>2 DEF HasValue
<1>3. below \in Stacks(names)
      BY <1>2 DEF Stacks, Push
<1>4. top = Push(below, w)
  <2> DEFINE after == [n \in 0..Len(b) |-> run[Len(a) + n]]
  <2>1. ASSUME NEW n \in 1..Len(b)
        PROVE  after[n] = SimplifyStep(S, after[n - 1], b[n])
    <3>1. Len(a) + n \in 1..Len(e) /\ (Len(a) + n) - 1 = Len(a) + (n - 1)
          BY <1>1
    <3>2. run[Len(a) + n] = SimplifyStep(S, run[Len(a) + (n - 1)], e[Len(a) + n])
          BY <3>1 DEF IsRun
    <3> QED BY <3>2, <1>1
  <2>2. after[0] = below /\ after[Len(b)] = top
        BY <1>1
  <2>3. IsRun(S, b, after)
    <3> HIDE DEF after
    <3> QED BY <2>1 DEF IsRun
  <2> HIDE DEF after
  <2> QED BY <2>2, <2>3, <1>3 DEF HasValue
<1>5. run[Len(e)] = SimplifyStep(S, top, token)
      BY <1>1 DEF IsRun
<1> HIDE DEF below, top
<1>6. SimplifyStep(S, top, token) = Push(run[0], Combined(token, v, w))
      BY <1>2, <1>4, OperatorStep
<1> QED BY <1>5, <1>6

-----------------------------------------------------------------------------
(* The pairs of two lattices. *)

(* The rows and columns of a list of K * L pairs. *)
LEMMA RowAndColumn ==
    ASSUME NEW K \in Nat \ {0}, NEW L \in Nat \ {0}, NEW n \in 1..(K * L)
    PROVE  LET p == ((n - 1) \div L) + 1
               q == ((n - 1) % L) + 1
           IN  p \in 1..K /\ q \in 1..L /\ n = (p - 1) * L + q
<1> DEFINE m == n - 1
           u == m \div L
           v == m % L
<1>1. m \in Nat /\ m < K * L /\ n = m + 1
      OBVIOUS
<1> HIDE DEF m
<1>2. u \in Nat /\ v \in 0..(L - 1) /\ m = u * L + v
      BY <1>1, DivMod
<1> HIDE DEF u, v
<1>3. u < K
      BY <1>1, <1>2, RowsOrdered
<1>4. u + 1 \in 1..K /\ v + 1 \in 1..L /\ n = ((u + 1) - 1) * L + (v + 1)
  <2>1. u * L \in Nat /\ (u + 1) - 1 = u
        BY <1>2
  <2> QED BY <1>1, <1>2, <1>3, <2>1
<1> QED BY <1>4 DEF u, v, m

LEMMA PositionOfPair ==
    ASSUME NEW K \in Nat \ {0}, NEW L \in Nat \ {0}, NEW p \in 1..K, NEW q \in 1..L
    PROVE  LET n == (p - 1) * L + q
           IN  n \in 1..(K * L) /\ ((n - 1) \div L) + 1 = p /\ ((n - 1) % L) + 1 = q
<1> DEFINE u == p - 1
           v == q - 1
           m == u * L + v
<1>1. u \in Nat /\ v \in 0..(L - 1) /\ u < K /\ p = u + 1 /\ q = v + 1
      OBVIOUS
<1> HIDE DEF u, v
<1>2. m < K * L /\ m \in Nat
      BY <1>1, RowsOrdered
<1>3. m \div L = u /\ m % L = v
      BY <1>1, DivModUnique
<1>4. (p - 1) * L + q = m + 1
      BY <1>1
<1> HIDE DEF m
<1>5. m + 1 \in 1..(K * L) /\ (m + 1) - 1 = m
      BY <1>2
<1> QED BY <1>1, <1>3, <1>4, <1>5

Points(names) == [iterators : Seq(names), expr : Exprs(names)]

(* The position of a pair: that of the first point of a with all those of b *)
(* comes first.                                                             *)
At(b, p, q) == (p - 1) * Len(b) + q

PairCount(a, b) == Len(a) * Len(b)

ArePairs(pairs, a, b, token) ==
    /\ Len(pairs) = PairCount(a, b) /\ Len(pairs) \in Nat /\ DOMAIN pairs = 1..Len(pairs)
    /\ \A n \in DOMAIN pairs :
           \E p \in DOMAIN a, q \in DOMAIN b : n = At(b, p, q) /\ pairs[n] = Merge(a[p], b[q], token)
    /\ \A p \in DOMAIN a, q \in DOMAIN b :
           At(b, p, q) \in DOMAIN pairs /\ pairs[At(b, p, q)] = Merge(a[p], b[q], token)

LEMMA PairsAre ==
    ASSUME NEW names, NEW token, NEW a \in Seq(Points(names)), NEW b \in Seq(Points(names)),
           a # << >>, b # << >>
    PROVE  ArePairs(MergeAll(a, b, token), a, b, token)
<1> DEFINE K == Len(a)
           L == Len(b)
           pairs == MergeAll(a, b, token)
<1>1. K \in Nat \ {0} /\ L \in Nat \ {0} /\ DOMAIN a = 1..K /\ DOMAIN b = 1..L
      OBVIOUS
<1>2. K * L \in Nat
      BY <1>1
<1>3. pairs = [n \in 1..(K * L) |-> Merge(a[((n - 1) \div L) + 1], b[((n - 1) % L) + 1], token)]
      BY DEF MergeAll
<1>4. Len(pairs) = K * L /\ DOMAIN pairs = 1..(K * L)
      BY <1>2, <1>3
<1>5. ASSUME NEW n \in 1..(K * L)
      PROVE  \E p \in 1..K, q \in 1..L : n = At(b, p, q) /\ pairs[n] = Merge(a[p], b[q], token)
  <2> DEFINE p == ((n - 1) \div L) + 1
             q == ((n - 1) % L) + 1
  <2>1. pairs[n] = Merge(a[p], b[q], token)
        BY <1>3
  <2>2. p \in 1..K /\ q \in 1..L /\ n = (p - 1) * L + q
    <3> HIDE DEF K, L
    <3> QED BY <1>1, RowAndColumn
  <2> HIDE DEF p, q, pairs
  <2> QED BY <2>1, <2>2 DEF At
<1>6. ASSUME NEW p \in 1..K, NEW q \in 1..L
      PROVE  At(b, p, q) \in 1..(K * L) /\ pairs[At(b, p, q)] = Merge(a[p], b[q], token)
  <2> DEFINE n == (p - 1) * L + q
  <2>1. n \in 1..(K * L) /\ ((n - 1) \div L) + 1 = p /\ ((n - 1) % L) + 1 = q
    <3> HIDE DEF K, L
    <3> QED BY <1>1, PositionOfPair
  <2>2. At(b, p, q) = n
        BY DEF At
  <2> HIDE DEF n, pairs
  <2> QED BY <1>3, <2>1, <2>2
<1> HIDE DEF pairs
<1>7. Len(pairs) = PairCount(a, b) /\ Len(pairs) \in Nat /\ DOMAIN pairs = 1..Len(pairs)
      BY <1>2, <1>4 DEF PairCount
<1>8. \A n \in DOMAIN pairs :
          \E p \in DOMAIN a, q \in DOMAIN b : n = At(b, p, q) /\ pairs[n] = Merge(a[p], b[q], token)
  <2> HIDE DEF K, L
  <2> QED BY <1>1, <1>4, <1>5
<1>9. \A p \in DOMAIN a, q \in DOMAIN b :
          At(b, p, q) \in DOMAIN pairs /\ pairs[At(b, p, q)] = Merge(a[p], b[q], token)
  <2> HIDE DEF K, L
  <2> QED BY <1>1, <1>4, <1>6
<1> QED BY <1>7, <1>8, <1>9 DEF pairs, ArePairs

-----------------------------------------------------------------------------
(* The merge of two lattices. *)

LEMMA OperandsOfOperator ==
    ASSUME NEW names, NEW a \in Exprs(names), NEW b \in Exprs(names), NEW token \in {Add, Mul}
    PROVE  Operands(Joined(a, b, token)) = Operands(a) \cup Operands(b)
<1> DEFINE e == Joined(a, b, token)
<1>1. /\ Len(e) = Len(a) + Len(b) + 1
      /\ \A n \in 1..Len(a) : e[n] = a[n]
      /\ \A n \in 1..Len(b) : e[Len(a) + n] = b[n]
      /\ e[Len(a) + Len(b) + 1] = token
      /\ DOMAIN e = 1..Len(e) /\ DOMAIN a = 1..Len(a) /\ DOMAIN b = 1..Len(b)
      /\ Len(a) \in Nat /\ Len(b) \in Nat
  <2>1. AreJoined(e, a, b, token)
        BY JoinedTokens
  <2> HIDE DEF e
  <2> QED BY <2>1 DEF AreJoined
<1>2. token.op # "read"
      BY DEF Add, Mul
<1> HIDE DEF e
<1>3. ASSUME NEW n \in DOMAIN e, e[n].op = "read"
      PROVE  e[n].name \in Operands(a) \cup Operands(b)
  <2>1. CASE n \in 1..Len(a)
        BY <2>1, <1>1, <1>3 DEF Operands
  <2>2. CASE n \in (Len(a) + 1)..(Len(a) + Len(b))
    <3>1. n - Len(a) \in 1..Len(b) /\ Len(a) + (n - Len(a)) = n
          BY <1>1, <2>2
    <3> QED BY <3>1, <1>1, <1>3 DEF Operands
  <2> QED BY <1>1, <1>2, <1>3, <2>1, <2>2
<1>4. Operands(a) \subseteq Operands(e)
      BY <1>1 DEF Operands
<1>5. ASSUME NEW n \in DOMAIN b, b[n].op = "read"
      PROVE  b[n].name \in Operands(e)
  <2>1. Len(a) + n \in DOMAIN e /\ e[Len(a) + n] = b[n]
        BY <1>1
  <2> QED BY <2>1, <1>5 DEF Operands
<1> QED BY <1>3, <1>4, <1>5 DEF Operands, e

(* A point that an iterator enters once, and that reads what it iterates    *)
(* over.                                                                    *)
GoodPoint(names, p) ==
    /\ p \in Points(names)
    /\ \A m, n \in DOMAIN p.iterators : p.iterators[m] = p.iterators[n] => m = n
    /\ Its(p) # {}
    /\ Operands(p.expr) = Its(p)
    /\ p.expr # Zero

LEMMA MergedPoint ==
    ASSUME NEW names, NEW token \in {Add, Mul},
           NEW p, GoodPoint(names, p), NEW q, GoodPoint(names, q), Its(p) \cap Its(q) = {}
    PROVE  /\ GoodPoint(names, Merge(p, q, token))
           /\ Its(Merge(p, q, token)) = Its(p) \cup Its(q)
           /\ Merge(p, q, token).expr = Joined(p.expr, q.expr, token)
<1> DEFINE s == p.iterators
           t == q.iterators
           its == s \o t
           e == Joined(p.expr, q.expr, token)
<1>1. s \in Seq(names) /\ t \in Seq(names) /\ p.expr \in Exprs(names) /\ q.expr \in Exprs(names)
      BY DEF GoodPoint, Points
<1>2. /\ its \in Seq(names) /\ DOMAIN its = 1..(Len(s) + Len(t)) /\ DOMAIN s = 1..Len(s) /\ DOMAIN t = 1..Len(t)
      /\ \A n \in DOMAIN s : its[n] = s[n]
      /\ \A n \in DOMAIN t : its[Len(s) + n] = t[n]
      /\ Len(s) \in Nat /\ Len(t) \in Nat
  <2> HIDE DEF s, t
  <2> QED BY <1>1
<1>3. \A n \in DOMAIN its :
          \/ n \in DOMAIN s /\ its[n] = s[n]
          \/ n - Len(s) \in DOMAIN t /\ its[n] = t[n - Len(s)]
  <2> SUFFICES ASSUME NEW n \in DOMAIN its, n \notin DOMAIN s
               PROVE  n - Len(s) \in DOMAIN t /\ its[n] = t[n - Len(s)]
      BY <1>2
  <2>1. n - Len(s) \in DOMAIN t /\ n = Len(s) + (n - Len(s))
    <3> HIDE DEF its, s, t
    <3> QED BY <1>2
  <2> QED BY <2>1, <1>2
<1>4. /\ Its(p) = {s[n] : n \in DOMAIN s}
      /\ Its(q) = {t[n] : n \in DOMAIN t}
      BY DEF Its
<1>5. Merge(p, q, token) = [iterators |-> its, expr |-> e]
      BY DEF Merge, Point, Joined
<1>6. Its(Merge(p, q, token)) = {its[n] : n \in DOMAIN its}
  <2> HIDE DEF its, e
  <2> QED BY <1>5 DEF Its
<1>7. {its[n] : n \in DOMAIN its} = Its(p) \cup Its(q)
  <2> HIDE DEF its, s, t
  <2>1. \A n \in DOMAIN its : its[n] \in Its(p) \cup Its(q)
        BY <1>3, <1>4
  <2>2. \A n \in DOMAIN s : s[n] \in {its[m] : m \in DOMAIN its}
        BY <1>2
  <2>3. \A n \in DOMAIN t : t[n] \in {its[m] : m \in DOMAIN its}
    <3> TAKE n \in DOMAIN t
    <3>1. Len(s) + n \in DOMAIN its
          BY <1>2
    <3> QED BY <1>2, <3>1
  <2> QED BY <2>1, <2>2, <2>3, <1>4
<1>8. ASSUME NEW m \in DOMAIN its, NEW n \in DOMAIN its, its[m] = its[n]
      PROVE  m = n
  <2>1. \A k \in DOMAIN s, l \in DOMAIN t : s[k] # t[l]
        BY <1>4
  <2>2. \A k, l \in DOMAIN s : s[k] = s[l] => k = l
        BY DEF GoodPoint
  <2>3. \A k, l \in DOMAIN t : t[k] = t[l] => k = l
        BY DEF GoodPoint
  <2>4. m \in Int /\ n \in Int
        BY <1>2
  <2> HIDE DEF its, s, t
  <2>5. CASE m \in DOMAIN s /\ its[m] = s[m]
        BY <2>5, <1>3, <1>8, <2>1, <2>2
  <2>6. CASE m - Len(s) \in DOMAIN t /\ its[m] = t[m - Len(s)]
    <3>1. n - Len(s) \in DOMAIN t /\ its[n] = t[n - Len(s)]
          BY <2>6, <1>3, <1>8, <2>1
    <3>2. m - Len(s) = n - Len(s)
          BY <2>6, <3>1, <1>8, <2>3
    <3> QED BY <3>2, <2>4, <1>2
  <2> QED BY <2>5, <2>6, <1>3
<1>9. e \in Exprs(names) /\ e # Zero
      BY <1>1, JoinedTokens
<1>10. Operands(e) = Its(p) \cup Its(q)
  <2>1. Operands(e) = Operands(p.expr) \cup Operands(q.expr)
        BY <1>1, OperandsOfOperator
  <2> QED BY <2>1 DEF GoodPoint
<1>11. Its(p) # {}
      BY DEF GoodPoint
<1> HIDE DEF its, e
<1>12. Merge(p, q, token) \in Points(names)
      BY <1>2, <1>5, <1>9 DEF Points
<1>13. Merge(p, q, token).iterators = its /\ Merge(p, q, token).expr = e
      BY <1>5
<1>14. GoodPoint(names, Merge(p, q, token))
      BY <1>6, <1>7, <1>8, <1>9, <1>10, <1>11, <1>12, <1>13 DEF GoodPoint
<1> QED BY <1>6, <1>7, <1>13, <1>14 DEF e

(* What a lattice has to satisfy to be right for e, with names for all the  *)
(* arrays there are.                                                        *)
CompleteWithin(names, points, e) ==
    \A S \in SUBSET names :
        /\ \A j \in DOMAIN points :
              LargestWithin(points, S, j) => Simplify(e, S) = points[j].expr
        /\ (\A j \in DOMAIN points : ~(Its(points[j]) \subseteq S)) => Simplify(e, S) = Zero

LatticeFor(names, points, e) ==
    /\ points \in Seq(Points(names)) /\ points # << >>
    /\ \A j \in DOMAIN points : GoodPoint(names, points[j])
    /\ JoinClosed(points)
    /\ DominatingFirst(points)
    /\ StartsWithAll(points, e)
    /\ CompleteWithin(names, points, e)

Disjoint(a, b) == \A p \in DOMAIN a, q \in DOMAIN b : Its(a[p]) \cap Its(b[q]) = {}

(* The points of a merge of a and b: the pairs, and in a union the points   *)
(* of a and of b alone.                                                     *)
Pair(m, n, a, b, token, p, q) == n = At(b, p, q) /\ m[n] = Merge(a[p], b[q], token)
LeftPoint(m, n, a, b, p)      == n = PairCount(a, b) + p /\ m[n] = a[p]
RightPoint(m, n, a, b, q)     == n = PairCount(a, b) + Len(a) + q /\ m[n] = b[q]

IsMerge(m, a, b, token, alone) ==
    /\ \A n \in DOMAIN m :
          \/ \E p \in DOMAIN a, q \in DOMAIN b : Pair(m, n, a, b, token, p, q)
          \/ alone /\ \E p \in DOMAIN a : LeftPoint(m, n, a, b, p)
          \/ alone /\ \E q \in DOMAIN b : RightPoint(m, n, a, b, q)
    /\ \A p \in DOMAIN a, q \in DOMAIN b : \E n \in DOMAIN m : Pair(m, n, a, b, token, p, q)
    /\ alone => \A p \in DOMAIN a : \E n \in DOMAIN m : LeftPoint(m, n, a, b, p)
    /\ alone => \A q \in DOMAIN b : \E n \in DOMAIN m : RightPoint(m, n, a, b, q)

(* The sets of arrays of the points of a merge. *)
SetsOf(points) == {Its(points[j]) : j \in DOMAIN points}

LEMMA JoinClosedSets ==
    ASSUME NEW points
    PROVE  JoinClosed(points) <=> \A X, Y \in SetsOf(points) : X \cup Y \in SetsOf(points)
<1>1. \A X : X \in SetsOf(points) <=> \E j \in DOMAIN points : X = Its(points[j])
      BY DEF SetsOf
<1>2. ASSUME JoinClosed(points), NEW X \in SetsOf(points), NEW Y \in SetsOf(points)
      PROVE  X \cup Y \in SetsOf(points)
  <2>1. PICK j \in DOMAIN points, k \in DOMAIN points : X = Its(points[j]) /\ Y = Its(points[k])
        BY <1>1
  <2> QED BY <1>1, <1>2, <2>1 DEF JoinClosed
<1>3. ASSUME \A X, Y \in SetsOf(points) : X \cup Y \in SetsOf(points)
      PROVE  JoinClosed(points)
  <2>1. ASSUME NEW j \in DOMAIN points, NEW k \in DOMAIN points
        PROVE  \E m \in DOMAIN points : Its(points[m]) = Its(points[j]) \cup Its(points[k])
    <3>1. Its(points[j]) \cup Its(points[k]) \in SetsOf(points)
          BY <1>1, <1>3
    <3> QED BY <1>1, <3>1
  <2> QED BY <2>1 DEF JoinClosed
<1> QED BY <1>2, <1>3

SetsOfMerge(a, b, alone) ==
    {X \cup Y : X \in SetsOf(a), Y \in SetsOf(b)} \cup (IF alone THEN SetsOf(a) \cup SetsOf(b) ELSE {})

(* A pair iterates over the arrays of both its points, and joins their      *)
(* expressions.                                                             *)
PairsJoin(a, b, token) ==
    \A p \in DOMAIN a, q \in DOMAIN b :
        /\ Its(Merge(a[p], b[q], token)) = Its(a[p]) \cup Its(b[q])
        /\ Merge(a[p], b[q], token).expr = Joined(a[p].expr, b[q].expr, token)

(* All the points of a merge are good. *)
LEMMA MergePoints ==
    ASSUME NEW names, NEW token \in {Add, Mul}, NEW a, NEW b, NEW m, NEW alone \in BOOLEAN,
           \A p \in DOMAIN a : GoodPoint(names, a[p]),
           \A q \in DOMAIN b : GoodPoint(names, b[q]),
           Disjoint(a, b),
           IsMerge(m, a, b, token, alone)
    PROVE  /\ \A n \in DOMAIN m : GoodPoint(names, m[n])
           /\ PairsJoin(a, b, token)
           /\ SetsOf(m) = SetsOfMerge(a, b, alone)
<1>1. \A p \in DOMAIN a, q \in DOMAIN b :
          /\ GoodPoint(names, Merge(a[p], b[q], token))
          /\ Its(Merge(a[p], b[q], token)) = Its(a[p]) \cup Its(b[q])
          /\ Merge(a[p], b[q], token).expr = Joined(a[p].expr, b[q].expr, token)
  <2> TAKE p \in DOMAIN a, q \in DOMAIN b
  <2> DEFINE x == a[p]
             y == b[q]
  <2>1. GoodPoint(names, x) /\ GoodPoint(names, y) /\ Its(x) \cap Its(y) = {}
        BY DEF Disjoint
  <2> HIDE DEF x, y
  <2>2. /\ GoodPoint(names, Merge(x, y, token))
        /\ Its(Merge(x, y, token)) = Its(x) \cup Its(y)
        /\ Merge(x, y, token).expr = Joined(x.expr, y.expr, token)
        BY ONLY <2>1, token \in {Add, Mul}, MergedPoint
  <2> QED BY <2>2 DEF x, y
<1>2. \A n \in DOMAIN m : GoodPoint(names, m[n])
      BY <1>1 DEF IsMerge, Pair, LeftPoint, RightPoint
<1> DEFINE R == SetsOfMerge(a, b, alone)
<1>3. ASSUME NEW n \in DOMAIN m
      PROVE  Its(m[n]) \in R
  <2>1. CASE \E p \in DOMAIN a, q \in DOMAIN b : Pair(m, n, a, b, token, p, q)
        BY <2>1, <1>1 DEF Pair, SetsOf, SetsOfMerge
  <2>2. CASE alone /\ \E p \in DOMAIN a : LeftPoint(m, n, a, b, p)
        BY <2>2 DEF LeftPoint, SetsOf, SetsOfMerge
  <2>3. CASE alone /\ \E q \in DOMAIN b : RightPoint(m, n, a, b, q)
        BY <2>3 DEF RightPoint, SetsOf, SetsOfMerge
  <2> QED BY <2>1, <2>2, <2>3 DEF IsMerge
<1>4. ASSUME NEW p \in DOMAIN a, NEW q \in DOMAIN b
      PROVE  Its(a[p]) \cup Its(b[q]) \in SetsOf(m)
  <2>1. PICK n \in DOMAIN m : Pair(m, n, a, b, token, p, q)
        BY DEF IsMerge
  <2>2. Its(m[n]) = Its(a[p]) \cup Its(b[q])
        BY <1>1, <2>1 DEF Pair
  <2> QED BY <2>2 DEF SetsOf
<1>5. ASSUME alone
      PROVE  SetsOf(a) \subseteq SetsOf(m) /\ SetsOf(b) \subseteq SetsOf(m)
      BY <1>5 DEF IsMerge, LeftPoint, RightPoint, SetsOf
<1>6. SetsOf(m) \subseteq R
  <2> HIDE DEF R
  <2> QED BY <1>3 DEF SetsOf
<1>7. R \subseteq SetsOf(m)
  <2>1. \A X \in SetsOf(a), Y \in SetsOf(b) : X \cup Y \in SetsOf(m)
        BY <1>4 DEF SetsOf
  <2> QED BY <2>1, <1>5 DEF SetsOfMerge
<1> QED BY <1>1, <1>2, <1>6, <1>7 DEF PairsJoin

LEMMA MergeJoinClosed ==
    ASSUME NEW a, NEW b, NEW m, NEW alone \in BOOLEAN,
           JoinClosed(a), JoinClosed(b), SetsOf(m) = SetsOfMerge(a, b, alone)
    PROVE  JoinClosed(m)
<1> USE DEF SetsOfMerge
<1>1. SUFFICES ASSUME NEW X \in SetsOf(m), NEW Y \in SetsOf(m)
               PROVE  X \cup Y \in SetsOf(m)
      BY JoinClosedSets
<1>2. /\ \A A, B \in SetsOf(a) : A \cup B \in SetsOf(a)
      /\ \A A, B \in SetsOf(b) : A \cup B \in SetsOf(b)
      BY JoinClosedSets
<1>3. ASSUME NEW A \in SetsOf(a), NEW B \in SetsOf(b)
      PROVE  A \cup B \in SetsOf(m)
      OBVIOUS
<1>4. CASE \E A \in SetsOf(a), B \in SetsOf(b) : X = A \cup B
  <2>1. PICK A \in SetsOf(a), B \in SetsOf(b) : X = A \cup B
        BY <1>4
  <2>2. CASE \E C \in SetsOf(a), D \in SetsOf(b) : Y = C \cup D
    <3>1. PICK C \in SetsOf(a), D \in SetsOf(b) : Y = C \cup D
          BY <2>2
    <3>2. X \cup Y = (A \cup C) \cup (B \cup D)
          BY <2>1, <3>1
    <3> QED BY <3>2, <1>2, <1>3
  <2>3. CASE Y \in SetsOf(a)
    <3>1. X \cup Y = (A \cup Y) \cup B
          BY <2>1
    <3> QED BY <3>1, <2>3, <1>2, <1>3
  <2>4. CASE Y \in SetsOf(b)
    <3>1. X \cup Y = A \cup (B \cup Y)
          BY <2>1
    <3> QED BY <3>1, <2>4, <1>2, <1>3
  <2> QED BY <2>2, <2>3, <2>4
<1>5. CASE alone /\ X \in SetsOf(a)
  <2>1. CASE \E C \in SetsOf(a), D \in SetsOf(b) : Y = C \cup D
    <3>1. PICK C \in SetsOf(a), D \in SetsOf(b) : Y = C \cup D
          BY <2>1
    <3>2. X \cup Y = (X \cup C) \cup D
          BY <3>1
    <3> QED BY <3>2, <1>5, <1>2, <1>3
  <2>2. CASE Y \in SetsOf(a)
        BY <1>5, <2>2, <1>2
  <2>3. CASE Y \in SetsOf(b)
        BY <1>5, <2>3, <1>3
  <2> QED BY <2>1, <2>2, <2>3
<1>6. CASE alone /\ X \in SetsOf(b)
  <2>1. CASE \E C \in SetsOf(a), D \in SetsOf(b) : Y = C \cup D
    <3>1. PICK C \in SetsOf(a), D \in SetsOf(b) : Y = C \cup D
          BY <2>1
    <3>2. X \cup Y = C \cup (X \cup D)
          BY <3>1
    <3> QED BY <3>2, <1>6, <1>2, <1>3
  <2>2. CASE Y \in SetsOf(a)
    <3>1. X \cup Y = Y \cup X
          OBVIOUS
    <3> QED BY <1>6, <2>2, <1>3, <3>1
  <2>3. CASE Y \in SetsOf(b)
        BY <1>6, <2>3, <1>2
  <2> QED BY <2>1, <2>2, <2>3
<1> QED BY <1>4, <1>5, <1>6
(* The pairs come in rows, before the points of a alone. *)
LEMMA PairsOrdered ==
    ASSUME NEW K \in Nat \ {0}, NEW L \in Nat \ {0}, NEW b, Len(b) = L,
           NEW p \in 1..K, NEW q \in 1..L
    PROVE  /\ At(b, p, q) \in 1..(K * L)
           /\ \A r \in 1..K, s \in 1..L : r <= p /\ s <= q => At(b, r, s) <= At(b, p, q)
<1>1. At(b, p, q) \in 1..(K * L)
      BY PositionOfPair DEF At
<1>2. ASSUME NEW r \in 1..K, NEW s \in 1..L, r <= p, s <= q
      PROVE  (r - 1) * L + s <= (p - 1) * L + q
  <2>1. PICK d \in Nat : p = r + d
        BY <1>2
  <2>2. (p - 1) * L = (r - 1) * L + d * L /\ d * L >= 0 /\ (r - 1) * L \in Int /\ d * L \in Int
        BY <2>1
  <2> QED BY <1>2, <2>2
<1> QED BY <1>1, <1>2 DEF At

LEMMA MergeDominatingFirst ==
    ASSUME NEW token, NEW a, NEW b, NEW m, NEW alone \in BOOLEAN,
           Len(a) \in Nat \ {0}, DOMAIN a = 1..Len(a), Len(b) \in Nat \ {0}, DOMAIN b = 1..Len(b),
           \A p \in DOMAIN a : Its(a[p]) # {},
           \A q \in DOMAIN b : Its(b[q]) # {},
           Disjoint(a, b),
           PairsJoin(a, b, token),
           IsMerge(m, a, b, token, alone),
           DominatingFirst(a), DominatingFirst(b)
    PROVE  DominatingFirst(m)
<1> SUFFICES ASSUME NEW j \in DOMAIN m, NEW k \in DOMAIN m, Its(m[j]) \subseteq Its(m[k])
             PROVE  k <= j
    BY DEF DominatingFirst
<1> DEFINE C == PairCount(a, b)
<1>1. C \in Nat /\ \A p \in DOMAIN a, q \in DOMAIN b : At(b, p, q) \in 1..C
      BY PairsOrdered DEF PairCount
<1>2. ASSUME NEW p \in DOMAIN a, NEW q \in DOMAIN b, Its(a[p]) \subseteq Its(b[q]) \/ Its(b[q]) \subseteq Its(a[p])
      PROVE  FALSE
      BY <1>2 DEF Disjoint
<1> DEFINE IsPair(n)  == \E p \in DOMAIN a, q \in DOMAIN b : n = At(b, p, q) /\ Its(m[n]) = Its(a[p]) \cup Its(b[q])
           IsLeft(n)  == \E p \in DOMAIN a : n = C + p /\ Its(m[n]) = Its(a[p])
           IsRight(n) == \E q \in DOMAIN b : n = C + Len(a) + q /\ Its(m[n]) = Its(b[q])
<1>3. ASSUME NEW n \in DOMAIN m
      PROVE  IsPair(n) \/ IsLeft(n) \/ IsRight(n)
  <2>1. CASE \E p \in DOMAIN a, q \in DOMAIN b : Pair(m, n, a, b, token, p, q)
        BY <2>1 DEF Pair, PairsJoin
  <2>2. CASE \E p \in DOMAIN a : LeftPoint(m, n, a, b, p)
        BY <2>2 DEF LeftPoint
  <2>3. CASE \E q \in DOMAIN b : RightPoint(m, n, a, b, q)
        BY <2>3 DEF RightPoint
  <2> QED BY <2>1, <2>2, <2>3 DEF IsMerge
<1> HIDE DEF C
<1>4. CASE IsPair(j)
  <2>1. PICK p \in DOMAIN a, q \in DOMAIN b : j = At(b, p, q) /\ Its(m[j]) = Its(a[p]) \cup Its(b[q])
        BY <1>4
  <2>2. CASE IsPair(k)
    <3>1. PICK r \in DOMAIN a, s \in DOMAIN b : k = At(b, r, s) /\ Its(m[k]) = Its(a[r]) \cup Its(b[s])
          BY <2>2
    <3>2. Its(a[p]) \subseteq Its(a[r]) /\ Its(b[q]) \subseteq Its(b[s])
          BY <2>1, <3>1 DEF Disjoint
    <3>3. r <= p /\ s <= q
          BY <3>2 DEF DominatingFirst
    <3> QED BY <2>1, <3>1, <3>3, PairsOrdered
  <2>3. CASE IsLeft(k)
        BY <2>1, <2>3, <1>2
  <2>4. CASE IsRight(k)
        BY <2>1, <2>4, <1>2
  <2> QED BY <2>2, <2>3, <2>4, <1>3
<1>5. CASE IsLeft(j)
  <2>1. PICK p \in DOMAIN a : j = C + p /\ Its(m[j]) = Its(a[p])
        BY <1>5
  <2>2. CASE IsPair(k)
        BY <2>1, <2>2, <1>1
  <2>3. CASE IsLeft(k)
    <3>1. PICK r \in DOMAIN a : k = C + r /\ Its(m[k]) = Its(a[r])
          BY <2>3
    <3>2. r <= p
          BY <2>1, <3>1 DEF DominatingFirst
    <3> QED BY <2>1, <3>1, <3>2, <1>1
  <2>4. CASE IsRight(k)
        BY <2>1, <2>4, <1>2
  <2> QED BY <2>2, <2>3, <2>4, <1>3
<1>6. CASE IsRight(j)
  <2>1. PICK q \in DOMAIN b : j = C + Len(a) + q /\ Its(m[j]) = Its(b[q])
        BY <1>6
  <2>2. CASE IsPair(k)
        BY <2>1, <2>2, <1>1
  <2>3. CASE IsLeft(k)
        BY <2>1, <2>3, <1>1
  <2>4. CASE IsRight(k)
    <3>1. PICK s \in DOMAIN b : k = C + Len(a) + s /\ Its(m[k]) = Its(b[s])
          BY <2>4
    <3>2. s <= q
          BY <2>1, <3>1 DEF DominatingFirst
    <3> QED BY <2>1, <3>1, <3>2, <1>1
  <2> QED BY <2>2, <2>3, <2>4, <1>3
<1> QED BY <1>3, <1>4, <1>5, <1>6
(* The expressions that have a value, whichever arrays are present. *)
Valued(names, e) ==
    /\ e \in Exprs(names)
    /\ \A S : Simplify(e, S) \in Exprs(names) /\ HasValue(names, S, e, Simplify(e, S))

LEMMA OperatorSimplified ==
    ASSUME NEW names, NEW token \in {Add, Mul},
           NEW a, Valued(names, a), NEW b, Valued(names, b)
    PROVE  /\ Valued(names, Joined(a, b, token))
           /\ \A S : Simplify(Joined(a, b, token), S) = Combined(token, Simplify(a, S), Simplify(b, S))
<1> DEFINE e == Joined(a, b, token)
<1>1. a \in Exprs(names) /\ b \in Exprs(names)
      BY DEF Valued
<1>2. e \in Exprs(names)
      BY <1>1, JoinedTokens
<1>3. Len(e) \in Nat
      BY <1>2 DEF Exprs
<1> HIDE DEF e
<1>4. ASSUME NEW S
      PROVE  /\ Simplify(e, S) = Combined(token, Simplify(a, S), Simplify(b, S))
             /\ Simplify(e, S) \in Exprs(names)
             /\ HasValue(names, S, e, Simplify(e, S))
  <2> DEFINE v == Simplify(a, S)
             w == Simplify(b, S)
             u == Combined(token, v, w)
  <2>1. v \in Exprs(names) /\ w \in Exprs(names) /\ HasValue(names, S, a, v) /\ HasValue(names, S, b, w)
        BY DEF Valued
  <2> HIDE DEF v, w
  <2>2. u \in Exprs(names)
        BY <2>1, CombinedType
  <2>3. HasValue(names, S, e, u)
        BY <1>1, <2>1, OperatorValue DEF e
  <2> HIDE DEF u
  <2>4. Simplify(e, S) = u
        BY <1>3, <2>3, ValueIsSimplified
  <2> QED BY <2>2, <2>3, <2>4 DEF u, v, w
<1> QED BY <1>2, <1>4 DEF Valued, e

LEMMA ReadSimplified ==
    ASSUME NEW names, NEW x \in names
    PROVE  /\ Valued(names, <<Read(x)>>)
           /\ \A S : Simplify(<<Read(x)>>, S) = IF x \in S THEN <<Read(x)>> ELSE Zero
<1> DEFINE e == <<Read(x)>>
<1>1. e \in Exprs(names) /\ Zero \in Exprs(names)
      BY DEF Exprs, Tokens, Zero
<1>2. Len(e) \in Nat
      OBVIOUS
<1>3. ASSUME NEW S
      PROVE  /\ Simplify(e, S) = IF x \in S THEN e ELSE Zero
             /\ HasValue(names, S, e, Simplify(e, S))
  <2> DEFINE v == IF x \in S THEN e ELSE Zero
  <2>1. HasValue(names, S, e, v)
        BY ReadValue
  <2> HIDE DEF e, v
  <2>2. Simplify(e, S) = v
        BY <1>2, <2>1, ValueIsSimplified
  <2> QED BY <2>1, <2>2 DEF v
<1> HIDE DEF e
<1>4. Valued(names, e)
      BY <1>1, <1>3 DEF Valued
<1> QED BY <1>3, <1>4 DEF e

(* Removing the zeros from an operator and its operands. *)
LEMMA MergeComplete ==
    ASSUME NEW names, NEW token \in {Add, Mul}, NEW ea, NEW eb, NEW e,
           \A S : Simplify(e, S) = Combined(token, Simplify(ea, S), Simplify(eb, S)),
           NEW a, NEW b, NEW m, NEW alone \in BOOLEAN, alone <=> token = Add,
           \A p \in DOMAIN a : GoodPoint(names, a[p]),
           \A q \in DOMAIN b : GoodPoint(names, b[q]),
           Disjoint(a, b),
           PairsJoin(a, b, token),
           IsMerge(m, a, b, token, alone),
           CompleteWithin(names, a, ea), CompleteWithin(names, b, eb)
    PROVE  CompleteWithin(names, m, e)
<1> SUFFICES ASSUME NEW S \in SUBSET names
             PROVE  /\ \A j \in DOMAIN m : LargestWithin(m, S, j) => Simplify(e, S) = m[j].expr
                    /\ (\A j \in DOMAIN m : ~(Its(m[j]) \subseteq S)) => Simplify(e, S) = Zero
    BY DEF CompleteWithin
<1> DEFINE v == Simplify(ea, S)
           w == Simplify(eb, S)
<1>1. Simplify(e, S) = Combined(token, v, w)
      OBVIOUS
<1>2. /\ \A p \in DOMAIN a : LargestWithin(a, S, p) => v = a[p].expr
      /\ (\A p \in DOMAIN a : ~(Its(a[p]) \subseteq S)) => v = Zero
      BY DEF CompleteWithin
<1>3. /\ \A q \in DOMAIN b : LargestWithin(b, S, q) => w = b[q].expr
      /\ (\A q \in DOMAIN b : ~(Its(b[q]) \subseteq S)) => w = Zero
      BY DEF CompleteWithin
<1> HIDE DEF v, w
<1>4. /\ \A p \in DOMAIN a : a[p].expr # Zero /\ Its(a[p]) # {}
      /\ \A q \in DOMAIN b : b[q].expr # Zero /\ Its(b[q]) # {}
      BY DEF GoodPoint
<1>5. ASSUME NEW p \in DOMAIN a, NEW q \in DOMAIN b, Its(b[q]) \subseteq Its(a[p]) \/ Its(a[p]) \subseteq Its(b[q])
      PROVE  FALSE
      BY <1>4, <1>5 DEF Disjoint
<1>6. \A p \in DOMAIN a, q \in DOMAIN b : \E n \in DOMAIN m : Its(m[n]) = Its(a[p]) \cup Its(b[q])
  <2> TAKE p \in DOMAIN a, q \in DOMAIN b
  <2>1. PICK n \in DOMAIN m : Pair(m, n, a, b, token, p, q)
        BY DEF IsMerge
  <2> QED BY <2>1 DEF Pair, PairsJoin
<1>7. alone => \A p \in DOMAIN a : \E n \in DOMAIN m : Its(m[n]) = Its(a[p])
      BY DEF IsMerge, LeftPoint
<1>8. alone => \A q \in DOMAIN b : \E n \in DOMAIN m : Its(m[n]) = Its(b[q])
      BY DEF IsMerge, RightPoint
<1>9. ASSUME NEW j \in DOMAIN m, LargestWithin(m, S, j)
      PROVE  Combined(token, v, w) = m[j].expr
  <2>1. Its(m[j]) \subseteq S /\ \A k \in DOMAIN m : Its(m[k]) \subseteq S => Its(m[k]) \subseteq Its(m[j])
        BY <1>9 DEF LargestWithin
  <2>2. CASE \E p \in DOMAIN a, q \in DOMAIN b : Pair(m, j, a, b, token, p, q)
    <3>1. PICK p \in DOMAIN a, q \in DOMAIN b : Pair(m, j, a, b, token, p, q)
          BY <2>2
    <3>2. Its(m[j]) = Its(a[p]) \cup Its(b[q]) /\ m[j].expr = Joined(a[p].expr, b[q].expr, token)
          BY <3>1 DEF Pair, PairsJoin
    <3>3. ASSUME NEW r \in DOMAIN a, Its(a[r]) \subseteq S
          PROVE  Its(a[r]) \subseteq Its(a[p])
      <4>1. Its(a[r]) \cup Its(b[q]) \subseteq Its(m[j])
            BY <1>6, <2>1, <3>2, <3>3
      <4> QED BY <3>2, <4>1 DEF Disjoint
    <3>4. ASSUME NEW r \in DOMAIN b, Its(b[r]) \subseteq S
          PROVE  Its(b[r]) \subseteq Its(b[q])
      <4>1. Its(a[p]) \cup Its(b[r]) \subseteq Its(m[j])
            BY <1>6, <2>1, <3>2, <3>4
      <4> QED BY <3>2, <4>1 DEF Disjoint
    <3>5. v = a[p].expr /\ w = b[q].expr
          BY <1>2, <1>3, <2>1, <3>2, <3>3, <3>4 DEF LargestWithin
    <3> QED BY <1>4, <3>2, <3>5 DEF Combined
  <2>3. CASE alone /\ \E p \in DOMAIN a : LeftPoint(m, j, a, b, p)
    <3>1. PICK p \in DOMAIN a : LeftPoint(m, j, a, b, p)
          BY <2>3
    <3>2. m[j] = a[p]
          BY <3>1 DEF LeftPoint
    <3>3. \A q \in DOMAIN b : ~(Its(b[q]) \subseteq S)
      <4> SUFFICES ASSUME NEW q \in DOMAIN b, Its(b[q]) \subseteq S
                   PROVE  FALSE
          OBVIOUS
      <4>1. Its(a[p]) \cup Its(b[q]) \subseteq Its(a[p])
            BY <1>6, <2>1, <3>2
      <4> QED BY <1>5, <4>1
    <3>4. LargestWithin(a, S, p)
          BY <1>7, <2>1, <2>3, <3>2 DEF LargestWithin
    <3>5. v = a[p].expr /\ w = Zero
          BY <1>2, <1>3, <3>3, <3>4
    <3> QED BY <1>4, <2>3, <3>2, <3>5 DEF Combined
  <2>4. CASE alone /\ \E q \in DOMAIN b : RightPoint(m, j, a, b, q)
    <3>1. PICK q \in DOMAIN b : RightPoint(m, j, a, b, q)
          BY <2>4
    <3>2. m[j] = b[q]
          BY <3>1 DEF RightPoint
    <3>3. \A p \in DOMAIN a : ~(Its(a[p]) \subseteq S)
      <4> SUFFICES ASSUME NEW p \in DOMAIN a, Its(a[p]) \subseteq S
                   PROVE  FALSE
          OBVIOUS
      <4>1. Its(a[p]) \cup Its(b[q]) \subseteq Its(b[q])
            BY <1>6, <2>1, <3>2
      <4> QED BY <1>5, <4>1
    <3>4. LargestWithin(b, S, q)
          BY <1>8, <2>1, <2>4, <3>2 DEF LargestWithin
    <3>5. v = Zero /\ w = b[q].expr
          BY <1>2, <1>3, <3>3, <3>4
    <3> QED BY <1>4, <2>4, <3>2, <3>5 DEF Combined
  <2> QED BY <2>2, <2>3, <2>4 DEF IsMerge
<1>10. ASSUME \A j \in DOMAIN m : ~(Its(m[j]) \subseteq S)
       PROVE  Combined(token, v, w) = Zero
  <2>1. \A p \in DOMAIN a, q \in DOMAIN b : ~(Its(a[p]) \subseteq S /\ Its(b[q]) \subseteq S)
    <3> SUFFICES ASSUME NEW p \in DOMAIN a, NEW q \in DOMAIN b, Its(a[p]) \subseteq S, Its(b[q]) \subseteq S
                 PROVE  FALSE
        OBVIOUS
    <3>1. PICK n \in DOMAIN m : Its(m[n]) = Its(a[p]) \cup Its(b[q])
          BY <1>6
    <3> QED BY <3>1, <1>10
  <2>2. v = Zero \/ w = Zero
        BY <1>2, <1>3, <2>1
  <2>3. CASE alone
    <3>1. v = Zero /\ w = Zero
          BY <1>2, <1>3, <1>7, <1>8, <1>10, <2>3
    <3> QED BY <3>1, <2>3 DEF Combined
  <2>4. CASE ~alone
        BY <2>2, <2>4 DEF Combined
  <2> QED BY <2>3, <2>4
<1> QED BY <1>1, <1>9, <1>10
IsList(m) == \E P : m \in Seq(P)

AreConcatenated(c, x, y) ==
    /\ Len(c) = Len(x) + Len(y)
    /\ \A n \in 1..Len(x) : c[n] = x[n]
    /\ \A n \in 1..Len(y) : c[Len(x) + n] = y[n]

LEMMA Concatenated ==
    ASSUME NEW P, NEW x \in Seq(P), NEW y \in Seq(P), NEW c, c = x \o y
    PROVE  c \in Seq(P) /\ AreConcatenated(c, x, y)
BY DEF AreConcatenated

(* What the two loops of the code put into a lattice. *)
LEMMA UnionIsMerge ==
    ASSUME NEW names, NEW a \in Seq(Points(names)), NEW b \in Seq(Points(names)), a # << >>, b # << >>
    PROVE  LET m == MergeUnion(a, b) IN
           IsMerge(m, a, b, Add, TRUE) /\ IsList(m)
<1> DEFINE pairs == MergeAll(a, b, Add)
           m == MergeUnion(a, b)
           C == PairCount(a, b)
<1>1. /\ Len(pairs) = C /\ C \in Nat /\ DOMAIN pairs = 1..C
      /\ \A n \in DOMAIN pairs :
             \E p \in DOMAIN a, q \in DOMAIN b : n = At(b, p, q) /\ pairs[n] = Merge(a[p], b[q], Add)
      /\ \A p \in DOMAIN a, q \in DOMAIN b :
             At(b, p, q) \in DOMAIN pairs /\ pairs[At(b, p, q)] = Merge(a[p], b[q], Add)
  <2>1. ArePairs(pairs, a, b, Add)
        BY PairsAre
  <2>2. PairCount(a, b) \in Nat
        BY DEF PairCount
  <2> HIDE DEF pairs
  <2> QED BY ONLY <2>1, <2>2 DEF ArePairs, C
<1> DEFINE P == {a[p] : p \in DOMAIN a} \cup {b[q] : q \in DOMAIN b} \cup {pairs[n] : n \in DOMAIN pairs}
<1>2. a \in Seq(P) /\ b \in Seq(P) /\ pairs \in Seq(P)
  <2>1. pairs = [n \in 1..C |-> pairs[n]]
        BY <1>1 DEF MergeAll
  <2> HIDE DEF pairs
  <2>2. \A n \in 1..C : pairs[n] \in P
        BY <1>1
  <2>3. a = [n \in 1..Len(a) |-> a[n]] /\ \A n \in 1..Len(a) : a[n] \in P
        OBVIOUS
  <2>4. b = [n \in 1..Len(b) |-> b[n]] /\ \A n \in 1..Len(b) : b[n] \in P
        OBVIOUS
  <2> HIDE DEF P
  <2>5. pairs \in Seq(P)
        BY ONLY <1>1, <2>1, <2>2
  <2>6. Len(a) \in Nat /\ Len(b) \in Nat
        OBVIOUS
  <2>7. a \in Seq(P) /\ b \in Seq(P)
        BY ONLY <2>3, <2>4, <2>6
  <2> QED BY ONLY <2>5, <2>7
<1>3. Len(a) \in Nat /\ Len(b) \in Nat /\ DOMAIN a = 1..Len(a) /\ DOMAIN b = 1..Len(b)
      OBVIOUS
<1>4. m = pairs \o a \o b
      BY DEF MergeUnion
<1> HIDE DEF P, pairs, m, C
<1>5. /\ m \in Seq(P) /\ Len(m) = C + Len(a) + Len(b)
      /\ \A n \in 1..C : m[n] = pairs[n]
      /\ \A n \in 1..Len(a) : m[C + n] = a[n]
      /\ \A n \in 1..Len(b) : m[C + Len(a) + n] = b[n]
  <2> DEFINE c == pairs \o a
  <2>1. /\ c \in Seq(P) /\ Len(c) = C + Len(a)
        /\ \A n \in 1..C : c[n] = pairs[n]
        /\ \A n \in 1..Len(a) : c[C + n] = a[n]
    <3>1. c \in Seq(P) /\ AreConcatenated(c, pairs, a)
          BY ONLY <1>2, Concatenated
    <3> HIDE DEF c
    <3> QED BY ONLY <3>1, <1>1 DEF AreConcatenated
  <2>2. m = c \o b
        BY <1>4
  <2> HIDE DEF c
  <2>3. /\ m \in Seq(P) /\ Len(m) = C + Len(a) + Len(b)
        /\ \A n \in 1..(C + Len(a)) : m[n] = c[n]
        /\ \A n \in 1..Len(b) : m[C + Len(a) + n] = b[n]
    <3>1. m \in Seq(P) /\ AreConcatenated(m, c, b)
          BY ONLY <1>2, <2>1, <2>2, Concatenated
    <3> QED BY ONLY <3>1, <1>1, <1>3, <2>1 DEF AreConcatenated
  <2> QED BY ONLY <1>1, <1>3, <2>1, <2>3
<1>6. DOMAIN m = 1..(C + Len(a) + Len(b)) /\ Len(m) \in Nat
      BY <1>1, <1>3, <1>5
<1>7. \A p \in DOMAIN a, q \in DOMAIN b : Pair(m, At(b, p, q), a, b, Add, p, q) /\ At(b, p, q) \in DOMAIN m
  <2> TAKE p \in DOMAIN a, q \in DOMAIN b
  <2> DEFINE n == At(b, p, q)
  <2>1. n \in 1..C /\ pairs[n] = Merge(a[p], b[q], Add)
        BY <1>1
  <2> HIDE DEF n
  <2> QED BY <2>1, <1>1, <1>3, <1>5, <1>6 DEF Pair, n
<1>8. \A p \in DOMAIN a : LeftPoint(m, C + p, a, b, p) /\ C + p \in DOMAIN m
      BY <1>1, <1>3, <1>5, <1>6 DEF LeftPoint, C
<1>9. \A q \in DOMAIN b : RightPoint(m, C + Len(a) + q, a, b, q) /\ C + Len(a) + q \in DOMAIN m
      BY <1>1, <1>3, <1>5, <1>6 DEF RightPoint, C
<1>10. ASSUME NEW n \in DOMAIN m
       PROVE  \/ \E p \in DOMAIN a, q \in DOMAIN b : Pair(m, n, a, b, Add, p, q)
              \/ \E p \in DOMAIN a : LeftPoint(m, n, a, b, p)
              \/ \E q \in DOMAIN b : RightPoint(m, n, a, b, q)
  <2>1. CASE n \in 1..C
        BY <2>1, <1>1, <1>7
  <2>2. CASE n \in (C + 1)..(C + Len(a))
    <3>1. n - C \in DOMAIN a /\ C + (n - C) = n
          BY <2>2, <1>1, <1>3
    <3> QED BY <3>1, <1>8
  <2>3. CASE n \in (C + Len(a) + 1)..(C + Len(a) + Len(b))
    <3> DEFINE q == n - (C + Len(a))
    <3>1. q \in DOMAIN b /\ C + Len(a) + q = n
          BY <2>3, <1>1, <1>3
    <3> HIDE DEF q
    <3> QED BY <3>1, <1>9
  <2> QED BY <1>1, <1>3, <1>6, <2>1, <2>2, <2>3
<1>11. IsMerge(m, a, b, Add, TRUE)
  <2>1. \A p \in DOMAIN a, q \in DOMAIN b : \E n \in DOMAIN m : Pair(m, n, a, b, Add, p, q)
        BY <1>7
  <2>2. \A p \in DOMAIN a : \E n \in DOMAIN m : LeftPoint(m, n, a, b, p)
        BY <1>8
  <2>3. \A q \in DOMAIN b : \E n \in DOMAIN m : RightPoint(m, n, a, b, q)
        BY <1>9
  <2> QED BY <1>10, <2>1, <2>2, <2>3 DEF IsMerge
<1>12. IsList(m)
      BY <1>5 DEF IsList
<1> QED BY <1>11, <1>12 DEF m

LEMMA IntersectionIsMerge ==
    ASSUME NEW names, NEW a \in Seq(Points(names)), NEW b \in Seq(Points(names)), a # << >>, b # << >>
    PROVE  LET m == MergeIntersection(a, b) IN
           IsMerge(m, a, b, Mul, FALSE) /\ IsList(m)
<1> DEFINE m == MergeAll(a, b, Mul)
<1>1. /\ Len(m) \in Nat /\ DOMAIN m = 1..Len(m)
      /\ \A n \in DOMAIN m :
             \E p \in DOMAIN a, q \in DOMAIN b : n = At(b, p, q) /\ m[n] = Merge(a[p], b[q], Mul)
      /\ \A p \in DOMAIN a, q \in DOMAIN b :
             At(b, p, q) \in DOMAIN m /\ m[At(b, p, q)] = Merge(a[p], b[q], Mul)
  <2>1. ArePairs(m, a, b, Mul)
        BY PairsAre
  <2> HIDE DEF m
  <2> QED BY ONLY <2>1 DEF ArePairs
<1>2. IsList(m)
  <2>1. m = [n \in 1..Len(m) |-> m[n]]
        BY <1>1 DEF MergeAll
  <2> HIDE DEF m
  <2>2. \A n \in 1..Len(m) : m[n] \in {m[k] : k \in 1..Len(m)}
        OBVIOUS
  <2>3. m \in Seq({m[k] : k \in 1..Len(m)})
        BY ONLY <1>1, <2>1, <2>2
  <2> QED BY ONLY <2>3 DEF IsList
<1>3. m = MergeIntersection(a, b)
      BY DEF MergeIntersection
<1> HIDE DEF m
<1>4. \A n \in DOMAIN m : \E p \in DOMAIN a, q \in DOMAIN b : Pair(m, n, a, b, Mul, p, q)
      BY <1>1 DEF Pair
<1>5. \A p \in DOMAIN a, q \in DOMAIN b : \E n \in DOMAIN m : Pair(m, n, a, b, Mul, p, q)
      BY <1>1 DEF Pair
<1>6. IsMerge(m, a, b, Mul, FALSE)
      BY <1>4, <1>5 DEF IsMerge
<1> QED BY <1>2, <1>3, <1>6

(* A point iterates over operands of the expression only: its join with the *)
(* first point comes no later than that, so it is the first point.          *)
LEMMA ItsOperands ==
    ASSUME NEW points, JoinClosed(points), DominatingFirst(points), NEW e, StartsWithAll(points, e),
           Len(points) \in Nat, DOMAIN points = 1..Len(points), NEW j \in DOMAIN points
    PROVE  Its(points[j]) \subseteq Operands(e)
<1>1. 1 \in DOMAIN points /\ Its(points[1]) = Operands(e)
      BY DEF StartsWithAll
<1>2. PICK m \in DOMAIN points : Its(points[m]) = Its(points[1]) \cup Its(points[j])
      BY <1>1 DEF JoinClosed
<1>3. m <= 1
      BY <1>1, <1>2 DEF DominatingFirst
<1>4. m = 1
      BY <1>3
<1> QED BY <1>1, <1>2, <1>4

(* The merge of the lattices of two operands is the lattice of the operator. *)
LEMMA MergeIsLattice ==
    ASSUME NEW names, NEW token \in {Add, Mul},
           NEW ea, Valued(names, ea), NEW eb, Valued(names, eb), Operands(ea) \cap Operands(eb) = {},
           NEW a, LatticeFor(names, a, ea), NEW b, LatticeFor(names, b, eb),
           NEW alone \in BOOLEAN, alone <=> token = Add,
           NEW m, IsList(m), IsMerge(m, a, b, token, alone)
    PROVE  LatticeFor(names, m, Joined(ea, eb, token))
<1> DEFINE e == Joined(ea, eb, token)
<1>1. /\ \A p \in DOMAIN a : GoodPoint(names, a[p])
      /\ \A q \in DOMAIN b : GoodPoint(names, b[q])
      BY DEF LatticeFor
<1>2. /\ Len(a) \in Nat \ {0} /\ DOMAIN a = 1..Len(a)
      /\ Len(b) \in Nat \ {0} /\ DOMAIN b = 1..Len(b)
  <2>1. a \in Seq(Points(names)) /\ a # << >> /\ b \in Seq(Points(names)) /\ b # << >>
        BY DEF LatticeFor
  <2> QED BY ONLY <2>1
<1>3. /\ \A p \in DOMAIN a : Its(a[p]) \subseteq Operands(ea)
      /\ \A q \in DOMAIN b : Its(b[q]) \subseteq Operands(eb)
      BY <1>2, ItsOperands DEF LatticeFor
<1>4. Disjoint(a, b)
      BY <1>3 DEF Disjoint
<1>5. /\ \A n \in DOMAIN m : GoodPoint(names, m[n])
      /\ PairsJoin(a, b, token)
      /\ SetsOf(m) = SetsOfMerge(a, b, alone)
      BY ONLY <1>1, <1>4, token \in {Add, Mul}, alone \in BOOLEAN, IsMerge(m, a, b, token, alone), MergePoints
<1>6. JoinClosed(m)
      BY <1>5, MergeJoinClosed DEF LatticeFor
<1>7. DominatingFirst(m)
  <2>1. /\ \A p \in DOMAIN a : Its(a[p]) # {}
        /\ \A q \in DOMAIN b : Its(b[q]) # {}
        BY <1>1 DEF GoodPoint
  <2> QED BY <1>2, <1>4, <1>5, <2>1, MergeDominatingFirst DEF LatticeFor
<1>8. Valued(names, e) /\ \A S : Simplify(e, S) = Combined(token, Simplify(ea, S), Simplify(eb, S))
      BY OperatorSimplified
<1>9. CompleteWithin(names, m, e)
  <2>1. CompleteWithin(names, a, ea) /\ CompleteWithin(names, b, eb)
        BY DEF LatticeFor
  <2>2. token \in {Add, Mul} /\ alone \in BOOLEAN /\ (alone <=> token = Add) /\ IsMerge(m, a, b, token, alone)
        OBVIOUS
  <2> HIDE DEF e
  <2> QED BY ONLY <1>1, <1>4, <1>5, <1>8, <2>1, <2>2, MergeComplete
<1>10. StartsWithAll(m, e)
  <2>1. 1 \in DOMAIN a /\ 1 \in DOMAIN b
        BY <1>2
  <2>2. PICK n \in DOMAIN m : Pair(m, n, a, b, token, 1, 1)
        BY <2>1 DEF IsMerge
  <2>3. n = 1
        BY <1>2, <2>2 DEF Pair, At
  <2>4. Its(m[1]) = Its(a[1]) \cup Its(b[1]) /\ m[1].expr = Joined(a[1].expr, b[1].expr, token)
        BY <1>5, <2>1, <2>2, <2>3 DEF Pair, PairsJoin
  <2>5. Its(a[1]) = Operands(ea) /\ a[1].expr = ea /\ Its(b[1]) = Operands(eb) /\ b[1].expr = eb
        BY DEF LatticeFor, StartsWithAll
  <2>6. Operands(e) = Operands(ea) \cup Operands(eb)
        BY OperandsOfOperator DEF Valued
  <2> QED BY <2>2, <2>3, <2>4, <2>5, <2>6 DEF StartsWithAll
<1>11. m \in Seq(Points(names)) /\ m # << >>
  <2>1. \A n \in DOMAIN m : m[n] \in Points(names)
        BY <1>5 DEF GoodPoint
  <2>2. m \in Seq(Points(names))
        BY ONLY <2>1, IsList(m) DEF IsList
  <2>3. Len(m) >= 1
        BY <1>10 DEF StartsWithAll
  <2> QED BY <2>2, <2>3
<1> QED BY <1>5, <1>6, <1>7, <1>9, <1>10, <1>11 DEF LatticeFor

LEMMA DimIsLattice ==
    ASSUME NEW names, NEW x \in names
    PROVE  LatticeFor(names, DimLattice(x), <<Read(x)>>)
<1> DEFINE e == <<Read(x)>>
           points == DimLattice(x)
           p == Point(<<x>>, e)
<1>1. points = <<p>>
      BY DEF DimLattice
<1>2. p.iterators = <<x>> /\ p.expr = e
      BY DEF Point
<1>3. Its(p) = {x}
      BY <1>2 DEF Its
<1>4. Operands(e) = {x}
      BY DEF Operands, Read
<1>5. Valued(names, e) /\ \A S : Simplify(e, S) = IF x \in S THEN e ELSE Zero
      BY ReadSimplified
<1>6. p \in Points(names)
  <2>1. e \in Exprs(names)
        BY <1>5 DEF Valued
  <2> HIDE DEF e
  <2> QED BY <2>1 DEF Point, Points
<1>7. e # Zero
      BY DEF Zero
<1> HIDE DEF e, p, points
<1>8. GoodPoint(names, p)
      BY <1>2, <1>3, <1>4, <1>6, <1>7 DEF GoodPoint
<1>9. points \in Seq(Points(names)) /\ points # << >> /\ DOMAIN points = {1} /\ points[1] = p /\ Len(points) = 1
      BY <1>1, <1>6
<1>10. CompleteWithin(names, points, e)
      BY <1>2, <1>3, <1>5, <1>9 DEF CompleteWithin, LargestWithin
<1>11. JoinClosed(points) /\ DominatingFirst(points) /\ StartsWithAll(points, e)
      BY <1>2, <1>3, <1>4, <1>9 DEF JoinClosed, DominatingFirst, StartsWithAll
<1> QED BY <1>8, <1>9, <1>10, <1>11 DEF LatticeFor, points, e
-----------------------------------------------------------------------------
(* The visitor. *)

(* The tokens of e from position i + 1 to position j. *)
Piece(e, i, j) == SubSeq(e, i + 1, j)

LEMMA PieceTokens ==
    ASSUME NEW names, NEW e \in Exprs(names), NEW i \in Nat, NEW j \in Nat, i <= j, j <= Len(e)
    PROVE  /\ Piece(e, i, j) \in Exprs(names)
           /\ Len(Piece(e, i, j)) = j - i
           /\ \A n \in 1..(j - i) : Piece(e, i, j)[n] = e[i + n]
<1> DEFINE T == Tokens(names)
<1>1. e \in Seq(T)
      BY DEF Exprs
<1> HIDE DEF T
<1>2. ASSUME NEW n \in 1..(j - i)
      PROVE  e[i + n] \in T
      BY <1>1
<1>3. Piece(e, i, j) = [n \in 1..(j - i) |-> e[i + n]]
  <2>1. SubSeq(e, i + 1, j) = [n \in 1..(j - i) |-> e[i + n]]
        BY <1>1
  <2> QED BY <2>1 DEF Piece
<1> DEFINE p == [n \in 1..(j - i) |-> e[i + n]]
<1>4. p \in Seq(T) /\ Len(p) = j - i
      BY <1>2
<1> QED BY <1>3, <1>4 DEF Exprs, T

IsPiece(p, names, e, i, j) ==
    p \in Exprs(names) /\ Len(p) = j - i /\ \A n \in 1..(j - i) : p[n] = e[i + n]

LEMMA PieceIs ==
    ASSUME NEW names, NEW e \in Exprs(names), NEW i \in Nat, NEW j \in Nat, i <= j, j <= Len(e)
    PROVE  IsPiece(Piece(e, i, j), names, e, i, j)
BY PieceTokens DEF IsPiece

LEMMA PieceJoined ==
    ASSUME NEW names, NEW e \in Exprs(names), NEW i \in Nat, NEW j \in Nat, NEW k \in Nat,
           i <= j, j < k, k <= Len(e), e[k] \in {Add, Mul}
    PROVE  Piece(e, i, k) = Joined(Piece(e, i, j), Piece(e, j, k - 1), e[k])
<1> DEFINE a == Piece(e, i, j)
           b == Piece(e, j, k - 1)
           p == Piece(e, i, k)
           q == Joined(a, b, e[k])
<1>0. j <= Len(e) /\ i <= k
  <2>1. Len(e) \in Nat
        BY DEF Exprs
  <2> QED BY <2>1
<1>1. a \in Exprs(names) /\ Len(a) = j - i /\ \A n \in 1..(j - i) : a[n] = e[i + n]
      BY <1>0, PieceTokens
<1>2. b \in Exprs(names) /\ Len(b) = (k - 1) - j /\ \A n \in 1..((k - 1) - j) : b[n] = e[j + n]
  <2>1. k - 1 \in Nat /\ j <= k - 1 /\ k - 1 <= Len(e)
    <3>1. Len(e) \in Nat
          BY DEF Exprs
    <3> QED BY <3>1
  <2> DEFINE l == k - 1
  <2> HIDE DEF l
  <2>2. Piece(e, j, l) \in Exprs(names) /\ Len(Piece(e, j, l)) = l - j
        /\ \A n \in 1..(l - j) : Piece(e, j, l)[n] = e[j + n]
    <3>1. l \in Nat /\ j <= l /\ l <= Len(e)
          BY <2>1 DEF l
    <3> QED BY ONLY <3>1, e \in Exprs(names), j \in Nat, PieceTokens
  <2> QED BY <2>2 DEF l
<1>3. p \in Exprs(names) /\ Len(p) = k - i /\ \A n \in 1..(k - i) : p[n] = e[i + n]
      BY <1>0, PieceTokens
<1> HIDE DEF a, b, p
<1>4. q \in Exprs(names) /\ AreJoined(q, a, b, e[k])
      BY <1>1, <1>2, JoinedTokens
<1> HIDE DEF q
<1>5. Len(q) = k - i
      BY <1>1, <1>2, <1>4 DEF AreJoined
<1>6. ASSUME NEW n \in 1..(k - i)
      PROVE  p[n] = q[n]
  <2>1. CASE n \in 1..(j - i)
        BY <2>1, <1>1, <1>3, <1>4 DEF AreJoined
  <2>2. CASE n \in (j - i + 1)..(k - 1 - i)
    <3> DEFINE r == n - (j - i)
    <3>1. r \in 1..((k - 1) - j) /\ (j - i) + r = n /\ j + r = i + n
          BY <2>2
    <3> HIDE DEF r
    <3>2. q[n] = b[r]
          BY <3>1, <1>1, <1>2, <1>4 DEF AreJoined
    <3> QED BY <3>1, <3>2, <1>2, <1>3
  <2>3. CASE n = k - i
    <3>1. (j - i) + ((k - 1) - j) + 1 = n /\ i + n = k
          BY <2>3
    <3> QED BY <3>1, <1>1, <1>2, <1>3, <1>4 DEF AreJoined
  <2> QED BY <2>1, <2>2, <2>3
<1>7. p \in Seq(Tokens(names)) /\ q \in Seq(Tokens(names)) /\ Len(p) = Len(q) /\ \A n \in 1..Len(p) : p[n] = q[n]
      BY <1>3, <1>4, <1>5, <1>6 DEF Exprs
<1>8. p = q
      BY <1>7, SeqEqual
<1> QED BY <1>8 DEF p, q, a, b

(* Parts that do not overlap read different arrays. *)
LEMMA PiecesDisjoint ==
    ASSUME NEW names, NEW e \in Exprs(names), ReadsOnce(e),
           NEW i \in Nat, NEW j \in Nat, NEW k \in Nat, i <= j, j <= k, k <= Len(e)
    PROVE  Operands(Piece(e, i, j)) \cap Operands(Piece(e, j, k)) = {}
<1> DEFINE a == Piece(e, i, j)
           b == Piece(e, j, k)
<1>1. DOMAIN e = 1..Len(e) /\ Len(e) \in Nat
      BY DEF Exprs
<1>2. j <= Len(e)
      BY <1>1
<1>3. a \in Exprs(names) /\ Len(a) = j - i /\ \A n \in 1..(j - i) : a[n] = e[i + n]
      BY <1>2, PieceTokens
<1>4. b \in Exprs(names) /\ Len(b) = k - j /\ \A n \in 1..(k - j) : b[n] = e[j + n]
      BY PieceTokens
<1>5. \A n \in DOMAIN e : e[n].op = "read" => e[n] = Read(e[n].name)
  <2>1. \A n \in DOMAIN e : e[n] \in Tokens(names)
        BY DEF Exprs
  <2> QED BY <2>1 DEF Tokens, Read, Add, Mul
<1> HIDE DEF a, b
<1>6. DOMAIN a = 1..(j - i) /\ DOMAIN b = 1..(k - j)
      BY <1>3, <1>4 DEF Exprs
<1> SUFFICES ASSUME NEW m \in DOMAIN a, NEW n \in DOMAIN b,
                    a[m].op = "read", b[n].op = "read", a[m].name = b[n].name
             PROVE  FALSE
    BY DEF Operands, a, b
<1>7. i + m \in DOMAIN e /\ j + n \in DOMAIN e /\ i + m # j + n
      BY <1>1, <1>2, <1>6
<1>8. e[i + m] = a[m] /\ e[j + n] = b[n]
      BY <1>3, <1>4, <1>6
<1>9. e[i + m] = e[j + n]
      BY <1>5, <1>7, <1>8
<1> QED BY <1>7, <1>8, <1>9 DEF ReadsOnce

LEMMA ReadsCounted ==
    ASSUME NEW e, NEW n \in Nat, NEW k, k = n + 1
    PROVE  /\ ReadsBefore(e, n) \in 0..n
           /\ e[k].op = "read" => ReadsBefore(e, k) = ReadsBefore(e, n) + 1
           /\ e[k].op # "read" => ReadsBefore(e, k) = ReadsBefore(e, n)
<1> DEFINE R == {m \in 1..n : e[m].op = "read"}
           Q == {m \in 1..k : e[m].op = "read"}
<1>0. ReadsBefore(e, n) = Cardinality(R) /\ ReadsBefore(e, k) = Cardinality(Q)
      BY DEF ReadsBefore
<1>1. IsFiniteSet(1..n) /\ Cardinality(1..n) = n
      BY FS_Interval
<1>2. R \subseteq 1..n
      OBVIOUS
<1>3. IsFiniteSet(R) /\ Cardinality(R) \in Nat /\ Cardinality(R) <= n
      BY <1>1, <1>2, FS_Subset, FS_CardinalityType
<1>4. CASE e[k].op = "read"
  <2>1. Q = R \cup {k} /\ k \notin R
        BY <1>4
  <2> HIDE DEF R, Q
  <2>2. Cardinality(Q) = Cardinality(R) + 1
        BY <1>3, <2>1, FS_AddElement
  <2> QED BY <1>0, <1>3, <1>4, <2>2
<1>5. CASE e[k].op # "read"
  <2>1. Q = R
        BY <1>5
  <2> HIDE DEF R, Q
  <2> QED BY <1>0, <1>3, <1>5, <2>1
<1> QED BY <1>4, <1>5
(* A lattice stands for a part of the expression that is being visited. *)
StandsFor(e, points, i, j) ==
    /\ LatticeFor(Operands(e), points, Piece(e, i, j))
    /\ Valued(Operands(e), Piece(e, i, j))

(* The lattices on the stack stand for consecutive parts of e, the ends of  *)
(* which are in cut.                                                        *)
Cuts(e, done, stack, cut) ==
    /\ cut \in [0..Len(stack) -> 0..done]
    /\ cut[0] = 0 /\ cut[Len(stack)] = done
    /\ \A n \in 1..Len(stack) : cut[n - 1] < cut[n] /\ StandsFor(e, stack[n], cut[n - 1], cut[n])

Lattices(names) == Seq(Points(names))

(* What the visitor has made of the first tokens of e. *)
Visited(e, done, stack) ==
    /\ stack \in Seq(Lattices(Operands(e)))
    /\ Len(stack) = 2 * ReadsBefore(e, done) - done
    /\ \E cut : Cuts(e, done, stack, cut)

LEMMA VisitsNothing ==
    ASSUME NEW e
    PROVE  Visited(e, 0, << >>)
<1>1. ReadsBefore(e, 0) = 0
  <2>1. ReadsBefore(e, 0) \in 0..0
        BY ReadsCounted
  <2> QED BY <2>1
<1>2. Cuts(e, 0, << >>, [n \in 0..0 |-> 0])
      BY DEF Cuts
<1>3. << >> \in Seq(Lattices(Operands(e))) /\ Len(<< >>) = 0
      OBVIOUS
<1> QED BY <1>1, <1>2, <1>3 DEF Visited

LEMMA ExpressionTokens ==
    ASSUME NEW e, IsExpression(e)
    PROVE  /\ e \in Exprs(Operands(e))
           /\ Len(e) \in Nat \ {0}
           /\ DOMAIN e = 1..Len(e)
           /\ Len(e) = 2 * ReadsBefore(e, Len(e)) - 1
           /\ \A n \in 1..Len(e) : n < 2 * ReadsBefore(e, n)
           /\ \A n \in 1..Len(e) : e[n] \in {Add, Mul} \/ \E x \in Operands(e) : e[n] = Read(x)
<1>1. e \in Seq(Tokens(Operands(e)))
      BY DEF IsExpression, Tokens
<1>2. Len(e) \in Nat /\ DOMAIN e = 1..Len(e) /\ \A n \in 1..Len(e) : e[n] \in Tokens(Operands(e))
      BY <1>1
<1>3. Len(e) = 2 * ReadsBefore(e, Len(e)) - 1 /\ \A n \in 1..Len(e) : n < 2 * ReadsBefore(e, n)
      BY <1>2 DEF IsExpression
<1>4. Len(e) # 0
  <2> DEFINE n == Len(e)
  <2>1. n \in Nat
        BY <1>2
  <2> HIDE DEF n
  <2>2. ReadsBefore(e, n) \in 0..n
        BY <2>1, ReadsCounted
  <2> QED BY <1>3, <2>1, <2>2 DEF n
<1> QED BY <1>1, <1>2, <1>3, <1>4 DEF Exprs, Tokens

LEMMA VisitDimStep ==
    ASSUME NEW e, IsExpression(e), NEW stack, NEW done \in 0..(Len(e) - 1), Visited(e, done, stack),
           NEW x \in Operands(e), e[done + 1] = Read(x)
    PROVE  Visited(e, done + 1, Append(stack, DimLattice(x)))
<1> DEFINE names == Operands(e)
           points == DimLattice(x)
           L == Len(stack)
           new == Append(stack, points)
<1>1. e \in Exprs(names) /\ Len(e) \in Nat /\ done \in Nat
      BY ExpressionTokens
<1>2. Piece(e, done, done + 1) = <<Read(x)>>
  <2> DEFINE p == Piece(e, done, done + 1)
             k == done + 1
  <2>1. k \in Nat /\ done <= k /\ k <= Len(e)
        BY <1>1
  <2> HIDE DEF k
  <2>2. Piece(e, done, k) \in Exprs(names) /\ Len(Piece(e, done, k)) = k - done
        /\ \A n \in 1..(k - done) : Piece(e, done, k)[n] = e[done + n]
        BY <1>1, <2>1, PieceTokens
  <2>3. k - done = 1 /\ done + 1 = k /\ e[done + 1] = Read(x)
        BY <1>1 DEF k
  <2>4. p \in Exprs(names) /\ Len(p) = 1 /\ p[1] = Read(x)
    <3>1. p = Piece(e, done, k)
          BY DEF k
    <3>2. p \in Exprs(names) /\ Len(p) = 1
          BY <2>2, <2>3, <3>1
    <3>3. 1 \in 1..(k - done)
          BY <2>3
    <3>4. Piece(e, done, k)[1] = e[done + 1]
          BY ONLY <2>2, <3>3
    <3> QED BY ONLY <2>3, <3>1, <3>2, <3>4
  <2> HIDE DEF p
  <2>5. p \in Seq(Tokens(names))
        BY <2>4 DEF Exprs
  <2>6. p = <<Read(x)>>
        BY ONLY <2>4, <2>5
  <2> QED BY <2>6 DEF p
<1>3. LatticeFor(names, points, <<Read(x)>>) /\ Valued(names, <<Read(x)>>)
      BY DimIsLattice, ReadSimplified
<1>4. StandsFor(e, points, done, done + 1)
      BY <1>2, <1>3 DEF StandsFor
<1>5. points \in Lattices(names)
      BY <1>3 DEF LatticeFor, Lattices
<1> HIDE DEF points
<1>6. L \in Nat /\ new \in Seq(Lattices(names)) /\ Len(new) = L + 1 /\ new[L + 1] = points
      /\ \A n \in 1..L : new[n] = stack[n]
  <2>1. stack \in Seq(Lattices(names))
        BY DEF Visited
  <2> HIDE DEF names
  <2> QED BY ONLY <2>1, <1>5
<1>7. Len(new) = 2 * ReadsBefore(e, done + 1) - (done + 1)
  <2>1. e[done + 1].op = "read"
        BY DEF Read
  <2>2. ReadsBefore(e, done + 1) = ReadsBefore(e, done) + 1 /\ ReadsBefore(e, done) \in Nat
    <3> DEFINE k == done + 1
    <3>1. k = done + 1 /\ e[k].op = "read"
          BY <2>1
    <3> HIDE DEF k
    <3>2. ReadsBefore(e, k) = ReadsBefore(e, done) + 1 /\ ReadsBefore(e, done) \in 0..done
          BY ONLY <1>1, <3>1, ReadsCounted
    <3> QED BY ONLY <1>1, <3>1, <3>2
  <2>3. L = 2 * ReadsBefore(e, done) - done
        BY DEF Visited
  <2> QED BY ONLY <1>1, <1>6, <2>2, <2>3
<1>8. PICK cut : Cuts(e, done, stack, cut)
      BY DEF Visited
<1> DEFINE next == [n \in 0..(L + 1) |-> IF n = L + 1 THEN done + 1 ELSE cut[n]]
<1>9. Cuts(e, done + 1, new, next)
  <2>0. /\ cut \in [0..L -> 0..done] /\ cut[0] = 0 /\ cut[L] = done
        /\ \A n \in 1..L : cut[n - 1] < cut[n] /\ StandsFor(e, stack[n], cut[n - 1], cut[n])
        BY <1>8 DEF Cuts
  <2> HIDE DEF new, L
  <2>1. next \in [0..(L + 1) -> 0..(done + 1)]
        BY ONLY <1>1, <1>6, <2>0
  <2>2. next[0] = 0 /\ next[L + 1] = done + 1
        BY ONLY <1>6, <2>0
  <2>3. ASSUME NEW n \in 1..(L + 1)
        PROVE  next[n - 1] < next[n] /\ StandsFor(e, new[n], next[n - 1], next[n])
    <3>1. CASE n \in 1..L
      <4>1. next[n] = cut[n] /\ next[n - 1] = cut[n - 1] /\ new[n] = stack[n]
            BY <3>1, <1>6
      <4> QED BY <3>1, <4>1, <2>0
    <3>2. CASE n = L + 1
      <4>1. next[n] = done + 1 /\ next[n - 1] = done /\ new[n] = points
            BY <3>2, <1>6, <2>0
      <4> QED BY <4>1, <1>1, <1>4
    <3> QED BY <3>1, <3>2, <1>6
  <2> HIDE DEF next
  <2> QED BY <1>6, <2>1, <2>2, <2>3 DEF Cuts
<1> QED BY <1>6, <1>7, <1>9 DEF Visited, points

LEMMA VisitOperatorStep ==
    ASSUME NEW e, IsExpression(e), ReadsOnce(e),
           NEW stack, NEW done \in 0..(Len(e) - 1), Visited(e, done, stack),
           NEW token \in {Add, Mul}, e[done + 1] = token,
           NEW L, L = Len(stack)
    PROVE  /\ L >= 2
           /\ stack[L - 1] \in Lattices(Operands(e)) /\ stack[L - 1] # << >>
           /\ stack[L] \in Lattices(Operands(e)) /\ stack[L] # << >>
           /\ \A m : IsList(m) /\ IsMerge(m, stack[L - 1], stack[L], token, token = Add)
                         => Visited(e, done + 1, Append(SubSeq(stack, 1, L - 2), m))
<1> DEFINE names == Operands(e)
<1>1. e \in Exprs(names) /\ Len(e) \in Nat /\ done \in Nat
      BY ExpressionTokens
<1>2. stack \in Seq(Lattices(names)) /\ L \in Nat
      BY DEF Visited
<1>3. ReadsBefore(e, done + 1) = ReadsBefore(e, done) /\ ReadsBefore(e, done) \in Nat
  <2> DEFINE k == done + 1
  <2>1. k = done + 1 /\ e[k].op # "read"
        BY DEF Add, Mul
  <2> HIDE DEF k
  <2>2. ReadsBefore(e, k) = ReadsBefore(e, done) /\ ReadsBefore(e, done) \in 0..done
        BY ONLY <1>1, <2>1, ReadsCounted
  <2> QED BY ONLY <1>1, <2>1, <2>2
<1>4. L = 2 * ReadsBefore(e, done) - done
      BY DEF Visited
<1>5. L >= 2
  <2>1. done + 1 \in 1..Len(e)
        BY <1>1
  <2>2. done + 1 < 2 * ReadsBefore(e, done + 1)
        BY <2>1, ExpressionTokens
  <2> QED BY ONLY <1>1, <1>3, <1>4, <2>2
<1>6. PICK cut : Cuts(e, done, stack, cut)
      BY DEF Visited
<1>7. /\ cut \in [0..L -> 0..done] /\ cut[0] = 0 /\ cut[L] = done
      /\ \A n \in 1..L : cut[n - 1] < cut[n] /\ StandsFor(e, stack[n], cut[n - 1], cut[n])
      BY <1>6 DEF Cuts
<1> DEFINE a == stack[L - 1]
           b == stack[L]
           i == cut[L - 2]
           j == cut[L - 1]
<1>8. /\ i \in Nat /\ j \in Nat /\ i < j /\ j < done
      /\ StandsFor(e, a, i, j) /\ StandsFor(e, b, j, done)
  <2>1. L - 1 \in 1..L /\ L \in 1..L /\ (L - 1) - 1 = L - 2 /\ L - 2 \in 0..L /\ L - 1 \in 0..L
        BY <1>2, <1>5
  <2>2. cut[L - 2] < cut[L - 1] /\ StandsFor(e, stack[L - 1], cut[L - 2], cut[L - 1])
        BY <1>7, <2>1
  <2>3. cut[L - 1] < cut[L] /\ StandsFor(e, stack[L], cut[L - 1], cut[L])
        BY <1>7, <2>1
  <2> QED BY <1>1, <1>7, <2>1, <2>2, <2>3
<1>9. a \in Lattices(names) /\ a # << >> /\ b \in Lattices(names) /\ b # << >>
      BY <1>8 DEF StandsFor, LatticeFor, Lattices
<1> HIDE DEF a, b, i, j
<1>10. ASSUME NEW m, IsList(m), IsMerge(m, a, b, token, token = Add)
       PROVE  Visited(e, done + 1, Append(SubSeq(stack, 1, L - 2), m))
  <2> DEFINE ea == Piece(e, i, j)
             eb == Piece(e, j, done)
             ec == Piece(e, i, done + 1)
             new == Append(SubSeq(stack, 1, L - 2), m)
             K == L - 2
  <2>1. LatticeFor(names, a, ea) /\ Valued(names, ea) /\ LatticeFor(names, b, eb) /\ Valued(names, eb)
        BY <1>8 DEF StandsFor
  <2>2. Operands(ea) \cap Operands(eb) = {}
    <3>1. i <= j /\ j <= done /\ done <= Len(e)
          BY <1>1, <1>8
    <3> QED BY <1>1, <1>8, <3>1, PiecesDisjoint
  <2>3. ec = Joined(ea, eb, token)
    <3> DEFINE k == done + 1
    <3>1. k \in Nat /\ i <= j /\ j < k /\ k <= Len(e) /\ k - 1 = done
          BY <1>1, <1>8
    <3>2. e[k] = token
          OBVIOUS
    <3> HIDE DEF k
    <3>3. Piece(e, i, k) = Joined(Piece(e, i, j), Piece(e, j, k - 1), e[k])
          BY <1>1, <1>8, <3>1, <3>2, PieceJoined
    <3> QED BY <3>1, <3>2, <3>3 DEF k
  <2> HIDE DEF ea, eb
  <2>4. LatticeFor(names, m, ec)
    <3> DEFINE alone == (token = Add)
    <3>1. alone \in BOOLEAN /\ (alone <=> token = Add) /\ IsMerge(m, a, b, token, alone)
          BY <1>10
    <3> HIDE DEF alone
    <3>2. LatticeFor(names, m, Joined(ea, eb, token))
      <4> HIDE DEF names
      <4> QED BY ONLY <2>1, <2>2, <3>1, IsList(m), token \in {Add, Mul}, MergeIsLattice
    <3> QED BY ONLY <2>3, <3>2
  <2>5. Valued(names, ec)
        BY ONLY <2>1, <2>3, token \in {Add, Mul}, OperatorSimplified
  <2>6. StandsFor(e, m, i, done + 1)
        BY <2>4, <2>5 DEF StandsFor
  <2>7. m \in Lattices(names)
        BY <2>4 DEF LatticeFor, Lattices
  <2>8. /\ new \in Seq(Lattices(names)) /\ Len(new) = K + 1 /\ new[K + 1] = m
        /\ \A n \in 1..K : new[n] = stack[n]
        /\ K \in Nat
    <3> HIDE DEF names
    <3>1. K \in Nat /\ K <= Len(stack)
          BY ONLY <1>2, <1>5, L = Len(stack)
    <3> DEFINE s == SubSeq(stack, 1, K)
    <3>2. s \in Seq(Lattices(names)) /\ Len(s) = K /\ \A n \in 1..K : s[n] = stack[n]
      <4> HIDE DEF K
      <4> QED BY ONLY <1>2, <3>1
    <3> HIDE DEF s, K
    <3>3. new = Append(s, m)
          BY DEF s, K
    <3> HIDE DEF new
    <3> QED BY ONLY <2>7, <3>1, <3>2, <3>3
  <2>9. Len(new) = 2 * ReadsBefore(e, done + 1) - (done + 1)
        BY ONLY <1>1, <1>2, <1>3, <1>4, <2>8
  <2> DEFINE next == [n \in 0..(K + 1) |-> IF n = K + 1 THEN done + 1 ELSE cut[n]]
  <2>10. Cuts(e, done + 1, new, next)
    <3>0. cut \in [0..L -> 0..done] /\ K = L - 2 /\ cut[K] = i
          BY <1>7 DEF i
    <3> HIDE DEF new, K
    <3>1. next \in [0..(K + 1) -> 0..(done + 1)]
          BY ONLY <1>1, <1>2, <2>8, <3>0
    <3>2. next[0] = 0 /\ next[K + 1] = done + 1
          BY ONLY <1>7, <2>8
    <3>3. ASSUME NEW n \in 1..(K + 1)
          PROVE  next[n - 1] < next[n] /\ StandsFor(e, new[n], next[n - 1], next[n])
      <4>1. CASE n \in 1..K
        <5>0. n \in 0..(K + 1) /\ n - 1 \in 0..(K + 1) /\ n # K + 1 /\ n - 1 # K + 1
              BY ONLY <4>1, <2>8
        <5>1. next[n] = cut[n] /\ next[n - 1] = cut[n - 1]
              BY ONLY <5>0
        <5>2. new[n] = stack[n] /\ n \in 1..L
              BY ONLY <4>1, <1>2, <2>8, <3>0
        <5> HIDE DEF next
        <5> QED BY <5>1, <5>2, <1>7
      <4>2. CASE n = K + 1
        <5>1. next[n] = done + 1 /\ next[n - 1] = i /\ new[n] = m
              BY ONLY <4>2, <2>8, <3>0
        <5> HIDE DEF next
        <5> QED BY <5>1, <1>1, <1>8, <2>6
      <4>3. n \in 1..K \/ n = K + 1
            BY ONLY <2>8, <3>3
      <4> QED BY ONLY <4>1, <4>2, <4>3
    <3> HIDE DEF next
    <3> QED BY <2>8, <3>1, <3>2, <3>3 DEF Cuts
  <2> QED BY <2>8, <2>9, <2>10 DEF Visited
<1> QED BY <1>5, <1>9, <1>10 DEF a, b
(* What convert makes of an expression. *)
LEMMA ConvertedLength ==
    ASSUME NEW e, Len(e) \in Nat, DOMAIN e = 1..Len(e)
    PROVE  Len(Convert(e)) = Len(e)
<1> DEFINE F(n) == CASE e[n].op = "add"  -> Union
                     [] e[n].op = "mul"  -> Intersection
                     [] e[n].op = "read" -> Dim(e[n].name)
<1>1. Convert(e) = [n \in DOMAIN e |-> F(n)]
      BY Zenon DEF Convert
<1> HIDE DEF F
<1> QED BY <1>1

LEMMA ConvertedAdd ==
    ASSUME NEW e, NEW n \in DOMAIN e, e[n].op = "add"
    PROVE  Convert(e)[n] = Union
BY Zenon DEF Convert

LEMMA ConvertedMul ==
    ASSUME NEW e, NEW n \in DOMAIN e, e[n].op = "mul"
    PROVE  Convert(e)[n] = Intersection
BY Zenon DEF Convert

LEMMA ConvertedRead ==
    ASSUME NEW e, NEW n \in DOMAIN e, e[n].op = "read"
    PROVE  Convert(e)[n] = Dim(e[n].name)
BY Zenon DEF Convert

(* The visits of the three kinds of nodes. *)
LEMMA VisitOfDim ==
    ASSUME NEW stack, NEW node, node.op = "dim"
    PROVE  VisitNode(stack, node) = Append(stack, DimLattice(node.name))
BY Zenon DEF VisitNode

LEMMA VisitOfUnion ==
    ASSUME NEW stack, NEW node, node.op = "union"
    PROVE  VisitNode(stack, node)
               = Append(SubSeq(stack, 1, Len(stack) - 2), MergeUnion(stack[Len(stack) - 1], stack[Len(stack)]))
BY Zenon DEF VisitNode

LEMMA VisitOfIntersection ==
    ASSUME NEW stack, NEW node, node.op = "intersection"
    PROVE  VisitNode(stack, node)
               = Append(SubSeq(stack, 1, Len(stack) - 2), MergeIntersection(stack[Len(stack) - 1], stack[Len(stack)]))
BY Zenon DEF VisitNode

(* Every visit leaves lattices that stand for what has been visited. *)
LEMMA VisitStep ==
    ASSUME NEW e, IsExpression(e), ReadsOnce(e),
           NEW stack, NEW done \in 0..(Len(e) - 1), Visited(e, done, stack)
    PROVE  Visited(e, done + 1, VisitNode(stack, Convert(e)[done + 1]))
<1> DEFINE k == done + 1
           node == Convert(e)[k]
           names == Operands(e)
<1>1. k \in 1..Len(e) /\ k \in DOMAIN e
      BY ExpressionTokens
<1>2. CASE \E x \in names : e[k] = Read(x)
  <2>1. PICK x \in names : e[k] = Read(x)
        BY <1>2
  <2>2. e[k].op = "read" /\ e[k].name = x
        BY <2>1 DEF Read
  <2>3. node = Dim(x)
        BY <1>1, <2>2, ConvertedRead
  <2> HIDE DEF node
  <2>4. VisitNode(stack, node) = Append(stack, DimLattice(x))
    <3>1. node.op = "dim" /\ node.name = x
          BY <2>3 DEF Dim
    <3> QED BY ONLY <3>1, VisitOfDim
  <2>5. Visited(e, done + 1, Append(stack, DimLattice(x)))
        BY <2>1, VisitDimStep
  <2> QED BY <2>4, <2>5 DEF node
<1> DEFINE L == Len(stack)
           a == stack[L - 1]
           b == stack[L]
<1>3. ASSUME NEW token \in {Add, Mul}, e[k] = token
      PROVE  /\ a \in Lattices(names) /\ a # << >> /\ b \in Lattices(names) /\ b # << >>
             /\ \A m : IsList(m) /\ IsMerge(m, a, b, token, token = Add)
                           => Visited(e, done + 1, Append(SubSeq(stack, 1, L - 2), m))
      BY <1>3, VisitOperatorStep
<1>4. CASE e[k] = Add
  <2> DEFINE m == MergeUnion(a, b)
  <2>1. e[k].op = "add"
        BY <1>4 DEF Add
  <2>2. node = Union
        BY <1>1, <2>1, ConvertedAdd
  <2>3. a \in Seq(Points(names)) /\ a # << >> /\ b \in Seq(Points(names)) /\ b # << >>
        BY <1>3, <1>4 DEF Lattices
  <2>4. IsMerge(m, a, b, Add, TRUE) /\ IsList(m)
    <3> HIDE DEF a, b, names
    <3> QED BY ONLY <2>3, UnionIsMerge
  <2> HIDE DEF node
  <2>5. VisitNode(stack, node) = Append(SubSeq(stack, 1, L - 2), m)
    <3>1. node.op = "union"
          BY <2>2 DEF Union
    <3> QED BY ONLY <3>1, VisitOfUnion
  <2> HIDE DEF m, a, b
  <2>6. Visited(e, done + 1, Append(SubSeq(stack, 1, L - 2), m))
    <3>1. (Add = Add) = TRUE /\ Add \in {Add, Mul}
          OBVIOUS
    <3> QED BY ONLY <1>3, <1>4, <2>4, <3>1
  <2> QED BY <2>5, <2>6 DEF node
<1>5. CASE e[k] = Mul
  <2> DEFINE m == MergeIntersection(a, b)
  <2>1. e[k].op = "mul"
        BY <1>5 DEF Mul
  <2>2. node = Intersection
        BY <1>1, <2>1, ConvertedMul
  <2>3. a \in Seq(Points(names)) /\ a # << >> /\ b \in Seq(Points(names)) /\ b # << >>
        BY <1>3, <1>5 DEF Lattices
  <2>4. IsMerge(m, a, b, Mul, FALSE) /\ IsList(m)
    <3> HIDE DEF a, b, names
    <3> QED BY ONLY <2>3, IntersectionIsMerge
  <2> HIDE DEF node
  <2>5. VisitNode(stack, node) = Append(SubSeq(stack, 1, L - 2), m)
    <3>1. node.op = "intersection"
          BY <2>2 DEF Intersection
    <3> QED BY ONLY <3>1, VisitOfIntersection
  <2> HIDE DEF m, a, b
  <2>6. Visited(e, done + 1, Append(SubSeq(stack, 1, L - 2), m))
    <3>1. (Mul = Add) = FALSE /\ Mul \in {Add, Mul}
          BY DEF Add, Mul
    <3> QED BY ONLY <1>3, <1>5, <2>4, <3>1
  <2> QED BY <2>5, <2>6 DEF node
<1> QED BY <1>1, <1>2, <1>4, <1>5, ExpressionTokens

(* When all has been visited one lattice is left, and it is that of e. *)
LEMMA VisitedAll ==
    ASSUME NEW e, IsExpression(e), NEW stack, Visited(e, Len(e), stack)
    PROVE  Len(stack) = 1 /\ LatticeFor(Operands(e), stack[1], e)
<1>1. e \in Exprs(Operands(e)) /\ Len(e) \in Nat /\ Len(e) = 2 * ReadsBefore(e, Len(e)) - 1
      BY ExpressionTokens
<1>2. Len(stack) = 1
  <2> DEFINE n == Len(e)
  <2>1. n \in Nat
        BY <1>1
  <2> HIDE DEF n
  <2>2. ReadsBefore(e, n) \in 0..n
        BY <2>1, ReadsCounted
  <2>3. Len(stack) = 2 * ReadsBefore(e, n) - n /\ n = 2 * ReadsBefore(e, n) - 1
        BY <1>1 DEF Visited, n
  <2> QED BY ONLY <2>1, <2>2, <2>3
<1>3. PICK cut : Cuts(e, Len(e), stack, cut)
      BY DEF Visited
<1>4. StandsFor(e, stack[1], 0, Len(e))
      BY <1>2, <1>3 DEF Cuts
<1>5. Piece(e, 0, Len(e)) = e
  <2> DEFINE n == Len(e)
             p == Piece(e, 0, n)
             z == 0
  <2>1. n \in Nat /\ n <= Len(e) /\ z \in Nat /\ z <= n /\ n - 0 = n
        BY <1>1
  <2>2. p \in Exprs(Operands(e)) /\ Len(p) = n - 0 /\ \A k \in 1..(n - 0) : p[k] = e[0 + k]
    <3> HIDE DEF n, z
    <3>1. IsPiece(Piece(e, z, n), Operands(e), e, z, n)
          BY ONLY <1>1, <2>1, PieceIs
    <3>2. z = 0
          BY DEF z
    <3> HIDE DEF p
    <3>3. p = Piece(e, z, n)
          BY <3>2 DEF p
    <3> QED BY ONLY <3>1, <3>2, <3>3 DEF IsPiece
  <2>3. \A k \in 1..Len(e) : 0 + k = k
        BY <2>1
  <2> HIDE DEF p
  <2>4. p \in Seq(Tokens(Operands(e))) /\ e \in Seq(Tokens(Operands(e))) /\ Len(p) = Len(e)
        /\ \A k \in 1..Len(p) : p[k] = e[k]
        BY <1>1, <2>1, <2>2, <2>3 DEF Exprs
  <2>5. p = e
        BY <2>4, SeqEqual
  <2> QED BY <2>5 DEF p
<1> QED BY <1>2, <1>4, <1>5 DEF StandsFor

LEMMA LatticeForWellFormed ==
    ASSUME NEW points, NEW e, LatticeFor(Operands(e), points, e)
    PROVE  WellFormedLattice(points, e)
<1>1. points \in LatticesOver(Operands(e))
      BY DEF LatticeFor, Points, Exprs, LatticesOver
<1>2. UniqueIterators(points) /\ ReadsItsIterators(points)
      BY DEF LatticeFor, GoodPoint, UniqueIterators, ReadsItsIterators
<1>3. Complete(points, e)
      BY DEF LatticeFor, CompleteWithin, Complete
<1> QED BY <1>1, <1>2, <1>3 DEF LatticeFor, WellFormedLattice

(* The stacks of make exist: its recursion is well founded. *)
LEMMA MakeRun ==
    ASSUME NEW sexpr, Len(sexpr) \in Nat
    PROVE  \E run : /\ run[0] = << >>
                    /\ \A n \in 1..Len(sexpr) : run[n] = VisitNode(run[n - 1], sexpr[n])
                    /\ Make(sexpr) = run[Len(sexpr)][1]
<1> DEFINE Entry(f, n) == IF n = 0 THEN << >> ELSE VisitNode(f[n - 1], sexpr[n])
           IsPrefixRun(f, n) == f = [m \in 0..n |-> Entry(f, m)]
           T == {n \in Nat : \E f : IsPrefixRun(f, n)}
<1>1. 0 \in T
  <2>1. IsPrefixRun([m \in 0..0 |-> << >>], 0)
        OBVIOUS
  <2> QED BY <2>1
<1>2. ASSUME NEW n \in Nat, n \in T
      PROVE  n + 1 \in T
  <2>1. PICK f : IsPrefixRun(f, n)
        BY <1>2
  <2> DEFINE g == [m \in 0..(n + 1) |-> IF m <= n THEN f[m] ELSE VisitNode(f[n], sexpr[n + 1])]
  <2>2. ASSUME NEW m \in 0..(n + 1)
        PROVE  g[m] = Entry(g, m)
    <3>1. CASE m <= n
      <4>1. g[m] = Entry(f, m)
            BY <2>1, <3>1
      <4>2. m # 0 => g[m - 1] = f[m - 1]
            BY <3>1
      <4> QED BY <4>1, <4>2
    <3>2. CASE m = n + 1
      <4>1. g[m] = VisitNode(f[n], sexpr[n + 1]) /\ g[m - 1] = f[n] /\ m # 0
            BY <3>2
      <4> QED BY <3>2, <4>1
    <3> QED BY <3>1, <3>2
  <2>3. IsPrefixRun(g, n + 1)
        BY <2>2
  <2> HIDE DEF IsPrefixRun, g
  <2> QED BY <2>3
<1>3. PICK f : IsPrefixRun(f, Len(sexpr))
  <2> HIDE DEF IsPrefixRun
  <2>1. Nat \subseteq T
    <3> HIDE DEF T
    <3> QED BY <1>1, <1>2, NaturalsFrom
  <2> QED BY <2>1
<1> DEFINE r == CHOOSE stack : stack = [n \in 0..Len(sexpr) |-> Entry(stack, n)]
<1>4. r = [n \in 0..Len(sexpr) |-> Entry(r, n)]
      BY <1>3
<1>5. Make(sexpr) = r[Len(sexpr)][1]
      BY DEF Make
<1>6. r[0] = << >> /\ \A n \in 1..Len(sexpr) : r[n] = VisitNode(r[n - 1], sexpr[n])
  <2> HIDE DEF r
  <2> QED BY <1>4
<1> QED BY <1>5, <1>6

(* MergeLattice::make: the lattice of an expression that reads no array     *)
(* twice is well formed, however many operands there are and in whatever    *)
(* way they are nested.                                                     *)
THEOREM MakeWellFormed ==
    ASSUME NEW e, IsExpression(e), ReadsOnce(e)
    PROVE  WellFormedLattice(Make(Convert(e)), e)
<1>1. Len(e) \in Nat /\ DOMAIN e = 1..Len(e)
      BY ExpressionTokens
<1>2. Len(Convert(e)) = Len(e)
      BY <1>1, ConvertedLength
<1>3. PICK run : /\ run[0] = << >>
                 /\ \A n \in 1..Len(e) : run[n] = VisitNode(run[n - 1], Convert(e)[n])
                 /\ Make(Convert(e)) = run[Len(e)][1]
  <2> DEFINE sexpr == Convert(e)
  <2>1. Len(sexpr) = Len(e)
        BY <1>2
  <2> HIDE DEF sexpr
  <2>2. \E run : /\ run[0] = << >>
                 /\ \A n \in 1..Len(e) : run[n] = VisitNode(run[n - 1], sexpr[n])
                 /\ Make(sexpr) = run[Len(e)][1]
        BY ONLY <1>1, <2>1, MakeRun
  <2> QED BY <2>2 DEF sexpr
<1> DEFINE T == {n \in 0..Len(e) : Visited(e, n, run[n])}
<1>4. 0 \in T
      BY <1>1, <1>3, VisitsNothing
<1>5. ASSUME NEW n \in 0..(Len(e) - 1), n \in T
      PROVE  n + 1 \in T
  <2>1. n + 1 \in 1..Len(e) /\ (n + 1) - 1 = n
        BY <1>1
  <2>2. Visited(e, n + 1, VisitNode(run[n], Convert(e)[n + 1]))
        BY <1>5, VisitStep
  <2> QED BY <2>1, <2>2, <1>3
<1>6. Visited(e, Len(e), run[Len(e)])
  <2>1. 0..Len(e) \subseteq T
    <3> DEFINE k == Len(e)
    <3>1. k \in Nat /\ 0 \in T /\ \A n \in 0..(k - 1) : n \in T => n + 1 \in T
          BY <1>1, <1>4, <1>5
    <3> HIDE DEF k, T
    <3>2. 0..k \subseteq T
          BY ONLY <3>1, NaturalsUpTo
    <3> QED BY <3>2 DEF k
  <2> QED BY <1>1, <2>1
<1>7. LatticeFor(Operands(e), run[Len(e)][1], e)
      BY <1>6, VisitedAll
<1> QED BY <1>3, <1>7, LatticeForWellFormed
============================================================================
