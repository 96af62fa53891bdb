---------------------------- MODULE KernelCProofs ----------------------------
(***************************************************************************)
(* The statements that lower emits do what the iterations of Kernel do,    *)
(* for every assignment, in all formats and for every dimension; their     *)
(* variables are in scope when they are used, and current.                 *)
(***************************************************************************)
EXTENDS KernelC, LatticeProofs

-----------------------------------------------------------------------------
(* Sequences of statements. *)

(* What is left of a sequence after its first n elements. *)
After(s, n) == [m \in 1..(Len(s) - n) |-> s[n + m]]

LEMMA AfterNothing ==
    ASSUME NEW P, NEW s \in Seq(P)
    PROVE  After(s, 0) = s
BY DEF After

LEMMA AfterAll ==
    ASSUME NEW P, NEW s \in Seq(P)
    PROVE  After(s, Len(s)) = << >>
<1>1. Len(s) \in Nat
      OBVIOUS
<1> QED BY <1>1 DEF After

LEMMA AfterNext ==
    ASSUME NEW P, NEW s \in Seq(P), NEW n \in Nat, n < Len(s), NEW k, k = n + 1
    PROVE  /\ After(s, n) # << >>
           /\ After(s, n)[1] = s[k]
           /\ Tail(After(s, n)) = After(s, k)
           /\ Len(After(s, n)) = Len(s) - n
<1> DEFINE a == After(s, n)
           b == After(s, k)
           l == Len(s) - n
<1>1. Len(s) \in Nat /\ l \in Nat \ {0} /\ \A m \in 1..Len(s) : s[m] \in P
      OBVIOUS
<1>2. a = [m \in 1..l |-> s[n + m]] /\ \A m \in 1..l : s[n + m] \in P
      BY <1>1 DEF After
<1>3. a \in Seq(P) /\ Len(a) = l /\ \A m \in 1..l : a[m] = s[n + m]
  <2> HIDE DEF a, l
  <2> QED BY <1>1, <1>2
<1>4. a # << >> /\ a[1] = s[k]
  <2>1. a[1] = s[n + 1]
        BY <1>1, <1>3
  <2>2. Len(<< >>) = 0
        OBVIOUS
  <2> HIDE DEF a, l
  <2> QED BY <1>1, <1>3, <2>1, <2>2
<1>5. /\ Tail(a) \in Seq(P) /\ Len(Tail(a)) = l - 1
      /\ \A m \in 1..(l - 1) : Tail(a)[m] = a[m + 1]
  <2> HIDE DEF a, l
  <2> QED BY <1>1, <1>3, <1>4
<1>6. ASSUME NEW m \in 1..(l - 1)
      PROVE  a[m + 1] = s[k + m] /\ s[k + m] \in P
  <2>1. m + 1 \in 1..l /\ n + (m + 1) = k + m
        BY <1>1
  <2> HIDE DEF a, l
  <2> QED BY <1>2, <1>3, <2>1
<1>7. b = [m \in 1..(l - 1) |-> s[k + m]]
  <2>1. Len(s) - k = l - 1
        BY <1>1
  <2> HIDE DEF l
  <2> QED BY <2>1 DEF After
<1> HIDE DEF a, b, l
<1>8. b \in Seq(P) /\ Len(b) = l - 1 /\ \A m \in 1..(l - 1) : b[m] = s[k + m]
  <2> DEFINE v == l - 1
  <2>1. v \in Nat
        BY <1>1
  <2>2. b = [m \in 1..v |-> s[k + m]] /\ \A m \in 1..v : s[k + m] \in P
        BY <1>6, <1>7
  <2> HIDE DEF v
  <2>3. b \in Seq(P) /\ Len(b) = v /\ \A m \in 1..v : b[m] = s[k + m]
        BY ONLY <2>1, <2>2
  <2> QED BY <2>3 DEF v
<1>9. Tail(a) = b
      BY <1>5, <1>6, <1>8, SeqEqual
<1> QED BY <1>3, <1>4, <1>9 DEF a, b, l

LEMMA OneThen ==
    ASSUME NEW P, NEW s, NEW t \in Seq(P), NEW r, r = <<s>> \o t
    PROVE  /\ r # << >> /\ r[1] = s
           /\ Len(r) = Len(t) + 1
           /\ Tail(r) = t
<1> DEFINE Q == P \cup {s}
<1>1. t \in Seq(Q) /\ <<s>> \in Seq(Q) /\ Len(<<s>>) = 1 /\ <<s>>[1] = s
      OBVIOUS
<1>2. Len(t) \in Nat
      OBVIOUS
<1> HIDE DEF Q
<1>3. r \in Seq(Q) /\ AreConcatenated(r, <<s>>, t)
      BY <1>1, Concatenated
<1>4. Len(r) = Len(t) + 1 /\ r[1] = s /\ \A m \in 1..Len(t) : r[1 + m] = t[m]
      BY <1>1, <1>2, <1>3 DEF AreConcatenated
<1>5. r # << >>
      BY <1>2, <1>4
<1>6. /\ Tail(r) \in Seq(Q) /\ Len(Tail(r)) = Len(t)
      /\ \A m \in 1..Len(t) : Tail(r)[m] = r[m + 1]
      BY <1>2, <1>3, <1>4, <1>5
<1>7. \A m \in 1..Len(t) : Tail(r)[m] = t[m]
      BY <1>2, <1>4, <1>6
<1>8. Tail(r) = t
      BY <1>1, <1>6, <1>7, SeqEqual
<1> QED BY <1>4, <1>5, <1>8
-----------------------------------------------------------------------------
(* What lower makes of a point. *)

LEMMA LevelIs ==
    ASSUME NEW x, NEW dense
    PROVE  /\ ArrayLevel(x, dense).name = x
           /\ IsCompressed(ArrayLevel(x, dense)) <=> x \notin dense
BY DEF ArrayLevel, IsCompressed, Dense, Compressed

(* The compressed iterators of a point, each position once. *)
AreCompressed(levels, its, dense) ==
    /\ IsList(levels)
    /\ \A m \in 1..Len(levels) : \E n \in DOMAIN its :
          its[n] \notin dense /\ levels[m] = ArrayLevel(its[n], dense)
    /\ \A n \in DOMAIN its : its[n] \notin dense =>
          \E m \in 1..Len(levels) : levels[m] = ArrayLevel(its[n], dense)
    /\ (\A m, n \in DOMAIN its : its[m] = its[n] /\ its[m] \notin dense => m = n)
          => \A m, n \in 1..Len(levels) : levels[m].name = levels[n].name => m = n

LEMMA LevelsAre ==
    ASSUME NEW names, NEW its \in Seq(names), NEW dense
    PROVE  AreCompressed(CompressedLevels(its, dense), its, dense)
<1> DEFINE S == {n \in DOMAIN its : IsCompressed(ArrayLevel(its[n], dense))}
           kept == InOrder(S, Len(its))
           levels == CompressedLevels(its, dense)
<1>1. Len(its) \in Nat /\ DOMAIN its = 1..Len(its)
      OBVIOUS
<1>2. IsAscending(kept, S, Len(its))
  <2> HIDE DEF S
  <2> QED BY <1>1, InOrderAscending
<1>3. \A n : n \in S <=> n \in DOMAIN its /\ its[n] \notin dense
      BY LevelIs
<1>4. levels = [m \in DOMAIN kept |-> ArrayLevel(its[kept[m]], dense)]
      BY DEF CompressedLevels
<1> HIDE DEF S, kept, levels
<1>5. kept \in Seq(Nat) /\ DOMAIN kept = 1..Len(kept) /\ Len(kept) \in Nat
      BY <1>2 DEF IsAscending
<1>6. \A m \in 1..Len(kept) : kept[m] \in S /\ kept[m] \in DOMAIN its /\ kept[m] \in Nat
      BY <1>1, <1>2 DEF IsAscending
<1>7. levels = [m \in 1..Len(kept) |-> ArrayLevel(its[kept[m]], dense)]
      BY <1>4, <1>5
<1>8. IsList(levels) /\ Len(levels) = Len(kept)
  <2> DEFINE P == {ArrayLevel(its[kept[m]], dense) : m \in 1..Len(kept)}
  <2>1. levels \in Seq(P) /\ Len(levels) = Len(kept)
        BY <1>5, <1>7
  <2> QED BY <2>1 DEF IsList
<1>9. ASSUME NEW m \in 1..Len(levels)
      PROVE  \E n \in DOMAIN its : its[n] \notin dense /\ levels[m] = ArrayLevel(its[n], dense)
      BY <1>3, <1>6, <1>7, <1>8
<1>10. ASSUME NEW n \in DOMAIN its, its[n] \notin dense
       PROVE  \E m \in 1..Len(levels) : levels[m] = ArrayLevel(its[n], dense)
  <2>1. n \in S /\ n \in 1..Len(its)
        BY <1>1, <1>3, <1>10
  <2>2. PICK m \in 1..Len(kept) : kept[m] = n
        BY <1>2, <2>1 DEF IsAscending
  <2> QED BY <1>7, <1>8, <2>2
<1>11. ASSUME \A m, n \in DOMAIN its : its[m] = its[n] /\ its[m] \notin dense => m = n,
              NEW m \in 1..Len(levels), NEW n \in 1..Len(levels), levels[m].name = levels[n].name
       PROVE  m = n
  <2>1. its[kept[m]] = its[kept[n]] /\ its[kept[m]] \notin dense
        BY <1>3, <1>6, <1>7, <1>8, <1>11, LevelIs
  <2>2. kept[m] = kept[n]
        BY <1>6, <1>8, <1>11, <2>1
  <2>3. ~(m < n) /\ ~(n < m)
        BY <1>2, <1>6, <1>8, <2>2 DEF IsAscending
  <2> QED BY <1>5, <1>8, <2>3
<1> QED BY <1>8, <1>9, <1>10, <1>11 DEF AreCompressed, levels

(* The body of the loop of a point: the loads, i, the choice, the increments. *)
IsBody(body, p, point, choice, loads) ==
    /\ IsList(body)
    /\ Len(body) = loads + 2 + Len(point.iterators)
    /\ \A m \in 1..loads :
          body[m] = CompressedIndexDefinition(CompressedLevels(point.iterators, p.dense)[m])
    /\ body[loads + 1] = LogicalIndexDefinition(ArrayLevels(point.iterators, p.dense))
    /\ body[loads + 2] = choice
    /\ After(body, loads + 1) = <<choice>> \o LowerIncrements(p, point)

LEMMA BodyIs ==
    ASSUME NEW names, NEW p, NEW point, point.iterators \in Seq(names),
           NEW choice, LowerChoice(p, point) = <<choice>>
    PROVE  IsBody(LowerPoint(p, point).body, p, point, choice,
                  Len(CompressedLevels(point.iterators, p.dense)))
<1> DEFINE its == point.iterators
           levels == CompressedLevels(its, p.dense)
           loads == [m \in DOMAIN levels |-> CompressedIndexDefinition(levels[m])]
           logical == LogicalIndexDefinition(ArrayLevels(its, p.dense))
           incs == LowerIncrements(p, point)
           a == loads \o <<logical>>
           b == a \o <<choice>>
           body == b \o incs
           L == Len(levels)
           P == {loads[m] : m \in DOMAIN levels} \cup {logical, choice} \cup {incs[m] : m \in DOMAIN its}
<1>1. LowerPoint(p, point).body = body
      BY DEF LowerPoint, LowerIndices, WhileStmt
<1>2. AreCompressed(levels, its, p.dense)
      BY LevelsAre
<1>3. L \in Nat /\ DOMAIN levels = 1..L
  <2> HIDE DEF levels
  <2> QED BY <1>2 DEF AreCompressed, IsList
<1>4. loads \in Seq(P) /\ Len(loads) = L /\ \A m \in 1..L : loads[m] = CompressedIndexDefinition(levels[m])
  <2> HIDE DEF levels, L
  <2>1. loads = [m \in 1..L |-> loads[m]] /\ \A m \in 1..L : loads[m] \in P
        BY <1>3
  <2>2. \A m \in 1..L : loads[m] = CompressedIndexDefinition(levels[m])
        BY <1>3
  <2> HIDE DEF loads, P
  <2> QED BY <1>3, <2>1, <2>2
<1>5. incs \in Seq(P) /\ Len(incs) = Len(its) /\ Len(its) \in Nat
  <2>1. Len(its) \in Nat /\ DOMAIN its = 1..Len(its)
        OBVIOUS
  <2>2. incs = [m \in 1..Len(its) |-> incs[m]]
        BY <2>1 DEF LowerIncrements
  <2>3. \A m \in 1..Len(its) : incs[m] \in P
        BY <2>1
  <2> HIDE DEF incs, P, its
  <2> QED BY <2>1, <2>2, <2>3
<1>6. <<logical>> \in Seq(P) /\ <<choice>> \in Seq(P)
  <2>1. logical \in P /\ choice \in P
        OBVIOUS
  <2> HIDE DEF P, logical
  <2> QED BY <2>1
<1> HIDE DEF P, loads, logical, incs, levels, its, L
<1>7. a \in Seq(P) /\ AreConcatenated(a, loads, <<logical>>)
      BY <1>4, <1>6, Concatenated
<1> HIDE DEF a
<1>8. b \in Seq(P) /\ AreConcatenated(b, a, <<choice>>)
      BY <1>6, <1>7, Concatenated
<1> HIDE DEF b
<1>9. body \in Seq(P) /\ AreConcatenated(body, b, incs)
      BY <1>5, <1>8, Concatenated
<1>10. IsList(body)
       BY <1>9 DEF IsList
<1> HIDE DEF body
<1>11. Len(a) = L + 1 /\ a[L + 1] = logical /\ \A m \in 1..L : a[m] = loads[m]
       BY <1>3, <1>4, <1>7 DEF AreConcatenated
<1>12. Len(b) = L + 2 /\ b[L + 2] = choice /\ b[L + 1] = logical /\ \A m \in 1..L : b[m] = loads[m]
       BY <1>3, <1>8, <1>11 DEF AreConcatenated
<1>13. /\ Len(body) = L + 2 + Len(its)
       /\ body[L + 2] = choice /\ body[L + 1] = logical /\ \A m \in 1..L : body[m] = loads[m]
       /\ \A m \in 1..Len(its) : body[L + 2 + m] = incs[m]
       BY <1>3, <1>5, <1>9, <1>12 DEF AreConcatenated
<1>14. After(body, L + 1) = <<choice>> \o incs
  <2> DEFINE r == <<choice>> \o incs
             q == After(body, L + 1)
             l == Len(its) + 1
  <2>1. r \in Seq(P) /\ AreConcatenated(r, <<choice>>, incs)
        BY <1>5, <1>6, Concatenated
  <2> HIDE DEF r
  <2>2. Len(r) = l /\ r[1] = choice /\ \A m \in 1..Len(its) : r[1 + m] = incs[m]
        BY <1>5, <2>1 DEF AreConcatenated
  <2>3. q = [m \in 1..l |-> body[L + 1 + m]]
    <3>1. Len(body) - (L + 1) = l
          BY <1>3, <1>5, <1>13
    <3> HIDE DEF l
    <3> QED BY <3>1 DEF After
  <2>4. ASSUME NEW m \in 1..l
        PROVE  body[L + 1 + m] = r[m] /\ body[L + 1 + m] \in P
    <3>1. body[L + 1 + m] = r[m]
      <4>1. CASE m = 1
        <5>1. L + 1 + m = L + 2
              BY <1>3, <4>1
        <5> QED BY <1>13, <2>2, <4>1, <5>1
      <4>2. CASE m # 1
        <5>1. m - 1 \in 1..Len(its) /\ L + 1 + m = L + 2 + (m - 1) /\ m = 1 + (m - 1)
              BY <1>3, <1>5, <4>2
        <5> QED BY <1>13, <2>2, <5>1
      <4> QED BY <4>1, <4>2
    <3>2. r[m] \in P
          BY <2>1, <2>2
    <3> QED BY <3>1, <3>2
  <2>5. q \in Seq(P) /\ Len(q) = l /\ \A m \in 1..l : q[m] = r[m]
    <3>1. l \in Nat
          BY <1>5
    <3> HIDE DEF l, q
    <3> QED BY <2>3, <2>4, <3>1
  <2> HIDE DEF q, l
  <2>6. q = r
        BY <2>1, <2>2, <2>5, SeqEqual
  <2> QED BY <2>6 DEF q, r
<1> QED BY <1>1, <1>4, <1>10, <1>13, <1>14 DEF IsBody, L, levels, its, logical, incs
(* The store of an expression in the result. *)
Storage(p, e) == ArrayAssignment(ArrayLevel(p.lhs, p.dense), ConvertLIR(e, p.dense))

(* The if of a point: the positions of its branches are in kept. *)
IsIf(choice, p, point, kept) ==
    /\ choice.stmt = "IfStmt"
    /\ IsAscending(kept, BranchPoints(p, point), Len(p.points))
    /\ DOMAIN choice.conditions = 1..Len(kept)
    /\ \A n \in 1..Len(kept) :
          /\ choice.conditions[n] = CompressedLevels(p.points[kept[n]].iterators, p.dense)
          /\ choice.bodies[n] = <<Storage(p, p.points[kept[n]].expr)>>

LEMMA ChoiceIs ==
    ASSUME NEW p, NEW point, Len(p.points) \in Nat, DOMAIN p.points = 1..Len(p.points)
    PROVE  \E choice :
              /\ LowerChoice(p, point) = <<choice>>
              /\ BranchPoints(p, point) = {} => choice = Storage(p, p.rhs)
              /\ BranchPoints(p, point) # {} => \E kept : IsIf(choice, p, point, kept)
<1> DEFINE B == BranchPoints(p, point)
           kept == InOrder(B, Len(p.points))
           branches == LowerBranches(p, point)
<1>1. IsAscending(kept, B, Len(p.points))
  <2> HIDE DEF B
  <2> QED BY InOrderAscending
<1>2. branches = [n \in DOMAIN kept |-> p.points[kept[n]]]
      BY DEF LowerBranches
<1>3. B \subseteq 1..Len(p.points)
      BY DEF BranchPoints
<1> HIDE DEF B, kept
<1>4. kept \in Seq(Nat) /\ Len(kept) \in Nat /\ DOMAIN kept = 1..Len(kept)
      BY <1>1 DEF IsAscending
<1>5. branches = << >> <=> Len(kept) = 0
      BY <1>2, <1>4
<1>6. B = {} <=> Len(kept) = 0
  <2>1. ASSUME B = {} PROVE Len(kept) = 0
    <3>1. \A m \in 1..Len(kept) : FALSE
          BY <1>1, <2>1 DEF IsAscending
    <3> QED BY <1>4, <3>1
  <2>2. ASSUME Len(kept) = 0 PROVE B = {}
        BY <1>1, <1>3, <2>2 DEF IsAscending
  <2> QED BY <2>1, <2>2
<1>7. CASE B = {}
  <2>1. LowerChoice(p, point) = <<Storage(p, p.rhs)>>
        BY <1>5, <1>6, <1>7 DEF LowerChoice, LowerBody, Storage
  <2> QED BY <1>7, <2>1 DEF B
<1>8. CASE B # {}
  <2> DEFINE choice == IfStmt([n \in DOMAIN branches |-> CompressedLevels(branches[n].iterators, p.dense)],
                              [n \in DOMAIN branches |-> LowerBody(p, branches[n].expr)])
  <2>1. LowerChoice(p, point) = <<choice>>
        BY <1>5, <1>6, <1>8 DEF LowerChoice
  <2>2. IsIf(choice, p, point, kept)
    <3>1. DOMAIN branches = 1..Len(kept) /\ \A n \in 1..Len(kept) : branches[n] = p.points[kept[n]]
          BY <1>2, <1>4
    <3>2. /\ choice.stmt = "IfStmt"
          /\ choice.conditions = [n \in DOMAIN branches |-> CompressedLevels(branches[n].iterators, p.dense)]
          /\ choice.bodies = [n \in DOMAIN branches |-> LowerBody(p, branches[n].expr)]
          BY DEF IfStmt
    <3> HIDE DEF choice, branches
    <3> QED BY <1>1, <3>1, <3>2 DEF IsIf, LowerBody, Storage, B
  <2> QED BY <1>8, <2>1, <2>2 DEF B
<1> QED BY <1>7, <1>8

(* A point is a branch when it has a compressed iterator. *)
LEMMA HasCompressed ==
    ASSUME NEW names, NEW its \in Seq(names), NEW dense
    PROVE  CompressedLevels(its, dense) # << >> <=> \E n \in DOMAIN its : its[n] \notin dense
<1> DEFINE levels == CompressedLevels(its, dense)
<1>1. AreCompressed(levels, its, dense)
      BY LevelsAre
<1> HIDE DEF levels
<1>2. PICK P : levels \in Seq(P)
      BY <1>1 DEF AreCompressed, IsList
<1>3. levels # << >> <=> 1 \in 1..Len(levels)
      BY <1>2
<1>4. Len(levels) \in Nat
      BY <1>2
<1>5. (\E m \in 1..Len(levels) : TRUE) <=> levels # << >>
      BY <1>3, <1>4
<1> QED BY <1>1, <1>5 DEF AreCompressed, levels

-----------------------------------------------------------------------------
(* The iterators that are defined are those of the written array and of the *)
(* arrays that are read.                                                    *)

LEMMA FirstReadExists ==
    ASSUME NEW P, NEW e \in Seq(P), NEW x \in Operands(e),
           \A m, n \in DOMAIN e : e[m].op = "read" /\ e[n].op = "read" /\ e[m].name = e[n].name => e[m] = e[n]
    PROVE  \E n \in FirstReads(e) : e[n].name = x
<1> DEFINE T == {n \in DOMAIN e : e[n].op = "read" /\ e[n].name = x}
<1>1. DOMAIN e = 1..Len(e) /\ Len(e) \in Nat
      OBVIOUS
<1>2. T # {} /\ T \subseteq Nat
      BY <1>1 DEF Operands
<1>3. PICK n \in T : \A m \in T : n <= m
  <2> HIDE DEF T
  <2> QED BY <1>2, LeastNumber
<1>4. ASSUME NEW m \in 1..(n - 1)
      PROVE  e[m] # e[n]
  <2>1. m \in DOMAIN e /\ ~(n <= m)
        BY <1>1, <1>3
  <2>2. m \notin T
        BY <1>3, <2>1
  <2> QED BY <1>3, <2>1, <2>2
<1> QED BY <1>3, <1>4 DEF FirstReads

LEMMA GatheredAre ==
    ASSUME NEW p, NEW names, p.rhs \in Seq(Tokens(names))
    PROVE  {a.name : a \in Range(GatherIteratorSet(p))} = {p.lhs} \cup Operands(p.rhs)
<1> DEFINE e == p.rhs
           S == {n \in FirstReads(e) : e[n].name # p.lhs}
           first == InOrder(S, Len(e))
           reads == [n \in DOMAIN first |-> ArrayLevel(e[first[n]].name, p.dense)]
           lhs == ArrayLevel(p.lhs, p.dense)
           all == GatherIteratorSet(p)
           P == {reads[n] : n \in DOMAIN first}
<1>1. e \in Seq(Tokens(names)) /\ Len(e) \in Nat /\ DOMAIN e = 1..Len(e) /\ \A n \in DOMAIN e : e[n] \in Tokens(names)
      OBVIOUS
<1>2. all = <<lhs>> \o reads
      BY DEF GatherIteratorSet
<1>3. IsAscending(first, S, Len(e))
  <2> HIDE DEF S, e
  <2> QED BY <1>1, InOrderAscending
<1>4. \A n : n \in S <=> n \in DOMAIN e /\ n \in FirstReads(e) /\ e[n].name # p.lhs
      BY DEF FirstReads
<1>5. FirstReads(e) \subseteq {n \in DOMAIN e : e[n].op = "read"}
      BY DEF FirstReads
<1>6. ASSUME NEW x \in Operands(e)
      PROVE  \E n \in FirstReads(e) : e[n].name = x
  <2>1. \A n \in DOMAIN e : e[n].op = "read" => e[n] = Read(e[n].name)
        BY <1>1 DEF Tokens, Add, Mul, Read
  <2>2. \A m, n \in DOMAIN e : e[m].op = "read" /\ e[n].op = "read" /\ e[m].name = e[n].name => e[m] = e[n]
        BY <2>1
  <2> HIDE DEF e
  <2> QED BY <1>1, <2>2, FirstReadExists
<1> HIDE DEF S, first
<1>7. first \in Seq(Nat) /\ DOMAIN first = 1..Len(first) /\ Len(first) \in Nat
      BY <1>3 DEF IsAscending
<1>8. reads \in Seq(P) /\ Len(reads) = Len(first) /\ \A n \in 1..Len(first) : reads[n] = ArrayLevel(e[first[n]].name, p.dense)
  <2>1. reads = [n \in 1..Len(first) |-> reads[n]] /\ \A n \in 1..Len(first) : reads[n] \in P
        BY <1>7
  <2>2. \A n \in 1..Len(first) : reads[n] = ArrayLevel(e[first[n]].name, p.dense)
        BY <1>7
  <2> HIDE DEF reads, P
  <2> QED BY <1>7, <2>1, <2>2
<1> DEFINE Q == P \cup {lhs}
<1>9. reads \in Seq(Q) /\ <<lhs>> \in Seq(Q)
  <2>1. P \subseteq Q /\ lhs \in Q
        OBVIOUS
  <2> HIDE DEF P, Q, reads, lhs
  <2> QED BY <1>8, <2>1
<1> HIDE DEF reads, P, Q, all, lhs
<1>10. all \in Seq(Q) /\ AreConcatenated(all, <<lhs>>, reads)
       BY <1>2, <1>9, Concatenated
<1>11. Len(<<lhs>>) = 1 /\ <<lhs>>[1] = lhs
       OBVIOUS
<1>12. /\ DOMAIN all = 1..(Len(first) + 1)
       /\ all[1] = lhs /\ \A n \in 1..Len(first) : all[1 + n] = ArrayLevel(e[first[n]].name, p.dense)
       BY <1>7, <1>8, <1>10, <1>11 DEF AreConcatenated
<1>13. ASSUME NEW k \in DOMAIN all
       PROVE  all[k].name \in {p.lhs} \cup Operands(e)
  <2>1. CASE k = 1
        BY <1>12, <2>1, LevelIs DEF lhs
  <2>2. CASE k # 1
    <3>1. k - 1 \in 1..Len(first) /\ k = 1 + (k - 1)
          BY <1>7, <1>12, <2>2
    <3>2. all[k].name = e[first[k - 1]].name
          BY <1>12, <3>1, LevelIs
    <3>3. first[k - 1] \in S
          BY <1>3, <3>1 DEF IsAscending
    <3>4. first[k - 1] \in DOMAIN e /\ e[first[k - 1]].op = "read"
          BY <1>4, <1>5, <3>3
    <3> QED BY <3>2, <3>4 DEF Operands
  <2> QED BY <2>1, <2>2
<1>14. ASSUME NEW x \in {p.lhs} \cup Operands(e)
       PROVE  \E k \in DOMAIN all : all[k].name = x
  <2>1. CASE x = p.lhs
    <3>1. 1 \in DOMAIN all
          BY <1>7, <1>12
    <3> QED BY <1>12, <2>1, <3>1, LevelIs DEF lhs
  <2>2. CASE x # p.lhs
    <3>1. PICK n \in FirstReads(e) : e[n].name = x
          BY <1>6, <1>14, <2>2
    <3>2. n \in S /\ n \in 1..Len(e)
          BY <1>1, <1>4, <1>5, <2>2, <3>1
    <3>3. PICK m \in 1..Len(first) : first[m] = n
          BY <1>3, <3>2 DEF IsAscending
    <3>4. 1 + m \in DOMAIN all /\ all[1 + m] = ArrayLevel(x, p.dense)
          BY <1>7, <1>12, <3>1, <3>3
    <3> QED BY <3>4, LevelIs
  <2> QED BY <2>1, <2>2
<1> HIDE DEF e
<1>15. \A x : x \in {a.name : a \in Range(all)} <=> \E k \in DOMAIN all : all[k].name = x
       BY DEF Range
<1>16. {a.name : a \in Range(all)} = {p.lhs} \cup Operands(e)
       BY <1>13, <1>14, <1>15
<1> QED BY <1>16 DEF all, e

(* The first statement of the code, and its loops. *)
LEMMA LoweredAre ==
    ASSUME NEW p, Len(p.points) \in Nat, DOMAIN p.points = 1..Len(p.points)
    PROVE  /\ Lower(p)[1] = IteratorDefinition(GatherIteratorSet(p))
           /\ Tail(Lower(p)) = [k \in DOMAIN p.points |-> LowerPoint(p, p.points[k])]
           /\ Len([k \in DOMAIN p.points |-> LowerPoint(p, p.points[k])]) = Len(p.points)
<1> DEFINE loops == [k \in DOMAIN p.points |-> LowerPoint(p, p.points[k])]
           P == {loops[k] : k \in DOMAIN p.points}
<1>1. loops \in Seq(P) /\ Len(loops) = Len(p.points)
  <2>1. loops = [k \in 1..Len(p.points) |-> loops[k]] /\ \A k \in 1..Len(p.points) : loops[k] \in P
        OBVIOUS
  <2> HIDE DEF loops, P
  <2> QED BY <2>1
<1>2. Lower(p) = <<IteratorDefinition(GatherIteratorSet(p))>> \o loops
      BY DEF Lower
<1> HIDE DEF loops, P
<1>3. /\ Lower(p)[1] = IteratorDefinition(GatherIteratorSet(p))
      /\ Tail(Lower(p)) = loops
      BY <1>1, <1>2, OneThen
<1> QED BY <1>1, <1>3 DEF loops
-----------------------------------------------------------------------------
(* The hypothesis on the assignments: expressions and a lattice over their  *)
(* arrays, whatever its points, and none of them without iterators.         *)
IsProgram(p) ==
    /\ p.points \in LatticesOver(Operands(p.rhs))
    /\ \A k \in DOMAIN p.points : Its(p.points[k]) # {}
    /\ p.rhs \in Seq(Tokens(Operands(p.rhs)))

ProgramsTyped == \A p \in Programs : IsProgram(p)

(* Kernel without the fairness of its specification. *)
KernelSafety == K!Init /\ [][K!Next]_(K!vars)

-----------------------------------------------------------------------------
(* The inductive invariant: which part of the body of the running loop is   *)
(* left, and what the statements before it have done since the head.        *)

LoopPoint == prog.points[loop]

Loads      == CompressedLevels(LoopPoint.iterators, prog.dense)
Body       == LowerPoint(prog, LoopPoint).body
Increments == LowerIncrements(prog, LoopPoint)
Bump       == IncrementIterator(ArrayLevel(prog.lhs, prog.dense), TRUE)

(* The x_i that the first n loads define. *)
Loaded(n) == [x \in {Loads[m].name : m \in 1..n} |-> crd[x][head.iter[x] + 1]]

(* The expressions that an iteration may store. *)
FirstMatches == {j \in DOMAIN prog.points : K!IsFirstMatch(loop, j, i)}
Chosen       == {prog.points[j].expr : j \in FirstMatches} \cup {e \in {prog.rhs} : K!Branches(loop) = {}}
Stored(e)    == [head.values EXCEPT ![K!Position(prog.lhs, i)] = K!Computed(e, i)]
Skipped      == K!Branches(loop) # {} /\ \A j \in K!Branches(loop) : ~K!Matches(j, i)

(* The iterators after the first n increments. *)
Repeated(n, x) == Cardinality({m \in 1..n : LoopPoint.iterators[m] = x})
Moved(n, stored) ==
    [x \in K!Gathered(prog) |->
        head.iter[x]
          + (IF x \in Its(LoopPoint) /\ (K!IsDense(x) \/ K!Index(x) = i) THEN Repeated(n, x) ELSE 0)
          + (IF stored /\ x = prog.lhs /\ ~K!IsDense(x) THEN 1 ELSE 0)]

AtHead == rest = << >> /\ iter = head.iter /\ i = head.i /\ values = head.values

Loading ==
    /\ \E n \in 0..Len(Loads) : rest = After(Body, n) /\ index = Loaded(n)
    /\ iter = head.iter /\ i = head.i /\ values = head.values

Merged == i \in K!Coords /\ K!IsLogicalIndex(loop, i) /\ index = Loaded(Len(Loads))

Choosing ==
    /\ Merged
    /\ K!Branches(loop) # {}
    /\ rest = After(Body, Len(Loads) + 1)
    /\ iter = head.iter /\ values = head.values

Storing ==
    /\ Merged
    /\ \E e \in Chosen : rest = <<Storage(prog, e)>> \o Increments
    /\ iter = head.iter /\ values = head.values

Bumping ==
    /\ Merged
    /\ ~K!IsDense(prog.lhs)
    /\ rest = <<Bump>> \o Increments
    /\ iter = head.iter /\ \E e \in Chosen : values = Stored(e)

Outcome(stored) ==
    IF stored THEN \E e \in Chosen : values = Stored(e) ELSE Skipped /\ values = head.values

Incrementing ==
    /\ Merged
    /\ \E n \in 0..(Len(LoopPoint.iterators) - 1), stored \in BOOLEAN :
          rest = After(Increments, n) /\ iter = Moved(n, stored) /\ Outcome(stored)

InBody ==
    /\ loop \in DOMAIN prog.points
    /\ K!Guard(loop)
    /\ Loading \/ Choosing \/ Storing \/ Bumping \/ Incrementing

Inv ==
    /\ IsProgram(prog) /\ K!CompilesInC(prog)
    /\ code = Lower(prog)
    /\ K!TypeOK
    /\ AtHead \/ InBody

-----------------------------------------------------------------------------
LEMMA Shape ==
    ASSUME NEW p, IsProgram(p)
    PROVE  /\ Len(p.points) \in Nat /\ DOMAIN p.points = 1..Len(p.points)
           /\ \A k \in DOMAIN p.points :
                 /\ p.points[k].iterators \in Seq(Operands(p.rhs))
                 /\ Len(p.points[k].iterators) \in Nat \ {0}
                 /\ DOMAIN p.points[k].iterators = 1..Len(p.points[k].iterators)
                 /\ p.points[k].expr \in Seq(Tokens(Operands(p.rhs)))
                 /\ Operands(p.points[k].expr) \subseteq Operands(p.rhs)
                 /\ Its(p.points[k]) \subseteq Operands(p.rhs)
                 /\ Its(p.points[k]) # {}
<1> DEFINE ops == Operands(p.rhs)
           PT == [iterators : Seq(ops), expr : Seq(Tokens(ops))]
           pts == p.points
<1>1. pts \in Seq(PT)
      BY DEF IsProgram, LatticesOver
<1>2. Len(pts) \in Nat /\ DOMAIN pts = 1..Len(pts) /\ \A k \in DOMAIN pts : pts[k] \in PT
  <2> HIDE DEF pts, PT
  <2> QED BY <1>1
<1>3. ASSUME NEW k \in DOMAIN pts
      PROVE  /\ pts[k].iterators \in Seq(ops)
             /\ pts[k].expr \in Seq(Tokens(ops))
             /\ Its(pts[k]) # {}
  <2>1. pts[k] \in PT /\ Its(pts[k]) # {}
        BY <1>2 DEF IsProgram
  <2> HIDE DEF ops, pts
  <2> QED BY <2>1
<1>4. ASSUME NEW its \in Seq(ops), NEW q, q.iterators = its, Its(q) # {}
      PROVE  Len(its) \in Nat \ {0} /\ DOMAIN its = 1..Len(its) /\ Its(q) \subseteq ops
  <2> HIDE DEF ops
  <2>1. Len(its) \in Nat /\ DOMAIN its = 1..Len(its) /\ \A n \in DOMAIN its : its[n] \in ops
        OBVIOUS
  <2>2. Its(q) = {its[n] : n \in DOMAIN its}
        BY <1>4 DEF Its
  <2>3. Len(its) # 0
        BY <1>4, <2>1, <2>2
  <2> QED BY <2>1, <2>2, <2>3
<1>5. ASSUME NEW e \in Seq(Tokens(ops))
      PROVE  Operands(e) \subseteq ops
  <2> HIDE DEF ops
  <2>1. \A n \in DOMAIN e : e[n] \in Tokens(ops)
        OBVIOUS
  <2>2. \A n \in DOMAIN e : e[n].op = "read" => e[n].name \in ops
        BY <2>1 DEF Tokens, Add, Mul, Read
  <2> QED BY <2>2 DEF Operands
<1> HIDE DEF ops, PT
<1> QED BY <1>2, <1>3, <1>4, <1>5 DEF ops

(* The operators of Kernel that only know data are those of its modules. *)
LEMMA SameData ==
    /\ \A p : K!Its(p) = Its(p)
    /\ \A e : K!Operands(e) = Operands(e)
    /\ \A p : K!Gathered(p) = {p.lhs} \cup Operands(p.rhs)
    /\ \A x : K!IsDense(x) <=> x \in prog.dense
BY DEF K!Its, Its, K!Operands, Operands, K!Gathered, K!IsDense
-----------------------------------------------------------------------------
(* What the statements between two heads of the loop leave alone. *)
Steady == UNCHANGED <<prog, code, crd, loop, wanted, head>>

LEMMA SteadyLoop ==
    ASSUME Steady
    PROVE  /\ LoopPoint' = LoopPoint /\ Loads' = Loads /\ Body' = Body /\ Increments' = Increments
           /\ Bump' = Bump
           /\ \A n : Loaded(n)' = Loaded(n)
           /\ \A n, x : Repeated(n, x)' = Repeated(n, x)
           /\ K!Coords' = K!Coords
           /\ \A x : K!IsDense(x)' <=> K!IsDense(x)
           /\ K!vars' = K!vars
           /\ K!Gathered(prog)' = K!Gathered(prog)
           /\ K!TypeOK' <=> K!TypeOK
           /\ K!CompilesInC(prog)' <=> K!CompilesInC(prog)
           /\ K!Guard(loop)' <=> K!Guard(loop)
           /\ K!Branches(loop)' = K!Branches(loop)
<1> USE DEF Steady
<1>1. prog' = prog /\ crd' = crd /\ loop' = loop /\ head' = head /\ wanted' = wanted
      OBVIOUS
<1>2. LoopPoint' = LoopPoint
      BY <1>1 DEF LoopPoint
<1>3. Loads' = Loads /\ Body' = Body /\ Increments' = Increments /\ Bump' = Bump
      BY <1>1, <1>2 DEF Loads, Body, Increments, Bump
<1>4. \A n : Loaded(n)' = Loaded(n)
      BY <1>1, <1>3 DEF Loaded
<1>5. \A n, x : Repeated(n, x)' = Repeated(n, x)
      BY <1>2 DEF Repeated
<1>6. K!Coords' = K!Coords /\ \A x : K!IsDense(x)' <=> K!IsDense(x)
      BY <1>1 DEF K!Coords, K!IsDense
<1>7. K!vars' = K!vars
      BY <1>1 DEF K!vars
<1>8. K!Gathered(prog)' = K!Gathered(prog)
      BY <1>1 DEF K!Gathered
<1>9. K!TypeOK' <=> K!TypeOK
      BY <1>1 DEF K!TypeOK, K!Gathered, K!Coords, K!CoordinateArrays
<1>10. K!CompilesInC(prog)' <=> K!CompilesInC(prog)
      BY <1>1 DEF K!CompilesInC
<1>11. K!Guard(loop)' <=> K!Guard(loop)
      BY <1>1 DEF K!Guard, K!Bound, K!IsDense, K!Its
<1>12. K!Branches(loop)' = K!Branches(loop)
      BY <1>1 DEF K!Branches, K!SubPoints, K!SparseIts, K!IsDense, K!Its, K!Dominates
<1> QED BY <1>2, <1>3, <1>4, <1>5, <1>6, <1>7, <1>8, <1>9, <1>10, <1>11, <1>12

(* And what they leave alone once i is defined. *)
LEMMA SteadyIndex ==
    ASSUME Steady, i' = i
    PROVE  /\ \A k, c : K!IsLogicalIndex(k, c)' <=> K!IsLogicalIndex(k, c)
           /\ \A x : K!Index(x)' = K!Index(x)
           /\ \A j, c : K!Matches(j, c)' <=> K!Matches(j, c)
           /\ Chosen' = Chosen
           /\ \A e : Stored(e)' = Stored(e)
           /\ Skipped' <=> Skipped
           /\ \A n, stored : Moved(n, stored)' = Moved(n, stored)
<1> USE DEF Steady
<1>1. prog' = prog /\ crd' = crd /\ loop' = loop /\ head' = head /\ i' = i
      OBVIOUS
<1>2. \A x : K!Index(x)' = K!Index(x)
      BY <1>1 DEF K!Index, K!IsDense
<1>3. \A k, c : K!IsLogicalIndex(k, c)' <=> K!IsLogicalIndex(k, c)
      BY <1>1 DEF K!IsLogicalIndex, K!Its, K!Index, K!IsDense
<1>4. \A j, c : K!Matches(j, c)' <=> K!Matches(j, c)
      BY <1>1 DEF K!Matches, K!SparseIts, K!Its, K!Index, K!IsDense
<1>5. \A k, j, c : K!IsFirstMatch(k, j, c)' <=> K!IsFirstMatch(k, j, c)
      BY <1>1 DEF K!IsFirstMatch, K!Branches, K!SubPoints, K!SparseIts, K!IsDense, K!Its, K!Dominates,
                  K!Matches, K!Index
<1>6. FirstMatches' = FirstMatches
      BY <1>1, <1>5 DEF FirstMatches
<1>7. Chosen' = Chosen
      BY <1>1, <1>6, SteadyLoop DEF Chosen
<1>8. \A e : Stored(e)' = Stored(e)
      BY <1>1 DEF Stored, K!Position, K!IsDense, K!Computed, K!Value, K!Operands, K!ReadAt, K!Untouched, K!Zero,
                  K!Overwritten
<1>9. Skipped' <=> Skipped
      BY <1>1, <1>4, SteadyLoop DEF Skipped
<1>10. \A n, stored : Moved(n, stored)' = Moved(n, stored)
      BY <1>1, <1>2, SteadyLoop DEF Moved
<1> QED BY <1>2, <1>3, <1>4, <1>7, <1>8, <1>9, <1>10
-----------------------------------------------------------------------------
(* The running loop. *)
Runs == IsProgram(prog) /\ K!CompilesInC(prog) /\ loop \in DOMAIN prog.points

LEMMA LoopPointIs ==
    ASSUME Runs
    PROVE  /\ LoopPoint.iterators \in Seq(Operands(prog.rhs))
           /\ Len(LoopPoint.iterators) \in Nat \ {0}
           /\ DOMAIN LoopPoint.iterators = 1..Len(LoopPoint.iterators)
           /\ K!Its(LoopPoint) = Its(LoopPoint)
           /\ Its(LoopPoint) \subseteq Operands(prog.rhs)
           /\ Its(LoopPoint) # {}
           /\ \A n \in DOMAIN LoopPoint.iterators : LoopPoint.iterators[n] \in Its(LoopPoint)
<1>1. K!Its(LoopPoint) = Its(LoopPoint)
      BY SameData
<1>2. \A n \in DOMAIN LoopPoint.iterators : LoopPoint.iterators[n] \in Its(LoopPoint)
      BY DEF Its
<1> QED BY <1>1, <1>2, Shape DEF Runs, LoopPoint

LEMMA LoadsAre ==
    ASSUME Runs
    PROVE  /\ Len(Loads) \in Nat
           /\ \A m \in 1..Len(Loads) :
                 /\ Loads[m].name \in Its(LoopPoint) /\ ~K!IsDense(Loads[m].name)
                 /\ IsCompressed(Loads[m])
           /\ \A x \in Its(LoopPoint) : ~K!IsDense(x) => \E m \in 1..Len(Loads) : Loads[m].name = x
           /\ \A m, n \in 1..Len(Loads) : Loads[m].name = Loads[n].name => m = n
<1> DEFINE its == LoopPoint.iterators
<1>1. AreCompressed(Loads, its, prog.dense)
      BY LoopPointIs, LevelsAre DEF Loads
<1>2. Len(Loads) \in Nat
      BY <1>1 DEF AreCompressed, IsList
<1>3. ASSUME NEW m \in 1..Len(Loads)
      PROVE  /\ Loads[m].name \in Its(LoopPoint) /\ ~K!IsDense(Loads[m].name)
             /\ IsCompressed(Loads[m])
  <2>1. PICK n \in DOMAIN its : its[n] \notin prog.dense /\ Loads[m] = ArrayLevel(its[n], prog.dense)
        BY <1>1 DEF AreCompressed
  <2> QED BY <2>1, LevelIs, SameData DEF Its
<1>4. ASSUME NEW x \in Its(LoopPoint), ~K!IsDense(x)
      PROVE  \E m \in 1..Len(Loads) : Loads[m].name = x
  <2>1. PICK n \in DOMAIN its : its[n] = x
        BY DEF Its
  <2>2. x \notin prog.dense
        BY <1>4, SameData
  <2>3. PICK m \in 1..Len(Loads) : Loads[m] = ArrayLevel(its[n], prog.dense)
        BY <1>1, <2>1, <2>2 DEF AreCompressed
  <2> QED BY <2>1, <2>3, LevelIs
<1>5. \A m, n \in DOMAIN its : its[m] = its[n] /\ its[m] \notin prog.dense => m = n
      BY DEF Runs, K!CompilesInC, LoopPoint
<1>6. \A m, n \in 1..Len(Loads) : Loads[m].name = Loads[n].name => m = n
      BY <1>1, <1>5 DEF AreCompressed
<1> QED BY <1>2, <1>3, <1>4, <1>6

LEMMA BranchesAre ==
    ASSUME Runs
    PROVE  K!Branches(loop) = BranchPoints(prog, LoopPoint)
<1>1. ASSUME NEW j \in DOMAIN prog.points
      PROVE  K!SparseIts(prog.points[j]) # {} <=> CompressedLevels(prog.points[j].iterators, prog.dense) # << >>
  <2>1. prog.points[j].iterators \in Seq(Operands(prog.rhs))
        BY Shape DEF Runs
  <2>2. CompressedLevels(prog.points[j].iterators, prog.dense) # << >>
            <=> \E n \in DOMAIN prog.points[j].iterators : prog.points[j].iterators[n] \notin prog.dense
        BY <2>1, HasCompressed
  <2> QED BY <2>2 DEF K!SparseIts, K!Its, K!IsDense
<1>2. \A p, q : K!Dominates(p, q) <=> Dominates(p, q)
      BY DEF K!Dominates, Dominates, K!Its, Its
<1> QED BY <1>1, <1>2 DEF K!Branches, K!SubPoints, BranchPoints, LoopPoint

LEMMA IncrementsAre ==
    ASSUME Runs
    PROVE  /\ IsList(Increments) /\ Len(Increments) = Len(LoopPoint.iterators)
           /\ \A n \in DOMAIN LoopPoint.iterators :
                 Increments[n] = IncrementIterator(ArrayLevel(LoopPoint.iterators[n], prog.dense), FALSE)
<1> DEFINE its == LoopPoint.iterators
           l == Len(its)
           P == {Increments[n] : n \in 1..l}
<1>1. l \in Nat /\ DOMAIN its = 1..l
      BY LoopPointIs
<1>2. Increments = [n \in 1..l |-> IncrementIterator(ArrayLevel(its[n], prog.dense), FALSE)]
      BY <1>1 DEF Increments, LowerIncrements
<1> HIDE DEF l
<1>3. Increments = [n \in 1..l |-> Increments[n]] /\ \A n \in 1..l : Increments[n] \in P
      BY <1>2
<1> HIDE DEF P
<1>4. Increments \in Seq(P) /\ Len(Increments) = l
      BY <1>1, <1>3
<1> QED BY <1>1, <1>2, <1>4 DEF IsList, l

(* The code of the running loop. *)
LEMMA LoopCode ==
    ASSUME Runs, code = Lower(prog)
    PROVE  /\ Len(Loops) = Len(prog.points)
           /\ Loops[loop].condition = ArrayLevels(LoopPoint.iterators, prog.dense)
           /\ Loops[loop].body = Body
<1>1. Len(prog.points) \in Nat /\ DOMAIN prog.points = 1..Len(prog.points)
      BY Shape DEF Runs
<1>2. Loops = [k \in DOMAIN prog.points |-> LowerPoint(prog, prog.points[k])] /\ Len(Loops) = Len(prog.points)
      BY <1>1, LoweredAre DEF Loops
<1>3. Loops[loop] = LowerPoint(prog, LoopPoint)
      BY <1>2 DEF Runs, LoopPoint
<1>4. LowerPoint(prog, LoopPoint).condition = ArrayLevels(LoopPoint.iterators, prog.dense)
      BY DEF LowerPoint, WhileStmt
<1> QED BY <1>2, <1>3, <1>4 DEF Body

(* Its body. *)
LEMMA LoopBody ==
    ASSUME Runs
    PROVE  \E choice :
              /\ IsBody(Body, prog, LoopPoint, choice, Len(Loads))
              /\ K!Branches(loop) = {} => choice = Storage(prog, prog.rhs)
              /\ K!Branches(loop) # {} => \E kept : IsIf(choice, prog, LoopPoint, kept)
<1>1. Len(prog.points) \in Nat /\ DOMAIN prog.points = 1..Len(prog.points)
      BY Shape DEF Runs
<1>2. PICK choice :
          /\ LowerChoice(prog, LoopPoint) = <<choice>>
          /\ BranchPoints(prog, LoopPoint) = {} => choice = Storage(prog, prog.rhs)
          /\ BranchPoints(prog, LoopPoint) # {} => \E kept : IsIf(choice, prog, LoopPoint, kept)
      BY <1>1, ChoiceIs
<1>3. IsBody(Body, prog, LoopPoint, choice, Len(Loads))
      BY <1>2, LoopPointIs, BodyIs DEF Body, Loads
<1> QED BY <1>2, <1>3, BranchesAre
-----------------------------------------------------------------------------
(* The beginning. *)
LEMMA InitStep ==
    ASSUME ProgramsTyped, Init
    PROVE  Inv /\ K!Init
<1>1. prog \in Programs /\ IsProgram(prog) /\ K!CompilesInC(prog) /\ code = Lower(prog)
      BY DEF Init, ProgramsTyped
<1>2. Len(prog.points) \in Nat /\ DOMAIN prog.points = 1..Len(prog.points)
      BY <1>1, Shape
<1>3. Declared = K!Gathered(prog)
  <2>1. code[1] = IteratorDefinition(GatherIteratorSet(prog))
        BY <1>1, <1>2, LoweredAre
  <2>2. code[1].iterators = GatherIteratorSet(prog)
        BY <2>1 DEF IteratorDefinition
  <2>3. {a.name : a \in Range(GatherIteratorSet(prog))} = {prog.lhs} \cup Operands(prog.rhs)
        BY <1>1, GatheredAre DEF IsProgram
  <2> QED BY <2>2, <2>3, SameData DEF Declared
<1>4. /\ head.iter = [x \in K!Gathered(prog) |-> 0] /\ head.i = -1
      /\ head.values = [c \in K!Coords |-> K!Untouched]
      /\ iter = head.iter /\ i = head.i /\ values = head.values
      /\ rest = << >> /\ loop = 1 /\ wanted = [c \in K!Coords |-> K!Wanted(c)]
      BY <1>3 DEF Init
<1>5. PICK s \in [K!Gathered(prog) \ prog.dense -> K!CoordinateArrays] :
          crd = [x \in K!Gathered(prog) |-> IF x \in prog.dense THEN << >> ELSE s[x]]
      BY DEF Init
<1>6. crd = [x \in K!Gathered(prog) |-> IF K!IsDense(x) THEN << >> ELSE s[x]]
      BY <1>5 DEF K!IsDense
<1>7. K!Init
  <2>1. K!IsDense(prog.lhs) \/ K!ResultAllocated
        BY DEF Init, K!IsDense
  <2>2. prog \in {p \in Programs : K!CompilesInC(p)}
        BY DEF Init
  <2> QED BY <1>4, <1>5, <1>6, <2>1, <2>2 DEF K!Init
<1>8. K!TypeOK
  <2>1. << >> \in K!CoordinateArrays
    <3>1. << >> \in [1..0 -> K!Coords] /\ 0 \in 0..N
          BY DimensionAssumption
    <3> QED BY <3>1 DEF K!CoordinateArrays, K!Sorted
  <2>2. crd \in [K!Gathered(prog) -> K!CoordinateArrays]
        BY <1>5, <2>1
  <2>3. loop \in 1..(Len(prog.points) + 1)
        BY <1>2, <1>4
  <2>4. head.iter \in [K!Gathered(prog) -> Nat] /\ head.i \in -1..(N - 1) /\ DOMAIN head.values = K!Coords
        BY <1>4, DimensionAssumption
  <2> QED BY <2>2, <2>3, <2>4 DEF K!TypeOK
<1> QED BY <1>1, <1>4, <1>7, <1>8 DEF Inv, AtHead

-----------------------------------------------------------------------------
(* The iterators of a loop whose condition holds. *)
LEMMA LoopIndex ==
    ASSUME Runs, K!TypeOK, K!Guard(loop), NEW x \in Its(LoopPoint)
    PROVE  /\ x \in K!Gathered(prog) /\ head.iter[x] \in Nat
           /\ K!Index(x) \in K!Coords
           /\ ~K!IsDense(x) => /\ K!Index(x) = crd[x][head.iter[x] + 1]
                               /\ head.iter[x] < Len(crd[x])
<1>1. x \in K!Gathered(prog) /\ head.iter[x] \in Nat /\ head.iter[x] < K!Bound(x)
  <2>1. x \in Operands(prog.rhs) /\ x \in K!Its(LoopPoint)
        BY LoopPointIs
  <2>2. x \in K!Gathered(prog)
        BY <2>1, SameData
  <2> QED BY <2>1, <2>2 DEF K!Guard, K!TypeOK, LoopPoint
<1>2. CASE K!IsDense(x)
      BY <1>1, <1>2, DimensionAssumption DEF K!Index, K!Bound, K!Coords
<1>3. CASE ~K!IsDense(x)
  <2>1. K!Index(x) = crd[x][head.iter[x] + 1] /\ head.iter[x] < Len(crd[x])
        BY <1>1, <1>3 DEF K!Index, K!Bound
  <2>2. crd[x] \in K!CoordinateArrays
        BY <1>1 DEF K!TypeOK
  <2>3. PICK n \in 0..N : crd[x] \in [1..n -> K!Coords]
        BY <2>2 DEF K!CoordinateArrays
  <2>4. Len(crd[x]) = n
        BY <2>3, DimensionAssumption
  <2>5. head.iter[x] + 1 \in 1..n
        BY <1>1, <2>1, <2>4
  <2>6. crd[x][head.iter[x] + 1] \in K!Coords
        BY <2>3, <2>5
  <2> QED BY <1>1, <1>3, <2>1, <2>6
<1> QED BY <1>2, <1>3

(* The x_i that are defined are right. *)
LEMMA LoadedIs ==
    ASSUME Runs, K!TypeOK, K!Guard(loop), NEW n \in 0..Len(Loads)
    PROVE  /\ DOMAIN Loaded(n) = {Loads[m].name : m \in 1..n}
           /\ \A x \in DOMAIN Loaded(n) :
                 /\ x \in Its(LoopPoint) /\ ~K!IsDense(x) /\ x \in K!Gathered(prog)
                 /\ Loaded(n)[x] = K!Index(x)
                 /\ Loaded(n)[x] \in K!Coords
<1>1. DOMAIN Loaded(n) = {Loads[m].name : m \in 1..n}
      BY DEF Loaded
<1>2. ASSUME NEW x \in DOMAIN Loaded(n)
      PROVE  /\ x \in Its(LoopPoint) /\ ~K!IsDense(x) /\ x \in K!Gathered(prog)
             /\ Loaded(n)[x] = K!Index(x)
             /\ Loaded(n)[x] \in K!Coords
  <2>1. PICK m \in 1..n : x = Loads[m].name
        BY <1>1
  <2>2. m \in 1..Len(Loads)
        BY LoadsAre
  <2>3. x \in Its(LoopPoint) /\ ~K!IsDense(x)
        BY <2>1, <2>2, LoadsAre
  <2>4. Loaded(n)[x] = crd[x][head.iter[x] + 1]
        BY <1>1 DEF Loaded
  <2> QED BY <2>3, <2>4, LoopIndex
<1> QED BY <1>1, <1>2

(* When they all are, they are the x_i of all the compressed iterators. *)
LEMMA AllLoaded ==
    ASSUME Runs, K!TypeOK, K!Guard(loop)
    PROVE  /\ DOMAIN Loaded(Len(Loads)) = {x \in Its(LoopPoint) : ~K!IsDense(x)}
           /\ \A x \in DOMAIN Loaded(Len(Loads)) : Loaded(Len(Loads))[x] = K!Index(x)
<1>1. Len(Loads) \in 0..Len(Loads)
      BY LoadsAre
<1> DEFINE n == Len(Loads)
<1>2. /\ DOMAIN Loaded(n) = {Loads[m].name : m \in 1..n}
      /\ \A x \in DOMAIN Loaded(n) : x \in Its(LoopPoint) /\ ~K!IsDense(x) /\ Loaded(n)[x] = K!Index(x)
  <2> HIDE DEF n
  <2> QED BY <1>1, LoadedIs DEF n
<1>3. \A x \in Its(LoopPoint) : ~K!IsDense(x) => \E m \in 1..n : Loads[m].name = x
      BY LoadsAre
<1> HIDE DEF n
<1>4. DOMAIN Loaded(n) = {x \in Its(LoopPoint) : ~K!IsDense(x)}
      BY <1>2, <1>3
<1> QED BY <1>2, <1>4 DEF n
-----------------------------------------------------------------------------
(* The next statement in each phase of an iteration. *)
LEMMA LoadingNext ==
    ASSUME Runs, NEW n \in 0..Len(Loads), rest = After(Body, n)
    PROVE  /\ rest # << >> /\ Len(rest) \in Nat /\ Len(rest) > 1
           /\ Tail(rest) = After(Body, n + 1)
           /\ n < Len(Loads) => rest[1] = CompressedIndexDefinition(Loads[n + 1])
           /\ n = Len(Loads) => rest[1] = LogicalIndexDefinition(ArrayLevels(LoopPoint.iterators, prog.dense))
<1>1. PICK choice : IsBody(Body, prog, LoopPoint, choice, Len(Loads))
      BY LoopBody
<1>2. PICK P : Body \in Seq(P)
      BY <1>1 DEF IsBody, IsList
<1>3. Len(Loads) \in Nat /\ Len(LoopPoint.iterators) \in Nat \ {0}
      BY LoadsAre, LoopPointIs
<1>4. Len(Body) = Len(Loads) + 2 + Len(LoopPoint.iterators)
      BY <1>1 DEF IsBody
<1>5. n \in Nat /\ n < Len(Body) /\ Len(Body) - n > 1 /\ Len(Body) - n \in Nat
  <2> DEFINE L == Len(Loads)
             M == Len(LoopPoint.iterators)
             B == Len(Body)
  <2>1. n \in 0..L /\ L \in Nat /\ M \in Nat \ {0} /\ B = L + 2 + M
        BY <1>3, <1>4
  <2> HIDE DEF L, M, B
  <2>2. n \in Nat /\ n < B /\ B - n > 1 /\ B - n \in Nat
        BY ONLY <2>1
  <2> QED BY <2>2 DEF B
<1> DEFINE k == n + 1
<1>6. k = n + 1
      OBVIOUS
<1> HIDE DEF k
<1>7. /\ rest # << >> /\ rest[1] = Body[k] /\ Tail(rest) = After(Body, k) /\ Len(rest) = Len(Body) - n
  <2> DEFINE s == Body
             r == After(s, n)
  <2>1. s \in Seq(P) /\ n \in Nat /\ n < Len(s)
        BY <1>2, <1>5
  <2> HIDE DEF s
  <2>2. /\ After(s, n) # << >> /\ After(s, n)[1] = s[k] /\ Tail(After(s, n)) = After(s, k)
        /\ Len(After(s, n)) = Len(s) - n
        BY ONLY <1>6, <2>1, AfterNext
  <2> QED BY <2>2 DEF s
<1>8. n < Len(Loads) => k \in 1..Len(Loads)
      BY <1>3, <1>6
<1>9. n < Len(Loads) => Body[k] = CompressedIndexDefinition(Loads[k])
      BY <1>1, <1>8 DEF IsBody, Loads
<1>10. n = Len(Loads) => Body[k] = LogicalIndexDefinition(ArrayLevels(LoopPoint.iterators, prog.dense))
      BY <1>1, <1>6 DEF IsBody
<1> QED BY <1>5, <1>6, <1>7, <1>9, <1>10

(* One statement before the increments. *)
LEMMA BeforeIncrements ==
    ASSUME Runs, NEW s, rest = <<s>> \o Increments
    PROVE  /\ rest # << >> /\ rest[1] = s /\ Tail(rest) = Increments /\ Tail(rest) = After(Increments, 0)
           /\ Len(rest) \in Nat /\ Len(rest) > 1
<1>1. PICK P : Increments \in Seq(P)
      BY IncrementsAre DEF IsList
<1>2. Len(Increments) \in Nat \ {0}
      BY IncrementsAre, LoopPointIs
<1>3. Increments = After(Increments, 0)
      BY <1>1, AfterNothing
<1>4. /\ rest # << >> /\ rest[1] = s /\ Len(rest) = Len(Increments) + 1 /\ Tail(rest) = Increments
  <2> DEFINE t == Increments
             r == rest
  <2>1. t \in Seq(P) /\ r = <<s>> \o t
        BY <1>1
  <2> HIDE DEF t, r
  <2>2. r # << >> /\ r[1] = s /\ Len(r) = Len(t) + 1 /\ Tail(r) = t
        BY ONLY <2>1, OneThen
  <2> QED BY <2>2 DEF t, r
<1> QED BY <1>2, <1>3, <1>4

LEMMA ChoosingNext ==
    ASSUME Runs, rest = After(Body, Len(Loads) + 1), K!Branches(loop) # {}
    PROVE  \E kept :
              /\ IsIf(rest[1], prog, LoopPoint, kept)
              /\ rest # << >> /\ Tail(rest) = Increments /\ Tail(rest) = After(Increments, 0)
              /\ Len(rest) \in Nat /\ Len(rest) > 1
<1>1. PICK choice : /\ IsBody(Body, prog, LoopPoint, choice, Len(Loads))
                    /\ K!Branches(loop) # {} => \E kept : IsIf(choice, prog, LoopPoint, kept)
      BY LoopBody
<1>2. PICK kept : IsIf(choice, prog, LoopPoint, kept)
      BY <1>1
<1>3. rest = <<choice>> \o Increments
      BY <1>1 DEF IsBody, Increments
<1> QED BY <1>2, <1>3, BeforeIncrements

IsLast(statements) == Len(statements) = 1

IsLastPosition(n) == n = Len(LoopPoint.iterators)

LEMMA IncrementingNext ==
    ASSUME Runs, NEW n \in 0..(Len(LoopPoint.iterators) - 1), rest = After(Increments, n), NEW k, k = n + 1
    PROVE  /\ rest # << >> /\ Len(rest) \in Nat
           /\ IsLast(rest) <=> IsLastPosition(k)
           /\ rest[1] = IncrementIterator(ArrayLevel(LoopPoint.iterators[k], prog.dense), FALSE)
           /\ Tail(rest) = After(Increments, k)
           /\ k = Len(LoopPoint.iterators) => Tail(rest) = << >>
           /\ k \in DOMAIN LoopPoint.iterators
<1> DEFINE s == Increments
           l == Len(LoopPoint.iterators)
<1>1. PICK P : s \in Seq(P)
      BY IncrementsAre DEF IsList
<1>2. Len(s) = l /\ l \in Nat \ {0} /\ k \in 1..l /\ DOMAIN LoopPoint.iterators = 1..l
      BY IncrementsAre, LoopPointIs
<1>3. s[k] = IncrementIterator(ArrayLevel(LoopPoint.iterators[k], prog.dense), FALSE)
      BY <1>2, IncrementsAre
<1>4. n \in Nat /\ n < Len(s)
      BY <1>2
<1>5. rest = After(s, n)
      OBVIOUS
<1> HIDE DEF s
<1>6. /\ After(s, n) # << >> /\ After(s, n)[1] = s[k] /\ Tail(After(s, n)) = After(s, k)
      /\ Len(After(s, n)) = Len(s) - n
      BY ONLY <1>1, <1>4, k = n + 1, AfterNext
<1>7. After(s, Len(s)) = << >>
      BY <1>1, AfterAll
<1>8. k = l => Tail(rest) = << >>
      BY <1>2, <1>5, <1>6, <1>7
<1>9. Len(rest) \in Nat /\ (IsLast(rest) <=> k = l)
      BY <1>2, <1>4, <1>5, <1>6 DEF IsLast
<1> QED BY <1>2, <1>3, <1>5, <1>6, <1>8, <1>9 DEF s, IsLastPosition

-----------------------------------------------------------------------------
LEMMA SteadyInv ==
    ASSUME Inv, Steady
    PROVE  /\ IsProgram(prog)' /\ K!CompilesInC(prog)' /\ (code = Lower(prog))' /\ K!TypeOK'
           /\ UNCHANGED K!vars
<1>1. prog' = prog /\ code' = code
      BY DEF Steady
<1>2. IsProgram(prog)' /\ (code = Lower(prog))'
      BY <1>1 DEF Inv
<1> QED BY <1>2, SteadyLoop DEF Inv

LEMMA SteadyRuns ==
    ASSUME Steady, loop \in DOMAIN prog.points, K!Guard(loop)
    PROVE  loop' \in DOMAIN prog'.points /\ K!Guard(loop)'
BY SteadyLoop DEF Steady

LEMMA SteadyMerged ==
    ASSUME Steady, i' = i, index' = index, Merged
    PROVE  Merged'
<1>1. loop' = loop
      BY DEF Steady
<1>2. K!Coords' = K!Coords /\ Loads' = Loads
      BY SteadyLoop
<1>3. K!IsLogicalIndex(loop, i)' <=> K!IsLogicalIndex(loop, i)
      BY <1>1, SteadyIndex
<1>4. Loaded(Len(Loads))' = Loaded(Len(Loads))
      BY <1>2, SteadyLoop
<1> QED BY <1>2, <1>3, <1>4 DEF Merged

(* A step that changes nothing. *)
LEMMA Stutter ==
    ASSUME Inv, UNCHANGED vars
    PROVE  Inv' /\ UNCHANGED K!vars
<1>1. Steady /\ rest' = rest /\ iter' = iter /\ index' = index /\ i' = i /\ values' = values
      BY DEF vars, Steady
<1>2. IsProgram(prog)' /\ K!CompilesInC(prog)' /\ (code = Lower(prog))' /\ K!TypeOK' /\ UNCHANGED K!vars
      BY <1>1, SteadyInv
<1>3. head' = head /\ prog' = prog
      BY <1>1 DEF Steady
<1>4. CASE AtHead
      BY <1>1, <1>2, <1>3, <1>4 DEF Inv, AtHead
<1>5. CASE InBody
  <2>1. loop' \in DOMAIN prog'.points /\ K!Guard(loop)'
        BY <1>1, <1>5, SteadyRuns DEF InBody
  <2>2. Loads' = Loads /\ Body' = Body /\ Increments' = Increments /\ LoopPoint' = LoopPoint /\ Bump' = Bump
        BY <1>1, SteadyLoop
  <2>3. Loading => Loading'
        BY <1>1, <1>3, <2>2, SteadyLoop DEF Loading
  <2>4. Merged => Merged'
        BY <1>1, SteadyMerged
  <2>5. Choosing => Choosing'
        BY <1>1, <1>3, <2>2, <2>4, SteadyLoop DEF Choosing
  <2>6. Chosen' = Chosen /\ (\A e : Stored(e)' = Stored(e)) /\ (Skipped' <=> Skipped)
        /\ \A n, stored : Moved(n, stored)' = Moved(n, stored)
        BY <1>1, SteadyIndex
  <2>7. Storing => Storing'
        BY <1>1, <1>3, <2>2, <2>4, <2>6 DEF Storing
  <2>8. K!IsDense(prog.lhs)' <=> K!IsDense(prog.lhs)
        BY <1>1, <1>3, SteadyLoop
  <2>9. Bumping => Bumping'
        BY <1>1, <1>3, <2>2, <2>4, <2>6, <2>8 DEF Bumping
  <2>10. \A stored : Outcome(stored) => Outcome(stored)'
        BY <1>1, <1>3, <2>6 DEF Outcome
  <2>11. Incrementing => Incrementing'
        BY <1>1, <2>2, <2>4, <2>6, <2>10 DEF Incrementing
  <2>12. InBody'
        BY <1>5, <2>1, <2>3, <2>5, <2>7, <2>9, <2>11 DEF InBody
  <2> QED BY <1>2, <2>12 DEF Inv
<1> QED BY <1>2, <1>4, <1>5 DEF Inv
-----------------------------------------------------------------------------
(* The phase is told by the statement that runs. *)
LEMMA BodyRuns ==
    ASSUME Inv, InBody
    PROVE  Runs /\ K!TypeOK /\ K!Guard(loop) /\ code = Lower(prog)
BY DEF Inv, InBody, Runs

LEMMA PhaseStatement ==
    ASSUME Inv, InBody
    PROVE  /\ rest # << >>
           /\ Loading => rest[1].stmt \in {"CompressedIndexDefinition", "LogicalIndexDefinition"}
           /\ Choosing => rest[1].stmt = "IfStmt"
           /\ Storing => rest[1].stmt = "ArrayAssignment"
           /\ Bumping \/ Incrementing => rest[1].stmt = "IncrementIterator"
<1>1. Runs
      BY BodyRuns
<1>2. ASSUME Loading
      PROVE  rest # << >> /\ rest[1].stmt \in {"CompressedIndexDefinition", "LogicalIndexDefinition"}
  <2>1. PICK n \in 0..Len(Loads) : rest = After(Body, n)
        BY <1>2 DEF Loading
  <2>2. Len(Loads) \in Nat
        BY <1>1, LoadsAre
  <2>3. n < Len(Loads) \/ n = Len(Loads)
        BY <2>2
  <2>4. /\ rest # << >>
        /\ n < Len(Loads) => rest[1] = CompressedIndexDefinition(Loads[n + 1])
        /\ n = Len(Loads) => rest[1] = LogicalIndexDefinition(ArrayLevels(LoopPoint.iterators, prog.dense))
        BY <1>1, <2>1, LoadingNext
  <2>5. /\ \A a : CompressedIndexDefinition(a).stmt = "CompressedIndexDefinition"
        /\ \A a : LogicalIndexDefinition(a).stmt = "LogicalIndexDefinition"
        BY DEF CompressedIndexDefinition, LogicalIndexDefinition
  <2> QED BY <2>3, <2>4, <2>5
<1>3. ASSUME Choosing
      PROVE  rest # << >> /\ rest[1].stmt = "IfStmt"
      BY <1>1, <1>3, ChoosingNext DEF Choosing, IsIf
<1>4. ASSUME Storing
      PROVE  rest # << >> /\ rest[1].stmt = "ArrayAssignment"
  <2>1. PICK e \in Chosen : rest = <<Storage(prog, e)>> \o Increments
        BY <1>4 DEF Storing
  <2> QED BY <1>1, <2>1, BeforeIncrements DEF Storage, ArrayAssignment
<1>5. ASSUME Bumping
      PROVE  rest # << >> /\ rest[1].stmt = "IncrementIterator"
      BY <1>1, <1>5, BeforeIncrements DEF Bumping, Bump, IncrementIterator
<1>6. ASSUME Incrementing
      PROVE  rest # << >> /\ rest[1].stmt = "IncrementIterator"
  <2>1. PICK n \in 0..(Len(LoopPoint.iterators) - 1) : rest = After(Increments, n)
        BY <1>6 DEF Incrementing
  <2> DEFINE k == n + 1
  <2>2. k = n + 1
        OBVIOUS
  <2> HIDE DEF k
  <2>3. rest # << >> /\ rest[1] = IncrementIterator(ArrayLevel(LoopPoint.iterators[k], prog.dense), FALSE)
        BY <1>1, <2>1, <2>2, IncrementingNext
  <2> QED BY <2>3 DEF IncrementIterator
<1> QED BY <1>2, <1>3, <1>4, <1>5, <1>6 DEF InBody

(* A step to the next phase of the iteration is a stutter of Kernel. *)
LEMMA NextPhase ==
    ASSUME Inv, InBody, Steady, Loading' \/ Choosing' \/ Storing' \/ Bumping' \/ Incrementing'
    PROVE  Inv' /\ UNCHANGED K!vars
<1>1. loop' \in DOMAIN prog'.points /\ K!Guard(loop)'
      BY SteadyRuns DEF InBody
<1>2. InBody'
      BY <1>1 DEF InBody
<1> QED BY <1>2, SteadyInv DEF Inv
-----------------------------------------------------------------------------
(* The condition of the while. *)
LEMMA GuardIs ==
    ASSUME Runs, code = Lower(prog), iter = head.iter
    PROVE  BoundedGuard(Loops[loop].condition) <=> K!Guard(loop)
<1> DEFINE its == LoopPoint.iterators
           c == Loops[loop].condition
<1>1. DOMAIN c = DOMAIN its /\ \A n \in DOMAIN its : c[n] = ArrayLevel(its[n], prog.dense)
      BY LoopCode DEF ArrayLevels
<1>2. ASSUME NEW x
      PROVE  ArrayLevel(x, prog.dense).name = x /\ Bound(ArrayLevel(x, prog.dense)) = K!Bound(x)
      BY LevelIs DEF Bound, K!Bound, K!IsDense
<1>3. BoundedGuard(c) <=> \A n \in DOMAIN its : head.iter[its[n]] < K!Bound(its[n])
  <2> HIDE DEF its, c
  <2> QED BY <1>1, <1>2 DEF BoundedGuard
<1>4. K!Guard(loop) <=> \A n \in DOMAIN its : head.iter[its[n]] < K!Bound(its[n])
      BY DEF K!Guard, K!Its, LoopPoint
<1> QED BY <1>3, <1>4

LEMMA LoopRange ==
    ASSUME IsProgram(prog), code = Lower(prog), K!TypeOK
    PROVE  /\ loop <= Len(Loops) <=> loop \in DOMAIN prog.points
           /\ loop <= Len(prog.points) <=> loop \in DOMAIN prog.points
           /\ Len(prog.points) \in Nat /\ DOMAIN prog.points = 1..Len(prog.points)
           /\ loop \in Nat
<1>1. Len(prog.points) \in Nat /\ DOMAIN prog.points = 1..Len(prog.points)
      BY Shape
<1>2. Len(Loops) = Len(prog.points)
      BY <1>1, LoweredAre DEF Loops
<1>3. loop \in 1..(Len(prog.points) + 1)
      BY DEF K!TypeOK
<1> QED BY <1>1, <1>2, <1>3

LEMMA AtHeadWhenEmpty ==
    ASSUME Inv, rest = << >>
    PROVE  AtHead
BY PhaseStatement DEF Inv

LEMMA IterateStep ==
    ASSUME Inv, Iterate
    PROVE  Inv' /\ UNCHANGED K!vars
<1>1. AtHead
      BY AtHeadWhenEmpty DEF Iterate
<1>2. loop \in DOMAIN prog.points
      BY LoopRange DEF Iterate, Inv
<1>3. Runs
      BY <1>2 DEF Inv, Runs
<1>4. K!Guard(loop)
      BY <1>1, <1>3, GuardIs DEF Iterate, Inv, AtHead
<1>5. Steady /\ iter' = iter /\ i' = i /\ values' = values /\ index' = None /\ rest' = Loops[loop].body
      BY DEF Iterate, Steady, frame
<1>6. PICK choice : IsBody(Body, prog, LoopPoint, choice, Len(Loads))
      BY <1>3, LoopBody
<1>7. After(Body, 0) = Body
  <2>1. PICK P : Body \in Seq(P)
        BY <1>6 DEF IsBody, IsList
  <2> QED BY <2>1, AfterNothing
<1>8. rest' = After(Body, 0)
      BY <1>3, <1>5, <1>7, LoopCode DEF Inv
<1>9. Loaded(0) = None
  <2>1. 1..0 = {}
        OBVIOUS
  <2>2. {Loads[m].name : m \in 1..0} = {}
        BY <2>1
  <2> QED BY <2>2 DEF Loaded, None
<1>10. 0 \in 0..Len(Loads)
       BY <1>3, LoadsAre
<1>11. Loading'
  <2>1. Loads' = Loads /\ Body' = Body /\ Loaded(0)' = Loaded(0)
        BY <1>5, SteadyLoop
  <2>2. head' = head
        BY <1>5 DEF Steady
  <2>3. iter' = head'.iter /\ i' = head'.i /\ values' = head'.values
        BY <1>1, <1>5, <2>2 DEF AtHead
  <2>4. 0 \in 0..Len(Loads') /\ rest' = After(Body', 0) /\ index' = Loaded(0)'
        BY <1>5, <1>8, <1>9, <1>10, <2>1
  <2> QED BY <2>3, <2>4 DEF Loading
<1>12. loop' \in DOMAIN prog'.points /\ K!Guard(loop)'
       BY <1>2, <1>4, <1>5, SteadyRuns
<1>13. InBody'
       BY <1>11, <1>12 DEF InBody
<1> QED BY <1>5, <1>13, SteadyInv DEF Inv

LEMMA LeaveLoopStep ==
    ASSUME Inv, LeaveLoop
    PROVE  Inv' /\ K!LeaveLoop
<1>1. AtHead
      BY AtHeadWhenEmpty DEF LeaveLoop
<1>2. /\ loop \in DOMAIN prog.points /\ loop <= Len(prog.points)
      /\ Len(prog.points) \in Nat /\ DOMAIN prog.points = 1..Len(prog.points) /\ loop \in Nat
      BY LoopRange DEF LeaveLoop, Inv
<1>3. Runs
      BY <1>2 DEF Inv, Runs
<1>4. ~K!Guard(loop)
      BY <1>1, <1>3, GuardIs DEF LeaveLoop, Inv, AtHead
<1>5. /\ prog' = prog /\ code' = code /\ crd' = crd /\ wanted' = wanted /\ rest' = rest /\ iter' = iter
      /\ i' = i /\ values' = values /\ head' = head /\ loop' = loop + 1
      BY DEF LeaveLoop, frame
<1>6. K!LeaveLoop
      BY <1>2, <1>4, <1>5 DEF K!LeaveLoop
<1>7. K!TypeOK'
  <2>1. loop' \in 1..(Len(prog'.points) + 1)
        BY <1>2, <1>5
  <2>2. K!TypeOK
        BY DEF Inv
  <2> QED BY <1>5, <2>1, <2>2 DEF K!TypeOK, K!Gathered, K!Coords, K!CoordinateArrays
<1>8. IsProgram(prog)' /\ K!CompilesInC(prog)' /\ (code = Lower(prog))'
      BY <1>5 DEF Inv, K!CompilesInC
<1>9. AtHead'
      BY <1>1, <1>5 DEF AtHead
<1> QED BY <1>6, <1>7, <1>8, <1>9 DEF Inv
-----------------------------------------------------------------------------
(* x_i is defined: one more load has been done. *)
WithIndex(s, x) == [y \in DOMAIN s \cup {x} |-> IF y = x THEN crd[x][head.iter[x] + 1] ELSE s[y]]

LEMMA LoadedNext ==
    ASSUME NEW n \in Nat, NEW k, k = n + 1, NEW x, x = Loads[k].name
    PROVE  Loaded(k) = WithIndex(Loaded(n), x)
<1> DEFINE names(m) == {Loads[j].name : j \in 1..m}
           at(y) == crd[y][head.iter[y] + 1]
<1>1. 1..k = 1..n \cup {k}
      OBVIOUS
<1>2. names(k) = names(n) \cup {x}
      BY <1>1
<1>3. Loaded(k) = [y \in names(k) |-> at(y)] /\ Loaded(n) = [y \in names(n) |-> at(y)]
      BY DEF Loaded
<1> HIDE DEF names, at
<1>4. Loaded(k) = [y \in DOMAIN Loaded(n) \cup {x} |-> IF y = x THEN at(x) ELSE Loaded(n)[y]]
      BY <1>2, <1>3
<1> QED BY <1>4 DEF at, WithIndex

LEMMA DefineCompressedIndexStep ==
    ASSUME Inv, DefineCompressedIndex
    PROVE  /\ Inv' /\ UNCHANGED K!vars
           /\ Runs /\ K!TypeOK /\ K!Guard(loop)
           /\ \E k \in 0..Len(Loads) : index' = Loaded(k)
<1>1. InBody
      BY DEF Inv, AtHead, DefineCompressedIndex, Running
<1>2. Runs
      BY <1>1, BodyRuns
<1>3. Loading
      BY <1>1, PhaseStatement DEF InBody, DefineCompressedIndex, Running
<1>4. PICK n \in 0..Len(Loads) : rest = After(Body, n) /\ index = Loaded(n)
      BY <1>3 DEF Loading
<1>5. Len(Loads) \in Nat
      BY <1>2, LoadsAre
<1>6. n < Len(Loads)
  <2>1. rest[1] # LogicalIndexDefinition(ArrayLevels(LoopPoint.iterators, prog.dense))
        BY DEF DefineCompressedIndex, Running, LogicalIndexDefinition
  <2>2. n # Len(Loads)
        BY <1>2, <1>4, <2>1, LoadingNext
  <2> QED BY <1>5, <2>2
<1> DEFINE k == n + 1
<1>7. k = n + 1 /\ k \in 0..Len(Loads) /\ n \in 0..(Len(Loads) - 1)
      BY <1>5, <1>6
<1>8. /\ rest[1] = CompressedIndexDefinition(Loads[k]) /\ Tail(rest) = After(Body, k)
      /\ Len(rest) # 1
      BY <1>2, <1>4, <1>6, LoadingNext
<1> HIDE DEF k
<1> DEFINE x == Loads[k].name
<1>9. index' = [y \in DOMAIN index \cup {x} |-> IF y = x THEN crd[x][iter[x] + 1] ELSE index[y]]
  <2>1. rest[1].array = Loads[k]
        BY <1>8 DEF CompressedIndexDefinition
  <2> QED BY <2>1 DEF DefineCompressedIndex
<1>10. iter = head.iter
       BY <1>3 DEF Loading
<1>11. index' = Loaded(k)
  <2>1. Loaded(k) = WithIndex(Loaded(n), x)
    <3>1. x = Loads[k].name
          OBVIOUS
    <3> HIDE DEF x
    <3>2. n \in Nat /\ k = n + 1
          BY <1>5, <1>7
    <3> QED BY ONLY <3>1, <3>2, LoadedNext
  <2> QED BY <1>4, <1>9, <1>10, <2>1 DEF WithIndex
<1>12. rest' = After(Body, k) /\ head' = head
      BY <1>8 DEF DefineCompressedIndex, Continue
<1>13. Steady /\ iter' = iter /\ i' = i /\ values' = values
      BY <1>12 DEF DefineCompressedIndex, Steady, frame
<1>14. Loading'
  <2>1. Loads' = Loads /\ Body' = Body /\ Loaded(k)' = Loaded(k)
        BY <1>13, SteadyLoop
  <2>2. k \in 0..Len(Loads') /\ rest' = After(Body', k) /\ index' = Loaded(k)'
        BY <1>7, <1>11, <1>12, <2>1
  <2>3. iter' = head'.iter /\ i' = head'.i /\ values' = head'.values
        BY <1>3, <1>12, <1>13 DEF Loading
  <2> QED BY <2>2, <2>3 DEF Loading
<1>15. Inv' /\ UNCHANGED K!vars
       BY <1>1, <1>13, <1>14, NextPhase
<1> QED BY <1>1, <1>7, <1>11, <1>15, BodyRuns
-----------------------------------------------------------------------------
(* The x_i of the iterators, once they are defined. *)
LEMMA ResolvedIs ==
    ASSUME Runs, K!TypeOK, K!Guard(loop), iter = head.iter, index = Loaded(Len(Loads)),
           NEW x \in Its(LoopPoint)
    PROVE  ResolvedIndex(ArrayLevel(x, prog.dense)) = K!Index(x)
<1>1. CASE K!IsDense(x)
      BY <1>1, LevelIs, SameData DEF ResolvedIndex, K!Index
<1>2. CASE ~K!IsDense(x)
  <2>1. x \in DOMAIN index /\ index[x] = K!Index(x)
        BY <1>2, AllLoaded
  <2> QED BY <1>2, <2>1, LevelIs, SameData DEF ResolvedIndex
<1> QED BY <1>1, <1>2

(* i is the least of them. *)
LEMMA MergedIndex ==
    ASSUME Runs, K!TypeOK, K!Guard(loop), iter = head.iter, index = Loaded(Len(Loads)),
           NEW c, c = Min({ResolvedIndex(a) : a \in Range(ArrayLevels(LoopPoint.iterators, prog.dense))})
    PROVE  c \in K!Coords /\ K!IsLogicalIndex(loop, c)
<1> DEFINE its == LoopPoint.iterators
           levels == ArrayLevels(its, prog.dense)
           V == {ResolvedIndex(a) : a \in Range(levels)}
           W == {K!Index(x) : x \in Its(LoopPoint)}
<1>1. DOMAIN levels = DOMAIN its /\ \A n \in DOMAIN its : levels[n] = ArrayLevel(its[n], prog.dense)
      BY DEF ArrayLevels
<1>2. \A v : v \in V <=> \E n \in DOMAIN its : v = ResolvedIndex(ArrayLevel(its[n], prog.dense))
  <2> HIDE DEF levels, its
  <2> QED BY <1>1 DEF Range
<1>3. V = W
  <2>1. \A v : v \in W <=> \E n \in DOMAIN its : v = K!Index(its[n])
        BY DEF Its
  <2>2. \A n \in DOMAIN its : ResolvedIndex(ArrayLevel(its[n], prog.dense)) = K!Index(its[n])
        BY LoopPointIs, ResolvedIs
  <2> HIDE DEF V, W, its
  <2> QED BY <1>2, <2>1, <2>2
<1>4. W # {} /\ W \subseteq K!Coords
  <2>1. \A x \in Its(LoopPoint) : K!Index(x) \in K!Coords
        BY LoopIndex
  <2> QED BY <2>1, LoopPointIs
<1>5. K!Coords \subseteq Nat
      BY DimensionAssumption DEF K!Coords
<1> HIDE DEF V, W
<1>6. PICK n \in W : \A m \in W : n <= m
      BY <1>4, <1>5, LeastNumber
<1>7. Min(V) = CHOOSE x \in V : \A y \in V : x <= y
      BY DEF Min
<1>8. c = CHOOSE x \in W : \A y \in W : x <= y
      BY <1>3, <1>7 DEF V
<1>9. c \in W /\ \A y \in W : c <= y
      BY <1>6, <1>8
<1>10. K!Its(prog.points[loop]) = Its(LoopPoint)
       BY SameData DEF LoopPoint
<1> QED BY <1>4, <1>9, <1>10 DEF K!IsLogicalIndex, W

LEMMA DefineLogicalIndexStep ==
    ASSUME Inv, DefineLogicalIndex
    PROVE  Inv' /\ UNCHANGED K!vars
<1>1. InBody
      BY DEF Inv, AtHead, DefineLogicalIndex, Running
<1>2. Runs /\ K!TypeOK /\ K!Guard(loop)
      BY <1>1, BodyRuns
<1>3. Loading
      BY <1>1, PhaseStatement DEF InBody, DefineLogicalIndex, Running
<1>4. PICK n \in 0..Len(Loads) : rest = After(Body, n) /\ index = Loaded(n)
      BY <1>3 DEF Loading
<1>5. Len(Loads) \in Nat
      BY <1>2, LoadsAre
<1>6. n = Len(Loads)
  <2>1. rest[1] # CompressedIndexDefinition(Loads[n + 1])
        BY DEF DefineLogicalIndex, Running, CompressedIndexDefinition
  <2>2. ~(n < Len(Loads))
        BY <1>2, <1>4, <2>1, LoadingNext
  <2> QED BY <1>5, <2>2
<1>7. /\ rest[1] = LogicalIndexDefinition(ArrayLevels(LoopPoint.iterators, prog.dense))
      /\ Tail(rest) = After(Body, Len(Loads) + 1) /\ Len(rest) # 1
  <2>1. /\ rest[1] = LogicalIndexDefinition(ArrayLevels(LoopPoint.iterators, prog.dense))
        /\ Tail(rest) = After(Body, n + 1) /\ Len(rest) \in Nat /\ Len(rest) > 1
        BY <1>2, <1>4, <1>6, LoadingNext
  <2>2. Len(rest) # 1
        BY <2>1
  <2> QED BY <1>6, <2>1, <2>2
<1>8. rest' = After(Body, Len(Loads) + 1) /\ head' = head
      BY <1>7 DEF DefineLogicalIndex, Continue
<1>9. Steady /\ iter' = iter /\ index' = index /\ values' = values
      BY <1>8 DEF DefineLogicalIndex, Steady, frame
<1>10. iter = head.iter /\ values = head.values /\ index = Loaded(Len(Loads))
       BY <1>3, <1>4, <1>6 DEF Loading
<1>11. i' \in K!Coords /\ K!IsLogicalIndex(loop, i')
  <2>1. i' = Min({ResolvedIndex(a) : a \in Range(ArrayLevels(LoopPoint.iterators, prog.dense))})
        BY <1>7 DEF DefineLogicalIndex, LogicalIndexDefinition
  <2> QED BY <1>2, <1>10, <2>1, MergedIndex
<1>12. Merged'
  <2>1. K!Coords' = K!Coords /\ Loads' = Loads /\ Loaded(Len(Loads))' = Loaded(Len(Loads))
        BY <1>9, SteadyLoop
  <2>2. K!IsLogicalIndex(loop, i)'
    <3>1. prog' = prog /\ crd' = crd /\ loop' = loop /\ head' = head
          BY <1>9 DEF Steady
    <3> QED BY <1>11, <3>1 DEF K!IsLogicalIndex, K!Its, K!Index, K!IsDense
  <2> QED BY <1>9, <1>10, <1>11, <2>1, <2>2 DEF Merged
<1>13. PICK choice : /\ IsBody(Body, prog, LoopPoint, choice, Len(Loads))
                     /\ K!Branches(loop) = {} => choice = Storage(prog, prog.rhs)
       BY <1>2, LoopBody
<1>14. /\ Loads' = Loads /\ Body' = Body /\ Increments' = Increments
       /\ K!Branches(loop)' = K!Branches(loop) /\ prog' = prog
       BY <1>9, SteadyLoop DEF Steady
<1>15. iter' = head'.iter /\ values' = head'.values
       BY <1>8, <1>9, <1>10
<1>16. CASE K!Branches(loop) # {}
  <2>1. Choosing'
        BY <1>8, <1>12, <1>14, <1>15, <1>16 DEF Choosing
  <2> QED BY <1>1, <1>9, <2>1, NextPhase
<1>17. CASE K!Branches(loop) = {}
  <2>1. rest' = <<Storage(prog, prog.rhs)>> \o Increments
        BY <1>8, <1>13, <1>17 DEF IsBody, Increments
  <2>2. rest' = <<Storage(prog', prog'.rhs)>> \o Increments'
        BY <1>14, <2>1
  <2>3. prog'.rhs \in Chosen'
        BY <1>14, <1>17 DEF Chosen
  <2>4. Storing'
        BY <1>12, <1>15, <2>2, <2>3 DEF Storing
  <2> QED BY <1>1, <1>9, <2>4, NextPhase
<1> QED BY <1>16, <1>17
LEMMA SameCardinality ==
    \A S : K!Cardinality(S) = Cardinality(S)
BY DEF K!Cardinality, Cardinality, K!IsFiniteSet, IsFiniteSet
(* Before any increment the iterators stand where they stood at the head. *)
LEMMA RepeatedNothing ==
    ASSUME NEW x
    PROVE  Repeated(0, x) = 0
<1>1. {m \in 1..0 : LoopPoint.iterators[m] = x} = {}
      OBVIOUS
<1> QED BY <1>1, FS_EmptySet DEF Repeated

LEMMA MovedNothing ==
    ASSUME K!TypeOK
    PROVE  /\ Moved(0, FALSE) = head.iter
           /\ K!IsDense(prog.lhs) => Moved(0, TRUE) = head.iter
<1>1. head.iter \in [K!Gathered(prog) -> Nat]
      BY DEF K!TypeOK
<1>2. ASSUME NEW stored, ~(stored = TRUE /\ ~K!IsDense(prog.lhs)), stored \in BOOLEAN
      PROVE  Moved(0, stored) = head.iter
  <2>1. \A x \in K!Gathered(prog) :
            head.iter[x] + (IF x \in Its(LoopPoint) /\ (K!IsDense(x) \/ K!Index(x) = i) THEN Repeated(0, x) ELSE 0)
                         + (IF stored /\ x = prog.lhs /\ ~K!IsDense(x) THEN 1 ELSE 0) = head.iter[x]
        BY <1>1, <1>2, RepeatedNothing
  <2> QED BY <1>1, <2>1 DEF Moved
<1> QED BY <1>2

-----------------------------------------------------------------------------
(* The condition of a branch. *)
LEMMA SetGuardIs ==
    ASSUME Runs, K!TypeOK, K!Guard(loop), Merged, iter = head.iter,
           NEW j \in K!Branches(loop)
    PROVE  SetGuard(CompressedLevels(prog.points[j].iterators, prog.dense)) <=> K!Matches(j, i)
<1> DEFINE its == prog.points[j].iterators
           levels == CompressedLevels(its, prog.dense)
<1>1. j \in DOMAIN prog.points /\ K!Dominates(prog.points[loop], prog.points[j])
      BY DEF K!Branches, K!SubPoints
<1>2. AreCompressed(levels, its, prog.dense)
  <2>1. its \in Seq(Operands(prog.rhs))
        BY <1>1, Shape DEF Runs
  <2> HIDE DEF its
  <2> QED BY <2>1, LevelsAre
<1>3. \A n \in DOMAIN its : its[n] \in Its(LoopPoint)
      BY <1>1, SameData DEF K!Dominates, LoopPoint
<1>4. \A n \in DOMAIN its : ResolvedIndex(ArrayLevel(its[n], prog.dense)) = K!Index(its[n])
      BY <1>3, ResolvedIs DEF Merged
<1>5. K!Matches(j, i) <=> \A n \in DOMAIN its : its[n] \notin prog.dense => K!Index(its[n]) = i
      BY DEF K!Matches, K!SparseIts, K!Its, K!IsDense
<1>6. DOMAIN levels = 1..Len(levels)
      BY <1>2 DEF AreCompressed, IsList
<1> HIDE DEF its, levels
<1>7. SetGuard(levels) <=> \A n \in DOMAIN its : its[n] \notin prog.dense => K!Index(its[n]) = i
  <2>1. ASSUME SetGuard(levels), NEW n \in DOMAIN its, its[n] \notin prog.dense
        PROVE  K!Index(its[n]) = i
    <3>1. PICK m \in 1..Len(levels) : levels[m] = ArrayLevel(its[n], prog.dense)
          BY <1>2, <2>1 DEF AreCompressed
    <3> QED BY <1>4, <1>6, <2>1, <3>1 DEF SetGuard
  <2>2. ASSUME \A n \in DOMAIN its : its[n] \notin prog.dense => K!Index(its[n]) = i,
               NEW m \in DOMAIN levels
        PROVE  ResolvedIndex(levels[m]) = i
    <3>1. PICK n \in DOMAIN its : its[n] \notin prog.dense /\ levels[m] = ArrayLevel(its[n], prog.dense)
          BY <1>2, <1>6, <2>2 DEF AreCompressed
    <3> QED BY <1>4, <2>2, <3>1
  <2> QED BY <2>1, <2>2 DEF SetGuard
<1> QED BY <1>5, <1>7 DEF levels, its

(* The if of the running loop. *)
LEMMA IfBranches ==
    ASSUME Inv, InBody, Running("IfStmt")
    PROVE  /\ Choosing
           /\ \E kept :
                 /\ IsIf(rest[1], prog, LoopPoint, kept)
                 /\ Tail(rest) = Increments /\ Tail(rest) = After(Increments, 0) /\ Len(rest) # 1
                 /\ kept \in Seq(Nat) /\ Len(kept) \in Nat
                 /\ \A k \in 1..Len(kept) :
                       /\ kept[k] \in K!Branches(loop)
                       /\ SetGuard(rest[1].conditions[k]) <=> K!Matches(kept[k], i)
                 /\ \A j \in K!Branches(loop) : \E k \in 1..Len(kept) : kept[k] = j
<1>1. Choosing
      BY PhaseStatement DEF InBody, Running
<1>2. Runs /\ K!TypeOK /\ K!Guard(loop)
      BY BodyRuns
<1>3. PICK kept :
          /\ IsIf(rest[1], prog, LoopPoint, kept)
          /\ rest # << >> /\ Tail(rest) = Increments /\ Tail(rest) = After(Increments, 0)
          /\ Len(rest) \in Nat /\ Len(rest) > 1
  <2>1. rest = After(Body, Len(Loads) + 1) /\ K!Branches(loop) # {}
        BY <1>1 DEF Choosing
  <2> QED BY <1>2, <2>1, ChoosingNext
<1>4. Len(rest) # 1
      BY <1>3
<1>5. IsAscending(kept, K!Branches(loop), Len(prog.points))
      BY <1>2, <1>3, BranchesAre DEF IsIf
<1>6. \A k \in 1..Len(kept) : kept[k] \in K!Branches(loop)
      BY <1>5 DEF IsAscending
<1>7. ASSUME NEW k \in 1..Len(kept)
      PROVE  SetGuard(rest[1].conditions[k]) <=> K!Matches(kept[k], i)
  <2>1. rest[1].conditions[k] = CompressedLevels(prog.points[kept[k]].iterators, prog.dense)
        BY <1>3 DEF IsIf
  <2> QED BY <1>1, <1>2, <1>6, <2>1, SetGuardIs DEF Choosing
<1>8. \A j \in K!Branches(loop) : j \in 1..Len(prog.points)
      BY <1>2, Shape DEF K!Branches, K!SubPoints, Runs
<1>9. \A j \in K!Branches(loop) : \E k \in 1..Len(kept) : kept[k] = j
      BY <1>5, <1>8 DEF IsAscending
<1>10. kept \in Seq(Nat) /\ Len(kept) \in Nat
       BY <1>5 DEF IsAscending
<1> QED BY <1>1, <1>3, <1>4, <1>6, <1>7, <1>9, <1>10

LEMMA SkipBranchesStep ==
    ASSUME Inv, SkipBranches
    PROVE  Inv' /\ UNCHANGED K!vars
<1>1. InBody /\ Running("IfStmt")
      BY DEF Inv, AtHead, SkipBranches, Running
<1>2. Choosing
      BY <1>1, IfBranches
<1>3. PICK kept :
          /\ IsIf(rest[1], prog, LoopPoint, kept)
          /\ Tail(rest) = After(Increments, 0) /\ Len(rest) # 1
          /\ \A k \in 1..Len(kept) : SetGuard(rest[1].conditions[k]) <=> K!Matches(kept[k], i)
          /\ \A j \in K!Branches(loop) : \E k \in 1..Len(kept) : kept[k] = j
      BY <1>1, IfBranches
<1>4. Skipped
  <2>1. \A k \in 1..Len(kept) : ~SetGuard(rest[1].conditions[k])
        BY <1>3 DEF SkipBranches, IsIf
  <2>2. \A j \in K!Branches(loop) : ~K!Matches(j, i)
        BY <1>3, <2>1
  <2> QED BY <1>2, <2>2 DEF Skipped, Choosing
<1>5. rest' = After(Increments, 0) /\ head' = head
      BY <1>3 DEF SkipBranches, Continue
<1>6. Steady /\ iter' = iter /\ index' = index /\ i' = i /\ values' = values
      BY <1>5 DEF SkipBranches, Steady, frame
<1>7. Merged'
      BY <1>2, <1>6, SteadyMerged DEF Choosing
<1>8. Incrementing'
  <2>1. iter' = Moved(0, FALSE)' /\ rest' = After(Increments', 0)
    <3>1. Moved(0, FALSE)' = Moved(0, FALSE) /\ Increments' = Increments
          BY <1>6, SteadyIndex, SteadyLoop
    <3>2. Moved(0, FALSE) = head.iter
          BY <1>1, BodyRuns, MovedNothing
    <3> QED BY <1>2, <1>5, <1>6, <3>1, <3>2 DEF Choosing
  <2>2. Outcome(FALSE)'
    <3>1. Skipped'
          BY <1>4, <1>6, SteadyIndex
    <3>2. values' = head'.values
          BY <1>2, <1>5, <1>6 DEF Choosing
    <3> QED BY <3>1, <3>2 DEF Outcome
  <2>3. 0 \in 0..(Len(LoopPoint'.iterators) - 1)
    <3>1. LoopPoint' = LoopPoint
          BY <1>6, SteadyLoop
    <3>2. Len(LoopPoint.iterators) \in Nat \ {0}
          BY <1>1, BodyRuns, LoopPointIs
    <3> QED BY <3>1, <3>2
  <2> QED BY <1>7, <2>1, <2>2, <2>3 DEF Incrementing
<1> QED BY <1>1, <1>6, <1>8, NextPhase
LEMMA TakeBranchStep ==
    ASSUME Inv, TakeBranch
    PROVE  Inv' /\ UNCHANGED K!vars
<1>1. InBody /\ Running("IfStmt")
      BY DEF Inv, AtHead, TakeBranch, Running
<1>2. Choosing
      BY <1>1, IfBranches
<1>3. PICK kept :
          /\ IsIf(rest[1], prog, LoopPoint, kept)
          /\ Tail(rest) = Increments
          /\ kept \in Seq(Nat) /\ Len(kept) \in Nat
          /\ \A k \in 1..Len(kept) :
                /\ kept[k] \in K!Branches(loop)
                /\ SetGuard(rest[1].conditions[k]) <=> K!Matches(kept[k], i)
          /\ \A j \in K!Branches(loop) : \E k \in 1..Len(kept) : kept[k] = j
      BY <1>1, IfBranches
<1>4. PICK k \in DOMAIN rest[1].conditions :
          /\ SetGuard(rest[1].conditions[k])
          /\ \A m \in 1..(k - 1) : ~SetGuard(rest[1].conditions[m])
          /\ rest' = rest[1].bodies[k] \o Tail(rest)
      BY DEF TakeBranch
<1> DEFINE j == kept[k]
           e == prog.points[j].expr
<1>5. k \in 1..Len(kept)
      BY <1>3 DEF IsIf
<1>6. j \in K!Branches(loop) /\ K!Matches(j, i) /\ j \in DOMAIN prog.points
      BY <1>3, <1>4, <1>5 DEF K!Branches, K!SubPoints
<1>7. ASSUME NEW m \in K!Branches(loop), K!Matches(m, i)
      PROVE  j <= m
  <2>1. PICK q \in 1..Len(kept) : kept[q] = m
        BY <1>3
  <2>2. ~(q < k)
    <3>1. q < k => q \in 1..(k - 1)
          BY <1>3, <1>5
    <3>2. SetGuard(rest[1].conditions[q])
          BY <1>3, <1>7, <2>1
    <3> QED BY <1>4, <3>1, <3>2
  <2>3. k = q \/ k < q
        BY <1>3, <1>5, <2>2
  <2>4. k < q => kept[k] < kept[q]
        BY <1>3, <1>5 DEF IsIf, IsAscending
  <2>5. kept[k] \in Nat /\ kept[q] \in Nat
        BY <1>3, <1>5
  <2> QED BY <2>1, <2>3, <2>4, <2>5
<1>8. e \in Chosen
      BY <1>6, <1>7 DEF Chosen, FirstMatches, K!IsFirstMatch
<1>9. rest' = <<Storage(prog, e)>> \o Increments
      BY <1>3, <1>4, <1>5 DEF IsIf
<1>10. Steady /\ iter' = iter /\ index' = index /\ i' = i /\ values' = values
       BY DEF TakeBranch, Steady, frame
<1>11. Merged'
       BY <1>2, <1>10, SteadyMerged DEF Choosing
<1>12. Storing'
  <2>1. Chosen' = Chosen /\ Increments' = Increments
        BY <1>10, SteadyIndex, SteadyLoop
  <2>2. prog' = prog /\ head' = head
        BY <1>10 DEF Steady
  <2>3. e \in Chosen' /\ rest' = <<Storage(prog', e)>> \o Increments'
        BY <1>8, <1>9, <2>1, <2>2
  <2>4. iter' = head'.iter /\ values' = head'.values
        BY <1>2, <1>10, <2>2 DEF Choosing
  <2> HIDE DEF e
  <2> QED BY <1>11, <2>3, <2>4 DEF Storing
<1> QED BY <1>1, <1>10, <1>12, NextPhase

-----------------------------------------------------------------------------
(* The expression that is stored. *)
LEMMA ChosenTokens ==
    ASSUME Runs, NEW e \in Chosen
    PROVE  e \in Seq(Tokens(Operands(prog.rhs))) /\ Operands(e) \subseteq Operands(prog.rhs)
<1>1. CASE e = prog.rhs
      BY <1>1 DEF Runs, IsProgram
<1>2. CASE e # prog.rhs
  <2>1. PICK j \in DOMAIN prog.points : e = prog.points[j].expr
        BY <1>2 DEF Chosen, FirstMatches
  <2> QED BY <2>1, Shape DEF Runs
<1> QED BY <1>1, <1>2

LEMMA AccessedIs ==
    ASSUME NEW x, iter = head.iter
    PROVE  Accessed(ArrayLevel(x, prog.dense)) = K!Position(x, i)
BY LevelIs DEF Accessed, K!Position, K!IsDense

LEMMA EvaluatedIs ==
    ASSUME iter = head.iter, values = head.values, NEW names, NEW e \in Seq(Tokens(names))
    PROVE  Evaluated(ConvertLIR(e, prog.dense)) = K!Computed(e, i)
<1> DEFINE c == ConvertLIR(e, prog.dense)
           back == [n \in DOMAIN c |-> IF c[n].op = "read" THEN Read(c[n].name) ELSE c[n]]
           first(x) == CHOOSE m \in DOMAIN c : c[m].op = "read" /\ c[m].name = x
<1>1. /\ DOMAIN c = DOMAIN e
      /\ \A n \in DOMAIN e : c[n] = IF e[n].op = "read" THEN ArrayAccess(ArrayLevel(e[n].name, prog.dense)) ELSE e[n]
      BY DEF ConvertLIR
<1>2. \A n \in DOMAIN e : e[n] \in Tokens(names)
      OBVIOUS
<1>3. \A n \in DOMAIN e : e[n].op = "read" => e[n] = Read(e[n].name)
      BY <1>2 DEF Tokens, Add, Mul, Read
<1> HIDE DEF c
<1>4. ASSUME NEW n \in DOMAIN e
      PROVE  /\ c[n].op = e[n].op
             /\ e[n].op = "read" => c[n].name = e[n].name /\ c[n].array = ArrayLevel(e[n].name, prog.dense)
             /\ e[n].op # "read" => c[n] = e[n]
      BY <1>1, LevelIs DEF ArrayAccess
<1>5. back = e
  <2>1. \A n \in DOMAIN e : (IF c[n].op = "read" THEN Read(c[n].name) ELSE c[n]) = e[n]
        BY <1>3, <1>4
  <2>2. e = [n \in DOMAIN e |-> e[n]]
        OBVIOUS
  <2> QED BY <1>1, <2>1, <2>2
<1>6. Operands(c) = Operands(e)
      BY <1>1, <1>4 DEF Operands
<1>7. ASSUME NEW x \in Operands(e)
      PROVE  ReadAt(c[first(x)].array) = K!ReadAt(x, i)
  <2>1. \E m \in DOMAIN c : c[m].op = "read" /\ c[m].name = x
        BY <1>6, <1>7 DEF Operands
  <2>2. first(x) \in DOMAIN c /\ c[first(x)].op = "read" /\ c[first(x)].name = x
        BY <2>1
  <2> HIDE DEF first
  <2>3. c[first(x)].array = ArrayLevel(x, prog.dense)
        BY <1>1, <1>4, <2>2
  <2>4. ReadAt(ArrayLevel(x, prog.dense)) = K!ReadAt(x, i)
        BY AccessedIs, LevelIs DEF ReadAt, K!ReadAt
  <2> QED BY <2>3, <2>4
<1>8. Evaluated(c) = [expr |-> back, at |-> [x \in Operands(c) |-> ReadAt(c[first(x)].array)]]
      BY DEF Evaluated
<1>9. [x \in Operands(c) |-> ReadAt(c[first(x)].array)] = [x \in Operands(e) |-> K!ReadAt(x, i)]
      BY <1>6, <1>7
<1>10. K!Computed(e, i) = [expr |-> e, at |-> [x \in Operands(e) |-> K!ReadAt(x, i)]]
       BY SameData DEF K!Computed, K!Value
<1> QED BY <1>5, <1>8, <1>9, <1>10 DEF c
LEMMA AssignStep ==
    ASSUME Inv, Assign
    PROVE  Inv' /\ UNCHANGED K!vars
<1>1. InBody
      BY DEF Inv, AtHead, Assign, Running
<1>2. Runs /\ K!TypeOK
      BY <1>1, BodyRuns
<1>3. Storing
      BY <1>1, PhaseStatement DEF InBody, Assign, Running
<1>4. PICK e \in Chosen : rest = <<Storage(prog, e)>> \o Increments
      BY <1>3 DEF Storing
<1>5. /\ rest[1] = Storage(prog, e) /\ Tail(rest) = Increments /\ Tail(rest) = After(Increments, 0)
      /\ Len(rest) # 1
  <2>1. /\ rest # << >> /\ rest[1] = Storage(prog, e) /\ Tail(rest) = Increments
        /\ Tail(rest) = After(Increments, 0) /\ Len(rest) \in Nat /\ Len(rest) > 1
        BY <1>2, <1>4, BeforeIncrements
  <2> QED BY <2>1
<1> DEFINE a == ArrayLevel(prog.lhs, prog.dense)
<1>6. rest[1].array = a /\ rest[1].value = ConvertLIR(e, prog.dense)
      BY <1>5 DEF Storage, ArrayAssignment
<1>7. iter = head.iter /\ values = head.values
      BY <1>3 DEF Storing
<1>8. IsCompressed(a) <=> ~K!IsDense(prog.lhs)
      BY LevelIs DEF K!IsDense
<1>9. values' = Stored(e)
  <2>1. Evaluated(ConvertLIR(e, prog.dense)) = K!Computed(e, i)
        BY <1>2, <1>7, ChosenTokens, EvaluatedIs
  <2>2. Accessed(a) = K!Position(prog.lhs, i)
        BY <1>7, AccessedIs
  <2> HIDE DEF a
  <2>3. values' = [values EXCEPT ![Accessed(a)] = Evaluated(ConvertLIR(e, prog.dense))]
        BY <1>6 DEF Assign
  <2> QED BY <1>7, <2>1, <2>2, <2>3 DEF Stored
<1> HIDE DEF a
<1>10. /\ K!IsDense(prog.lhs) => rest' = Tail(rest) /\ head' = head
       /\ ~K!IsDense(prog.lhs) => rest' = <<IncrementIterator(a, TRUE)>> \o Tail(rest) /\ head' = head
       BY <1>5, <1>6, <1>8 DEF Assign, Continue
<1>11. Steady /\ iter' = iter /\ index' = index /\ i' = i
       BY <1>10 DEF Assign, Steady, frame
<1>12. Merged'
       BY <1>3, <1>11, SteadyMerged DEF Storing
<1>13. /\ Chosen' = Chosen /\ Stored(e)' = Stored(e) /\ Increments' = Increments /\ Bump' = Bump
       /\ LoopPoint' = LoopPoint /\ (K!IsDense(prog.lhs)' <=> K!IsDense(prog.lhs))
  <2>1. \A x : K!IsDense(x)' <=> K!IsDense(x)
        BY <1>11, SteadyLoop
  <2>2. K!IsDense(prog.lhs)' <=> K!IsDense(prog.lhs)
        BY <1>11, <2>1 DEF Steady
  <2> QED BY <1>11, <2>2, SteadyIndex, SteadyLoop
<1>14. \E d \in Chosen' : values' = Stored(d)'
       BY <1>9, <1>13
<1>15. iter' = head'.iter
       BY <1>7, <1>10, <1>11
<1>16. CASE ~K!IsDense(prog.lhs)
  <2>1. rest' = <<Bump>> \o Increments
        BY <1>5, <1>10, <1>16 DEF Bump, a
  <2>2. Bumping'
        BY <1>12, <1>13, <1>14, <1>15, <1>16, <2>1 DEF Bumping
  <2> QED BY <1>1, <1>11, <2>2, NextPhase
<1>17. CASE K!IsDense(prog.lhs)
  <2>1. iter' = Moved(0, TRUE)' /\ rest' = After(Increments', 0)
    <3>1. Moved(0, TRUE)' = Moved(0, TRUE)
          BY <1>11, SteadyIndex
    <3>2. Moved(0, TRUE) = head.iter
          BY <1>2, <1>17, MovedNothing
    <3> QED BY <1>5, <1>7, <1>10, <1>11, <1>13, <1>17, <3>1, <3>2
  <2>2. Outcome(TRUE)'
        BY <1>14 DEF Outcome
  <2>3. 0 \in 0..(Len(LoopPoint'.iterators) - 1)
    <3>1. Len(LoopPoint.iterators) \in Nat \ {0}
          BY <1>2, LoopPointIs
    <3> QED BY <1>13, <3>1
  <2>4. Incrementing'
        BY <1>12, <2>1, <2>2, <2>3 DEF Incrementing
  <2> QED BY <1>1, <1>11, <2>4, NextPhase
<1> QED BY <1>16, <1>17

-----------------------------------------------------------------------------
(* An increment more. *)
LEMMA RepeatedNext ==
    ASSUME Runs, NEW n \in Nat, NEW k, k = n + 1, NEW x
    PROVE  /\ Repeated(n, x) \in Nat
           /\ LoopPoint.iterators[k] = x => Repeated(k, x) = Repeated(n, x) + 1
           /\ LoopPoint.iterators[k] # x => Repeated(k, x) = Repeated(n, x)
<1> DEFINE its == LoopPoint.iterators
           S == {m \in 1..n : its[m] = x}
           T == {m \in 1..k : its[m] = x}
<1>1. k \in Nat /\ 1..k = 1..n \cup {k} /\ k \notin 1..n
      OBVIOUS
<1>2. IsFiniteSet(S) /\ Cardinality(S) \in Nat
  <2>1. IsFiniteSet(1..n)
        BY FS_Interval
  <2>2. S \subseteq 1..n
        OBVIOUS
  <2> QED BY <2>1, <2>2, FS_Subset, FS_CardinalityType
<1>3. ASSUME its[k] = x
      PROVE  Cardinality(T) = Cardinality(S) + 1
  <2>1. T = S \cup {k} /\ k \notin S
        BY <1>1, <1>3
  <2> HIDE DEF S, T
  <2> QED BY <1>2, <2>1, FS_AddElement
<1>4. ASSUME its[k] # x
      PROVE  Cardinality(T) = Cardinality(S)
  <2>1. T = S
        BY <1>1, <1>4
  <2> QED BY <2>1
<1> QED BY <1>2, <1>3, <1>4 DEF Repeated

LEMMA RepeatedAll ==
    ASSUME Runs, NEW x
    PROVE  K!Occurrences(LoopPoint, x) = Repeated(Len(LoopPoint.iterators), x)
BY LoopPointIs, SameCardinality DEF K!Occurrences, Repeated
LEMMA MovedNext ==
    ASSUME Runs, K!TypeOK, NEW n \in Nat, NEW k, k = n + 1, k \in DOMAIN LoopPoint.iterators,
           NEW x, x = LoopPoint.iterators[k], NEW stored \in BOOLEAN
    PROVE  /\ x \in K!Gathered(prog)
           /\ Moved(k, stored)
                = [Moved(n, stored) EXCEPT ![x] = @ + (IF K!IsDense(x) \/ K!Index(x) = i THEN 1 ELSE 0)]
<1> DEFINE moves(y) == y \in Its(LoopPoint) /\ (K!IsDense(y) \/ K!Index(y) = i)
           extra(y) == IF stored /\ y = prog.lhs /\ ~K!IsDense(y) THEN 1 ELSE 0
           times(m, y) == IF moves(y) THEN Repeated(m, y) ELSE 0
           at(m, y) == head.iter[y] + times(m, y) + extra(y)
           G == K!Gathered(prog)
<1>1. x \in Its(LoopPoint) /\ x \in G
      BY LoopPointIs, SameData
<1>2. \A y \in G : head.iter[y] \in Nat
      BY DEF K!TypeOK
<1>3. \A y : Repeated(n, y) \in Nat /\ Repeated(k, y) = Repeated(n, y) + (IF y = x THEN 1 ELSE 0)
      BY RepeatedNext
<1>4. Moved(k, stored) = [y \in G |-> at(k, y)] /\ Moved(n, stored) = [y \in G |-> at(n, y)]
      BY DEF Moved
<1>5. \A y : extra(y) \in Nat
      OBVIOUS
<1>6. moves(x) <=> K!IsDense(x) \/ K!Index(x) = i
      BY <1>1
<1> HIDE DEF extra, moves
<1>7. ASSUME NEW y \in G
      PROVE  at(k, y) = IF y = x THEN at(n, x) + (IF K!IsDense(x) \/ K!Index(x) = i THEN 1 ELSE 0) ELSE at(n, y)
  <2>1. head.iter[y] \in Nat /\ extra(y) \in Nat /\ Repeated(n, y) \in Nat
        BY <1>2, <1>3, <1>5
  <2>2. CASE y = x
    <3>1. Repeated(k, y) = Repeated(n, y) + 1
          BY <1>3, <2>2
    <3>2. CASE moves(x)
          BY <1>6, <2>1, <2>2, <3>1, <3>2
    <3>3. CASE ~moves(x)
          BY <1>6, <2>1, <2>2, <3>3
    <3> QED BY <3>2, <3>3
  <2>3. CASE y # x
    <3>1. Repeated(k, y) = Repeated(n, y)
          BY <1>3, <2>3
    <3> QED BY <2>3, <3>1
  <2> QED BY <2>2, <2>3
<1> HIDE DEF at, G
<1> QED BY <1>1, <1>4, <1>7 DEF G

LEMMA MovedByStore ==
    ASSUME K!TypeOK, ~K!IsDense(prog.lhs)
    PROVE  Moved(0, TRUE) = [head.iter EXCEPT ![prog.lhs] = @ + 1]
<1>1. head.iter \in [K!Gathered(prog) -> Nat] /\ prog.lhs \in K!Gathered(prog)
      BY SameData DEF K!TypeOK
<1>2. \A x \in K!Gathered(prog) :
         head.iter[x] + (IF x \in Its(LoopPoint) /\ (K!IsDense(x) \/ K!Index(x) = i) THEN Repeated(0, x) ELSE 0)
                      + (IF x = prog.lhs /\ ~K!IsDense(x) THEN 1 ELSE 0)
           = IF x = prog.lhs THEN head.iter[x] + 1 ELSE head.iter[x]
      BY <1>1, RepeatedNothing
<1> DEFINE G == K!Gathered(prog)
<1>3. Moved(0, TRUE) = [x \in G |-> IF x = prog.lhs THEN head.iter[x] + 1 ELSE head.iter[x]]
      BY <1>2 DEF Moved
<1> HIDE DEF G
<1> QED BY <1>1, <1>3 DEF G

(* All the increments. *)
LEMMA MovedAll ==
    ASSUME Runs, K!TypeOK, NEW stored \in BOOLEAN
    PROVE  /\ Moved(Len(LoopPoint.iterators), stored) = K!Advanced(loop, i, stored)
           /\ Moved(Len(LoopPoint.iterators), stored) \in [K!Gathered(prog) -> Nat]
<1> DEFINE l == Len(LoopPoint.iterators)
<1>1. l \in Nat
      BY LoopPointIs
<1> HIDE DEF l
<1>2. \A x : K!Occurrences(LoopPoint, x) = Repeated(l, x)
      BY RepeatedAll DEF l
<1>3. \A x : Repeated(l, x) \in Nat
  <2> DEFINE k == l + 1
  <2>1. k = l + 1
        OBVIOUS
  <2> HIDE DEF k
  <2> QED BY <1>1, <2>1, RepeatedNext
<1>4. ASSUME NEW x
      PROVE  (IF x \in Its(LoopPoint) /\ (K!IsDense(x) \/ K!Index(x) = i) THEN Repeated(l, x) ELSE 0)
                = IF x \in K!Its(prog.points[loop]) THEN K!Increment(loop, x, i) ELSE 0
      BY <1>2, SameData DEF K!Increment, LoopPoint
<1>5. Moved(l, stored) = K!Advanced(loop, i, stored)
      BY <1>4 DEF Moved, K!Advanced
<1>6. \A x \in K!Gathered(prog) : head.iter[x] \in Nat
      BY DEF K!TypeOK
<1>7. Moved(l, stored) \in [K!Gathered(prog) -> Nat]
      BY <1>3, <1>6 DEF Moved
<1> QED BY <1>5, <1>7 DEF l
-----------------------------------------------------------------------------
(* What the statements of the iteration have done since the head, when the  *)
(* last of them has run, is a step of Kernel.                               *)
LEMMA IterationDone ==
    ASSUME Runs, K!TypeOK, K!Guard(loop), i \in K!Coords, K!IsLogicalIndex(loop, i),
           NEW stored \in BOOLEAN, Outcome(stored),
           UNCHANGED <<prog, crd, loop, wanted>>,
           head'.iter = Moved(Len(LoopPoint.iterators), stored), head'.i = i, head'.values = values
    PROVE  K!TypeOK' /\ (K!TakeBranch \/ K!SkipCoordinate \/ K!StoreWhole)
<1>1. head'.iter = K!Advanced(loop, i, stored) /\ head'.iter \in [K!Gathered(prog) -> Nat]
      BY MovedAll
<1>2. loop <= Len(prog.points)
  <2>1. Len(prog.points) \in Nat /\ DOMAIN prog.points = 1..Len(prog.points)
        BY Shape DEF Runs
  <2> QED BY <2>1 DEF Runs
<1>3. K!IterateAt(i)
      BY <1>2 DEF K!IterateAt
<1>4. ASSUME DOMAIN values = K!Coords
      PROVE  K!TypeOK'
  <2>1. crd \in [K!Gathered(prog) -> K!CoordinateArrays] /\ loop \in 1..(Len(prog.points) + 1)
        BY DEF K!TypeOK
  <2>2. head'.i \in -1..(N - 1) /\ DOMAIN head'.values = K!Coords
        BY <1>4, DimensionAssumption DEF K!Coords
  <2>3. prog' = prog /\ crd' = crd /\ loop' = loop
        OBVIOUS
  <2> QED BY <1>1, <2>1, <2>2, <2>3 DEF K!TypeOK, K!Gathered, K!Coords, K!CoordinateArrays
<1>5. CASE stored
  <2>1. PICK e \in Chosen : values = Stored(e)
        BY <1>5 DEF Outcome
  <2>2. K!Store(e, i)
        BY <2>1 DEF K!Store, Stored
  <2>3. DOMAIN values = K!Coords
        BY <2>1 DEF Stored, K!TypeOK
  <2>4. ASSUME NEW j \in FirstMatches, e = prog.points[j].expr
        PROVE  K!TakeBranch
    <3>1. j \in DOMAIN prog.points /\ K!IsFirstMatch(loop, j, i)
          BY <2>4 DEF FirstMatches
    <3> QED BY <1>1, <1>3, <1>5, <2>2, <2>4, <3>1 DEF K!TakeBranch
  <2>5. ASSUME e = prog.rhs, K!Branches(loop) = {}
        PROVE  K!StoreWhole
        BY <1>1, <1>3, <1>5, <2>2, <2>5 DEF K!StoreWhole
  <2>6. K!TakeBranch \/ K!StoreWhole
        BY <2>1, <2>4, <2>5 DEF Chosen
  <2> QED BY <1>4, <2>3, <2>6
<1>6. CASE ~stored
  <2>1. Skipped /\ values = head.values
        BY <1>6 DEF Outcome
  <2>2. K!SkipCoordinate
    <3>1. head'.iter = K!Advanced(loop, i, FALSE)
          BY <1>1, <1>6
    <3> QED BY <1>3, <2>1, <3>1 DEF K!SkipCoordinate, Skipped
  <2>3. DOMAIN values = K!Coords
        BY <2>1 DEF K!TypeOK
  <2> QED BY <1>4, <2>2, <2>3
<1> QED BY <1>5, <1>6

(* The increment after a store to a compressed result. *)
LEMMA BumpStep ==
    ASSUME Inv, InBody, Increment, Bumping
    PROVE  Inv' /\ UNCHANGED K!vars
<1>1. Runs /\ K!TypeOK
      BY BodyRuns
<1>2. /\ rest[1] = Bump /\ Tail(rest) = After(Increments, 0) /\ Len(rest) # 1
  <2>1. /\ rest # << >> /\ rest[1] = Bump /\ Tail(rest) = Increments
        /\ Tail(rest) = After(Increments, 0) /\ Len(rest) \in Nat /\ Len(rest) > 1
        BY <1>1, BeforeIncrements DEF Bumping
  <2> QED BY <2>1
<1>3. iter' = [head.iter EXCEPT ![prog.lhs] = @ + 1]
  <2>1. rest[1].array.name = prog.lhs /\ rest[1].always = TRUE
        BY <1>2, LevelIs DEF Bump, IncrementIterator
  <2> QED BY <2>1 DEF Increment, Bumping
<1>4. rest' = After(Increments, 0) /\ head' = head
      BY <1>2 DEF Increment, Continue
<1>5. Steady /\ index' = index /\ i' = i /\ values' = values
      BY <1>4 DEF Increment, Steady, frame
<1>6. Merged'
      BY <1>5, SteadyMerged DEF Bumping
<1>7. iter' = Moved(0, TRUE)' /\ rest' = After(Increments', 0)
  <2>1. Moved(0, TRUE)' = Moved(0, TRUE) /\ Increments' = Increments
        BY <1>5, SteadyIndex, SteadyLoop
  <2>2. Moved(0, TRUE) = [head.iter EXCEPT ![prog.lhs] = @ + 1]
        BY <1>1, MovedByStore DEF Bumping
  <2> QED BY <1>3, <1>4, <2>1, <2>2
<1>8. Outcome(TRUE)'
  <2>1. PICK e \in Chosen : values = Stored(e)
        BY DEF Bumping
  <2>2. Chosen' = Chosen /\ Stored(e)' = Stored(e)
        BY <1>5, SteadyIndex
  <2> QED BY <1>5, <2>1, <2>2 DEF Outcome
<1>9. 0 \in 0..(Len(LoopPoint'.iterators) - 1)
  <2>1. LoopPoint' = LoopPoint /\ Len(LoopPoint.iterators) \in Nat \ {0}
        BY <1>1, <1>5, SteadyLoop, LoopPointIs
  <2> QED BY <2>1
<1>10. Incrementing'
       BY <1>6, <1>7, <1>8, <1>9 DEF Incrementing
<1> QED BY <1>5, <1>10, NextPhase
(* The increment of an iterator of the point. *)
LEMMA IncrementNext ==
    ASSUME Inv, InBody, Increment, Incrementing
    PROVE  \/ Inv' /\ UNCHANGED K!vars
           \/ Inv' /\ (K!TakeBranch \/ K!SkipCoordinate \/ K!StoreWhole)
<1>1. Runs /\ K!TypeOK /\ K!Guard(loop)
      BY BodyRuns
<1> DEFINE l == Len(LoopPoint.iterators)
<1>2. PICK n \in 0..(l - 1), stored \in BOOLEAN :
          rest = After(Increments, n) /\ iter = Moved(n, stored) /\ Outcome(stored)
      BY DEF Incrementing
<1>3. l \in Nat \ {0} /\ DOMAIN LoopPoint.iterators = 1..l
      BY <1>1, LoopPointIs
<1> DEFINE k == n + 1
<1>4. k = n + 1 /\ n \in Nat /\ k \in 1..l
      BY <1>3
<1> HIDE DEF k
<1> DEFINE x == LoopPoint.iterators[k]
<1>5. /\ IsLast(rest) <=> k = l
      /\ rest[1] = IncrementIterator(ArrayLevel(x, prog.dense), FALSE)
      /\ Tail(rest) = After(Increments, k)
      /\ k = l => Tail(rest) = << >>
  <2>1. n \in 0..(Len(LoopPoint.iterators) - 1) /\ rest = After(Increments, n) /\ k = n + 1
        BY <1>2, <1>4
  <2>2. IsLast(rest) <=> IsLastPosition(k)
        BY <1>1, <2>1, IncrementingNext
  <2>3. rest[1] = IncrementIterator(ArrayLevel(LoopPoint.iterators[k], prog.dense), FALSE)
        BY <1>1, <2>1, IncrementingNext
  <2>4. Tail(rest) = After(Increments, k)
        BY <1>1, <2>1, IncrementingNext
  <2>5. k = Len(LoopPoint.iterators) => Tail(rest) = << >>
        BY <1>1, <2>1, IncrementingNext
  <2> QED BY <2>2, <2>3, <2>4, <2>5 DEF IsLastPosition
<1>6. Merged
      BY DEF Incrementing
<1>7. x \in Its(LoopPoint)
      BY <1>1, <1>3, <1>4, LoopPointIs
<1>8. (~IsCompressed(ArrayLevel(x, prog.dense)) \/ i = index[x]) <=> (K!IsDense(x) \/ K!Index(x) = i)
  <2>1. ~K!IsDense(x) => index[x] = K!Index(x)
        BY <1>1, <1>6, <1>7, AllLoaded DEF Merged
  <2> QED BY <2>1, LevelIs DEF K!IsDense
<1>9. iter' = Moved(k, stored)
  <2>1. x = LoopPoint.iterators[k] /\ k \in DOMAIN LoopPoint.iterators
        BY <1>3, <1>4
  <2>2. /\ rest[1].array = ArrayLevel(x, prog.dense) /\ rest[1].always = FALSE
        /\ rest[1].array.name = x
        BY <1>5, LevelIs DEF IncrementIterator
  <2> HIDE DEF x
  <2>3. Moved(k, stored) = [Moved(n, stored) EXCEPT ![x] = @ + (IF K!IsDense(x) \/ K!Index(x) = i THEN 1 ELSE 0)]
        BY <1>1, <1>4, <2>1, MovedNext
  <2>4. iter' = [iter EXCEPT ![x] = @ + (IF ~IsCompressed(ArrayLevel(x, prog.dense)) \/ i = index[x] THEN 1 ELSE 0)]
        BY <2>2 DEF Increment
  <2> QED BY <1>2, <1>8, <2>3, <2>4
<1> HIDE DEF x
<1>10. /\ prog' = prog /\ code' = code /\ crd' = crd /\ loop' = loop /\ wanted' = wanted
       /\ index' = index /\ i' = i /\ values' = values /\ rest' = After(Increments, k)
       /\ head' = IF k = l THEN [iter |-> iter', i |-> i', values |-> values'] ELSE head
       BY <1>5 DEF Increment, Continue, frame, IsLast
<1>11. CASE k # l
  <2>1. Steady
        BY <1>10, <1>11 DEF Steady
  <2>2. Merged'
        BY <1>6, <1>10, <2>1, SteadyMerged
  <2>3. Incrementing'
    <3>1. Moved(k, stored)' = Moved(k, stored) /\ Increments' = Increments /\ LoopPoint' = LoopPoint
          BY <1>10, <2>1, SteadyIndex, SteadyLoop
    <3>2. Outcome(stored)'
      <4>1. /\ Chosen' = Chosen /\ (\A e : Stored(e)' = Stored(e)) /\ (Skipped' <=> Skipped)
            /\ head' = head
            BY <1>10, <2>1, SteadyIndex DEF Steady
      <4> QED BY <1>2, <1>10, <4>1 DEF Outcome
    <3>3. k \in 0..(l - 1)
          BY <1>3, <1>4, <1>11
    <3>4. k \in 0..(Len(LoopPoint'.iterators) - 1)
          BY <3>1, <3>3
    <3> HIDE DEF l
    <3> QED BY <1>9, <1>10, <2>2, <3>1, <3>2, <3>4 DEF Incrementing
  <2> QED BY <2>1, <2>3, NextPhase
<1>12. CASE k = l
  <2>1. head' = [iter |-> iter', i |-> i', values |-> values']
        BY <1>10, <1>12
  <2>2. head'.iter = Moved(l, stored) /\ head'.i = i /\ head'.values = values
        BY <1>9, <1>10, <1>12, <2>1
  <2>3. UNCHANGED <<prog, crd, loop, wanted>>
        BY <1>10
  <2>4. i \in K!Coords /\ K!IsLogicalIndex(loop, i)
        BY <1>6 DEF Merged
  <2>5. K!TypeOK' /\ (K!TakeBranch \/ K!SkipCoordinate \/ K!StoreWhole)
        BY <1>1, <1>2, <2>2, <2>3, <2>4, IterationDone
  <2>6. rest' = << >>
        BY <1>5, <1>10, <1>12
  <2>7. AtHead'
        BY <1>10, <2>1, <2>6 DEF AtHead
  <2>8. IsProgram(prog)' /\ K!CompilesInC(prog)' /\ (code = Lower(prog))'
    <3>1. IsProgram(prog) /\ K!CompilesInC(prog) /\ code = Lower(prog)
          BY DEF Inv
    <3> QED BY <1>10, <3>1 DEF K!CompilesInC
  <2> QED BY <2>5, <2>7, <2>8 DEF Inv
<1> QED BY <1>11, <1>12

LEMMA IncrementStep ==
    ASSUME Inv, Increment
    PROVE  \/ Inv' /\ UNCHANGED K!vars
           \/ Inv' /\ (K!TakeBranch \/ K!SkipCoordinate \/ K!StoreWhole)
<1>1. InBody
      BY DEF Inv, AtHead, Increment, Running
<1>2. Bumping \/ Incrementing
      BY <1>1, PhaseStatement DEF InBody, Increment, Running
<1> QED BY <1>1, <1>2, BumpStep, IncrementNext

-----------------------------------------------------------------------------
(* A statement keeps the invariant, and is a step of Kernel or none. *)
LEMMA Step ==
    ASSUME Inv, [Next]_vars
    PROVE  Inv' /\ [K!Next]_(K!vars)
<1>1. ASSUME Iterate
      PROVE  Inv' /\ [K!Next]_(K!vars)
      BY <1>1, IterateStep
<1>2. ASSUME LeaveLoop
      PROVE  Inv' /\ [K!Next]_(K!vars)
      BY <1>2, LeaveLoopStep DEF K!Next
<1>3. ASSUME DefineCompressedIndex
      PROVE  Inv' /\ [K!Next]_(K!vars)
      BY <1>3, DefineCompressedIndexStep
<1>4. ASSUME DefineLogicalIndex
      PROVE  Inv' /\ [K!Next]_(K!vars)
      BY <1>4, DefineLogicalIndexStep
<1>5. ASSUME TakeBranch
      PROVE  Inv' /\ [K!Next]_(K!vars)
      BY <1>5, TakeBranchStep
<1>6. ASSUME SkipBranches
      PROVE  Inv' /\ [K!Next]_(K!vars)
      BY <1>6, SkipBranchesStep
<1>7. ASSUME Assign
      PROVE  Inv' /\ [K!Next]_(K!vars)
      BY <1>7, AssignStep
<1>8. ASSUME Increment
      PROVE  Inv' /\ [K!Next]_(K!vars)
      BY <1>8, IncrementStep DEF K!Next
<1>9. ASSUME Return \/ UNCHANGED vars
      PROVE  Inv' /\ [K!Next]_(K!vars)
      BY <1>9, Stutter DEF Return
<1> QED BY <1>1, <1>2, <1>3, <1>4, <1>5, <1>6, <1>7, <1>8, <1>9 DEF Next

(* What holds of every state of the code, whatever the points of the        *)
(* lattice: the statements before the next one have done what the invariant *)
(* says they have since the head of the loop.                               *)
THEOREM Invariance == ProgramsTyped /\ Spec => []Inv
<1>1. ProgramsTyped /\ Init => Inv
      BY InitStep
<1>2. Inv /\ [Next]_vars => Inv'
      BY Step
<1> QED BY <1>1, <1>2, PTL DEF Spec

(* The code is right if the loops are: what lower emits, executed as C      *)
(* statement by statement, does an iteration of Kernel between two          *)
(* evaluations of the condition of a while, and leaves its loops when       *)
(* Kernel does (visit(ForAll) of Lower.cpp, the printers of IRPrinter.cpp). *)
THEOREM CodeImplementsLoops == ProgramsTyped /\ Spec => KernelSafety
<1>1. ProgramsTyped /\ Init => Inv /\ K!Init
      BY InitStep
<1>2. Inv /\ [Next]_vars => Inv' /\ [K!Next]_(K!vars)
      BY Step
<1> QED BY <1>1, <1>2, PTL DEF Spec, KernelSafety
-----------------------------------------------------------------------------
(* The types of the variables, of which the invariant leaves out the index  *)
(* at the head of a loop: it is that of the iteration before.               *)
IndexTyped ==
    /\ DOMAIN index \subseteq K!Gathered(prog) \ prog.dense
    /\ \A x \in DOMAIN index : index[x] \in K!Coords

LEMMA IndexTypedStep ==
    ASSUME Inv, IndexTyped, [Next]_vars
    PROVE  IndexTyped'
<1>1. CASE UNCHANGED vars
      BY <1>1 DEF vars, IndexTyped, K!Gathered, K!Coords
<1>2. CASE Iterate
  <2>1. prog' = prog /\ DOMAIN index' = {}
        BY <1>2 DEF Iterate, frame, None
  <2> QED BY <2>1 DEF IndexTyped
<1>3. CASE DefineCompressedIndex
  <2>1. PICK k \in 0..Len(Loads) : index' = Loaded(k)
        BY <1>3, DefineCompressedIndexStep
  <2>2. Runs /\ K!TypeOK /\ K!Guard(loop)
        BY <1>3, DefineCompressedIndexStep
  <2>3. \A x \in DOMAIN Loaded(k) : x \notin prog.dense /\ x \in K!Gathered(prog) /\ Loaded(k)[x] \in K!Coords
        BY <2>2, LoadedIs, SameData
  <2>4. prog' = prog
        BY <1>3 DEF DefineCompressedIndex, frame
  <2> QED BY <2>1, <2>3, <2>4 DEF IndexTyped, K!Gathered, K!Coords
<1>4. CASE LeaveLoop
      BY <1>4 DEF LeaveLoop, frame, IndexTyped, K!Gathered, K!Coords
<1>5. CASE DefineLogicalIndex
      BY <1>5 DEF DefineLogicalIndex, frame, IndexTyped, K!Gathered, K!Coords
<1>6. CASE TakeBranch \/ SkipBranches
      BY <1>6 DEF TakeBranch, SkipBranches, frame, IndexTyped, K!Gathered, K!Coords
<1>7. CASE Assign
      BY <1>7 DEF Assign, frame, IndexTyped, K!Gathered, K!Coords
<1>8. CASE Increment
      BY <1>8 DEF Increment, frame, IndexTyped, K!Gathered, K!Coords
<1>9. CASE Return
      BY <1>9 DEF Return, vars, IndexTyped, K!Gathered, K!Coords
<1> QED BY <1>1, <1>2, <1>3, <1>4, <1>5, <1>6, <1>7, <1>8, <1>9 DEF Next

LEMMA MovedTyped ==
    ASSUME Runs, K!TypeOK, NEW n \in Nat, NEW stored \in BOOLEAN
    PROVE  Moved(n, stored) \in [K!Gathered(prog) -> Nat]
<1> DEFINE k == n + 1
<1>1. k = n + 1
      OBVIOUS
<1> HIDE DEF k
<1>2. \A x : Repeated(n, x) \in Nat
      BY <1>1, RepeatedNext
<1>3. \A x \in K!Gathered(prog) : head.iter[x] \in Nat
      BY DEF K!TypeOK
<1> QED BY <1>2, <1>3 DEF Moved

(* Where the iterators and the result stand within an iteration. *)
LEMMA BodyTyped ==
    ASSUME Inv, InBody
    PROVE  iter \in [K!Gathered(prog) -> Nat] /\ i \in -1..(N - 1) /\ DOMAIN values = K!Coords
<1>1. Runs /\ K!TypeOK
      BY BodyRuns
<1>2. /\ head.iter \in [K!Gathered(prog) -> Nat] /\ head.i \in -1..(N - 1)
      /\ DOMAIN head.values = K!Coords
      BY <1>1 DEF K!TypeOK
<1>3. Merged => i \in -1..(N - 1)
      BY DimensionAssumption DEF Merged, K!Coords
<1>4. \A e : DOMAIN Stored(e) = K!Coords
      BY <1>2 DEF Stored
<1>5. Loading \/ Choosing \/ Storing \/ Bumping =>
          iter \in [K!Gathered(prog) -> Nat] /\ i \in -1..(N - 1) /\ DOMAIN values = K!Coords
      BY <1>2, <1>3, <1>4 DEF Loading, Choosing, Storing, Bumping
<1>6. ASSUME Incrementing
      PROVE  iter \in [K!Gathered(prog) -> Nat] /\ i \in -1..(N - 1) /\ DOMAIN values = K!Coords
  <2>1. PICK n \in 0..(Len(LoopPoint.iterators) - 1), stored \in BOOLEAN :
            iter = Moved(n, stored) /\ Outcome(stored)
        BY <1>6 DEF Incrementing
  <2>2. n \in Nat
        BY <1>1, LoopPointIs
  <2>3. DOMAIN values = K!Coords
        BY <1>2, <1>4, <2>1 DEF Outcome
  <2> QED BY <1>1, <1>3, <1>6, <2>1, <2>2, <2>3, MovedTyped DEF Incrementing
<1> QED BY <1>5, <1>6 DEF InBody

(* TypeOK, whatever the points of the lattice: the iterators of the code    *)
(* are those of the arrays of the assignment, its x_i and its i are         *)
(* coordinates, no load of an x_i is past the end of crd                    *)
(* (CompressedIndexDefinition and LogicalIndexDefinition as IRPrinter.cpp   *)
(* prints them).                                                            *)
THEOREM TypeCorrect == ProgramsTyped /\ Spec => []TypeOK
<1>1. ProgramsTyped /\ Init => Inv /\ IndexTyped
  <2>1. Init => IndexTyped
        BY DEF Init, IndexTyped, None
  <2> QED BY <2>1, InitStep
<1>2. Inv /\ IndexTyped /\ [Next]_vars => (Inv /\ IndexTyped)'
      BY Step, IndexTypedStep
<1>3. ASSUME Inv, IndexTyped
      PROVE  TypeOK
  <2>1. iter \in [K!Gathered(prog) -> Nat] /\ i \in -1..(N - 1) /\ DOMAIN values = K!Coords
    <3>1. CASE AtHead
          BY <1>3, <3>1 DEF Inv, AtHead, K!TypeOK
    <3>2. CASE InBody
          BY <1>3, <3>2, BodyTyped
    <3> QED BY <1>3, <3>1, <3>2 DEF Inv
  <2>2. loop \in 1..(Len(prog.points) + 1)
        BY <1>3 DEF Inv, K!TypeOK
  <2> QED BY <1>3, <2>1, <2>2 DEF TypeOK, IndexTyped
<1> QED BY <1>1, <1>2, <1>3, PTL DEF Spec
-----------------------------------------------------------------------------
(* The arrays a statement needs the iterator, or the x_i, of. *)
LEMMA LevelsOfLogical ==
    ASSUME NEW s, s.stmt = "LogicalIndexDefinition"
    PROVE  Levels(s) = Range(s.iterators)
BY Zenon DEF Levels

LEMMA LevelsOfIf ==
    ASSUME NEW s, s.stmt = "IfStmt"
    PROVE  Levels(s) = UNION {Range(s.conditions[k]) : k \in DOMAIN s.conditions}
<1>1. s.stmt # "LogicalIndexDefinition"
      OBVIOUS
<1> QED BY <1>1, Zenon DEF Levels

LEMMA LevelsOfOther ==
    ASSUME NEW s, s.stmt \in {"CompressedIndexDefinition", "ArrayAssignment", "IncrementIterator"}
    PROVE  Levels(s) = {s.array}
<1>1. s.stmt # "LogicalIndexDefinition" /\ s.stmt # "IfStmt"
      OBVIOUS
<1> QED BY <1>1, Zenon DEF Levels
(* The array of an iterator of the running loop is declared, and its x_i is *)
(* defined once all of them are.                                            *)
LEMMA IteratorInScope ==
    ASSUME Inv, InBody, NEW x \in Its(LoopPoint)
    PROVE  /\ x \in DOMAIN iter
           /\ index = Loaded(Len(Loads)) => (IsCompressed(ArrayLevel(x, prog.dense)) => x \in DOMAIN index)
<1>1. Runs /\ K!TypeOK /\ K!Guard(loop)
      BY BodyRuns
<1>2. iter \in [K!Gathered(prog) -> Nat]
      BY BodyTyped
<1>3. x \in K!Gathered(prog)
      BY <1>1, LoopIndex
<1>4. IsCompressed(ArrayLevel(x, prog.dense)) => ~K!IsDense(x)
      BY LevelIs DEF K!IsDense
<1> QED BY <1>1, <1>2, <1>3, <1>4, AllLoaded

LEMMA WrittenInScope ==
    ASSUME Inv, InBody
    PROVE  prog.lhs \in DOMAIN iter
BY BodyTyped, SameData

(* The loads, and the definition of i. *)
LEMMA LoadingInScope ==
    ASSUME Inv, InBody, Loading
    PROVE  InScope
<1>1. Runs /\ K!TypeOK /\ K!Guard(loop)
      BY BodyRuns
<1>2. PICK n \in 0..Len(Loads) : rest = After(Body, n) /\ index = Loaded(n)
      BY DEF Loading
<1>3. Len(Loads) \in Nat
      BY <1>1, LoadsAre
<1>4. CASE n < Len(Loads)
  <2> DEFINE k == n + 1
  <2>1. k \in 1..Len(Loads) /\ n \in Nat /\ k \notin 1..n
        BY <1>3, <1>4
  <2>2. rest[1] = CompressedIndexDefinition(Loads[k])
        BY <1>1, <1>2, <1>4, LoadingNext
  <2> HIDE DEF k
  <2>3. rest[1].stmt = "CompressedIndexDefinition" /\ rest[1].array = Loads[k]
        BY <2>2 DEF CompressedIndexDefinition
  <2>4. Levels(rest[1]) = {Loads[k]}
        BY <2>3, LevelsOfOther
  <2>5. Loads[k].name \in DOMAIN iter
        BY <1>1, <2>1, LoadsAre, IteratorInScope
  <2>6. Loads[k].name \notin DOMAIN index
    <3>1. \A m \in 1..n : m \in 1..Len(Loads)
          BY <1>3
    <3>2. \A m \in 1..n : Loads[m].name # Loads[k].name
          BY <1>1, <2>1, <3>1, LoadsAre
    <3>3. DOMAIN Loaded(n) = {Loads[m].name : m \in 1..n}
          BY <1>1, LoadedIs
    <3> QED BY <1>2, <3>2, <3>3
  <2>7. ~Running("LogicalIndexDefinition") /\ ~Running("IfStmt") /\ ~Running("IncrementIterator")
        BY <2>3 DEF Running
  <2> QED BY <2>3, <2>4, <2>5, <2>6, <2>7 DEF InScope
<1>5. CASE n = Len(Loads)
  <2> DEFINE levels == ArrayLevels(LoopPoint.iterators, prog.dense)
  <2>1. rest[1] = LogicalIndexDefinition(levels)
        BY <1>1, <1>2, <1>5, LoadingNext
  <2>2. \A a \in Range(levels) : \E x \in Its(LoopPoint) : a = ArrayLevel(x, prog.dense)
        BY LoopPointIs, <1>1 DEF ArrayLevels, Range
  <2> HIDE DEF levels
  <2>3. rest[1].stmt = "LogicalIndexDefinition" /\ rest[1].iterators = levels
        BY <2>1 DEF LogicalIndexDefinition
  <2>4. Levels(rest[1]) = Range(levels)
        BY <2>3, LevelsOfLogical
  <2>5. ASSUME NEW a \in Levels(rest[1])
        PROVE  a.name \in DOMAIN iter /\ (IsCompressed(a) => a.name \in DOMAIN index)
    <3>1. PICK x \in Its(LoopPoint) : a = ArrayLevel(x, prog.dense)
          BY <2>2, <2>4
    <3> QED BY <1>2, <1>5, <3>1, LevelIs, IteratorInScope
  <2>6. ~Running("CompressedIndexDefinition") /\ ~Running("IncrementIterator")
        BY <2>3 DEF Running
  <2> QED BY <2>5, <2>6 DEF InScope
<1> QED BY <1>3, <1>4, <1>5

(* The branches: their conditions compare x_i of the loop's own iterators. *)
LEMMA ChoosingInScope ==
    ASSUME Inv, InBody, Choosing
    PROVE  InScope
<1>1. Runs /\ K!TypeOK /\ K!Guard(loop)
      BY BodyRuns
<1>2. rest # << >> /\ rest[1].stmt = "IfStmt"
      BY PhaseStatement
<1>3. PICK kept :
          /\ IsIf(rest[1], prog, LoopPoint, kept)
          /\ \A k \in 1..Len(kept) : kept[k] \in K!Branches(loop)
      BY <1>2, IfBranches DEF Running
<1>4. Levels(rest[1]) = UNION {Range(rest[1].conditions[k]) : k \in DOMAIN rest[1].conditions}
      BY <1>2, LevelsOfIf
<1>5. ASSUME NEW a \in Levels(rest[1])
      PROVE  a.name \in DOMAIN iter /\ (IsCompressed(a) => a.name \in DOMAIN index)
  <2>1. PICK k \in DOMAIN rest[1].conditions : a \in Range(rest[1].conditions[k])
        BY <1>4
  <2> DEFINE its == prog.points[kept[k]].iterators
             levels == CompressedLevels(its, prog.dense)
  <2>2. k \in 1..Len(kept) /\ rest[1].conditions[k] = levels
        BY <1>3 DEF IsIf
  <2>3. kept[k] \in DOMAIN prog.points /\ K!Dominates(prog.points[loop], prog.points[kept[k]])
        BY <1>3, <2>2 DEF K!Branches, K!SubPoints
  <2>4. \A n \in DOMAIN its : its[n] \in Its(LoopPoint)
        BY <2>3, SameData DEF K!Dominates, LoopPoint
  <2>5. AreCompressed(levels, its, prog.dense)
    <3>1. its \in Seq(Operands(prog.rhs))
          BY <1>1, <2>3, Shape DEF Runs
    <3> HIDE DEF its
    <3> QED BY <3>1, LevelsAre
  <2> HIDE DEF levels
  <2>6. PICK m \in 1..Len(levels) : a = levels[m]
        BY <2>1, <2>2, <2>5 DEF Range, AreCompressed, IsList
  <2>7. PICK n \in DOMAIN its : a = ArrayLevel(its[n], prog.dense)
        BY <2>5, <2>6 DEF AreCompressed
  <2>8. index = Loaded(Len(Loads))
        BY DEF Choosing, Merged
  <2> HIDE DEF its
  <2> QED BY <2>4, <2>7, <2>8, LevelIs, IteratorInScope
<1>6. ~Running("CompressedIndexDefinition") /\ ~Running("IncrementIterator")
      BY <1>2 DEF Running
<1> QED BY <1>5, <1>6 DEF InScope

(* The store, its increment, and the increments of the iterators. *)
LEMMA StoringInScope ==
    ASSUME Inv, InBody, Storing \/ Bumping
    PROVE  InScope
<1>1. Runs
      BY BodyRuns
<1>2. CASE Storing
  <2>1. PICK e : rest = <<Storage(prog, e)>> \o Increments
        BY <1>2 DEF Storing
  <2>2. rest[1] = Storage(prog, e)
        BY <1>1, <2>1, BeforeIncrements
  <2>3. rest[1].stmt = "ArrayAssignment" /\ rest[1].array.name = prog.lhs
        BY <2>2, LevelIs DEF Storage, ArrayAssignment
  <2>4. Levels(rest[1]) = {rest[1].array}
        BY <2>3, LevelsOfOther
  <2> QED BY <2>3, <2>4, WrittenInScope DEF InScope, Running
<1>3. CASE Bumping
  <2>1. rest[1] = Bump
        BY <1>1, <1>3, BeforeIncrements DEF Bumping
  <2>2. rest[1].stmt = "IncrementIterator" /\ rest[1].array.name = prog.lhs /\ rest[1].always = TRUE
        BY <2>1, LevelIs DEF Bump, IncrementIterator
  <2>3. Levels(rest[1]) = {rest[1].array}
        BY <2>2, LevelsOfOther
  <2> QED BY <2>2, <2>3, WrittenInScope DEF InScope, Running
<1> QED BY <1>2, <1>3

LEMMA IncrementingInScope ==
    ASSUME Inv, InBody, Incrementing
    PROVE  InScope
<1>1. Runs
      BY BodyRuns
<1>2. PICK n \in 0..(Len(LoopPoint.iterators) - 1) : rest = After(Increments, n)
      BY DEF Incrementing
<1> DEFINE k == n + 1
<1>3. k = n + 1
      OBVIOUS
<1> HIDE DEF k
<1> DEFINE x == LoopPoint.iterators[k]
<1>4. rest[1] = IncrementIterator(ArrayLevel(x, prog.dense), FALSE) /\ k \in DOMAIN LoopPoint.iterators
      BY <1>1, <1>2, <1>3, IncrementingNext
<1>5. x \in Its(LoopPoint)
      BY <1>1, <1>4, LoopPointIs
<1> HIDE DEF x
<1>6. rest[1].stmt = "IncrementIterator" /\ rest[1].array = ArrayLevel(x, prog.dense)
      BY <1>4 DEF IncrementIterator
<1>7. Levels(rest[1]) = {rest[1].array}
      BY <1>6, LevelsOfOther
<1>8. x \in DOMAIN iter /\ (IsCompressed(ArrayLevel(x, prog.dense)) => x \in DOMAIN index)
      BY <1>5, IteratorInScope DEF Incrementing, Merged
<1> QED BY <1>6, <1>7, <1>8, LevelIs DEF InScope, Running

(* InScope: the C that IRPrinter.cpp prints compiles.  Every x_i that the    *)
(* definition of i, the condition of a branch or an increment uses has been *)
(* defined in the same block, none twice, and every iterator before the     *)
(* first loop, for every assignment that repeats no compressed array in a   *)
(* point (lower, Lower.cpp).                                                *)
THEOREM VariablesInScope == ProgramsTyped /\ Spec => []InScope
<1>1. ASSUME Inv
      PROVE  InScope
  <2>1. CASE AtHead
        BY <2>1 DEF AtHead, InScope
  <2>2. CASE InBody
        BY <1>1, <2>2, LoadingInScope, ChoosingInScope, StoringInScope, IncrementingInScope DEF InBody
  <2> QED BY <1>1, <2>1, <2>2 DEF Inv
<1> QED BY <1>1, Invariance, PTL
-----------------------------------------------------------------------------
(* An array that is written and read too is dense: a compressed one has a   *)
(* single iterator for both.                                                *)
InPlaceOnlyDense == \A p \in Programs : p.lhs \in Operands(p.rhs) => p.lhs \in p.dense

ReadOrWritten == prog.lhs \in Operands(prog.rhs) => prog.lhs \in prog.dense

(* An iterator that is still to be incremented has not moved. *)
LEMMA NotYetMoved ==
    ASSUME Inv, InBody, Incrementing, ReadOrWritten,
           NEW x \in Its(LoopPoint), ~K!IsDense(x),
           NEW m \in DOMAIN rest, rest[m].stmt = "IncrementIterator", rest[m].array.name = x
    PROVE  iter[x] = head.iter[x]
<1>1. Runs /\ K!TypeOK /\ K!Guard(loop)
      BY BodyRuns
<1> DEFINE its == LoopPoint.iterators
           l == Len(its)
<1>2. l \in Nat \ {0} /\ DOMAIN its = 1..l
      BY <1>1, LoopPointIs
<1>3. PICK n \in 0..(l - 1), stored \in BOOLEAN : rest = After(Increments, n) /\ iter = Moved(n, stored)
      BY DEF Incrementing
<1>4. Len(Increments) = l /\ \A k \in 1..l : Increments[k] = IncrementIterator(ArrayLevel(its[k], prog.dense), FALSE)
      BY <1>1, <1>2, IncrementsAre
<1> HIDE DEF l
<1> DEFINE k == n + m
<1>5. k \in 1..l /\ k \notin 1..n /\ rest[m] = Increments[k]
  <2>1. rest = [q \in 1..(l - n) |-> Increments[n + q]]
        BY <1>3, <1>4 DEF After
  <2>2. m \in 1..(l - n)
        BY <2>1
  <2> QED BY <1>2, <1>3, <2>1, <2>2
<1> HIDE DEF k
<1>6. its[k] = x
  <2>1. rest[m].array = ArrayLevel(its[k], prog.dense)
        BY <1>4, <1>5 DEF IncrementIterator
  <2> QED BY <2>1, LevelIs
<1>7. {q \in 1..n : its[q] = x} = {}
  <2>1. ASSUME NEW q \in 1..n, its[q] = x
        PROVE  FALSE
    <3>1. q \in DOMAIN its /\ k \in DOMAIN its
          BY <1>2, <1>3, <1>5
    <3>2. x \notin prog.dense
          BY SameData
    <3>3. q = k
          BY <1>1, <1>6, <2>1, <3>1, <3>2 DEF Runs, K!CompilesInC, LoopPoint
    <3> QED BY <1>5, <3>3
  <2> QED BY <2>1
<1>8. Repeated(n, x) = 0
      BY <1>7, FS_EmptySet DEF Repeated
<1>9. x # prog.lhs
      BY <1>1, LoopPointIs, SameData DEF ReadOrWritten
<1>10. x \in K!Gathered(prog) /\ head.iter[x] \in Nat
       BY <1>1, LoopIndex
<1>11. Moved(n, stored)[x] = head.iter[x]
       BY <1>8, <1>9, <1>10 DEF Moved
<1> QED BY <1>3, <1>11

(* The x_i are current as long as their iterators have not moved. *)
LEMMA CurrentInBody ==
    ASSUME Inv, InBody, ReadOrWritten
    PROVE  IndexCurrent
<1>1. Runs /\ K!TypeOK /\ K!Guard(loop)
      BY BodyRuns
<1>2. PICK n \in 0..Len(Loads) : index = Loaded(n)
  <2>1. Len(Loads) \in 0..Len(Loads)
        BY <1>1, LoadsAre
  <2> QED BY <2>1 DEF InBody, Loading, Choosing, Storing, Bumping, Incrementing, Merged
<1>3. ASSUME NEW x \in DOMAIN index,
             NEW m \in DOMAIN rest, rest[m].stmt = "IncrementIterator", rest[m].array.name = x
      PROVE  iter[x] < Len(crd[x]) /\ crd[x][iter[x] + 1] = index[x]
  <2>1. x \in Its(LoopPoint) /\ ~K!IsDense(x) /\ index[x] = K!Index(x)
        BY <1>1, <1>2, <1>3, LoadedIs
  <2>2. iter[x] = head.iter[x]
    <3>1. CASE Incrementing
          BY <1>3, <2>1, <3>1, NotYetMoved
    <3>2. CASE ~Incrementing
          BY <3>2 DEF InBody, Loading, Choosing, Storing, Bumping
    <3> QED BY <3>1, <3>2
  <2>3. K!Index(x) = crd[x][head.iter[x] + 1] /\ head.iter[x] < Len(crd[x])
        BY <1>1, <2>1, LoopIndex
  <2> QED BY <2>1, <2>2, <2>3
<1> QED BY <1>3 DEF IndexCurrent

(* IndexCurrent: the iterator of an operand that is still to be incremented *)
(* in this iteration stands at the coordinate that was read into its x_i,   *)
(* so a store reads the cell of the coordinate it writes; the store between *)
(* the loads and the increments moves no iterator that is read              *)
(* (visit(ForAll) of Lower.cpp, print_array_access of IRPrinter.cpp).       *)
THEOREM IteratorsCurrent == ProgramsTyped /\ InPlaceOnlyDense /\ Spec => []IndexCurrent
<1>1. InPlaceOnlyDense /\ Init => ReadOrWritten
      BY DEF Init, InPlaceOnlyDense, ReadOrWritten
<1>2. ReadOrWritten /\ [Next]_vars => ReadOrWritten'
  <2>1. [Next]_vars => prog' = prog
        BY DEF Next, vars, frame, Iterate, LeaveLoop, DefineCompressedIndex, DefineLogicalIndex, TakeBranch,
               SkipBranches, Assign, Increment, Return
  <2> QED BY <2>1 DEF ReadOrWritten
<1>3. Inv /\ ReadOrWritten => IndexCurrent
  <2>1. AtHead => IndexCurrent
        BY DEF AtHead, IndexCurrent
  <2> QED BY <2>1, CurrentInBody DEF Inv, ReadOrWritten
<1> QED BY <1>1, <1>2, <1>3, Invariance, PTL DEF Spec-----------------------------------------------------------------------------
(* What KernelProofs proves of the loops holds for the code.  KP is the     *)
(* instance of KernelProofs at the heads of the loops; its operators are    *)
(* those of K, which the lemmas below say one by one.                       *)
KP == INSTANCE KernelProofs WITH
    iter   <- head.iter,
    i      <- head.i,
    values <- head.values

LEMMA SameExpressions ==
    /\ \A e : K!Operands(e) = KP!Operands(e)
    /\ \A e, S : K!Simplify(e, S) = KP!Simplify(e, S)
<1>1. \A e : K!Operands(e) = KP!Operands(e)
      BY DEF K!Operands, KP!Operands
<1>2. \A S, stack, token : K!SimplifyStep(S, stack, token) = KP!SimplifyStep(S, stack, token)
      BY Zenon DEF K!SimplifyStep, KP!SimplifyStep, K!Zero, KP!Zero
<1>3. \A e, S : K!Simplify(e, S) = KP!Simplify(e, S)
      BY <1>2, Zenon DEF K!Simplify, KP!Simplify
<1> QED BY <1>1, <1>3

LEMMA SameArrays ==
    /\ K!Coords = KP!Coords
    /\ K!CoordinateArrays = KP!CoordinateArrays
    /\ \A p : K!Gathered(p) = KP!Gathered(p)
    /\ \A x : K!IsDense(x) <=> KP!IsDense(x)
    /\ \A x, c : K!Stores(x, c) <=> KP!Stores(x, c)
    /\ \A x, c : K!PositionOf(x, c) = KP!PositionOf(x, c)
    /\ K!Untouched = KP!Untouched
<1>1. K!Coords = KP!Coords
      BY DEF K!Coords, KP!Coords
<1>2. \A s : K!Sorted(s) <=> KP!Sorted(s)
      BY DEF K!Sorted, KP!Sorted
<1>3. K!CoordinateArrays = KP!CoordinateArrays
      BY <1>1, <1>2 DEF K!CoordinateArrays, KP!CoordinateArrays
<1>4. \A p : K!Gathered(p) = KP!Gathered(p)
      BY SameExpressions DEF K!Gathered, KP!Gathered
<1>5. \A x : K!IsDense(x) <=> KP!IsDense(x)
      BY DEF K!IsDense, KP!IsDense
<1>6. \A x, c : K!Stores(x, c) <=> KP!Stores(x, c)
      BY <1>5 DEF K!Stores, KP!Stores
<1>7. \A x, c : K!PositionOf(x, c) = KP!PositionOf(x, c)
      BY <1>5 DEF K!PositionOf, KP!PositionOf
<1>8. K!Untouched = KP!Untouched
      BY DEF K!Untouched, KP!Untouched, K!Value, KP!Value, K!Zero, KP!Zero
<1> QED BY <1>1, <1>3, <1>4, <1>5, <1>6, <1>7, <1>8

LEMMA SameWanted ==
    /\ \A c : K!Wanted(c) = KP!Wanted(c)
    /\ K!ResultAllocated <=> KP!ResultAllocated
<1>1. \A c : K!Present(c) = KP!Present(c)
      BY SameArrays, SameExpressions DEF K!Present, KP!Present
<1>2. \A c : K!Wanted(c) = KP!Wanted(c)
      BY <1>1, SameArrays, SameExpressions DEF K!Wanted, KP!Wanted, K!Value, KP!Value
<1>3. K!ResultAllocated <=> KP!ResultAllocated
      BY <1>1, SameArrays, SameExpressions DEF K!ResultAllocated, KP!ResultAllocated, K!Zero, KP!Zero
<1> QED BY <1>2, <1>3

LEMMA SameInit == K!Init => KP!Init
<1> SUFFICES ASSUME K!Init PROVE KP!Init
    OBVIOUS
<1>1. prog \in Programs /\ KP!CompilesInC(prog)
      BY DEF K!Init, K!CompilesInC, KP!CompilesInC
<1>2. \E s \in [KP!Gathered(prog) \ prog.dense -> KP!CoordinateArrays] :
         crd = [x \in KP!Gathered(prog) |-> IF KP!IsDense(x) THEN << >> ELSE s[x]]
  <2>1. PICK s \in [K!Gathered(prog) \ prog.dense -> K!CoordinateArrays] :
           crd = [x \in K!Gathered(prog) |-> IF K!IsDense(x) THEN << >> ELSE s[x]]
        BY DEF K!Init
  <2>2. /\ s \in [KP!Gathered(prog) \ prog.dense -> KP!CoordinateArrays]
        /\ crd = [x \in KP!Gathered(prog) |-> IF KP!IsDense(x) THEN << >> ELSE s[x]]
        BY <2>1, SameArrays
  <2> QED BY <2>2
<1>3. KP!IsDense(prog.lhs) \/ KP!ResultAllocated
      BY SameArrays, SameWanted DEF K!Init
<1>4. loop = 1 /\ head.iter = [x \in KP!Gathered(prog) |-> 0] /\ head.i = -1
      BY SameArrays DEF K!Init
<1>5. head.values = [c \in KP!Coords |-> KP!Untouched]
      BY SameArrays DEF K!Init
<1>6. wanted = [c \in KP!Coords |-> KP!Wanted(c)]
      BY SameArrays, SameWanted DEF K!Init
<1> QED BY <1>1, <1>2, <1>3, <1>4, <1>5, <1>6 DEF KP!Init

LEMMA SameNext == [K!Next]_(K!vars) => [KP!Next]_(KP!vars)
<1>1. K!Next <=> KP!Next
      BY DEF K!Next, KP!Next, K!TakeBranch, KP!TakeBranch, K!SkipCoordinate, KP!SkipCoordinate,
             K!StoreWhole, KP!StoreWhole, K!LeaveLoop, KP!LeaveLoop, K!Return, KP!Return,
             K!Returned, KP!Returned, K!IterateAt, KP!IterateAt, K!Guard, KP!Guard,
             K!IsLogicalIndex, KP!IsLogicalIndex, K!Bound, KP!Bound, K!Index, KP!Index, K!Its, KP!Its,
             K!IsFirstMatch, KP!IsFirstMatch, K!Branches, KP!Branches, K!Matches, KP!Matches,
             K!SubPoints, KP!SubPoints, K!Dominates, KP!Dominates, K!SparseIts, KP!SparseIts,
             K!IsDense, KP!IsDense, K!Store, KP!Store, K!Computed, KP!Computed, K!Position, KP!Position,
             K!ReadAt, KP!ReadAt, K!Untouched, KP!Untouched, K!Overwritten, KP!Overwritten,
             K!Value, KP!Value, K!Zero, KP!Zero, K!Operands, KP!Operands, K!Advanced, KP!Advanced,
             K!Increment, KP!Increment, K!Occurrences, KP!Occurrences, K!Cardinality, KP!Cardinality,
             K!IsFiniteSet, KP!IsFiniteSet, K!Gathered, KP!Gathered, K!Coords, KP!Coords, K!vars, KP!vars
<1>2. K!vars = KP!vars
      BY DEF K!vars, KP!vars
<1> QED BY <1>1, <1>2 DEF K!vars, KP!vars

(* A lattice that KernelProofs calls well formed is one for KernelC: its    *)
(* first point has the right-hand side itself.                              *)
LEMMA WellFormedTyped ==
    ASSUME KP!ProgramsOK
    PROVE  ProgramsTyped
<1> SUFFICES ASSUME NEW p \in Programs PROVE IsProgram(p)
    BY DEF ProgramsTyped
<1> DEFINE S == [iterators : Seq(Operands(p.rhs)), expr : Seq(Tokens(Operands(p.rhs)))]
           pts == p.points
<1>1. KP!WellFormedLattice(p.points, p.rhs)
      BY DEF KP!ProgramsOK, KP!WellFormed
<1>2. p.points \in LatticesOver(Operands(p.rhs))
      BY <1>1 DEF KP!WellFormedLattice, KP!LatticesOver, LatticesOver, KP!Tokens, Tokens, KP!Operands, Operands,
                  KP!Read, Read, KP!Add, Add, KP!Mul, Mul
<1>3. \A k \in DOMAIN p.points : Its(p.points[k]) # {}
      BY <1>1 DEF KP!WellFormedLattice, KP!ReadsItsIterators, KP!Its, Its
<1>4. Len(p.points) >= 1 /\ p.points[1].expr = p.rhs
      BY <1>1 DEF KP!WellFormedLattice, KP!StartsWithAll
<1>5. pts \in Seq(S) /\ Len(pts) >= 1
      BY <1>2, <1>4 DEF LatticesOver
<1>6. pts[1] \in S
  <2> HIDE DEF S, pts
  <2> QED BY <1>5
<1>7. p.rhs \in Seq(Tokens(Operands(p.rhs)))
      BY <1>4, <1>6
<1> QED BY <1>2, <1>3, <1>7 DEF IsProgram

(* The result of the code: zero where a compressed array has no coordinate. *)
Result(c) == IF K!Stores(prog.lhs, c) THEN values[K!PositionOf(prog.lhs, c)] ELSE K!Untouched

(* When the code returns, every element of the result is the value of the   *)
(* assignment there, of the cells of the operands that belong to it.        *)
ResultRight == Returned => \A c \in K!Coords : Result(c) = K!Wanted(c)

LEMMA ReturnedRight ==
    ASSUME Inv, KP!Inv, Returned
    PROVE  \A c \in K!Coords : Result(c) = K!Wanted(c)
<1>1. loop > Len(prog.points) /\ loop \notin DOMAIN prog.points
      BY LoopRange DEF Inv, Returned
<1>2. values = head.values
      BY <1>1 DEF Inv, InBody, AtHead
<1>3. KP!Returned
      BY <1>1 DEF KP!Returned
<1>4. KP!ElementWise
      BY DimensionAssumption, KP!InvElementWise
<1>5. \A c \in KP!Coords : KP!Result(c) = wanted[c]
      BY <1>3, <1>4 DEF KP!ElementWise
<1>6. wanted = [c \in KP!Coords |-> KP!Wanted(c)]
      BY DEF KP!Inv, KP!ReferenceOK
<1>7. \A c : Result(c) = KP!Result(c)
      BY <1>2, SameArrays DEF Result, KP!Result
<1> QED BY <1>5, <1>6, <1>7, SameArrays, SameWanted

(* The printed code is right: whatever the assignment compile is given, its *)
(* formats, its dimension and the contents of its operands, the C that      *)
(* lower and IRPrinter emit for it leaves the value of the assignment in    *)
(* every element of the result when it returns.                             *)
THEOREM CodeCorrect ==
    ASSUME KP!Compiled
    PROVE  Spec => []ResultRight
<1>1. KP!ProgramsOK
      BY DimensionAssumption, KP!CompiledOK
<1>2. ProgramsTyped
      BY <1>1, WellFormedTyped
<1>3. Init => Inv /\ KP!Inv
  <2>1. ASSUME Init PROVE Inv /\ KP!Init
        BY <1>2, <2>1, InitStep, SameInit
  <2>2. ASSUME KP!Init PROVE KP!Inv
        BY <1>1, <2>2, DimensionAssumption, KP!InvInit
  <2> QED BY <2>1, <2>2
<1>4. Inv /\ KP!Inv /\ [Next]_vars => (Inv /\ KP!Inv)'
  <2>1. ASSUME KP!Inv, [KP!Next]_(KP!vars) PROVE KP!Inv'
        BY <2>1, DimensionAssumption, KP!InvNext
  <2> QED BY <2>1, Step, SameNext
<1>5. Inv /\ KP!Inv => ResultRight
      BY ReturnedRight DEF ResultRight
<1> QED BY <1>3, <1>4, <1>5, PTL DEF Spec
==============================================================================
