----------------------------- MODULE Induction -----------------------------
(***************************************************************************)
(* Induction over the natural numbers, stated for a set of numbers: a      *)
(* property P is proved with T == {n \in Nat : P(n)}.  The loops that keep  *)
(* some elements of a vector (Ascending) are the first use of it; the      *)
(* sequences of a sequence, one after another (FlattenSeq), the second.    *)
(* In between, the rows and places that division with remainder gives.     *)
(***************************************************************************)
EXTENDS Ascending, SequencesExt, SequenceTheorems, WellFoundedInduction, TLAPS

LessThan == {pair \in Nat \X Nat : pair[1] < pair[2]}

LEMMA LessThanWellFounded == IsWellFoundedOn(LessThan, Nat)
BY NatLessThanWellFounded DEF OpToRel, LessThan

(* A set that has zero, and with a number the next one, has all of them. *)
LEMMA NaturalsFrom ==
    ASSUME NEW T, 0 \in T, \A n \in Nat : n \in T => n + 1 \in T
    PROVE  Nat \subseteq T
<1> SUFFICES ASSUME Nat \ T # {}
             PROVE  FALSE
    OBVIOUS
<1>1. PICK n \in Nat \ T : \A m \in Nat \ T : ~(<<m, n>> \in LessThan)
      BY LessThanWellFounded, WFMin
<1>2. \A m \in Nat \ T : ~(m < n)
      BY <1>1 DEF LessThan
<1>3. n # 0 /\ n - 1 \in Nat
      OBVIOUS
<1>4. n - 1 \in T
      BY <1>2, <1>3
<1> QED BY <1>3, <1>4

(* The same up to a bound. *)
LEMMA NaturalsUpTo ==
    ASSUME NEW k \in Nat, NEW T, 0 \in T, \A n \in 0..(k - 1) : n \in T => n + 1 \in T
    PROVE  0..k \subseteq T
<1> DEFINE U == T \cup {n \in Nat : n > k}
<1>1. \A n \in Nat : n \in U => n + 1 \in U
      OBVIOUS
<1>2. Nat \subseteq U
  <2> HIDE DEF U
  <2> QED BY <1>1, NaturalsFrom DEF U
<1> QED BY <1>2

(* A set of numbers has a least one. *)
LEMMA LeastNumber ==
    ASSUME NEW T, T \subseteq Nat, T # {}
    PROVE  \E n \in T : \A m \in T : n <= m
<1>1. PICK n \in T : \A m \in T : ~(<<m, n>> \in LessThan)
      BY LessThanWellFounded, WFMin
<1>2. \A m \in T : ~(m < n)
      BY <1>1 DEF LessThan
<1> QED BY <1>1, <1>2

(* A loop that starts in X and stays in X has a run: what its variable is   *)
(* before the first iteration and after each.                               *)
IsLoopRun(X, start, step, k, run) ==
    /\ run \in [0..k -> X]
    /\ run[0] = start
    /\ \A n \in 1..k : run[n] = step[<<run[n - 1], n>>]

LEMMA LoopRuns ==
    ASSUME NEW X, NEW start \in X, NEW len \in Nat, NEW step \in [X \X (1..len) -> X]
    PROVE  \E run : IsLoopRun(X, start, step, len, run)
<1> USE DEF IsLoopRun
<1> DEFINE IsRunTo(k, run) == IsLoopRun(X, start, step, k, run)
           T == {k \in Nat : k <= len => \E run : IsRunTo(k, run)}
<1>1. 0 \in T
  <2>1. IsRunTo(0, [n \in 0..0 |-> start])
        OBVIOUS
  <2> QED BY <2>1
<1>2. ASSUME NEW k \in Nat, k \in T
      PROVE  k + 1 \in T
  <2> SUFFICES ASSUME k + 1 <= len PROVE \E run : IsRunTo(k + 1, run)
      OBVIOUS
  <2>1. PICK run : IsRunTo(k, run)
        BY <1>2
  <2> DEFINE last == step[<<run[k], k + 1>>]
             longer == [n \in 0..(k + 1) |-> IF n = k + 1 THEN last ELSE run[n]]
  <2>2. last \in X
    <3>1. run[k] \in X /\ k + 1 \in 1..len
          BY <2>1
    <3> QED BY <3>1
  <2>3. longer \in [0..(k + 1) -> X] /\ longer[0] = start
        BY <2>1, <2>2
  <2>4. ASSUME NEW n \in 1..(k + 1)
        PROVE  longer[n] = step[<<longer[n - 1], n>>]
    <3>1. CASE n = k + 1
      <4>1. longer[n] = last /\ longer[n - 1] = run[k]
            BY <3>1
      <4> QED BY <3>1, <4>1
    <3>2. CASE n # k + 1
      <4>1. n \in 1..k /\ longer[n] = run[n] /\ longer[n - 1] = run[n - 1]
            BY <3>2
      <4> QED BY <2>1, <4>1
    <3> QED BY <3>1, <3>2
  <2>5. IsRunTo(k + 1, longer)
        BY <2>3, <2>4
  <2> QED BY <2>5
<1>3. len \in T
  <2> HIDE DEF T
  <2> QED BY <1>1, <1>2, NaturalsFrom
<1> QED BY <1>3

-----------------------------------------------------------------------------
(* The numbers below a * b as pairs of a row below a and a column below b.  *)
LEMMA DivMod ==
    ASSUME NEW m \in Nat, NEW b \in Nat \ {0}
    PROVE  /\ m \div b \in Nat
           /\ m % b \in 0..(b - 1)
           /\ m = (m \div b) * b + (m % b)
OBVIOUS

LEMMA DivModUnique ==
    ASSUME NEW b \in Nat \ {0}, NEW p \in Nat, NEW q \in 0..(b - 1), NEW m, m = p * b + q
    PROVE  /\ m \div b = p
           /\ m % b = q
OBVIOUS

LEMMA RowsOrdered ==
    ASSUME NEW a \in Nat, NEW b \in Nat \ {0}, NEW p \in Nat, NEW q \in 0..(b - 1)
    PROVE  p * b + q < a * b <=> p < a
<1>1. CASE p < a
  <2>1. PICK d \in Nat : a = p + 1 + d
        BY <1>1
  <2>2. a * b = p * b + b + d * b /\ d * b >= 0
        BY <2>1
  <2> QED BY <1>1, <2>2
<1>2. CASE p >= a
  <2>1. PICK d \in Nat : p = a + d
        BY <1>2
  <2>2. p * b = a * b + d * b /\ d * b >= 0
        BY <2>1
  <2> QED BY <1>2, <2>2
<1> QED BY <1>1, <1>2

-----------------------------------------------------------------------------
(* The elements of S among the first n positions, in ascending order. *)
IsAscending(s, S, n) ==
    /\ s \in Seq(Nat)
    /\ \A m \in 1..Len(s) : s[m] \in S /\ s[m] \in 1..n
    /\ \A j \in 1..n : j \in S => \E m \in 1..Len(s) : s[m] = j
    /\ \A m, k \in 1..Len(s) : m < k => s[m] < s[k]

LEMMA AppendedNumber ==
    ASSUME NEW s \in Seq(Nat), NEW k \in Nat, NEW t, t = Append(s, k)
    PROVE  /\ t \in Seq(Nat)
           /\ Len(s) \in Nat /\ Len(t) = Len(s) + 1
           /\ t[Len(s) + 1] = k
           /\ \A m \in 1..Len(s) : t[m] = s[m]
OBVIOUS

KeepStep(S, s, k) == IF k \in S THEN Append(s, k) ELSE s

LEMMA AscendingNext ==
    ASSUME NEW S, NEW n \in Nat, NEW s, IsAscending(s, S, n), NEW k, k = n + 1
    PROVE  IsAscending(KeepStep(S, s, k), S, k)
<1>0. s \in Seq(Nat) /\ k \in Nat
      BY DEF IsAscending
<1>1. CASE k \in S
  <2> DEFINE t == Append(s, k)
  <2>1. /\ t \in Seq(Nat) /\ Len(s) \in Nat /\ Len(t) = Len(s) + 1
        /\ t[Len(s) + 1] = k /\ \A m \in 1..Len(s) : t[m] = s[m]
    <3>1. t = Append(s, k)
          OBVIOUS
    <3> HIDE DEF t
    <3> QED BY ONLY <1>0, <3>1, AppendedNumber
  <2> HIDE DEF t
  <2>2. ASSUME NEW m \in 1..Len(t)
        PROVE  t[m] \in S /\ t[m] \in 1..k
    <3>1. m = Len(s) + 1 \/ m \in 1..Len(s)
          BY <2>1
    <3>2. CASE m = Len(s) + 1
          BY <1>0, <1>1, <2>1, <3>2
    <3>3. CASE m \in 1..Len(s)
      <4>1. s[m] \in S /\ s[m] \in 1..n
            BY <3>3 DEF IsAscending
      <4>2. \A l \in 1..n : l \in 1..k
            BY <1>0
      <4> QED BY <2>1, <3>3, <4>1, <4>2
    <3> QED BY <3>1, <3>2, <3>3
  <2>3. ASSUME NEW j \in 1..k, j \in S
        PROVE  \E m \in 1..Len(t) : t[m] = j
    <3>1. CASE j = k
      <4>1. Len(s) + 1 \in 1..Len(t)
            BY <2>1
      <4> QED BY <2>1, <3>1, <4>1
    <3>2. CASE j # k
      <4>1. PICK m \in 1..Len(s) : s[m] = j
            BY <2>3, <3>2 DEF IsAscending
      <4>2. m \in 1..Len(t)
            BY <2>1
      <4> QED BY <2>1, <4>1, <4>2
    <3> QED BY <3>1, <3>2
  <2>4. ASSUME NEW m \in 1..Len(t), NEW j \in 1..Len(t), m < j
        PROVE  t[m] < t[j]
    <3>1. m \in 1..Len(s) /\ s[m] \in 1..n
          BY <2>1, <2>4 DEF IsAscending
    <3>2. CASE j = Len(s) + 1
          BY <2>1, <3>1, <3>2
    <3>3. CASE j # Len(s) + 1
      <4>1. j \in 1..Len(s)
            BY <2>1, <3>3
      <4> QED BY <2>1, <2>4, <3>1, <4>1 DEF IsAscending
    <3> QED BY <3>2, <3>3
  <2> QED BY <1>1, <2>1, <2>2, <2>3, <2>4 DEF IsAscending, KeepStep, t
<1>2. CASE k \notin S
  <2>1. /\ \A m \in 1..Len(s) : s[m] \in S /\ s[m] \in 1..k
        /\ \A j \in 1..k : j \in S => j \in 1..n
        BY <1>0, <1>2 DEF IsAscending
  <2> QED BY <1>0, <1>2, <2>1 DEF IsAscending, KeepStep
<1> QED BY <1>1, <1>2

(* What the loop of InOrder has kept after each of its first k iterations. *)
IsKept(S, f, k) == f = [m \in 0..k |-> IF m = 0 THEN << >> ELSE KeepStep(S, f[m - 1], m)]

LEMMA KeptExists ==
    ASSUME NEW S, NEW n \in Nat
    PROVE  \E f : IsKept(S, f, n)
<1> DEFINE Entry(f, k) == IF k = 0 THEN << >> ELSE KeepStep(S, f[k - 1], k)
           T == {k \in Nat : \E f : IsKept(S, f, k)}
<1>0. \A f, k : IsKept(S, f, k) <=> f = [m \in 0..k |-> Entry(f, m)]
      BY DEF IsKept
<1>1. 0 \in T
  <2>1. IsKept(S, [m \in 0..0 |-> << >>], 0)
        BY DEF IsKept
  <2> QED BY <2>1
<1>2. ASSUME NEW k \in Nat, k \in T
      PROVE  k + 1 \in T
  <2>1. PICK f : f = [m \in 0..k |-> Entry(f, m)]
        BY <1>0, <1>2
  <2> DEFINE last == KeepStep(S, f[k], k + 1)
             g == [m \in 0..(k + 1) |-> IF m <= k THEN f[m] ELSE last]
  <2>2. ASSUME NEW m \in 0..(k + 1)
        PROVE  g[m] = Entry(g, m)
    <3>1. CASE m <= k
      <4>1. g[m] = Entry(f, m)
            BY <2>1, <3>1
      <4>2. m # 0 => g[m - 1] = f[m - 1]
            BY <3>1
      <4> QED BY <4>1, <4>2
    <3>2. CASE m = k + 1
      <4>1. g[m] = last /\ g[m - 1] = f[k] /\ m # 0
            BY <3>2
      <4> QED BY <3>2, <4>1
    <3> QED BY <3>1, <3>2
  <2>3. g = [m \in 0..(k + 1) |-> Entry(g, m)]
    <3>1. g = [m \in 0..(k + 1) |-> g[m]]
          OBVIOUS
    <3> HIDE DEF g
    <3> QED BY <2>2, <3>1
  <2> HIDE DEF g
  <2>4. IsKept(S, g, k + 1)
        BY <1>0, <2>3
  <2> QED BY <2>4
<1> HIDE DEF T
<1>3. Nat \subseteq T
      BY <1>1, <1>2, NaturalsFrom
<1> QED BY <1>3 DEF T

LEMMA KeptIs ==
    ASSUME NEW S, NEW n \in Nat
    PROVE  \E f : IsKept(S, f, n) /\ InOrder(S, n) = f[n]
<1> DEFINE r == CHOOSE f : IsKept(S, f, n)
<1>1. IsKept(S, r, n)
      BY KeptExists
<1>2. InOrder(S, n) = r[n]
      BY DEF InOrder, KeepStep, IsKept
<1> HIDE DEF r
<1> QED BY <1>1, <1>2

(* One more iteration. *)
LEMMA InOrderNext ==
    ASSUME NEW S, NEW n \in Nat, NEW k, k = n + 1
    PROVE  InOrder(S, k) = KeepStep(S, InOrder(S, n), k)
<1>0. k \in Nat
      OBVIOUS
<1>1. PICK f : IsKept(S, f, n) /\ InOrder(S, n) = f[n]
      BY KeptIs
<1>2. PICK g : IsKept(S, g, k) /\ InOrder(S, k) = g[k]
      BY <1>0, KeptIs
<1>3. /\ f[0] = << >> /\ \A m \in 1..n : f[m] = KeepStep(S, f[m - 1], m)
      /\ g[0] = << >> /\ \A m \in 1..k : g[m] = KeepStep(S, g[m - 1], m)
      BY <1>1, <1>2 DEF IsKept
<1> DEFINE U == {m \in 0..n : f[m] = g[m]}
<1>4. 0 \in U
      BY <1>3
<1>5. ASSUME NEW m \in 0..(n - 1), m \in U
      PROVE  m + 1 \in U
  <2> DEFINE j == m + 1
  <2>1. j \in 1..n /\ j \in 1..k /\ j - 1 = m
        OBVIOUS
  <2> HIDE DEF j
  <2>2. f[j] = KeepStep(S, f[m], j) /\ g[j] = KeepStep(S, g[m], j)
        BY <1>3, <2>1
  <2>3. j \in U
        BY <1>5, <2>1, <2>2
  <2> QED BY <2>3 DEF j
<1> HIDE DEF U
<1>6. 0..n \subseteq U
      BY <1>4, <1>5, NaturalsUpTo
<1>7. f[n] = g[n]
      BY <1>6 DEF U
<1>8. g[k] = KeepStep(S, g[n], k)
      BY <1>3
<1> QED BY <1>1, <1>2, <1>7, <1>8

LEMMA InOrderNone ==
    ASSUME NEW S
    PROVE  InOrder(S, 0) = << >>
<1>1. PICK f : IsKept(S, f, 0) /\ InOrder(S, 0) = f[0]
      BY KeptIs
<1> QED BY <1>1 DEF IsKept

LEMMA InOrderAscending ==
    ASSUME NEW S, NEW n \in Nat
    PROVE  IsAscending(InOrder(S, n), S, n)
<1> DEFINE U == {k \in Nat : IsAscending(InOrder(S, k), S, k)}
<1>1. 0 \in U
  <2>1. IsAscending(<< >>, S, 0)
        BY DEF IsAscending
  <2> QED BY <2>1, InOrderNone
<1>2. ASSUME NEW k \in Nat, k \in U
      PROVE  k + 1 \in U
  <2> DEFINE j == k + 1
  <2>1. j \in Nat /\ j = k + 1 /\ IsAscending(InOrder(S, k), S, k)
        BY <1>2
  <2> HIDE DEF j
  <2>2. InOrder(S, j) = KeepStep(S, InOrder(S, k), j)
        BY ONLY <2>1, InOrderNext, k \in Nat
  <2>3. IsAscending(KeepStep(S, InOrder(S, k), j), S, j)
        BY ONLY <2>1, AscendingNext, k \in Nat
  <2> QED BY <2>1, <2>2, <2>3
<1> HIDE DEF U
<1>3. Nat \subseteq U
      BY <1>1, <1>2, NaturalsFrom
<1> QED BY <1>3 DEF U
-----------------------------------------------------------------------------
(* The sequences of a sequence, put one after another (FlattenSeq). *)
IsJoining(C, ss, joined) ==
    /\ joined \in [0..Len(ss) -> Seq(C)]
    /\ joined[0] = << >>
    /\ \A n \in 1..Len(ss) : joined[n] = joined[n - 1] \o ss[n]

LEMMA JoiningExists ==
    ASSUME NEW C, NEW ss \in Seq(Seq(C))
    PROVE  \E joined : IsJoining(C, ss, joined)
<1> DEFINE X == Seq(C)
           len == Len(ss)
           start == << >>
           step == [pair \in X \X (1..len) |-> pair[1] \o ss[pair[2]]]
<1>1. start \in X /\ len \in Nat /\ \A n \in 1..len : ss[n] \in X
      OBVIOUS
<1>2. step \in [X \X (1..len) -> X]
  <2>1. \A x, y \in X : x \o y \in X
        OBVIOUS
  <2> HIDE DEF X
  <2> QED BY <1>1, <2>1
<1>3. PICK run : IsLoopRun(X, start, step, len, run)
  <2> HIDE DEF X, start, step, len
  <2> QED BY <1>1, <1>2, LoopRuns
<1>4. ASSUME NEW n \in 1..len
      PROVE  run[n] = run[n - 1] \o ss[n]
  <2>1. n - 1 \in 0..len
        BY <1>1
  <2>2. run[n - 1] \in X
    <3> HIDE DEF X
    <3> QED BY <1>3, <2>1 DEF IsLoopRun
  <2> QED BY <1>3, <2>2 DEF IsLoopRun
<1> QED BY <1>3, <1>4 DEF IsLoopRun, IsJoining

SameUntil(k, ss, tt) ==
    k \in Nat /\ 1..k \subseteq 1..Len(ss) /\ 1..k \subseteq 1..Len(tt) /\ \A n \in 1..k : ss[n] = tt[n]

LEMMA JoiningUnique ==
    ASSUME NEW C, NEW ss, NEW f, IsJoining(C, ss, f),
           NEW tt, NEW g, IsJoining(C, tt, g),
           NEW k, SameUntil(k, ss, tt)
    PROVE  f[k] = g[k]
<1> DEFINE T == {n \in 0..k : f[n] = g[n]}
<1>0. k \in Nat /\ \A n \in 1..k : ss[n] = tt[n] /\ n \in 1..Len(ss) /\ n \in 1..Len(tt)
      BY DEF SameUntil
<1>1. 0 \in T
      BY <1>0 DEF IsJoining
<1>2. ASSUME NEW n \in 0..(k - 1), n \in T
      PROVE  n + 1 \in T
  <2> DEFINE m == n + 1
  <2>1. m \in 1..k /\ m - 1 = n /\ m \in 0..k
        BY <1>0
  <2> HIDE DEF m
  <2>2. f[m] = f[n] \o ss[m] /\ g[m] = g[n] \o tt[m]
        BY <1>0, <2>1 DEF IsJoining
  <2>3. m \in T
        BY <1>0, <1>2, <2>1, <2>2
  <2> QED BY <2>3 DEF m
<1>3. 0..k \subseteq T
  <2> HIDE DEF T
  <2> QED BY <1>0, <1>1, <1>2, NaturalsUpTo
<1> QED BY <1>0, <1>3

LEMMA FlattenIs ==
    ASSUME NEW C, NEW ss \in Seq(Seq(C)), NEW joined, IsJoining(C, ss, joined)
    PROVE  FlattenSeq(ss) = joined[Len(ss)]
<1> DEFINE len == Len(ss)
           IsFlatten(f) == f = [i \in 1..len |-> IF i = 1 THEN ss[i] ELSE f[i - 1] \o ss[i]]
           r == CHOOSE f : IsFlatten(f)
           j == [i \in 1..len |-> joined[i]]
<1>1. len \in Nat
      OBVIOUS
<1>2. CASE len = 0
  <2>1. FlattenSeq(ss) = << >> /\ joined[len] = << >>
        BY <1>2 DEF FlattenSeq, IsJoining
  <2> QED BY <2>1
<1>3. CASE len # 0
  <2>1. FlattenSeq(ss) = r[len]
        BY <1>3 DEF FlattenSeq
  <2>2. IsFlatten(j)
    <3>1. ASSUME NEW i \in 1..len
          PROVE  j[i] = IF i = 1 THEN ss[i] ELSE j[i - 1] \o ss[i]
      <4>1. joined[i] = joined[i - 1] \o ss[i] /\ ss[i] \in Seq(C)
            BY DEF IsJoining
      <4>2. i = 1 => joined[i] = ss[i]
        <5> SUFFICES ASSUME i = 1
                     PROVE  joined[i] = ss[i]
            OBVIOUS
        <5>1. joined[i - 1] = << >>
              BY DEF IsJoining
        <5> QED BY <4>1, <5>1
      <4>3. i # 1 => j[i - 1] = joined[i - 1]
            OBVIOUS
      <4> QED BY <4>1, <4>2, <4>3
    <3> HIDE DEF j
    <3>2. j = [i \in 1..len |-> j[i]]
          BY DEF j
    <3> QED BY <3>1, <3>2
  <2>3. IsFlatten(r)
    <3> HIDE DEF j, IsFlatten
    <3> QED BY <2>2
  <2> HIDE DEF r, j
  <2> DEFINE T == {n \in Nat : n \in 1..len => r[n] = joined[n]}
  <2>4. 0 \in T
        OBVIOUS
  <2>5. ASSUME NEW n \in Nat, n \in T
        PROVE  n + 1 \in T
    <3> SUFFICES ASSUME n + 1 \in 1..len
                 PROVE  r[n + 1] = joined[n + 1]
        OBVIOUS
    <3> DEFINE m == n + 1
    <3>1. m \in 1..len /\ m - 1 = n
          OBVIOUS
    <3> HIDE DEF m
    <3>2. r[m] = (IF m = 1 THEN ss[m] ELSE r[n] \o ss[m]) /\ j[m] = (IF m = 1 THEN ss[m] ELSE j[n] \o ss[m])
          BY <2>2, <2>3, <3>1
    <3>3. j[m] = joined[m] /\ (m # 1 => j[n] = joined[n] /\ r[n] = joined[n])
          BY <2>5, <3>1 DEF j
    <3>4. r[m] = joined[m]
          BY <3>2, <3>3
    <3> QED BY <3>4 DEF m
  <2>6. len \in T
    <3> HIDE DEF T
    <3> QED BY <1>1, <2>4, <2>5, NaturalsFrom
  <2> QED BY <1>1, <1>3, <2>1, <2>6
<1> QED BY <1>2, <1>3

LEMMA FlattenTyped ==
    ASSUME NEW C, NEW ss \in Seq(Seq(C))
    PROVE  FlattenSeq(ss) \in Seq(C)
<1>1. PICK joined : IsJoining(C, ss, joined)
      BY JoiningExists
<1>2. FlattenSeq(ss) = joined[Len(ss)]
      BY <1>1, FlattenIs
<1>3. Len(ss) \in Nat
      OBVIOUS
<1> QED BY <1>1, <1>2, <1>3 DEF IsJoining

LEMMA FlattenNone == FlattenSeq(<< >>) = << >>
BY DEF FlattenSeq

LEMMA FlattenAppend ==
    ASSUME NEW C, NEW ss \in Seq(Seq(C)), NEW s \in Seq(C)
    PROVE  FlattenSeq(Append(ss, s)) = FlattenSeq(ss) \o s
<1> DEFINE tt == Append(ss, s)
           k == Len(ss)
           l == k + 1
<1>1. /\ tt \in Seq(Seq(C)) /\ Len(tt) = l /\ k \in Nat /\ l \in 1..l /\ l - 1 = k
      /\ tt[l] = s /\ \A n \in 1..k : ss[n] = tt[n]
      OBVIOUS
<1> HIDE DEF tt, l
<1>2. PICK f : IsJoining(C, ss, f)
      BY JoiningExists
<1>3. PICK g : IsJoining(C, tt, g)
      BY <1>1, JoiningExists
<1>4. FlattenSeq(ss) = f[k] /\ FlattenSeq(tt) = g[l]
      BY <1>1, <1>2, <1>3, FlattenIs
<1>5. g[l] = g[k] \o s
      BY <1>1, <1>3 DEF IsJoining
<1>6. SameUntil(k, ss, tt)
      BY <1>1 DEF l, SameUntil
<1>7. f[k] = g[k]
      BY <1>2, <1>3, <1>6, JoiningUnique
<1> QED BY <1>4, <1>5, <1>7 DEF tt
Associates(a, b, c) == (a \o b) \o c = a \o (b \o c)

LEMMA ThreeJoined ==
    ASSUME NEW T, NEW a \in Seq(T), NEW b \in Seq(T), NEW c \in Seq(T)
    PROVE  Associates(a, b, c)
BY ConcatAssociative DEF Associates

LEMMA FlattenJoined ==
    ASSUME NEW C, NEW ss \in Seq(Seq(C)), NEW tt \in Seq(Seq(C))
    PROVE  FlattenSeq(ss \o tt) = FlattenSeq(ss) \o FlattenSeq(tt)
<1> DEFINE T == {n \in Nat : \A uu \in Seq(Seq(C)) :
                    Len(uu) = n => FlattenSeq(ss \o uu) = FlattenSeq(ss) \o FlattenSeq(uu)}
<1>0. \A uu \in Seq(Seq(C)) : FlattenSeq(uu) \in Seq(C)
      BY FlattenTyped
<1>1. 0 \in T
  <2> SUFFICES ASSUME NEW uu \in Seq(Seq(C)), Len(uu) = 0
               PROVE  FlattenSeq(ss \o uu) = FlattenSeq(ss) \o FlattenSeq(uu)
      OBVIOUS
  <2>1. uu = << >> /\ ss \o uu = ss
        OBVIOUS
  <2>2. FlattenSeq(ss) \o << >> = FlattenSeq(ss)
        BY <1>0, ConcatEmptySeq
  <2> QED BY <2>1, <2>2, FlattenNone
<1>2. ASSUME NEW n \in Nat, n \in T
      PROVE  n + 1 \in T
  <2> SUFFICES ASSUME NEW vv \in Seq(Seq(C)), Len(vv) = n + 1
               PROVE  FlattenSeq(ss \o vv) = FlattenSeq(ss) \o FlattenSeq(vv)
      OBVIOUS
  <2> DEFINE uu == SubSeq(vv, 1, n)
             s == vv[n + 1]
             a == FlattenSeq(ss)
             b == FlattenSeq(uu)
             joined == ss \o uu
  <2>1. uu \in Seq(Seq(C)) /\ Len(uu) = n /\ s \in Seq(C) /\ vv = Append(uu, s)
        OBVIOUS
  <2>2. a \in Seq(C) /\ b \in Seq(C)
        BY <1>0, <2>1
  <2> HIDE DEF uu, s
  <2>3. ss \o vv = Append(joined, s) /\ joined \in Seq(Seq(C))
        BY <2>1
  <2>4. FlattenSeq(joined) = a \o b
        BY <1>2, <2>1
  <2>5. FlattenSeq(vv) = b \o s
        BY <2>1, FlattenAppend
  <2> HIDE DEF joined, a, b
  <2>6. FlattenSeq(Append(joined, s)) = FlattenSeq(joined) \o s
        BY <2>1, <2>3, FlattenAppend
  <2>7. Associates(a, b, s)
        BY <2>1, <2>2, ThreeJoined
  <2>8. FlattenSeq(ss \o vv) = a \o FlattenSeq(vv)
        BY <2>3, <2>4, <2>5, <2>6, <2>7 DEF Associates
  <2> QED BY <2>8 DEF a
<1>3. Len(tt) \in T
  <2> HIDE DEF T
  <2>1. Len(tt) \in Nat
        OBVIOUS
  <2> QED BY <1>1, <1>2, <2>1, NaturalsFrom
<1> QED BY <1>3

(* A sequence in a rows of b: flattened row by row, it is the same. *)
InRows(C, ss, tt, a, b) ==
    /\ ss \in Seq(Seq(C)) /\ Len(ss) = a * b
    /\ tt \in Seq(Seq(C)) /\ Len(tt) = a
    /\ \A i \in 1..a : tt[i] = FlattenSeq(SubSeq(ss, (i - 1) * b + 1, i * b))

Splits(s, m, n) == SubSeq(s, 1, n) = SubSeq(s, 1, m) \o SubSeq(s, m + 1, n)

LEMMA SplitAt ==
    ASSUME NEW C, NEW s \in Seq(C), NEW m \in Nat, NEW n \in Nat, m <= n, n <= Len(s)
    PROVE  /\ Splits(s, m, n)
           /\ SubSeq(s, 1, m) \in Seq(C) /\ SubSeq(s, m + 1, n) \in Seq(C)
<1>1. 1 \in 1..(Len(s) + 1) /\ m \in (1 - 1)..Len(s) /\ n \in m..Len(s)
      OBVIOUS
<1>2. SubSeq(s, 1, m) \o SubSeq(s, m + 1, n) = SubSeq(s, 1, n)
      BY <1>1, ConcatAdjacentSubSeq
<1>3. SubSeq(s, 1, m) \in Seq(C) /\ SubSeq(s, m + 1, n) \in Seq(C)
      OBVIOUS
<1> QED BY <1>2, <1>3 DEF Splits

LEMMA OneElement ==
    ASSUME NEW C, NEW s \in Seq(C), NEW n \in Nat, NEW i, i = n + 1, i <= Len(s)
    PROVE  SubSeq(s, i, i) = <<s[i]>> /\ s[i] \in C
<1> DEFINE a == SubSeq(s, i, i)
           b == <<s[i]>>
<1>1. i \in 1..Len(s) /\ i \in Int /\ s[i] \in C
      OBVIOUS
<1>2. a \in Seq(C) /\ Len(a) = 1 /\ a[1] = s[i]
  <2> HIDE DEF b
  <2> QED BY ONLY <1>1, SubSeqProperties, s \in Seq(C)
<1>3. b \in Seq(C) /\ Len(b) = 1 /\ b[1] = s[i]
      BY <1>1
<1> HIDE DEF a, b
<1>4. a = b
      BY <1>2, <1>3, SeqEqual
<1> QED BY <1>1, <1>4 DEF a, b

LEMMA FlattenOne ==
    ASSUME NEW C, NEW z \in Seq(C)
    PROVE  <<z>> \in Seq(Seq(C)) /\ FlattenSeq(<<z>>) = z
<1> DEFINE none == << >>
<1>1. none \in Seq(Seq(C)) /\ Append(none, z) = <<z>> /\ <<z>> \in Seq(Seq(C)) /\ << >> \o z = z
      OBVIOUS
<1>2. FlattenSeq(none) = << >>
      BY FlattenNone
<1> HIDE DEF none
<1>3. FlattenSeq(Append(none, z)) = FlattenSeq(none) \o z
      BY <1>1, FlattenAppend
<1> QED BY <1>1, <1>2, <1>3

LEMMA FlattenRows ==
    ASSUME NEW C, NEW a \in Nat, NEW b \in Nat, NEW ss, NEW tt, InRows(C, ss, tt, a, b)
    PROVE  FlattenSeq(ss) = FlattenSeq(tt)
<1> DEFINE Rows(n) == FlattenSeq(SubSeq(ss, 1, n * b))
           T == {n \in Nat : n <= a => Rows(n) = FlattenSeq(SubSeq(tt, 1, n))}
<1>0. /\ ss \in Seq(Seq(C)) /\ Len(ss) = a * b
      /\ tt \in Seq(Seq(C)) /\ Len(tt) = a
      BY DEF InRows
<1>1. 0 \in T
  <2>1. 0 * b = 0 /\ SubSeq(ss, 1, 0) = << >> /\ SubSeq(tt, 1, 0) = << >>
        BY <1>0
  <2> QED BY <2>1
<1>2. ASSUME NEW n \in Nat, n \in T
      PROVE  n + 1 \in T
  <2> DEFINE i == n + 1
  <2>0. i \in Nat /\ n <= i /\ i - 1 = n
        OBVIOUS
  <2> SUFFICES ASSUME i <= a
               PROVE  Rows(i) = FlattenSeq(SubSeq(tt, 1, i))
      OBVIOUS
  <2> HIDE DEF i
  <2> DEFINE m == n * b
             l == i * b
  <2>1. /\ m \in Nat /\ l \in Nat /\ m <= l /\ l <= Len(ss)
        /\ i \in 1..a /\ n <= a /\ n <= Len(tt) /\ i <= Len(tt)
    <3>1. PICK d \in Nat : a = i + d
          BY <2>0
    <3>2. a * b = l + d * b /\ d * b \in Nat /\ l = m + b /\ m \in Nat
          BY <2>0, <3>1
    <3> QED BY <1>0, <2>0, <3>2
  <2> DEFINE s == SubSeq(ss, 1, m)
             r == SubSeq(ss, m + 1, l)
             t == SubSeq(tt, 1, n)
             q == SubSeq(tt, n + 1, i)
  <2>2. tt[i] = FlattenSeq(r) /\ Rows(n) = FlattenSeq(t) /\ Rows(n) = FlattenSeq(s)
        BY <1>2, <2>0, <2>1 DEF InRows
  <2>3. Rows(i) = FlattenSeq(SubSeq(ss, 1, l))
        OBVIOUS
  <2> HIDE DEF m, l
  <2>4. Splits(ss, m, l) /\ s \in Seq(Seq(C)) /\ r \in Seq(Seq(C))
        BY <1>0, <2>1, SplitAt
  <2>5. Splits(tt, n, i) /\ t \in Seq(Seq(C)) /\ q \in Seq(Seq(C))
        BY <1>0, <2>0, <2>1, SplitAt
  <2>6. q = <<tt[i]>> /\ tt[i] \in Seq(C)
    <3>1. q = SubSeq(tt, i, i)
          BY DEF i
    <3>2. SubSeq(tt, i, i) = <<tt[i]>> /\ tt[i] \in Seq(C)
          BY <1>0, <2>1, OneElement DEF i
    <3> QED BY <3>1, <3>2
  <2> HIDE DEF s, r, t, q, Rows
  <2>7. FlattenSeq(s \o r) = FlattenSeq(s) \o FlattenSeq(r)
        BY <2>4, FlattenJoined
  <2>8. FlattenSeq(Append(t, tt[i])) = FlattenSeq(t) \o tt[i]
        BY <2>5, <2>6, FlattenAppend
  <2>9. t \o q = Append(t, tt[i])
        BY <2>5, <2>6
  <2>10. SubSeq(ss, 1, l) = s \o r /\ SubSeq(tt, 1, i) = t \o q
        BY <2>4, <2>5 DEF Splits, s, r, t, q
  <2> QED BY <2>2, <2>3, <2>7, <2>8, <2>9, <2>10
<1>3. a \in T
  <2> HIDE DEF T
  <2> QED BY <1>1, <1>2, NaturalsFrom
<1>4. SubSeq(ss, 1, a * b) = ss /\ SubSeq(tt, 1, a) = tt
      BY <1>0, SubSeqFull
<1>5. Rows(a) = FlattenSeq(SubSeq(tt, 1, a))
  <2> HIDE DEF Rows
  <2> QED BY <1>3
<1> QED BY <1>4, <1>5

(* The same sequences, but for what comes before the first of them.         *)
IsOpened(C, gs, hs, open, len) ==
    /\ gs \in Seq(Seq(C)) /\ hs \in Seq(Seq(C)) /\ open \in Seq(C)
    /\ len \in Nat \ {0} /\ Len(gs) = len /\ Len(hs) = len
    /\ gs[1] = open \o hs[1] /\ \A n \in 2..len : gs[n] = hs[n]

LEMMA FlattenOpened ==
    ASSUME NEW C, NEW gs, NEW hs, NEW open, NEW len, IsOpened(C, gs, hs, open, len)
    PROVE  FlattenSeq(gs) = open \o FlattenSeq(hs)
<1>0. /\ gs \in Seq(Seq(C)) /\ hs \in Seq(Seq(C)) /\ open \in Seq(C)
      /\ len \in Nat \ {0} /\ Len(gs) = len /\ Len(hs) = len
      /\ gs[1] = open \o hs[1] /\ \A n \in 2..len : gs[n] = hs[n]
      BY DEF IsOpened
<1> USE <1>0
<1> DEFINE x == hs[1]
           y == gs[1]
           t == SubSeq(gs, 2, len)
           u == SubSeq(hs, 2, len)
           f == FlattenSeq(t)
<1>1. t \in Seq(Seq(C)) /\ u \in Seq(Seq(C)) /\ x \in Seq(C) /\ y \in Seq(C)
      OBVIOUS
<1>2. Len(t) = len - 1 /\ Len(u) = len - 1 /\ \A n \in 1..(len - 1) : t[n] = gs[n + 1] /\ u[n] = hs[n + 1]
      OBVIOUS
<1>3. t = u
  <2> HIDE DEF t, u
  <2>1. \A n \in 1..(len - 1) : n + 1 \in 2..len
        OBVIOUS
  <2>2. \A n \in 1..(len - 1) : t[n] = u[n]
        BY <1>2, <2>1
  <2> QED BY <1>1, <1>2, <2>2, SeqEqual
<1>4. 1 \in 1..len /\ len \in 1..len /\ 1 + 1 = 2
      OBVIOUS
<1>5. SubSeq(gs, 1, len) = gs /\ SubSeq(hs, 1, len) = hs
      BY SubSeqFull
<1>6. gs = <<y>> \o t /\ hs = <<x>> \o u
  <2>1. ASSUME NEW s \in Seq(Seq(C)), Len(s) = len
        PROVE  SubSeq(s, 1, len) = <<s[1]>> \o SubSeq(s, 2, len)
    <3>1. 1 \in 1..Len(s) /\ len \in 1..Len(s)
          BY <1>4, <2>1
    <3>2. SubSeq(s, 1, len) = <<s[1]>> \o SubSeq(s, 1 + 1, len)
          BY ONLY <3>1, SubSeqRecursiveFirst, s \in Seq(Seq(C))
    <3> QED BY <1>4, <3>2
  <2> QED BY <1>5, <2>1
<1> HIDE DEF x, y, t, u
<1> DEFINE yy == <<y>>
           xx == <<x>>
<1>7. yy \in Seq(Seq(C)) /\ FlattenSeq(yy) = y /\ xx \in Seq(Seq(C)) /\ FlattenSeq(xx) = x
      BY <1>1, FlattenOne
<1>8. f \in Seq(C)
      BY <1>1, FlattenTyped
<1>9. FlattenSeq(gs) = y \o f /\ FlattenSeq(hs) = x \o f
  <2>0. gs = yy \o t /\ hs = xx \o u
        BY <1>6
  <2> HIDE DEF yy, xx
  <2>1. FlattenSeq(yy \o t) = FlattenSeq(yy) \o FlattenSeq(t)
        BY <1>1, <1>7, FlattenJoined
  <2>2. FlattenSeq(xx \o u) = FlattenSeq(xx) \o FlattenSeq(u)
        BY <1>1, <1>7, FlattenJoined
  <2> QED BY <1>3, <1>7, <2>0, <2>1, <2>2
<1> HIDE DEF f
<1>10. Associates(open, x, f)
       BY <1>1, <1>8, ThreeJoined
<1> QED BY <1>9, <1>10 DEF Associates, x, y

(* The same, but for what comes after the last. *)
IsClosed(C, gs, hs, close, len) ==
    /\ gs \in Seq(Seq(C)) /\ hs \in Seq(Seq(C)) /\ close \in Seq(C)
    /\ len \in Nat \ {0} /\ Len(gs) = len /\ Len(hs) = len
    /\ gs[len] = hs[len] \o close /\ \A n \in 1..(len - 1) : gs[n] = hs[n]

LEMMA FlattenClosed ==
    ASSUME NEW C, NEW gs, NEW hs, NEW close, NEW len, IsClosed(C, gs, hs, close, len)
    PROVE  FlattenSeq(gs) = FlattenSeq(hs) \o close
<1>0. /\ gs \in Seq(Seq(C)) /\ hs \in Seq(Seq(C)) /\ close \in Seq(C)
      /\ len \in Nat \ {0} /\ Len(gs) = len /\ Len(hs) = len
      /\ gs[len] = hs[len] \o close /\ \A n \in 1..(len - 1) : gs[n] = hs[n]
      BY DEF IsClosed
<1> USE <1>0
<1> DEFINE x == hs[len]
           y == gs[len]
           t == SubSeq(gs, 1, len - 1)
           u == SubSeq(hs, 1, len - 1)
           f == FlattenSeq(t)
<1>1. t \in Seq(Seq(C)) /\ u \in Seq(Seq(C)) /\ x \in Seq(C) /\ y \in Seq(C)
      OBVIOUS
<1>2. Len(t) = len - 1 /\ Len(u) = len - 1 /\ \A n \in 1..(len - 1) : t[n] = gs[n] /\ u[n] = hs[n]
      OBVIOUS
<1>3. t = u
  <2> HIDE DEF t, u
  <2>1. \A n \in 1..(len - 1) : t[n] = u[n]
        BY <1>2
  <2> QED BY <1>1, <1>2, <2>1, SeqEqual
<1>4. gs = Append(t, y) /\ hs = Append(u, x)
  <2>1. 1 \in 1..len /\ len \in 1..len
        OBVIOUS
  <2>2. SubSeq(gs, 1, len) = t \o <<y>> /\ SubSeq(hs, 1, len) = u \o <<x>>
        BY <2>1, SubSeqRecursiveSecond
  <2>3. SubSeq(gs, 1, len) = gs /\ SubSeq(hs, 1, len) = hs
        BY SubSeqFull
  <2>4. t \o <<y>> = Append(t, y) /\ u \o <<x>> = Append(u, x)
    <3> HIDE DEF t, u, x, y
    <3> QED BY <1>1, AppendIsConcat
  <2> QED BY <2>2, <2>3, <2>4
<1> HIDE DEF x, y, t, u
<1>5. f \in Seq(C)
      BY <1>1, FlattenTyped
<1>6. FlattenSeq(gs) = f \o y /\ FlattenSeq(hs) = f \o x
      BY <1>1, <1>3, <1>4, FlattenAppend
<1> HIDE DEF f
<1>7. Associates(f, x, close)
      BY <1>1, <1>5, ThreeJoined
<1> QED BY <1>6, <1>7 DEF Associates, x, y

(* The same sequences, but for what opens the first and closes the last. *)
IsBracketed(C, gs, hs, open, close) ==
    \E ms, len : IsOpened(C, gs, ms, open, len) /\ IsClosed(C, ms, hs, close, len)

LEMMA FlattenBracketed ==
    ASSUME NEW C, NEW gs, NEW hs, NEW open, NEW close, IsBracketed(C, gs, hs, open, close)
    PROVE  FlattenSeq(gs) = open \o FlattenSeq(hs) \o close
<1> DEFINE f == FlattenSeq(hs)
<1>1. PICK ms, len : IsOpened(C, gs, ms, open, len) /\ IsClosed(C, ms, hs, close, len)
      BY DEF IsBracketed
<1>2. hs \in Seq(Seq(C)) /\ open \in Seq(C) /\ close \in Seq(C)
      BY <1>1 DEF IsOpened, IsClosed
<1>3. FlattenSeq(gs) = open \o FlattenSeq(ms)
      BY <1>1, FlattenOpened
<1>4. FlattenSeq(ms) = f \o close
      BY <1>1, FlattenClosed
<1>5. f \in Seq(C)
      BY <1>2, FlattenTyped
<1> HIDE DEF f
<1>6. Associates(open, f, close)
      BY <1>2, <1>5, ThreeJoined
<1> QED BY <1>3, <1>4, <1>6 DEF Associates, f

LEMMA VectorTyped ==
    ASSUME NEW S, NEW len \in Nat, NEW v, v = [n \in 1..len |-> v[n]], \A n \in 1..len : v[n] \in S
    PROVE  v \in Seq(S) /\ Len(v) = len
OBVIOUS
=============================================================================
