---------------------------- MODULE ParserProofs ----------------------------
(***************************************************************************)
(* What the parser of MiniAPL does with any text: it keeps all statements  *)
(* but the assignments without an equals sign, shows every error it has    *)
(* logged in the tree of its statement, aborts on unfinished statements    *)
(* only, and loses none of the text on its way to the trees; and the text  *)
(* of a program of the grammar is parsed into that program.                *)
(*                                                                         *)
(* The argument.  Of the call the parser entered first in a statement, and *)
(* of all it is in, the parentheses have been eaten: between the first of  *)
(* them and the position more have been opened than closed, at least by    *)
(* the number of calls, since a call is only left by eating a closing one, *)
(* or with an error and whatever was eaten instead.  A call that is left   *)
(* with an error leaves a null pointer to the call around it.              *)
(*                                                                         *)
(* A tree without null pointers says what was read for it: as long as no   *)
(* error is logged, the tokens eaten say, but for commas before a          *)
(* parenthesis, the head of the statement, of each call the parser is in   *)
(* its name, its parenthesis and the arguments it has so far, and what     *)
(* ParseExpr has returned.  A tree is postfix, what it says is prefix, so  *)
(* the induction is along the nodes, over the texts on the stack of        *)
(* Unparse.                                                                *)
(*                                                                         *)
(* For the way back, from a tree to its text and to the tree again, there  *)
(* is a reader that goes through the text token by token, with the calls   *)
(* it is in.  By induction along the nodes, each text on the stack of      *)
(* Unparse is read as its tree, in whatever calls it stands and whatever   *)
(* follows.  Then the parser keeps in step with the reader, and the loops  *)
(* before it cut the text of a program into just these tokens.             *)
(***************************************************************************)
EXTENDS Parser, Induction, FiniteSetTheorems

(* Tokens and nodes of a text; tlapm knows the text by its characters. *)
Token == Seq(Range(text))

Node ==
    [node : {"number", "variable"}, token : Token]
        \cup [node : {"call"}, token : Token, args : Nat]
        \cup {Null}

Parsing == pc \in {"expression", "arguments", "returned"}

-----------------------------------------------------------------------------
(* What the loops over the characters and over the tokens return: tokens    *)
(* are not empty.                                                           *)

CharacterLoop(C) == [tokens : Seq(Seq(C) \ {NoToken}), NextToken : Seq(C)]
TokenLoop(T)     == [stmts : Seq(Seq(T)), Toks : Seq(T)]

LEMMA FlushTyped ==
    ASSUME NEW C, NEW s \in CharacterLoop(C)
    PROVE  Flush(s) \in Seq(Seq(C) \ {NoToken})
<1>1. s.tokens \in Seq(Seq(C) \ {NoToken}) /\ s.NextToken \in Seq(C)
      BY DEF CharacterLoop
<1>2. CASE s.NextToken = << >>
      BY <1>1, <1>2 DEF Flush
<1>3. CASE s.NextToken # << >>
  <2>1. s.NextToken \in Seq(C) \ {NoToken}
        BY <1>1, <1>3 DEF NoToken
  <2>2. Append(s.tokens, s.NextToken) \in Seq(Seq(C) \ {NoToken})
        BY <1>1, <2>1
  <2> QED BY <1>3, <2>2 DEF Flush
<1> QED BY <1>2, <1>3

(* An iteration of the loop over the characters. *)
LEMMA CharacterCases ==
    ASSUME NEW s, NEW ch
    PROVE  /\ ch \in Symbols => ReadCharacter(s, ch) = [tokens |-> Append(Flush(s), <<ch>>), NextToken |-> << >>]
           /\ ch = Blank => ReadCharacter(s, ch) = [tokens |-> Flush(s), NextToken |-> << >>]
           /\ ch \notin Symbols \cup {Blank} =>
                 ReadCharacter(s, ch) = [s EXCEPT !.NextToken = Append(s.NextToken, ch)]
<1>1. Blank \notin Symbols
      BY DEF Symbols, Blank
<1> QED BY <1>1, Zenon DEF ReadCharacter

LEMMA CharacterTyped ==
    ASSUME NEW C, NEW s \in CharacterLoop(C), NEW ch \in C
    PROVE  ReadCharacter(s, ch) \in CharacterLoop(C)
<1> DEFINE W == Seq(C) \ {NoToken}
<1>1. s.tokens \in Seq(W) /\ s.NextToken \in Seq(C) /\ Flush(s) \in Seq(W)
      BY FlushTyped DEF CharacterLoop
<1>2. << >> \in Seq(C) /\ <<ch>> \in W
      BY DEF NoToken
<1>3. Append(s.NextToken, ch) \in Seq(C)
      BY <1>1
<1> HIDE DEF W
<1>4. Append(Flush(s), <<ch>>) \in Seq(W)
      BY <1>1, <1>2
<1>5. ASSUME NEW t \in Seq(W), NEW n \in Seq(C)
      PROVE  [tokens |-> t, NextToken |-> n] \in CharacterLoop(C)
      BY DEF CharacterLoop, W
<1>6. [s EXCEPT !.NextToken = Append(s.NextToken, ch)] \in CharacterLoop(C)
      BY <1>3 DEF CharacterLoop
<1>7. CASE ch \in Symbols
  <2>1. ReadCharacter(s, ch) = [tokens |-> Append(Flush(s), <<ch>>), NextToken |-> << >>]
        BY <1>7, CharacterCases
  <2> QED BY <1>2, <1>4, <1>5, <2>1
<1>8. CASE ch = Blank
  <2>1. ReadCharacter(s, ch) = [tokens |-> Flush(s), NextToken |-> << >>]
        BY <1>8, CharacterCases
  <2> QED BY <1>1, <1>2, <1>5, <2>1
<1>9. CASE ch \notin Symbols \cup {Blank}
  <2>1. ReadCharacter(s, ch) = [s EXCEPT !.NextToken = Append(s.NextToken, ch)]
        BY <1>9, CharacterCases
  <2> QED BY <1>6, <2>1
<1> QED BY <1>7, <1>8, <1>9

LEMMA TokenTyped ==
    ASSUME NEW T, NEW s \in TokenLoop(T), NEW t \in T
    PROVE  TakeToken(s, t) \in TokenLoop(T)
<1>1. s.stmts \in Seq(Seq(T)) /\ s.Toks \in Seq(T)
      BY DEF TokenLoop
<1>2. Append(s.stmts, s.Toks) \in Seq(Seq(T)) /\ Append(s.Toks, t) \in Seq(T)
      BY <1>1
<1>3. CASE t = Semicolon
  <2>1. TakeToken(s, t) = [stmts |-> Append(s.stmts, s.Toks), Toks |-> << >>]
        BY <1>3 DEF TakeToken
  <2> QED BY <1>2, <2>1 DEF TokenLoop
<1>4. CASE t # Semicolon
  <2>1. TakeToken(s, t) = [s EXCEPT !.Toks = Append(@, t)]
        BY <1>4 DEF TakeToken
  <2> QED BY <1>2, <2>1 DEF TokenLoop
<1> QED BY <1>3, <1>4

(* What the variables of the loops are before each iteration. *)
IsReading(C, chars, run) ==
    /\ run \in [0..Len(chars) -> CharacterLoop(C)]
    /\ run[0] = [tokens |-> << >>, NextToken |-> << >>]
    /\ \A n \in 1..Len(chars) : run[n] = ReadCharacter(run[n - 1], chars[n])

IsSplitting(T, tokens, run) ==
    /\ run \in [0..Len(tokens) -> TokenLoop(T)]
    /\ run[0] = [stmts |-> << >>, Toks |-> << >>]
    /\ \A n \in 1..Len(tokens) : run[n] = TakeToken(run[n - 1], tokens[n])

LEMMA ReadingRuns ==
    ASSUME NEW C, NEW chars \in Seq(C)
    PROVE  \E run : IsReading(C, chars, run) /\ ReadAll(chars) = run[Len(chars)]
<1> DEFINE X == CharacterLoop(C)
           len == Len(chars)
           start == [tokens |-> << >>, NextToken |-> << >>]
           step == [pair \in X \X (1..len) |-> ReadCharacter(pair[1], chars[pair[2]])]
           IsLoop(f) == f = [n \in 0..len |-> IF n = 0 THEN start ELSE ReadCharacter(f[n - 1], chars[n])]
           r == CHOOSE f : IsLoop(f)
<1>1. start \in X /\ len \in Nat /\ \A n \in 1..len : chars[n] \in C
      BY DEF CharacterLoop
<1>2. step \in [X \X (1..len) -> X]
  <2>1. ASSUME NEW pair \in X \X (1..len)
        PROVE  ReadCharacter(pair[1], chars[pair[2]]) \in X
    <3>1. pair[1] \in X /\ chars[pair[2]] \in C
          BY <1>1
    <3> QED BY <3>1, CharacterTyped
  <2> QED BY <2>1
<1>3. PICK f : IsLoopRun(X, start, step, len, f)
  <2> HIDE DEF X, start, step, len
  <2> QED BY <1>1, <1>2, LoopRuns
<1>4. IsLoop(f)
  <2>1. ASSUME NEW n \in 1..len
        PROVE  f[n] = ReadCharacter(f[n - 1], chars[n])
    <3>1. f[n - 1] \in X
          BY <1>1, <1>3 DEF IsLoopRun
    <3> QED BY <1>3, <3>1 DEF IsLoopRun
  <2> QED BY <1>1, <1>3, <2>1 DEF IsLoopRun
<1>5. IsLoop(r)
  <2> HIDE DEF IsLoop
  <2> QED BY <1>4
<1>6. ReadAll(chars) = r[len]
      BY DEF ReadAll, LeftToRight
<1> HIDE DEF r
<1>7. \A n \in 0..len : r[n] \in X
  <2> DEFINE U == {n \in 0..len : r[n] \in X}
  <2>1. 0 \in U
        BY <1>1, <1>5
  <2>2. ASSUME NEW n \in 0..(len - 1), n \in U
        PROVE  n + 1 \in U
    <3>1. n + 1 \in 1..len /\ chars[n + 1] \in C
          BY <1>1
    <3>2. r[n + 1] = ReadCharacter(r[n], chars[n + 1])
          BY <1>1, <1>5, <3>1
    <3> QED BY <2>2, <3>1, <3>2, CharacterTyped
  <2>3. 0..len \subseteq U
    <3> HIDE DEF U
    <3> QED BY <1>1, <2>1, <2>2, NaturalsUpTo
  <2> QED BY <1>1, <2>3
<1>8. IsReading(C, chars, r)
      BY <1>1, <1>5, <1>7 DEF IsReading
<1> QED BY <1>6, <1>8

LEMMA TokenizeTyped ==
    ASSUME NEW C, NEW chars \in Seq(C)
    PROVE  Tokenize(chars) \in Seq(Seq(C) \ {NoToken})
<1>1. PICK run : IsReading(C, chars, run) /\ ReadAll(chars) = run[Len(chars)]
      BY ReadingRuns
<1>2. run[Len(chars)] \in CharacterLoop(C)
      BY <1>1 DEF IsReading
<1> QED BY <1>1, <1>2, FlushTyped DEF Tokenize

LEMMA SplittingRuns ==
    ASSUME NEW T, NEW tokens \in Seq(T)
    PROVE  \E run : /\ IsSplitting(T, tokens, run)
                    /\ LeftToRight(TakeToken, [stmts |-> << >>, Toks |-> << >>], tokens) = run[Len(tokens)]
<1> DEFINE X == TokenLoop(T)
           len == Len(tokens)
           start == [stmts |-> << >>, Toks |-> << >>]
           step == [pair \in X \X (1..len) |-> TakeToken(pair[1], tokens[pair[2]])]
           IsLoop(f) == f = [n \in 0..len |-> IF n = 0 THEN start ELSE TakeToken(f[n - 1], tokens[n])]
           r == CHOOSE f : IsLoop(f)
<1>1. start \in X /\ len \in Nat /\ \A n \in 1..len : tokens[n] \in T
      BY DEF TokenLoop
<1>2. step \in [X \X (1..len) -> X]
  <2>1. ASSUME NEW pair \in X \X (1..len)
        PROVE  TakeToken(pair[1], tokens[pair[2]]) \in X
    <3>1. pair[1] \in X /\ tokens[pair[2]] \in T
          BY <1>1
    <3> QED BY <3>1, TokenTyped
  <2> QED BY <2>1
<1>3. PICK f : IsLoopRun(X, start, step, len, f)
  <2> HIDE DEF X, start, step, len
  <2> QED BY <1>1, <1>2, LoopRuns
<1>4. IsLoop(f)
  <2>1. ASSUME NEW n \in 1..len
        PROVE  f[n] = TakeToken(f[n - 1], tokens[n])
    <3>1. f[n - 1] \in X
          BY <1>1, <1>3 DEF IsLoopRun
    <3> QED BY <1>3, <3>1 DEF IsLoopRun
  <2> QED BY <1>1, <1>3, <2>1 DEF IsLoopRun
<1>5. IsLoop(r)
  <2> HIDE DEF IsLoop
  <2> QED BY <1>4
<1>6. LeftToRight(TakeToken, start, tokens) = r[len]
      BY DEF LeftToRight
<1> HIDE DEF r
<1>7. \A n \in 0..len : r[n] \in X
  <2> DEFINE U == {n \in 0..len : r[n] \in X}
  <2>1. 0 \in U
        BY <1>1, <1>5
  <2>2. ASSUME NEW n \in 0..(len - 1), n \in U
        PROVE  n + 1 \in U
    <3>1. n + 1 \in 1..len /\ tokens[n + 1] \in T
          BY <1>1
    <3>2. r[n + 1] = TakeToken(r[n], tokens[n + 1])
          BY <1>1, <1>5, <3>1
    <3> QED BY <2>2, <3>1, <3>2, TokenTyped
  <2>3. 0..len \subseteq U
    <3> HIDE DEF U
    <3> QED BY <1>1, <2>1, <2>2, NaturalsUpTo
  <2> QED BY <1>1, <2>3
<1>8. IsSplitting(T, tokens, r)
      BY <1>1, <1>5, <1>7 DEF IsSplitting
<1> QED BY <1>6, <1>8

LEMMA SplitTyped ==
    ASSUME NEW T, NEW tokens \in Seq(T)
    PROVE  SplitStatements(tokens) \in Seq(Seq(T))
<1>1. PICK run : /\ IsSplitting(T, tokens, run)
                 /\ LeftToRight(TakeToken, [stmts |-> << >>, Toks |-> << >>], tokens) = run[Len(tokens)]
      BY SplittingRuns
<1> DEFINE s == run[Len(tokens)]
<1>2. s \in TokenLoop(T)
      BY <1>1 DEF IsSplitting
<1>3. s.stmts \in Seq(Seq(T)) /\ s.Toks \in Seq(T)
      BY <1>2 DEF TokenLoop
<1>4. SplitStatements(tokens) = IF s.Toks = << >> THEN s.stmts ELSE Append(s.stmts, s.Toks)
      BY <1>1 DEF SplitStatements
<1> HIDE DEF s
<1> QED BY <1>3, <1>4

-----------------------------------------------------------------------------
(* What is left of a sequence without the elements at some positions. *)
IsWithout(C, dropped, s, run) ==
    /\ run \in [0..Len(s) -> Seq(C)]
    /\ run[0] = << >>
    /\ \A n \in 1..Len(s) : run[n] = IF n \in dropped THEN run[n - 1] ELSE Append(run[n - 1], s[n])

LEMMA WithoutRuns ==
    ASSUME NEW C, NEW dropped, NEW s \in Seq(C)
    PROVE  \E run : IsWithout(C, dropped, s, run) /\ Without(dropped, s) = run[Len(s)]
<1> DEFINE X == Seq(C)
           len == Len(s)
           start == << >>
           Keep(k, n) == IF n \in dropped THEN k ELSE Append(k, s[n])
           step == [pair \in X \X (1..len) |-> Keep(pair[1], pair[2])]
           IsLoop(f) == f = [n \in 0..len |-> IF n = 0 THEN << >> ELSE IF n \in dropped THEN f[n - 1] ELSE Append(f[n - 1], s[n])]
           r == CHOOSE f : IsLoop(f)
<1>1. start \in X /\ len \in Nat /\ \A n \in 1..len : s[n] \in C
      OBVIOUS
<1>2. \A k \in X, n \in 1..len : Keep(k, n) \in X
      BY <1>1
<1> HIDE DEF X
<1>3. step \in [X \X (1..len) -> X]
  <2> HIDE DEF Keep
  <2> QED BY <1>1, <1>2
<1>4. PICK f : IsLoopRun(X, start, step, len, f)
  <2> HIDE DEF start, step, len
  <2> QED BY <1>1, <1>3, LoopRuns
<1>5. IsLoop(f)
  <2>1. ASSUME NEW n \in 1..len
        PROVE  f[n] = Keep(f[n - 1], n)
    <3> HIDE DEF Keep
    <3>1. f[n - 1] \in X
          BY <1>1, <1>4 DEF IsLoopRun
    <3> QED BY <1>4, <3>1 DEF IsLoopRun
  <2>2. f[0] = << >> /\ f = [n \in 0..len |-> f[n]]
        BY <1>4 DEF IsLoopRun
  <2>3. ASSUME NEW n \in 0..len
        PROVE  f[n] = IF n = 0 THEN << >> ELSE IF n \in dropped THEN f[n - 1] ELSE Append(f[n - 1], s[n])
    <3>1. n # 0 => n \in 1..len
          BY <1>1
    <3> QED BY <2>1, <2>2, <3>1
  <2> QED BY <2>2, <2>3
<1>6. IsLoop(r)
  <2> HIDE DEF IsLoop
  <2> QED BY <1>5
<1>7. Without(dropped, s) = r[len]
      BY DEF Without
<1> HIDE DEF r
<1>8. \A n \in 0..len : r[n] \in X
  <2> DEFINE U == {n \in 0..len : r[n] \in X}
  <2>1. 0 \in U
        BY <1>1, <1>6
  <2>2. ASSUME NEW n \in 0..(len - 1), n \in U
        PROVE  n + 1 \in U
    <3> DEFINE m == n + 1
    <3>1. m \in 1..len /\ m - 1 = n /\ r[n] \in X /\ m \in 0..len /\ m # 0
          BY <1>1, <2>2
    <3> HIDE DEF m
    <3>2. r[m] = Keep(r[n], m)
          BY <1>6, <3>1
    <3>3. r[m] \in X
          BY <1>2, <3>1, <3>2
    <3> QED BY <3>1, <3>3 DEF m
  <2>3. 0..len \subseteq U
    <3> HIDE DEF U
    <3> QED BY <1>1, <2>1, <2>2, NaturalsUpTo
  <2> QED BY <1>1, <2>3
<1>9. IsWithout(C, dropped, s, r)
  <2>1. r \in [0..len -> X] /\ r[0] = << >>
        BY <1>1, <1>6, <1>8
  <2>2. ASSUME NEW n \in 1..len
        PROVE  r[n] = IF n \in dropped THEN r[n - 1] ELSE Append(r[n - 1], s[n])
    <3>1. n \in 0..len /\ n # 0
          BY <1>1
    <3> QED BY <1>6, <3>1
  <2> QED BY <2>1, <2>2 DEF IsWithout, X
<1> QED BY <1>7, <1>9

-----------------------------------------------------------------------------
(* The tokens have all the characters, and the statements all the tokens,   *)
(* that were read so far and are not dropped.                               *)
CharactersOf(s) == FlattenSeq(s.tokens) \o s.NextToken
TokensOf(s)     == FlattenSeq(s.stmts) \o s.Toks

LEMMA AppendJoined ==
    ASSUME NEW C, NEW s \in Seq(C), NEW t \in Seq(C), NEW e \in C
    PROVE  /\ s \o Append(t, e) = Append(s \o t, e)
           /\ s \o <<e>> = Append(s, e)
           /\ s \o << >> = s
           /\ s \o t \in Seq(C)
OBVIOUS

LEMMA FlushFlat ==
    ASSUME NEW C, NEW s \in CharacterLoop(C)
    PROVE  FlattenSeq(Flush(s)) = CharactersOf(s) /\ CharactersOf(s) \in Seq(C)
<1>1. s.tokens \in Seq(Seq(C)) /\ s.NextToken \in Seq(C)
      BY DEF CharacterLoop
<1>2. FlattenSeq(s.tokens) \in Seq(C)
      BY <1>1, FlattenTyped
<1>3. CASE s.NextToken = << >>
  <2>1. FlattenSeq(s.tokens) \o << >> = FlattenSeq(s.tokens)
        BY <1>2
  <2> QED BY <1>2, <1>3, <2>1 DEF Flush, CharactersOf
<1>4. CASE s.NextToken # << >>
  <2>1. FlattenSeq(Append(s.tokens, s.NextToken)) = FlattenSeq(s.tokens) \o s.NextToken
        BY <1>1, FlattenAppend
  <2>2. FlattenSeq(s.tokens) \o s.NextToken \in Seq(C)
        BY <1>1, <1>2
  <2> QED BY <1>4, <2>1, <2>2 DEF Flush, CharactersOf
<1> QED BY <1>3, <1>4

LEMMA CharacterKept ==
    ASSUME NEW C, NEW s \in CharacterLoop(C), NEW ch \in C
    PROVE  CharactersOf(ReadCharacter(s, ch)) = IF ch = Blank THEN CharactersOf(s) ELSE Append(CharactersOf(s), ch)
<1> DEFINE f == Flush(s)
           c == CharactersOf(s)
<1>1. FlattenSeq(f) = c /\ c \in Seq(C) /\ f \in Seq(Seq(C))
  <2>1. Flush(s) \in Seq(Seq(C) \ {NoToken})
        BY FlushTyped
  <2>2. Flush(s) \in Seq(Seq(C))
        BY <2>1
  <2> QED BY <2>2, FlushFlat
<1>2. CASE ch \in Symbols
  <2>1. ReadCharacter(s, ch) = [tokens |-> Append(f, <<ch>>), NextToken |-> << >>]
        BY <1>2, CharacterCases
  <2>2. ch # Blank
        BY <1>2 DEF Symbols, Blank
  <2> HIDE DEF f, c
  <2>3. FlattenSeq(Append(f, <<ch>>)) = c \o <<ch>>
    <3>1. <<ch>> \in Seq(C)
          OBVIOUS
    <3> QED BY <1>1, <3>1, FlattenAppend
  <2>4. CharactersOf(ReadCharacter(s, ch)) = (c \o <<ch>>) \o << >>
        BY <2>1, <2>3 DEF CharactersOf
  <2>5. (c \o <<ch>>) \o << >> = Append(c, ch)
        BY <1>1
  <2> QED BY <2>2, <2>4, <2>5 DEF c
<1>3. CASE ch = Blank
  <2>1. ReadCharacter(s, ch) = [tokens |-> f, NextToken |-> << >>]
        BY <1>3, CharacterCases
  <2> HIDE DEF f, c
  <2>2. CharactersOf(ReadCharacter(s, ch)) = c \o << >>
        BY <1>1, <2>1 DEF CharactersOf
  <2>3. c \o << >> = c
        BY <1>1
  <2> QED BY <1>3, <2>2, <2>3 DEF c
<1>4. CASE ch \notin Symbols \cup {Blank}
  <2> DEFINE t == FlattenSeq(s.tokens)
             n == s.NextToken
  <2>1. ReadCharacter(s, ch) = [s EXCEPT !.NextToken = Append(n, ch)]
        BY <1>4, CharacterCases
  <2>2. s.tokens \in Seq(Seq(C)) /\ n \in Seq(C)
        BY DEF CharacterLoop
  <2>3. t \in Seq(C)
        BY <2>2, FlattenTyped
  <2>4. ReadCharacter(s, ch).tokens = s.tokens /\ ReadCharacter(s, ch).NextToken = Append(n, ch)
        BY <2>1 DEF CharacterLoop
  <2>5. CharactersOf(ReadCharacter(s, ch)) = t \o Append(n, ch) /\ c = t \o n
        BY <2>4 DEF CharactersOf
  <2> HIDE DEF t, n, c
  <2>6. t \o Append(n, ch) = Append(t \o n, ch)
        BY <2>2, <2>3, AppendJoined
  <2> QED BY <1>4, <2>5, <2>6 DEF c
<1> QED BY <1>2, <1>3, <1>4

LEMMA TokenizeKeeps ==
    ASSUME NEW C, NEW chars \in Seq(C)
    PROVE  FlattenSeq(Tokenize(chars)) = Without(Positions(Blank, chars), chars)
<1> DEFINE len == Len(chars)
           blanks == Positions(Blank, chars)
<1>1. PICK run : IsReading(C, chars, run) /\ ReadAll(chars) = run[len]
      BY ReadingRuns
<1>2. PICK kept : IsWithout(C, blanks, chars, kept) /\ Without(blanks, chars) = kept[len]
      BY WithoutRuns
<1>3. len \in Nat /\ \A n \in 1..len : chars[n] \in C /\ (n \in blanks <=> chars[n] = Blank)
      BY DEF Positions
<1> DEFINE T == {n \in 0..len : CharactersOf(run[n]) = kept[n]}
<1>4. 0 \in T
  <2>1. run[0].tokens = << >> /\ run[0].NextToken = << >> /\ kept[0] = << >>
        BY <1>1, <1>2 DEF IsReading, IsWithout
  <2>2. CharactersOf(run[0]) = << >>
        BY <2>1, FlattenNone DEF CharactersOf
  <2> QED BY <1>3, <2>1, <2>2
<1> HIDE DEF blanks
<1>5. ASSUME NEW n \in 0..(len - 1), n \in T
      PROVE  n + 1 \in T
  <2> DEFINE m == n + 1
  <2>1. m \in 1..len /\ m - 1 = n /\ m \in 0..len /\ n \in 0..len
        BY <1>3
  <2> HIDE DEF m
  <2>2. run[m] = ReadCharacter(run[n], chars[m]) /\ run[n] \in CharacterLoop(C)
        BY <1>1, <2>1 DEF IsReading
  <2>3. kept[m] = IF m \in blanks THEN kept[n] ELSE Append(kept[n], chars[m])
        BY <1>2, <2>1 DEF IsWithout
  <2>4. CharactersOf(run[m]) = IF chars[m] = Blank THEN CharactersOf(run[n]) ELSE Append(CharactersOf(run[n]), chars[m])
        BY <1>3, <2>1, <2>2, CharacterKept
  <2>5. m \in T
        BY <1>3, <1>5, <2>1, <2>3, <2>4
  <2> QED BY <2>5 DEF m
<1>6. CharactersOf(run[len]) = kept[len]
  <2>1. 0..len \subseteq T
    <3> HIDE DEF T
    <3> QED BY <1>3, <1>4, <1>5, NaturalsUpTo
  <2> QED BY <1>3, <2>1
<1>7. FlattenSeq(Flush(run[len])) = CharactersOf(run[len])
  <2>1. run[len] \in CharacterLoop(C)
        BY <1>1, <1>3 DEF IsReading
  <2> QED BY <2>1, FlushFlat
<1> QED BY <1>1, <1>2, <1>6, <1>7 DEF Tokenize, blanks

LEMMA TokenKept ==
    ASSUME NEW T, NEW s \in TokenLoop(T), NEW t \in T
    PROVE  TokensOf(TakeToken(s, t)) = IF t = Semicolon THEN TokensOf(s) ELSE Append(TokensOf(s), t)
<1> DEFINE f == FlattenSeq(s.stmts)
<1>1. s.stmts \in Seq(Seq(T)) /\ s.Toks \in Seq(T) /\ f \in Seq(T)
      BY FlattenTyped DEF TokenLoop
<1>2. f \o s.Toks \in Seq(T)
      BY <1>1
<1>3. CASE t = Semicolon
  <2>1. TakeToken(s, t).stmts = Append(s.stmts, s.Toks) /\ TakeToken(s, t).Toks = << >>
        BY <1>3 DEF TakeToken
  <2>2. FlattenSeq(Append(s.stmts, s.Toks)) = f \o s.Toks
        BY <1>1, FlattenAppend
  <2> HIDE DEF f
  <2>3. TokensOf(TakeToken(s, t)) = (f \o s.Toks) \o << >>
        BY <2>1, <2>2 DEF TokensOf
  <2>4. (f \o s.Toks) \o << >> = f \o s.Toks
        BY <1>2
  <2> QED BY <1>3, <2>3, <2>4 DEF TokensOf, f
<1>4. CASE t # Semicolon
  <2>1. TakeToken(s, t).stmts = s.stmts /\ TakeToken(s, t).Toks = Append(s.Toks, t)
        BY <1>4 DEF TakeToken, TokenLoop
  <2>2. TokensOf(TakeToken(s, t)) = f \o Append(s.Toks, t)
        BY <2>1 DEF TokensOf
  <2>3. f \o Append(s.Toks, t) = Append(f \o s.Toks, t)
    <3> HIDE DEF f
    <3> QED BY <1>1, AppendJoined
  <2> QED BY <1>4, <2>2, <2>3 DEF TokensOf
<1> QED BY <1>3, <1>4

LEMMA SplitKeeps ==
    ASSUME NEW C, NEW tokens \in Seq(C)
    PROVE  FlattenSeq(SplitStatements(tokens)) = Without(Positions(Semicolon, tokens), tokens)
<1> DEFINE len == Len(tokens)
           ends == Positions(Semicolon, tokens)
<1>1. PICK run : /\ IsSplitting(C, tokens, run)
                 /\ LeftToRight(TakeToken, [stmts |-> << >>, Toks |-> << >>], tokens) = run[len]
      BY SplittingRuns
<1>2. PICK kept : IsWithout(C, ends, tokens, kept) /\ Without(ends, tokens) = kept[len]
      BY WithoutRuns
<1>3. len \in Nat /\ \A n \in 1..len : tokens[n] \in C /\ (n \in ends <=> tokens[n] = Semicolon)
      BY DEF Positions
<1> DEFINE T == {n \in 0..len : TokensOf(run[n]) = kept[n]}
<1>4. 0 \in T
  <2>1. run[0].stmts = << >> /\ run[0].Toks = << >> /\ kept[0] = << >>
        BY <1>1, <1>2 DEF IsSplitting, IsWithout
  <2>2. TokensOf(run[0]) = << >>
        BY <2>1, FlattenNone DEF TokensOf
  <2> QED BY <1>3, <2>1, <2>2
<1> HIDE DEF ends
<1>5. ASSUME NEW n \in 0..(len - 1), n \in T
      PROVE  n + 1 \in T
  <2> DEFINE m == n + 1
  <2>1. m \in 1..len /\ m - 1 = n /\ m \in 0..len /\ n \in 0..len
        BY <1>3
  <2> HIDE DEF m
  <2>2. run[m] = TakeToken(run[n], tokens[m]) /\ run[n] \in TokenLoop(C)
        BY <1>1, <2>1 DEF IsSplitting
  <2>3. kept[m] = IF m \in ends THEN kept[n] ELSE Append(kept[n], tokens[m])
        BY <1>2, <2>1 DEF IsWithout
  <2>4. TokensOf(run[m]) = IF tokens[m] = Semicolon THEN TokensOf(run[n]) ELSE Append(TokensOf(run[n]), tokens[m])
        BY <1>3, <2>1, <2>2, TokenKept
  <2>5. m \in T
        BY <1>3, <1>5, <2>1, <2>3, <2>4
  <2> QED BY <2>5 DEF m
<1>6. TokensOf(run[len]) = kept[len]
  <2>1. 0..len \subseteq T
    <3> HIDE DEF T
    <3> QED BY <1>3, <1>4, <1>5, NaturalsUpTo
  <2> QED BY <1>3, <2>1
<1> DEFINE s == run[len]
           f == FlattenSeq(s.stmts)
<1>7. s.stmts \in Seq(Seq(C)) /\ s.Toks \in Seq(C)
  <2>1. s \in TokenLoop(C)
        BY <1>1, <1>3 DEF IsSplitting
  <2> QED BY <2>1 DEF TokenLoop
<1>8. SplitStatements(tokens) = IF s.Toks = << >> THEN s.stmts ELSE Append(s.stmts, s.Toks)
      BY <1>1 DEF SplitStatements
<1> HIDE DEF s
<1>9. FlattenSeq(Append(s.stmts, s.Toks)) = f \o s.Toks /\ f \in Seq(C)
      BY <1>7, FlattenAppend, FlattenTyped
<1>10. s.Toks = << >> => f = f \o s.Toks
  <2> HIDE DEF f
  <2> QED BY <1>9
<1>11. FlattenSeq(SplitStatements(tokens)) = f \o s.Toks
       BY <1>8, <1>9, <1>10
<1> QED BY <1>2, <1>6, <1>11 DEF TokensOf, s, ends

-----------------------------------------------------------------------------
(* Counting tokens up to a position, one at a time. *)
LEMMA CountNumber ==
    ASSUME NEW t, NEW tokens, NEW from \in Nat, NEW to \in Nat
    PROVE  Count(t, tokens, from, to) \in Nat
<1>1. IsFiniteSet(from..to)
      BY FS_Interval
<1>2. {n \in from..to : n \in DOMAIN tokens /\ tokens[n] = t} \subseteq from..to
      OBVIOUS
<1>3. IsFiniteSet({n \in from..to : n \in DOMAIN tokens /\ tokens[n] = t})
      BY <1>1, <1>2, FS_Subset
<1> QED BY <1>3, FS_CardinalityType DEF Count

LEMMA CountNext ==
    ASSUME NEW t, NEW tokens, NEW from \in Nat, NEW p \in Nat, NEW k, k = p + 1, from <= k
    PROVE  /\ k \in DOMAIN tokens /\ tokens[k] = t => Count(t, tokens, from, k) = Count(t, tokens, from, p) + 1
           /\ ~(k \in DOMAIN tokens /\ tokens[k] = t) => Count(t, tokens, from, k) = Count(t, tokens, from, p)
<1> DEFINE A == {n \in from..p : n \in DOMAIN tokens /\ tokens[n] = t}
           B == {n \in from..k : n \in DOMAIN tokens /\ tokens[n] = t}
<1>1. IsFiniteSet(A)
  <2>1. IsFiniteSet(from..p) /\ A \subseteq from..p
        BY FS_Interval
  <2> QED BY <2>1, FS_Subset
<1>2. k \notin A /\ \A n : n \in from..k <=> n \in from..p \/ n = k
      OBVIOUS
<1>3. CASE k \in DOMAIN tokens /\ tokens[k] = t
  <2>1. B = A \cup {k}
        BY <1>2, <1>3
  <2> HIDE DEF A, B
  <2>2. Cardinality(B) = Cardinality(A) + 1
        BY <1>1, <1>2, <2>1, FS_AddElement
  <2> QED BY <1>3, <2>2 DEF Count, A, B
<1>4. CASE ~(k \in DOMAIN tokens /\ tokens[k] = t)
  <2>1. B = A
        BY <1>2, <1>4
  <2> QED BY <1>4, <2>1 DEF Count
<1> QED BY <1>3, <1>4

LEMMA CountOne ==
    ASSUME NEW t, NEW tokens, NEW p \in Nat
    PROVE  /\ p \in DOMAIN tokens /\ tokens[p] = t => Count(t, tokens, p, p) = 1
           /\ ~(p \in DOMAIN tokens /\ tokens[p] = t) => Count(t, tokens, p, p) = 0
<1> DEFINE A == {n \in p..p : n \in DOMAIN tokens /\ tokens[n] = t}
<1>1. p \in DOMAIN tokens /\ tokens[p] = t => A = {p}
      OBVIOUS
<1>2. ~(p \in DOMAIN tokens /\ tokens[p] = t) => A = {}
      OBVIOUS
<1>3. Count(t, tokens, p, p) = Cardinality(A)
      BY DEF Count
<1> HIDE DEF A
<1> QED BY <1>1, <1>2, <1>3, FS_EmptySet, FS_Singleton

(* Beyond the end there is nothing to count. *)
LEMMA CountAll ==
    ASSUME NEW T, NEW tokens \in Seq(T), NEW t, NEW from \in Nat, NEW p \in Nat, p >= Len(tokens)
    PROVE  Count(t, tokens, from, p) = Count(t, tokens, from, Len(tokens))
<1>1. {n \in from..p : n \in DOMAIN tokens /\ tokens[n] = t}
        = {n \in from..Len(tokens) : n \in DOMAIN tokens /\ tokens[n] = t}
      OBVIOUS
<1> QED BY <1>1 DEF Count

-----------------------------------------------------------------------------
(* The inductive invariant. *)
Tree  == Seq(Node)
Frame == [callee : Token, tree : Tree, args : Nat]

Typed ==
    /\ text \in Seq(Range(text))
    /\ Stmts \in Seq(Seq(Token))
    /\ statement \in Nat \ {0}
    /\ Position \in Nat
    /\ target \in Token
    /\ frames \in Seq(Frame)
    /\ value \in Tree
    /\ ParsedStmts \in Seq([name : Token, value : Tree, from : Nat, to : Nat])
    /\ errors \subseteq Nat \ {0}
    /\ pc \in {"read", "statement", "expression", "arguments", "returned", "assert", "out_of_range"}

(* Where the parser stands. *)
Placed ==
    /\ pc = "read" => Stmts = << >> /\ statement = 1 /\ ParsedStmts = << >> /\ errors = {}
    /\ statement <= Len(Stmts) + 1
    /\ Parsing => statement <= Len(Stmts) /\ Position <= Len(S) + 1
    /\ pc \in {"read", "statement"} => frames = << >>
    /\ pc = "arguments" => frames # << >>
    /\ pc = "returned" => value # << >>
    /\ \A n \in DOMAIN ParsedStmts : ParsedStmts[n].value # << >> /\ ParsedStmts[n].from < statement
    /\ \A k \in errors : k <= Len(Stmts) /\ k <= statement /\ (pc = "statement" => k # statement)

(* An error of the statement that is parsed is in a tree that will be part  *)
(* of its own.                                                              *)
NullSoFar ==
    \/ \E n \in DOMAIN frames : HasNull(frames[n].tree)
    \/ pc = "returned" /\ HasNull(value)

Marked ==
    /\ ErrorsMarked
    /\ Parsing => (statement \in errors <=> NullSoFar)

Kept ==
    /\ OnlyAssignmentsLost
    /\ Parsing => ~LacksEquals(S)

(* From some parenthesis up to position p, at least as many more have been  *)
(* opened than closed.                                                      *)
Unbalanced(p, depth) ==
    \E first \in DOMAIN S :
        first <= p /\ depth + Count(Close, S, first, p) <= Count(Open, S, first, p)

Balanced ==
    /\ Parsing /\ frames # << >> => Unbalanced(Position, Len(frames))
    /\ pc = "expression" /\ frames # << >> => Peek(Position) # Close
    /\ pc = "expression" /\ frames = << >> =>
          S # << >> /\ (Position = 0 \/ (Position = 3 /\ Len(S) >= 3 /\ S[1] = AssignWord))

Inv == Typed /\ Placed /\ Marked /\ Kept /\ Balanced /\ AbortsOnlyUnfinished

-----------------------------------------------------------------------------
(* The statement and its tokens. *)
LEMMA StatementTokens ==
    ASSUME Typed, statement <= Len(Stmts)
    PROVE  S \in Seq(Token) /\ Len(S) \in Nat /\ DOMAIN S = 1..Len(S)
<1>1. statement \in 1..Len(Stmts) /\ Stmts \in Seq(Seq(Token))
      BY DEF Typed
<1>2. S \in Seq(Token)
      BY <1>1 DEF S
<1> QED BY <1>2

LEMMA PeekIs ==
    ASSUME S \in Seq(Token), NEW p \in Nat
    PROVE  /\ Peek(p) \in Token
           /\ p < Len(S) => p + 1 \in DOMAIN S /\ Peek(p) = S[p + 1]
           /\ p >= Len(S) => p + 1 \notin DOMAIN S /\ Peek(p) = NoToken
<1>1. CASE p < Len(S)
  <2>1. p + 1 \in DOMAIN S
        BY <1>1
  <2>2. S[p + 1] \in Token
        BY <2>1
  <2> QED BY <1>1, <2>1, <2>2 DEF Peek
<1>2. CASE p >= Len(S)
  <2>1. Peek(p) = << >> /\ p + 1 \notin DOMAIN S
        BY <1>2 DEF Peek, NoToken
  <2>2. << >> \in Token
        BY DEF Token
  <2> QED BY <1>2, <2>1, <2>2 DEF NoToken
<1> QED BY <1>1, <1>2

LEMMA TokensDiffer ==
    /\ Open # NoToken /\ Close # NoToken /\ Comma # NoToken /\ Equals # NoToken
    /\ Open # Close /\ Comma # Close /\ Comma # Open
    /\ \A t : IsInt(t) => t # NoToken
<1>1. <<"0">> # << >>
      OBVIOUS
<1> QED BY <1>1 DEF Open, Close, Comma, Equals, NoToken, IsInt

LEMMA PeekEaten ==
    ASSUME S \in Seq(Token), NEW p \in Nat, NEW from \in Nat, NEW k, k = p + 1, from <= k,
           NEW t \in {Open, Close}
    PROVE  /\ Peek(p) = t => Count(t, S, from, k) = Count(t, S, from, p) + 1
           /\ Peek(p) # t => Count(t, S, from, k) = Count(t, S, from, p)
<1>1. k \in DOMAIN S /\ S[k] = t <=> Peek(p) = t
      BY PeekIs, TokensDiffer
<1> QED BY <1>1, CountNext

(* What the steps within a statement leave alone. *)
LEMMA Continued ==
    ASSUME Typed, NEW position, NEW next, Continue(position, next)
    PROVE  /\ text' = text /\ Stmts' = Stmts /\ statement' = statement /\ ParsedStmts' = ParsedStmts
           /\ S' = S /\ Token' = Token /\ Node' = Node /\ Tree' = Tree /\ Frame' = Frame
           /\ Position' = position /\ pc' = next
           /\ ~(LastPeek > Len(S))
<1>1. /\ text' = text /\ Stmts' = Stmts /\ statement' = statement /\ ParsedStmts' = ParsedStmts
      /\ Position' = position /\ pc' = next /\ ~(LastPeek > Len(S))
      BY DEF Continue, Throws
<1>2. S' = S /\ Token' = Token
      BY <1>1 DEF S, Token
<1>3. Node' = Node
      BY <1>2 DEF Node, Null
<1>4. Tree' = Tree /\ Frame' = Frame
      BY <1>2, <1>3 DEF Tree, Frame
<1> QED BY <1>1, <1>2, <1>3, <1>4

(* A step within a statement keeps the invariant if it keeps the tree, the  *)
(* calls, the nulls and the parentheses in order.                           *)
LEMMA StepWithin ==
    ASSUME Inv, pc # "read", statement <= Len(Stmts), ~LacksEquals(S),
           NEW position \in Nat, NEW next \in {"expression", "arguments", "returned"},
           Continue(position, next), position <= Len(S) + 1,
           target' \in Token, frames' \in Seq(Frame), value' \in Tree,
           next = "arguments" => frames' # << >>, next = "returned" => value' # << >>,
           errors' = errors \/ errors' = errors \cup {statement},
           statement \in errors' <=> NullSoFar',
           Balanced'
    PROVE  Inv'
<1> USE DEF Inv
<1>1. /\ text' = text /\ Stmts' = Stmts /\ statement' = statement /\ ParsedStmts' = ParsedStmts
      /\ S' = S /\ Token' = Token /\ Tree' = Tree /\ Frame' = Frame
      /\ Position' = position /\ pc' = next
      BY Continued
<1>2. Typed'
  <2>1. errors' \subseteq Nat \ {0}
        BY DEF Typed
  <2> QED BY <1>1, <2>1 DEF Typed
<1>3. Placed'
  <2>1. \A n \in DOMAIN ParsedStmts' : ParsedStmts'[n].value # << >> /\ ParsedStmts'[n].from < statement'
        BY <1>1 DEF Placed
  <2>2. \A k \in errors' : k <= Len(Stmts') /\ k <= statement' /\ (pc' = "statement" => k # statement')
    <3>1. statement <= Len(Stmts) /\ statement <= statement
          BY DEF Typed
    <3> QED BY <1>1, <3>1 DEF Placed
  <2>3. Parsing' => statement' <= Len(Stmts') /\ Position' <= Len(S') + 1
        BY <1>1
  <2> QED BY <1>1, <2>1, <2>2, <2>3 DEF Placed
<1>4. Marked'
  <2>1. ErrorsMarked'
    <3>1. ASSUME NEW n \in DOMAIN ParsedStmts
          PROVE  ParsedStmts[n].from \in errors' <=> ParsedStmts[n].from \in errors
      <4>1. ParsedStmts[n].from < statement /\ statement \in Nat
            BY DEF Placed, Typed
      <4>2. ParsedStmts[n].from # statement
            BY <4>1
      <4> QED BY <4>2
    <3> QED BY <1>1, <3>1 DEF Marked, ErrorsMarked
  <2> QED BY <1>1, <2>1 DEF Marked
<1>5. Kept'
  <2>1. OnlyAssignmentsLost'
        BY <1>1 DEF Kept, OnlyAssignmentsLost
  <2> QED BY <1>1, <2>1 DEF Kept
<1>6. AbortsOnlyUnfinished'
      BY <1>1 DEF AbortsOnlyUnfinished
<1> QED BY <1>2, <1>3, <1>4, <1>5, <1>6

(* A statement begins: there are no calls, and no errors yet. *)
LEMMA StatementStarts ==
    ASSUME Inv, InStatement("statement"), NEW position \in Nat, Continue(position, "expression"),
           S # << >>, ~LacksEquals(S),
           position = 0 \/ (position = 3 /\ Len(S) >= 3 /\ S[1] = AssignWord),
           target' \in Token, UNCHANGED <<frames, value, errors>>
    PROVE  Inv'
<1> USE DEF Inv
<1>1. pc = "statement" /\ statement <= Len(Stmts) /\ frames = << >>
      BY DEF InStatement, Placed
<1>2. /\ S' = S /\ Token' = Token /\ Position' = position /\ pc' = "expression" /\ statement' = statement
      BY Continued
<1>3. S \in Seq(Token) /\ Len(S) \in Nat
      BY <1>1, StatementTokens
<1>4. statement \notin errors'
      BY <1>1 DEF Placed
<1>5. ~NullSoFar'
      BY <1>1, <1>2 DEF NullSoFar
<1>6. Balanced'
      BY <1>1, <1>2 DEF Balanced, Parsing
<1>7. frames' \in Seq(Frame) /\ value' \in Tree
      BY DEF Typed
<1>8. position <= Len(S) + 1
      BY <1>3
<1> QED BY <1>1, <1>3, <1>4, <1>5, <1>6, <1>7, <1>8, StepWithin

LEMMA ParseEvaluationStep ==
    ASSUME Inv, ParseEvaluation
    PROVE  Inv'
<1>1. ~LacksEquals(S)
  <2>1. S[1] # AssignWord
        BY DEF ParseEvaluation, InStatement, Assigns
  <2> QED BY <2>1 DEF LacksEquals
<1>2. target' \in Token
      BY DEF ParseEvaluation, NoName, Token
<1> QED BY <1>1, <1>2, StatementStarts DEF ParseEvaluation

LEMMA ParseAssignStep ==
    ASSUME Inv, ParseAssign
    PROVE  Inv'
<1>1. S \in Seq(Token) /\ Len(S) \in Nat
      BY StatementTokens DEF Inv, ParseAssign, InStatement
<1>2. 2 < Len(S) /\ S[3] = Equals
  <2> DEFINE p == 2
  <2>1. p \in Nat /\ p + 1 = 3
        OBVIOUS
  <2>2. Peek(p) # NoToken
        BY TokensDiffer DEF ParseAssign
  <2> HIDE DEF p
  <2>3. p < Len(S) /\ Peek(p) = S[p + 1]
        BY <1>1, <2>1, <2>2, PeekIs
  <2> QED BY <2>1, <2>3 DEF ParseAssign, p
<1>3. S # << >> /\ S[1] = AssignWord
      BY DEF ParseAssign, Assigns
<1>4. ~LacksEquals(S)
      BY <1>2 DEF LacksEquals
<1>5. target' \in Token
      BY <1>1, PeekIs DEF ParseAssign
<1> QED BY <1>1, <1>2, <1>3, <1>4, <1>5, StatementStarts DEF ParseAssign

-----------------------------------------------------------------------------
(* The parentheses, one token further. *)
LEMMA UnbalancedNext ==
    ASSUME S \in Seq(Token), NEW p \in Nat, NEW depth \in Nat, Unbalanced(p, depth), NEW k, k = p + 1
    PROVE  /\ Peek(p) # Close => Unbalanced(k, depth)
           /\ Peek(p) = Open => Unbalanced(k, depth + 1)
           /\ \A less \in Nat : less + 1 = depth => Unbalanced(k, less)
<1>1. PICK first \in DOMAIN S :
          first <= p /\ depth + Count(Close, S, first, p) <= Count(Open, S, first, p)
      BY DEF Unbalanced
<1>2. first \in Nat /\ first <= k /\ k \in Nat
      BY <1>1
<1>3. /\ Count(Open, S, first, p) \in Nat /\ Count(Close, S, first, p) \in Nat
      /\ Count(Open, S, first, k) \in Nat /\ Count(Close, S, first, k) \in Nat
      BY <1>2, CountNumber
<1>4. /\ Peek(p) = Open => Count(Open, S, first, k) = Count(Open, S, first, p) + 1
      /\ Peek(p) # Open => Count(Open, S, first, k) = Count(Open, S, first, p)
      BY <1>2, PeekEaten
<1>5. /\ Peek(p) = Close => Count(Close, S, first, k) = Count(Close, S, first, p) + 1
      /\ Peek(p) # Close => Count(Close, S, first, k) = Count(Close, S, first, p)
      BY <1>2, PeekEaten
<1>6. Open # Close
      BY TokensDiffer
<1>7. Peek(p) # Close => depth + Count(Close, S, first, k) <= Count(Open, S, first, k)
      BY <1>1, <1>3, <1>4, <1>5
<1>8. Peek(p) = Open => depth + 1 + Count(Close, S, first, k) <= Count(Open, S, first, k)
      BY <1>1, <1>3, <1>4, <1>5, <1>6
<1>9. ASSUME NEW less \in Nat, less + 1 = depth
      PROVE  less + Count(Close, S, first, k) <= Count(Open, S, first, k)
      BY <1>1, <1>3, <1>4, <1>5, <1>6, <1>9
<1> QED BY <1>2, <1>7, <1>8, <1>9 DEF Unbalanced

LEMMA UnbalancedLess ==
    ASSUME S \in Seq(Token), NEW p \in Nat, NEW depth \in Nat, Unbalanced(p, depth),
           NEW less \in Nat, less <= depth
    PROVE  Unbalanced(p, less)
<1>1. PICK first \in DOMAIN S :
          first <= p /\ depth + Count(Close, S, first, p) <= Count(Open, S, first, p)
      BY DEF Unbalanced
<1>2. Count(Open, S, first, p) \in Nat /\ Count(Close, S, first, p) \in Nat
      BY <1>1, CountNumber
<1>3. less + Count(Close, S, first, p) <= Count(Open, S, first, p)
      BY <1>1, <1>2
<1> QED BY <1>1, <1>3 DEF Unbalanced

LEMMA UnbalancedFirst ==
    ASSUME S \in Seq(Token), NEW p \in Nat, Peek(p) = Open, NEW k, k = p + 1
    PROVE  Unbalanced(k, 1)
<1>1. k \in DOMAIN S /\ S[k] = Open /\ k \in Nat
      BY PeekIs, TokensDiffer
<1>2. Count(Open, S, k, k) = 1
      BY <1>1, CountOne
<1>3. Count(Close, S, k, k) = 0
      BY <1>1, CountOne, TokensDiffer
<1>4. k <= k /\ 1 + Count(Close, S, k, k) <= Count(Open, S, k, k)
      BY <1>1, <1>2, <1>3
<1> QED BY <1>1, <1>4 DEF Unbalanced

(* At the end of the statement a list is not closed. *)
LEMMA UnbalancedEnd ==
    ASSUME S \in Seq(Token), NEW p \in Nat, p >= Len(S), NEW depth \in Nat \ {0}, Unbalanced(p, depth)
    PROVE  Unclosed(S)
<1>1. PICK first \in DOMAIN S :
          first <= p /\ depth + Count(Close, S, first, p) <= Count(Open, S, first, p)
      BY DEF Unbalanced
<1>2. first \in Nat /\ Len(S) \in Nat
      BY <1>1
<1>3. Count(Open, S, first, p) \in Nat /\ Count(Close, S, first, p) \in Nat
      BY <1>2, CountNumber
<1>4. Count(Open, S, first, p) > Count(Close, S, first, p)
      BY <1>1, <1>3
<1>5. /\ Count(Open, S, first, p) = Count(Open, S, first, Len(S))
      /\ Count(Close, S, first, p) = Count(Close, S, first, Len(S))
      BY <1>2, CountAll
<1> QED BY <1>1, <1>4, <1>5 DEF Unclosed

-----------------------------------------------------------------------------
(* Trees and calls. *)
LEMMA NullJoined ==
    ASSUME NEW T, NEW a \in Seq(T), NEW b \in Seq(T)
    PROVE  HasNull(a \o b) <=> HasNull(a) \/ HasNull(b)
<1> DEFINE c == a \o b
<1>1. /\ Len(a) \in Nat /\ Len(b) \in Nat /\ DOMAIN a = 1..Len(a) /\ DOMAIN b = 1..Len(b)
      /\ DOMAIN c = 1..(Len(a) + Len(b))
      /\ \A n \in 1..(Len(a) + Len(b)) : c[n] = IF n <= Len(a) THEN a[n] ELSE b[n - Len(a)]
      OBVIOUS
<1> HIDE DEF c
<1>2. \A n \in 1..Len(a) : n \in DOMAIN c /\ c[n] = a[n]
      BY <1>1
<1>3. ASSUME NEW n \in 1..Len(b)
      PROVE  \E m \in DOMAIN c : c[m] = b[n]
  <2>1. Len(a) + n \in 1..(Len(a) + Len(b)) /\ ~(Len(a) + n <= Len(a)) /\ (Len(a) + n) - Len(a) = n
        BY <1>1
  <2> QED BY <1>1, <2>1
<1>4. ASSUME NEW m \in DOMAIN c
      PROVE  (\E n \in DOMAIN a : c[m] = a[n]) \/ (\E n \in DOMAIN b : c[m] = b[n])
  <2>1. CASE m <= Len(a)
        BY <1>1, <1>4, <2>1
  <2>2. CASE ~(m <= Len(a))
    <3>1. m - Len(a) \in DOMAIN b /\ c[m] = b[m - Len(a)]
          BY <1>1, <1>4, <2>2
    <3> QED BY <3>1
  <2> QED BY <2>1, <2>2
<1>5. HasNull(c) <=> HasNull(a) \/ HasNull(b)
      BY <1>1, <1>2, <1>3, <1>4 DEF HasNull, Range
<1> QED BY <1>5 DEF c

LEMMA NullAlone ==
    ASSUME NEW node
    PROVE  HasNull(<<node>>) <=> node = Null
BY DEF HasNull, Range

LEMMA NodesTyped ==
    ASSUME NEW t \in Token, NEW n \in Nat
    PROVE  /\ Number(t) \in Node /\ Number(t) # Null
           /\ Variable(t) \in Node /\ Variable(t) # Null
           /\ Call(t, n) \in Node /\ Call(t, n) # Null
           /\ Null \in Node
<1>1. Number(t).node = "number" /\ Variable(t).node = "variable" /\ Call(t, n).node = "call" /\ Null.node = "null"
      BY DEF Number, Variable, Call, Null
<1> QED BY <1>1 DEF Node, Number, Variable, Call

LEMMA LastCall ==
    ASSUME NEW T, NEW calls \in Seq(T), calls # << >>
    PROVE  /\ Len(calls) \in Nat \ {0} /\ DOMAIN calls = 1..Len(calls)
           /\ Last(calls) = calls[Len(calls)] /\ Last(calls) \in T
           /\ Front(calls) \in Seq(T) /\ Len(Front(calls)) + 1 = Len(calls)
           /\ DOMAIN Front(calls) = {n \in DOMAIN calls : n # Len(calls)}
           /\ \A n \in DOMAIN Front(calls) : Front(calls)[n] = calls[n]
<1>1. Len(calls) \in Nat \ {0} /\ DOMAIN calls = 1..Len(calls)
      OBVIOUS
<1>2. Last(calls) = calls[Len(calls)] /\ Last(calls) \in T
      BY <1>1 DEF Last
<1> DEFINE k == Len(calls) - 1
<1>3. k \in Nat /\ k <= Len(calls) /\ k + 1 = Len(calls) /\ 1..k = {n \in 1..Len(calls) : n # Len(calls)}
      BY <1>1
<1>4. Front(calls) = SubSeq(calls, 1, k)
      BY DEF Front
<1> HIDE DEF k
<1>5. /\ Front(calls) \in Seq(T) /\ Len(Front(calls)) = k /\ DOMAIN Front(calls) = 1..k
      /\ \A n \in 1..k : Front(calls)[n] = calls[n]
      BY <1>3, <1>4
<1> QED BY <1>1, <1>2, <1>3, <1>5

(* Within a statement. *)
LEMMA WithinStatement ==
    ASSUME Inv, Parsing
    PROVE  /\ pc # "read" /\ statement <= Len(Stmts) /\ ~LacksEquals(S)
           /\ S \in Seq(Token) /\ Len(S) \in Nat
           /\ Position \in Nat /\ Position <= Len(S) + 1
           /\ frames \in Seq(Frame) /\ value \in Tree /\ target \in Token
           /\ statement \in errors <=> NullSoFar
           /\ Len(frames) \in Nat
           /\ frames # << >> => Unbalanced(Position, Len(frames))
<1>1. statement <= Len(Stmts) /\ Position <= Len(S) + 1
      BY DEF Inv, Placed
<1>2. S \in Seq(Token) /\ Len(S) \in Nat
      BY <1>1, StatementTokens DEF Inv
<1>3. frames \in Seq(Frame) /\ value \in Tree /\ target \in Token /\ Position \in Nat
      BY DEF Inv, Typed
<1>4. Len(frames) \in Nat
      BY <1>3
<1> QED BY <1>1, <1>2, <1>3, <1>4 DEF Inv, Parsing, Marked, Kept, Balanced

LEMMA BalancedLater ==
    ASSUME S' = S, pc' # "expression", frames' # << >> => Unbalanced(Position', Len(frames'))
    PROVE  Balanced'
<1>1. frames' # << >> => Unbalanced(Position, Len(frames))'
      BY DEF Unbalanced
<1> QED BY <1>1 DEF Balanced

(* A leaf, a number or a variable, takes a token that is no parenthesis of  *)
(* a call around it.                                                        *)
LEMMA LeafStep ==
    ASSUME Inv, pc = "expression", NEW node \in Node, node # Null,
           Position + 1 <= Len(S) + 1,
           Continue(Position + 1, "returned"), value' = <<node>>, UNCHANGED <<target, frames, errors>>
    PROVE  Inv'
<1> DEFINE k == Position + 1
<1>1. Parsing
      BY DEF Parsing
<1>2. S' = S /\ Position' = k /\ pc' = "returned" /\ statement' = statement
      BY Continued DEF Inv
<1>3. k \in Nat /\ k = Position + 1 /\ k <= Len(S) + 1 /\ Continue(k, "returned")
      BY <1>1, WithinStatement
<1> HIDE DEF k
<1>4. Balanced'
  <2>1. frames # << >> => Unbalanced(k, Len(frames))
        BY <1>1, <1>3, WithinStatement, UnbalancedNext DEF Inv, Balanced
  <2> QED BY <1>2, <2>1, BalancedLater
<1>5. value' \in Tree /\ value' # << >> /\ ~HasNull(value')
      BY NullAlone DEF Tree
<1>6. statement \in errors' <=> NullSoFar'
  <2>1. NullSoFar' <=> \E n \in DOMAIN frames : HasNull(frames[n].tree)
        BY <1>5 DEF NullSoFar, HasNull
  <2>2. NullSoFar <=> \E n \in DOMAIN frames : HasNull(frames[n].tree)
        BY DEF NullSoFar
  <2> QED BY <1>1, <2>1, <2>2, WithinStatement
<1>7. target' \in Token /\ frames' \in Seq(Frame)
      BY <1>1, WithinStatement
<1> QED BY <1>1, <1>3, <1>4, <1>5, <1>6, <1>7, WithinStatement, StepWithin

LEMMA ParseNumberStep ==
    ASSUME Inv, ParseNumber
    PROVE  Inv'
<1>1. Parsing /\ pc = "expression"
      BY DEF Parsing, ParseNumber
<1>2. Peek(Position) \in Token /\ Position < Len(S)
      BY <1>1, WithinStatement, PeekIs, TokensDiffer DEF ParseNumber
<1>3. Number(Peek(Position)) \in Node /\ Number(Peek(Position)) # Null
  <2>1. 0 \in Nat
        OBVIOUS
  <2> QED BY <1>2, <2>1, NodesTyped
<1>4. Position + 1 <= Len(S) + 1
      BY <1>1, <1>2, WithinStatement
<1> QED BY <1>1, <1>3, <1>4, LeafStep DEF ParseNumber

LEMMA ParseVariableStep ==
    ASSUME Inv, ParseVariable
    PROVE  Inv'
<1>1. Parsing /\ pc = "expression"
      BY DEF Parsing, ParseVariable
<1>2. Peek(Position) \in Token
      BY <1>1, WithinStatement, PeekIs
<1>3. ~(LastPeek > Len(S))
      BY Continued DEF Inv, ParseVariable
<1>4. Position + 1 <= Len(S) + 1
  <2>1. Position > Len(S) => LastPeek = Position
        BY <1>1 DEF LastPeek, Assigns, Throws
  <2> QED BY <1>1, <1>3, <2>1, WithinStatement
<1>5. Variable(Peek(Position)) \in Node /\ Variable(Peek(Position)) # Null
  <2>1. 0 \in Nat
        OBVIOUS
  <2> QED BY <1>2, <2>1, NodesTyped
<1> QED BY <1>1, <1>4, <1>5, LeafStep DEF ParseVariable

LEMMA EnterCallStep ==
    ASSUME Inv, EnterCall
    PROVE  Inv'
<1> DEFINE k == Position + 1
           l == k + 1
           call == [callee |-> Peek(Position), tree |-> << >>, args |-> 0]
<1>1. Parsing /\ pc = "expression"
      BY DEF Parsing, EnterCall
<1>2. k \in Nat /\ k = Position + 1 /\ l \in Nat /\ l = k + 1 /\ l = Position + 2
      BY <1>1, WithinStatement
<1>3. Continue(l, "arguments") /\ Peek(k) = Open /\ frames' = Append(frames, call)
      BY <1>2 DEF EnterCall
<1> HIDE DEF k, l
<1>4. S' = S /\ Position' = l /\ pc' = "arguments" /\ statement' = statement
      BY <1>3, Continued DEF Inv
<1>5. l <= Len(S) + 1
  <2>1. k < Len(S)
        BY <1>1, <1>2, <1>3, WithinStatement, PeekIs, TokensDiffer
  <2> QED BY <1>1, <1>2, <2>1, WithinStatement
<1>6. call \in Frame
      BY <1>1, WithinStatement, PeekIs DEF Frame, Tree
<1>7. /\ frames' \in Seq(Frame) /\ frames' # << >> /\ Len(frames') = Len(frames) + 1
      /\ DOMAIN frames' = DOMAIN frames \cup {Len(frames) + 1}
      /\ frames'[Len(frames) + 1] = call /\ \A n \in DOMAIN frames : frames'[n] = frames[n]
  <2> HIDE DEF call
  <2> QED BY <1>1, <1>3, <1>6, WithinStatement
<1>8. Balanced'
  <2>1. CASE frames = << >>
    <3>1. Unbalanced(l, 1) /\ Len(frames') = 1
          BY <1>1, <1>2, <1>3, <1>7, <2>1, WithinStatement, UnbalancedFirst
    <3> QED BY <1>4, <3>1, BalancedLater
  <2>2. CASE frames # << >>
    <3>1. Unbalanced(k, Len(frames))
          BY <1>1, <1>2, <2>2, WithinStatement, UnbalancedNext DEF Inv, Balanced
    <3>2. Unbalanced(l, Len(frames) + 1)
          BY <1>1, <1>2, <1>3, <3>1, WithinStatement, UnbalancedNext
    <3> QED BY <1>4, <1>7, <3>2, BalancedLater
  <2> QED BY <2>1, <2>2
<1>9. statement \in errors' <=> NullSoFar'
  <2>1. ~HasNull(call.tree)
        BY DEF HasNull, Range
  <2>2. NullSoFar' <=> \E n \in DOMAIN frames' : HasNull(frames'[n].tree)
        BY <1>4 DEF NullSoFar, HasNull
  <2>3. (\E n \in DOMAIN frames' : HasNull(frames'[n].tree)) <=> \E n \in DOMAIN frames : HasNull(frames[n].tree)
    <3> HIDE DEF call
    <3> QED BY <1>7, <2>1
  <2>4. NullSoFar <=> \E n \in DOMAIN frames : HasNull(frames[n].tree)
        BY <1>1 DEF NullSoFar
  <2> QED BY <1>1, <2>2, <2>3, <2>4, WithinStatement DEF EnterCall
<1>10. target' \in Token /\ value' \in Tree /\ errors' = errors
       BY <1>1, WithinStatement DEF EnterCall
<1> QED BY <1>1, <1>2, <1>3, <1>5, <1>7, <1>8, <1>9, <1>10, WithinStatement, StepWithin

LEMMA NextArgumentStep ==
    ASSUME Inv, NextArgument
    PROVE  Inv'
<1>1. Parsing /\ pc = "arguments" /\ frames # << >>
      BY DEF Parsing, NextArgument, Inv, Placed
<1>2. Continue(Position, "expression")
      BY DEF NextArgument
<1>3. S' = S /\ Position' = Position /\ pc' = "expression" /\ statement' = statement
      BY <1>2, Continued DEF Inv
<1>4. frames' = frames /\ value' = value /\ target' = target /\ errors' = errors
      BY DEF NextArgument
<1>5. Balanced'
  <2>1. Unbalanced(Position, Len(frames))'
        BY <1>1, <1>3, <1>4, WithinStatement DEF Unbalanced
  <2>2. (Peek(Position) # Close)'
        BY <1>3 DEF NextArgument, Peek
  <2> QED BY <1>1, <1>4, <2>1, <2>2 DEF Balanced
<1>6. statement \in errors' <=> NullSoFar'
      BY <1>1, <1>3, <1>4, WithinStatement DEF NullSoFar, HasNull
<1> QED BY <1>1, <1>2, <1>4, <1>5, <1>6, WithinStatement, StepWithin

LEMMA CloseCallStep ==
    ASSUME Inv, CloseCall
    PROVE  Inv'
<1> DEFINE k == Position + 1
           call == Last(frames)
           node == Call(call.callee, call.args)
<1>1. Parsing /\ pc = "arguments" /\ frames # << >>
      BY DEF Parsing, CloseCall, EndCall, Inv, Placed
<1>2. /\ k \in Nat /\ k = Position + 1 /\ Continue(k, "returned") /\ Peek(Position) = Close
      /\ value' = call.tree \o <<node>> /\ frames' = Front(frames)
      /\ target' = target /\ errors' = errors
      BY <1>1, WithinStatement DEF CloseCall, EndCall
<1> HIDE DEF k
<1>3. S' = S /\ Position' = k /\ pc' = "returned" /\ statement' = statement
      BY <1>2, Continued DEF Inv
<1>4. k <= Len(S) + 1
  <2>1. Position < Len(S)
        BY <1>1, <1>2, WithinStatement, PeekIs, TokensDiffer
  <2> QED BY <1>1, <1>2, <2>1, WithinStatement
<1>5. /\ Len(frames) \in Nat \ {0} /\ Len(frames) \in DOMAIN frames
      /\ call \in Frame /\ call = frames[Len(frames)]
      /\ frames' \in Seq(Frame) /\ Len(frames') + 1 = Len(frames) /\ Len(frames') \in Nat
      /\ DOMAIN frames' = {n \in DOMAIN frames : n # Len(frames)}
      /\ \A n \in DOMAIN frames' : frames'[n] = frames[n]
  <2>1. frames \in Seq(Frame) /\ frames # << >>
        BY <1>1, WithinStatement
  <2>2. /\ Len(frames) \in Nat \ {0} /\ DOMAIN frames = 1..Len(frames)
        /\ Last(frames) = frames[Len(frames)] /\ Last(frames) \in Frame
        /\ Front(frames) \in Seq(Frame) /\ Len(Front(frames)) + 1 = Len(frames)
        /\ DOMAIN Front(frames) = {n \in DOMAIN frames : n # Len(frames)}
        /\ \A n \in DOMAIN Front(frames) : Front(frames)[n] = frames[n]
    <3> HIDE DEF call, node
    <3> QED BY <2>1, LastCall
  <2>3. /\ frames' \in Seq(Frame) /\ Len(frames') + 1 = Len(frames)
        /\ DOMAIN frames' = {n \in DOMAIN frames : n # Len(frames)}
        BY <1>2, <2>2
  <2>4. Len(frames') \in Nat
        BY <2>3
  <2>5. \A n \in DOMAIN frames' : frames'[n] = frames[n]
        BY <1>2, <2>2
  <2>6. call \in Frame /\ call = frames[Len(frames)]
        BY <2>2
  <2>7. Len(frames) \in DOMAIN frames
        BY <2>2
  <2> QED BY <2>2, <2>3, <2>4, <2>5, <2>6, <2>7
<1>6. call.tree \in Tree /\ node \in Node /\ node # Null
      BY <1>5, NodesTyped DEF Frame
<1> HIDE DEF call, node
<1>7. value' \in Tree /\ value' # << >> /\ (HasNull(value') <=> HasNull(call.tree))
  <2>1. <<node>> \in Seq(Node) /\ call.tree \in Seq(Node) /\ Len(<<node>>) = 1
        BY <1>6 DEF Tree
  <2>2. value' \in Seq(Node) /\ Len(value') = Len(call.tree) + 1 /\ Len(call.tree) \in Nat
        BY <1>2, <2>1
  <2>3. HasNull(value') <=> HasNull(call.tree)
        BY <1>2, <1>6, <2>1, NullJoined, NullAlone
  <2> QED BY <2>2, <2>3 DEF Tree
<1>8. Balanced'
  <2>1. Unbalanced(k, Len(frames'))
        BY <1>1, <1>2, <1>5, WithinStatement, UnbalancedNext
  <2> QED BY <1>3, <2>1, BalancedLater
<1>9. statement \in errors' <=> NullSoFar'
  <2>1. NullSoFar <=> \E n \in DOMAIN frames : HasNull(frames[n].tree)
        BY <1>1 DEF NullSoFar
  <2>2. NullSoFar' <=> (\E n \in DOMAIN frames' : HasNull(frames'[n].tree)) \/ HasNull(value')
        BY <1>3 DEF NullSoFar, HasNull
  <2>3. NullSoFar <=> NullSoFar'
        BY <1>5, <1>7, <2>1, <2>2
  <2> QED BY <1>1, <1>2, <2>3, WithinStatement
<1>10. target' \in Token
       BY <1>1, <1>2, WithinStatement
<1> QED BY <1>1, <1>2, <1>4, <1>5, <1>7, <1>8, <1>9, <1>10, WithinStatement, StepWithin

LEMMA TakeArgumentStep ==
    ASSUME Inv, TakeArgument
    PROVE  Inv'
<1> DEFINE k == Position + (IF Peek(Position) = Comma THEN 1 ELSE 0)
           last == Len(frames)
           call == frames[last]
           longer == [callee |-> call.callee, tree |-> call.tree \o value, args |-> call.args + 1]
<1>1. Parsing /\ pc = "returned" /\ frames # << >>
      BY DEF Parsing, TakeArgument
<1>2. /\ Continue(k, "arguments") /\ frames' = PushArg /\ Peek(Position) \in {Close, Comma}
      /\ target' = target /\ value' = value /\ errors' = errors
      BY DEF TakeArgument
<1>3. last \in Nat \ {0} /\ last \in DOMAIN frames /\ call \in Frame /\ DOMAIN frames = 1..last
      BY <1>1, WithinStatement, LastCall
<1>4. call.tree \in Tree /\ call.args \in Nat /\ call.callee \in Token /\ value \in Tree
      BY <1>1, <1>3, WithinStatement DEF Frame
<1>5. longer \in Frame /\ longer.tree = call.tree \o value
  <2>1. call.tree \o value \in Tree /\ call.args + 1 \in Nat
        BY <1>4 DEF Tree
  <2> QED BY <1>4, <2>1 DEF Frame
<1>6. frames' = [frames EXCEPT ![last] = longer]
      BY <1>2, <1>3 DEF PushArg
<1> HIDE DEF longer, call
<1>7. /\ frames' \in Seq(Frame) /\ frames' # << >> /\ Len(frames') = last
      /\ DOMAIN frames' = DOMAIN frames /\ frames'[last] = longer
      /\ \A n \in DOMAIN frames : n # last => frames'[n] = frames[n]
      BY <1>1, <1>3, <1>5, <1>6, WithinStatement
<1>8. S' = S /\ Position' = k /\ pc' = "arguments" /\ statement' = statement
      BY <1>2, Continued DEF Inv
<1>9. k \in Nat /\ k <= Len(S) + 1
  <2>1. Position < Len(S)
        BY <1>1, <1>2, WithinStatement, PeekIs, TokensDiffer
  <2> QED BY <1>1, <2>1, WithinStatement
<1>10. Balanced'
  <2>1. CASE Peek(Position) = Comma
    <3> DEFINE p == Position + 1
    <3>1. p = Position + 1 /\ k = p /\ Peek(Position) # Close
          BY <2>1, TokensDiffer
    <3> HIDE DEF p, k
    <3>2. Unbalanced(p, last)
          BY <1>1, <3>1, WithinStatement, UnbalancedNext
    <3> QED BY <1>7, <1>8, <3>1, <3>2, BalancedLater
  <2>2. CASE Peek(Position) # Comma
    <3>1. k = Position
          BY <1>1, <2>2, WithinStatement
    <3>2. Unbalanced(k, last)
          BY <1>1, <3>1, WithinStatement
    <3> HIDE DEF k
    <3> QED BY <1>7, <1>8, <3>2, BalancedLater
  <2> QED BY <2>1, <2>2
<1>11. statement \in errors' <=> NullSoFar'
  <2>1. NullSoFar <=> (\E n \in DOMAIN frames : HasNull(frames[n].tree)) \/ HasNull(value)
        BY <1>1 DEF NullSoFar
  <2>2. NullSoFar' <=> \E n \in DOMAIN frames' : HasNull(frames'[n].tree)
        BY <1>8 DEF NullSoFar, HasNull
  <2>3. HasNull(longer.tree) <=> HasNull(frames[last].tree) \/ HasNull(value)
    <3>1. frames[last] = call
          BY DEF call
    <3> QED BY <1>4, <1>5, <3>1, NullJoined DEF Tree
  <2>4. NullSoFar <=> NullSoFar'
        BY <1>3, <1>7, <2>1, <2>2, <2>3
  <2> QED BY <1>1, <1>2, <2>4, <1>8, WithinStatement
<1>12. target' \in Token /\ value' \in Tree
       BY <1>1, <1>2, WithinStatement
<1> HIDE DEF k
<1> QED BY <1>1, <1>2, <1>7, <1>9, <1>10, <1>11, <1>12, WithinStatement, StepWithin

LEMMA FailCallStep ==
    ASSUME Inv, FailCall
    PROVE  Inv'
<1> DEFINE k == Position + 1
           depth == Len(frames')
<1>1. Parsing /\ pc = "returned" /\ frames # << >>
      BY DEF Parsing, FailCall, EatError
<1>2. /\ k \in Nat /\ k = Position + 1 /\ Continue(k, "returned") /\ frames' = Front(frames)
      /\ value' = <<Null>> /\ errors' = errors \cup {statement} /\ target' = target
      BY <1>1, WithinStatement DEF FailCall, EatError
<1>3. k <= Len(S) + 1
  <2>1. ~(LastPeek > Len(S))
        BY <1>2, Continued DEF Inv
  <2>2. LastPeek = Position
        BY <1>1 DEF LastPeek, Assigns
  <2> QED BY <1>1, <2>1, <2>2, WithinStatement
<1> HIDE DEF k
<1>4. S' = S /\ Position' = k /\ pc' = "returned" /\ statement' = statement
      BY <1>2, Continued DEF Inv
<1>5. frames' \in Seq(Frame) /\ depth \in Nat /\ depth + 1 = Len(frames)
  <2>1. Front(frames) \in Seq(Frame) /\ Len(Front(frames)) + 1 = Len(frames)
        BY <1>1, WithinStatement, LastCall
  <2> QED BY <1>2, <2>1
<1>6. Balanced'
  <2> HIDE DEF depth
  <2>1. Unbalanced(k, depth)
        BY <1>1, <1>2, <1>5, WithinStatement, UnbalancedNext
  <2> QED BY <1>4, <2>1, BalancedLater DEF depth
<1>7. value' \in Tree /\ value' # << >> /\ HasNull(value')
  <2>1. HasNull(<<Null>>)
        BY NullAlone
  <2>2. <<Null>> \in Tree
        BY DEF Tree, Node
  <2> QED BY <1>2, <2>1, <2>2
<1>8. statement \in errors' <=> NullSoFar'
  <2>1. NullSoFar'
        BY <1>4, <1>7 DEF NullSoFar, HasNull
  <2> QED BY <1>2, <2>1
<1>9. target' \in Token
      BY <1>1, <1>2, WithinStatement
<1> QED BY <1>1, <1>2, <1>3, <1>5, <1>6, <1>7, <1>8, <1>9, WithinStatement, StepWithin
-----------------------------------------------------------------------------
(* The end of a statement. *)
KeptStatements == {k \in DOMAIN Stmts : ~LacksEquals(Stmts[k])}
Origins        == [n \in DOMAIN ParsedStmts |-> ParsedStmts[n].from]

LEMMA OriginsTyped ==
    ASSUME Inv
    PROVE  /\ \A n \in DOMAIN ParsedStmts : ParsedStmts[n].from \in Nat
           /\ Origins \in Seq(Nat) /\ Len(Origins) = Len(ParsedStmts)
           /\ \A n \in 1..Len(ParsedStmts) : Origins[n] = ParsedStmts[n].from
<1> DEFINE T == [name : Token, value : Tree, from : Nat, to : Nat]
<1>1. ParsedStmts \in Seq(T)
      BY DEF Inv, Typed
<1>2. \A p \in T : p.from \in Nat
      OBVIOUS
<1> HIDE DEF T
<1>3. /\ Len(ParsedStmts) \in Nat /\ DOMAIN ParsedStmts = 1..Len(ParsedStmts)
      /\ \A n \in DOMAIN ParsedStmts : ParsedStmts[n] \in T
      BY <1>1
<1>4. \A n \in DOMAIN ParsedStmts : ParsedStmts[n].from \in Nat
      BY <1>2, <1>3
<1>5. Origins \in [1..Len(ParsedStmts) -> Nat]
      BY <1>3, <1>4 DEF Origins
<1>6. Origins \in Seq(Nat) /\ Len(Origins) = Len(ParsedStmts)
      BY <1>3, <1>5
<1> QED BY <1>3, <1>4, <1>6 DEF Origins

LEMMA OriginsNext ==
    ASSUME Inv, pc # "read", statement <= Len(Stmts)
    PROVE  /\ LacksEquals(S) => InOrder(KeptStatements, statement) = Origins
           /\ ~LacksEquals(S) => InOrder(KeptStatements, statement) = Append(Origins, statement)
<1> DEFINE n == statement - 1
<1>1. statement \in Nat \ {0} /\ Stmts \in Seq(Seq(Token))
      BY DEF Inv, Typed
<1>2. n \in Nat /\ statement = n + 1 /\ statement \in DOMAIN Stmts
      BY <1>1
<1>3. InOrder(KeptStatements, n) = Origins
      BY DEF Inv, Kept, OnlyAssignmentsLost, KeptStatements, Origins
<1> HIDE DEF n
<1>4. InOrder(KeptStatements, statement) = KeepStep(KeptStatements, InOrder(KeptStatements, n), statement)
      BY ONLY <1>2, InOrderNext
<1>5. statement \in KeptStatements <=> ~LacksEquals(S)
      BY <1>2 DEF KeptStatements, S
<1> QED BY <1>3, <1>4, <1>5 DEF KeepStep

LEMMA SkipAssignStep ==
    ASSUME Inv, SkipAssign
    PROVE  Inv'
<1>1. /\ pc = "statement" /\ statement <= Len(Stmts) /\ pc' = pc /\ statement' = statement + 1
      /\ UNCHANGED <<text, source, Tokens, Stmts, Position, target, frames, value, ParsedStmts, errors>>
      BY DEF SkipAssign, LacksSign, InStatement
<1>2. S \in Seq(Token) /\ Len(S) \in Nat
      BY <1>1, StatementTokens DEF Inv
<1>3. LacksEquals(S)
  <2>1. Assigns /\ ~(LastPeek > Len(S)) /\ Peek(2) # Equals
        BY DEF SkipAssign, LacksSign, Throws
  <2>2. Len(S) >= 2 /\ S[1] = AssignWord
        BY <1>2, <2>1 DEF LastPeek, Assigns
  <2>3. 2 < Len(S) => S[3] # Equals
        BY <2>1 DEF Peek
  <2>4. Len(S) = 2 \/ 2 < Len(S)
    <3> DEFINE len == Len(S)
    <3>1. len \in Nat /\ len >= 2
          BY <1>2, <2>2
    <3> HIDE DEF len
    <3>2. len = 2 \/ 2 < len
          BY <3>1
    <3> QED BY <3>2 DEF len
  <2>5. Len(S) = 2 \/ S[3] # Equals
        BY <2>3, <2>4
  <2> QED BY <2>2, <2>5, Zenon DEF LacksEquals
<1>4. Typed'
  <2>1. Token' = Token /\ Node' = Node
        BY <1>1 DEF Token, Node, Null
  <2>2. Tree' = Tree /\ Frame' = Frame
        BY <2>1 DEF Tree, Frame
  <2> QED BY <1>1, <2>1, <2>2 DEF Inv, Typed
<1>5. Placed'
  <2>1. statement \in Nat
        BY DEF Inv, Typed
  <2>2. ParsedStmts \in Seq([name : Token, value : Tree, from : Nat, to : Nat]) /\ errors \subseteq Nat /\ Len(Stmts) \in Nat
        BY DEF Inv, Typed
  <2>3. \A n \in DOMAIN ParsedStmts' : ParsedStmts'[n].value # << >> /\ ParsedStmts'[n].from < statement'
    <3>1. \A n \in DOMAIN ParsedStmts : ParsedStmts[n].from \in Nat
          BY OriginsTyped
    <3> QED BY <1>1, <2>1, <3>1 DEF Inv, Placed
  <2>4. \A k \in errors' : k <= Len(Stmts') /\ k <= statement' /\ (pc' = "statement" => k # statement')
        BY <1>1, <2>1, <2>2 DEF Inv, Placed
  <2>5. statement' <= Len(Stmts') + 1
        BY <1>1, <2>1, <2>2
  <2> QED BY <1>1, <2>3, <2>4, <2>5 DEF Inv, Placed, Parsing
<1>6. Marked'
      BY <1>1 DEF Inv, Marked, ErrorsMarked, HasNull, Parsing
<1>7. Kept'
  <2>1. statement' - 1 = statement
        BY <1>1 DEF Inv, Typed
  <2>2. KeptStatements' = KeptStatements /\ Origins' = Origins
        BY <1>1 DEF KeptStatements, Origins
  <2>3. Origins' = InOrder(KeptStatements', statement' - 1)
        BY <1>1, <1>3, <2>1, <2>2, OriginsNext
  <2> QED BY <1>1, <2>3 DEF Kept, OnlyAssignmentsLost, Parsing, KeptStatements, Origins
<1>8. Balanced' /\ AbortsOnlyUnfinished'
      BY <1>1 DEF Balanced, Parsing, AbortsOnlyUnfinished
<1> QED BY <1>4, <1>5, <1>6, <1>7, <1>8 DEF Inv

LEMMA AppendedTo ==
    ASSUME NEW T, NEW s \in Seq(T), NEW x, NEW t, t = Append(s, x)
    PROVE  /\ Len(s) \in Nat /\ DOMAIN s = 1..Len(s) /\ DOMAIN t = 1..(Len(s) + 1)
           /\ t[Len(s) + 1] = x
           /\ \A n \in 1..Len(s) : t[n] = s[n]
OBVIOUS

LEMMA FinishStatementStep ==
    ASSUME Inv, FinishStatement
    PROVE  Inv'
<1>1. /\ Parsing /\ pc = "returned" /\ frames = << >>
      /\ ParsedStmts' = Append(ParsedStmts, Statement) /\ statement' = statement + 1 /\ pc' = "statement"
      /\ UNCHANGED <<text, source, Tokens, Stmts, Position, target, frames, value, errors>>
      BY DEF FinishStatement, Finish, Parsing
<1>2. /\ statement <= Len(Stmts) /\ ~LacksEquals(S) /\ pc # "read" /\ value \in Tree /\ value # << >>
      /\ target \in Token /\ Position \in Nat /\ statement \in Nat \ {0}
      /\ Stmts \in Seq(Seq(Token)) /\ errors \subseteq Nat
      BY <1>1, WithinStatement DEF Inv, Placed, Typed
<1> DEFINE Parsedly == [name : Token, value : Tree, from : Nat, to : Nat]
           last == Len(ParsedStmts) + 1
<1>3. ParsedStmts \in Seq(Parsedly) /\ Statement \in Parsedly
      BY <1>2 DEF Inv, Typed, Statement
<1>4. Statement.value = value /\ Statement.from = statement
      BY DEF Statement
<1>5. /\ Len(ParsedStmts) \in Nat /\ DOMAIN ParsedStmts = 1..Len(ParsedStmts) /\ DOMAIN ParsedStmts' = 1..last
      /\ ParsedStmts'[last] = Statement
      /\ \A n \in 1..Len(ParsedStmts) : ParsedStmts'[n] = ParsedStmts[n]
  <2> HIDE DEF Parsedly
  <2> QED BY <1>1, <1>3, AppendedTo
<1>6. \A n \in DOMAIN ParsedStmts' : n = last \/ (n \in DOMAIN ParsedStmts /\ ParsedStmts'[n] = ParsedStmts[n])
      BY <1>5
<1>7. Typed'
  <2>1. Token' = Token /\ Node' = Node
        BY <1>1 DEF Token, Node, Null
  <2>2. Tree' = Tree /\ Frame' = Frame
        BY <2>1 DEF Tree, Frame
  <2>3. ParsedStmts' \in Seq(Parsedly)
    <3> HIDE DEF Parsedly
    <3> QED BY <1>1, <1>3
  <2>4. statement' \in Nat \ {0}
        BY <1>1, <1>2
  <2> HIDE DEF last
  <2> QED BY <1>1, <2>1, <2>2, <2>3, <2>4 DEF Inv, Typed
<1> HIDE DEF Parsedly
<1>8. Placed'
  <2>1. \A n \in DOMAIN ParsedStmts' : ParsedStmts'[n].value # << >> /\ ParsedStmts'[n].from < statement'
    <3>1. \A n \in DOMAIN ParsedStmts : ParsedStmts[n].from \in Nat
          BY OriginsTyped
    <3>2. \A n \in DOMAIN ParsedStmts : ParsedStmts[n].value # << >> /\ ParsedStmts[n].from < statement'
          BY <1>1, <1>2, <3>1 DEF Inv, Placed
    <3>3. ParsedStmts'[last].value # << >> /\ ParsedStmts'[last].from < statement'
          BY <1>1, <1>2, <1>4, <1>5
    <3> HIDE DEF last
    <3> QED BY <1>6, <3>2, <3>3
  <2>2. \A k \in errors' : k <= Len(Stmts') /\ k <= statement' /\ (pc' = "statement" => k # statement')
        BY <1>1, <1>2 DEF Inv, Placed
  <2>3. statement' <= Len(Stmts') + 1
        BY <1>1, <1>2
  <2> HIDE DEF last
  <2> QED BY <1>1, <2>1, <2>2, <2>3 DEF Placed, Parsing
<1>9. Marked'
  <2>1. HasNull(value) <=> statement \in errors
    <3>1. NullSoFar <=> HasNull(value)
          BY <1>1 DEF NullSoFar
    <3> QED BY <1>1, <3>1, WithinStatement
  <2>2. \A n \in DOMAIN ParsedStmts : HasNull(ParsedStmts[n].value) <=> ParsedStmts[n].from \in errors
        BY DEF Inv, Marked, ErrorsMarked
  <2> HIDE DEF last
  <2>3. \A n \in DOMAIN ParsedStmts' : HasNull(ParsedStmts'[n].value) <=> ParsedStmts'[n].from \in errors
        BY <1>4, <1>5, <1>6, <2>1, <2>2
  <2> QED BY <1>1, <2>3 DEF Marked, ErrorsMarked, HasNull, Parsing
<1>10. Kept'
  <2>1. statement' - 1 = statement
        BY <1>1, <1>2
  <2>2. KeptStatements' = KeptStatements
        BY <1>1 DEF KeptStatements
  <2>3. Origins' = Append(Origins, statement)
    <3> DEFINE longer == Append(Origins, statement)
    <3>1. /\ longer \in Seq(Nat) /\ Len(longer) = last /\ longer[last] = statement
          /\ \A n \in 1..Len(ParsedStmts) : longer[n] = ParsedStmts[n].from
      <4>1. Origins \in Seq(Nat) /\ statement \in Nat
            BY <1>2, OriginsTyped
      <4> QED BY <1>5, <4>1, OriginsTyped, AppendedTo
    <3> HIDE DEF longer
    <3>2. last \in Nat /\ longer \in [1..last -> Nat]
          BY <1>5, <3>1
    <3>3. \A n \in 1..last : longer[n] = ParsedStmts'[n].from
          BY <1>4, <1>5, <1>6, <3>1
    <3>4. Origins' = [n \in 1..last |-> ParsedStmts'[n].from]
          BY <1>5 DEF Origins
    <3> HIDE DEF last
    <3>5. longer = [n \in 1..last |-> longer[n]]
          BY <3>2
    <3>6. Origins' = longer
          BY <3>3, <3>4, <3>5
    <3> QED BY <3>6 DEF longer
  <2>4. Origins' = InOrder(KeptStatements', statement' - 1)
        BY <1>2, <2>1, <2>2, <2>3, OriginsNext
  <2> HIDE DEF last
  <2> QED BY <1>1, <2>4 DEF Kept, OnlyAssignmentsLost, Parsing, KeptStatements, Origins
<1>11. Balanced' /\ AbortsOnlyUnfinished'
       BY <1>1 DEF Balanced, Parsing, AbortsOnlyUnfinished
<1> QED BY <1>7, <1>8, <1>9, <1>10, <1>11 DEF Inv
-----------------------------------------------------------------------------
(* The ends of the parser. *)
LEMMA AbortStep ==
    ASSUME Inv, pc # "read", NEW how \in {"assert", "out_of_range"}, Abort(how),
           how = "assert" => S = << >>,
           how = "out_of_range" => Unclosed(S) \/ WithoutExpression(S)
    PROVE  Inv'
<1>1. pc' = how
      BY DEF Abort
<1>2. /\ text' = text /\ Stmts' = Stmts /\ statement' = statement /\ Position' = Position
      /\ target' = target /\ frames' = frames /\ value' = value /\ ParsedStmts' = ParsedStmts
      /\ errors' = errors
      BY DEF Abort
<1>3. S' = S /\ Token' = Token
      BY <1>2 DEF S, Token
<1>4. Typed'
  <2>1. Node' = Node
        BY <1>3 DEF Node, Null
  <2>2. Tree' = Tree /\ Frame' = Frame
        BY <1>3, <2>1 DEF Tree, Frame
  <2> QED BY <1>1, <1>2, <1>3, <2>2 DEF Inv, Typed
<1>5. Placed'
      BY <1>1, <1>2, <1>3 DEF Inv, Placed, Parsing
<1>6. Marked'
      BY <1>1, <1>2 DEF Inv, Marked, ErrorsMarked, HasNull, Parsing
<1>7. Kept'
      BY <1>1, <1>2 DEF Inv, Kept, OnlyAssignmentsLost, Parsing
<1>8. Balanced' /\ AbortsOnlyUnfinished'
      BY <1>1, <1>3 DEF Balanced, Parsing, AbortsOnlyUnfinished, Unclosed, WithoutExpression
<1> QED BY <1>4, <1>5, <1>6, <1>7, <1>8 DEF Inv

LEMMA FailAssertionStep ==
    ASSUME Inv, FailAssertion
    PROVE  Inv'
<1>1. pc # "read" /\ S = << >> /\ Abort("assert")
      BY DEF FailAssertion, InStatement
<1> QED BY <1>1, AbortStep

(* Within a call a statement can only end too early. *)
LEMMA OpenAtEnd ==
    ASSUME Inv, Parsing, frames # << >>, Position >= Len(S)
    PROVE  Unclosed(S)
<1>1. Len(frames) \in Nat \ {0}
      BY WithinStatement
<1> QED BY <1>1, WithinStatement, UnbalancedEnd

LEMMA ThrowStep ==
    ASSUME Inv, Throw
    PROVE  Inv'
<1>1. /\ pc \in {"statement", "expression", "arguments", "returned"} /\ statement <= Len(Stmts)
      /\ LastPeek > Len(S) /\ Abort("out_of_range")
      BY DEF Throw, InStatement, Throws
<1>2. S \in Seq(Token) /\ Len(S) \in Nat /\ Position \in Nat
      BY <1>1, StatementTokens DEF Inv, Typed
<1>3. Unclosed(S) \/ WithoutExpression(S)
  <2>1. CASE pc = "statement"
    <3>1. Assigns /\ LastPeek = 2
          BY <1>1, <1>2, <2>1 DEF LastPeek
    <3>2. S # << >> /\ S[1] = AssignWord
          BY <3>1 DEF Assigns
    <3>3. Len(S) = 1
      <4> DEFINE len == Len(S)
      <4>1. len \in Nat /\ len # 0 /\ 2 > len
            BY <1>1, <1>2, <3>1, <3>2
      <4> HIDE DEF len
      <4>2. len = 1
            BY <4>1
      <4> QED BY <4>2 DEF len
    <3> QED BY <3>2, <3>3 DEF WithoutExpression
  <2>2. CASE pc # "statement" /\ frames # << >>
    <3>1. Parsing
          BY <1>1, <2>2 DEF Parsing
    <3>2. LastPeek \in {Position, Position + 1}
          BY <1>1, <2>2 DEF LastPeek, Assigns
    <3>3. Position >= Len(S)
          BY <1>1, <1>2, <3>2
    <3> QED BY <2>2, <3>1, <3>3, OpenAtEnd
  <2>3. CASE pc # "statement" /\ frames = << >>
    <3>1. pc # "arguments"
          BY <2>3 DEF Inv, Placed
    <3>2. pc = "expression"
      <4>1. pc = "returned" => LastPeek = 0
            BY <2>3 DEF LastPeek, Assigns
      <4> QED BY <1>1, <1>2, <2>3, <3>1, <4>1
    <3>3. S # << >> /\ (Position = 0 \/ (Position = 3 /\ Len(S) >= 3 /\ S[1] = AssignWord))
          BY <2>3, <3>2 DEF Inv, Balanced
    <3>4. Len(S) >= 1
          BY <1>2, <3>3
    <3>5. LastPeek = Position \/ LastPeek = Position + 1
          BY <3>2 DEF LastPeek, Assigns
    <3>6. Position = 3 /\ Len(S) >= 3 /\ S[1] = AssignWord
          BY <1>1, <1>2, <3>3, <3>4, <3>5
    <3>7. Len(S) = 3
      <4> DEFINE len == Len(S)
                 last == LastPeek
      <4>1. len \in Nat /\ len >= 3 /\ last > len /\ (last = 3 \/ last = 4)
            BY <1>1, <1>2, <3>5, <3>6
      <4> HIDE DEF len, last
      <4>2. len = 3
            BY <4>1
      <4> QED BY <4>2 DEF len
    <3> QED BY <3>6, <3>7 DEF WithoutExpression
  <2> QED BY <2>1, <2>2, <2>3
<1> QED BY <1>1, <1>3, AbortStep

LEMMA ReadFileStep ==
    ASSUME Inv, ReadFile
    PROVE  Inv'
<1>1. /\ pc = "read" /\ pc' = "statement" /\ Stmts' = SplitStatements(Tokenize(text))
      /\ UNCHANGED <<text, source, statement, Position, target, frames, value, ParsedStmts, errors>>
      BY DEF ReadFile
<1>2. statement = 1 /\ ParsedStmts = << >> /\ errors = {} /\ frames = << >>
      BY <1>1 DEF Inv, Placed
<1>3. Token' = Token
      BY <1>1 DEF Token
<1>4. Stmts' \in Seq(Seq(Token))
  <2>1. Tokenize(text) \in Seq(Token \ {NoToken})
        BY TokenizeTyped DEF Inv, Typed, Token
  <2>2. Tokenize(text) \in Seq(Token)
        BY <2>1
  <2> QED BY <1>1, <2>2, SplitTyped
<1>5. Typed'
  <2>1. Node' = Node
        BY <1>3 DEF Node, Null
  <2>2. Tree' = Tree /\ Frame' = Frame
        BY <1>3, <2>1 DEF Tree, Frame
  <2> QED BY <1>1, <1>3, <1>4, <2>2 DEF Inv, Typed
<1>6. Placed'
      BY <1>1, <1>2, <1>4 DEF Placed, Parsing
<1>7. Marked'
      BY <1>1, <1>2 DEF Marked, ErrorsMarked, Parsing
<1>8. Kept'
  <2>1. InOrder(KeptStatements', statement' - 1) = << >>
        BY <1>1, <1>2, InOrderNone
  <2>2. Origins' = << >>
        BY <1>1, <1>2 DEF Origins
  <2> QED BY <1>1, <2>1, <2>2 DEF Kept, OnlyAssignmentsLost, Parsing, KeptStatements, Origins
<1>9. Balanced' /\ AbortsOnlyUnfinished'
      BY <1>1 DEF Balanced, Parsing, AbortsOnlyUnfinished
<1> QED BY <1>5, <1>6, <1>7, <1>8, <1>9 DEF Inv

LEMMA InvInit == Init => Inv
<1> SUFFICES ASSUME Init
             PROVE  Inv
    OBVIOUS
<1>1. /\ Stmts = << >> /\ statement = 1 /\ Position = 0 /\ target = << >> /\ frames = << >>
      /\ value = << >> /\ ParsedStmts = << >> /\ errors = {} /\ pc = "read"
      BY DEF Init, NoName
<1>2. text \in Seq(Range(text))
      BY InputsAssumption DEF Init
<1>3. Typed
      BY <1>1, <1>2 DEF Typed, Token, Tree
<1>4. Placed /\ Marked /\ Kept /\ Balanced /\ AbortsOnlyUnfinished
      BY <1>1 DEF Placed, Marked, ErrorsMarked, Kept, OnlyAssignmentsLost, Balanced, Parsing, AbortsOnlyUnfinished
<1> QED BY <1>3, <1>4 DEF Inv

LEMMA Stutter ==
    ASSUME Inv, UNCHANGED vars
    PROVE  Inv'
<1>1. /\ text' = text /\ Stmts' = Stmts /\ statement' = statement /\ Position' = Position
      /\ target' = target /\ frames' = frames /\ value' = value /\ ParsedStmts' = ParsedStmts
      /\ errors' = errors /\ pc' = pc
      BY DEF vars
<1>2. S' = S /\ Token' = Token
      BY <1>1 DEF S, Token
<1>3. Node' = Node
      BY <1>2 DEF Node, Null
<1>4. Tree' = Tree /\ Frame' = Frame
      BY <1>2, <1>3 DEF Tree, Frame
<1>5. Typed'
      BY <1>1, <1>2, <1>4 DEF Inv, Typed
<1>6. Placed'
      BY <1>1, <1>2 DEF Inv, Placed, Parsing
<1>7. Marked'
      BY <1>1 DEF Inv, Marked, ErrorsMarked, HasNull, NullSoFar, Parsing
<1>8. Kept'
      BY <1>1, <1>2 DEF Inv, Kept, OnlyAssignmentsLost, Parsing
<1>9. Balanced'
      BY <1>1, <1>2 DEF Inv, Balanced, Unbalanced, Peek, Parsing
<1>10. AbortsOnlyUnfinished'
       BY <1>1, <1>2 DEF Inv, AbortsOnlyUnfinished, Unclosed, WithoutExpression
<1> QED BY <1>5, <1>6, <1>7, <1>8, <1>9, <1>10 DEF Inv

-----------------------------------------------------------------------------

LEMMA InvNext == Inv /\ [Next]_vars => Inv'
<1> SUFFICES ASSUME Inv, [Next]_vars
             PROVE  Inv'
    OBVIOUS
<1>1. CASE ReadFile
      BY <1>1, ReadFileStep
<1>2. CASE FailAssertion
      BY <1>2, FailAssertionStep
<1>3. CASE ParseEvaluation
      BY <1>3, ParseEvaluationStep
<1>4. CASE ParseAssign
      BY <1>4, ParseAssignStep
<1>5. CASE SkipAssign
      BY <1>5, SkipAssignStep
<1>6. CASE FinishStatement
      BY <1>6, FinishStatementStep
<1>7. CASE ParseNumber
      BY <1>7, ParseNumberStep
<1>8. CASE ParseVariable
      BY <1>8, ParseVariableStep
<1>9. CASE EnterCall
      BY <1>9, EnterCallStep
<1>10. CASE NextArgument
       BY <1>10, NextArgumentStep
<1>11. CASE TakeArgument
       BY <1>11, TakeArgumentStep
<1>12. CASE FailCall
       BY <1>12, FailCallStep
<1>13. CASE CloseCall
       BY <1>13, CloseCallStep
<1>14. CASE Throw
       BY <1>14, ThrowStep
<1>15. CASE Finished \/ UNCHANGED vars
       BY <1>15, Stutter DEF Finished
<1> QED BY <1>1, <1>2, <1>3, <1>4, <1>5, <1>6, <1>7, <1>8, <1>9, <1>10, <1>11, <1>12,
           <1>13, <1>14, <1>15 DEF Next

(* In every state the parser can reach, its calls, its nulls and its        *)
(* parentheses are in order.                                                *)
THEOREM Invariance == Spec => []Inv
BY InvInit, InvNext, PTL DEF Spec

(* The shape of the state; the position is never more than one past the     *)
(* end of the tokens of the statement, and no statement is parsed into an   *)
(* empty tree.                                                              *)
THEOREM TypeCorrect == Spec => []TypeOK
<1>1. Inv => TypeOK
  <2> SUFFICES ASSUME Inv
               PROVE  TypeOK
      OBVIOUS
  <2>1. Stmts \in Seq(Seq(Token)) /\ statement \in Nat \ {0} /\ Position \in Nat /\ errors \subseteq Nat \ {0}
        BY DEF Inv, Typed
  <2>2. statement \in 1..(Len(Stmts) + 1)
        BY <2>1 DEF Inv, Placed
  <2>3. pc \in {"expression", "arguments", "returned"} => Position \in 0..(Len(S) + 1)
    <3> SUFFICES ASSUME Parsing
                 PROVE  Position \in 0..(Len(S) + 1)
        BY DEF Parsing
    <3> QED BY WithinStatement
  <2>4. errors \subseteq DOMAIN Stmts
    <3> SUFFICES ASSUME NEW k \in errors
                 PROVE  k \in DOMAIN Stmts
        OBVIOUS
    <3>1. k <= Len(Stmts)
          BY DEF Inv, Placed
    <3> QED BY <2>1, <3>1
  <2> QED BY <2>2, <2>3, <2>4 DEF Inv, Placed, TypeOK
<1> QED BY <1>1, Invariance, PTL

(* An error is logged for a statement exactly if there is a null pointer in *)
(* its tree: EAT gives up the call and returns null, ParseExpr passes it on *)
(* to the calls around, and the errors of one statement do not reach        *)
(* another.                                                                 *)
THEOREM ErrorsAlwaysMarked == Spec => []ErrorsMarked
<1>1. Inv => ErrorsMarked
      BY DEF Inv, Marked
<1> QED BY <1>1, Invariance, PTL

(* main keeps the statements of the file in their order, and leaves out     *)
(* exactly the assignments without an equals sign.                          *)
THEOREM OnlyAssignmentsAreLost == Spec => []OnlyAssignmentsLost
<1>1. Inv => OnlyAssignmentsLost
      BY DEF Inv, Kept
<1> QED BY <1>1, Invariance, PTL

(* Whatever the text, the assertion of main fails on an empty statement     *)
(* only, and Tokens.at throws only if a list of arguments is not closed or  *)
(* an assignment has no expression.                                         *)
THEOREM AbortsAreUnfinished == Spec => []AbortsOnlyUnfinished
<1>1. Inv => AbortsOnlyUnfinished
      BY DEF Inv
<1> QED BY <1>1, Invariance, PTL
-----------------------------------------------------------------------------
(* Without, one element further. *)
LEMMA WithoutUnique ==
    ASSUME NEW C, NEW k, NEW s, NEW d, NEW f, IsWithout(C, d, s, f),
           NEW t, NEW e, NEW g, IsWithout(C, e, t, g),
           SameUntil(k, s, t), \A n \in 1..k : n \in d <=> n \in e
    PROVE  f[k] = g[k]
<1> DEFINE T == {n \in 0..k : f[n] = g[n]}
<1>0. k \in Nat /\ \A n \in 1..k : s[n] = t[n] /\ n \in 1..Len(s) /\ n \in 1..Len(t)
      BY DEF SameUntil
<1>1. 0 \in T
      BY <1>0 DEF IsWithout
<1>2. ASSUME NEW n \in 0..(k - 1), n \in T
      PROVE  n + 1 \in T
  <2> DEFINE m == n + 1
  <2>1. m \in 1..k /\ m - 1 = n /\ m \in 0..k
        BY <1>0
  <2> HIDE DEF m
  <2>2. /\ f[m] = IF m \in d THEN f[n] ELSE Append(f[n], s[m])
        /\ g[m] = IF m \in e THEN g[n] ELSE Append(g[n], t[m])
        BY <1>0, <2>1 DEF IsWithout
  <2>3. m \in T
        BY <1>0, <1>2, <2>1, <2>2
  <2> QED BY <2>3 DEF m
<1>3. 0..k \subseteq T
  <2> HIDE DEF T
  <2> QED BY <1>0, <1>1, <1>2, NaturalsUpTo
<1> QED BY <1>0, <1>3

LEMMA WithoutTyped ==
    ASSUME NEW C, NEW s \in Seq(C), NEW d
    PROVE  Without(d, s) \in Seq(C)
<1>1. PICK f : IsWithout(C, d, s, f) /\ Without(d, s) = f[Len(s)]
      BY WithoutRuns
<1>2. Len(s) \in 0..Len(s)
      OBVIOUS
<1> QED BY <1>1, <1>2 DEF IsWithout

LEMMA WithoutNext ==
    ASSUME NEW C, NEW s \in Seq(C), NEW x \in C, NEW d, NEW e,
           \A n \in 1..Len(s) : n \in d <=> n \in e
    PROVE  Without(e, Append(s, x)) =
              IF Len(s) + 1 \in e THEN Without(d, s) ELSE Append(Without(d, s), x)
<1> DEFINE t == Append(s, x)
           k == Len(s)
           l == k + 1
<1>1. t \in Seq(C) /\ Len(t) = l /\ k \in Nat /\ l \in 1..l /\ l - 1 = k /\ t[l] = x
      OBVIOUS
<1>2. SameUntil(k, s, t)
      BY <1>1 DEF SameUntil
<1> HIDE DEF t, l
<1>3. PICK f : IsWithout(C, d, s, f) /\ Without(d, s) = f[k]
      BY WithoutRuns
<1>4. PICK g : IsWithout(C, e, t, g) /\ Without(e, t) = g[l]
      BY <1>1, WithoutRuns
<1>5. g[l] = IF l \in e THEN g[k] ELSE Append(g[k], x)
      BY <1>1, <1>4 DEF IsWithout
<1>6. f[k] = g[k]
      BY <1>2, <1>3, <1>4, WithoutUnique
<1> QED BY <1>3, <1>4, <1>5, <1>6 DEF t, l

LEMMA WithoutNothing ==
    ASSUME NEW d
    PROVE  Without(d, << >>) = << >>
<1>1. << >> \in Seq({})
      OBVIOUS
<1>2. PICK f : IsWithout({}, d, << >>, f) /\ Without(d, << >>) = f[Len(<< >>)]
      BY <1>1, WithoutRuns
<1> QED BY <1>2 DEF IsWithout

-----------------------------------------------------------------------------
(* The first p tokens of s say the tokens said, but for commas that stand   *)
(* before a parenthesis.                                                    *)
Tells(s, p, said) ==
    /\ p <= Len(s)
    /\ \E dropped \in SUBSET Trailing(SubSeq(s, 1, p)) : Without(dropped, SubSeq(s, 1, p)) = said

LEMMA FirstTokens ==
    ASSUME NEW C, NEW s \in Seq(C), NEW p \in Nat, p < Len(s), NEW q, q = p + 1
    PROVE  /\ SubSeq(s, 1, q) = Append(SubSeq(s, 1, p), s[q])
           /\ SubSeq(s, 1, p) \in Seq(C) /\ Len(SubSeq(s, 1, p)) = p
           /\ \A n \in 1..p : SubSeq(s, 1, p)[n] = s[n]
           /\ q \in Nat /\ q <= Len(s) /\ s[q] \in C /\ Len(s) \in Nat
<1> DEFINE u == SubSeq(s, 1, p)
           v == SubSeq(s, 1, q)
<1>1. q \in Nat /\ q <= Len(s) /\ s[q] \in C /\ Len(s) \in Nat
      OBVIOUS
<1>2. u \in Seq(C) /\ Len(u) = p /\ \A n \in 1..p : u[n] = s[n]
      OBVIOUS
<1>3. v \in Seq(C) /\ Len(v) = q /\ \A n \in 1..q : v[n] = s[n]
      BY <1>1
<1> HIDE DEF u, v
<1>4. v = Append(u, s[q])
      BY <1>1, <1>2, <1>3
<1> QED BY <1>1, <1>2, <1>4 DEF u, v

(* A token more. *)
LEMMA TellsNext ==
    ASSUME NEW C, NEW s \in Seq(C), NEW p \in Nat, p < Len(s), NEW q, q = p + 1,
           NEW said, Tells(s, p, said)
    PROVE  Tells(s, q, Append(said, s[q]))
<1> DEFINE u == SubSeq(s, 1, p)
           v == SubSeq(s, 1, q)
<1>1. PICK d \in SUBSET Trailing(u) : Without(d, u) = said
      BY DEF Tells
<1>2. /\ v = Append(u, s[q]) /\ u \in Seq(C) /\ Len(u) = p /\ \A n \in 1..p : u[n] = s[n]
      /\ q <= Len(s) /\ s[q] \in C
      BY FirstTokens
<1> HIDE DEF u, v
<1>3. q \notin d
      BY <1>2 DEF Trailing
<1>10. Len(v) = q /\ \A n \in 1..p : v[n] = u[n]
      BY <1>2
<1>4. Without(d, v) = Append(said, s[q])
      BY <1>1, <1>2, <1>3, WithoutNext
<1>5. d \subseteq Trailing(v)
  <2> SUFFICES ASSUME NEW n \in d
               PROVE  n \in Trailing(v)
      OBVIOUS
  <2>1. n \in 1..(p - 1) /\ u[n] = Comma /\ u[n + 1] = Close
        BY <1>2 DEF Trailing
  <2>2. n \in 1..(q - 1) /\ n \in 1..p /\ n + 1 \in 1..p
        BY <2>1
  <2>3. Len(v) = q /\ v[n] = u[n] /\ v[n + 1] = u[n + 1]
        BY <1>10, <2>2
  <2> QED BY <2>1, <2>2, <2>3 DEF Trailing
<1> QED BY <1>2, <1>4, <1>5 DEF Tells, v

(* A parenthesis behind a comma: the comma does not matter. *)
LEMMA TellsTrailing ==
    ASSUME NEW C, NEW s \in Seq(C), NEW p \in Nat, p < Len(s), NEW q, q = p + 1,
           NEW said \in Seq(C), Tells(s, p, Append(said, Comma)), s[q] = Close
    PROVE  Tells(s, q, Append(said, Close))
<1>0. \A i \in Nat : \A j : i < Len(s) /\ j = i + 1 =>
         /\ SubSeq(s, 1, j) = Append(SubSeq(s, 1, i), s[j])
         /\ SubSeq(s, 1, i) \in Seq(C) /\ Len(SubSeq(s, 1, i)) = i
         /\ \A n \in 1..i : SubSeq(s, 1, i)[n] = s[n]
         /\ j <= Len(s) /\ s[j] \in C
      BY FirstTokens
<1> DEFINE u == SubSeq(s, 1, p)
           v == SubSeq(s, 1, q)
<1>1. PICK d \in SUBSET Trailing(u) : Without(d, u) = Append(said, Comma)
      BY DEF Tells
<1>2. /\ v = Append(u, s[q]) /\ u \in Seq(C) /\ Len(u) = p /\ \A n \in 1..p : u[n] = s[n]
      /\ q <= Len(s) /\ s[q] \in C
  <2> QED BY ONLY <1>0, p \in Nat, p < Len(s), q = p + 1 DEF u, v
<1>3. p # 0
  <2> SUFFICES ASSUME p = 0
               PROVE  FALSE
      OBVIOUS
  <2>1. u = << >>
        BY <1>2
  <2>2. Append(said, Comma) = << >>
        BY <1>1, <2>1, WithoutNothing
  <2>3. \A x : Len(Append(said, x)) = Len(said) + 1
        OBVIOUS
  <2>4. Len(said) + 1 = Len(<< >>) /\ Len(said) \in Nat
        BY <2>2, <2>3
  <2> QED BY <2>4
<1>20. PICK o \in Nat : o < Len(s) /\ p = o + 1
  <2>1. p - 1 \in Nat /\ p - 1 < Len(s) /\ p = (p - 1) + 1
        BY <1>3
  <2> QED BY <2>1
<1> HIDE DEF u, v
<1> DEFINE w == SubSeq(s, 1, o)
<1>4. o \in Nat /\ o < Len(s) /\ p = o + 1
      BY <1>20
<1>5. u = Append(w, s[p]) /\ w \in Seq(C) /\ Len(w) = o /\ (\A n \in 1..o : w[n] = s[n]) /\ s[p] \in C
  <2> QED BY <1>0, <1>4 DEF u
<1> HIDE DEF w
<1>6. p \notin d /\ q \notin d
      BY <1>2, <1>4 DEF Trailing
<1>7. Without(d, u) = Append(Without(d, w), s[p])
      BY <1>4, <1>5, <1>6, WithoutNext
<1>8. Without(d, w) \in Seq(C)
      BY <1>5, WithoutTyped
<1>9. s[p] = Comma /\ Without(d, w) = said
  <2> DEFINE x == Without(d, w)
  <2>1. Append(x, s[p]) = Append(said, Comma) /\ x \in Seq(C)
        BY <1>1, <1>7, <1>8
  <2> HIDE DEF x
  <2>2. Len(x) = Len(said)
        BY <2>1
  <2>3. \A n \in 1..Len(x) : x[n] = said[n]
    <3> TAKE n \in 1..Len(x)
    <3>1. Append(x, s[p])[n] = x[n] /\ Append(said, Comma)[n] = said[n]
          BY <2>1, <2>2
    <3> QED BY <2>1, <3>1
  <2>4. x = said
        BY <2>1, <2>2, <2>3
  <2>5. Append(x, s[p])[Len(x) + 1] = s[p] /\ Append(said, Comma)[Len(said) + 1] = Comma
        BY <2>1
  <2> QED BY <2>1, <2>2, <2>4, <2>5 DEF x
<1> DEFINE e == d \cup {p}
<1>10. Without(e, u) = said
  <2>1. \A n \in 1..o : n \in d <=> n \in e
        BY <1>4
  <2>2. p \in e
        OBVIOUS
  <2> HIDE DEF e
  <2> QED BY <1>4, <1>5, <1>9, <2>1, <2>2, WithoutNext
<1>11. Without(e, v) = Append(said, s[q])
  <2>1. q \notin e
        BY <1>6
  <2> HIDE DEF e
  <2> QED BY <1>2, <1>10, <2>1, WithoutNext
<1>12. e \subseteq Trailing(v)
  <2> SUFFICES ASSUME NEW n \in e
               PROVE  n \in Trailing(v)
      OBVIOUS
  <2>1. Len(v) = q /\ \A m \in 1..p : v[m] = u[m]
        BY <1>2
  <2>2. CASE n = p
    <3>1. v[p] = Comma /\ v[p + 1] = Close /\ p \in 1..(q - 1)
      <4>1. p \in 1..p
            BY <1>3
      <4> QED BY <1>2, <1>9, <2>1, <4>1
    <3> QED BY <2>1, <2>2, <3>1 DEF Trailing
  <2>3. CASE n \in d
    <3>1. n \in 1..(p - 1) /\ u[n] = Comma /\ u[n + 1] = Close
          BY <1>2, <2>3 DEF Trailing
    <3>2. n \in 1..(q - 1) /\ n \in 1..p /\ n + 1 \in 1..p
          BY <3>1
    <3> QED BY <2>1, <3>1, <3>2 DEF Trailing
  <2> QED BY <2>2, <2>3
<1> QED BY <1>2, <1>11, <1>12 DEF Tells, v

-----------------------------------------------------------------------------
(* The text in tokens and statements: only ReadFile writes them. *)
Letters == Token \ {NoToken}

TextRead == pc # "read" => Stmts \in Seq(Seq(Letters)) /\ TextKept

LEMMA TextUnchanged ==
    ASSUME [Next]_vars, ~ReadFile
    PROVE  text' = text /\ Tokens' = Tokens /\ Stmts' = Stmts /\ (pc = "read" => pc' = pc)
<1>1. CASE Throw
      BY <1>1 DEF Throw, Abort, InStatement
<1>2. CASE FailAssertion
      BY <1>2 DEF FailAssertion, Abort, InStatement
<1>3. CASE ParseEvaluation \/ ParseAssign
      BY <1>3 DEF ParseEvaluation, ParseAssign, Continue, InStatement
<1>4. CASE SkipAssign
      BY <1>4 DEF SkipAssign, LacksSign, InStatement
<1>5. CASE FinishStatement
      BY <1>5 DEF FinishStatement, Finish
<1>6. CASE ParseNumber \/ ParseVariable \/ EnterCall
      BY <1>6 DEF ParseNumber, ParseVariable, EnterCall, Continue
<1>7. CASE NextArgument \/ CloseCall
      BY <1>7 DEF NextArgument, CloseCall, EndCall, Continue
<1>8. CASE TakeArgument \/ FailCall
      BY <1>8 DEF TakeArgument, FailCall, EatError, Continue
<1>9. CASE Finished \/ UNCHANGED vars
      BY <1>9 DEF Finished, vars
<1> QED BY <1>1, <1>2, <1>3, <1>4, <1>5, <1>6, <1>7, <1>8, <1>9 DEF Next

LEMMA TextReadNext ==
    ASSUME Inv, TextRead, [Next]_vars
    PROVE  TextRead'
<1>1. CASE ReadFile
  <2>1. /\ text' = text /\ Tokens' = Tokenize(text) /\ Stmts' = SplitStatements(Tokenize(text))
        /\ text \in Seq(Range(text))
        BY <1>1 DEF ReadFile, Inv, Typed
  <2>2. Tokenize(text) \in Seq(Letters)
        BY <2>1, TokenizeTyped DEF Letters, Token
  <2>3. Stmts' \in Seq(Seq(Letters'))
    <3>1. Letters' = Letters
          BY <2>1 DEF Letters, Token
    <3> QED BY <2>1, <2>2, <3>1, SplitTyped
  <2>4. FlattenSeq(Tokenize(text)) = Without(Positions(Blank, text), text)
        BY <2>1, TokenizeKeeps
  <2>5. FlattenSeq(SplitStatements(Tokenize(text))) = Without(Positions(Semicolon, Tokenize(text)), Tokenize(text))
        BY <2>2, SplitKeeps
  <2>6. TextKept'
    <3>1. FlattenSeq(Tokens') = Without(Positions(Blank, text'), text')
          BY <2>1, <2>4
    <3>2. FlattenSeq(Stmts') = Without(Positions(Semicolon, Tokens'), Tokens')
          BY <2>1, <2>5
    <3> QED BY <3>1, <3>2 DEF TextKept
  <2> QED BY <2>3, <2>6 DEF TextRead
<1>2. CASE ~ReadFile
  <2>1. text' = text /\ Tokens' = Tokens /\ Stmts' = Stmts /\ (pc = "read" => pc' = pc)
        BY <1>2, TextUnchanged
  <2>2. Letters' = Letters
        BY <2>1 DEF Letters, Token
  <2> QED BY <2>1, <2>2 DEF TextRead, TextKept
<1> QED BY <1>1, <1>2

(* The tokenizer loses blanks and nothing else, the last token of a file    *)
(* that does not end with a symbol included, and main puts every token but  *)
(* the semicolons into a statement, the last one with or without one.       *)
THEOREM TextAlwaysKept == Spec => []TextKept
<1>1. Init => TextRead
      BY DEF Init, TextRead
<1>2. Inv /\ Inv' /\ TextRead /\ [Next]_vars => TextRead'
      BY TextReadNext
<1>3. Inv /\ TextRead => TextKept
      BY DEF TextRead, TextKept
<1> QED BY <1>1, <1>2, <1>3, InvInit, InvNext, PTL DEF Spec

-----------------------------------------------------------------------------
(* Arguments with commas between them. *)
LEMMA SeparatedNone == Separated(<< >>) = << >>
<1>1. [n \in DOMAIN << >> |-> IF n = 1 THEN << >>[n] ELSE <<Comma>> \o << >>[n]] = << >>
      OBVIOUS
<1> QED BY <1>1, FlattenNone DEF Separated

LEMMA SeparatedTyped ==
    ASSUME NEW T, Comma \in T, NEW x \in Seq(Seq(T))
    PROVE  /\ [n \in DOMAIN x |-> IF n = 1 THEN x[n] ELSE <<Comma>> \o x[n]] \in Seq(Seq(T))
           /\ Separated(x) \in Seq(T)
<1> DEFINE s == [n \in DOMAIN x |-> IF n = 1 THEN x[n] ELSE <<Comma>> \o x[n]]
           k == Len(x)
<1>1. k \in Nat /\ DOMAIN x = 1..k /\ \A n \in 1..k : x[n] \in Seq(T)
      OBVIOUS
<1>2. <<Comma>> \in Seq(T)
      OBVIOUS
<1>3. \A n \in 1..k : <<Comma>> \o x[n] \in Seq(T)
      BY <1>1, <1>2, ConcatProperties
<1>4. s \in [1..k -> Seq(T)]
      BY <1>1, <1>3
<1>5. s \in Seq(Seq(T))
  <2> HIDE DEF s, k
  <2> QED BY <1>1, <1>4
<1> HIDE DEF s
<1>6. FlattenSeq(s) \in Seq(T)
      BY <1>5, FlattenTyped
<1> QED BY <1>5, <1>6 DEF Separated, s

LEMMA SeparatedNext ==
    ASSUME NEW T, Comma \in T, NEW x \in Seq(Seq(T)), NEW y \in Seq(T)
    PROVE  /\ x = << >> => Separated(Append(x, y)) = y
           /\ x # << >> => Separated(Append(x, y)) = Separated(x) \o (<<Comma>> \o y)
<1> DEFINE xy == Append(x, y)
           s == [n \in DOMAIN x |-> IF n = 1 THEN x[n] ELSE <<Comma>> \o x[n]]
           t == [n \in DOMAIN xy |-> IF n = 1 THEN xy[n] ELSE <<Comma>> \o xy[n]]
           z == IF x = << >> THEN y ELSE <<Comma>> \o y
           st == Append(s, z)
           k == Len(x)
           l == k + 1
<1>1. /\ k \in Nat /\ l \in Nat /\ DOMAIN x = 1..k /\ DOMAIN xy = 1..l /\ xy \in Seq(Seq(T)) /\ xy[l] = y
      /\ (\A n \in 1..k : xy[n] = x[n]) /\ (x = << >> <=> l = 1)
      OBVIOUS
<1>2. \A n \in 1..l : n \in 1..k \/ n = l
      BY <1>1
<1>3. s \in Seq(Seq(T)) /\ t \in Seq(Seq(T))
      BY <1>1, SeparatedTyped
<1>4. DOMAIN s = 1..k /\ DOMAIN t = 1..l /\ Len(s) = k /\ Len(t) = l
  <2>1. DOMAIN s = 1..k /\ DOMAIN t = 1..l
        BY <1>1
  <2> HIDE DEF s, t, l, k
  <2> QED BY <1>1, <1>3, <2>1
<1>5. z \in Seq(T)
  <2>1. <<Comma>> \in Seq(T)
        OBVIOUS
  <2>2. <<Comma>> \o y \in Seq(T)
        BY <2>1, ConcatProperties
  <2> QED BY <2>2
<1>6. t[l] = z /\ \A n \in 1..k : t[n] = s[n]
  <2>1. t[l] = z
        BY <1>1
  <2>2. \A n \in 1..k : t[n] = s[n]
        BY <1>1
  <2> QED BY <2>1, <2>2
<1> HIDE DEF s, t, z, xy
<1>7. st \in Seq(Seq(T)) /\ Len(st) = l /\ st[l] = z /\ \A n \in 1..k : st[n] = s[n]
      BY <1>3, <1>4, <1>5
<1> HIDE DEF st, l, k
<1>8. t = st
  <2>1. \A n \in 1..l : t[n] = st[n]
        BY <1>2, <1>6, <1>7
  <2> QED BY <1>3, <1>4, <1>7, <2>1
<1>9. FlattenSeq(t) = FlattenSeq(s) \o z
      BY <1>3, <1>5, <1>8, FlattenAppend DEF st
<1>10. Separated(xy) = Separated(x) \o z
       BY <1>9 DEF Separated, s, t
<1>11. CASE x = << >>
  <2>1. Separated(x) = << >>
        BY <1>11, SeparatedNone
  <2>2. << >> \o z = z
        BY <1>5, ConcatEmptySeq
  <2> QED BY <1>10, <1>11, <2>1, <2>2 DEF z, xy
<1>12. CASE x # << >>
       BY <1>10, <1>12 DEF z, xy
<1> QED BY <1>11, <1>12

-----------------------------------------------------------------------------
(* From trees to tokens, one node at a time. *)
Written(node, arguments) == <<node.token, Open>> \o Separated(arguments) \o <<Close>>

(* A leaf, or a call with no more arguments than there are. *)
Fits(T, stack, node) ==
    node # Null /\ node.token \in T /\ (node.node = "call" => node.args \in 0..Len(stack))

Punctuation == {Comma, Open, Close}

LEMMA WrittenTyped ==
    ASSUME NEW T, Punctuation \subseteq T, NEW node, node.token \in T, NEW x \in Seq(Seq(T))
    PROVE  Written(node, x) \in Seq(T)
<1>1. Comma \in T /\ Open \in T /\ Close \in T
      BY DEF Punctuation
<1>2. Separated(x) \in Seq(T)
      BY <1>1, SeparatedTyped
<1>3. <<node.token, Open>> \in Seq(T) /\ <<Close>> \in Seq(T)
      BY <1>1
<1>4. <<node.token, Open>> \o Separated(x) \in Seq(T)
      BY <1>2, <1>3, ConcatProperties
<1> QED BY <1>3, <1>4, ConcatProperties DEF Written

LEMMA UnparseLeaf ==
    ASSUME NEW stack, NEW node, node # Null, node.node # "call"
    PROVE  UnparseNode(stack, node) = Append(stack, <<node.token>>)
BY DEF UnparseNode

LEMMA UnparseCall ==
    ASSUME NEW stack, NEW node, node.node = "call", NEW below, below = Len(stack) - node.args
    PROVE  UnparseNode(stack, node) =
              Append(SubSeq(stack, 1, below), Written(node, SubSeq(stack, below + 1, Len(stack))))
BY DEF UnparseNode, Written

GoesOnTop(s, t, e) == Append(s \o t, e) = s \o Append(t, e)

LEMMA AppendOnTop ==
    ASSUME NEW C, NEW s \in Seq(C), NEW t \in Seq(C), NEW e \in C
    PROVE  GoesOnTop(s, t, e)
<1>1. s \o Append(t, e) = Append(s \o t, e)
      OBVIOUS
<1> QED BY <1>1 DEF GoesOnTop

(* Both parts of a stack that is split. *)
LEMMA StackParts ==
    ASSUME NEW X, NEW s \in Seq(X), NEW m \in 0..Len(s)
    PROVE  /\ SubSeq(s, 1, m) \in Seq(X) /\ Len(SubSeq(s, 1, m)) = m
           /\ \A n \in 1..m : SubSeq(s, 1, m)[n] = s[n]
           /\ SubSeq(s, m + 1, Len(s)) \in Seq(X) /\ Len(SubSeq(s, m + 1, Len(s))) = Len(s) - m
           /\ \A n \in 1..(Len(s) - m) : SubSeq(s, m + 1, Len(s))[n] = s[n + m]
<1>1. Len(s) \in Nat /\ m \in Nat /\ m <= Len(s)
      OBVIOUS
<1> QED BY <1>1

LEMMA UnparseTyped ==
    ASSUME NEW T, Punctuation \subseteq T, NEW stack \in Seq(Seq(T)), NEW node, Fits(T, stack, node)
    PROVE  UnparseNode(stack, node) \in Seq(Seq(T))
<1>1. node # Null /\ node.token \in T
      BY DEF Fits
<1>2. CASE node.node # "call"
  <2>1. <<node.token>> \in Seq(T)
        BY <1>1
  <2>2. Append(stack, <<node.token>>) \in Seq(Seq(T))
        BY <2>1
  <2> QED BY <1>1, <1>2, <2>2, UnparseLeaf
<1>3. CASE node.node = "call"
  <2> DEFINE below == Len(stack) - node.args
             a == SubSeq(stack, 1, below)
             b == SubSeq(stack, below + 1, Len(stack))
  <2>1. below \in 0..Len(stack)
        BY <1>3 DEF Fits
  <2>2. a \in Seq(Seq(T)) /\ b \in Seq(Seq(T))
    <3> HIDE DEF below
    <3> QED BY <2>1, StackParts
  <2>3. UnparseNode(stack, node) = Append(a, Written(node, b))
        BY <1>3, UnparseCall
  <2> HIDE DEF a, b
  <2>4. Written(node, b) \in Seq(T)
        BY <1>1, <2>2, WrittenTyped
  <2> QED BY <2>2, <2>3, <2>4
<1> QED BY <1>2, <1>3

LEMMA JoinedParts ==
    ASSUME NEW X, NEW a \in Seq(X), NEW b \in Seq(X), NEW m \in 0..Len(b),
           NEW k, k = Len(a) + m
    PROVE  /\ SubSeq(a \o b, 1, k) = a \o SubSeq(b, 1, m)
           /\ SubSeq(a \o b, k + 1, Len(a \o b)) = SubSeq(b, m + 1, Len(b))
<1> DEFINE c == a \o b
           la == Len(a)
           lb == Len(b)
           f == SubSeq(c, 1, k)
           g == SubSeq(b, 1, m)
           h == a \o g
           u == SubSeq(c, k + 1, Len(c))
           v == SubSeq(b, m + 1, lb)
<1>1. la \in Nat /\ lb \in Nat /\ m \in Nat /\ m <= lb /\ k = la + m /\ k \in Nat
      OBVIOUS
<1>2. /\ c \in Seq(X) /\ Len(c) = la + lb
      /\ \A n \in 1..(la + lb) : c[n] = IF n <= la THEN a[n] ELSE b[n - la]
      BY ConcatProperties
<1>3. g \in Seq(X) /\ Len(g) = m /\ \A n \in 1..m : g[n] = b[n]
      BY <1>1
<1>4. v \in Seq(X) /\ Len(v) = lb - m /\ \A n \in 1..(lb - m) : v[n] = b[n + m]
      BY <1>1
<1> HIDE DEF g, v, c
<1>5. /\ h \in Seq(X) /\ Len(h) = k
      /\ \A n \in 1..k : h[n] = IF n <= la THEN a[n] ELSE g[n - la]
      BY <1>1, <1>3, ConcatProperties
<1> HIDE DEF h
<1> HIDE DEF la, lb
<1>10. k \in 0..Len(c) /\ Len(c) - k = lb - m
       BY <1>1, <1>2
<1>6. f \in Seq(X) /\ Len(f) = k /\ \A n \in 1..k : f[n] = c[n]
      BY ONLY <1>2, <1>10, StackParts
<1>7. u \in Seq(X) /\ Len(u) = lb - m /\ \A n \in 1..(lb - m) : u[n] = c[n + k]
  <2>1. u \in Seq(X) /\ Len(u) = Len(c) - k /\ \A n \in 1..(Len(c) - k) : u[n] = c[n + k]
        BY ONLY <1>2, <1>10, StackParts
  <2> QED BY <1>10, <2>1
<1> HIDE DEF f, u
<1>8. f = h
  <2>1. ASSUME NEW n \in 1..k
        PROVE  f[n] = h[n]
    <3>1. n \in 1..(la + lb)
          BY <1>1
    <3>2. f[n] = IF n <= la THEN a[n] ELSE b[n - la]
          BY <1>2, <1>6, <3>1
    <3>3. CASE n <= la
          BY <1>5, <3>2, <3>3
    <3>4. CASE ~(n <= la)
      <4>1. n - la \in 1..m
            BY <1>1, <3>4
      <4>2. g[n - la] = b[n - la]
            BY <1>3, <4>1
      <4> QED BY <1>5, <3>2, <3>4, <4>2
    <3> QED BY <3>3, <3>4
  <2> QED BY <1>5, <1>6, <2>1
<1>9. u = v
  <2>1. ASSUME NEW n \in 1..(lb - m)
        PROVE  u[n] = v[n]
    <3>1. n + k \in 1..(la + lb) /\ ~(n + k <= la) /\ (n + k) - la = n + m
          BY <1>1
    <3> QED BY <1>2, <1>4, <1>7, <3>1
  <2> QED BY <1>4, <1>7, <2>1
<1> QED BY <1>8, <1>9 DEF f, h, u, v, c, g, lb

(* A node leaves alone what is below its arguments. *)
LEMMA UnparseAbove ==
    ASSUME NEW T, Punctuation \subseteq T, NEW a \in Seq(Seq(T)), NEW b \in Seq(Seq(T)),
           NEW node, Fits(T, b, node)
    PROVE  UnparseNode(a \o b, node) = a \o UnparseNode(b, node) /\ Fits(T, a \o b, node)
<1>1. node # Null /\ node.token \in T
      BY DEF Fits
<1>2. Len(a \o b) = Len(a) + Len(b) /\ Len(a) \in Nat /\ Len(b) \in Nat
      BY ConcatProperties
<1>3. Fits(T, a \o b, node)
      BY <1>2 DEF Fits
<1>4. CASE node.node # "call"
  <2>1. <<node.token>> \in Seq(T)
        BY <1>1
  <2>2. Append(a \o b, <<node.token>>) = a \o Append(b, <<node.token>>)
    <3> DEFINE X == Seq(T)
               w == <<node.token>>
    <3>1. a \in Seq(X) /\ b \in Seq(X) /\ w \in X
          BY <2>1
    <3> HIDE DEF X, w
    <3>2. GoesOnTop(a, b, w)
          BY <3>1, AppendOnTop
    <3> QED BY <3>2 DEF w, GoesOnTop
  <2> QED BY <1>1, <1>3, <1>4, <2>2, UnparseLeaf
<1>5. CASE node.node = "call"
  <2> DEFINE m == Len(b) - node.args
             k == Len(a \o b) - node.args
             g == SubSeq(b, 1, m)
             v == SubSeq(b, m + 1, Len(b))
  <2>1. m \in 0..Len(b) /\ k = Len(a) + m
        BY <1>2, <1>5 DEF Fits
  <2>2. g \in Seq(Seq(T)) /\ v \in Seq(Seq(T))
    <3> HIDE DEF m
    <3> QED BY <2>1, StackParts
  <2>3. SubSeq(a \o b, 1, k) = a \o g /\ SubSeq(a \o b, k + 1, Len(a \o b)) = v
    <3> DEFINE X == Seq(T)
    <3>1. a \in Seq(X) /\ b \in Seq(X)
          OBVIOUS
    <3>2. \A i \in 0..Len(b) : \A j : j = Len(a) + i =>
             /\ SubSeq(a \o b, 1, j) = a \o SubSeq(b, 1, i)
             /\ SubSeq(a \o b, j + 1, Len(a \o b)) = SubSeq(b, i + 1, Len(b))
      <4> HIDE DEF X
      <4> QED BY <3>1, JoinedParts
    <3> HIDE DEF m, k, X
    <3> QED BY ONLY <2>1, <3>2
  <2>4. UnparseNode(b, node) = Append(g, Written(node, v))
        BY <1>5, UnparseCall
  <2>5. UnparseNode(a \o b, node) = Append(a \o g, Written(node, v))
        BY <1>5, <2>3, UnparseCall
  <2> HIDE DEF g, v, k
  <2>6. Written(node, v) \in Seq(T)
        BY <1>1, <2>2, WrittenTyped
  <2>7. Append(a \o g, Written(node, v)) = a \o Append(g, Written(node, v))
    <3> DEFINE X == Seq(T)
               w == Written(node, v)
    <3>1. a \in Seq(X) /\ g \in Seq(X) /\ w \in X
          BY <2>2, <2>6
    <3> HIDE DEF X, w
    <3>2. GoesOnTop(a, g, w)
          BY <3>1, AppendOnTop
    <3> QED BY <3>2 DEF w, GoesOnTop
  <2> QED BY <1>3, <2>4, <2>5, <2>7
<1> QED BY <1>4, <1>5

(* What the nodes of a tree say, before each of them and at the end. *)
IsUnparsing(T, tree, run) ==
    /\ run \in [0..Len(tree) -> Seq(Seq(T))]
    /\ run[0] = << >>
    /\ \A n \in 1..Len(tree) : Fits(T, run[n - 1], tree[n]) /\ run[n] = UnparseNode(run[n - 1], tree[n])

Says(T, tree, x) == \E run : IsUnparsing(T, tree, run) /\ run[Len(tree)] = x

Texts(tree) == LeftToRight(UnparseNode, << >>, tree)

LEMMA SaysTexts ==
    ASSUME NEW T, NEW N, NEW tree \in Seq(N), NEW x, Says(T, tree, x)
    PROVE  Texts(tree) = x /\ x \in Seq(Seq(T))
<1> DEFINE len == Len(tree)
           IsLoop(f) == f = [n \in 0..len |-> IF n = 0 THEN << >> ELSE UnparseNode(f[n - 1], tree[n])]
           r == CHOOSE f : IsLoop(f)
<1>1. len \in Nat
      OBVIOUS
<1>2. PICK run : IsUnparsing(T, tree, run) /\ run[len] = x
      BY DEF Says
<1> DEFINE Z == Seq(Seq(T))
<1>3. /\ run \in [0..len -> Z] /\ run[0] = << >>
      /\ \A n \in 1..len : run[n] = UnparseNode(run[n - 1], tree[n])
      BY <1>2 DEF IsUnparsing
<1>8. x \in Seq(Seq(T))
      BY <1>1, <1>2, <1>3
<1> HIDE DEF Z
<1>4. IsLoop(run)
  <2> HIDE DEF len
  <2>1. \A n \in 0..len : n # 0 => n \in 1..len
        BY <1>1
  <2>2. \A n \in 0..len : run[n] = IF n = 0 THEN << >> ELSE UnparseNode(run[n - 1], tree[n])
        BY <1>3, <2>1
  <2> QED BY <1>3, <2>2
<1>5. IsLoop(r)
  <2> HIDE DEF IsLoop
  <2> QED BY <1>4
<1>6. Texts(tree) = r[len]
      BY DEF Texts, LeftToRight
<1> HIDE DEF r
<1>9. r[0] = << >> /\ \A n \in 1..len : r[n] = UnparseNode(r[n - 1], tree[n])
  <2> HIDE DEF len
  <2>1. 0 \in 0..len /\ \A n \in 1..len : n \in 0..len /\ n # 0
        BY <1>1
  <2> QED BY <1>5, <2>1
<1> HIDE DEF IsLoop, len
<1>7. \A n \in 0..len : r[n] = run[n]
  <2> DEFINE U == {n \in 0..len : r[n] = run[n]}
  <2>1. 0 \in U
        BY <1>1, <1>3, <1>9
  <2>2. ASSUME NEW n \in 0..(len - 1), n \in U
        PROVE  n + 1 \in U
    <3> DEFINE m == n + 1
    <3>1. m \in 1..len /\ m - 1 = n
          BY <1>1
    <3>2. r[m] = UnparseNode(r[n], tree[m]) /\ run[m] = UnparseNode(run[n], tree[m])
      <4> HIDE DEF m
      <4> QED BY <1>3, <1>9, <3>1
    <3> HIDE DEF m
    <3>3. m \in U
          BY <1>1, <2>2, <3>1, <3>2
    <3> QED BY <3>3 DEF m
  <2>3. 0..len \subseteq U
    <3> HIDE DEF U
    <3> QED BY <1>1, <2>1, <2>2, NaturalsUpTo
  <2> QED BY <1>1, <2>3
<1>10. r[len] = run[len]
       BY <1>1, <1>7
<1> QED BY <1>2, <1>6, <1>8, <1>10

LEMMA SaysNone ==
    ASSUME NEW T
    PROVE  Says(T, << >>, << >>)
<1> DEFINE run == [n \in 0..0 |-> << >>]
<1>1. Len(<< >>) = 0 /\ << >> \in Seq(Seq(T)) /\ run[0] = << >> /\ 1..0 = {}
      OBVIOUS
<1>2. run \in [0..0 -> Seq(Seq(T))]
      BY <1>1
<1> HIDE DEF run
<1>3. IsUnparsing(T, << >>, run) /\ run[Len(<< >>)] = << >>
      BY <1>1, <1>2 DEF IsUnparsing
<1> QED BY <1>3 DEF Says

LEMMA SaysNext ==
    ASSUME NEW T, Punctuation \subseteq T, NEW N, NEW tree \in Seq(N), NEW node \in N,
           NEW x, Says(T, tree, x), Fits(T, x, node)
    PROVE  Says(T, Append(tree, node), UnparseNode(x, node))
<1> DEFINE tt == Append(tree, node)
           k == Len(tree)
           l == k + 1
           y == UnparseNode(x, node)
<1>1. PICK run : IsUnparsing(T, tree, run) /\ run[k] = x
      BY DEF Says
<1>2. /\ k \in Nat /\ l \in Nat /\ l # 0 /\ l \notin 0..k /\ Len(tt) = l /\ tt[l] = node
      /\ (\A n \in 1..k : tt[n] = tree[n]) /\ 0..l = (0..k) \cup {l} /\ 1..l = (1..k) \cup {l} /\ l - 1 = k
      OBVIOUS
<1>3. x \in Seq(Seq(T)) /\ y \in Seq(Seq(T))
      BY SaysTexts, UnparseTyped
<1> DEFINE longer == [n \in 0..l |-> IF n = l THEN y ELSE run[n]]
<1> HIDE DEF tt, k, l, y
<1>4. /\ longer[l] = y /\ (\A n \in 0..k : longer[n] = run[n]) /\ longer \in [0..l -> Seq(Seq(T))]
      /\ longer[0] = << >>
  <2> DEFINE Z == Seq(Seq(T))
  <2>1. run \in [0..k -> Z] /\ run[0] = << >> /\ y \in Z
        BY <1>1, <1>3 DEF IsUnparsing, k
  <2> HIDE DEF Z
  <2>2. l \in 0..l /\ 0 \in 0..k /\ 0 \in 0..l /\ \A n \in 0..k : n \in 0..l /\ n # l
        BY <1>2
  <2>3. longer[l] = y /\ \A n \in 0..k : longer[n] = run[n]
        BY <2>2
  <2>4. \A n \in 0..l : (IF n = l THEN y ELSE run[n]) \in Z
        BY <1>2, <2>1
  <2>5. longer \in [0..l -> Z]
        BY <2>4
  <2> HIDE DEF longer
  <2> QED BY <2>1, <2>2, <2>3, <2>5 DEF Z
<1> HIDE DEF longer
<1>5. ASSUME NEW n \in 1..l
      PROVE  Fits(T, longer[n - 1], tt[n]) /\ longer[n] = UnparseNode(longer[n - 1], tt[n])
  <2>1. CASE n = l
        BY <1>1, <1>2, <1>4, <2>1 DEF y
  <2>2. CASE n \in 1..k
    <3>1. n - 1 \in 0..k /\ n \in 0..k
          BY <1>2, <2>2
    <3>2. Fits(T, run[n - 1], tree[n]) /\ run[n] = UnparseNode(run[n - 1], tree[n])
          BY <1>1, <2>2 DEF IsUnparsing, k
    <3> QED BY <1>2, <1>4, <2>2, <3>1, <3>2
  <2> QED BY <1>2, <2>1, <2>2
<1>6. IsUnparsing(T, tt, longer) /\ longer[Len(tt)] = y
      BY <1>2, <1>4, <1>5 DEF IsUnparsing
<1> QED BY <1>6 DEF Says, tt, y

(* Trees next to each other say what they say apart. *)
LEMMA SaysJoined ==
    ASSUME NEW T, Punctuation \subseteq T, NEW N, NEW left \in Seq(N), NEW right \in Seq(N),
           NEW x, Says(T, left, x), NEW y, Says(T, right, y)
    PROVE  Says(T, left \o right, x \o y)
<1> DEFINE tree == left \o right
           k == Len(left)
           l == Len(right)
           m == k + l
<1>1. PICK f : IsUnparsing(T, left, f) /\ f[k] = x
      BY DEF Says
<1>2. PICK g : IsUnparsing(T, right, g) /\ g[l] = y
      BY DEF Says
<1>3. k \in Nat /\ l \in Nat /\ m \in Nat /\ m = k + l
      OBVIOUS
<1>4. /\ tree \in Seq(N) /\ Len(tree) = m
      /\ \A n \in 1..m : tree[n] = IF n <= k THEN left[n] ELSE right[n - k]
      BY ConcatProperties
<1>5. x \in Seq(Seq(T)) /\ y \in Seq(Seq(T))
      BY SaysTexts
<1>6. /\ f[0] = << >> /\ f[k] = x /\ (\A n \in 0..k : f[n] \in Seq(Seq(T)))
      /\ \A n \in 1..k : Fits(T, f[n - 1], left[n]) /\ f[n] = UnparseNode(f[n - 1], left[n])
      BY <1>1 DEF IsUnparsing
<1>7. /\ g[0] = << >> /\ g[l] = y /\ (\A n \in 0..l : g[n] \in Seq(Seq(T)))
      /\ \A n \in 1..l : Fits(T, g[n - 1], right[n]) /\ g[n] = UnparseNode(g[n - 1], right[n])
      BY <1>2 DEF IsUnparsing
<1> DEFINE run == [n \in 0..m |-> IF n <= k THEN f[n] ELSE x \o g[n - k]]
<1> HIDE DEF tree, k, l, m
<1>8. \A n \in 0..l : x \o g[n] \in Seq(Seq(T))
      BY <1>5, <1>7, ConcatProperties
<1>9. run \in [0..m -> Seq(Seq(T))]
  <2>1. ASSUME NEW n \in 0..m
        PROVE  (IF n <= k THEN f[n] ELSE x \o g[n - k]) \in Seq(Seq(T))
    <3>1. n <= k => n \in 0..k
          BY <1>3
    <3>2. ~(n <= k) => n - k \in 0..l
          BY <1>3
    <3> QED BY <1>6, <1>8, <3>1, <3>2
  <2> QED BY <2>1
<1>10. \A n \in 0..m : n <= k => run[n] = f[n]
       OBVIOUS
<1>11. \A n \in 0..m : ~(n <= k) => run[n] = x \o g[n - k]
       OBVIOUS
<1>12. x \o << >> = x
       BY <1>5, ConcatEmptySeq
<1> HIDE DEF run
<1>13. \A n \in 0..l : run[k + n] = x \o g[n]
  <2> TAKE n \in 0..l
  <2>1. k + n \in 0..m /\ (k + n) - k = n /\ (k + n <= k <=> n = 0) /\ k + 0 = k
        BY <1>3
  <2>2. CASE n = 0
        BY <1>6, <1>7, <1>10, <1>12, <2>1, <2>2
  <2>3. CASE n # 0
        BY <1>11, <2>1, <2>3
  <2> QED BY <2>2, <2>3
<1>14. ASSUME NEW n \in 1..m
       PROVE  Fits(T, run[n - 1], tree[n]) /\ run[n] = UnparseNode(run[n - 1], tree[n])
  <2>1. CASE n <= k
    <3>1. n \in 1..k /\ n \in 0..m /\ n - 1 \in 0..m /\ n - 1 <= k
          BY <1>3, <2>1
    <3>2. run[n] = f[n] /\ run[n - 1] = f[n - 1] /\ tree[n] = left[n]
          BY <1>4, <1>10, <2>1, <3>1
    <3> QED BY <1>6, <3>1, <3>2
  <2>2. CASE ~(n <= k)
    <3> DEFINE i == n - k
               j == i - 1
    <3>1. i \in 1..l /\ j \in 0..l /\ i \in 0..l /\ k + i = n /\ k + j = n - 1 /\ j = i - 1
          BY <1>3, <2>2
    <3>2. tree[n] = right[i]
          BY <1>4, <2>2
    <3> HIDE DEF i, j
    <3>3. run[n] = x \o g[i] /\ run[n - 1] = x \o g[j]
          BY <1>13, <3>1
    <3>4. Fits(T, g[j], right[i]) /\ g[i] = UnparseNode(g[j], right[i]) /\ g[j] \in Seq(Seq(T))
          BY <1>7, <3>1
    <3>5. UnparseNode(x \o g[j], right[i]) = x \o UnparseNode(g[j], right[i]) /\ Fits(T, x \o g[j], right[i])
          BY <1>5, <3>4, UnparseAbove
    <3> QED BY <3>2, <3>3, <3>4, <3>5
  <2> QED BY <2>1, <2>2
<1>15. run[0] = << >> /\ run[m] = x \o y
  <2>1. 0 \in 0..m /\ 0 <= k /\ l \in 0..l
        BY <1>3
  <2> QED BY <1>3, <1>6, <1>7, <1>10, <1>13, <2>1
<1>16. IsUnparsing(T, tree, run) /\ run[Len(tree)] = x \o y
       BY <1>4, <1>9, <1>14, <1>15 DEF IsUnparsing
<1> QED BY <1>16 DEF Says, tree

-----------------------------------------------------------------------------
(* What has been said when the parser is in some calls: the names of the    *)
(* calls and their arguments so far, with a comma where one must follow.    *)
Word == Token \cup Punctuation \cup {AssignWord, Equals}

Body(call) == <<call.callee, Open>> \o Separated(Texts(call.tree))

Lead(call) == IF Texts(call.tree) = << >> THEN Body(call) ELSE Append(Body(call), Comma)

Leads(calls) == FlattenSeq([n \in DOMAIN calls |-> Lead(calls[n])])

Said(name, calls) == Header(name) \o Leads(calls)

(* The arguments of a call are as many as its tree says. *)
Sound(call) == Says(Word, call.tree, Texts(call.tree)) /\ Len(Texts(call.tree)) = call.args

LEMMA WordsTyped ==
    /\ Punctuation \subseteq Word /\ Comma \in Word /\ Open \in Word /\ Close \in Word
    /\ AssignWord \in Word /\ Equals \in Word
    /\ \A t \in Token : t \in Word
BY DEF Word, Punctuation

LEMMA HeaderTyped ==
    ASSUME NEW name \in Token
    PROVE  Header(name) \in Seq(Word)
<1>1. name \in Word /\ AssignWord \in Word /\ Equals \in Word
      BY WordsTyped
<1>2. <<AssignWord, name, Equals>> \in Seq(Word) /\ << >> \in Seq(Word)
      BY <1>1
<1> QED BY <1>2 DEF Header

LEMMA BodyTyped ==
    ASSUME NEW call \in Frame, Sound(call)
    PROVE  /\ Texts(call.tree) \in Seq(Seq(Word)) /\ Separated(Texts(call.tree)) \in Seq(Word)
           /\ <<call.callee, Open>> \in Seq(Word) /\ Body(call) \in Seq(Word) /\ Lead(call) \in Seq(Word)
<1>1. call.callee \in Word /\ call.tree \in Seq(Node) /\ Punctuation \subseteq Word /\ Comma \in Word /\ Open \in Word
      BY WordsTyped DEF Frame, Tree
<1> DEFINE x == Texts(call.tree)
<1>2. Says(Word, call.tree, x)
      BY DEF Sound
<1> HIDE DEF x
<1>3. x \in Seq(Seq(Word))
      BY <1>1, <1>2, SaysTexts
<1>4. Separated(x) \in Seq(Word)
      BY <1>1, <1>3, SeparatedTyped
<1>5. <<call.callee, Open>> \in Seq(Word)
      BY <1>1
<1>6. Body(call) \in Seq(Word)
  <2>1. <<call.callee, Open>> \o Separated(x) \in Seq(Word)
        BY <1>4, <1>5, ConcatProperties
  <2> QED BY <2>1 DEF Body, x
<1>7. Append(Body(call), Comma) \in Seq(Word)
      BY <1>1, <1>6, AppendProperties
<1> QED BY <1>3, <1>4, <1>5, <1>6, <1>7 DEF Lead, x

LEMMA LeadsTyped ==
    ASSUME NEW calls \in Seq(Frame), \A n \in DOMAIN calls : Sound(calls[n])
    PROVE  /\ [n \in DOMAIN calls |-> Lead(calls[n])] \in Seq(Seq(Word))
           /\ Leads(calls) \in Seq(Word)
<1> DEFINE k == Len(calls)
           s == [n \in DOMAIN calls |-> Lead(calls[n])]
<1>1. k \in Nat /\ DOMAIN calls = 1..k /\ \A n \in 1..k : calls[n] \in Frame
      OBVIOUS
<1>2. \A n \in 1..k : Lead(calls[n]) \in Seq(Word)
      BY <1>1, BodyTyped
<1>3. s \in [1..k -> Seq(Word)]
      BY <1>1, <1>2
<1> HIDE DEF s, k
<1>4. s \in Seq(Seq(Word))
      BY <1>1, <1>3
<1>5. FlattenSeq(s) \in Seq(Word)
      BY <1>4, FlattenTyped
<1> QED BY <1>4, <1>5 DEF Leads, s

LEMMA LeadsNext ==
    ASSUME NEW calls \in Seq(Frame), \A n \in DOMAIN calls : Sound(calls[n]),
           NEW call \in Frame, Sound(call)
    PROVE  Leads(Append(calls, call)) = Leads(calls) \o Lead(call)
<1> DEFINE longer == Append(calls, call)
           k == Len(calls)
           l == k + 1
           s == [n \in DOMAIN calls |-> Lead(calls[n])]
           t == [n \in DOMAIN longer |-> Lead(longer[n])]
           z == Lead(call)
           sz == Append(s, z)
<1>1. /\ k \in Nat /\ l \in Nat /\ DOMAIN calls = 1..k /\ DOMAIN longer = 1..l /\ longer \in Seq(Frame)
      /\ longer[l] = call /\ (\A n \in 1..k : longer[n] = calls[n]) /\ 1..l = (1..k) \cup {l}
      OBVIOUS
<1> HIDE DEF longer, k, l
<1>2. \A n \in DOMAIN longer : Sound(longer[n])
      BY <1>1
<1>3. s \in Seq(Seq(Word)) /\ t \in Seq(Seq(Word)) /\ z \in Seq(Word)
      BY <1>1, <1>2, LeadsTyped, BodyTyped
<1>4. DOMAIN s = 1..k /\ DOMAIN t = 1..l
      BY <1>1
<1>5. t[l] = z /\ \A n \in 1..k : t[n] = s[n]
      BY <1>1
<1> HIDE DEF s, t, z
<1>6. Len(s) = k /\ Len(t) = l
      BY <1>1, <1>3, <1>4
<1>7. sz \in Seq(Seq(Word)) /\ Len(sz) = l /\ sz[l] = z /\ \A n \in 1..k : sz[n] = s[n]
      BY <1>1, <1>3, <1>6 DEF l, k
<1> HIDE DEF sz
<1>8. t = sz
  <2>1. \A n \in 1..l : t[n] = sz[n]
        BY <1>1, <1>5, <1>7
  <2> QED BY <1>3, <1>6, <1>7, <2>1
<1>9. FlattenSeq(t) = FlattenSeq(s) \o z
      BY <1>3, <1>8, FlattenAppend DEF sz
<1> QED BY <1>9 DEF Leads, s, t, z, longer

LEMMA FrontAndLast ==
    ASSUME NEW T, NEW calls \in Seq(T), calls # << >>
    PROVE  calls = Append(Front(calls), Last(calls))
<1> DEFINE u == Front(calls)
           x == Last(calls)
           v == Append(u, x)
           k == Len(calls)
           m == Len(u)
<1>1. /\ k \in Nat \ {0} /\ x = calls[k] /\ x \in T /\ u \in Seq(T) /\ m + 1 = k
      /\ DOMAIN u = {n \in DOMAIN calls : n # k} /\ (\A n \in DOMAIN u : u[n] = calls[n]) /\ DOMAIN calls = 1..k
      BY LastCall
<1> HIDE DEF u, x
<1>2. m \in Nat /\ DOMAIN u = 1..m
      BY <1>1
<1>3. v \in Seq(T) /\ Len(v) = m + 1 /\ v[m + 1] = x /\ \A n \in 1..m : v[n] = u[n]
      BY <1>1
<1> HIDE DEF v, m, k
<1>4. v \in Seq(T) /\ Len(v) = k /\ v[k] = x /\ \A n \in 1..m : v[n] = calls[n]
      BY <1>1, <1>2, <1>3
<1>5. \A n \in 1..k : n = k \/ n \in 1..m
      BY <1>1, <1>2
<1>6. \A n \in 1..k : v[n] = calls[n]
      BY <1>1, <1>4, <1>5
<1>7. v = calls
      BY <1>4, <1>6 DEF k
<1> QED BY <1>7 DEF v, u, x

OneMore(s, e) == s \o <<e>> = Append(s, e) /\ Append(s, e) # << >> /\ Len(Append(s, e)) = Len(s) + 1

LEMMA OneJoined ==
    ASSUME NEW T, NEW s \in Seq(T), NEW e \in T
    PROVE  OneMore(s, e)
BY AppendIsConcat, AppendProperties DEF OneMore

LEMMA SaidTyped ==
    ASSUME NEW name \in Token, NEW calls \in Seq(Frame), \A n \in DOMAIN calls : Sound(calls[n])
    PROVE  Said(name, calls) \in Seq(Word)
BY HeaderTyped, LeadsTyped, ConcatProperties DEF Said

(* A call more. *)
LEMMA SaidNext ==
    ASSUME NEW name \in Token, NEW calls \in Seq(Frame), \A n \in DOMAIN calls : Sound(calls[n]),
           NEW call \in Frame, Sound(call)
    PROVE  Said(name, Append(calls, call)) = Said(name, calls) \o Lead(call)
<1> DEFINE h == Header(name)
           a == Leads(calls)
           b == Lead(call)
<1>1. h \in Seq(Word) /\ a \in Seq(Word) /\ b \in Seq(Word)
      BY HeaderTyped, LeadsTyped, BodyTyped
<1>2. Leads(Append(calls, call)) = a \o b
      BY LeadsNext
<1>3. (h \o a) \o b = h \o (a \o b)
  <2> HIDE DEF h, a, b
  <2> QED BY ONLY <1>1, ConcatAssociative
<1> QED BY <1>2, <1>3 DEF Said

LEMMA SaidLast ==
    ASSUME NEW name \in Token, NEW calls \in Seq(Frame), \A n \in DOMAIN calls : Sound(calls[n]),
           calls # << >>
    PROVE  /\ Last(calls) \in Frame /\ Sound(Last(calls))
           /\ Front(calls) \in Seq(Frame) /\ \A n \in DOMAIN Front(calls) : Sound(Front(calls)[n])
           /\ Said(name, Front(calls)) \in Seq(Word)
           /\ Said(name, calls) = Said(name, Front(calls)) \o Lead(Last(calls))
<1> DEFINE u == Front(calls)
           x == Last(calls)
<1>1. /\ Len(calls) \in DOMAIN calls /\ x = calls[Len(calls)] /\ x \in Frame /\ u \in Seq(Frame)
      /\ DOMAIN u = {n \in DOMAIN calls : n # Len(calls)} /\ (\A n \in DOMAIN u : u[n] = calls[n])
  <2> HIDE DEF u, x
  <2>1. /\ Len(calls) \in Nat \ {0} /\ DOMAIN calls = 1..Len(calls)
        /\ x = calls[Len(calls)] /\ x \in Frame /\ u \in Seq(Frame)
        /\ DOMAIN u = {n \in DOMAIN calls : n # Len(calls)} /\ (\A n \in DOMAIN u : u[n] = calls[n])
    <3>1. calls \in Seq(Frame) /\ calls # << >>
          OBVIOUS
    <3> QED BY ONLY <3>1, LastCall DEF u, x
  <2> QED BY <2>1
<1>2. calls = Append(u, x)
      BY FrontAndLast
<1> HIDE DEF u, x
<1>3. Sound(x) /\ \A n \in DOMAIN u : Sound(u[n])
      BY <1>1
<1>4. Said(name, Append(u, x)) = Said(name, u) \o Lead(x) /\ Said(name, u) \in Seq(Word)
      BY <1>1, <1>3, SaidNext, SaidTyped
<1> QED BY <1>1, <1>2, <1>3, <1>4 DEF u, x

LEMMA UnparseIs ==
    ASSUME NEW N, NEW tree \in Seq(N), NEW T, NEW u, Says(T, tree, <<u>>)
    PROVE  Unparse(tree) = u /\ u \in Seq(T)
<1>1. Texts(tree) = <<u>> /\ <<u>> \in Seq(Seq(T))
      BY SaysTexts
<1>2. <<u>>[1] = u /\ u \in Seq(T)
      BY <1>1
<1> QED BY <1>1, <1>2 DEF Unparse, Texts

LEMMA LeafSays ==
    ASSUME NEW node \in Node, node # Null, node.node # "call"
    PROVE  Says(Word, <<node>>, << <<node.token>> >>)
<1>1. node.token \in Word /\ Punctuation \subseteq Word
      BY WordsTyped DEF Node
<1>2. Fits(Word, << >>, node)
      BY <1>1 DEF Fits
<1>3. << >> \in Seq(Node) /\ Says(Word, << >>, << >>)
      BY SaysNone
<1>4. UnparseNode(<< >>, node) = Append(<< >>, <<node.token>>)
      BY UnparseLeaf
<1>5. Says(Word, Append(<< >>, node), UnparseNode(<< >>, node))
      BY <1>1, <1>2, <1>3, SaysNext
<1>6. Append(<< >>, node) = <<node>> /\ Append(<< >>, <<node.token>>) = << <<node.token>> >>
      OBVIOUS
<1> QED BY <1>4, <1>5, <1>6

(* Args.push_back. *)
LEMMA ArgumentSaid ==
    ASSUME NEW call \in Frame, Sound(call), NEW tree \in Tree, NEW u, Says(Word, tree, <<u>>),
           NEW longer, longer = [callee |-> call.callee, tree |-> call.tree \o tree, args |-> call.args + 1]
    PROVE  /\ Sound(longer) /\ Body(longer) = Lead(call) \o u
           /\ Lead(longer) = Append(Body(longer), Comma)
<1> DEFINE x == Texts(call.tree)
           xu == Append(x, u)
           o == <<call.callee, Open>>
<1>1. /\ x \in Seq(Seq(Word)) /\ Separated(x) \in Seq(Word) /\ o \in Seq(Word) /\ Body(call) \in Seq(Word)
      /\ Says(Word, call.tree, x) /\ Len(x) = call.args /\ call.tree \in Seq(Node) /\ tree \in Seq(Node)
      BY BodyTyped DEF Sound, Frame, Tree
<1>2. u \in Seq(Word)
      BY <1>1, UnparseIs
<1>3. longer.callee = call.callee /\ longer.tree = call.tree \o tree /\ longer.args = call.args + 1
      OBVIOUS
<1>4. call.tree \o tree \in Seq(Node)
      BY <1>1, ConcatProperties
<1> HIDE DEF x
<1>5. x \o <<u>> = xu /\ xu # << >> /\ Len(xu) = Len(x) + 1
  <2>1. OneMore(x, u)
        BY <1>1, <1>2, OneJoined
  <2> QED BY <2>1 DEF OneMore
<1>6. Says(Word, call.tree \o tree, xu)
  <2>1. Says(Word, call.tree \o tree, x \o <<u>>)
        BY <1>1, WordsTyped, SaysJoined
  <2> QED BY <1>5, <2>1
<1>7. Texts(longer.tree) = xu
      BY <1>3, <1>4, <1>6, SaysTexts
<1>8. Sound(longer)
      BY <1>1, <1>3, <1>5, <1>6, <1>7 DEF Sound
<1>9. Body(longer) = o \o Separated(xu)
      BY <1>3, <1>7 DEF Body
<1>10. Body(longer) = Lead(call) \o u
  <2>1. CASE x = << >>
    <3>1. Separated(xu) = u /\ Separated(x) = << >>
          BY <1>1, <1>2, <2>1, WordsTyped, SeparatedNext, SeparatedNone
    <3>2. Lead(call) = o \o << >>
          BY <2>1, <3>1 DEF Lead, Body, x
    <3>3. o \o << >> = o
          BY <1>1, ConcatEmptySeq
    <3> QED BY <1>9, <3>1, <3>2, <3>3
  <2>2. CASE x # << >>
    <3> DEFINE b == Body(call)
               c == <<Comma>>
               s == Separated(x)
    <3>1. Separated(xu) = s \o (c \o u)
          BY <1>1, <1>2, <2>2, WordsTyped, SeparatedNext
    <3>2. b = o \o s /\ Lead(call) = Append(b, Comma)
          BY <2>2 DEF Lead, Body, x
    <3>3. c \in Seq(Word) /\ s \in Seq(Word) /\ b \in Seq(Word)
          BY <1>1, WordsTyped
    <3>4. Append(b, Comma) = b \o c
          BY <3>3, WordsTyped, AppendIsConcat
    <3> HIDE DEF b, c, s, o, xu
    <3>5. c \o u \in Seq(Word)
          BY <1>2, <3>3, ConcatProperties
    <3> HIDE DEF Word
    <3>6. Associates(o, s, c \o u) /\ Associates(b, c, u)
          BY <1>1, <1>2, <3>3, <3>5, ThreeJoined
    <3>7. o \o (s \o (c \o u)) = (o \o s) \o (c \o u) /\ b \o (c \o u) = (b \o c) \o u
          BY ONLY <3>6 DEF Associates
    <3> QED BY <1>9, <3>1, <3>2, <3>4, <3>7
  <2> QED BY <2>1, <2>2
<1>11. Lead(longer) = Append(Body(longer), Comma)
       BY <1>5, <1>7 DEF Lead
<1> QED BY <1>8, <1>10, <1>11

(* The list of arguments ends. *)
LEMMA CallSays ==
    ASSUME NEW call \in Frame, Sound(call), NEW tree, tree = call.tree \o <<Call(call.callee, call.args)>>
    PROVE  tree \in Tree /\ Says(Word, tree, <<Append(Body(call), Close)>>)
<1> DEFINE x == Texts(call.tree)
           node == Call(call.callee, call.args)
           o == <<call.callee, Open>>
<1>1. /\ x \in Seq(Seq(Word)) /\ Separated(x) \in Seq(Word) /\ o \in Seq(Word) /\ Body(call) \in Seq(Word)
      /\ Says(Word, call.tree, x) /\ Len(x) = call.args /\ call.tree \in Seq(Node)
      BY BodyTyped DEF Sound, Frame, Tree
<1>2. call.callee \in Token /\ call.args \in Nat
      BY DEF Frame
<1>3. node \in Node /\ node # Null /\ node.token = call.callee /\ node.node = "call" /\ node.args = call.args
      BY <1>2, NodesTyped DEF Call
<1> HIDE DEF node, x
<1>4. Fits(Word, x, node)
      BY <1>1, <1>2, <1>3, WordsTyped DEF Fits
<1>5. tree = Append(call.tree, node) /\ tree \in Seq(Node)
  <2>1. tree = call.tree \o <<node>>
        BY DEF node
  <2>2. call.tree \o <<node>> = Append(call.tree, node) /\ Append(call.tree, node) \in Seq(Node)
        BY <1>1, <1>3
  <2> QED BY <2>1, <2>2
<1>6. Says(Word, tree, UnparseNode(x, node))
  <2>1. Says(Word, Append(call.tree, node), UnparseNode(x, node))
        BY <1>1, <1>3, <1>4, WordsTyped, SaysNext
  <2> QED BY <1>5, <2>1
<1>7. UnparseNode(x, node) = <<Written(node, x)>>
  <2> DEFINE below == Len(x) - node.args
             w == Written(node, x)
  <2>1. below = 0
        BY <1>1, <1>2, <1>3
  <2>2. UnparseNode(x, node) = Append(SubSeq(x, 1, below), Written(node, SubSeq(x, below + 1, Len(x))))
        BY <1>3, UnparseCall
  <2> HIDE DEF below
  <2>3. SubSeq(x, 1, 0) = << >> /\ SubSeq(x, 0 + 1, Len(x)) = x
        BY <1>1
  <2>4. UnparseNode(x, node) = Append(<< >>, w)
        BY <2>1, <2>2, <2>3
  <2> HIDE DEF w
  <2>5. Append(<< >>, w) = <<w>>
        OBVIOUS
  <2> QED BY <2>4, <2>5 DEF w
<1>8. Written(node, x) = Append(Body(call), Close)
  <2>1. Body(call) = o \o Separated(x)
        BY DEF Body, x
  <2>2. Written(node, x) = Body(call) \o <<Close>>
        BY <1>3, <2>1 DEF Written
  <2>3. Append(Body(call), Close) = Body(call) \o <<Close>>
        BY <1>1, WordsTyped, AppendIsConcat
  <2> QED BY <2>2, <2>3
<1> QED BY <1>5, <1>6, <1>7, <1>8 DEF Tree

-----------------------------------------------------------------------------
(* As long as there is no error in the statement, the tokens that are       *)
(* behind say what the calls, their arguments and the value say.  A comma   *)
(* follows an argument, except before the parenthesis of its list.          *)
Telling ==
    /\ \A n \in DOMAIN frames : Sound(frames[n])
    /\ pc = "expression" => Tells(S, Position, Said(target, frames))
    /\ pc = "arguments" =>
          \/ Tells(S, Position, Said(target, frames))
          \/ /\ Peek(Position) = Close
             /\ Tells(S, Position, Said(target, Front(frames)) \o Body(Last(frames)))
    /\ pc = "returned" =>
          \E u : Says(Word, value, <<u>>) /\ Tells(S, Position, Said(target, frames) \o u)

Told == Parsing /\ statement \notin errors => Telling

LEMMA TellingNext ==
    ASSUME Typed, NEW position, NEW next, Continue(position, next),
           \A n \in DOMAIN frames' : Sound(frames'[n]),
           next = "expression" => Tells(S, position, Said(target', frames')),
           next = "arguments" =>
              \/ Tells(S, position, Said(target', frames'))
              \/ /\ Peek(position) = Close
                 /\ Tells(S, position, Said(target', Front(frames')) \o Body(Last(frames'))),
           next = "returned" =>
              \E u : Says(Word, value', <<u>>) /\ Tells(S, position, Said(target', frames') \o u)
    PROVE  Telling'
<1>1. S' = S /\ Token' = Token /\ Position' = position /\ pc' = next
      BY Continued
<1>2. Word' = Word
      BY <1>1 DEF Word
<1>3. (\A n \in DOMAIN frames : Sound(frames[n]))'
      BY <1>2 DEF Sound
<1>4. (Peek(Position) = Close)' <=> Peek(position) = Close
      BY <1>1 DEF Peek
<1> QED BY <1>1, <1>2, <1>3, <1>4 DEF Telling

LEMMA EatTold ==
    ASSUME S \in Seq(Token), NEW p \in Nat, p < Len(S), NEW q, q = p + 1, NEW said, Tells(S, p, said)
    PROVE  Tells(S, q, Append(said, Peek(p)))
<1>1. Peek(p) = S[q]
      BY PeekIs
<1> DEFINE s == S
<1>2. s \in Seq(Token) /\ p < Len(s) /\ Tells(s, p, said)
      OBVIOUS
<1> HIDE DEF s
<1>3. Tells(s, q, Append(said, s[q]))
      BY <1>2, TellsNext
<1> QED BY <1>1, <1>3 DEF s

LEMMA TokensAreWords ==
    ASSUME S \in Seq(Token)
    PROVE  S \in Seq(Word)
BY WordsTyped, SeqMonotonic

LEMMA NothingTold ==
    ASSUME NEW C, NEW s \in Seq(C)
    PROVE  Tells(s, 0, << >>)
<1>1. SubSeq(s, 1, 0) = << >> /\ 0 <= Len(s)
      OBVIOUS
<1>2. {} \in SUBSET Trailing(<< >>) /\ Without({}, << >>) = << >>
      BY WithoutNothing
<1> QED BY <1>1, <1>2 DEF Tells

LEMMA NoCallSaid ==
    ASSUME NEW name \in Token
    PROVE  Said(name, << >>) = Header(name)
<1>1. [n \in DOMAIN << >> |-> Lead(<< >>[n])] = << >>
      OBVIOUS
<1>2. Leads(<< >>) = << >>
      BY <1>1, FlattenNone DEF Leads
<1>3. Header(name) \o << >> = Header(name)
      BY HeaderTyped, ConcatEmptySeq
<1> QED BY <1>2, <1>3 DEF Said

LEMMA SameElements ==
    ASSUME NEW T, NEW v \in Seq(T), NEW w \in Seq(T), NEW k \in Nat, Len(v) = k, Len(w) = k,
           \A n \in 1..k : v[n] = w[n]
    PROVE  v = w
OBVIOUS

IsLonger(T, k, u, l, v, z) ==
    /\ v \in Seq(T) /\ Len(v) = l /\ v[l] = z
    /\ \A n \in 1..k : v[n] = u[n]

LEMMA Longer ==
    ASSUME NEW T, NEW u \in Seq(T), NEW z \in T, NEW k, NEW l, k = Len(u), l = k + 1
    PROVE  IsLonger(T, k, u, l, Append(u, z), z)
BY DEF IsLonger

LEMMA ThirdToken ==
    ASSUME NEW T, NEW u \in Seq(T), Len(u) = 2, NEW z \in T
    PROVE  Append(u, z) = <<u[1], u[2], z>>
<1> DEFINE v == Append(u, z)
           w == <<u[1], u[2], z>>
           k == 2
           l == 3
<1>1. v \in Seq(T) /\ Len(v) = 3 /\ v[1] = u[1] /\ v[2] = u[2] /\ v[3] = z
  <2>1. k = Len(u) /\ l = k + 1 /\ 1 \in 1..k /\ 2 \in 1..k
        OBVIOUS
  <2> HIDE DEF k, l
  <2>2. IsLonger(T, k, u, l, v, z)
        BY <2>1, Longer
  <2> HIDE DEF v
  <2> QED BY <2>1, <2>2 DEF IsLonger, l
<1>2. u[1] \in T /\ u[2] \in T
      OBVIOUS
<1>3. w \in Seq(T) /\ Len(w) = 3 /\ w[1] = u[1] /\ w[2] = u[2] /\ w[3] = z
      BY <1>2
<1> HIDE DEF v, w
<1>4. \A n \in 1..3 : v[n] = w[n]
      BY <1>1, <1>3
<1>5. v = w
      BY <1>1, <1>3, <1>4, SameElements
<1> QED BY <1>5 DEF v, w

LEMMA OneByOne ==
    ASSUME NEW T, NEW x \in T, NEW y \in T, NEW z \in T
    PROVE  /\ Append(Append(<< >>, x), y) = <<x, y>>
           /\ Append(Append(Append(<< >>, x), y), z) = <<x, y, z>>
<1>1. Append(<< >>, x) = <<x>> /\ <<x>> \in Seq(T) /\ Len(<<x>>) = 1 /\ <<x>>[1] = x
      OBVIOUS
<1>2. Append(<<x>>, y) = <<x, y>>
  <2> DEFINE v == Append(<<x>>, y)
             w == <<x, y>>
  <2>1. v \in Seq(T) /\ Len(v) = 2 /\ v[1] = x /\ v[2] = y
        BY <1>1
  <2>2. w \in Seq(T) /\ Len(w) = 2 /\ w[1] = x /\ w[2] = y
        OBVIOUS
  <2> HIDE DEF v, w
  <2>3. \A n \in 1..2 : v[n] = w[n]
        BY <2>1, <2>2
  <2>4. v = w
        BY <2>1, <2>2, <2>3
  <2> QED BY <2>4 DEF v, w
<1> DEFINE u == <<x, y>>
<1>3. u \in Seq(T) /\ Len(u) = 2 /\ u[1] = x /\ u[2] = y
      OBVIOUS
<1> HIDE DEF u
<1>4. Append(u, z) = <<u[1], u[2], z>>
      BY <1>3, ThirdToken
<1> QED BY <1>1, <1>2, <1>3, <1>4 DEF u

-----------------------------------------------------------------------------
(* The steps. *)
LEMMA EvaluationTold ==
    ASSUME Inv, ParseEvaluation
    PROVE  Telling'
<1>1. /\ statement <= Len(Stmts) /\ frames = << >> /\ Continue(0, "expression")
      /\ target' = NoName /\ frames' = frames
      BY DEF ParseEvaluation, InStatement, Inv, Placed
<1>2. Typed /\ S \in Seq(Token)
      BY <1>1, StatementTokens DEF Inv
<1>3. NoName \in Token /\ Header(NoName) = << >>
      BY DEF NoName, Token, Header
<1>4. Tells(S, 0, << >>)
      BY <1>2, NothingTold
<1>5. Said(NoName, << >>) = << >>
      BY <1>3, NoCallSaid
<1>6. Tells(S, 0, Said(target', frames'))
      BY <1>1, <1>4, <1>5
<1>7. \A n \in DOMAIN frames' : Sound(frames'[n])
      BY <1>1
<1> QED BY <1>1, <1>2, <1>6, <1>7, TellingNext

LEMMA AssignTold ==
    ASSUME Inv, TextRead, ParseAssign
    PROVE  Telling'
<1>1. /\ statement <= Len(Stmts) /\ frames = << >> /\ Continue(3, "expression") /\ pc = "statement"
      /\ target' = Peek(1) /\ frames' = frames /\ Peek(2) = Equals /\ S # << >> /\ S[1] = AssignWord
      BY DEF ParseAssign, InStatement, Assigns, Inv, Placed
<1>2. Typed /\ S \in Seq(Token)
      BY <1>1, StatementTokens DEF Inv
<1> DEFINE zero == 0
           one == 1
           two == 2
           three == 3
<1>3. zero \in Nat /\ one \in Nat /\ two \in Nat /\ one = zero + 1 /\ two = one + 1 /\ three = two + 1
      OBVIOUS
<1>4. Tells(S, zero, << >>)
      BY <1>2, NothingTold
<1>5. two < Len(S) /\ one < Len(S) /\ zero < Len(S)
  <2>1. Peek(two) # NoToken
        BY <1>1, TokensDiffer
  <2>2. two < Len(S)
    <3> HIDE DEF two
    <3> QED BY <1>2, <1>3, <2>1, PeekIs
  <2> QED BY <1>2, <2>2
<1>6. Peek(zero) = AssignWord /\ Peek(one) = S[2]
      BY <1>1, <1>2, <1>5 DEF Peek
<1>7. Peek(one) \in Token /\ Peek(one) # NoName
  <2>1. S \in Seq(Letters)
    <3>1. Stmts \in Seq(Seq(Letters)) /\ statement \in 1..Len(Stmts)
          BY <1>1 DEF TextRead, Inv, Typed
    <3> QED BY <3>1 DEF S
  <2>2. S[2] \in Letters
        BY <1>5, <2>1
  <2> QED BY <1>6, <2>2 DEF Letters, NoName, NoToken
<1> DEFINE a == Append(<< >>, Peek(zero))
           b == Append(a, Peek(one))
           c == Append(b, Peek(two))
<1> HIDE DEF zero, one, two, three
<1>8. Tells(S, one, a)
      BY <1>2, <1>3, <1>4, <1>5, EatTold
<1> HIDE DEF a
<1>9. Tells(S, two, b)
      BY <1>2, <1>3, <1>5, <1>8, EatTold
<1> HIDE DEF b
<1>10. Tells(S, three, c)
       BY <1>2, <1>3, <1>5, <1>9, EatTold
<1>11. c = Header(Peek(one))
  <2>1. Append(Append(Append(<< >>, AssignWord), Peek(one)), Equals) = <<AssignWord, Peek(one), Equals>>
    <3>1. AssignWord \in Word /\ Peek(one) \in Word /\ Equals \in Word
          BY <1>7, WordsTyped
    <3> QED BY <3>1, OneByOne
  <2>2. c = Append(Append(Append(<< >>, AssignWord), Peek(one)), Equals)
        BY <1>1, <1>6 DEF a, b, two
  <2> QED BY <1>7, <2>1, <2>2 DEF Header
<1>12. Tells(S, 3, Said(target', frames'))
  <2>1. Said(Peek(one), << >>) = Header(Peek(one))
        BY <1>7, NoCallSaid
  <2> QED BY <1>1, <1>10, <1>11, <2>1 DEF one, three
<1>13. \A n \in DOMAIN frames' : Sound(frames'[n])
       BY <1>1
<1> QED BY <1>1, <1>2, <1>12, <1>13, TellingNext

LEMMA LeafTold ==
    ASSUME Inv, Telling, pc = "expression", Position < Len(S),
           NEW node \in Node, node # Null, node.node # "call", node.token = Peek(Position),
           Continue(Position + 1, "returned"), value' = <<node>>, UNCHANGED <<target, frames>>
    PROVE  Telling'
<1> DEFINE k == Position + 1
           said == Said(target, frames)
           t == Peek(Position)
<1>1. Parsing
      BY DEF Parsing
<1>2. /\ S \in Seq(Token) /\ Position \in Nat /\ k = Position + 1 /\ target \in Token /\ frames \in Seq(Frame)
      /\ Typed /\ Continue(k, "returned")
      BY <1>1, WithinStatement DEF Inv
<1>3. (\A n \in DOMAIN frames : Sound(frames[n])) /\ Tells(S, Position, said)
      BY DEF Telling
<1>4. said \in Seq(Word) /\ t \in Word
      BY <1>2, <1>3, SaidTyped, PeekIs, WordsTyped
<1> HIDE DEF k, said
<1>5. Tells(S, k, Append(said, t))
      BY <1>2, <1>3, EatTold
<1> HIDE DEF t
<1>6. said \o <<t>> = Append(said, t)
      BY <1>4, OneJoined DEF OneMore
<1>7. Says(Word, value', << <<t>> >>)
      BY LeafSays DEF t
<1>8. \E u : Says(Word, value', <<u>>) /\ Tells(S, k, Said(target', frames') \o u)
      BY <1>5, <1>6, <1>7 DEF said
<1> QED BY <1>2, <1>3, <1>8, TellingNext

LEMMA NumberTold ==
    ASSUME Inv, Telling, ParseNumber
    PROVE  Telling'
<1>1. Parsing /\ pc = "expression"
      BY DEF Parsing, ParseNumber
<1>2. Peek(Position) \in Token /\ Position < Len(S)
      BY <1>1, WithinStatement, PeekIs, TokensDiffer DEF ParseNumber
<1> DEFINE node == Number(Peek(Position))
<1>3. node \in Node /\ node # Null /\ node.node # "call" /\ node.token = Peek(Position)
  <2>1. 0 \in Nat
        OBVIOUS
  <2> QED BY <1>2, <2>1, NodesTyped DEF Number
<1> QED BY <1>1, <1>2, <1>3, LeafTold DEF ParseNumber

LEMMA VariableTold ==
    ASSUME Inv, Telling, ParseVariable
    PROVE  Telling'
<1>1. Parsing /\ pc = "expression"
      BY DEF Parsing, ParseVariable
<1>2. Peek(Position) \in Token
      BY <1>1, WithinStatement, PeekIs
<1>3. ~(LastPeek > Len(S))
      BY Continued DEF Inv, ParseVariable
<1>4. Position < Len(S)
  <2>1. Position > Len(S) => LastPeek = Position
        BY <1>1 DEF LastPeek, Assigns, Throws
  <2>2. ~(Position > Len(S)) => LastPeek = Position + 1
        BY <1>1 DEF LastPeek, Assigns, Throws, ParseVariable
  <2> QED BY <1>1, <1>3, <2>1, <2>2, WithinStatement
<1> DEFINE node == Variable(Peek(Position))
<1>5. node \in Node /\ node # Null /\ node.node # "call" /\ node.token = Peek(Position)
  <2>1. 0 \in Nat
        OBVIOUS
  <2> QED BY <1>2, <2>1, NodesTyped DEF Variable
<1> QED BY <1>1, <1>4, <1>5, LeafTold DEF ParseVariable

LEMMA EnterTold ==
    ASSUME Inv, Telling, EnterCall
    PROVE  Telling'
<1> DEFINE k == Position + 1
           l == k + 1
           t == Peek(Position)
           call == [callee |-> t, tree |-> << >>, args |-> 0]
           said == Said(target, frames)
<1>1. Parsing /\ pc = "expression"
      BY DEF Parsing, EnterCall
<1>2. /\ S \in Seq(Token) /\ Len(S) \in Nat /\ Position \in Nat /\ target \in Token /\ frames \in Seq(Frame) /\ Typed
      /\ k \in Nat /\ k = Position + 1 /\ l = k + 1 /\ l = Position + 2
      BY <1>1, WithinStatement DEF Inv
<1>3. Continue(l, "arguments") /\ Peek(k) = Open /\ frames' = Append(frames, call) /\ target' = target
      BY <1>2 DEF EnterCall
<1>4. (\A n \in DOMAIN frames : Sound(frames[n])) /\ Tells(S, Position, said)
      BY <1>1 DEF Telling
<1> HIDE DEF k, l, said
<1>5. k < Len(S) /\ Position < Len(S)
  <2>1. k < Len(S)
        BY <1>2, <1>3, PeekIs, TokensDiffer
  <2> QED BY <1>2, <2>1
<1>6. t \in Token
      BY <1>2, PeekIs
<1> HIDE DEF t
<1>7. said \in Seq(Word) /\ t \in Word /\ Open \in Word
      BY <1>2, <1>4, <1>6, SaidTyped, WordsTyped DEF said
<1>8. Tells(S, k, Append(said, t))
      BY <1>2, <1>4, <1>5, EatTold DEF t
<1>9. Tells(S, l, Append(Append(said, t), Open))
  <2> DEFINE a == Append(said, t)
  <2>1. Tells(S, k, a)
        BY <1>8
  <2> HIDE DEF a
  <2>2. Tells(S, l, Append(a, Peek(k)))
        BY <1>2, <1>5, <2>1, EatTold
  <2> QED BY <1>3, <2>2 DEF a
<1>10. call \in Frame /\ call.tree = << >> /\ call.args = 0 /\ call.callee = t
       BY <1>6 DEF Frame, Tree
<1> HIDE DEF call
<1>11. Texts(<< >>) = << >>
  <2>1. << >> \in Seq(Node) /\ Says(Word, << >>, << >>)
        BY SaysNone
  <2> QED BY <2>1, SaysTexts
<1>12. Sound(call)
       BY <1>10, <1>11, SaysNone DEF Sound
<1>13. Lead(call) = <<t, Open>>
  <2>1. <<t, Open>> \in Seq(Word)
        BY <1>7
  <2>2. <<t, Open>> \o << >> = <<t, Open>>
        BY <2>1, ConcatEmptySeq
  <2> QED BY <1>10, <1>11, <2>2, SeparatedNone DEF Lead, Body
<1>14. Said(target', frames') = Append(Append(said, t), Open)
  <2>1. Said(target', frames') = said \o <<t, Open>>
        BY <1>2, <1>3, <1>4, <1>10, <1>12, <1>13, SaidNext DEF said
  <2> DEFINE one == Append(<< >>, t)
  <2>2. <<t, Open>> = Append(one, Open)
        BY <1>7, OneByOne
  <2>3. << >> \in Seq(Word)
        OBVIOUS
  <2>4. one \in Seq(Word)
        BY <1>7, <2>3, AppendProperties
  <2> HIDE DEF one
  <2>5. GoesOnTop(said, one, Open)
        BY <1>7, <2>4, AppendOnTop
  <2>6. GoesOnTop(said, << >>, t)
        BY <1>7, <2>3, AppendOnTop
  <2>7. said \o << >> = said
        BY <1>7, ConcatEmptySeq
  <2>8. said \o one = Append(said, t)
        BY <2>6, <2>7 DEF GoesOnTop, one
  <2> QED BY <2>1, <2>2, <2>5, <2>8 DEF GoesOnTop
<1>15. \A n \in DOMAIN frames' : Sound(frames'[n])
  <2>1. /\ DOMAIN frames' = DOMAIN frames \cup {Len(frames) + 1} /\ frames'[Len(frames) + 1] = call
        /\ \A n \in DOMAIN frames : frames'[n] = frames[n]
        BY <1>2, <1>3, <1>10
  <2> QED BY <1>4, <1>12, <2>1
<1> QED BY <1>2, <1>3, <1>9, <1>14, <1>15, TellingNext

LEMMA NextArgumentTold ==
    ASSUME Inv, Telling, NextArgument
    PROVE  Telling'
<1>1. /\ pc = "arguments" /\ Peek(Position) # Close /\ Continue(Position, "expression")
      /\ frames' = frames /\ target' = target
      BY DEF NextArgument
<1>2. (\A n \in DOMAIN frames' : Sound(frames'[n])) /\ Tells(S, Position, Said(target', frames'))
      BY <1>1 DEF Telling
<1> QED BY <1>1, <1>2, TellingNext DEF Inv

(* What was said up to the last call, and the last call. *)
LEMMA LastSaid ==
    ASSUME Inv, Telling, Parsing, frames # << >>,
           NEW call, call = Last(frames), NEW front, front = Front(frames), NEW said, said = Said(target, front)
    PROVE  /\ call \in Frame /\ Sound(call) /\ front \in Seq(Frame)
           /\ \A n \in DOMAIN front : Sound(front[n])
           /\ said \in Seq(Word) /\ Body(call) \in Seq(Word) /\ Lead(call) \in Seq(Word)
           /\ Said(target, frames) = said \o Lead(call)
           /\ frames = Append(front, call)
<1>1. target \in Token /\ frames \in Seq(Frame) /\ \A n \in DOMAIN frames : Sound(frames[n])
      BY WithinStatement DEF Telling
<1>2. frames = Append(front, call)
      BY <1>1, FrontAndLast
<1>3. /\ call \in Frame /\ Sound(call) /\ front \in Seq(Frame) /\ \A n \in DOMAIN front : Sound(front[n])
      /\ said \in Seq(Word) /\ Said(target, frames) = said \o Lead(call)
      BY <1>1, SaidLast
<1> QED BY <1>2, <1>3, BodyTyped

LEMMA CloseTold ==
    ASSUME Inv, Telling, CloseCall
    PROVE  Telling'
<1> DEFINE k == Position + 1
           call == Last(frames)
           front == Front(frames)
           said == Said(target, front)
           body == Body(call)
<1>1. Parsing /\ pc = "arguments" /\ frames # << >>
      BY DEF Parsing, CloseCall, EndCall, Inv, Placed
<1>2. /\ S \in Seq(Token) /\ Len(S) \in Nat /\ Position \in Nat /\ Typed
      /\ k = Position + 1 /\ Continue(k, "returned") /\ Peek(Position) = Close
      /\ value' = call.tree \o <<Call(call.callee, call.args)>> /\ frames' = front
      /\ target' = target
      BY <1>1, WithinStatement DEF CloseCall, EndCall, Inv
<1>3. Position < Len(S)
      BY <1>2, PeekIs, TokensDiffer
<1>4. /\ call \in Frame /\ Sound(call) /\ \A n \in DOMAIN front : Sound(front[n])
      /\ said \in Seq(Word) /\ body \in Seq(Word)
      /\ Said(target, frames) = said \o Lead(call)
      BY <1>1, LastSaid
<1>5. Tells(S, Position, Said(target, frames)) \/ Tells(S, Position, said \o body)
      BY <1>1 DEF Telling
<1>6. value' \in Tree /\ Says(Word, value', <<Append(body, Close)>>)
      BY <1>2, <1>4, CallSays
<1> HIDE DEF k, call, front, said, body
<1>7. said \o body \in Seq(Word) /\ Close \in Word /\ Comma \in Word
      BY <1>4, WordsTyped, ConcatProperties
<1>8. Tells(S, k, Append(said \o body, Close))
  <2>1. CASE Tells(S, Position, said \o body)
    <3>1. Tells(S, k, Append(said \o body, Peek(Position)))
          BY <1>2, <1>3, <2>1, EatTold
    <3> QED BY <1>2, <3>1
  <2>2. CASE Tells(S, Position, Said(target, frames)) /\ Texts(call.tree) = << >>
    <3>1. Tells(S, Position, said \o body)
          BY <1>4, <2>2 DEF Lead, body
    <3> QED BY <2>1, <3>1
  <2>3. CASE Tells(S, Position, Said(target, frames)) /\ Texts(call.tree) # << >>
    <3> DEFINE sb == said \o body
    <3>1. Lead(call) = Append(body, Comma)
          BY <2>3 DEF Lead, body
    <3>2. GoesOnTop(said, body, Comma)
          BY <1>4, <1>7, AppendOnTop
    <3>3. Tells(S, Position, Append(sb, Comma)) /\ sb \in Seq(Word)
          BY <1>4, <1>7, <2>3, <3>1, <3>2 DEF GoesOnTop
    <3> HIDE DEF sb
    <3> DEFINE s == S
    <3>4. s \in Seq(Word) /\ Position < Len(s) /\ s[k] = Close /\ Tells(s, Position, Append(sb, Comma))
      <4>1. Peek(Position) = S[k]
            BY <1>2, <1>3, PeekIs
      <4> QED BY <1>2, <1>3, <3>3, <4>1, TokensAreWords
    <3> HIDE DEF s
    <3>5. Tells(s, k, Append(sb, Close))
          BY <1>2, <3>3, <3>4, TellsTrailing
    <3> QED BY <3>5 DEF s, sb
  <2> QED BY <1>5, <2>1, <2>2, <2>3
<1>9. Append(said \o body, Close) = said \o Append(body, Close)
  <2>1. GoesOnTop(said, body, Close)
        BY <1>4, <1>7, AppendOnTop
  <2> QED BY <2>1 DEF GoesOnTop
<1>10. \E u : Says(Word, value', <<u>>) /\ Tells(S, k, Said(target', frames') \o u)
       BY <1>2, <1>6, <1>8, <1>9 DEF said
<1>11. \A n \in DOMAIN frames' : Sound(frames'[n])
       BY <1>2, <1>4
<1> QED BY <1>2, <1>10, <1>11, TellingNext

LEMMA FrontOfLonger ==
    ASSUME NEW T, NEW s \in Seq(T), NEW x \in T, NEW t, t = Append(s, x)
    PROVE  Front(t) = s /\ Last(t) = x
<1> DEFINE k == Len(s)
<1>1. k \in Nat /\ Len(t) = k + 1 /\ t[k + 1] = x /\ (\A n \in 1..k : t[n] = s[n]) /\ t \in Seq(T) /\ t # << >>
      OBVIOUS
<1>2. /\ Last(t) = t[Len(t)] /\ Front(t) \in Seq(T) /\ Len(Front(t)) + 1 = Len(t)
      /\ DOMAIN Front(t) = {n \in DOMAIN t : n # Len(t)} /\ \A n \in DOMAIN Front(t) : Front(t)[n] = t[n]
      BY <1>1, LastCall
<1> DEFINE f == Front(t)
<1>3. f \in Seq(T) /\ Len(f) = k /\ \A n \in 1..k : f[n] = s[n]
  <2> HIDE DEF f
  <2>1. Len(f) = k /\ f \in Seq(T)
        BY <1>1, <1>2 DEF f
  <2>2. DOMAIN f = 1..k
        BY <2>1
  <2> HIDE DEF k
  <2>3. \A n \in 1..k : f[n] = t[n]
        BY <1>2, <2>2 DEF f
  <2> QED BY <1>1, <2>1, <2>3
<1> HIDE DEF f
<1>4. f = s
      BY <1>1, <1>3, SameElements
<1> QED BY <1>1, <1>2, <1>4 DEF f

LEMMA LastReplaced ==
    ASSUME NEW T, NEW calls \in Seq(T), calls # << >>, NEW e \in T
    PROVE  [calls EXCEPT ![Len(calls)] = e] = Append(Front(calls), e)
<1> DEFINE last == Len(calls)
           front == Front(calls)
           c == Last(calls)
           m == Len(front)
           u == [calls EXCEPT ![last] = e]
           v == Append(front, e)
<1>1. /\ last \in Nat \ {0} /\ DOMAIN calls = 1..last /\ c = calls[last] /\ c \in T
      /\ front \in Seq(T) /\ m + 1 = last /\ DOMAIN front = {n \in DOMAIN calls : n # last}
      /\ \A n \in DOMAIN front : front[n] = calls[n]
      BY LastCall
<1>2. m \in Nat /\ last = m + 1 /\ \A n \in 1..m : calls[n] = front[n]
  <2>1. m \in Nat
    <3> HIDE DEF front
    <3> QED BY <1>1
  <2>2. \A n \in 1..m : n \in 1..last /\ n # last
    <3>1. last \in Nat /\ m + 1 = last
          BY <1>1
    <3> HIDE DEF last, m
    <3> QED BY <2>1, <3>1
  <2> QED BY <1>1, <2>1, <2>2
<1>3. u \in Seq(T) /\ Len(u) = last /\ u[last] = e /\ \A n \in 1..last : n # last => u[n] = calls[n]
  <2>1. Len(calls) = last
        OBVIOUS
  <2> HIDE DEF last
  <2> QED BY <1>1, <2>1
<1> HIDE DEF front, c, u, last
<1>4. v \in Seq(T) /\ Len(v) = last /\ v[last] = e /\ \A n \in 1..m : v[n] = front[n]
      BY <1>1, <1>2
<1>5. \A n \in 1..last : n = last \/ (n \in 1..m /\ n # last)
      BY <1>2
<1> HIDE DEF v
<1>6. \A n \in 1..last : u[n] = v[n]
      BY <1>2, <1>3, <1>4, <1>5
<1>7. u = v
      BY <1>1, <1>3, <1>4, <1>6, SameElements
<1> QED BY <1>7 DEF u, v, last, front

LEMMA TakeTold ==
    ASSUME Inv, Telling, TakeArgument
    PROVE  Telling'
<1> DEFINE k == Position + (IF Peek(Position) = Comma THEN 1 ELSE 0)
           call == Last(frames)
           front == Front(frames)
           said == Said(target, front)
           longer == [callee |-> call.callee, tree |-> call.tree \o value, args |-> call.args + 1]
<1>1. Parsing /\ pc = "returned" /\ frames # << >>
      BY DEF Parsing, TakeArgument
<1>2. /\ S \in Seq(Token) /\ Len(S) \in Nat /\ Position \in Nat /\ Typed /\ value \in Tree /\ target \in Token
      /\ Continue(k, "arguments") /\ frames' = PushArg /\ Peek(Position) \in {Close, Comma} /\ target' = target
      /\ frames \in Seq(Frame)
      BY <1>1, WithinStatement DEF TakeArgument, Inv
<1>3. Position < Len(S)
      BY <1>2, PeekIs, TokensDiffer
<1>4. /\ call \in Frame /\ Sound(call) /\ front \in Seq(Frame) /\ (\A n \in DOMAIN front : Sound(front[n]))
      /\ said \in Seq(Word) /\ Lead(call) \in Seq(Word)
      /\ Said(target, frames) = said \o Lead(call) /\ frames = Append(front, call)
      BY <1>1, LastSaid
<1>5. PICK u : Says(Word, value, <<u>>) /\ Tells(S, Position, Said(target, frames) \o u)
      BY <1>1 DEF Telling
<1>6. Sound(longer) /\ Body(longer) = Lead(call) \o u /\ Lead(longer) = Append(Body(longer), Comma)
  <2>1. longer = [callee |-> call.callee, tree |-> call.tree \o value, args |-> call.args + 1]
        OBVIOUS
  <2>2. call \in Frame /\ Sound(call) /\ value \in Tree /\ Says(Word, value, <<u>>)
        BY <1>2, <1>4, <1>5
  <2> DEFINE tree == value
  <2>3. tree \in Tree /\ Says(Word, tree, <<u>>)
        BY <2>2
  <2>4. longer = [callee |-> call.callee, tree |-> call.tree \o tree, args |-> call.args + 1]
        BY <2>1
  <2> HIDE DEF call, longer, tree
  <2> QED BY ONLY <2>2, <2>3, <2>4, ArgumentSaid
<1>7. longer \in Frame
  <2>1. call.tree \o value \in Tree /\ call.args + 1 \in Nat /\ call.callee \in Token
    <3>1. call.tree \in Seq(Node) /\ value \in Seq(Node) /\ call.args \in Nat /\ call.callee \in Token
          BY <1>2, <1>4 DEF Frame, Tree
    <3> HIDE DEF call
    <3> QED BY <3>1, ConcatProperties DEF Tree
  <2> QED BY <2>1 DEF Frame
<1>8. u \in Seq(Word)
  <2>1. value \in Seq(Node)
        BY <1>2 DEF Tree
  <2> QED BY <1>5, <2>1, UnparseIs
<1>9. frames' = Append(front, longer)
  <2> DEFINE last == Len(frames)
  <2>1. last \in DOMAIN frames /\ frames[last] = call
    <3> DEFINE calls == frames
    <3>1. calls \in Seq(Frame) /\ calls # << >>
          BY <1>1, <1>2
    <3> HIDE DEF calls
    <3>2. Len(calls) \in Nat \ {0} /\ DOMAIN calls = 1..Len(calls) /\ Last(calls) = calls[Len(calls)]
          BY ONLY <3>1, LastCall
    <3>3. Len(calls) \in DOMAIN calls
          BY <3>2
    <3> QED BY <3>2, <3>3 DEF calls
  <2>2. frames' = [frames EXCEPT ![last] = longer]
        BY <1>2, <2>1 DEF PushArg
  <2> HIDE DEF longer, call
  <2>3. [frames EXCEPT ![last] = longer] = Append(Front(frames), longer)
        BY <1>1, <1>2, <1>7, LastReplaced
  <2> QED BY <2>2, <2>3
<1> HIDE DEF longer, call, front, said
<1>10. Front(frames') = front /\ Last(frames') = longer
       BY <1>4, <1>7, <1>9, FrontOfLonger
<1>11. Said(target', frames') = said \o Lead(longer)
       BY <1>2, <1>4, <1>6, <1>7, <1>9, SaidNext DEF said
<1>12. \A n \in DOMAIN frames' : Sound(frames'[n])
  <2>1. /\ DOMAIN front = 1..Len(front) /\ DOMAIN frames' = 1..(Len(front) + 1)
        /\ frames'[Len(front) + 1] = longer /\ Len(front) \in Nat
        /\ \A n \in 1..Len(front) : frames'[n] = front[n]
        BY <1>4, <1>9, AppendedTo
  <2>2. \A n \in DOMAIN frames' : n = Len(front) + 1 \/ n \in 1..Len(front)
        BY <2>1
  <2> QED BY <1>4, <1>6, <2>1, <2>2
<1>13. Tells(S, Position, said \o Body(longer)) /\ Body(longer) \in Seq(Word)
  <2>1. Associates(said, Lead(call), u)
        BY <1>4, <1>8, ThreeJoined
  <2>2. Body(longer) \in Seq(Word)
        BY <1>6, <1>7, BodyTyped
  <2> QED BY <1>4, <1>5, <1>6, <2>1, <2>2 DEF Associates
<1>14. CASE Peek(Position) = Comma
  <2> DEFINE sb == said \o Body(longer)
  <2>1. k = Position + 1
        BY <1>14
  <2>2. Tells(S, Position, sb)
        BY <1>13
  <2>3. GoesOnTop(said, Body(longer), Comma)
        BY <1>4, <1>13, WordsTyped, AppendOnTop
  <2> HIDE DEF sb, k
  <2>4. Tells(S, k, Append(sb, Peek(Position)))
        BY <1>2, <1>3, <2>1, <2>2, EatTold
  <2>5. Tells(S, k, Said(target', frames'))
        BY <1>6, <1>11, <1>14, <2>3, <2>4 DEF GoesOnTop, sb
  <2> QED BY <1>2, <1>12, <2>5, TellingNext
<1>15. CASE Peek(Position) # Comma
  <2>1. k = Position /\ Peek(Position) = Close
        BY <1>2, <1>15
  <2>2. Said(target', Front(frames')) \o Body(Last(frames')) = said \o Body(longer)
        BY <1>2, <1>10 DEF said
  <2> HIDE DEF k
  <2> QED BY <1>2, <1>12, <1>13, <2>1, <2>2, TellingNext
<1> QED BY <1>14, <1>15

(* A statement ends: its tree says what its tokens say. *)
LEMMA FinishTold ==
    ASSUME Inv, TextRead, Told, ParsedIsText, FinishStatement
    PROVE  ParsedIsText'
<1> DEFINE k == Len(ParsedStmts)
           last == k + 1
           eaten == SubSeq(Stmts[statement], 1, Position)
<1>1. /\ Parsing /\ pc = "returned" /\ frames = << >> /\ ParsedStmts' = Append(ParsedStmts, Statement)
      /\ Stmts' = Stmts
      BY DEF FinishStatement, Finish, Parsing
<1>2. value \in Tree /\ target \in Token
      BY <1>1, WithinStatement
<1>3. /\ k \in Nat /\ DOMAIN ParsedStmts = 1..k /\ DOMAIN ParsedStmts' = 1..last /\ ParsedStmts'[last] = Statement
      /\ \A n \in 1..k : ParsedStmts'[n] = ParsedStmts[n]
  <2>1. ParsedStmts \in Seq([name : Token, value : Tree, from : Nat, to : Nat])
        BY DEF Inv, Typed
  <2> QED BY <1>1, <2>1, AppendedTo
<1>4. /\ Statement.name = target /\ Statement.value = value
      /\ Statement.from = statement /\ Statement.to = Position
      BY DEF Statement
<1>5. ASSUME ~HasNull(value)
      PROVE  /\ Position <= Len(Stmts[statement])
             /\ \E dropped \in SUBSET Trailing(eaten) :
                   Without(dropped, eaten) = Header(target) \o Unparse(value)
  <2>1. ~NullSoFar
        BY <1>1, <1>5 DEF NullSoFar
  <2>2. Telling
        BY <1>1, <2>1, WithinStatement DEF Told
  <2>3. PICK u : Says(Word, value, <<u>>) /\ Tells(S, Position, Said(target, frames) \o u)
        BY <1>1, <2>2 DEF Telling
  <2>4. Said(target, frames) = Header(target)
        BY <1>1, <1>2, NoCallSaid
  <2>5. Unparse(value) = u
        BY <1>2, <2>3, UnparseIs DEF Tree
  <2> QED BY <2>3, <2>4, <2>5 DEF Tells, S
<1> HIDE DEF k, last, eaten
<1>6. \A n \in 1..last : n = last \/ n \in 1..k
      BY <1>3 DEF last
<1>7. ASSUME NEW n \in DOMAIN ParsedStmts', ~HasNull(ParsedStmts'[n].value)
      PROVE  /\ ParsedStmts'[n].to <= Len(Stmts[ParsedStmts'[n].from])
             /\ \E dropped \in SUBSET Trailing(SubSeq(Stmts[ParsedStmts'[n].from], 1, ParsedStmts'[n].to)) :
                   Without(dropped, SubSeq(Stmts[ParsedStmts'[n].from], 1, ParsedStmts'[n].to))
                      = Header(ParsedStmts'[n].name) \o Unparse(ParsedStmts'[n].value)
  <2>1. CASE n = last
        BY <1>3, <1>4, <1>5, <1>7, <2>1 DEF eaten
  <2>2. CASE n \in 1..k
    <3>1. n \in DOMAIN ParsedStmts /\ ParsedStmts'[n] = ParsedStmts[n]
          BY <1>3, <2>2
    <3> QED BY <1>7, <3>1 DEF ParsedIsText
  <2> QED BY <1>3, <1>6, <1>7, <2>1, <2>2
<1> QED BY <1>1, <1>7 DEF ParsedIsText, HasNull

Faithful == TextRead /\ Told /\ ParsedIsText

(* A step that leaves the parsed statements and the text alone. *)
LEMMA ParsedStays ==
    ASSUME ParsedIsText, ParsedStmts' = ParsedStmts, Stmts' = Stmts
    PROVE  ParsedIsText'
BY DEF ParsedIsText, HasNull

LEMMA WithinTold ==
    ASSUME Told, Parsing, statement' = statement, errors' = errors,
           Telling => Telling'
    PROVE  Told'
BY DEF Told

LEMMA FaithfulNext ==
    ASSUME Inv, Faithful, [Next]_vars
    PROVE  Faithful'
<1>1. TextRead'
      BY TextReadNext DEF Faithful
<1> SUFFICES Told' /\ ParsedIsText'
    BY <1>1 DEF Faithful
<1>2. CASE ReadFile
  <2>1. ParsedStmts' = << >> /\ pc' = "statement"
        BY <1>2 DEF ReadFile, Inv, Placed
  <2> QED BY <2>1 DEF Told, Parsing, ParsedIsText
<1>3. CASE FailAssertion \/ Throw
  <2>1. ParsedStmts' = ParsedStmts /\ Stmts' = Stmts /\ pc' \in {"assert", "out_of_range"}
        BY <1>3 DEF FailAssertion, Throw, Abort
  <2> QED BY <2>1, ParsedStays DEF Faithful, Told, Parsing
<1>4. CASE SkipAssign
  <2>1. ParsedStmts' = ParsedStmts /\ Stmts' = Stmts /\ pc' = "statement"
        BY <1>4 DEF SkipAssign, LacksSign, InStatement
  <2> QED BY <2>1, ParsedStays DEF Faithful, Told, Parsing
<1>5. CASE FinishStatement
  <2>1. pc' = "statement"
        BY <1>5 DEF FinishStatement, Finish
  <2> QED BY <1>5, <2>1, FinishTold DEF Faithful, Told, Parsing
<1>6. CASE ParseEvaluation
  <2>1. ParsedStmts' = ParsedStmts /\ Stmts' = Stmts
        BY <1>6 DEF ParseEvaluation, Continue
  <2> QED BY <1>6, <2>1, ParsedStays, EvaluationTold DEF Faithful, Told
<1>7. CASE ParseAssign
  <2>1. ParsedStmts' = ParsedStmts /\ Stmts' = Stmts
        BY <1>7 DEF ParseAssign, Continue
  <2> QED BY <1>7, <2>1, ParsedStays, AssignTold DEF Faithful, Told
<1>8. CASE ParseNumber \/ ParseVariable \/ EnterCall \/ NextArgument \/ CloseCall \/ TakeArgument
  <2>1. /\ ParsedStmts' = ParsedStmts /\ Stmts' = Stmts /\ statement' = statement /\ errors' = errors
        /\ Parsing
        BY <1>8 DEF ParseNumber, ParseVariable, EnterCall, NextArgument, CloseCall, EndCall, TakeArgument,
                    Continue, Parsing
  <2>2. Telling => Telling'
        BY <1>8, NumberTold, VariableTold, EnterTold, NextArgumentTold, CloseTold, TakeTold
  <2> QED BY <2>1, <2>2, ParsedStays, WithinTold DEF Faithful
<1>9. CASE FailCall
  <2>1. /\ ParsedStmts' = ParsedStmts /\ Stmts' = Stmts /\ statement' = statement
        /\ errors' = errors \cup {statement}
        BY <1>9 DEF FailCall, EatError, Continue
  <2> QED BY <2>1, ParsedStays DEF Faithful, Told
<1>10. CASE Finished \/ UNCHANGED vars
  <2>1. /\ text' = text /\ Stmts' = Stmts /\ statement' = statement /\ Position' = Position
        /\ target' = target /\ frames' = frames /\ value' = value /\ ParsedStmts' = ParsedStmts
        /\ errors' = errors /\ pc' = pc
        BY <1>10 DEF Finished, vars
  <2>2. S' = S /\ Word' = Word
        BY <2>1 DEF S, Word, Token
  <2>3. Telling => Telling'
        BY <2>1, <2>2 DEF Telling, Sound, Peek
  <2>4. Told'
        BY <2>1, <2>3 DEF Faithful, Told, Parsing
  <2> QED BY <2>1, <2>4, ParsedStays DEF Faithful
<1> QED BY <1>2, <1>3, <1>4, <1>5, <1>6, <1>7, <1>8, <1>9, <1>10 DEF Next

(* A statement that is parsed without an error says what its tokens say, up *)
(* to the last one ParseExpr ate for it: on the way in and out of nested    *)
(* calls no token is lost, read twice or put into the wrong call, except    *)
(* the commas the argument loop eats before a parenthesis.                  *)
THEOREM ParsedAlwaysText == Spec => []ParsedIsText
<1>1. Init => Faithful
      BY DEF Init, Faithful, TextRead, Told, Parsing, ParsedIsText
<1>2. Inv /\ Faithful /\ [Next]_vars => Faithful'
      BY FaithfulNext
<1>3. Faithful => ParsedIsText
      BY DEF Faithful
<1> QED BY <1>1, <1>2, <1>3, InvInit, InvNext, PTL DEF Spec
-----------------------------------------------------------------------------
(* Programs of the grammar.  A reader of the tokens of an expression: what  *)
(* is to come, the calls it is in, and what was read last.                  *)
Nodes(T) == [node : {"number", "variable"}, token : T] \cup [node : {"call"}, token : T, args : Nat]
Calls(T) == [callee : T, tree : Seq(Nodes(T)), args : Nat]
Modes    == {"expression", "call", "arguments", "returned", "bad"}
Reads(T) == [mode : Modes, frames : Seq(Calls(T)), value : Seq(Nodes(T))]

At(mode, calls, tree) == [mode |-> mode, frames |-> calls, value |-> tree]

Bad    == At("bad", << >>, << >>)
Started == At("expression", << >>, << >>)

Begins(r) == r.mode \in {"expression", "arguments"}

Opened(t) == [callee |-> t, tree |-> << >>, args |-> 0]

WithArgument(call, tree) == [callee |-> call.callee, tree |-> call.tree \o tree, args |-> call.args + 1]

Taken(calls, tree) == Append(Front(calls), WithArgument(Last(calls), tree))

Ended(call) == call.tree \o <<Call(call.callee, call.args)>>

Left(calls) == At("returned", Front(calls), Ended(Last(calls)))

Read(r, t, next) ==
    IF Begins(r) /\ IsInt(t) THEN At("returned", r.frames, <<Number(t)>>)
    ELSE IF Begins(r) /\ IsName(t) /\ next # Open THEN At("returned", r.frames, <<Variable(t)>>)
    ELSE IF Begins(r) /\ IsName(t) THEN At("call", Append(r.frames, Opened(t)), << >>)
    ELSE IF r.mode = "call" THEN At("arguments", r.frames, << >>)
    ELSE IF r.frames = << >> THEN Bad
    ELSE IF r.mode = "arguments" /\ t = Close THEN Left(r.frames)
    ELSE IF r.mode = "returned" /\ t = Close THEN Left(Taken(r.frames, r.value))
    ELSE IF r.mode = "returned" /\ t = Comma THEN At("expression", Taken(r.frames, r.value), << >>)
    ELSE Bad

TokenAfter(w, n) == IF n < Len(w) THEN w[n + 1] ELSE NoToken

IsReader(w, R) ==
    R = [n \in 0..Len(w) |-> IF n = 0 THEN Started ELSE Read(R[n - 1], w[n], TokenAfter(w, n))]

Reader(w) == CHOOSE R : IsReader(w, R)

LEMMA ReadsTyped ==
    ASSUME NEW T, NEW mode \in Modes, NEW calls \in Seq(Calls(T)), NEW tree \in Seq(Nodes(T))
    PROVE  At(mode, calls, tree) \in Reads(T)
BY DEF At, Reads

LEMMA OpenedTyped ==
    ASSUME NEW T, NEW calls \in Seq(Calls(T)), NEW t \in T
    PROVE  Opened(t) \in Calls(T) /\ Append(calls, Opened(t)) \in Seq(Calls(T))
<1>1. Opened(t) \in Calls(T)
  <2>1. << >> \in Seq(Nodes(T))
        OBVIOUS
  <2> QED BY <2>1 DEF Opened, Calls
<1> DEFINE c == Opened(t)
<1> HIDE DEF c
<1>2. c \in Calls(T) => Append(calls, c) \in Seq(Calls(T))
      OBVIOUS
<1> QED BY <1>1, <1>2 DEF c

LEMMA LeafTyped ==
    ASSUME NEW T, NEW t \in T
    PROVE  /\ <<Number(t)>> \in Seq(Nodes(T)) /\ <<Variable(t)>> \in Seq(Nodes(T))
           /\ \A n \in Nat : <<Call(t, n)>> \in Seq(Nodes(T)) /\ Call(t, n) \in Nodes(T)
<1>1. Number(t) \in Nodes(T) /\ Variable(t) \in Nodes(T) /\ \A n \in Nat : Call(t, n) \in Nodes(T)
      BY DEF Number, Variable, Call, Nodes
<1>2. \A node \in Nodes(T) : <<node>> \in Seq(Nodes(T))
      OBVIOUS
<1> QED BY <1>1, <1>2

LEMMA TakenTyped ==
    ASSUME NEW T, NEW calls \in Seq(Calls(T)), calls # << >>, NEW tree \in Seq(Nodes(T))
    PROVE  /\ Last(calls) \in Calls(T) /\ Front(calls) \in Seq(Calls(T))
           /\ WithArgument(Last(calls), tree) \in Calls(T)
           /\ Taken(calls, tree) \in Seq(Calls(T)) /\ Taken(calls, tree) # << >>
           /\ Front(Taken(calls, tree)) = Front(calls) /\ Last(Taken(calls, tree)) = WithArgument(Last(calls), tree)
<1> DEFINE f == Front(calls)
           c == Last(calls)
           l == WithArgument(c, tree)
           t == Taken(calls, tree)
<1>1. f \in Seq(Calls(T)) /\ c \in Calls(T)
      BY LastCall
<1>2. l \in Calls(T)
  <2> HIDE DEF c
  <2>1. c.callee \in T /\ c.tree \in Seq(Nodes(T)) /\ c.args \in Nat
        BY <1>1 DEF Calls
  <2>2. c.tree \o tree \in Seq(Nodes(T)) /\ c.args + 1 \in Nat
        BY <2>1, ConcatProperties
  <2> QED BY <2>1, <2>2 DEF WithArgument, Calls
<1>3. t = Append(f, l)
      BY DEF Taken
<1> HIDE DEF f, c, l, t
<1>4. t \in Seq(Calls(T)) /\ t # << >>
      BY <1>1, <1>2, <1>3
<1>5. Front(t) = f /\ Last(t) = l
      BY <1>1, <1>2, <1>3, FrontOfLonger
<1> QED BY <1>1, <1>2, <1>4, <1>5 DEF f, c, l, t

LEMMA LeftTyped ==
    ASSUME NEW T, NEW calls \in Seq(Calls(T)), calls # << >>
    PROVE  Left(calls) \in Reads(T)
<1> DEFINE f == Front(calls)
           c == Last(calls)
           e == Ended(c)
<1>1. f \in Seq(Calls(T)) /\ c \in Calls(T)
      BY LastCall
<1>2. e \in Seq(Nodes(T))
  <2> HIDE DEF c
  <2>1. c.callee \in T /\ c.tree \in Seq(Nodes(T)) /\ c.args \in Nat
        BY <1>1 DEF Calls
  <2>2. <<Call(c.callee, c.args)>> \in Seq(Nodes(T))
        BY <2>1, LeafTyped
  <2> DEFINE one == <<Call(c.callee, c.args)>>
             tree == c.tree
  <2>3. one \in Seq(Nodes(T)) /\ tree \in Seq(Nodes(T)) /\ Ended(c) = tree \o one
        BY <2>1, <2>2 DEF Ended
  <2> HIDE DEF one, tree
  <2> QED BY <2>3, ConcatProperties
<1>3. Left(calls) = At("returned", f, e)
      BY DEF Left
<1> HIDE DEF f, c, e
<1> QED BY <1>1, <1>2, <1>3, ReadsTyped DEF Modes

LEMMA ReadTyped ==
    ASSUME NEW T, NEW r \in Reads(T), NEW t \in T, NEW next
    PROVE  Read(r, t, next) \in Reads(T)
<1> DEFINE F == r.frames
<1>1. r.mode \in Modes /\ F \in Seq(Calls(T)) /\ r.value \in Seq(Nodes(T)) /\ << >> \in Seq(Nodes(T))
      /\ << >> \in Seq(Calls(T))
      BY DEF Reads
<1>2. At("returned", F, <<Number(t)>>) \in Reads(T) /\ At("returned", F, <<Variable(t)>>) \in Reads(T)
      BY <1>1, LeafTyped, ReadsTyped DEF Modes
<1>3. At("call", Append(F, Opened(t)), << >>) \in Reads(T) /\ At("arguments", F, << >>) \in Reads(T)
      BY <1>1, OpenedTyped, ReadsTyped DEF Modes
<1>4. Bad \in Reads(T)
      BY <1>1, ReadsTyped DEF Modes, Bad
<1>5. ASSUME F # << >>
      PROVE  /\ Left(F) \in Reads(T) /\ Left(Taken(F, r.value)) \in Reads(T)
             /\ At("expression", Taken(F, r.value), << >>) \in Reads(T)
  <2> HIDE DEF F
  <2>1. Taken(F, r.value) \in Seq(Calls(T)) /\ Taken(F, r.value) # << >>
        BY <1>1, <1>5, TakenTyped
  <2> QED BY <1>1, <1>5, <2>1, LeftTyped, ReadsTyped DEF Modes
<1> HIDE DEF Reads, Bad
<1> QED BY <1>2, <1>3, <1>4, <1>5 DEF Read

LEMMA ReaderIs ==
    ASSUME NEW T, NEW w \in Seq(T), NEW R, R = Reader(w)
    PROVE  /\ R[0] = Started /\ \A n \in 0..Len(w) : R[n] \in Reads(T)
           /\ \A n \in 1..Len(w) : R[n] = Read(R[n - 1], w[n], TokenAfter(w, n))
<1> DEFINE X == Reads(T)
           len == Len(w)
           step == [pair \in X \X (1..len) |-> Read(pair[1], w[pair[2]], TokenAfter(w, pair[2]))]
<1>0. Started \in X
  <2>1. << >> \in Seq(Nodes(T)) /\ << >> \in Seq(Calls(T))
        OBVIOUS
  <2> QED BY <2>1, ReadsTyped DEF Started, Modes
<1>1. Started \in X /\ len \in Nat /\ \A n \in 1..len : w[n] \in T
  <2>1. len \in Nat /\ \A n \in 1..len : w[n] \in T
        OBVIOUS
  <2> QED BY <1>0, <2>1
<1>2. step \in [X \X (1..len) -> X]
  <2>1. ASSUME NEW pair \in X \X (1..len)
        PROVE  Read(pair[1], w[pair[2]], TokenAfter(w, pair[2])) \in X
    <3>1. pair[1] \in X /\ w[pair[2]] \in T
          BY <1>1
    <3> QED BY <3>1, ReadTyped
  <2> QED BY <2>1
<1>3. PICK f : IsLoopRun(X, Started, step, len, f)
  <2> HIDE DEF X, step, len
  <2> QED BY <1>1, <1>2, LoopRuns
<1>4. IsReader(w, f)
  <2>1. ASSUME NEW n \in 1..len
        PROVE  f[n] = Read(f[n - 1], w[n], TokenAfter(w, n))
    <3>1. f[n - 1] \in X
          BY <1>1, <1>3 DEF IsLoopRun
    <3> QED BY <1>3, <3>1 DEF IsLoopRun
  <2> QED BY <1>1, <1>3, <2>1 DEF IsLoopRun, IsReader
<1>5. IsReader(w, R)
  <2> HIDE DEF IsReader
  <2> QED BY <1>4 DEF Reader
<1>6. R[0] = Started /\ \A n \in 1..len : R[n] = Read(R[n - 1], w[n], TokenAfter(w, n))
  <2> HIDE DEF Started
  <2>1. \A n \in 1..len : n \in 0..len /\ n # 0
        BY <1>1
  <2> QED BY <1>1, <1>5, <2>1 DEF IsReader
<1>7. \A n \in 0..len : R[n] \in X
  <2> DEFINE U == {n \in 0..len : R[n] \in X}
  <2>1. 0 \in U
        BY <1>1, <1>6
  <2>2. ASSUME NEW n \in 0..(len - 1), n \in U
        PROVE  n + 1 \in U
    <3> DEFINE m == n + 1
    <3>1. m \in 1..len /\ m - 1 = n /\ R[n] \in X /\ m \in 0..len /\ w[m] \in T
          BY <1>1, <2>2
    <3> HIDE DEF m
    <3>2. R[m] \in X
          BY <1>6, <3>1, ReadTyped
    <3> QED BY <3>1, <3>2 DEF m
  <2>3. 0..len \subseteq U
    <3> HIDE DEF U
    <3> QED BY <1>1, <2>1, <2>2, NaturalsUpTo
  <2> QED BY <1>1, <2>3
<1> QED BY <1>6, <1>7

(* What is no name and no number. *)
LEMMA PunctuationRead ==
    /\ ~IsInt(Comma) /\ ~IsInt(Open) /\ ~IsInt(Close) /\ ~IsInt(AssignWord) /\ ~IsInt(NoToken)
    /\ ~IsName(Comma) /\ ~IsName(Open) /\ ~IsName(Close) /\ ~IsName(AssignWord) /\ ~IsName(NoToken)
    /\ Comma # Close /\ Comma # Open /\ Open # Close /\ NoToken # Open /\ AssignWord # Open
<1>1. \A ch \in Symbols : ~IsName(<<ch>>)
  <2> SUFFICES ASSUME NEW ch \in Symbols
               PROVE  ch \in Range(<<ch>>)
      BY DEF IsName, IsWord
  <2>1. 1 \in DOMAIN <<ch>> /\ <<ch>>[1] = ch
        OBVIOUS
  <2> QED BY <2>1 DEF Range
<1>2. "," \in Symbols /\ "(" \in Symbols /\ ")" \in Symbols
      BY DEF Symbols
<1>3. ~IsName(Comma) /\ ~IsName(Open) /\ ~IsName(Close)
      BY <1>1, <1>2 DEF Comma, Open, Close
<1>4. ~IsName(AssignWord) /\ ~IsName(NoToken)
      BY DEF IsName, IsWord
<1>5. ~IsInt(Comma) /\ ~IsInt(Open) /\ ~IsInt(Close) /\ ~IsInt(AssignWord) /\ ~IsInt(NoToken)
      BY DEF IsInt, Comma, Open, Close, AssignWord, NoToken
<1>6. Comma # Close /\ Comma # Open /\ Open # Close /\ NoToken # Open /\ AssignWord # Open
      BY DEF Comma, Open, Close, AssignWord, NoToken
<1> QED BY <1>3, <1>4, <1>5, <1>6

Reading(T, w, R) ==
    /\ w \in Seq(T)
    /\ R[0] = Started /\ \A n \in 0..Len(w) : R[n] \in Reads(T)
    /\ \A n \in 1..Len(w) : R[n] = Read(R[n - 1], w[n], TokenAfter(w, n))

LEMMA TokenRead ==
    ASSUME NEW T, NEW w, NEW R, Reading(T, w, R), NEW p \in Nat, p < Len(w), NEW q, q = p + 1
    PROVE  /\ R[q] = Read(R[p], w[q], TokenAfter(w, q)) /\ w[q] \in T /\ TokenAfter(w, p) = w[q]
           /\ R[p] \in Reads(T) /\ R[q] \in Reads(T) /\ q \in Nat /\ q <= Len(w)
<1>1. w \in Seq(T) /\ Len(w) \in Nat
      BY DEF Reading
<1>2. q \in 1..Len(w) /\ q - 1 = p /\ p \in 0..Len(w) /\ q \in 0..Len(w)
      BY <1>1
<1>3. w[q] \in T
      BY <1>1, <1>2
<1> QED BY <1>1, <1>2, <1>3 DEF Reading, TokenAfter

(* The tokens after a position are these. *)
Occurs(w, p, u) == p + Len(u) <= Len(w) /\ \A n \in 1..Len(u) : w[p + n] = u[n]

IsJoined(j, u, v) == j = u \o v

LEMMA OccursJoined ==
    ASSUME NEW T, NEW w \in Seq(T), NEW p \in Nat, NEW u \in Seq(T), NEW v \in Seq(T),
           NEW j, IsJoined(j, u, v), Occurs(w, p, j), NEW q, q = p + Len(u)
    PROVE  /\ Occurs(w, p, u) /\ Occurs(w, q, v) /\ p + Len(j) = q + Len(v)
           /\ p \in Nat /\ q \in Nat
<1> DEFINE k == Len(u)
           l == Len(v)
<1>0. j = u \o v
      BY DEF IsJoined
<1>1. k \in Nat /\ l \in Nat /\ Len(w) \in Nat
      OBVIOUS
<1>2. Len(j) = k + l /\ (\A n \in 1..k : j[n] = u[n]) /\ \A n \in 1..l : j[k + n] = v[n]
  <2>1. Len(j) = k + l /\ \A n \in 1..Len(j) : j[n] = IF n <= k THEN u[n] ELSE v[n - k]
        BY <1>0, ConcatProperties
  <2>2. \A n \in 1..l : k + n \in 1..(k + l) /\ ~(k + n <= k) /\ (k + n) - k = n
        BY <1>1
  <2>3. \A n \in 1..k : n \in 1..(k + l) /\ n <= k
        BY <1>1
  <2> QED BY <2>1, <2>2, <2>3
<1>3. p + Len(j) <= Len(w) /\ \A n \in 1..Len(j) : w[p + n] = j[n]
      BY DEF Occurs
<1> HIDE DEF k, l
<1>4. q = p + k
      BY DEF k
<1>5. p + k <= Len(w) /\ \A n \in 1..k : w[p + n] = u[n]
      BY <1>1, <1>2, <1>3
<1>6. q + l <= Len(w) /\ \A n \in 1..l : w[q + n] = v[n]
  <2>1. ASSUME NEW n \in 1..l
        PROVE  w[q + n] = v[n]
    <3>0. Len(j) = k + l
          BY <1>2
    <3>1. k + n \in 1..(k + l) /\ p + (k + n) = (p + k) + n
          BY ONLY <1>1, p \in Nat, n \in 1..l
    <3> QED BY <1>2, <1>3, <1>4, <3>0, <3>1
  <2> QED BY <1>1, <1>2, <1>3, <1>4, <2>1
<1>7. p + Len(j) = q + l /\ q \in Nat
      BY <1>1, <1>2, <1>4
<1> QED BY <1>5, <1>6, <1>7 DEF Occurs, k, l

LEMMA OccursOne ==
    ASSUME NEW T, NEW w \in Seq(T), NEW p \in Nat, NEW t \in T, Occurs(w, p, <<t>>), NEW q, q = p + 1
    PROVE  /\ p < Len(w) /\ w[q] = t /\ TokenAfter(w, p) = t /\ p + Len(<<t>>) = q
           /\ p \in Nat /\ q \in Nat
<1>1. p + 1 <= Len(w) /\ w[p + 1] = t /\ Len(<<t>>) = 1 /\ Len(w) \in Nat
      BY DEF Occurs
<1> QED BY <1>1 DEF TokenAfter

(* A text that is read as a tree, wherever it begins. *)
Phrase(w, R, u, tree) ==
    \A p \in Nat :
        Occurs(w, p, u) /\ Begins(R[p]) /\ TokenAfter(w, p + Len(u)) # Open =>
            R[p + Len(u)] = At("returned", R[p].frames, tree)

LEMMA LeafPhrase ==
    ASSUME NEW T, NEW w, NEW R, Reading(T, w, R), NEW t \in T
    PROVE  /\ IsInt(t) => Phrase(w, R, <<t>>, <<Number(t)>>)
           /\ IsName(t) => Phrase(w, R, <<t>>, <<Variable(t)>>)
<1>1. SUFFICES ASSUME NEW p \in Nat, Occurs(w, p, <<t>>), Begins(R[p]), TokenAfter(w, p + Len(<<t>>)) # Open
               PROVE  /\ IsInt(t) => R[p + Len(<<t>>)] = At("returned", R[p].frames, <<Number(t)>>)
                      /\ IsName(t) => R[p + Len(<<t>>)] = At("returned", R[p].frames, <<Variable(t)>>)
      BY DEF Phrase
<1> DEFINE q == p + 1
<1>2. w \in Seq(T)
      BY DEF Reading
<1>3. p < Len(w) /\ w[q] = t /\ p + Len(<<t>>) = q
      BY <1>1, <1>2, OccursOne
<1>4. R[q] = Read(R[p], t, TokenAfter(w, q))
      BY <1>3, TokenRead
<1>5. TokenAfter(w, q) # Open
      BY <1>1, <1>3
<1> HIDE DEF q
<1>6. IsName(t) => ~IsInt(t)
      BY DEF IsName
<1> QED BY <1>1, <1>3, <1>4, <1>5, <1>6 DEF Read

(* A call in which n arguments have been read. *)
Held(t, tree, n) == [callee |-> t, tree |-> tree, args |-> n]

LEMMA HeldTyped ==
    ASSUME NEW T, NEW t \in T, NEW tree \in Seq(Nodes(T)), NEW n \in Nat
    PROVE  Held(t, tree, n) \in Calls(T)
BY DEF Held, Calls

(* The calls with that one on top. *)
AreOn(T, on, calls, t, tree, n) ==
    /\ calls \in Seq(Calls(T)) /\ t \in T /\ tree \in Seq(Nodes(T)) /\ n \in Nat
    /\ on = Append(calls, Held(t, tree, n))

GoesOn(on, more, calls, t, tree, n) == Taken(on, more) = Append(calls, Held(t, tree \o more, n + 1))

LEMMA HeldOnTop ==
    ASSUME NEW T, NEW on, NEW calls, NEW t, NEW tree, NEW n, AreOn(T, on, calls, t, tree, n)
    PROVE  /\ on \in Seq(Calls(T)) /\ on # << >>
           /\ \A more : GoesOn(on, more, calls, t, tree, n)
           /\ Left(on) = At("returned", calls, tree \o <<Call(t, n)>>)
<1> DEFINE h == Held(t, tree, n)
<1>0. /\ calls \in Seq(Calls(T)) /\ t \in T /\ tree \in Seq(Nodes(T)) /\ n \in Nat
      /\ on = Append(calls, Held(t, tree, n))
      BY DEF AreOn
<1>1. h \in Calls(T)
      BY <1>0, HeldTyped
<1>2. Front(on) = calls /\ Last(on) = h /\ on \in Seq(Calls(T)) /\ on # << >>
  <2> HIDE DEF h
  <2>1. on = Append(calls, h)
        BY <1>0 DEF h
  <2>2. on \in Seq(Calls(T)) /\ on # << >>
        BY <1>0, <1>1, <2>1
  <2> QED BY <1>0, <1>1, <2>1, <2>2, FrontOfLonger
<1>3. \A more : WithArgument(h, more) = Held(t, tree \o more, n + 1)
      BY DEF WithArgument, Held
<1>4. Ended(h) = tree \o <<Call(t, n)>>
      BY DEF Ended, Held
<1> HIDE DEF h
<1> QED BY <1>2, <1>3, <1>4 DEF Taken, Left, GoesOn

(* A list of arguments that begins, and one with arguments. *)
Begun(w, R, l, t) ==
    \A p \in Nat :
        Occurs(w, p, l) /\ Begins(R[p]) =>
            R[p + Len(l)] = At("arguments", Append(R[p].frames, Held(t, << >>, 0)), << >>)

Listed(w, R, l, t, tree, n) ==
    \A p \in Nat :
        Occurs(w, p, l) /\ Begins(R[p]) /\ TokenAfter(w, p + Len(l)) \in {Comma, Close} =>
            LET r == R[p + Len(l)]
            IN  /\ r.mode = "returned" /\ r.frames # << >>
                /\ Taken(r.frames, r.value) = Append(R[p].frames, Held(t, tree, n))

LEMMA BegunCall ==
    ASSUME NEW T, NEW w, NEW R, Reading(T, w, R), NEW t \in T, IsName(t), Open \in T
    PROVE  Begun(w, R, <<t>> \o <<Open>>, t)
<1> DEFINE l == <<t>> \o <<Open>>
<1>1. SUFFICES ASSUME NEW p \in Nat, Occurs(w, p, l), Begins(R[p])
               PROVE  R[p + Len(l)] = At("arguments", Append(R[p].frames, Held(t, << >>, 0)), << >>)
      BY DEF Begun
<1> DEFINE q == p + 1
           k == q + 1
<1>2. w \in Seq(T) /\ <<t>> \in Seq(T) /\ <<Open>> \in Seq(T) /\ Len(<<t>>) = 1 /\ Len(<<Open>>) = 1
      BY DEF Reading
<1>3. Occurs(w, p, <<t>>) /\ Occurs(w, q, <<Open>>) /\ p + Len(l) = k /\ q \in Nat
  <2> DEFINE a == <<t>>
             b == <<Open>>
  <2>1. a \in Seq(T) /\ b \in Seq(T) /\ q = p + Len(a) /\ k = q + Len(b) /\ IsJoined(l, a, b)
        BY <1>1, <1>2 DEF IsJoined
  <2> HIDE DEF q, k, l, a, b
  <2>2. Occurs(w, p, a) /\ Occurs(w, q, b) /\ p + Len(l) = q + Len(b) /\ q \in Nat
        BY <1>1, <1>2, <2>1, OccursJoined
  <2>3. Occurs(w, p, a) /\ Occurs(w, q, b) /\ p + Len(l) = k /\ q \in Nat
        BY <2>1, <2>2
  <2> QED BY <2>3 DEF a, b
<1>4. p < Len(w) /\ w[q] = t
      BY <1>2, <1>3, OccursOne
<1>5. q < Len(w) /\ w[k] = Open /\ TokenAfter(w, q) = Open
      BY <1>2, <1>3, OccursOne
<1>6. R[q] = Read(R[p], t, Open)
      BY <1>4, <1>5, TokenRead
<1>7. R[k] = Read(R[q], Open, TokenAfter(w, k))
      BY <1>3, <1>5, TokenRead
<1> HIDE DEF q, k
<1>8. R[q] = At("call", Append(R[p].frames, Held(t, << >>, 0)), << >>)
  <2>1. ~IsInt(t) /\ Opened(t) = Held(t, << >>, 0)
        BY DEF IsName, Opened, Held
  <2> QED BY <1>1, <1>6, <2>1 DEF Read
<1>9. R[k] = At("arguments", R[q].frames, << >>)
      BY <1>7, <1>8 DEF Read, At, Begins
<1> QED BY <1>3, <1>8, <1>9 DEF At

LEMMA FirstListed ==
    ASSUME NEW T, NEW w, NEW R, Reading(T, w, R), NEW t \in T, NEW l \in Seq(T), Begun(w, R, l, t),
           NEW u \in Seq(T), NEW tree \in Seq(Nodes(T)), Phrase(w, R, u, tree)
    PROVE  Listed(w, R, l \o u, t, tree, 1)
<1> DEFINE j == l \o u
<1>1. SUFFICES ASSUME NEW p \in Nat, Occurs(w, p, j), Begins(R[p]), TokenAfter(w, p + Len(j)) \in {Comma, Close},
                      NEW r, r = R[p + Len(j)]
               PROVE  /\ r.mode = "returned" /\ r.frames # << >>
                      /\ Taken(r.frames, r.value) = Append(R[p].frames, Held(t, tree, 1))
      BY DEF Listed
<1> DEFINE q == p + Len(l)
           calls == R[p].frames
           on == Append(calls, Held(t, << >>, 0))
<1>2. w \in Seq(T)
      BY DEF Reading
<1>3. Occurs(w, p, l) /\ Occurs(w, q, u) /\ p + Len(j) = q + Len(u) /\ q \in Nat
  <2>1. IsJoined(j, l, u)
        BY DEF IsJoined
  <2> HIDE DEF j
  <2> QED BY <1>1, <1>2, <2>1, OccursJoined
<1>4. calls \in Seq(Calls(T))
  <2>1. p \in 0..Len(w)
        BY <1>2, <1>3 DEF Occurs
  <2> QED BY <2>1 DEF Reading, Reads
<1>5. R[q] = At("arguments", on, << >>)
      BY <1>1, <1>3 DEF Begun
<1>6. TokenAfter(w, q + Len(u)) # Open
      BY <1>1, <1>3, TokensDiffer
<1> HIDE DEF q, j, on, calls
<1>7. Begins(R[q]) /\ R[q].frames = on
      BY <1>5 DEF Begins, At
<1>8. r = At("returned", on, tree)
      BY <1>1, <1>3, <1>6, <1>7 DEF Phrase
<1>9. on # << >> /\ Taken(on, tree) = Append(calls, Held(t, tree, 1))
  <2> DEFINE none == << >>
             zero == 0
  <2>1. none \in Seq(Nodes(T)) /\ zero \in Nat /\ zero + 1 = 1 /\ none \o tree = tree
        BY ConcatEmptySeq
  <2>2. AreOn(T, on, calls, t, none, zero)
        BY <1>4, <2>1 DEF on, AreOn
  <2> HIDE DEF none, zero
  <2>3. on # << >> /\ GoesOn(on, tree, calls, t, none, zero)
        BY <2>2, HeldOnTop
  <2> QED BY <2>1, <2>3 DEF GoesOn
<1> QED BY <1>8, <1>9 DEF At, calls

LEMMA ReadComma ==
    ASSUME NEW r, r.mode = "returned", r.frames # << >>, NEW next
    PROVE  /\ Read(r, Comma, next) = At("expression", Taken(r.frames, r.value), << >>)
           /\ Read(r, Close, next) = Left(Taken(r.frames, r.value))
BY PunctuationRead DEF Read, Begins

LEMMA ReadClose ==
    ASSUME NEW calls, calls # << >>, NEW next
    PROVE  Read(At("arguments", calls, << >>), Close, next) = Left(calls)
BY PunctuationRead DEF Read, Begins, At

LEMMA CallsTyped ==
    ASSUME NEW T, NEW w, NEW R, Reading(T, w, R), NEW p \in Nat, NEW l \in Seq(T), Occurs(w, p, l)
    PROVE  R[p].frames \in Seq(Calls(T))
<1>1. w \in Seq(T)
      BY DEF Reading
<1>2. p \in 0..Len(w)
  <2>1. Len(w) \in Nat /\ Len(l) \in Nat
        BY <1>1
  <2> QED BY <2>1 DEF Occurs
<1> QED BY <1>2 DEF Reading, Reads

LEMMA NextListed ==
    ASSUME NEW T, NEW w, NEW R, Reading(T, w, R), Comma \in T,
           NEW l \in Seq(T), NEW t \in T, NEW tree \in Seq(Nodes(T)), NEW n \in Nat, Listed(w, R, l, t, tree, n),
           NEW u \in Seq(T), NEW more \in Seq(Nodes(T)), Phrase(w, R, u, more)
    PROVE  Listed(w, R, l \o (<<Comma>> \o u), t, tree \o more, n + 1)
<1> DEFINE c == <<Comma>>
           cu == c \o u
           j == l \o cu
<1>1. SUFFICES ASSUME NEW p \in Nat, Occurs(w, p, j), Begins(R[p]), TokenAfter(w, p + Len(j)) \in {Comma, Close},
                      NEW r, r = R[p + Len(j)]
               PROVE  /\ r.mode = "returned" /\ r.frames # << >>
                      /\ Taken(r.frames, r.value) = Append(R[p].frames, Held(t, tree \o more, n + 1))
      BY DEF Listed
<1> DEFINE q == p + Len(l)
           k == q + 1
           calls == R[p].frames
           on == Append(calls, Held(t, tree, n))
           s == R[q]
<1>0. Len(c) = 1
      OBVIOUS
<1>2. w \in Seq(T) /\ c \in Seq(T)
      BY DEF Reading
<1>3. cu \in Seq(T)
  <2> HIDE DEF c
  <2> QED BY <1>2, ConcatProperties
<1>4. Occurs(w, p, l) /\ Occurs(w, q, cu) /\ p + Len(j) = q + Len(cu) /\ q \in Nat
  <2>1. IsJoined(j, l, cu)
        BY DEF IsJoined
  <2> HIDE DEF cu, j
  <2> QED BY <1>1, <1>2, <1>3, <2>1, OccursJoined
<1>5. Occurs(w, q, c) /\ Occurs(w, k, u) /\ q + Len(cu) = k + Len(u) /\ k \in Nat
  <2>1. k = q + Len(c) /\ IsJoined(cu, c, u)
        BY <1>0 DEF IsJoined
  <2> HIDE DEF q, k, c, cu
  <2> QED BY <1>2, <1>4, <2>1, OccursJoined
<1>6. q < Len(w) /\ w[k] = Comma /\ TokenAfter(w, q) = Comma
  <2> HIDE DEF q
  <2> QED BY <1>2, <1>4, <1>5, OccursOne
<1>7. s.mode = "returned" /\ s.frames # << >> /\ Taken(s.frames, s.value) = on
      BY <1>1, <1>4, <1>6 DEF Listed
<1>8. R[k] = At("expression", on, << >>)
  <2>1. R[k] = Read(s, Comma, TokenAfter(w, k))
    <3> HIDE DEF q
    <3> QED BY <1>4, <1>6, TokenRead
  <2> HIDE DEF s, on
  <2> QED BY <1>7, <2>1, ReadComma
<1>9. TokenAfter(w, k + Len(u)) # Open
      BY <1>1, <1>4, <1>5, TokensDiffer
<1>10. r = At("returned", on, more)
  <2>1. r = R[k + Len(u)]
        BY <1>1, <1>4, <1>5
  <2>2. Begins(R[k]) /\ R[k].frames = on
        BY <1>8 DEF Begins, At
  <2> HIDE DEF k, on
  <2> QED BY <1>5, <1>9, <2>1, <2>2 DEF Phrase
<1>11. on # << >> /\ GoesOn(on, more, calls, t, tree, n)
  <2>1. calls \in Seq(Calls(T))
        BY <1>4, CallsTyped
  <2>2. AreOn(T, on, calls, t, tree, n)
        BY <2>1 DEF AreOn
  <2> HIDE DEF on, calls
  <2> QED BY <2>2, HeldOnTop
<1> HIDE DEF on
<1> QED BY <1>10, <1>11 DEF At, GoesOn

LEMMA CallClosed ==
    ASSUME NEW T, NEW w, NEW R, Reading(T, w, R), Close \in T,
           NEW l \in Seq(T), NEW t \in T, NEW tree \in Seq(Nodes(T)), NEW n \in Nat,
           \/ Listed(w, R, l, t, tree, n)
           \/ Begun(w, R, l, t) /\ tree = << >> /\ n = 0
    PROVE  Phrase(w, R, l \o <<Close>>, tree \o <<Call(t, n)>>)
<1> DEFINE c == <<Close>>
           j == l \o c
<1>1. SUFFICES ASSUME NEW p \in Nat, Occurs(w, p, j), Begins(R[p])
               PROVE  R[p + Len(j)] = At("returned", R[p].frames, tree \o <<Call(t, n)>>)
      BY DEF Phrase
<1> DEFINE q == p + Len(l)
           k == q + 1
           calls == R[p].frames
           on == Append(calls, Held(t, tree, n))
           s == R[q]
<1>0. Len(c) = 1
      OBVIOUS
<1>2. w \in Seq(T) /\ c \in Seq(T)
      BY DEF Reading
<1>3. Occurs(w, p, l) /\ Occurs(w, q, c) /\ p + Len(j) = k /\ q \in Nat
  <2>1. k = q + Len(c) /\ IsJoined(j, l, c)
        BY <1>0 DEF IsJoined
  <2> HIDE DEF c, k, j
  <2> QED BY <1>1, <1>2, <2>1, OccursJoined
<1>4. q < Len(w) /\ w[k] = Close /\ TokenAfter(w, q) = Close
  <2> HIDE DEF q
  <2> QED BY <1>2, <1>3, OccursOne
<1>5. R[k] = Read(s, Close, TokenAfter(w, k))
  <2> HIDE DEF q
  <2> QED BY <1>3, <1>4, TokenRead
<1>6. on # << >> /\ Left(on) = At("returned", calls, tree \o <<Call(t, n)>>)
  <2>1. calls \in Seq(Calls(T))
        BY <1>3, CallsTyped
  <2>2. AreOn(T, on, calls, t, tree, n)
        BY <2>1 DEF AreOn
  <2> HIDE DEF on, calls
  <2> QED BY <2>2, HeldOnTop
<1>7. R[k] = Left(on)
  <2>1. CASE Listed(w, R, l, t, tree, n)
    <3>1. s.mode = "returned" /\ s.frames # << >> /\ Taken(s.frames, s.value) = on
          BY <1>1, <1>3, <1>4, <2>1 DEF Listed
    <3> HIDE DEF s, on
    <3> QED BY <1>5, <3>1, ReadComma
  <2>2. CASE Begun(w, R, l, t) /\ tree = << >> /\ n = 0
    <3>1. s = At("arguments", on, << >>)
          BY <1>1, <1>3, <2>2 DEF Begun
    <3> HIDE DEF s, on
    <3> QED BY <1>5, <1>6, <3>1, ReadClose
  <2> QED BY <2>1, <2>2
<1> HIDE DEF on, k, j
<1> QED BY <1>3, <1>6, <1>7 DEF calls

(* The arguments so far, with the name before them. *)
Gathered(w, R, l, t, us, trees) ==
    us # << >> => Listed(w, R, l \o Separated(us), t, FlattenSeq(trees), Len(us))

LEMMA GatheredNext ==
    ASSUME NEW T, NEW w, NEW R, Reading(T, w, R), Comma \in T, NEW l \in Seq(T), NEW t \in T, Begun(w, R, l, t),
           NEW us \in Seq(Seq(T)), NEW trees \in Seq(Seq(Nodes(T))), Len(us) = Len(trees), Gathered(w, R, l, t, us, trees),
           NEW u \in Seq(T), NEW tree \in Seq(Nodes(T)), Phrase(w, R, u, tree)
    PROVE  Gathered(w, R, l, t, Append(us, u), Append(trees, tree))
<1> DEFINE n == Len(us)
           x == FlattenSeq(trees)
           y == FlattenSeq(Append(trees, tree))
           s == Separated(us)
           z == Separated(Append(us, u))
<1>1. n \in Nat /\ Len(Append(us, u)) = n + 1 /\ (us = << >> => n = 0 /\ trees = << >>)
      OBVIOUS
<1>2. x \in Seq(Nodes(T)) /\ y = x \o tree
      BY FlattenTyped, FlattenAppend
<1>3. s \in Seq(T)
      BY SeparatedTyped
<1>4. Listed(w, R, l \o z, t, y, n + 1)
  <2>1. CASE us = << >>
    <3>1. z = u
          BY <2>1, SeparatedNext
    <3>2. y = tree
      <4>1. x = << >>
            BY <1>1, <2>1, FlattenNone
      <4> HIDE DEF x, y
      <4> QED BY <1>2, <4>1, ConcatEmptySeq
    <3>3. n + 1 = 1
          BY <1>1, <2>1
    <3>4. Listed(w, R, l \o u, t, tree, 1)
          BY FirstListed
    <3> HIDE DEF n, x, y, s, z
    <3> QED BY <3>1, <3>2, <3>3, <3>4
  <2>2. CASE us # << >>
    <3> DEFINE ls == l \o s
               cu == <<Comma>> \o u
    <3>1. Listed(w, R, ls, t, x, n)
          BY <2>2 DEF Gathered
    <3>2. ls \in Seq(T)
      <4> HIDE DEF s
      <4> QED BY <1>3, ConcatProperties
    <3>3. Listed(w, R, ls \o cu, t, x \o tree, n + 1)
      <4> HIDE DEF ls, x, n
      <4> QED BY <1>1, <1>2, <3>1, <3>2, NextListed
    <3>4. z = s \o cu
          BY <2>2, SeparatedNext
    <3>5. cu \in Seq(T)
      <4>1. <<Comma>> \in Seq(T)
            OBVIOUS
      <4> QED BY <4>1, ConcatProperties
    <3>6. ls \o cu = l \o (s \o cu)
      <4> HIDE DEF s, cu
      <4>1. Associates(l, s, cu)
            BY <1>3, <3>5, ThreeJoined
      <4> QED BY <4>1 DEF Associates
    <3> HIDE DEF n, x, y, s, z, ls, cu
    <3> QED BY <1>2, <3>3, <3>4, <3>6
  <2> QED BY <2>1, <2>2
<1> HIDE DEF n, x, y, s, z
<1> QED BY <1>1, <1>4 DEF Gathered, n, x, y, z

LEMMA TwoJoined ==
    ASSUME NEW T, NEW x \in T, NEW y \in T
    PROVE  <<x>> \o <<y>> = <<x, y>>
<1> DEFINE s == <<x>>
<1>1. s \in Seq(T) /\ s = Append(<< >>, x)
      OBVIOUS
<1>2. Append(s, y) = <<x, y>>
      BY <1>1, OneByOne
<1>3. OneMore(s, y)
  <2> HIDE DEF s
  <2> QED BY <1>1, OneJoined
<1> QED BY <1>2, <1>3 DEF OneMore

LEMMA CallPhrase ==
    ASSUME NEW T, NEW w, NEW R, Reading(T, w, R), Punctuation \subseteq T,
           NEW node, node.token \in T, IsName(node.token),
           NEW us \in Seq(Seq(T)), NEW trees \in Seq(Seq(Nodes(T))), Len(trees) = Len(us),
           \A n \in 1..Len(us) : Phrase(w, R, us[n], trees[n]),
           NEW a, a = Len(us)
    PROVE  Phrase(w, R, Written(node, us), FlattenSeq(trees) \o <<Call(node.token, a)>>)
<1> DEFINE t == node.token
           l == <<t>> \o <<Open>>
           U == {m \in 0..a : Gathered(w, R, l, t, SubSeq(us, 1, m), SubSeq(trees, 1, m))}
<1>1. Comma \in T /\ Open \in T /\ Close \in T /\ a \in Nat
      BY DEF Punctuation
<1>2. l \in Seq(T) /\ l = <<t, Open>>
  <2>1. <<t>> \in Seq(T) /\ <<Open>> \in Seq(T)
        BY <1>1
  <2>2. l \in Seq(T)
        BY <2>1, ConcatProperties
  <2>3. l = <<t, Open>>
        BY <1>1, TwoJoined
  <2> QED BY <2>2, <2>3
<1>3. Begun(w, R, l, t)
      BY <1>1, BegunCall
<1>4. 0 \in U
  <2>1. SubSeq(us, 1, 0) = << >>
        OBVIOUS
  <2> QED BY <1>1, <2>1 DEF Gathered
<1>5. ASSUME NEW m \in 0..(a - 1), m \in U
      PROVE  m + 1 \in U
  <2> DEFINE q == m + 1
             x == SubSeq(us, 1, m)
             y == SubSeq(trees, 1, m)
  <2>1. m \in Nat /\ m < Len(us) /\ m < Len(trees) /\ q \in 1..a /\ q \in 0..a
        BY <1>1
  <2>0. q = m + 1
        OBVIOUS
  <2> HIDE DEF q
  <2>2. SubSeq(us, 1, q) = Append(x, us[q]) /\ x \in Seq(Seq(T)) /\ Len(x) = m /\ us[q] \in Seq(T)
        BY ONLY <2>0, <2>1, us \in Seq(Seq(T)), FirstTokens
  <2>3. SubSeq(trees, 1, q) = Append(y, trees[q]) /\ y \in Seq(Seq(Nodes(T))) /\ Len(y) = m
        /\ trees[q] \in Seq(Nodes(T))
        BY <2>0, <2>1, FirstTokens
  <2>4. Phrase(w, R, us[q], trees[q]) /\ Gathered(w, R, l, t, x, y)
        BY <1>5, <2>1
  <2>5. Gathered(w, R, l, t, Append(x, us[q]), Append(y, trees[q]))
    <3> HIDE DEF l, x, y, q, t
    <3> QED BY <1>1, <1>2, <1>3, <2>2, <2>3, <2>4, GatheredNext DEF t
  <2> HIDE DEF l, x, y
  <2> QED BY <2>0, <2>1, <2>2, <2>3, <2>5
<1>6. Gathered(w, R, l, t, us, trees)
  <2>1. a \in U
    <3> HIDE DEF U
    <3>1. 0..a \subseteq U
          BY <1>1, <1>4, <1>5, NaturalsUpTo
    <3>2. a \in 0..a
          BY <1>1
    <3> QED BY <3>1, <3>2
  <2>2. SubSeq(us, 1, a) = us /\ SubSeq(trees, 1, a) = trees
        BY SubSeqFull
  <2> HIDE DEF l
  <2> QED BY <2>1, <2>2
<1> DEFINE s == Separated(us)
           x == FlattenSeq(trees)
           ls == l \o s
<1>7. s \in Seq(T) /\ x \in Seq(Nodes(T))
      BY <1>1, SeparatedTyped, FlattenTyped
<1>8. ls \in Seq(T)
  <2> HIDE DEF l, s
  <2> QED BY <1>2, <1>7, ConcatProperties
<1>9. Listed(w, R, ls, t, x, a) \/ (Begun(w, R, ls, t) /\ x = << >> /\ a = 0)
  <2>1. CASE us # << >>
        BY <1>6, <2>1 DEF Gathered
  <2>2. CASE us = << >>
    <3>1. s = << >> /\ a = 0 /\ trees = << >>
          BY <2>2, SeparatedNone
    <3>2. x = << >>
          BY <3>1, FlattenNone
    <3>3. ls = l
      <4> HIDE DEF l, s
      <4> QED BY <1>2, <3>1, ConcatEmptySeq
    <3> HIDE DEF l, ls, x
    <3> QED BY <1>3, <3>1, <3>2, <3>3
  <2> QED BY <2>1, <2>2
<1>10. Phrase(w, R, ls \o <<Close>>, x \o <<Call(t, a)>>)
  <2> HIDE DEF ls, x, t
  <2> QED BY <1>1, <1>7, <1>8, <1>9, CallClosed DEF t
<1>11. Written(node, us) = ls \o <<Close>>
       BY <1>2 DEF Written
<1> HIDE DEF ls
<1> QED BY <1>10, <1>11-----------------------------------------------------------------------------

(* The expressions that have been found in the nodes so far: their texts    *)
(* and their trees.                                                         *)
Stacked(T, tree, x, trees) ==
    /\ Says(T, tree, x) /\ trees \in Seq(Seq(Nodes(T))) /\ Len(trees) = Len(x)
    /\ FlattenSeq(trees) = tree
    /\ \A w : \A R : Reading(T, w, R) => \A n \in 1..Len(x) : Phrase(w, R, x[n], trees[n])

LEMMA NodeKinds ==
    ASSUME NEW T, NEW node, IsNode(node), node.token \in T
    PROVE  /\ node \in Nodes(T) /\ node # Null /\ Arity(node) \in Nat
           /\ node.node # "call" => /\ Arity(node) = 0
                                    /\ \/ IsInt(node.token) /\ node = Number(node.token)
                                       \/ IsName(node.token) /\ node = Variable(node.token)
           /\ node.node = "call" =>
                 node.args \in Nat /\ Arity(node) = node.args /\ IsName(node.token) /\ node = Call(node.token, node.args)
<1> DEFINE t == node.token
           a == node.args
<1>1. t \in T
      OBVIOUS
<1> HIDE DEF t, a
<1>2. CASE node.node = "number" /\ node = Number(t) /\ IsInt(t)
  <2>1. node = [node |-> "number", token |-> t]
        BY <1>2 DEF Number
  <2> QED BY <1>1, <1>2, <2>1 DEF Nodes, Null, Arity, t
<1>3. CASE node.node = "variable" /\ node = Variable(t) /\ IsName(t)
  <2>1. node = [node |-> "variable", token |-> t]
        BY <1>3 DEF Variable
  <2> QED BY <1>1, <1>3, <2>1 DEF Nodes, Null, Arity, t
<1>4. CASE node.node = "call" /\ node = Call(t, a) /\ IsName(t) /\ a \in Nat
  <2>1. node = [node |-> "call", token |-> t, args |-> a]
        BY <1>4 DEF Call
  <2>2. node \in Nodes(T)
        BY <1>1, <1>4, <2>1 DEF Nodes
  <2>3. node # Null
        BY <2>1 DEF Null
  <2> QED BY <1>4, <2>2, <2>3 DEF Arity, t, a
<1> QED BY <1>2, <1>3, <1>4 DEF IsNode, t, a

LEMMA StackedLeaf ==
    ASSUME NEW T, Punctuation \subseteq T, NEW tree \in Seq(Nodes(T)), NEW x, NEW trees, Stacked(T, tree, x, trees),
           NEW node, IsNode(node), node.token \in T, node.node # "call"
    PROVE  Stacked(T, Append(tree, node), Append(x, <<node.token>>), Append(trees, <<node>>))
<1> DEFINE y == Append(x, <<node.token>>)
           z == Append(trees, <<node>>)
           k == Len(x)
           e == <<node>>
<1>1. /\ Says(T, tree, x) /\ trees \in Seq(Seq(Nodes(T))) /\ Len(trees) = k /\ FlattenSeq(trees) = tree
      /\ \A w : \A R : Reading(T, w, R) => \A n \in 1..k : Phrase(w, R, x[n], trees[n])
      BY DEF Stacked
<1>2. node \in Nodes(T) /\ node # Null
      BY NodeKinds
<1>3. x \in Seq(Seq(T))
      BY <1>1, SaysTexts
<1>4. Says(T, Append(tree, node), y)
  <2>1. Fits(T, x, node)
        BY <1>2 DEF Fits
  <2>2. UnparseNode(x, node) = y
        BY <1>2, UnparseLeaf
  <2> HIDE DEF y
  <2>3. Says(T, Append(tree, node), UnparseNode(x, node))
        BY <1>1, <1>2, <2>1, SaysNext
  <2> QED BY <2>2, <2>3
<1>5. e \in Seq(Nodes(T)) /\ <<node.token>> \in Seq(T)
      BY <1>2
<1>6. /\ k \in Nat /\ Len(y) = k + 1 /\ (\A n \in 1..k : y[n] = x[n]) /\ y[k + 1] = <<node.token>>
      BY <1>3, <1>5
<1>7. /\ z \in Seq(Seq(Nodes(T))) /\ Len(z) = k + 1 /\ (\A n \in 1..k : z[n] = trees[n]) /\ z[k + 1] = e
      BY <1>1, <1>5
<1>8. FlattenSeq(z) = Append(tree, node)
  <2>1. FlattenSeq(Append(trees, e)) = FlattenSeq(trees) \o e
    <3> HIDE DEF e
    <3> QED BY <1>1, <1>5, FlattenAppend
  <2>2. OneMore(tree, node)
        BY <1>2, OneJoined
  <2> QED BY <1>1, <2>1, <2>2 DEF OneMore
<1> HIDE DEF y, z, k, e
<1>9. ASSUME NEW w, NEW R, Reading(T, w, R), NEW n \in 1..(k + 1)
      PROVE  Phrase(w, R, y[n], z[n])
  <2>1. CASE n \in 1..k
        BY <1>1, <1>6, <1>7, <1>9, <2>1
  <2>2. CASE n = k + 1
    <3> DEFINE t == node.token
    <3>1. (IsInt(t) /\ e = <<Number(t)>>) \/ (IsName(t) /\ e = <<Variable(t)>>)
          BY NodeKinds DEF e
    <3>2. /\ IsInt(t) => Phrase(w, R, <<t>>, <<Number(t)>>)
          /\ IsName(t) => Phrase(w, R, <<t>>, <<Variable(t)>>)
          BY <1>9, LeafPhrase
    <3>3. Phrase(w, R, <<t>>, e)
          BY <3>1, <3>2
    <3> QED BY <1>6, <1>7, <2>2, <3>3
  <2>3. n \in 1..k \/ n = k + 1
        BY <1>6
  <2> QED BY <2>1, <2>2, <2>3
<1>10. Stacked(T, Append(tree, node), y, z)
       BY <1>4, <1>6, <1>7, <1>8, <1>9 DEF Stacked
<1> QED BY <1>10 DEF y, z, e

AreParts(X, s, m, a, lower, upper) ==
    /\ lower \in Seq(X) /\ Len(lower) = m /\ \A n \in 1..m : lower[n] = s[n]
    /\ upper \in Seq(X) /\ Len(upper) = a /\ \A n \in 1..a : upper[n] = s[n + m]

LEMMA PartsOf ==
    ASSUME NEW X, NEW s \in Seq(X), NEW m \in Nat, NEW a \in Nat, NEW k, k = Len(s), m + a = k
    PROVE  AreParts(X, s, m, a, SubSeq(s, 1, m), SubSeq(s, m + 1, k))
<1>1. m \in 0..Len(s) /\ Len(s) - m = a /\ k = Len(s)
      OBVIOUS
<1>2. /\ SubSeq(s, 1, m) \in Seq(X) /\ Len(SubSeq(s, 1, m)) = m
      /\ \A n \in 1..m : SubSeq(s, 1, m)[n] = s[n]
      /\ SubSeq(s, m + 1, Len(s)) \in Seq(X) /\ Len(SubSeq(s, m + 1, Len(s))) = Len(s) - m
      /\ \A n \in 1..(Len(s) - m) : SubSeq(s, m + 1, Len(s))[n] = s[n + m]
      BY <1>1, StackParts
<1> DEFINE lower == SubSeq(s, 1, m)
           upper == SubSeq(s, m + 1, Len(s))
           d == Len(s) - m
<1>3. /\ lower \in Seq(X) /\ Len(lower) = m /\ \A n \in 1..m : lower[n] = s[n]
      /\ upper \in Seq(X) /\ Len(upper) = d /\ \A n \in 1..d : upper[n] = s[n + m]
      BY <1>2
<1>4. d = a /\ SubSeq(s, m + 1, k) = upper
      BY <1>1
<1> HIDE DEF lower, upper, d
<1>5. AreParts(X, s, m, a, lower, upper)
      BY <1>3, <1>4 DEF AreParts
<1> QED BY <1>4, <1>5 DEF lower

AreStacked(T, tree, k) == \E x, trees : Stacked(T, tree, x, trees) /\ Len(x) = k

LEMMA StackedCall ==
    ASSUME NEW T, Punctuation \subseteq T, NEW tree \in Seq(Nodes(T)), NEW x, NEW trees, Stacked(T, tree, x, trees),
           NEW node, IsNode(node), node.token \in T, node.node = "call",
           NEW a, a = node.args, NEW b, b \in Nat, b + a = Len(x)
    PROVE  AreStacked(T, Append(tree, node), b + 1)
<1> DEFINE k == Len(x)
           below == SubSeq(x, 1, b)
           above == SubSeq(x, b + 1, k)
           lower == SubSeq(trees, 1, b)
           upper == SubSeq(trees, b + 1, k)
           said == Written(node, above)
           whole == FlattenSeq(upper) \o <<node>>
           y == Append(below, said)
           z == Append(lower, whole)
<1>1. /\ Says(T, tree, x) /\ trees \in Seq(Seq(Nodes(T))) /\ Len(trees) = k /\ FlattenSeq(trees) = tree
      /\ \A w : \A R : Reading(T, w, R) => \A n \in 1..k : Phrase(w, R, x[n], trees[n])
      BY DEF Stacked
<1>2. /\ node \in Nodes(T) /\ node # Null /\ a \in Nat
      /\ IsName(node.token) /\ node = Call(node.token, a)
      BY NodeKinds
<1>3. x \in Seq(Seq(T)) /\ k \in Nat /\ b \in 0..k /\ k - b = a /\ k - a = b
  <2>1. x \in Seq(Seq(T))
        BY <1>1, SaysTexts
  <2>2. k \in Nat /\ b + a = k
        BY <2>1
  <2>3. a \in Nat /\ b \in Nat
        BY <1>2
  <2>4. b \in 0..k /\ k - b = a /\ k - a = b
    <3> HIDE DEF k
    <3> QED BY ONLY <2>2, <2>3
  <2> QED BY <2>1, <2>2, <2>4
<1>4. /\ below \in Seq(Seq(T)) /\ Len(below) = b /\ \A n \in 1..b : below[n] = x[n]
      /\ above \in Seq(Seq(T)) /\ Len(above) = a /\ \A n \in 1..a : above[n] = x[n + b]
  <2>1. AreParts(Seq(T), x, b, a, below, above)
        BY <1>2, <1>3, PartsOf
  <2> HIDE DEF below, above
  <2> QED BY <2>1 DEF AreParts
<1>5. /\ lower \in Seq(Seq(Nodes(T))) /\ Len(lower) = b /\ \A n \in 1..b : lower[n] = trees[n]
      /\ upper \in Seq(Seq(Nodes(T))) /\ Len(upper) = a /\ \A n \in 1..a : upper[n] = trees[n + b]
  <2>1. AreParts(Seq(Nodes(T)), trees, b, a, lower, upper)
    <3>1. k = Len(trees) /\ b + a = k
          BY <1>1
    <3> HIDE DEF k
    <3> QED BY <1>1, <1>2, <3>1, PartsOf
  <2> HIDE DEF lower, upper
  <2> QED BY <2>1 DEF AreParts
<1>6. Says(T, Append(tree, node), y)
  <2>1. Fits(T, x, node)
        BY <1>2, <1>3 DEF Fits
  <2>2. UnparseNode(x, node) = y
    <3>1. b = Len(x) - node.args
          BY <1>3
    <3> QED BY <3>1, UnparseCall
  <2> HIDE DEF y
  <2>3. Says(T, Append(tree, node), UnparseNode(x, node))
        BY <1>1, <1>2, <2>1, SaysNext
  <2> QED BY <2>2, <2>3
<1>7. said \in Seq(T)
  <2> HIDE DEF above
  <2> QED BY <1>4, WrittenTyped
<1>8. FlattenSeq(upper) \in Seq(Nodes(T)) /\ <<node>> \in Seq(Nodes(T)) /\ FlattenSeq(lower) \in Seq(Nodes(T))
  <2> HIDE DEF upper, lower
  <2> QED BY <1>2, <1>5, FlattenTyped
<1>9. whole \in Seq(Nodes(T))
  <2> DEFINE f == FlattenSeq(upper)
             e == <<node>>
  <2>1. f \in Seq(Nodes(T)) /\ e \in Seq(Nodes(T)) /\ whole = f \o e
        BY <1>8
  <2> HIDE DEF f, e, whole
  <2> QED BY <2>1, ConcatProperties
<1>10. FlattenSeq(z) = Append(tree, node)
  <2> DEFINE f == FlattenSeq(upper)
             g == FlattenSeq(lower)
             e == <<node>>
  <2>1. FlattenSeq(Append(lower, whole)) = g \o whole
    <3> HIDE DEF lower, whole
    <3> QED BY <1>5, <1>9, FlattenAppend
  <2>2. g \o f = tree
    <3>1. Splits(trees, b, k)
          BY <1>1, <1>3, SplitAt
    <3>2. SubSeq(trees, 1, k) = trees
          BY <1>1, SubSeqFull
    <3>3. trees = lower \o upper
          BY <3>1, <3>2 DEF Splits
    <3>4. FlattenSeq(lower \o upper) = g \o f
      <4> HIDE DEF lower, upper
      <4> QED BY <1>5, FlattenJoined
    <3> HIDE DEF lower, upper
    <3> QED BY <1>1, <3>3, <3>4
  <2>3. Associates(g, f, e)
    <3> HIDE DEF g, f, e
    <3> QED BY <1>8, ThreeJoined DEF g, f, e
  <2>4. OneMore(tree, node)
        BY <1>2, OneJoined
  <2>5. g \o whole = (g \o f) \o e
        BY <2>3 DEF Associates
  <2> HIDE DEF g, f, whole
  <2> QED BY <2>1, <2>2, <2>4, <2>5 DEF OneMore
<1>11. Len(y) = b + 1 /\ (\A n \in 1..b : y[n] = below[n]) /\ y[b + 1] = said
  <2> HIDE DEF below, said
  <2>1. below \in Seq(Seq(T)) /\ Len(below) = b /\ said \in Seq(T)
        BY <1>4, <1>7
  <2> QED BY <2>1
<1>12. z \in Seq(Seq(Nodes(T))) /\ Len(z) = b + 1 /\ (\A n \in 1..b : z[n] = lower[n]) /\ z[b + 1] = whole
  <2> HIDE DEF lower, whole
  <2> QED BY <1>5, <1>9
<1>13. ASSUME NEW w, NEW R, Reading(T, w, R), NEW n \in 1..(b + 1)
       PROVE  Phrase(w, R, y[n], z[n])
  <2>1. \A m \in 1..k : Phrase(w, R, x[m], trees[m])
        BY <1>1, <1>13
  <2>2. CASE n \in 1..b
    <3>1. x[n] = y[n] /\ trees[n] = z[n]
      <4> HIDE DEF y, z, below, lower
      <4> QED BY <1>4, <1>5, <1>11, <1>12, <2>2
    <3>2. n \in 1..k
          BY <1>3, <2>2
    <3> HIDE DEF y, z
    <3> QED BY <2>1, <3>1, <3>2
  <2>3. CASE n = b + 1
    <3>1. \A m \in 1..a : Phrase(w, R, above[m], upper[m])
      <4>1. ASSUME NEW m \in 1..a
            PROVE  Phrase(w, R, above[m], upper[m])
        <5>1. m + b \in 1..k
              BY <1>2, <1>3
        <5>2. Phrase(w, R, x[m + b], trees[m + b])
              BY <2>1, <5>1
        <5> HIDE DEF above, upper
        <5> QED BY <1>4, <1>5, <5>2
      <4> QED BY <4>1
    <3>2. Phrase(w, R, said, FlattenSeq(upper) \o <<Call(node.token, a)>>)
      <4> HIDE DEF above, upper
      <4> QED BY <1>2, <1>4, <1>5, <1>13, <3>1, CallPhrase
    <3>3. FlattenSeq(upper) \o <<Call(node.token, a)>> = whole
      <4> HIDE DEF upper
      <4> QED BY <1>2
    <3> HIDE DEF said, whole, y, z
    <3> QED BY <1>11, <1>12, <2>3, <3>2, <3>3
  <2>4. n \in 1..b \/ n = b + 1
        BY <1>3
  <2> QED BY <2>2, <2>3, <2>4
<1> HIDE DEF y, z
<1>14. Stacked(T, Append(tree, node), y, z)
       BY <1>6, <1>10, <1>11, <1>12, <1>13 DEF Stacked
<1> QED BY <1>11, <1>14 DEF AreStacked

(* How many expressions the nodes so far are. *)
IsLeft(tree, f) == f = [n \in 0..Len(tree) |-> IF n = 0 THEN 0 ELSE (f[n - 1] + 1) - Arity(tree[n])]

LEMMA ExpressionLeft ==
    ASSUME NEW T, NEW tree \in Seq(Nodes(T)), IsExpression(tree)
    PROVE  \E left : /\ left[0] = 0 /\ left[Len(tree)] = 1
                     /\ \A n \in 1..Len(tree) : /\ left[n] = (left[n - 1] + 1) - Arity(tree[n])
                                                /\ IsNode(tree[n]) /\ Arity(tree[n]) <= left[n - 1]
<1> DEFINE len == Len(tree)
           step == [pair \in Int \X (1..len) |-> (pair[1] + 1) - Arity(tree[pair[2]])]
           r == CHOOSE f : IsLeft(tree, f)
<1>1. len \in Nat /\ DOMAIN tree = 1..len
      OBVIOUS
<1>2. \A n \in 1..len : IsNode(tree[n]) /\ Arity(tree[n]) <= r[n - 1]
      BY <1>1 DEF IsExpression, IsLeft
<1>3. r[len] = 1
      BY DEF IsExpression, IsLeft
<1>4. \A n \in 1..len : Arity(tree[n]) \in Nat
  <2>1. ASSUME NEW n \in 1..len
        PROVE  Arity(tree[n]) \in Nat
    <3> DEFINE node == tree[n]
    <3>1. node \in Nodes(T) /\ IsNode(node)
          BY <1>1, <1>2
    <3> HIDE DEF node
    <3>2. node.token \in T
          BY <3>1 DEF Nodes
    <3>3. Arity(node) \in Nat
          BY <3>1, <3>2, NodeKinds
    <3> QED BY <3>3 DEF node
  <2> QED BY <2>1
<1>5. step \in [Int \X (1..len) -> Int]
      BY <1>4
<1>6. PICK f : IsLoopRun(Int, 0, step, len, f)
  <2> DEFINE zero == 0
  <2>1. zero \in Int
        OBVIOUS
  <2>2. \E f : IsLoopRun(Int, zero, step, len, f)
    <3> HIDE DEF zero, step, len
    <3> QED BY <1>1, <1>5, <2>1, LoopRuns
  <2> QED BY <2>2
<1>7. IsLeft(tree, f)
  <2>1. ASSUME NEW n \in 1..len
        PROVE  f[n] = (f[n - 1] + 1) - Arity(tree[n])
    <3>1. f[n - 1] \in Int
          BY <1>1, <1>6 DEF IsLoopRun
    <3> QED BY <1>6, <3>1 DEF IsLoopRun
  <2>2. f[0] = 0 /\ f = [n \in 0..len |-> f[n]]
        BY <1>6 DEF IsLoopRun
  <2>3. ASSUME NEW n \in 0..len
        PROVE  f[n] = IF n = 0 THEN 0 ELSE (f[n - 1] + 1) - Arity(tree[n])
    <3>1. n # 0 => n \in 1..len
          BY <1>1
    <3> QED BY <2>1, <2>2, <3>1
  <2> QED BY <2>2, <2>3 DEF IsLeft
<1>8. IsLeft(tree, r)
  <2> HIDE DEF IsLeft
  <2> QED BY <1>7
<1> HIDE DEF r
<1>9. r[0] = 0 /\ \A n \in 1..len : r[n] = (r[n - 1] + 1) - Arity(tree[n])
  <2>1. \A n \in 1..len : n \in 0..len /\ n # 0
        BY <1>1
  <2> QED BY <1>1, <1>8, <2>1 DEF IsLeft
<1> QED BY <1>2, <1>3, <1>9

LEMMA StackedNext ==
    ASSUME NEW T, Punctuation \subseteq T, NEW tree \in Seq(Nodes(T)),
           NEW node \in Nodes(T), IsNode(node), NEW k \in Nat, Arity(node) <= k, AreStacked(T, tree, k),
           NEW l, l = (k + 1) - Arity(node)
    PROVE  AreStacked(T, Append(tree, node), l)
<1>1. PICK x, trees : Stacked(T, tree, x, trees) /\ Len(x) = k
      BY DEF AreStacked
<1>2. node.token \in T
      BY DEF Nodes
<1>3. CASE node.node # "call"
  <2> DEFINE y == Append(x, <<node.token>>)
             z == Append(trees, <<node>>)
  <2>1. Stacked(T, Append(tree, node), y, z)
    <3> HIDE DEF Stacked
    <3> QED BY <1>1, <1>2, <1>3, StackedLeaf
  <2>2. Len(y) = l
    <3>1. x \in Seq(Seq(T))
          BY <1>1, SaysTexts DEF Stacked
    <3>2. Len(y) = k + 1
          BY <1>1, <3>1
    <3>3. Arity(node) = 0
          BY <1>2, <1>3, NodeKinds
    <3> HIDE DEF y
    <3> QED BY <3>2, <3>3
  <2> HIDE DEF y, z
  <2> QED BY <2>1, <2>2 DEF AreStacked
<1>4. CASE node.node = "call"
  <2> DEFINE a == node.args
             b == k - a
  <2>1. a \in Nat /\ Arity(node) = a
        BY <1>2, <1>4, NodeKinds
  <2>2. b \in Nat /\ b + a = k /\ b + 1 = l
    <3> HIDE DEF a
    <3> QED BY <2>1
  <2>3. AreStacked(T, Append(tree, node), b + 1)
    <3>1. b + a = Len(x) /\ a = node.args
          BY <1>1, <2>2
    <3> HIDE DEF a, b
    <3> QED BY <1>1, <1>2, <1>4, <2>2, <3>1, StackedCall
  <2> HIDE DEF a, b
  <2> QED BY <2>2, <2>3
<1> QED BY <1>3, <1>4

LEMMA OneIn ==
    ASSUME NEW X, NEW s \in Seq(X), Len(s) = 1
    PROVE  s[1] \in X /\ s = <<s[1]>>
<1>1. SubSeq(s, 1, Len(s)) = s
      BY SubSeqFull
<1> DEFINE zero == 0
           one == 1
<1>2. zero \in Nat /\ one = zero + 1 /\ one <= Len(s)
      OBVIOUS
<1> HIDE DEF zero, one
<1>3. SubSeq(s, one, one) = <<s[one]>> /\ s[one] \in X
      BY <1>2, OneElement
<1> QED BY <1>1, <1>3 DEF one

(* A tree of the grammar is what its text is read as. *)
LEMMA ExpressionRead ==
    ASSUME NEW T, Punctuation \subseteq T, NEW tree \in Seq(Nodes(T)), IsExpression(tree)
    PROVE  /\ Unparse(tree) \in Seq(T)
           /\ \A w : \A R : Reading(T, w, R) => Phrase(w, R, Unparse(tree), tree)
<1> DEFINE len == Len(tree)
<1>1. PICK left : /\ left[0] = 0 /\ left[len] = 1
                  /\ \A n \in 1..len : /\ left[n] = (left[n - 1] + 1) - Arity(tree[n])
                                       /\ IsNode(tree[n]) /\ Arity(tree[n]) <= left[n - 1]
      BY ExpressionLeft
<1>2. len \in Nat /\ \A n \in 1..len : tree[n] \in Nodes(T)
      OBVIOUS
<1> DEFINE Found(n) == AreStacked(T, SubSeq(tree, 1, n), left[n])
           U == {n \in 0..len : left[n] \in Nat /\ Found(n)}
<1>3. 0 \in U
  <2> DEFINE none == << >>
  <2>1. SubSeq(tree, 1, 0) = none /\ Len(none) = 0 /\ none \in Seq(Seq(Nodes(T))) /\ FlattenSeq(none) = none
        BY FlattenNone
  <2>2. Says(T, none, none)
        BY SaysNone
  <2>3. Stacked(T, none, none, none)
    <3>1. \A n \in 1..Len(none) : FALSE
          BY <2>1
    <3> HIDE DEF none
    <3> QED BY <2>1, <2>2, <3>1 DEF Stacked
  <2>4. Found(0)
    <3> HIDE DEF none
    <3> QED BY <1>1, <2>1, <2>3 DEF AreStacked
  <2> QED BY <1>1, <1>2, <2>4
<1>4. ASSUME NEW n \in 0..(len - 1), n \in U
      PROVE  n + 1 \in U
  <2> DEFINE m == n + 1
             t == SubSeq(tree, 1, n)
             node == tree[m]
             k == left[n]
  <2>1. n \in Nat /\ n < len /\ m \in 1..len /\ m \in 0..len /\ m - 1 = n
        BY <1>2
  <2>2. k \in Nat /\ left[m] = (k + 1) - Arity(node) /\ IsNode(node) /\ Arity(node) <= k /\ node \in Nodes(T)
        BY <1>1, <1>2, <1>4, <2>1
  <2>3. SubSeq(tree, 1, m) = Append(t, node) /\ t \in Seq(Nodes(T))
    <3>1. m = n + 1
          OBVIOUS
    <3> HIDE DEF m
    <3> QED BY <2>1, <3>1, FirstTokens
  <2>4. AreStacked(T, t, k)
        BY <1>4
  <2> DEFINE l == left[m]
  <2>5. AreStacked(T, Append(t, node), l)
    <3> HIDE DEF t, node, k
    <3>1. l = (k + 1) - Arity(node)
          BY <2>2
    <3> HIDE DEF l
    <3> QED BY <2>2, <2>3, <2>4, <3>1, StackedNext
  <2>6. Arity(node) \in Nat
    <3> HIDE DEF node
    <3>1. node.token \in T
          BY <2>2 DEF Nodes
    <3> QED BY <2>2, <3>1, NodeKinds
  <2>7. left[m] \in Nat
    <3> HIDE DEF k, m, node
    <3> QED BY <2>2, <2>6
  <2>8. Found(m)
    <3> HIDE DEF m, t, node, k
    <3> QED BY <2>3, <2>5
  <2> QED BY <2>1, <2>7, <2>8
<1>5. Found(len)
  <2>1. 0..len \subseteq U
    <3> HIDE DEF U
    <3> QED BY <1>2, <1>3, <1>4, NaturalsUpTo
  <2>2. len \in 0..len
        BY <1>2
  <2> HIDE DEF Found
  <2> QED BY <2>1, <2>2
<1>6. PICK x, trees : Stacked(T, tree, x, trees) /\ Len(x) = 1
  <2>1. SubSeq(tree, 1, len) = tree
        BY SubSeqFull
  <2> QED BY <1>1, <1>5, <2>1 DEF AreStacked
<1>7. /\ Says(T, tree, x) /\ trees \in Seq(Seq(Nodes(T))) /\ Len(trees) = 1 /\ FlattenSeq(trees) = tree
      /\ \A w : \A R : Reading(T, w, R) => Phrase(w, R, x[1], trees[1])
      BY <1>6 DEF Stacked
<1> DEFINE u == x[1]
<1>8. u \in Seq(T) /\ Unparse(tree) = u
  <2>1. x \in Seq(Seq(T))
        BY <1>7, SaysTexts
  <2>2. u \in Seq(T) /\ x = <<u>>
        BY <1>6, <2>1, OneIn
  <2> HIDE DEF u
  <2> QED BY <1>7, <2>2, UnparseIs
<1>9. trees[1] = tree
  <2> DEFINE z == trees[1]
  <2>1. z \in Seq(Nodes(T)) /\ trees = <<z>>
        BY <1>7, OneIn
  <2> HIDE DEF z
  <2>2. FlattenSeq(<<z>>) = z
        BY <2>1, FlattenOne
  <2> QED BY <1>7, <2>1, <2>2 DEF z
<1> QED BY <1>7, <1>8, <1>9

-----------------------------------------------------------------------------
(* The tokens of an expression, read from the first to the last. *)
Words(tree) == Punctuation \cup {tree[n].token : n \in DOMAIN tree}

(* Reading that has gone wrong does not recover. *)
LEMMA StaysBad ==
    ASSUME NEW T, NEW w, NEW R, Reading(T, w, R), NEW p \in 0..Len(w), R[p].mode = "bad"
    PROVE  R[Len(w)].mode = "bad"
<1> DEFINE len == Len(w)
           d == len - p
           U == {n \in 0..d : R[p + n].mode = "bad"}
<1>1. len \in Nat /\ p \in Nat /\ d \in Nat /\ p + d = len
  <2>1. w \in Seq(T)
        BY DEF Reading
  <2>2. len \in Nat
        BY <2>1
  <2> QED BY <2>2
<1>2. 0 \in U
  <2>1. p + 0 = p
        BY <1>1
  <2> QED BY <1>1, <2>1
<1>3. ASSUME NEW n \in 0..(d - 1), n \in U
      PROVE  n + 1 \in U
  <2> DEFINE m == p + n
             q == m + 1
  <2>1. m \in Nat /\ m < len /\ q = p + (n + 1) /\ R[m].mode = "bad" /\ n + 1 \in 0..d
        BY <1>1, <1>3
  <2>2. R[q] = Read(R[m], w[q], TokenAfter(w, q))
    <3> HIDE DEF m
    <3> QED BY <2>1, TokenRead
  <2>3. R[q] = Bad
    <3> HIDE DEF m, q
    <3> QED BY <2>1, <2>2 DEF Read, Begins
  <2> QED BY <2>1, <2>3 DEF Bad, At
<1>4. d \in U
  <2> HIDE DEF U, d
  <2>1. 0..d \subseteq U
        BY <1>1, <1>2, <1>3, NaturalsUpTo
  <2> QED BY <1>1, <2>1
<1> QED BY <1>1, <1>4

(* What is read at a position: nothing is wrong, and it ends with the tree. *)
ReadsTo(T, w, R, tree) ==
    /\ Reading(T, w, R)
    /\ R[Len(w)] = At("returned", << >>, tree)
    /\ \A p \in 0..Len(w) : R[p].mode # "bad"

LEMMA WholeRead ==
    ASSUME NEW T, Punctuation \subseteq T, NEW tree \in Seq(Nodes(T)), IsExpression(tree),
           NEW w, w = Unparse(tree), NEW R, R = Reader(w)
    PROVE  ReadsTo(T, w, R, tree)
<1>1. w \in Seq(T) /\ \A R1 : Reading(T, w, R1) => Phrase(w, R1, w, tree)
      BY ExpressionRead
<1>2. Reading(T, w, R)
      BY <1>1, ReaderIs DEF Reading
<1> DEFINE k == Len(w)
           p == 0
<1>3. k \in Nat /\ p \in Nat /\ p + k = k /\ TokenAfter(w, k) = NoToken
      BY <1>1 DEF TokenAfter
<1>4. Occurs(w, p, w)
  <2>1. \A n \in 1..k : p + n = n
        BY <1>3
  <2> QED BY <1>3, <2>1 DEF Occurs
<1>5. R[p] = Started
      BY <1>2 DEF Reading
<1>6. Begins(R[p]) /\ R[p].frames = << >>
      BY <1>5 DEF Started, At, Begins
<1>7. R[k] = At("returned", << >>, tree)
  <2>1. Phrase(w, R, w, tree)
        BY <1>1, <1>2
  <2>2. TokenAfter(w, p + k) # Open
        BY <1>3, TokensDiffer
  <2> HIDE DEF p
  <2>3. R[p + k] = At("returned", R[p].frames, tree)
        BY <1>3, <1>4, <1>6, <2>1, <2>2 DEF Phrase
  <2> QED BY <1>3, <1>6, <2>3
<1>8. \A q \in 0..k : R[q].mode # "bad"
  <2>1. R[k].mode # "bad"
        BY <1>7 DEF At
  <2> QED BY <1>2, <2>1, StaysBad
<1> QED BY <1>2, <1>7, <1>8 DEF ReadsTo

IsWordToken(t) == IsInt(t) \/ IsName(t)

LEMMA NextRead ==
    ASSUME NEW T, NEW w, NEW R, NEW tree, ReadsTo(T, w, R, tree), NEW p \in Nat, p < Len(w), NEW q, q = p + 1
    PROVE  /\ R[q] = Read(R[p], w[q], TokenAfter(w, q)) /\ R[q].mode # "bad" /\ R[p].mode # "bad" /\ R[q] # Bad
           /\ R[p].mode \in Modes /\ TokenAfter(w, p) = w[q] /\ w[q] \in T /\ q \in Nat /\ q <= Len(w)
<1>1. Reading(T, w, R) /\ Len(w) \in Nat
      BY DEF ReadsTo, Reading
<1>2. /\ R[q] = Read(R[p], w[q], TokenAfter(w, q)) /\ TokenAfter(w, p) = w[q] /\ w[q] \in T /\ q \in Nat /\ q <= Len(w)
      /\ R[p] \in Reads(T)
      BY <1>1, TokenRead
<1>3. p \in 0..Len(w) /\ q \in 0..Len(w)
      BY <1>1
<1>4. R[q].mode # "bad" /\ R[p].mode # "bad"
      BY <1>3 DEF ReadsTo
<1>5. R[q] # Bad
      BY <1>4 DEF Bad, At
<1> QED BY <1>2, <1>4, <1>5 DEF Reads

LEMMA AtEnd ==
    ASSUME NEW T, NEW w, NEW R, NEW tree, ReadsTo(T, w, R, tree), NEW p \in 0..Len(w),
           R[p].mode # "returned" \/ R[p].frames # << >>
    PROVE  p \in Nat /\ p < Len(w)
<1>1. Len(w) \in Nat
      BY DEF ReadsTo, Reading
<1>2. p # Len(w)
      BY DEF ReadsTo, At
<1> QED BY <1>1, <1>2

(* An opening parenthesis stands behind the name of a call only. *)
LEMMA CallIsOpened ==
    ASSUME NEW T, NEW w, NEW R, NEW tree, ReadsTo(T, w, R, tree), NEW p \in 0..Len(w), R[p].mode = "call"
    PROVE  TokenAfter(w, p) = Open
<1>1. Len(w) \in Nat
      BY DEF ReadsTo, Reading
<1>2. p # 0
      BY DEF ReadsTo, Reading, Started, At
<1> DEFINE m == p - 1
<1>3. m \in Nat /\ m < Len(w) /\ p = m + 1
      BY <1>1, <1>2
<1>4. R[p] = Read(R[m], w[p], TokenAfter(w, p))
  <2> HIDE DEF m
  <2> QED BY <1>3, NextRead
<1> HIDE DEF m
<1> QED BY <1>4 DEF Read, At, Left, Bad

LEMMA BeginningRead ==
    ASSUME NEW r, NEW t, NEW next, Begins(r)
    PROVE  /\ IsInt(t) => Read(r, t, next) = At("returned", r.frames, <<Number(t)>>)
           /\ IsName(t) /\ next # Open => Read(r, t, next) = At("returned", r.frames, <<Variable(t)>>)
           /\ IsName(t) /\ next = Open => Read(r, t, next) = At("call", Append(r.frames, Opened(t)), << >>)
<1>1. IsName(t) => ~IsInt(t)
      BY DEF IsName
<1> QED BY <1>1 DEF Read

LEMMA FirstRead ==
    ASSUME NEW T, NEW w, NEW R, NEW tree, ReadsTo(T, w, R, tree)
    PROVE  Len(w) \in Nat /\ 0 < Len(w) /\ IsWordToken(w[1])
<1> DEFINE zero == 0
           one == 1
<1>1. Len(w) \in Nat /\ R[zero] = Started
      BY DEF ReadsTo, Reading
<1>2. zero \in Nat /\ zero < Len(w) /\ one = zero + 1
  <2>1. zero \in 0..Len(w) /\ R[zero].mode # "returned"
        BY <1>1 DEF Started, At
  <2> HIDE DEF zero
  <2>2. zero \in Nat /\ zero < Len(w)
        BY <2>1, AtEnd
  <2> QED BY <2>2 DEF zero
<1> HIDE DEF zero, one
<1>3. R[one] = Read(Started, w[one], TokenAfter(w, one)) /\ R[one] # Bad
      BY <1>1, <1>2, NextRead
<1>4. IsWordToken(w[one])
      BY <1>3 DEF Read, Started, At, Begins, IsWordToken
<1> QED BY <1>1, <1>2, <1>4 DEF zero, one

(* There are only words and punctuation, and no word follows another one. *)
LEMMA WordsApart ==
    ASSUME NEW T, NEW w, NEW R, NEW tree, ReadsTo(T, w, R, tree), NEW p \in Nat, p < Len(w), NEW q, q = p + 1
    PROVE  /\ IsWordToken(w[q]) \/ w[q] \in Punctuation
           /\ IsWordToken(w[q]) => TokenAfter(w, q) \in Punctuation \cup {NoToken}
<1>1. /\ R[q] = Read(R[p], w[q], TokenAfter(w, q)) /\ R[q] # Bad /\ q \in Nat /\ q <= Len(w)
      /\ R[p].mode \in Modes /\ R[p].mode # "bad" /\ TokenAfter(w, p) = w[q]
      BY NextRead
<1>2. Len(w) \in Nat /\ p \in 0..Len(w) /\ q \in 0..Len(w)
      BY <1>1 DEF ReadsTo, Reading
<1>3. R[p].mode = "call" => w[q] = Open
      BY <1>1, <1>2, CallIsOpened
<1>4. IsWordToken(w[q]) \/ w[q] \in Punctuation
      BY <1>1, <1>3 DEF Read, Begins, Punctuation, IsWordToken
<1>5. ASSUME IsWordToken(w[q])
      PROVE  TokenAfter(w, q) \in Punctuation \cup {NoToken}
  <2>1. w[q] # Open /\ w[q] # Close /\ w[q] # Comma
        BY <1>5, PunctuationRead DEF IsWordToken
  <2>2. Begins(R[p])
        BY <1>1, <1>3, <2>1 DEF Read, Begins
  <2>3. R[q].mode = "returned" \/ R[q].mode = "call"
        BY <1>1, <1>5, <2>2, BeginningRead DEF At, IsWordToken
  <2>4. CASE R[q].mode = "call"
    <3>1. TokenAfter(w, q) = Open
          BY <1>2, <2>4, CallIsOpened
    <3> QED BY <3>1 DEF Punctuation
  <2>5. CASE R[q].mode = "returned" /\ q < Len(w)
    <3> DEFINE k == q + 1
    <3>1. R[k] = Read(R[q], w[k], TokenAfter(w, k)) /\ R[k] # Bad /\ TokenAfter(w, q) = w[k]
          BY <1>1, <2>5, NextRead
    <3> HIDE DEF k
    <3>2. w[k] = Close \/ w[k] = Comma
          BY <2>5, <3>1 DEF Read, Begins
    <3> QED BY <3>1, <3>2 DEF Punctuation
  <2>6. CASE ~(q < Len(w))
        BY <2>6 DEF TokenAfter
  <2> QED BY <2>3, <2>4, <2>5, <2>6
<1> QED BY <1>4, <1>5

-----------------------------------------------------------------------------
(* The parser reads what the reader reads. *)
IsProgram(program) == program \in Seq(Range(program)) /\ \A n \in DOMAIN program : IsStatement(program[n])

Wording(s) == Header(s.name) \o Unparse(s.value)

Goal == source[statement]

(* The parser is where the reader is after p tokens; a parenthesis that     *)
(* follows an argument the reader takes together with it.                   *)
Following(R, p) ==
    /\ pc = "expression" => Begins(R[p]) /\ R[p].frames = frames
    /\ pc = "arguments" =>
          \/ Begins(R[p]) /\ R[p].frames = frames
          \/ /\ Peek(Position) = Close /\ R[p].mode = "returned" /\ R[p].frames # << >>
             /\ frames = Taken(R[p].frames, R[p].value)
    /\ pc = "returned" => R[p] = At("returned", frames, value)

Followed ==
    LET w == Unparse(Goal.value)
    IN  \E p \in 0..Len(w) : Position = Len(Header(Goal.name)) + p /\ Following(Reader(w), p)

(* A program of the grammar as far as it is parsed. *)
Planned ==
    source # Unknown =>
        /\ IsProgram(source)
        /\ errors = {} /\ ~Aborted
        /\ Len(ParsedStmts) + 1 = statement
        /\ \A n \in 1..Len(ParsedStmts) : ParsedStmts[n].name = source[n].name /\ ParsedStmts[n].value = source[n].value
        /\ pc = "read" => text = TextOf(source)
        /\ pc # "read" => Len(Stmts) = Len(source) /\ \A n \in 1..Len(Stmts) : Stmts[n] = Wording(source[n])
        /\ Parsing => target = Goal.name /\ Followed

(* The expression to be read stands m tokens further in the statement. *)
Aim(T, w, R, m) ==
    /\ w = Unparse(Goal.value) /\ R = Reader(w) /\ ReadsTo(T, w, R, Goal.value)
    /\ m = Len(Header(Goal.name)) /\ m \in Nat /\ Len(w) \in Nat /\ Len(S) = m + Len(w)
    /\ \A p \in Nat : Peek(m + p) = TokenAfter(w, p)
    /\ Goal.name = NoName => m = 0
    /\ Goal.name # NoName => m = 3 /\ S[1] = AssignWord /\ S[2] = Goal.name /\ S[3] = Equals

(* Tokens s are the m tokens of h and those of w. *)
Headed(s, h, w, m) ==
    /\ m \in Nat /\ Len(w) \in Nat /\ Len(s) = m + Len(w)
    /\ \A n \in 1..m : s[n] = h[n]
    /\ \A p \in Nat : TokenAfter(s, m + p) = TokenAfter(w, p)

LEMMA JoinedTokens ==
    ASSUME NEW T, NEW h \in Seq(T), NEW w \in Seq(T), NEW s, IsJoined(s, h, w), NEW m, m = Len(h)
    PROVE  Headed(s, h, w, m)
<1> DEFINE k == Len(w)
<1>0. s = h \o w
      BY DEF IsJoined
<1>1. m \in Nat /\ k \in Nat
      OBVIOUS
<1>2. Len(s) = m + k /\ \A n \in 1..(m + k) : s[n] = IF n <= m THEN h[n] ELSE w[n - m]
      BY <1>0, ConcatProperties
<1> HIDE DEF k
<1>3. \A n \in 1..m : s[n] = h[n]
  <2>1. \A n \in 1..m : n \in 1..(m + k) /\ n <= m
        BY <1>1
  <2> QED BY <1>2, <2>1
<1>4. ASSUME NEW p \in Nat
      PROVE  TokenAfter(s, m + p) = TokenAfter(w, p)
  <2> DEFINE n == (m + p) + 1
  <2>1. m + p < m + k <=> p < k
        BY <1>1
  <2>2. CASE p < k
    <3>1. n \in 1..(m + k) /\ ~(n <= m) /\ n - m = p + 1
          BY ONLY <1>1, <2>2, p \in Nat
    <3> HIDE DEF n
    <3>2. s[n] = w[p + 1]
          BY <1>2, <3>1
    <3> QED BY <1>2, <2>1, <2>2, <3>2 DEF TokenAfter, k, n
  <2>3. CASE ~(p < k)
        BY <1>2, <2>1, <2>3 DEF TokenAfter, k
  <2> QED BY <2>2, <2>3
<1> QED BY <1>1, <1>2, <1>3, <1>4 DEF k, Headed

LEMMA StatementAim ==
    ASSUME NEW T, Punctuation \subseteq T, AssignWord \in T, Equals \in T,
           NEW name \in T, NEW tree \in Seq(Nodes(T)), IsExpression(tree), Goal.name = name, Goal.value = tree,
           S = Header(name) \o Unparse(tree),
           NEW w, w = Unparse(tree), NEW R, R = Reader(w), NEW m, m = Len(Header(name))
    PROVE  Aim(T, w, R, m)
<1> DEFINE h == Header(name)
<1>1. ReadsTo(T, w, R, tree)
      BY WholeRead
<1>2. w \in Seq(T)
      BY <1>1 DEF ReadsTo, Reading
<1>3. h \in Seq(T)
      BY DEF Header
<1>4. Headed(S, h, w, m)
  <2> DEFINE s == S
  <2>1. IsJoined(s, h, w) /\ m = Len(h)
        BY DEF IsJoined
  <2> HIDE DEF s, h
  <2>2. Headed(s, h, w, m)
        BY ONLY <1>2, <1>3, <2>1, JoinedTokens
  <2> QED BY <2>2 DEF s
<1>5. \A p \in Nat : Peek(m + p) = TokenAfter(w, p)
  <2>1. ASSUME NEW p \in Nat
        PROVE  Peek(m + p) = TokenAfter(S, m + p)
        BY DEF Peek, TokenAfter, NoToken
  <2> QED BY <1>4, <2>1 DEF Headed
<1>6. name = NoName => m = 0
      BY DEF Header
<1>7. ASSUME name # NoName
      PROVE  m = 3 /\ S[1] = AssignWord /\ S[2] = name /\ S[3] = Equals
  <2>1. h = <<AssignWord, name, Equals>>
        BY <1>7 DEF Header
  <2>2. m = 3 /\ h[1] = AssignWord /\ h[2] = name /\ h[3] = Equals
        BY <2>1
  <2>3. m = 3 => 1 \in 1..m /\ 2 \in 1..m /\ 3 \in 1..m
        OBVIOUS
  <2>4. \A n \in 1..m : S[n] = h[n]
        BY <1>4 DEF Headed
  <2> HIDE DEF h
  <2> QED BY ONLY <2>2, <2>3, <2>4
<1> QED BY <1>1, <1>4, <1>5, <1>6, <1>7 DEF Aim, Headed

(* The argument goes to the last call. *)
LEMMA PushedArgument ==
    ASSUME Inv, pc = "returned", frames # << >>
    PROVE  PushArg = Taken(frames, value)
<1> DEFINE call == Last(frames)
           longer == WithArgument(call, value)
           last == Len(frames)
<1>1. frames \in Seq(Frame) /\ value \in Seq(Node)
      BY DEF Inv, Typed, Tree
<1>2. call \in Frame /\ last \in DOMAIN frames /\ call = frames[last]
  <2> DEFINE calls == frames
  <2>1. calls \in Seq(Frame) /\ calls # << >>
        BY <1>1
  <2> HIDE DEF calls
  <2>2. Len(calls) \in Nat \ {0} /\ DOMAIN calls = 1..Len(calls) /\ Last(calls) = calls[Len(calls)] /\ Last(calls) \in Frame
        BY ONLY <2>1, LastCall
  <2>3. Len(calls) \in DOMAIN calls
        BY <2>2
  <2> QED BY <2>2, <2>3 DEF calls
<1>3. longer \in Frame
  <2>1. call.tree \in Seq(Node) /\ call.args \in Nat /\ call.callee \in Token
        BY <1>2 DEF Frame, Tree
  <2>2. call.tree \o value \in Seq(Node) /\ call.args + 1 \in Nat
    <3> HIDE DEF call
    <3> QED BY <1>1, <2>1, ConcatProperties
  <2> QED BY <2>1, <2>2 DEF WithArgument, Frame, Tree
<1>4. PushArg = [frames EXCEPT ![last] = longer]
      BY <1>2 DEF PushArg, WithArgument
<1>5. [frames EXCEPT ![last] = longer] = Append(Front(frames), longer)
  <2> HIDE DEF longer
  <2> QED BY <1>1, <1>3, LastReplaced
<1> QED BY <1>4, <1>5 DEF Taken

(* The words of an expression make up its nodes. *)
LEMMA NodesOfWords ==
    ASSUME NEW tree, tree \in Seq(Range(tree)), IsExpression(tree), NEW T, Words(tree) \subseteq T
    PROVE  tree \in Seq(Nodes(T))
<1> DEFINE len == Len(tree)
<1>1. len \in Nat /\ DOMAIN tree = 1..len
      OBVIOUS
<1>2. \A n \in DOMAIN tree : IsNode(tree[n])
      BY DEF IsExpression
<1>3. ASSUME NEW n \in DOMAIN tree
      PROVE  tree[n] \in Nodes(T)
  <2> DEFINE node == tree[n]
  <2>1. IsNode(node)
        BY <1>2
  <2>2. node.token \in T
        BY DEF Words
  <2> HIDE DEF node
  <2>3. node \in Nodes(T)
        BY <2>1, <2>2, LeafTyped DEF IsNode, Number, Variable, Call, Nodes
  <2> QED BY <2>3 DEF node
<1>4. tree = [n \in 1..len |-> tree[n]]
      BY <1>1
<1> QED BY <1>1, <1>3, <1>4

LEMMA Aimed ==
    ASSUME Inv, Planned, source # Unknown, pc # "read", statement <= Len(Stmts)
    PROVE  \E T, w, R, m : Aim(T, w, R, m)
<1> DEFINE name == Goal.name
           tree == Goal.value
           T == Words(tree) \cup {AssignWord, Equals, name}
<1>1. statement \in Nat \ {0} /\ Len(Stmts) = Len(source) /\ IsProgram(source)
      /\ \A n \in 1..Len(Stmts) : Stmts[n] = Wording(source[n])
      BY DEF Inv, Typed, Planned
<1>2. Len(source) \in Nat /\ DOMAIN source = 1..Len(source)
      BY <1>1 DEF IsProgram
<1>3. statement \in 1..Len(source) /\ IsStatement(Goal)
      BY <1>1, <1>2 DEF IsProgram, Goal
<1>4. S = Wording(Goal)
      BY <1>1, <1>3 DEF S, Goal
<1>5. tree \in Seq(Range(tree)) /\ IsExpression(tree)
      BY <1>3 DEF IsStatement
<1>6. Words(tree) \subseteq T /\ Punctuation \subseteq T /\ AssignWord \in T /\ Equals \in T /\ name \in T
      BY DEF Words
<1> HIDE DEF T
<1>7. tree \in Seq(Nodes(T))
  <2> HIDE DEF tree
  <2> QED BY <1>5, <1>6, NodesOfWords
<1> DEFINE w == Unparse(tree)
           R == Reader(w)
           m == Len(Header(name))
<1>8. Aim(T, w, R, m)
  <2>1. Goal.name = name /\ Goal.value = tree /\ S = Header(name) \o Unparse(tree)
        BY <1>4 DEF Wording
  <2>2. w = Unparse(tree) /\ R = Reader(w) /\ m = Len(Header(name))
        OBVIOUS
  <2> HIDE DEF name, tree, w, R, m
  <2> QED BY <1>5, <1>6, <1>7, <2>1, <2>2, StatementAim
<1> QED BY <1>8

LEMMA PlannedNext ==
    ASSUME Inv, Planned, source # Unknown, pc # "read", statement <= Len(Stmts),
           NEW T, NEW w, NEW R, NEW m, Aim(T, w, R, m), NEW q \in 0..Len(w),
           NEW position, NEW next \in {"expression", "arguments", "returned"},
           Continue(position, next), position = m + q, errors' = errors, target' = Goal.name,
           Following(R, q)'
    PROVE  Planned'
<1>1. /\ text' = text /\ Stmts' = Stmts /\ statement' = statement /\ ParsedStmts' = ParsedStmts
      /\ Position' = position /\ pc' = next /\ source' = source
      BY DEF Continue
<1>2. Goal' = Goal
      BY <1>1 DEF Goal
<1>3. m = Len(Header(Goal.name)) /\ w = Unparse(Goal.value) /\ R = Reader(w)
      BY DEF Aim
<1>4. Followed'
      BY <1>1, <1>2, <1>3 DEF Followed
<1>5. IsProgram(source') /\ errors' = {} /\ ~(Aborted')
      BY <1>1 DEF Planned, Aborted
<1>6. /\ Len(ParsedStmts') + 1 = statement'
      /\ \A n \in 1..Len(ParsedStmts') : ParsedStmts'[n].name = source'[n].name /\ ParsedStmts'[n].value = source'[n].value
      /\ Len(Stmts') = Len(source') /\ \A n \in 1..Len(Stmts') : Stmts'[n] = Wording(source'[n])
      BY <1>1 DEF Planned
<1>7. pc' # "read" /\ target' = Goal'.name
      BY <1>1, <1>2
<1> QED BY <1>4, <1>5, <1>6, <1>7 DEF Planned

(* What the parser knows in a statement. *)
LEMMA FollowedIs ==
    ASSUME Inv, Planned, source # Unknown, Parsing
    PROVE  \E T, w, R, m : Aim(T, w, R, m) /\ \E p \in 0..Len(w) : Position = m + p /\ Following(R, p)
<1>1. pc # "read" /\ statement <= Len(Stmts)
      BY DEF Parsing, Inv, Placed
<1>2. PICK T, w, R, m : Aim(T, w, R, m)
      BY <1>1, Aimed
<1>3. m = Len(Header(Goal.name)) /\ w = Unparse(Goal.value) /\ R = Reader(w)
      BY <1>2 DEF Aim
<1>4. \E p \in 0..Len(w) : Position = m + p /\ Following(R, p)
      BY <1>3 DEF Planned, Followed
<1> QED BY <1>2, <1>4

(* The token the parser peeks at is the one that is read next. *)
LEMMA PeekedRead ==
    ASSUME NEW T, NEW w, NEW R, NEW m, Aim(T, w, R, m), NEW p \in 0..Len(w), Position = m + p
    PROVE  /\ p \in Nat /\ m \in Nat /\ Len(w) \in Nat /\ ReadsTo(T, w, R, Goal.value)
           /\ Peek(Position) = TokenAfter(w, p) /\ Peek(Position + 1) = TokenAfter(w, p + 1)
           /\ Position + 1 = m + (p + 1) /\ Position + 2 = m + (p + 2) /\ Len(S) = m + Len(w)
<1>1. p \in Nat /\ m \in Nat /\ Len(w) \in Nat /\ Len(S) = m + Len(w) /\ ReadsTo(T, w, R, Goal.value)
      BY DEF Aim
<1>2. Position + 1 = m + (p + 1) /\ Position + 2 = m + (p + 2)
      BY <1>1
<1>3. Peek(Position) = TokenAfter(w, p) /\ Peek(Position + 1) = TokenAfter(w, p + 1)
      BY <1>1, <1>2 DEF Aim
<1> QED BY <1>1, <1>2, <1>3

(* The first token of an expression. *)
LEMMA BeginningPeeked ==
    ASSUME Inv, pc = "expression", NEW T, NEW w, NEW R, NEW m, Aim(T, w, R, m), NEW p \in 0..Len(w), Position = m + p,
           Following(R, p), NEW q, q = p + 1
    PROVE  /\ q \in 0..Len(w) /\ p < Len(w) /\ Begins(R[p]) /\ R[p].frames = frames
           /\ R[q] = Read(R[p], Peek(Position), Peek(Position + 1)) /\ IsWordToken(Peek(Position))
<1>1. /\ p \in Nat /\ m \in Nat /\ Len(w) \in Nat /\ ReadsTo(T, w, R, Goal.value)
      /\ Peek(Position) = TokenAfter(w, p) /\ Peek(Position + 1) = TokenAfter(w, p + 1)
      BY PeekedRead
<1>2. Begins(R[p]) /\ R[p].frames = frames
      BY DEF Following
<1>3. p < Len(w)
  <2>1. R[p].mode # "returned"
        BY <1>2 DEF Begins
  <2> QED BY <1>1, <2>1, AtEnd
<1>4. R[q] = Read(R[p], w[q], TokenAfter(w, q)) /\ R[q] # Bad /\ TokenAfter(w, p) = w[q] /\ q \in Nat /\ q <= Len(w)
      BY <1>1, <1>3, NextRead
<1>5. R[q] = Read(R[p], Peek(Position), Peek(Position + 1)) /\ q \in 0..Len(w)
      BY <1>1, <1>4
<1>6. frames # << >> => Peek(Position) # Close
      BY DEF Inv, Balanced
<1>7. IsWordToken(Peek(Position))
      BY <1>2, <1>4, <1>5, <1>6 DEF Read, Begins, IsWordToken
<1> QED BY <1>2, <1>3, <1>5, <1>7

LEMMA LeafPlanned ==
    ASSUME Inv, Planned, source # Unknown, ParseNumber \/ ParseVariable
    PROVE  Planned'
<1> DEFINE t == Peek(Position)
           k == Position + 1
<1>1. /\ pc = "expression" /\ Parsing /\ Continue(k, "returned") /\ target' = target /\ frames' = frames /\ errors' = errors
      /\ \/ IsInt(t) /\ value' = <<Number(t)>>
         \/ ~IsInt(t) /\ Peek(Position + 1) # Open /\ value' = <<Variable(t)>>
      BY DEF ParseNumber, ParseVariable, Parsing
<1>2. PICK T, w, R, m : Aim(T, w, R, m) /\ \E p \in 0..Len(w) : Position = m + p /\ Following(R, p)
      BY <1>1, FollowedIs
<1>3. PICK p \in 0..Len(w) : Position = m + p /\ Following(R, p)
      BY <1>2
<1> DEFINE q == p + 1
<1>4. /\ q \in 0..Len(w) /\ Begins(R[p]) /\ R[p].frames = frames
      /\ R[q] = Read(R[p], t, Peek(Position + 1)) /\ IsWordToken(t)
      BY <1>1, <1>2, <1>3, BeginningPeeked
<1>5. k = m + q
      BY <1>2, <1>3, PeekedRead
<1> HIDE DEF q, k, t
<1>6. R[q] = At("returned", frames', value')
  <2> DEFINE r == R[p]
             next == Peek(Position + 1)
  <2>1. Begins(r) /\ r.frames = frames /\ R[q] = Read(r, t, next)
        BY <1>4
  <2> HIDE DEF r, next
  <2>2. /\ IsInt(t) => R[q] = At("returned", frames, <<Number(t)>>)
        /\ IsName(t) /\ next # Open => R[q] = At("returned", frames, <<Variable(t)>>)
        BY <2>1, BeginningRead
  <2>3. IsInt(t) => ~IsName(t)
        BY DEF IsName
  <2> QED BY <1>1, <1>4, <2>2, <2>3 DEF IsWordToken, next
<1>7. pc' = "returned"
      BY <1>1 DEF Continue
<1>8. Following(R, q)'
      BY <1>6, <1>7 DEF Following
<1>9. target' = Goal.name
      BY <1>1 DEF Planned
<1> QED BY <1>1, <1>2, <1>4, <1>5, <1>8, <1>9, PlannedNext DEF Inv, Placed, Parsing

LEMMA EnterPlanned ==
    ASSUME Inv, Planned, source # Unknown, EnterCall
    PROVE  Planned'
<1> DEFINE t == Peek(Position)
           j == Position + 2
<1>1. /\ pc = "expression" /\ Parsing /\ Continue(j, "arguments") /\ target' = target /\ errors' = errors
      /\ ~IsInt(t) /\ Peek(Position + 1) = Open /\ frames' = Append(frames, Opened(t))
      BY DEF EnterCall, Parsing, Opened
<1>2. PICK T, w, R, m : Aim(T, w, R, m) /\ \E p \in 0..Len(w) : Position = m + p /\ Following(R, p)
      BY <1>1, FollowedIs
<1>3. PICK p \in 0..Len(w) : Position = m + p /\ Following(R, p)
      BY <1>2
<1> DEFINE q == p + 1
           k == q + 1
<1>4. /\ q \in 0..Len(w) /\ Begins(R[p]) /\ R[p].frames = frames
      /\ R[q] = Read(R[p], t, Peek(Position + 1)) /\ IsWordToken(t)
      BY <1>1, <1>2, <1>3, BeginningPeeked
<1>5. j = m + k /\ q \in Nat /\ Len(w) \in Nat /\ ReadsTo(T, w, R, Goal.value)
  <2>1. p \in Nat /\ m \in Nat /\ Position + 2 = m + (p + 2) /\ Len(w) \in Nat /\ ReadsTo(T, w, R, Goal.value)
        BY <1>2, <1>3, PeekedRead
  <2>2. k = p + 2
        BY <2>1
  <2> QED BY <2>1, <2>2
<1> HIDE DEF q, j, t
<1>6. R[q] = At("call", frames', << >>)
      BY <1>1, <1>4, BeginningRead DEF IsWordToken
<1>7. R[q].mode = "call" /\ R[q].frames = frames'
      BY <1>6 DEF At
<1>8. q < Len(w)
      BY <1>4, <1>5, <1>7, AtEnd
<1>9. R[k] = Read(R[q], w[k], TokenAfter(w, k)) /\ k \in Nat /\ k <= Len(w)
      BY <1>5, <1>8, NextRead
<1>10. k \in 0..Len(w)
       BY <1>5, <1>9
<1> HIDE DEF k
<1>11. R[k] = At("arguments", frames', << >>)
       BY <1>7, <1>9 DEF Read, Begins
<1>12. pc' = "arguments"
       BY <1>1 DEF Continue
<1>13. Following(R, k)'
       BY <1>11, <1>12 DEF Following, At, Begins
<1>14. target' = Goal.name
       BY <1>1 DEF Planned
<1> QED BY <1>1, <1>2, <1>5, <1>10, <1>13, <1>14, PlannedNext DEF Inv, Placed, Parsing

LEMMA NextArgumentPlanned ==
    ASSUME Inv, Planned, source # Unknown, NextArgument
    PROVE  Planned'
<1>1. /\ pc = "arguments" /\ Parsing /\ Continue(Position, "expression") /\ target' = target /\ errors' = errors
      /\ frames' = frames /\ Peek(Position) # Close
      BY DEF NextArgument, Parsing
<1>2. PICK T, w, R, m : Aim(T, w, R, m) /\ \E p \in 0..Len(w) : Position = m + p /\ Following(R, p)
      BY <1>1, FollowedIs
<1>3. PICK p \in 0..Len(w) : Position = m + p /\ Following(R, p)
      BY <1>2
<1>4. Begins(R[p]) /\ R[p].frames = frames
      BY <1>1, <1>3 DEF Following
<1>5. pc' = "expression"
      BY <1>1 DEF Continue
<1>6. Following(R, p)'
      BY <1>1, <1>4, <1>5 DEF Following
<1>7. target' = Goal.name
      BY <1>1 DEF Planned
<1> QED BY <1>1, <1>2, <1>3, <1>6, <1>7, PlannedNext DEF Inv, Placed, Parsing

LEMMA ClosePlanned ==
    ASSUME Inv, Planned, source # Unknown, CloseCall
    PROVE  Planned'
<1> DEFINE k == Position + 1
<1>1. /\ pc = "arguments" /\ Parsing /\ Continue(k, "returned") /\ target' = target /\ errors' = errors
      /\ Peek(Position) = Close /\ frames' = Front(frames) /\ value' = Ended(Last(frames)) /\ frames # << >>
      BY DEF CloseCall, EndCall, Parsing, Ended, Inv, Placed
<1>2. PICK T, w, R, m : Aim(T, w, R, m) /\ \E p \in 0..Len(w) : Position = m + p /\ Following(R, p)
      BY <1>1, FollowedIs
<1>3. PICK p \in 0..Len(w) : Position = m + p /\ Following(R, p)
      BY <1>2
<1>4. /\ p \in Nat /\ Len(w) \in Nat /\ ReadsTo(T, w, R, Goal.value) /\ TokenAfter(w, p) = Close /\ k = m + (p + 1)
      BY <1>1, <1>2, <1>3, PeekedRead
<1>5. \/ Begins(R[p]) /\ R[p].frames = frames
      \/ R[p].mode = "returned" /\ R[p].frames # << >> /\ frames = Taken(R[p].frames, R[p].value)
      BY <1>1, <1>3 DEF Following
<1> DEFINE q == p + 1
<1>6. p < Len(w)
  <2>1. R[p].mode # "returned" \/ R[p].frames # << >>
        BY <1>5 DEF Begins
  <2> QED BY <1>4, <2>1, AtEnd
<1>7. R[q] = Read(R[p], Close, TokenAfter(w, q)) /\ R[q] # Bad /\ q \in Nat /\ q <= Len(w)
      BY <1>4, <1>6, NextRead
<1>8. q \in 0..Len(w)
      BY <1>4, <1>7
<1> HIDE DEF q, k
<1>9. R[q] = Left(frames)
      BY <1>1, <1>5, <1>7, PunctuationRead DEF Read, Begins
<1>10. R[q] = At("returned", frames', value')
       BY <1>1, <1>9 DEF Left
<1>11. pc' = "returned"
       BY <1>1 DEF Continue
<1>12. Following(R, q)'
       BY <1>10, <1>11 DEF Following
<1>13. target' = Goal.name
       BY <1>1 DEF Planned
<1>14. k = m + q
       BY <1>4 DEF q
<1> QED BY <1>1, <1>2, <1>8, <1>12, <1>13, <1>14, PlannedNext DEF Inv, Placed, Parsing

LEMMA TakePlanned ==
    ASSUME Inv, Planned, source # Unknown, TakeArgument
    PROVE  Planned'
<1> DEFINE k == Position + (IF Peek(Position) = Comma THEN 1 ELSE 0)
<1>1. /\ pc = "returned" /\ Parsing /\ Continue(k, "arguments") /\ target' = target /\ errors' = errors
      /\ Peek(Position) \in {Close, Comma} /\ frames # << >> /\ frames' = Taken(frames, value)
      BY PushedArgument DEF TakeArgument, Parsing
<1>2. PICK T, w, R, m : Aim(T, w, R, m) /\ \E p \in 0..Len(w) : Position = m + p /\ Following(R, p)
      BY <1>1, FollowedIs
<1>3. PICK p \in 0..Len(w) : Position = m + p /\ Following(R, p)
      BY <1>2
<1>4. /\ p \in Nat /\ m \in Nat /\ Len(w) \in Nat /\ ReadsTo(T, w, R, Goal.value) /\ TokenAfter(w, p) = Peek(Position)
      BY <1>2, <1>3, PeekedRead
<1>5. R[p].mode = "returned" /\ R[p].frames = frames /\ R[p].value = value
      BY <1>1, <1>3 DEF Following, At
<1>6. pc' = "arguments" /\ Position' = k /\ S' = S
      BY <1>1 DEF Continue, S
<1>7. target' = Goal.name /\ pc # "read" /\ statement <= Len(Stmts)
      BY <1>1 DEF Planned, Inv, Placed, Parsing
<1>8. CASE Peek(Position) = Comma
  <2> DEFINE q == p + 1
  <2>1. p < Len(w)
        BY <1>1, <1>4, <1>5, AtEnd
  <2>2. R[q] = Read(R[p], Comma, TokenAfter(w, q)) /\ q \in Nat /\ q <= Len(w)
        BY <1>4, <1>8, <2>1, NextRead
  <2>3. k = m + q /\ q \in 0..Len(w)
        BY <1>3, <1>4, <1>8, <2>2
  <2> HIDE DEF q, k
  <2>4. R[q] = At("expression", frames', << >>)
        BY <1>1, <1>5, <2>2, PunctuationRead DEF Read, Begins
  <2>5. Following(R, q)'
        BY <1>6, <2>4 DEF Following, At, Begins
  <2> QED BY <1>1, <1>2, <1>7, <2>3, <2>5, PlannedNext
<1>9. CASE Peek(Position) # Comma
  <2>1. k = Position /\ Peek(Position) = Close
        BY <1>1, <1>3, <1>4, <1>9
  <2> HIDE DEF k
  <2>2. Peek(Position)' = Close
        BY <1>6, <2>1 DEF Peek
  <2>3. Following(R, p)'
        BY <1>1, <1>5, <1>6, <2>2 DEF Following
  <2> QED BY <1>1, <1>2, <1>3, <1>7, <2>1, <2>3, PlannedNext
<1> QED BY <1>8, <1>9

LEMMA NoCallFails ==
    ASSUME Inv, Planned, source # Unknown, FailCall
    PROVE  FALSE
<1>1. pc = "returned" /\ Parsing /\ frames # << >> /\ Peek(Position) # Close /\ Peek(Position) # Comma
      BY DEF FailCall, EatError, Parsing
<1>2. PICK T, w, R, m : Aim(T, w, R, m) /\ \E p \in 0..Len(w) : Position = m + p /\ Following(R, p)
      BY <1>1, FollowedIs
<1>3. PICK p \in 0..Len(w) : Position = m + p /\ Following(R, p)
      BY <1>2
<1>4. /\ p \in Nat /\ ReadsTo(T, w, R, Goal.value) /\ TokenAfter(w, p) = Peek(Position)
      BY <1>2, <1>3, PeekedRead
<1>5. R[p].mode = "returned" /\ R[p].frames = frames
      BY <1>1, <1>3 DEF Following, At
<1> DEFINE q == p + 1
<1>6. p < Len(w)
      BY <1>1, <1>4, <1>5, AtEnd
<1>7. R[q] = Read(R[p], Peek(Position), TokenAfter(w, q)) /\ R[q] # Bad
      BY <1>4, <1>6, NextRead
<1> HIDE DEF q
<1> QED BY <1>1, <1>5, <1>7 DEF Read, Begins

(* A statement of a program has the tokens that are peeked at. *)
LEMMA StatementBegun ==
    ASSUME NEW T, NEW w, NEW R, NEW m, Aim(T, w, R, m)
    PROVE  /\ m \in Nat /\ Len(S) \in Nat /\ m < Len(S) /\ 0 \in 0..Len(w) /\ R[0] = Started
           /\ Goal.name = NoName => m = 0 /\ S[1] # AssignWord
           /\ Goal.name # NoName =>
                m = 3 /\ 4 <= Len(S) /\ S[1] = AssignWord /\ Peek(1) = Goal.name /\ Peek(2) = Equals
<1>1. m \in Nat /\ Len(w) \in Nat /\ Len(S) = m + Len(w) /\ ReadsTo(T, w, R, Goal.value)
      BY DEF Aim
<1>2. 0 < Len(w) /\ IsWordToken(w[1])
      BY <1>1, FirstRead
<1>3. Len(S) \in Nat /\ m < Len(S) /\ 0 \in 0..Len(w)
      BY <1>1, <1>2
<1>4. ASSUME Goal.name = NoName
      PROVE  m = 0 /\ S[1] # AssignWord
  <2>1. m = 0
        BY <1>4 DEF Aim
  <2> DEFINE p == 0
  <2>2. p \in Nat /\ m + p = 0 /\ p + 1 = 1
        BY <2>1
  <2>3. Peek(m + p) = TokenAfter(w, p)
        BY <2>2 DEF Aim
  <2>4. Peek(0) = TokenAfter(w, 0)
        BY <2>2, <2>3
  <2>5. S[1] = w[1]
        BY <1>1, <1>2, <1>3, <2>1, <2>4 DEF Peek, TokenAfter
  <2> QED BY <1>2, <2>1, <2>5, PunctuationRead DEF IsWordToken
<1>5. ASSUME Goal.name # NoName
      PROVE  m = 3 /\ 4 <= Len(S) /\ S[1] = AssignWord /\ Peek(1) = Goal.name /\ Peek(2) = Equals
  <2>1. m = 3 /\ S[1] = AssignWord /\ S[2] = Goal.name /\ S[3] = Equals
        BY <1>5 DEF Aim
  <2>2. 4 <= Len(S)
        BY <1>3, <2>1
  <2> QED BY <1>3, <2>1, <2>2 DEF Peek
<1>6. R[0] = Started
      BY <1>1 DEF ReadsTo, Reading
<1> QED BY <1>1, <1>3, <1>4, <1>5, <1>6

LEMMA StartPlanned ==
    ASSUME Inv, Planned, source # Unknown, ParseEvaluation \/ ParseAssign
    PROVE  Planned'
<1>1. /\ pc = "statement" /\ statement <= Len(Stmts) /\ errors' = errors /\ frames' = frames
      /\ \/ S[1] # AssignWord /\ Continue(0, "expression") /\ target' = NoName
         \/ S[1] = AssignWord /\ Continue(3, "expression") /\ target' = Peek(1)
      BY DEF ParseEvaluation, ParseAssign, InStatement, Assigns
<1>2. PICK T, w, R, m : Aim(T, w, R, m)
      BY <1>1, Aimed
<1>3. /\ m \in Nat /\ 0 \in 0..Len(w) /\ R[0] = Started
      /\ Goal.name = NoName => m = 0 /\ S[1] # AssignWord
      /\ Goal.name # NoName => m = 3 /\ S[1] = AssignWord /\ Peek(1) = Goal.name
      BY <1>2, StatementBegun
<1>4. Continue(m, "expression") /\ target' = Goal.name
      BY <1>1, <1>3
<1>5. frames' = << >> /\ pc' = "expression"
      BY <1>1, <1>4 DEF Inv, Placed, Continue
<1> DEFINE q == 0
<1>6. Following(R, q)'
      BY <1>3, <1>5 DEF Following, Started, At, Begins
<1>7. q \in 0..Len(w) /\ m = m + q
      BY <1>3
<1> HIDE DEF q
<1> QED BY <1>1, <1>2, <1>4, <1>6, <1>7, PlannedNext

LEMMA NothingFails ==
    ASSUME Inv, Planned, source # Unknown, FailAssertion \/ SkipAssign \/ Throw
    PROVE  FALSE
<1>1. pc # "read" /\ statement <= Len(Stmts)
      BY DEF FailAssertion, SkipAssign, LacksSign, Throw, InStatement
<1>2. PICK T, w, R, m : Aim(T, w, R, m)
      BY <1>1, Aimed
<1>3. /\ m \in Nat /\ Len(S) \in Nat /\ m < Len(S)
      /\ Goal.name = NoName => m = 0 /\ S[1] # AssignWord
      /\ Goal.name # NoName => m = 3 /\ 4 <= Len(S) /\ Peek(2) = Equals
      BY <1>2, StatementBegun
<1>4. S # << >>
      BY <1>3
<1>5. CASE FailAssertion
      BY <1>4, <1>5 DEF FailAssertion
<1>6. CASE SkipAssign
      BY <1>3, <1>6 DEF SkipAssign, LacksSign, Assigns
<1>7. CASE Throw
  <2>1. LastPeek > Len(S)
        BY <1>7 DEF Throw, Throws
  <2>2. CASE pc = "statement"
        BY <1>3, <2>1, <2>2 DEF LastPeek, Assigns
  <2>3. CASE Parsing
    <3>1. PICK T1, w1, R1, m1 : Aim(T1, w1, R1, m1) /\ \E p \in 0..Len(w1) : Position = m1 + p /\ Following(R1, p)
          BY <2>3, FollowedIs
    <3>2. PICK p \in 0..Len(w1) : Position = m1 + p /\ Following(R1, p)
          BY <3>1
    <3>3. p \in Nat /\ m1 \in Nat /\ Len(w1) \in Nat /\ Len(S) = m1 + Len(w1)
          BY <3>1, <3>2, PeekedRead
    <3>4. pc = "expression" => p < Len(w1)
          BY <3>1, <3>2, BeginningPeeked
    <3>5. Position <= Len(S) /\ (pc = "expression" => Position + 1 <= Len(S)) /\ Position \in Nat
          BY <3>2, <3>3, <3>4
    <3>6. LastPeek <= Len(S)
          BY <2>3, <3>3, <3>5 DEF LastPeek, Assigns, Parsing
    <3>7. LastPeek \in Nat
          BY <2>3, <3>5 DEF LastPeek, Assigns, Parsing
    <3> QED BY <1>3, <2>1, <3>6, <3>7
  <2> QED BY <1>7, <2>2, <2>3 DEF Throw, InStatement, Parsing
<1> QED BY <1>5, <1>6, <1>7

LEMMA FinishPlanned ==
    ASSUME Inv, Planned, source # Unknown, FinishStatement
    PROVE  Planned'
<1> DEFINE k == Len(ParsedStmts)
<1>1. /\ pc = "returned" /\ Parsing /\ frames = << >> /\ ParsedStmts' = Append(ParsedStmts, Statement)
      /\ Stmts' = Stmts /\ source' = source /\ text' = text /\ errors' = errors /\ pc' = "statement"
      /\ statement' = statement + 1
      BY DEF FinishStatement, Finish, Parsing
<1>2. PICK T, w, R, m : Aim(T, w, R, m) /\ \E p \in 0..Len(w) : Position = m + p /\ Following(R, p)
      BY <1>1, FollowedIs
<1>3. PICK p \in 0..Len(w) : Position = m + p /\ Following(R, p)
      BY <1>2
<1>4. p \in Nat /\ Len(w) \in Nat /\ ReadsTo(T, w, R, Goal.value)
      BY <1>2, <1>3, PeekedRead
<1>5. R[p] = At("returned", << >>, value)
      BY <1>1, <1>3 DEF Following
<1>6. ~(p < Len(w))
  <2> SUFFICES ASSUME p < Len(w)
               PROVE  FALSE
      OBVIOUS
  <2> DEFINE q == p + 1
  <2>1. R[q] = Read(R[p], w[q], TokenAfter(w, q)) /\ R[q] # Bad
        BY <1>4, NextRead
  <2> HIDE DEF q
  <2> QED BY <1>5, <2>1 DEF Read, Begins, At
<1>7. p = Len(w)
      BY <1>3, <1>4, <1>6
<1>8. value = Goal.value
      BY <1>4, <1>5, <1>7 DEF ReadsTo, At
<1>9. /\ IsProgram(source) /\ errors = {} /\ k + 1 = statement
      /\ \A n \in 1..k : ParsedStmts[n].name = source[n].name /\ ParsedStmts[n].value = source[n].value
      /\ Len(Stmts) = Len(source) /\ \A n \in 1..Len(Stmts) : Stmts[n] = Wording(source[n])
      /\ target = Goal.name
      BY <1>1 DEF Planned
<1> DEFINE last == k + 1
<1>10. /\ k \in Nat /\ ParsedStmts'[last] = Statement /\ Len(ParsedStmts') = last
       /\ \A n \in 1..k : ParsedStmts'[n] = ParsedStmts[n]
  <2>1. ParsedStmts \in Seq([name : Token, value : Tree, from : Nat, to : Nat])
        BY DEF Inv, Typed
  <2>2. /\ k \in Nat /\ DOMAIN ParsedStmts' = 1..last /\ ParsedStmts'[last] = Statement
        /\ \A n \in 1..k : ParsedStmts'[n] = ParsedStmts[n]
        BY <1>1, <2>1, AppendedTo
  <2>3. Len(ParsedStmts') = last
        BY <1>1, <2>1
  <2> QED BY <2>2, <2>3
<1>11. Statement.name = source[last].name /\ Statement.value = source[last].value
       BY <1>8, <1>9 DEF Statement, Goal
<1> HIDE DEF k, last
<1>12. \A n \in 1..last : n = last \/ n \in 1..k
       BY <1>10 DEF last
<1>13. \A n \in 1..last : ParsedStmts'[n].name = source[n].name /\ ParsedStmts'[n].value = source[n].value
       BY <1>9, <1>10, <1>11, <1>12
<1>14. last + 1 = statement'
       BY <1>1, <1>9 DEF last
<1> QED BY <1>1, <1>9, <1>10, <1>13, <1>14 DEF Planned, Aborted, Parsing

-----------------------------------------------------------------------------
(* The text of a program is cut into its tokens, and these into its         *)
(* statements.  A loop with run R over w: u takes it from one state to      *)
(* another, wherever it occurs.                                             *)
Moves(w, R, u, before, after) ==
    \A p \in Nat : Occurs(w, p, u) /\ R[p] = before => R[p + Len(u)] = after

LEMMA MovesJoined ==
    ASSUME NEW T, NEW w \in Seq(T), NEW R, NEW u \in Seq(T), NEW v \in Seq(T), NEW j, IsJoined(j, u, v),
           NEW a, NEW b, NEW c, Moves(w, R, u, a, b), Moves(w, R, v, b, c)
    PROVE  Moves(w, R, j, a, c)
<1> SUFFICES ASSUME NEW p \in Nat, Occurs(w, p, j), R[p] = a
             PROVE  R[p + Len(j)] = c
    BY DEF Moves
<1> DEFINE q == p + Len(u)
<1>1. Occurs(w, p, u) /\ Occurs(w, q, v) /\ p + Len(j) = q + Len(v) /\ q \in Nat
      BY OccursJoined
<1>2. R[q] = b
      BY <1>1 DEF Moves
<1> HIDE DEF q
<1>3. R[q + Len(v)] = c
      BY <1>1, <1>2 DEF Moves
<1> QED BY <1>1, <1>3

LEMMA MovesNot ==
    ASSUME NEW w, NEW R, NEW none, none = << >>, NEW a
    PROVE  Moves(w, R, none, a, a)
<1>1. Len(none) = 0
      OBVIOUS
<1>2. \A p \in Nat : p + 0 = p
      OBVIOUS
<1> QED BY <1>1, <1>2 DEF Moves

(* By the elements of u. *)
LEMMA MovesThrough ==
    ASSUME NEW T, NEW w \in Seq(T), NEW R, NEW u \in Seq(T), NEW f,
           \A n \in 1..Len(u) : Moves(w, R, <<u[n]>>, f[n - 1], f[n])
    PROVE  Moves(w, R, u, f[0], f[Len(u)])
<1> DEFINE len == Len(u)
           first == f[0]
           U == {n \in 0..len : Moves(w, R, SubSeq(u, 1, n), first, f[n])}
<1>1. len \in Nat /\ SubSeq(u, 1, len) = u /\ SubSeq(u, 1, 0) = << >>
      BY SubSeqFull
<1>2. 0 \in U
  <2> DEFINE none == SubSeq(u, 1, 0)
  <2>1. none = << >>
        BY <1>1
  <2> HIDE DEF none, first
  <2>2. Moves(w, R, none, first, first)
        BY <2>1, MovesNot
  <2> QED BY <1>1, <2>2 DEF none, first
<1>3. ASSUME NEW n \in 0..(len - 1), n \in U
      PROVE  n + 1 \in U
  <2> DEFINE m == n + 1
             s == SubSeq(u, 1, n)
             e == u[m]
             one == <<e>>
             a == f[n]
             b == f[m]
  <2>1. n \in Nat /\ n < len /\ m \in 1..len /\ m \in 0..len /\ m - 1 = n
        BY <1>1
  <2>2. SubSeq(u, 1, m) = Append(s, e) /\ s \in Seq(T) /\ e \in T
    <3>1. m = n + 1
          OBVIOUS
    <3> HIDE DEF m
    <3> QED BY <2>1, <3>1, FirstTokens
  <2>3. Moves(w, R, s, first, a)
        BY <1>3
  <2>4. Moves(w, R, one, a, b)
    <3>1. Moves(w, R, <<u[m]>>, f[m - 1], f[m])
          BY <2>1
    <3> QED BY <2>1, <3>1
  <2>5. one \in Seq(T)
        BY <2>2
  <2>6. IsJoined(Append(s, e), s, one)
    <3> HIDE DEF s, e
    <3> QED BY <2>2, AppendJoined DEF IsJoined
  <2> DEFINE j == Append(s, e)
  <2>7. IsJoined(j, s, one)
        BY <2>6
  <2> HIDE DEF s, e, one, a, b, first, j
  <2>8. Moves(w, R, j, first, b)
        BY <2>2, <2>3, <2>4, <2>5, <2>7, MovesJoined
  <2> QED BY <2>1, <2>2, <2>8 DEF b, j
<1>4. len \in U
  <2> HIDE DEF U
  <2>1. 0..len \subseteq U
        BY <1>1, <1>2, <1>3, NaturalsUpTo
  <2> QED BY <1>1, <2>1
<1> QED BY <1>1, <1>4

(* By the parts it is made of. *)
LEMMA MovesFlat ==
    ASSUME NEW T, NEW w \in Seq(T), NEW R, NEW us \in Seq(Seq(T)), NEW f,
           \A n \in 1..Len(us) : Moves(w, R, us[n], f[n - 1], f[n])
    PROVE  Moves(w, R, FlattenSeq(us), f[0], f[Len(us)])
<1> DEFINE len == Len(us)
           first == f[0]
           U == {n \in 0..len : Moves(w, R, FlattenSeq(SubSeq(us, 1, n)), first, f[n])}
<1>1. len \in Nat /\ SubSeq(us, 1, len) = us /\ SubSeq(us, 1, 0) = << >>
      BY SubSeqFull
<1>2. 0 \in U
  <2> DEFINE none == FlattenSeq(SubSeq(us, 1, 0))
  <2>1. none = << >>
        BY <1>1, FlattenNone
  <2> HIDE DEF none, first
  <2>2. Moves(w, R, none, first, first)
        BY <2>1, MovesNot
  <2> QED BY <1>1, <2>2 DEF none, first
<1>3. ASSUME NEW n \in 0..(len - 1), n \in U
      PROVE  n + 1 \in U
  <2> DEFINE m == n + 1
             s == SubSeq(us, 1, n)
             u == us[m]
             x == FlattenSeq(s)
             j == FlattenSeq(Append(s, u))
             a == f[n]
             b == f[m]
  <2>1. n \in Nat /\ n < len /\ m \in 1..len /\ m \in 0..len /\ m - 1 = n
        BY <1>1
  <2>2. SubSeq(us, 1, m) = Append(s, u) /\ s \in Seq(Seq(T)) /\ u \in Seq(T)
    <3> DEFINE C == Seq(T)
    <3>1. m = n + 1 /\ us \in Seq(C) /\ n \in Nat /\ n < Len(us)
          BY <2>1
    <3> HIDE DEF m, C
    <3>2. SubSeq(us, 1, m) = Append(SubSeq(us, 1, n), us[m]) /\ SubSeq(us, 1, n) \in Seq(C) /\ us[m] \in C
          BY <3>1, FirstTokens
    <3> QED BY <3>2 DEF C
  <2>3. Moves(w, R, x, first, a)
        BY <1>3
  <2>4. Moves(w, R, u, a, b)
    <3>1. Moves(w, R, us[m], f[m - 1], f[m])
          BY <2>1
    <3> QED BY <2>1, <3>1
  <2> HIDE DEF s, u, a, b, first
  <2>5. x \in Seq(T) /\ IsJoined(j, x, u)
        BY <2>2, FlattenTyped, FlattenAppend DEF IsJoined
  <2> HIDE DEF x, j
  <2>6. Moves(w, R, j, first, b)
        BY <2>2, <2>3, <2>4, <2>5, MovesJoined
  <2> QED BY <2>1, <2>2, <2>6 DEF b, j
<1>4. len \in U
  <2> HIDE DEF U
  <2>1. 0..len \subseteq U
        BY <1>1, <1>2, <1>3, NaturalsUpTo
  <2> QED BY <1>1, <2>1
<1> QED BY <1>1, <1>4

(* The loop over the characters: the tokens that have been cut off, and the *)
(* one that is read.                                                        *)
Cut(ts, t) == [tokens |-> ts, NextToken |-> t]

LEMMA CharacterMoves ==
    ASSUME NEW C, NEW chars \in Seq(C), NEW run, IsReading(C, chars, run), NEW ch, NEW s
    PROVE  Moves(chars, run, <<ch>>, s, ReadCharacter(s, ch))
<1> SUFFICES ASSUME NEW p \in Nat, Occurs(chars, p, <<ch>>), run[p] = s
             PROVE  run[p + Len(<<ch>>)] = ReadCharacter(s, ch)
    BY DEF Moves
<1> DEFINE q == p + 1
<1>1. Len(<<ch>>) = 1 /\ q <= Len(chars) /\ chars[q] = ch /\ Len(chars) \in Nat
      BY DEF Occurs
<1>2. q \in 1..Len(chars) /\ q - 1 = p
      BY <1>1
<1> HIDE DEF q
<1>3. run[q] = ReadCharacter(s, ch)
      BY <1>1, <1>2 DEF IsReading
<1> QED BY <1>1, <1>3 DEF q

LEMMA SymbolMoves ==
    ASSUME NEW C, NEW chars \in Seq(C), NEW run, IsReading(C, chars, run), NEW s
    PROVE  /\ \A ch \in Symbols : Moves(chars, run, <<ch>>, s, Cut(Append(Flush(s), <<ch>>), << >>))
           /\ Moves(chars, run, <<Blank>>, s, Cut(Flush(s), << >>))
<1>1. ASSUME NEW ch \in Symbols
      PROVE  ReadCharacter(s, ch) = Cut(Append(Flush(s), <<ch>>), << >>)
      BY CharacterCases DEF Cut
<1>2. ReadCharacter(s, Blank) = Cut(Flush(s), << >>)
      BY CharacterCases DEF Cut
<1>3. \A ch \in Symbols : Moves(chars, run, <<ch>>, s, ReadCharacter(s, ch))
      BY CharacterMoves
<1>4. Moves(chars, run, <<Blank>>, s, ReadCharacter(s, Blank))
      BY CharacterMoves
<1> QED BY <1>1, <1>2, <1>3, <1>4

LEMMA WordMoves ==
    ASSUME NEW C, NEW chars \in Seq(C), NEW run, IsReading(C, chars, run), NEW ts, NEW t \in Seq(C), IsWord(t)
    PROVE  Moves(chars, run, t, Cut(ts, << >>), Cut(ts, t))
<1> DEFINE len == Len(t)
           f == [n \in 0..len |-> Cut(ts, SubSeq(t, 1, n))]
<1>1. len \in Nat /\ SubSeq(t, 1, len) = t /\ SubSeq(t, 1, 0) = << >>
      BY SubSeqFull
<1>2. f[0] = Cut(ts, << >>) /\ f[len] = Cut(ts, t)
  <2>1. 0 \in 0..len /\ len \in 0..len
        BY <1>1
  <2>2. \A n \in 0..len : f[n] = Cut(ts, SubSeq(t, 1, n))
        OBVIOUS
  <2> HIDE DEF f
  <2>3. f[0] = Cut(ts, SubSeq(t, 1, 0)) /\ f[len] = Cut(ts, SubSeq(t, 1, len))
        BY <2>1, <2>2
  <2>4. \A u : u = << >> => Cut(ts, u) = Cut(ts, << >>)
        OBVIOUS
  <2>5. Cut(ts, SubSeq(t, 1, 0)) = Cut(ts, << >>)
        BY <1>1, <2>4
  <2> QED BY <1>1, <2>3, <2>5
<1>3. ASSUME NEW n \in 1..len
      PROVE  Moves(chars, run, <<t[n]>>, f[n - 1], f[n])
  <2> DEFINE m == n - 1
             s == SubSeq(t, 1, m)
             ch == t[n]
  <2>1. m \in Nat /\ m < len /\ n = m + 1 /\ m \in 0..len /\ n \in 0..len
        BY <1>1
  <2>2. SubSeq(t, 1, n) = Append(s, ch)
    <3> HIDE DEF m
    <3> QED BY <2>1, FirstTokens
  <2>3. ch \notin Symbols \cup {Blank}
    <3>1. n \in DOMAIN t
          OBVIOUS
    <3> QED BY <3>1 DEF IsWord, Range
  <2>4. f[m] = Cut(ts, s) /\ f[n] = Cut(ts, Append(s, ch))
        BY <2>1, <2>2
  <2> HIDE DEF f, s, ch, m
  <2>5. ReadCharacter(Cut(ts, s), ch) = Cut(ts, Append(s, ch))
    <3> DEFINE c == Cut(ts, s)
    <3>1. ReadCharacter(c, ch) = [c EXCEPT !.NextToken = Append(c.NextToken, ch)]
      <4> HIDE DEF c
      <4> QED BY <2>3, CharacterCases
    <3> QED BY <3>1 DEF Cut
  <2>6. Moves(chars, run, <<ch>>, Cut(ts, s), ReadCharacter(Cut(ts, s), ch))
        BY CharacterMoves
  <2> QED BY <2>4, <2>5, <2>6 DEF ch, m
<1> HIDE DEF f
<1>4. Moves(chars, run, t, f[0], f[len])
      BY <1>3, MovesThrough
<1> QED BY <1>2, <1>4

(* Words and marks, with a blank where two words meet. *)
Marks == {Comma, Open, Close, Equals}

Legible(v, name) ==
    \A n \in 1..Len(v) :
        /\ IsWord(v[n]) \/ v[n] \in Marks
        /\ IsWord(v[n]) /\ n > 1 /\ IsWord(v[n - 1]) => n = 2 /\ name # NoName

Piece(v, name, n) == IF n = 2 /\ name # NoName THEN <<Blank>> \o v[n] ELSE v[n]

(* Where the loop is after n tokens. *)
CutAfter(ts, v, n) ==
    IF n # 0 /\ IsWord(v[n]) THEN Cut(ts \o SubSeq(v, 1, n - 1), v[n]) ELSE Cut(ts \o SubSeq(v, 1, n), << >>)

LEMMA FlushCut ==
    ASSUME NEW ts, NEW t
    PROVE  Flush(Cut(ts, t)) = IF t = << >> THEN ts ELSE Append(ts, t)
BY DEF Flush, Cut

LEMMA TokensNext ==
    ASSUME NEW C, NEW ts \in Seq(Seq(C)), NEW v \in Seq(Seq(C)), NEW m \in Nat, m < Len(v), NEW n, n = m + 1
    PROVE  ts \o SubSeq(v, 1, n) = Append(ts \o SubSeq(v, 1, m), v[n]) /\ v[n] \in Seq(C)
<1> DEFINE T == Seq(C)
           s == SubSeq(v, 1, m)
           e == v[n]
<1>1. ts \in Seq(T) /\ v \in Seq(T)
      OBVIOUS
<1> HIDE DEF T
<1>2. SubSeq(v, 1, n) = Append(s, e) /\ s \in Seq(T) /\ e \in T
      BY <1>1, FirstTokens
<1> HIDE DEF s, e
<1>3. ts \o Append(s, e) = Append(ts \o s, e)
      BY <1>1, <1>2, AppendJoined
<1> QED BY <1>2, <1>3 DEF s, e, T

LEMMA FlushAfter ==
    ASSUME NEW C, NEW ts \in Seq(Seq(C)), NEW v \in Seq(Seq(C)), NEW n \in 0..Len(v)
    PROVE  Flush(CutAfter(ts, v, n)) = ts \o SubSeq(v, 1, n)
<1>1. CASE n # 0 /\ IsWord(v[n])
  <2> DEFINE m == n - 1
             x == ts \o SubSeq(v, 1, m)
             t == v[n]
  <2>1. m \in Nat /\ m < Len(v) /\ n = m + 1
        BY <1>1
  <2>2. t # << >>
        BY <1>1 DEF IsWord, NoToken
  <2>3. CutAfter(ts, v, n) = Cut(x, t)
        BY <1>1 DEF CutAfter
  <2> HIDE DEF m
  <2>4. ts \o SubSeq(v, 1, n) = Append(x, t)
        BY <2>1, TokensNext
  <2> HIDE DEF x, t
  <2> QED BY <2>2, <2>3, <2>4, FlushCut
<1>2. CASE ~(n # 0 /\ IsWord(v[n]))
  <2> DEFINE x == ts \o SubSeq(v, 1, n)
             none == << >>
  <2>1. CutAfter(ts, v, n) = Cut(x, none) /\ none = << >>
        BY <1>2 DEF CutAfter
  <2> HIDE DEF x, none
  <2>2. Flush(Cut(x, none)) = x
        BY <2>1, FlushCut
  <2> QED BY <2>1, <2>2 DEF x
<1> QED BY <1>1, <1>2

LEMMA MarkIs ==
    ASSUME NEW t \in Marks
    PROVE  /\ ~IsWord(t) /\ t # Semicolon
           /\ \E ch \in Symbols : t = <<ch>>
<1>1. PICK ch \in Symbols : t = <<ch>> /\ ch # ";"
      BY DEF Marks, Comma, Open, Close, Equals, Symbols
<1>2. 1 \in DOMAIN <<ch>> /\ <<ch>>[1] = ch
      OBVIOUS
<1>3. ch \in Range(t)
      BY <1>1, <1>2 DEF Range
<1>4. ~IsWord(t)
      BY <1>3 DEF IsWord
<1>5. t # Semicolon
      BY <1>1 DEF Semicolon
<1> QED BY <1>1, <1>4, <1>5

(* One token. *)
LEMMA TokenMoves ==
    ASSUME NEW C, NEW chars \in Seq(C), NEW run, IsReading(C, chars, run), NEW x, NEW t \in Seq(C),
           IsWord(t) \/ t \in Marks, NEW s, Flush(s) = x, IsWord(t) => s = Cut(x, << >>)
    PROVE  Moves(chars, run, t, s, IF IsWord(t) THEN Cut(x, t) ELSE Cut(Append(x, t), << >>))
<1>1. CASE IsWord(t)
  <2>1. Moves(chars, run, t, Cut(x, << >>), Cut(x, t))
        BY <1>1, WordMoves
  <2> QED BY <1>1, <2>1
<1>2. CASE ~IsWord(t)
  <2>1. PICK ch \in Symbols : t = <<ch>>
        BY <1>2, MarkIs
  <2>2. Moves(chars, run, <<ch>>, s, Cut(Append(Flush(s), <<ch>>), << >>))
        BY SymbolMoves
  <2>3. Moves(chars, run, t, s, Cut(Append(x, t), << >>))
        BY <2>1, <2>2
  <2> QED BY <1>2, <2>3
<1> QED BY <1>1, <1>2

LEMMA PieceMoves ==
    ASSUME NEW C, NEW chars \in Seq(C), NEW run, IsReading(C, chars, run), Blank \in C,
           NEW ts \in Seq(Seq(C)), NEW v \in Seq(Seq(C)), NEW name, Legible(v, name), NEW n \in 1..Len(v)
    PROVE  Moves(chars, run, Piece(v, name, n), CutAfter(ts, v, n - 1), CutAfter(ts, v, n))
<1> DEFINE m == n - 1
           t == v[n]
           x == ts \o SubSeq(v, 1, m)
           y == ts \o SubSeq(v, 1, n)
           before == CutAfter(ts, v, m)
           after == CutAfter(ts, v, n)
<1>1. m \in Nat /\ m < Len(v) /\ n = m + 1 /\ m \in 0..Len(v) /\ n # 0
      OBVIOUS
<1>2. y = Append(x, t) /\ t \in Seq(C)
  <2> HIDE DEF m
  <2> QED BY <1>1, TokensNext
<1>3. Flush(before) = x
  <2> HIDE DEF m
  <2> QED BY <1>1, FlushAfter
<1>4. IsWord(t) \/ t \in Marks
      BY DEF Legible
<1>5. after = IF IsWord(t) THEN Cut(x, t) ELSE Cut(y, << >>)
      BY <1>1 DEF CutAfter
<1>6. CASE n = 2 /\ name # NoName
  <2> DEFINE blank == <<Blank>>
             j == Piece(v, name, n)
             b == Cut(x, << >>)
  <2>1. j = blank \o t /\ blank \in Seq(C)
        BY <1>6 DEF Piece
  <2>2. Moves(chars, run, blank, before, b)
    <3>1. Moves(chars, run, blank, before, Cut(Flush(before), << >>))
          BY SymbolMoves
    <3> QED BY <1>3, <3>1
  <2>3. Flush(b) = x
    <3> HIDE DEF x
    <3> QED BY FlushCut
  <2>4. Moves(chars, run, t, b, after)
    <3> HIDE DEF x, y, t, after
    <3>1. IsWord(t) => b = Cut(x, << >>)
          OBVIOUS
    <3> HIDE DEF b
    <3> QED BY <1>2, <1>4, <1>5, <2>3, <3>1, TokenMoves
  <2>5. IsJoined(j, blank, t)
        BY <2>1 DEF IsJoined
  <2> HIDE DEF blank, j, b, t, before, after
  <2> QED BY <1>2, <2>1, <2>2, <2>4, <2>5, MovesJoined DEF j, before, after
<1>7. CASE ~(n = 2 /\ name # NoName)
  <2>1. Piece(v, name, n) = t
        BY <1>7 DEF Piece
  <2>2. IsWord(t) => before = Cut(x, << >>)
    <3>1. IsWord(t) /\ m # 0 => ~IsWord(v[m])
          BY <1>1, <1>7 DEF Legible
    <3> QED BY <3>1 DEF CutAfter
  <2> HIDE DEF x, y, t, before, after
  <2>3. Moves(chars, run, t, before, after)
        BY <1>2, <1>3, <1>4, <1>5, <2>2, TokenMoves
  <2> QED BY <2>1, <2>3 DEF before, after
<1> QED BY <1>6, <1>7

(* The tokens of a statement, with the semicolon. *)
Line(s) == Append(Wording(s), Semicolon)

ArePieces(us, v, name) == us = [n \in 1..Len(v) |-> Piece(v, name, n)]

LEMMA PiecesTyped ==
    ASSUME NEW C, Blank \in C, NEW v \in Seq(Seq(C)), NEW name,
           NEW us, ArePieces(us, v, name)
    PROVE  /\ us \in Seq(Seq(C)) /\ FlattenSeq(us) \in Seq(C)
           /\ Len(us) = Len(v) /\ \A n \in 1..Len(v) : us[n] = Piece(v, name, n)
<1> DEFINE k == Len(v)
<1>1. k \in Nat
      OBVIOUS
<1>2. ASSUME NEW n \in 1..k
      PROVE  Piece(v, name, n) \in Seq(C)
  <2> DEFINE t == v[n]
             blank == <<Blank>>
  <2>1. t \in Seq(C) /\ blank \in Seq(C)
        OBVIOUS
  <2>2. blank \o t \in Seq(C)
    <3> HIDE DEF t, blank
    <3> QED BY <2>1, ConcatProperties
  <2> QED BY <2>1, <2>2 DEF Piece
<1>3. us \in Seq(Seq(C)) /\ Len(us) = k /\ \A n \in 1..k : us[n] = Piece(v, name, n)
      BY <1>1, <1>2 DEF ArePieces
<1>4. FlattenSeq(us) \in Seq(C)
      BY <1>3, FlattenTyped
<1> QED BY <1>3, <1>4

LEMMA PiecesMove ==
    ASSUME NEW C, NEW chars \in Seq(C), NEW run, IsReading(C, chars, run), Blank \in C,
           NEW ts \in Seq(Seq(C)), NEW v \in Seq(Seq(C)), NEW name, Legible(v, name),
           NEW us, ArePieces(us, v, name)
    PROVE  Moves(chars, run, FlattenSeq(us), Cut(ts, << >>), CutAfter(ts, v, Len(v)))
<1> DEFINE k == Len(v)
           f == [n \in 0..k |-> CutAfter(ts, v, n)]
<1>1. k \in Nat
      OBVIOUS
<1>2. us \in Seq(Seq(C)) /\ Len(us) = k /\ \A n \in 1..k : us[n] = Piece(v, name, n)
      BY PiecesTyped
<1>3. ASSUME NEW n \in 1..k
      PROVE  Moves(chars, run, us[n], f[n - 1], f[n])
  <2>1. n \in 0..k /\ n - 1 \in 0..k
        BY <1>1
  <2>2. Moves(chars, run, Piece(v, name, n), CutAfter(ts, v, n - 1), CutAfter(ts, v, n))
        BY PieceMoves
  <2> QED BY <1>2, <2>1, <2>2
<1>4. f[0] = CutAfter(ts, v, 0) /\ f[k] = CutAfter(ts, v, k)
  <2>1. 0 \in 0..k /\ k \in 0..k
        BY <1>1
  <2> QED BY <2>1
<1> HIDE DEF f
<1>5. Moves(chars, run, FlattenSeq(us), f[0], f[Len(us)])
      BY <1>2, <1>3, MovesFlat
<1>6. CutAfter(ts, v, 0) = Cut(ts, << >>)
  <2>1. SubSeq(v, 1, 0) = << >> /\ ts \o << >> = ts
        BY SubSeqFull
  <2> QED BY <2>1 DEF CutAfter
<1> QED BY <1>2, <1>4, <1>5, <1>6

LEMMA LineTyped ==
    ASSUME NEW C, Blank \in C, Semicolon \in Seq(C), NEW s, Wording(s) \in Seq(Seq(C))
    PROVE  /\ StatementText(s) \in Seq(C) /\ Line(s) \in Seq(Seq(C))
           /\ StatementText(s) = FlattenSeq([n \in 1..Len(Wording(s)) |-> Piece(Wording(s), s.name, n)]) \o Semicolon
<1> DEFINE v == Wording(s)
           name == s.name
           us == [n \in 1..Len(v) |-> Piece(v, name, n)]
           x == FlattenSeq(us)
           j == StatementText(s)
<1>1. v \in Seq(Seq(C))
      OBVIOUS
<1>2. j = x \o Semicolon
  <2>1. j = FlattenSeq([n \in DOMAIN v |-> Piece(v, name, n)]) \o Semicolon
        BY DEF StatementText, Wording, Piece
  <2>2. DOMAIN v = 1..Len(v)
        BY <1>1
  <2> HIDE DEF v, name
  <2> QED BY <2>1, <2>2
<1>3. x \in Seq(C)
  <2>1. ArePieces(us, v, name)
        BY DEF ArePieces
  <2> HIDE DEF v, name, us
  <2> QED BY <1>1, <2>1, PiecesTyped
<1>4. j \in Seq(C)
  <2> HIDE DEF x, j
  <2>1. \A y \in Seq(C) : x \o y \in Seq(C)
        BY <1>3, ConcatProperties
  <2> QED BY <1>2, <2>1
<1>5. Line(s) \in Seq(Seq(C))
  <2>1. Line(s) = Append(v, Semicolon)
        BY DEF Line
  <2> HIDE DEF v
  <2> QED BY <1>1, <2>1
<1> QED BY <1>2, <1>4, <1>5

LEMMA LineMoves ==
    ASSUME NEW C, NEW chars \in Seq(C), NEW run, IsReading(C, chars, run), Blank \in C, Semicolon \in Seq(C),
           NEW ts \in Seq(Seq(C)), NEW s, Wording(s) \in Seq(Seq(C)), Legible(Wording(s), s.name)
    PROVE  Moves(chars, run, StatementText(s), Cut(ts, << >>), Cut(ts \o Line(s), << >>))
<1> DEFINE v == Wording(s)
           name == s.name
           us == [n \in 1..Len(v) |-> Piece(v, name, n)]
           x == FlattenSeq(us)
           last == CutAfter(ts, v, Len(v))
           j == StatementText(s)
           z == ts \o v
           a == Cut(ts, << >>)
           b == Cut(Append(z, Semicolon), << >>)
<1>0. v \in Seq(Seq(C)) /\ Legible(v, name)
      OBVIOUS
<1>1. x \in Seq(C) /\ Moves(chars, run, x, a, last)
  <2>1. ArePieces(us, v, name)
        BY DEF ArePieces
  <2> HIDE DEF v, name, us
  <2>2. x \in Seq(C)
        BY <1>0, <2>1, PiecesTyped
  <2>3. Moves(chars, run, x, a, last)
        BY <1>0, <2>1, PiecesMove
  <2> QED BY <2>2, <2>3
<1>2. j = x \o Semicolon
      BY LineTyped
<1>3. Flush(last) = z
  <2>1. Len(v) \in 0..Len(v) /\ SubSeq(v, 1, Len(v)) = v
        BY <1>0, SubSeqFull
  <2> HIDE DEF v
  <2>2. Flush(CutAfter(ts, v, Len(v))) = ts \o SubSeq(v, 1, Len(v))
        BY <1>0, <2>1, FlushAfter
  <2> QED BY <2>1, <2>2
<1>4. Moves(chars, run, Semicolon, last, b)
  <2>1. PICK ch \in Symbols : Semicolon = <<ch>>
        BY Zenon DEF Symbols, Semicolon
  <2> HIDE DEF last, z
  <2>2. Moves(chars, run, <<ch>>, last, Cut(Append(Flush(last), <<ch>>), << >>))
        BY SymbolMoves
  <2> QED BY <1>3, <2>1, <2>2
<1>5. b = Cut(ts \o Line(s), << >>)
  <2> DEFINE T == Seq(C)
  <2>1. ts \in Seq(T) /\ v \in Seq(T) /\ Semicolon \in T
        BY <1>0
  <2>2. Line(s) = Append(v, Semicolon)
        BY DEF Line
  <2> HIDE DEF T, v
  <2>3. ts \o Append(v, Semicolon) = Append(ts \o v, Semicolon)
        BY <2>1, AppendJoined
  <2> QED BY <2>2, <2>3
<1>6. IsJoined(j, x, Semicolon)
      BY <1>2 DEF IsJoined
<1> HIDE DEF x, j, a, b, last
<1>7. Moves(chars, run, j, a, b)
  <2> DEFINE u == Semicolon
  <2>1. u \in Seq(C) /\ Moves(chars, run, u, last, b) /\ IsJoined(j, x, u)
        BY <1>4, <1>6
  <2> HIDE DEF u
  <2> QED BY <1>1, <2>1, MovesJoined
<1> QED BY <1>5, <1>7 DEF j, a

(* A program that is written with the characters of C. *)
WrittenIn(C, program) ==
    /\ Blank \in C /\ Semicolon \in Seq(C) /\ program \in Seq(Range(program))
    /\ \A n \in 1..Len(program) :
           Wording(program[n]) \in Seq(Seq(C)) /\ Legible(Wording(program[n]), program[n].name)

LEMMA TextTokens ==
    ASSUME NEW C, NEW program, WrittenIn(C, program), NEW chars, chars = TextOf(program),
           NEW lines, lines = [n \in 1..Len(program) |-> Line(program[n])]
    PROVE  /\ chars \in Seq(C) /\ lines \in Seq(Seq(Seq(C)))
           /\ Tokenize(chars) = FlattenSeq(lines)
<1> DEFINE T == Seq(C)
           k == Len(program)
           us == [n \in 1..k |-> StatementText(program[n])]
           f == [n \in 0..k |-> Cut(FlattenSeq(SubSeq(lines, 1, n)), << >>)]
<1>0. k \in Nat /\ Blank \in C /\ Semicolon \in Seq(C)
      BY DEF WrittenIn
<1>1. ASSUME NEW n \in 1..k
      PROVE  StatementText(program[n]) \in Seq(C) /\ Line(program[n]) \in Seq(T)
      BY <1>0, LineTyped DEF WrittenIn
<1>2. /\ us \in Seq(Seq(C)) /\ Len(us) = k /\ (\A n \in 1..k : us[n] = StatementText(program[n]))
      /\ lines \in Seq(Seq(T)) /\ Len(lines) = k /\ (\A n \in 1..k : lines[n] = Line(program[n]))
      BY <1>0, <1>1
<1>3. chars = FlattenSeq(us)
  <2>1. DOMAIN program = 1..k
        BY DEF WrittenIn
  <2> QED BY <2>1 DEF TextOf
<1>4. chars \in Seq(C)
  <2> HIDE DEF us
  <2> QED BY <1>2, <1>3, FlattenTyped
<1>5. PICK run : IsReading(C, chars, run) /\ ReadAll(chars) = run[Len(chars)]
      BY <1>4, ReadingRuns
<1>6. ASSUME NEW n \in 1..k
      PROVE  Moves(chars, run, us[n], f[n - 1], f[n])
  <2> DEFINE m == n - 1
             s == program[n]
             x == SubSeq(lines, 1, m)
             ts == FlattenSeq(x)
  <2>1. m \in Nat /\ m < k /\ n = m + 1 /\ m \in 0..k /\ n \in 0..k
        BY <1>0
  <2>2. SubSeq(lines, 1, n) = Append(x, Line(s)) /\ x \in Seq(Seq(T)) /\ Line(s) \in Seq(T)
    <3> DEFINE X == Seq(T)
    <3>1. lines \in Seq(X) /\ m < Len(lines)
          BY <1>2, <2>1
    <3> HIDE DEF X, m
    <3>2. SubSeq(lines, 1, n) = Append(SubSeq(lines, 1, m), lines[n]) /\ SubSeq(lines, 1, m) \in Seq(X) /\ lines[n] \in X
          BY <2>1, <3>1, FirstTokens
    <3> QED BY <1>2, <3>2 DEF X
  <2>3. ts \in Seq(T) /\ FlattenSeq(Append(x, Line(s))) = ts \o Line(s)
    <3> HIDE DEF x, T
    <3> QED BY <2>2, FlattenTyped, FlattenAppend
  <2>4. Wording(s) \in Seq(Seq(C)) /\ Legible(Wording(s), s.name)
        BY DEF WrittenIn
  <2>5. f[m] = Cut(ts, << >>) /\ f[n] = Cut(ts \o Line(s), << >>)
        BY <2>1, <2>2, <2>3
  <2> HIDE DEF x, ts, s, m, f
  <2>6. Moves(chars, run, StatementText(s), Cut(ts, << >>), Cut(ts \o Line(s), << >>))
        BY <1>0, <1>4, <1>5, <2>3, <2>4, LineMoves
  <2> QED BY <1>2, <2>5, <2>6 DEF m, s
<1>7. f[0] = Cut(<< >>, << >>) /\ f[k] = Cut(FlattenSeq(lines), << >>)
  <2>1. 0 \in 0..k /\ k \in 0..k /\ SubSeq(lines, 1, 0) = << >> /\ SubSeq(lines, 1, k) = lines
        BY <1>0, <1>2, SubSeqFull
  <2> QED BY <2>1, FlattenNone
<1> HIDE DEF f
<1>8. Moves(chars, run, FlattenSeq(us), f[0], f[Len(us)])
      BY <1>2, <1>4, <1>6, MovesFlat
<1> DEFINE end == Cut(FlattenSeq(lines), << >>)
           none == Cut(<< >>, << >>)
           len == Len(chars)
           p == 0
<1>9. run[len] = end
  <2>1. Moves(chars, run, chars, none, end)
        BY <1>2, <1>3, <1>7, <1>8
  <2>2. len \in Nat /\ p \in Nat /\ p + len = len /\ \A n \in 1..len : p + n = n
        BY <1>4
  <2>3. run[p] = none
        BY <1>5 DEF IsReading, Cut
  <2>4. Occurs(chars, p, chars)
        BY <2>2 DEF Occurs
  <2> HIDE DEF p, none, end
  <2>5. run[p + Len(chars)] = end
        BY <2>1, <2>2, <2>3, <2>4 DEF Moves
  <2> QED BY <2>2, <2>5
<1>10. Flush(end) = FlattenSeq(lines)
  <2> DEFINE x == FlattenSeq(lines)
  <2> HIDE DEF x
  <2> QED BY FlushCut
<1>11. Tokenize(chars) = FlattenSeq(lines)
       BY <1>5, <1>9, <1>10 DEF Tokenize
<1> QED BY <1>2, <1>4, <1>11

(* The loop over the tokens. *)
Split(us, ts) == [stmts |-> us, Toks |-> ts]

LEMMA TakeMoves ==
    ASSUME NEW T, NEW tokens \in Seq(T), NEW run, IsSplitting(T, tokens, run), NEW t, NEW s
    PROVE  Moves(tokens, run, <<t>>, s, TakeToken(s, t))
<1> SUFFICES ASSUME NEW p \in Nat, Occurs(tokens, p, <<t>>), run[p] = s
             PROVE  run[p + Len(<<t>>)] = TakeToken(s, t)
    BY DEF Moves
<1> DEFINE q == p + 1
<1>1. Len(<<t>>) = 1 /\ q <= Len(tokens) /\ tokens[q] = t /\ Len(tokens) \in Nat
      BY DEF Occurs
<1>2. q \in 1..Len(tokens) /\ q - 1 = p
      BY <1>1
<1> HIDE DEF q
<1>3. run[q] = TakeToken(s, t)
      BY <1>1, <1>2 DEF IsSplitting
<1> QED BY <1>1, <1>3 DEF q

Unended(v) == \A n \in 1..Len(v) : v[n] # Semicolon

LEMMA StatementMoves ==
    ASSUME NEW T, NEW tokens \in Seq(T), NEW run, IsSplitting(T, tokens, run), Semicolon \in T,
           NEW us, NEW v \in Seq(T), Unended(v)
    PROVE  Moves(tokens, run, Append(v, Semicolon), Split(us, << >>), Split(Append(us, v), << >>))
<1> DEFINE len == Len(v)
           f == [n \in 0..len |-> Split(us, SubSeq(v, 1, n))]
           a == Split(us, << >>)
           b == Split(us, v)
           c == Split(Append(us, v), << >>)
<1>1. len \in Nat /\ SubSeq(v, 1, len) = v /\ SubSeq(v, 1, 0) = << >>
      BY SubSeqFull
<1>2. f[0] = a /\ f[len] = b
  <2>1. 0 \in 0..len /\ len \in 0..len
        BY <1>1
  <2>2. \A n \in 0..len : f[n] = Split(us, SubSeq(v, 1, n))
        OBVIOUS
  <2> HIDE DEF f
  <2>3. f[0] = Split(us, SubSeq(v, 1, 0)) /\ f[len] = Split(us, SubSeq(v, 1, len))
        BY <2>1, <2>2
  <2>4. \A u : u = << >> => Split(us, u) = a
        OBVIOUS
  <2>5. Split(us, SubSeq(v, 1, 0)) = a
        BY <1>1, <2>4
  <2> QED BY <1>1, <2>3, <2>5
<1>3. ASSUME NEW n \in 1..len
      PROVE  Moves(tokens, run, <<v[n]>>, f[n - 1], f[n])
  <2> DEFINE m == n - 1
             s == SubSeq(v, 1, m)
             t == v[n]
  <2>1. m \in Nat /\ m < len /\ n = m + 1 /\ m \in 0..len /\ n \in 0..len
        BY <1>1
  <2>2. SubSeq(v, 1, n) = Append(s, t)
    <3> HIDE DEF m
    <3> QED BY <2>1, FirstTokens
  <2>3. t # Semicolon
        BY DEF Unended
  <2>4. f[m] = Split(us, s) /\ f[n] = Split(us, Append(s, t))
        BY <2>1, <2>2
  <2> HIDE DEF f, s, t, m
  <2>5. TakeToken(Split(us, s), t) = Split(us, Append(s, t))
        BY <2>3 DEF TakeToken, Split
  <2>6. Moves(tokens, run, <<t>>, Split(us, s), TakeToken(Split(us, s), t))
        BY TakeMoves
  <2> QED BY <2>4, <2>5, <2>6 DEF t, m
<1> HIDE DEF f, a, b, c
<1>4. Moves(tokens, run, v, a, b)
  <2>1. Moves(tokens, run, v, f[0], f[len])
        BY <1>3, MovesThrough
  <2> QED BY <1>2, <2>1
<1> DEFINE end == <<Semicolon>>
           j == Append(v, Semicolon)
<1>5. Moves(tokens, run, end, b, c)
  <2>1. TakeToken(b, Semicolon) = c
        BY DEF TakeToken, Split, b, c
  <2>2. Moves(tokens, run, end, b, TakeToken(b, Semicolon))
        BY TakeMoves
  <2> QED BY <2>1, <2>2
<1>6. end \in Seq(T) /\ IsJoined(j, v, end)
      BY AppendJoined DEF IsJoined
<1> HIDE DEF end, j
<1>7. Moves(tokens, run, j, a, c)
      BY <1>4, <1>5, <1>6, MovesJoined
<1> QED BY <1>7 DEF j, a, c

AreLines(lines, words) == lines = [n \in 1..Len(words) |-> Append(words[n], Semicolon)]

LEMMA LinesSplit ==
    ASSUME NEW T, NEW words \in Seq(Seq(T)), \A n \in 1..Len(words) : Unended(words[n]), Semicolon \in T,
           NEW lines, AreLines(lines, words)
    PROVE  SplitStatements(FlattenSeq(lines)) = words
<1> DEFINE k == Len(words)
           f == [n \in 0..k |-> Split(SubSeq(words, 1, n), << >>)]
           tokens == FlattenSeq(lines)
<1>1. k \in Nat /\ SubSeq(words, 1, 0) = << >> /\ SubSeq(words, 1, k) = words
      BY SubSeqFull
<1>2. lines \in Seq(Seq(T)) /\ Len(lines) = k /\ \A n \in 1..k : lines[n] = Append(words[n], Semicolon)
  <2>1. \A n \in 1..k : Append(words[n], Semicolon) \in Seq(T)
        OBVIOUS
  <2> QED BY <1>1, <2>1 DEF AreLines
<1>3. tokens \in Seq(T)
      BY <1>2, FlattenTyped
<1> HIDE DEF tokens
<1>4. PICK run : /\ IsSplitting(T, tokens, run)
                 /\ LeftToRight(TakeToken, [stmts |-> << >>, Toks |-> << >>], tokens) = run[Len(tokens)]
      BY <1>3, SplittingRuns
<1>5. ASSUME NEW n \in 1..k
      PROVE  Moves(tokens, run, lines[n], f[n - 1], f[n])
  <2> DEFINE m == n - 1
             us == SubSeq(words, 1, m)
             v == words[n]
  <2>1. m \in Nat /\ m < k /\ n = m + 1 /\ m \in 0..k /\ n \in 0..k
        BY <1>1
  <2>2. SubSeq(words, 1, n) = Append(us, v) /\ v \in Seq(T)
    <3> DEFINE X == Seq(T)
               ws == words
    <3>1. ws \in Seq(X) /\ m < Len(ws) /\ m \in Nat /\ n = m + 1
          BY <2>1
    <3> HIDE DEF X, m, ws
    <3>2. SubSeq(ws, 1, n) = Append(SubSeq(ws, 1, m), ws[n]) /\ ws[n] \in X
          BY ONLY <3>1, FirstTokens
    <3> QED BY <3>2 DEF X, ws
  <2>3. f[m] = Split(us, << >>) /\ f[n] = Split(Append(us, v), << >>)
        BY <2>1, <2>2
  <2>4. Unended(v)
        OBVIOUS
  <2>5. lines[n] = Append(v, Semicolon)
        BY <1>2
  <2> HIDE DEF us, v, m, f
  <2>6. Moves(tokens, run, Append(v, Semicolon), Split(us, << >>), Split(Append(us, v), << >>))
        BY <1>3, <1>4, <2>2, <2>4, StatementMoves
  <2> QED BY <2>3, <2>5, <2>6 DEF m
<1>6. f[0] = Split(<< >>, << >>) /\ f[k] = Split(words, << >>)
  <2>1. 0 \in 0..k /\ k \in 0..k
        BY <1>1
  <2> QED BY <1>1, <2>1
<1> HIDE DEF f
<1>7. Moves(tokens, run, FlattenSeq(lines), f[0], f[Len(lines)])
      BY <1>2, <1>3, <1>5, MovesFlat
<1> DEFINE end == Split(words, << >>)
           none == Split(<< >>, << >>)
           len == Len(tokens)
           p == 0
<1>8. run[len] = end
  <2>1. Moves(tokens, run, tokens, none, end)
        BY <1>2, <1>6, <1>7 DEF tokens
  <2>2. len \in Nat /\ p \in Nat /\ p + len = len /\ \A n \in 1..len : p + n = n
        BY <1>3
  <2>3. run[p] = none
        BY <1>4 DEF IsSplitting, Split
  <2>4. Occurs(tokens, p, tokens)
        BY <2>2 DEF Occurs
  <2> HIDE DEF p, none, end
  <2>5. run[p + Len(tokens)] = end
        BY <2>1, <2>2, <2>3, <2>4 DEF Moves
  <2> QED BY <2>2, <2>5
<1>9. SplitStatements(tokens) = words
  <2>1. SplitStatements(tokens) = IF run[len].Toks = << >> THEN run[len].stmts ELSE Append(run[len].stmts, run[len].Toks)
        BY <1>4 DEF SplitStatements
  <2>2. end.Toks = << >> /\ end.stmts = words
        BY DEF Split
  <2> QED BY <1>8, <2>1, <2>2
<1> QED BY <1>9 DEF tokens

(* A word is no semicolon, nor are the marks. *)
LEMMA SemicolonIs ==
    /\ \E ch \in Symbols : Semicolon = <<ch>>
    /\ \A t : IsWord(t) \/ t \in Marks => t # Semicolon /\ t \in Seq(Range(t))
<1>1. PICK ch \in Symbols : Semicolon = <<ch>>
      BY Zenon DEF Symbols, Semicolon
<1>2. ~IsWord(Semicolon)
  <2>1. 1 \in DOMAIN <<ch>> /\ <<ch>>[1] = ch
        OBVIOUS
  <2>2. ch \in Range(Semicolon)
        BY <1>1, <2>1 DEF Range
  <2> QED BY <2>2 DEF IsWord
<1>3. ASSUME NEW t \in Marks
      PROVE  t # Semicolon /\ t \in Seq(Range(t))
  <2>1. PICK c \in Symbols : t = <<c>>
        BY MarkIs
  <2>2. 1 \in DOMAIN <<c>> /\ <<c>>[1] = c
        OBVIOUS
  <2>3. c \in Range(t)
        BY <2>1, <2>2 DEF Range
  <2>4. t \in Seq(Range(t))
        BY <2>1, <2>3
  <2> QED BY <2>4, MarkIs
<1> QED BY <1>1, <1>2, <1>3 DEF IsWord

(* The tokens of an expression. *)
LEMMA ExpressionLegible ==
    ASSUME NEW tree, tree \in Seq(Range(tree)), IsExpression(tree), NEW w, w = Unparse(tree)
    PROVE  /\ w \in Seq(Words(tree)) /\ 0 < Len(w)
           /\ \A n \in 1..Len(w) : IsWord(w[n]) \/ w[n] \in Marks
           /\ \A p \in Nat : p > 0 /\ p < Len(w) /\ IsWord(w[p]) => ~IsWord(w[p + 1])
<1> DEFINE T == Words(tree)
           R == Reader(w)
<1>1. tree \in Seq(Nodes(T)) /\ Punctuation \subseteq T
      BY NodesOfWords DEF Words
<1>2. ReadsTo(T, w, R, tree)
  <2>1. R = Reader(w)
        OBVIOUS
  <2> HIDE DEF T, R
  <2> QED BY <1>1, <2>1, WholeRead
<1>3. w \in Seq(T) /\ Len(w) \in Nat
      BY <1>2 DEF ReadsTo, Reading
<1>4. 0 < Len(w)
      BY <1>2, FirstRead
<1>5. ASSUME NEW t \in T
      PROVE  t \in Marks \/ (IsWord(t) /\ IsWordToken(t))
  <2>1. CASE t \in Punctuation
        BY <2>1 DEF Punctuation, Marks
  <2>2. CASE t \notin Punctuation
    <3>1. PICK n \in DOMAIN tree : t = tree[n].token
          BY <2>2 DEF Words
    <3>2. IsNode(tree[n])
          BY DEF IsExpression
    <3> QED BY <3>1, <3>2 DEF IsNode, IsWordToken, IsName
  <2> QED BY <2>1, <2>2
<1>6. \A t \in Punctuation \cup {NoToken} : ~IsWord(t)
  <2>1. ~IsWord(NoToken)
        BY DEF IsWord
  <2>2. Punctuation \subseteq Marks
        BY DEF Punctuation, Marks
  <2> QED BY <2>1, <2>2, MarkIs
<1> HIDE DEF T, R
<1>7. \A n \in 1..Len(w) : IsWord(w[n]) \/ w[n] \in Marks
      BY <1>3, <1>5
<1>8. ASSUME NEW p \in Nat, p > 0, p < Len(w), IsWord(w[p])
      PROVE  ~IsWord(w[p + 1])
  <2> DEFINE m == p - 1
  <2>1. m \in Nat /\ m < Len(w) /\ p = m + 1 /\ p \in 1..Len(w)
        BY <1>3, <1>8
  <2>2. w[p] \in T
        BY <1>3, <2>1
  <2>3. IsWordToken(w[p])
        BY <1>5, <1>8, <2>2, MarkIs
  <2> HIDE DEF m
  <2>4. TokenAfter(w, p) \in Punctuation \cup {NoToken}
        BY <1>2, <2>1, <2>3, WordsApart
  <2>5. TokenAfter(w, p) = w[p + 1]
        BY <1>8 DEF TokenAfter
  <2> QED BY <1>6, <2>4, <2>5
<1> QED BY <1>3, <1>4, <1>7, <1>8 DEF T

(* The tokens of a statement. *)
LEMMA WordingLegible ==
    ASSUME NEW s, IsStatement(s), NEW v, v = Wording(s)
    PROVE  /\ v \in Seq(Range(v)) /\ Legible(v, s.name) /\ Unended(v)
           /\ \A n \in 1..Len(v) : v[n] \in Seq(Range(v[n]))
<1> DEFINE name == s.name
           tree == s.value
           w == Unparse(tree)
           h == Header(name)
           m == Len(h)
           T == Words(tree) \cup {AssignWord, Equals, name}
<1>1. tree \in Seq(Range(tree)) /\ IsExpression(tree) /\ (name = NoName \/ IsName(name))
      BY DEF IsStatement
<1>2. /\ w \in Seq(Words(tree)) /\ \A n \in 1..Len(w) : IsWord(w[n]) \/ w[n] \in Marks
      /\ \A p \in Nat : p > 0 /\ p < Len(w) /\ IsWord(w[p]) => ~IsWord(w[p + 1])
  <2>1. w = Unparse(tree)
        OBVIOUS
  <2> HIDE DEF w, tree
  <2> QED BY <1>1, <2>1, ExpressionLegible
<1>3. w \in Seq(T) /\ h \in Seq(T)
  <2>1. h \in Seq(T)
    <3>1. AssignWord \in T /\ Equals \in T /\ name \in T
          OBVIOUS
    <3> HIDE DEF T, name
    <3> QED BY <3>1 DEF Header
  <2>2. Words(tree) \subseteq T
        OBVIOUS
  <2> HIDE DEF T, w, h
  <2> QED BY <1>2, <2>1, <2>2
<1>4. v \in Seq(T) /\ Headed(v, h, w, m)
  <2>1. IsJoined(v, h, w) /\ m = Len(h)
        BY DEF IsJoined, Wording
  <2> HIDE DEF T, w, h
  <2>2. Headed(v, h, w, m)
        BY <1>3, <2>1, JoinedTokens
  <2>3. v \in Seq(T)
        BY <1>3, <2>1, ConcatProperties DEF IsJoined
  <2> QED BY <2>2, <2>3
<1>5. /\ m \in Nat /\ Len(w) \in Nat /\ Len(v) = m + Len(w)
      /\ \A n \in 1..m : v[n] = h[n]
      /\ \A p \in Nat : TokenAfter(v, m + p) = TokenAfter(w, p)
      BY <1>4 DEF Headed
<1>6. ASSUME NEW p \in Nat, p < Len(w)
      PROVE  v[(m + p) + 1] = w[p + 1]
  <2>1. TokenAfter(v, m + p) = TokenAfter(w, p) /\ m + p < Len(v)
        BY <1>5, <1>6
  <2> QED BY <1>6, <2>1 DEF TokenAfter
<1>7. name = NoName => m = 0
      BY DEF Header
<1>8. ASSUME name # NoName
      PROVE  m = 3 /\ h[1] = AssignWord /\ h[2] = name /\ h[3] = Equals /\ IsName(name)
      BY <1>1, <1>8 DEF Header
<1>9. IsWord(AssignWord) /\ Equals \in Marks
  <2>1. Range(AssignWord) = {"assign"}
        BY DEF Range, AssignWord
  <2>2. {"assign"} \cap (Symbols \cup {Blank}) = {}
        BY Zenon DEF Symbols, Blank
  <2>3. AssignWord \in Seq({"assign"}) /\ AssignWord # NoToken
        BY DEF AssignWord, NoToken
  <2> QED BY <2>1, <2>2, <2>3 DEF IsWord, Marks
<1> HIDE DEF h, w, m, name, T
<1>10. ASSUME NEW n \in 1..Len(v)
       PROVE  /\ IsWord(v[n]) \/ v[n] \in Marks
              /\ IsWord(v[n]) /\ n > 1 /\ IsWord(v[n - 1]) => n = 2 /\ name # NoName
  <2>1. CASE n <= m
    <3>1. name # NoName /\ m = 3 /\ n \in 1..m /\ (n = 1 \/ n = 2 \/ n = 3)
          BY <1>5, <1>7, <1>8, <2>1
    <3>2. v[1] = AssignWord /\ v[2] = name /\ v[3] = Equals
      <4>1. 1 \in 1..m /\ 2 \in 1..m /\ 3 \in 1..m
            BY <3>1
      <4> QED BY <1>5, <1>8, <3>1, <4>1
    <3>3. IsWord(v[1]) /\ IsWord(v[2]) /\ v[3] \in Marks /\ ~IsWord(v[3])
          BY <1>8, <1>9, <3>1, <3>2, MarkIs DEF IsName
    <3> QED BY <3>1, <3>3
  <2>2. CASE ~(n <= m)
    <3> DEFINE p == (n - m) - 1
    <3>1. p \in Nat /\ p < Len(w) /\ n = (m + p) + 1 /\ p + 1 \in 1..Len(w)
          BY <1>5, <2>2
    <3>2. v[n] = w[p + 1]
          BY <1>6, <3>1
    <3> HIDE DEF p
    <3>3. IsWord(v[n]) \/ v[n] \in Marks
          BY <1>2, <3>1, <3>2
    <3>4. ASSUME IsWord(v[n]), n > 1, IsWord(v[n - 1])
          PROVE  FALSE
      <4>1. CASE p = 0
        <5>1. n - 1 = m /\ m # 0
              BY <1>5, <3>1, <3>4, <4>1
        <5>2. m = 3 /\ h[3] = Equals
              BY <1>7, <1>8, <5>1
        <5>3. m \in 1..m
              BY <1>5, <5>2
        <5>4. v[n - 1] = Equals
              BY <1>5, <5>1, <5>2, <5>3
        <5> QED BY <1>9, <3>4, <5>4, MarkIs
      <4>2. CASE p # 0
        <5> DEFINE q == p - 1
        <5>1. q \in Nat /\ q < Len(w) /\ q + 1 = p /\ (m + q) + 1 = n - 1
              BY <1>5, <3>1, <4>2
        <5> HIDE DEF q
        <5>2. v[n - 1] = w[p]
              BY <1>6, <5>1
        <5> QED BY <1>2, <3>1, <3>2, <3>4, <4>2, <5>2
      <4> QED BY <4>1, <4>2
    <3> QED BY <3>3, <3>4
  <2> QED BY <2>1, <2>2
<1>11. Legible(v, s.name)
       BY <1>10 DEF Legible, name
<1>12. \A n \in 1..Len(v) : v[n] # Semicolon /\ v[n] \in Seq(Range(v[n]))
       BY <1>10, SemicolonIs
<1>13. v \in Seq(Range(v))
       BY <1>4 DEF Range
<1> QED BY <1>11, <1>12, <1>13 DEF Unended

LEMMA ProgramWritten ==
    ASSUME NEW program, IsProgram(program)
    PROVE  \E C : WrittenIn(C, program)
<1> DEFINE Text(n) == Wording(program[n])
           C == Symbols \cup {Blank}
                  \cup UNION {UNION {Range(Text(n)[m]) : m \in 1..Len(Text(n))} : n \in DOMAIN program}
<1>1. program \in Seq(Range(program)) /\ DOMAIN program = 1..Len(program)
      /\ \A n \in DOMAIN program : IsStatement(program[n])
      BY DEF IsProgram
<1>2. Blank \in C /\ Symbols \subseteq C
      OBVIOUS
<1>3. Semicolon \in Seq(C)
  <2>1. PICK ch \in Symbols : Semicolon = <<ch>>
        BY SemicolonIs
  <2> HIDE DEF C
  <2> QED BY <1>2, <2>1
<1>4. ASSUME NEW n \in DOMAIN program, NEW v, v = Wording(program[n])
      PROVE  v \in Seq(Seq(C)) /\ Legible(v, program[n].name)
  <2>1. v \in Seq(Range(v)) /\ Legible(v, program[n].name) /\ \A m \in 1..Len(v) : v[m] \in Seq(Range(v[m]))
        BY <1>1, <1>4, WordingLegible
  <2>2. \A m \in 1..Len(v) : Range(v[m]) \subseteq C
        BY <1>4
  <2> HIDE DEF C
  <2>3. \A m \in 1..Len(v) : v[m] \in Seq(C)
    <3>1. \A X, t : X \subseteq C /\ t \in Seq(X) => t \in Seq(C)
          OBVIOUS
    <3> QED BY <2>1, <2>2, <3>1
  <2>4. Len(v) \in Nat /\ v = [m \in 1..Len(v) |-> v[m]]
        BY <2>1
  <2> DEFINE T == Seq(C)
             len == Len(v)
  <2>5. len \in Nat /\ v = [m \in 1..len |-> v[m]] /\ \A m \in 1..len : v[m] \in T
        BY <2>3, <2>4
  <2> HIDE DEF T, len
  <2>6. v \in Seq(T)
        BY <2>5, VectorTyped
  <2> QED BY <2>1, <2>6 DEF T
<1> HIDE DEF C
<1>5. WrittenIn(C, program)
      BY <1>1, <1>2, <1>3, <1>4 DEF WrittenIn
<1> QED BY <1>5

(* The statements of the text of a program are its own. *)
LEMMA ProgramRead ==
    ASSUME NEW program, IsProgram(program), NEW chars, chars = TextOf(program)
    PROVE  SplitStatements(Tokenize(chars)) = [n \in 1..Len(program) |-> Wording(program[n])]
<1> DEFINE k == Len(program)
           lines == [n \in 1..k |-> Line(program[n])]
           words == [n \in 1..k |-> Wording(program[n])]
<1>1. PICK C : WrittenIn(C, program)
      BY ProgramWritten
<1>2. k \in Nat
      BY DEF IsProgram
<1>3. Tokenize(chars) = FlattenSeq(lines)
      BY <1>1, TextTokens
<1> DEFINE T == Seq(C)
<1>4. /\ words \in Seq(Seq(T)) /\ Len(words) = k /\ (\A n \in 1..k : words[n] = Wording(program[n]))
      /\ Semicolon \in T
  <2>1. \A n \in 1..k : Wording(program[n]) \in Seq(T)
        BY <1>1 DEF WrittenIn
  <2> QED BY <1>1, <1>2, <2>1 DEF WrittenIn
<1>5. \A n \in 1..Len(words) : Unended(words[n])
  <2>1. \A n \in 1..k : IsStatement(program[n])
        BY <1>2 DEF IsProgram
  <2>2. \A n \in 1..k : Unended(Wording(program[n]))
        BY <2>1, WordingLegible
  <2> QED BY <1>4, <2>2
<1>6. AreLines(lines, words)
  <2>1. \A n \in 1..k : Line(program[n]) = Append(words[n], Semicolon)
        BY <1>4 DEF Line
  <2> QED BY <1>4, <2>1 DEF AreLines
<1> HIDE DEF T, lines, words
<1>7. SplitStatements(FlattenSeq(lines)) = words
      BY <1>4, <1>5, <1>6, LinesSplit
<1> QED BY <1>3, <1>7 DEF words

LEMMA ReadPlanned ==
    ASSUME Inv, Planned, source # Unknown, ReadFile
    PROVE  Planned'
<1>1. /\ pc = "read" /\ pc' = "statement" /\ Stmts' = SplitStatements(Tokenize(text)) /\ source' = source
      /\ statement' = statement /\ ParsedStmts' = ParsedStmts /\ errors' = errors
      BY DEF ReadFile
<1>2. IsProgram(source) /\ text = TextOf(source)
      BY <1>1 DEF Planned
<1>3. Stmts' = [n \in 1..Len(source) |-> Wording(source[n])]
      BY <1>1, <1>2, ProgramRead
<1>4. Len(source) \in Nat
      BY <1>2 DEF IsProgram
<1>5. Len(Stmts') = Len(source') /\ \A n \in 1..Len(Stmts') : Stmts'[n] = Wording(source'[n])
      BY <1>1, <1>3, <1>4
<1> QED BY <1>1, <1>5 DEF Planned, Aborted, Parsing

-----------------------------------------------------------------------------
LEMMA PlannedInit == Init => Planned
<1> SUFFICES ASSUME Init, source # Unknown
             PROVE  Planned
    BY DEF Planned
<1>1. PICK input \in Inputs : text = input.text /\ source = input.source
      BY DEF Init
<1>2. IsProgram(source) /\ text = TextOf(source)
      BY <1>1, SourcesAssumption DEF IsProgram
<1>3. errors = {} /\ pc = "read" /\ ParsedStmts = << >> /\ statement = 1
      BY DEF Init
<1> QED BY <1>2, <1>3 DEF Planned, Aborted, Parsing

LEMMA PlannedStays ==
    ASSUME Inv, Planned, [Next]_vars
    PROVE  Planned'
<1>1. CASE source = Unknown
  <2>1. source' = source
        BY DEF Next, ReadFile, FailAssertion, ParseEvaluation, ParseAssign, SkipAssign, LacksSign, FinishStatement,
               Finish, ParseNumber, ParseVariable, EnterCall, NextArgument, TakeArgument, FailCall, EatError,
               CloseCall, EndCall, Throw, Abort, Continue, Finished, vars
  <2> QED BY <1>1, <2>1 DEF Planned
<1>2. CASE source # Unknown /\ (Finished \/ UNCHANGED vars)
  <2>1. /\ text' = text /\ source' = source /\ Stmts' = Stmts /\ statement' = statement /\ Position' = Position
        /\ target' = target /\ frames' = frames /\ value' = value /\ ParsedStmts' = ParsedStmts
        /\ errors' = errors /\ pc' = pc
        BY <1>2 DEF Finished, vars
  <2>2. S' = S /\ Goal' = Goal
        BY <2>1 DEF S, Goal
  <2>3. Followed => Followed'
        BY <2>1, <2>2 DEF Followed, Following, Peek
  <2> QED BY <2>1, <2>2, <2>3 DEF Planned, Parsing, Aborted
<1>3. CASE source # Unknown /\ Next
      BY <1>2, <1>3, ReadPlanned, StartPlanned, NothingFails, FinishPlanned, LeafPlanned, EnterPlanned,
         NextArgumentPlanned, TakePlanned, NoCallFails, ClosePlanned DEF Next
<1> QED BY <1>1, <1>2, <1>3

LEMMA PlannedParses ==
    ASSUME Inv, Planned
    PROVE  ParsesGrammar
<1> SUFFICES ASSUME source # Unknown, Parsed
             PROVE  [n \in DOMAIN ParsedStmts |-> [name |-> ParsedStmts[n].name, value |-> ParsedStmts[n].value]] = source
    BY DEF ParsesGrammar, Planned
<1>1. pc # "read" /\ statement > Len(Stmts) /\ statement <= Len(Stmts) + 1
      BY DEF Parsed, Inv, Placed
<1>2. /\ IsProgram(source) /\ Len(ParsedStmts) + 1 = statement /\ Len(Stmts) = Len(source)
      /\ \A n \in 1..Len(ParsedStmts) : ParsedStmts[n].name = source[n].name /\ ParsedStmts[n].value = source[n].value
      BY <1>1 DEF Planned
<1>3. DOMAIN ParsedStmts = 1..Len(ParsedStmts) /\ Len(ParsedStmts) \in Nat /\ Len(source) \in Nat /\ statement \in Nat
      BY <1>2 DEF Inv, Typed, IsProgram
<1>4. Len(ParsedStmts) = Len(source)
      BY <1>1, <1>2, <1>3
<1>5. source = [n \in 1..Len(source) |-> source[n]] /\ DOMAIN source = 1..Len(source)
      BY <1>2 DEF IsProgram
<1>6. \A n \in 1..Len(source) : source[n] = [name |-> source[n].name, value |-> source[n].value]
      BY <1>2, <1>5 DEF IsProgram, IsStatement
<1>7. \A n \in 1..Len(source) : [name |-> ParsedStmts[n].name, value |-> ParsedStmts[n].value] = source[n]
      BY <1>2, <1>4, <1>6
<1> QED BY <1>3, <1>4, <1>5, <1>7

(* A program of the grammar, whatever its statements, names and numbers are *)
(* and however its calls are nested, is parsed into its own trees, without  *)
(* an error.                                                                *)
THEOREM AllProgramsParsed == Spec => []ParsesGrammar
<1>1. Inv /\ Planned /\ [Next]_vars => Planned'
      BY PlannedStays
<1>2. Inv /\ Planned => ParsesGrammar
      BY PlannedParses
<1> QED BY <1>1, <1>2, PlannedInit, InvInit, InvNext, PTL DEF Spec
=============================================================================
