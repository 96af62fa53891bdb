------------------------------- MODULE Parser -------------------------------
(***************************************************************************)
(* The tokenizer and the parser of MiniAPL (main and ParseExpr of          *)
(* compiler.cpp).  The recursion of ParseExpr is a stack of the calls that *)
(* are being parsed; the tokens may be anything, grammatical or not.       *)
(*                                                                         *)
(* A text is a sequence of characters, where "assign" stands for the       *)
(* letters of that word; a token is a sequence of characters.  A tree is   *)
(* the sequence of its nodes in postfix order, a call with the number of   *)
(* its arguments.                                                          *)
(***************************************************************************)
EXTENDS Naturals, Sequences, FiniteSets, SequencesExt, Ascending

CONSTANT Inputs      \* [text, source]: source is the program the text is of, or Unknown

ASSUME InputsAssumption == \A input \in Inputs : input.text \in Seq(Range(input.text))

VARIABLES
    text,            \* the file
    source,          \* not in the code: the statements it was made from, or Unknown
    Tokens,
    Stmts,           \* the tokens of each statement
    statement,       \* the statement that is parsed
    Position,        \* the number of its tokens that are behind
    target,          \* the variable it assigns, or NoName
    frames,          \* [callee, tree, args]: the calls being parsed, with their arguments so far
    value,           \* what ParseExpr returns
    ParsedStmts,     \* [name, value, from, to]
    errors,          \* the statements in which "EAT ERROR" has been logged
    pc

vars == <<text, source, Tokens, Stmts, statement, Position, target, frames, value,
          ParsedStmts, errors, pc>>

-----------------------------------------------------------------------------
Blank   == " "
Symbols == {",", "(", ")", ";", "="}

Comma     == <<",">>
Open      == <<"(">>
Close     == <<")">>
Semicolon == <<";">>
Equals    == <<"=">>
AssignWord == <<"assign">>

(* peek at the end gives the empty string. *)
NoToken == << >>
NoName  == << >>

(* is_int: digits are 0 and 1, a word that is longer is none, and no sign   *)
(* is written here.                                                         *)
MaxDigits == 9

IsInt(t) ==
    \/ t = <<"0">>
    \/ t # NoToken /\ t[1] = "1" /\ Range(t) \subseteq {"0", "1"} /\ Len(t) <= MaxDigits

Number(t)      == [node |-> "number", token |-> t]
Variable(t)    == [node |-> "variable", token |-> t]
Call(callee, n) == [node |-> "call", token |-> callee, args |-> n]
Null           == [node |-> "null"]

HasNull(tree) == Null \in Range(tree)

Unknown == << >>

-----------------------------------------------------------------------------
(* A loop over a sequence.  (FoldLeft, in time that is linear.) *)
LeftToRight(Step(_, _), start, s) ==
    LET after[n \in 0..Len(s)] == IF n = 0 THEN start ELSE Step(after[n - 1], s[n])
    IN  after[Len(s)]

(* The loop over the characters, [tokens, NextToken]. *)
Flush(s) == IF s.NextToken = << >> THEN s.tokens ELSE Append(s.tokens, s.NextToken)

ReadCharacter(s, ch) ==
    CASE ch \in Symbols -> [tokens |-> Append(Flush(s), <<ch>>), NextToken |-> << >>]
      [] ch = Blank     -> [tokens |-> Flush(s), NextToken |-> << >>]
      [] OTHER          -> [s EXCEPT !.NextToken = Append(@, ch)]

ReadAll(chars) == LeftToRight(ReadCharacter, [tokens |-> << >>, NextToken |-> << >>], chars)

(* Faulty variant: the token the file ends with is forgotten. *)
TokenizeUnflushed(chars) == ReadAll(chars).tokens

Tokenize(chars) == Flush(ReadAll(chars))

(* The loop over the tokens, [stmts, Toks]: a statement ends with a         *)
(* semicolon, the last one may do without.                                  *)
TakeToken(s, t) ==
    IF t = Semicolon
    THEN [stmts |-> Append(s.stmts, s.Toks), Toks |-> << >>]
    ELSE [s EXCEPT !.Toks = Append(@, t)]

SplitStatements(tokens) ==
    LET s == LeftToRight(TakeToken, [stmts |-> << >>, Toks |-> << >>], tokens)
    IN  IF s.Toks = << >> THEN s.stmts ELSE Append(s.stmts, s.Toks)

-----------------------------------------------------------------------------
Init ==
    /\ \E input \in Inputs : text = input.text /\ source = input.source
    /\ Tokens = << >>
    /\ Stmts = << >>
    /\ statement = 1
    /\ Position = 0
    /\ target = NoName
    /\ frames = << >>
    /\ value = << >>
    /\ ParsedStmts = << >>
    /\ errors = {}
    /\ pc = "read"

ReadFile ==
    /\ pc = "read"
    /\ Tokens' = Tokenize(text)
    /\ Stmts' = SplitStatements(Tokens')
    /\ pc' = "statement"
    /\ UNCHANGED <<text, source, statement, Position, target, frames, value, ParsedStmts, errors>>

-----------------------------------------------------------------------------
(* ParseState. *)
S == Stmts[statement]

(* Faulty variant: peek without the test of AtEnd. *)
ThrowsUnguarded(position) == position >= Len(S)

(* Tokens.at throws out_of_range: AtEnd is only true at the very end.       *)
Throws(position) == position > Len(S)

Peek(position) == IF position >= Len(S) THEN NoToken ELSE S[position + 1]

Assigns == pc = "statement" /\ S # << >> /\ S[1] = AssignWord

(* The last position that is peeked at, or eaten, in the next step. *)
LastPeek ==
    IF Assigns THEN 2
    ELSE IF pc = "expression" /\ ~Throws(Position) /\ ~IsInt(Peek(Position)) THEN Position + 1
    ELSE IF pc \in {"expression", "arguments"} \/ (pc = "returned" /\ frames # << >>) THEN Position
    ELSE 0

InStatement(label) == pc = label /\ statement <= Len(Stmts)

(* The parser goes on in its statement, at a position. *)
Continue(position, next) ==
    /\ ~Throws(LastPeek)
    /\ Position' = position
    /\ pc' = next
    /\ UNCHANGED <<text, source, Tokens, Stmts, statement, ParsedStmts>>

(* The parser ends, the program does not exist. *)
Abort(how) ==
    /\ pc' = how
    /\ UNCHANGED <<text, source, Tokens, Stmts, statement, Position, target, frames, value, ParsedStmts, errors>>

Throw ==
    /\ \E label \in {"statement", "expression", "arguments", "returned"} : InStatement(label)
    /\ Throws(LastPeek)
    /\ Abort("out_of_range")

-----------------------------------------------------------------------------
(* The statement loop of main. *)

(* assert(S.size() > 0). *)
FailAssertion ==
    /\ InStatement("statement")
    /\ S = << >>
    /\ Abort("assert")

ParseEvaluation ==
    /\ InStatement("statement")
    /\ S # << >> /\ ~Assigns
    /\ Continue(0, "expression")
    /\ target' = NoName
    /\ UNCHANGED <<frames, value, errors>>

(* The second token is the name, the third has to be the equals sign. *)
ParseAssign ==
    /\ InStatement("statement") /\ Assigns
    /\ Peek(2) = Equals
    /\ Continue(3, "expression")
    /\ target' = Peek(1)
    /\ UNCHANGED <<frames, value, errors>>

LacksSign == InStatement("statement") /\ Assigns /\ ~Throws(LastPeek) /\ Peek(2) # Equals

(* Faulty variant: the next statement is not taken. *)
SkipAssignForever == LacksSign /\ UNCHANGED vars

(* Without an equals sign the statement is left out, without a message. *)
SkipAssign ==
    /\ LacksSign
    /\ statement' = statement + 1
    /\ UNCHANGED <<text, source, Tokens, Stmts, Position, target, frames, value, ParsedStmts, errors, pc>>

Statement == [name |-> target, value |-> value, from |-> statement, to |-> Position]

Finish(stmts) ==
    /\ pc = "returned"
    /\ frames = << >>
    /\ ParsedStmts' = stmts
    /\ statement' = statement + 1
    /\ pc' = "statement"
    /\ UNCHANGED <<text, source, Tokens, Stmts, Position, target, frames, value, errors>>

(* Faulty variant: a statement with an error is left out. *)
FinishIfCorrect == Finish(IF HasNull(value) THEN ParsedStmts ELSE Append(ParsedStmts, Statement))

(* What follows the expression in the statement is ignored. *)
FinishStatement == Finish(Append(ParsedStmts, Statement))

-----------------------------------------------------------------------------
(* ParseExpr.  Its first token is the name, whatever it is. *)
ParseNumber ==
    /\ pc = "expression"
    /\ IsInt(Peek(Position))
    /\ Continue(Position + 1, "returned")
    /\ value' = <<Number(Peek(Position))>>
    /\ UNCHANGED <<target, frames, errors>>

ParseVariable ==
    /\ pc = "expression"
    /\ ~IsInt(Peek(Position)) /\ Peek(Position + 1) # Open
    /\ Continue(Position + 1, "returned")
    /\ value' = <<Variable(Peek(Position))>>
    /\ UNCHANGED <<target, frames, errors>>

EnterCall ==
    /\ pc = "expression"
    /\ ~IsInt(Peek(Position)) /\ Peek(Position + 1) = Open
    /\ Continue(Position + 2, "arguments")
    /\ frames' = Append(frames, [callee |-> Peek(Position), tree |-> << >>, args |-> 0])
    /\ UNCHANGED <<target, value, errors>>

(* while (PS.peek() != ")"). *)
NextArgument ==
    /\ pc = "arguments"
    /\ Peek(Position) # Close
    /\ Continue(Position, "expression")
    /\ UNCHANGED <<target, frames, value, errors>>

(* The list of arguments ends. *)
EndCall(position) ==
    /\ pc = "arguments"
    /\ Peek(Position) = Close
    /\ Continue(position, "returned")
    /\ LET call == Last(frames)
       IN  value' = call.tree \o <<Call(call.callee, call.args)>>
    /\ frames' = Front(frames)
    /\ UNCHANGED <<target, errors>>

(* Faulty variant: the parenthesis is left for the caller. *)
CloseCallUneaten == EndCall(Position)

CloseCall == EndCall(Position + 1)

(* Faulty variant: the arguments are collected in reverse. *)
PushArgFirst ==
    [frames EXCEPT ![Len(frames)] = [callee |-> @.callee, tree |-> value \o @.tree, args |-> @.args + 1]]

(* Args.push_back(ParseExpr(PS)), a null pointer included. *)
PushArg ==
    [frames EXCEPT ![Len(frames)] = [callee |-> @.callee, tree |-> @.tree \o value, args |-> @.args + 1]]

(* An argument is followed by a parenthesis, which is left for the while,   *)
(* or by a comma, which is eaten; so a comma may follow the last one.       *)
TakeArgument ==
    /\ pc = "returned" /\ frames # << >>
    /\ Peek(Position) \in {Close, Comma}
    /\ Continue(Position + (IF Peek(Position) = Comma THEN 1 ELSE 0), "arguments")
    /\ frames' = PushArg
    /\ UNCHANGED <<target, value, errors>>

(* EAT ERROR, and what becomes of the calls. *)
EatError(position, next, calls, tree) ==
    /\ pc = "returned" /\ frames # << >>
    /\ Peek(Position) \notin {Close, Comma}
    /\ Continue(position, next)
    /\ frames' = calls
    /\ value' = tree
    /\ errors' = errors \cup {statement}
    /\ UNCHANGED target

(* Faulty variants: the next token is dropped as well; the call goes on.    *)
FailCallFurther == EatError(Position + 2, "returned", Front(frames), <<Null>>)
FailCallGoesOn == EatError(Position + 1, "arguments", PushArg, value)

(* EAT(PS, ","): the token is eaten, the call is given up and null is       *)
(* returned, the argument of the call around it.                            *)
FailCall == EatError(Position + 1, "returned", Front(frames), <<Null>>)

Parsed == pc = "statement" /\ statement > Len(Stmts)
Aborted == pc \in {"assert", "out_of_range"}

Finished == (Parsed \/ Aborted) /\ UNCHANGED vars

Next ==
    \/ ReadFile
    \/ FailAssertion \/ ParseEvaluation \/ ParseAssign \/ SkipAssign \/ FinishStatement
    \/ ParseNumber \/ ParseVariable
    \/ EnterCall \/ NextArgument \/ TakeArgument \/ FailCall \/ CloseCall
    \/ Throw
    \/ Finished

Spec == Init /\ [][Next]_vars /\ WF_vars(Next)

-----------------------------------------------------------------------------
(* The grammar of README.md, from trees to tokens; `assign' stands before   *)
(* an assignment, as in all the programs of the repository, and commas      *)
(* between arguments.                                                       *)
Separated(seqs) ==
    FlattenSeq([n \in DOMAIN seqs |-> IF n = 1 THEN seqs[n] ELSE <<Comma>> \o seqs[n]])

UnparseNode(stack, node) ==
    IF node.node # "call"
    THEN Append(stack, IF node = Null THEN << >> ELSE <<node.token>>)
    ELSE LET below == Len(stack) - node.args
         IN  Append(SubSeq(stack, 1, below),
                    <<node.token, Open>> \o Separated(SubSeq(stack, below + 1, Len(stack))) \o <<Close>>)

Unparse(tree) == LeftToRight(UnparseNode, << >>, tree)[1]

Header(name) == IF name = NoName THEN << >> ELSE <<AssignWord, name, Equals>>

(* A name is a word that is neither the keyword nor a number.               *)
IsWord(t) == t \in Seq(Range(t)) /\ t # NoToken /\ Range(t) \cap (Symbols \cup {Blank}) = {}
IsName(t) == IsWord(t) /\ t # AssignWord /\ ~IsInt(t)

Arity(node) == IF node.node = "call" THEN node.args ELSE 0

IsNode(node) ==
    \/ node.node = "number" /\ node = Number(node.token) /\ IsWord(node.token) /\ IsInt(node.token)
    \/ node.node = "variable" /\ node = Variable(node.token) /\ IsName(node.token)
    \/ node.node = "call" /\ node = Call(node.token, node.args) /\ IsName(node.token) /\ node.args \in Nat

(* Each call has its arguments before it, and one expression is left. *)
IsExpression(tree) ==
    LET left[n \in 0..Len(tree)] == IF n = 0 THEN 0 ELSE (left[n - 1] + 1) - Arity(tree[n])
    IN  /\ \A n \in DOMAIN tree : IsNode(tree[n]) /\ Arity(tree[n]) <= left[n - 1]
        /\ left[Len(tree)] = 1

IsStatement(s) ==
    /\ s = [name |-> s.name, value |-> s.value]
    /\ s.name = NoName \/ IsName(s.name)
    /\ s.value \in Seq(Range(s.value)) /\ IsExpression(s.value)

(* The text of a program, with a blank where two words meet. *)
StatementText(s) ==
    LET tokens == Header(s.name) \o Unparse(s.value)
    IN  FlattenSeq([n \in DOMAIN tokens |-> IF n = 2 /\ s.name # NoName THEN <<Blank>> \o tokens[n] ELSE tokens[n]])
            \o Semicolon

TextOf(program) == FlattenSeq([n \in DOMAIN program |-> StatementText(program[n])])

(* A source is a program of the grammar, and the text is written from it.   *)
ASSUME SourcesAssumption ==
    \A input \in Inputs :
        input.source # Unknown =>
            /\ input.source \in Seq(Range(input.source))
            /\ \A n \in DOMAIN input.source : IsStatement(input.source[n])
            /\ input.text = TextOf(input.source)

(* The elements that are not at the positions dropped. *)
Without(dropped, s) ==
    LET kept[n \in 0..Len(s)] ==
            IF n = 0 THEN << >> ELSE IF n \in dropped THEN kept[n - 1] ELSE Append(kept[n - 1], s[n])
    IN  kept[Len(s)]

Positions(e, s) == {n \in DOMAIN s : s[n] = e}

(* The commas that stand before a parenthesis. *)
Trailing(tokens) == {n \in 1..(Len(tokens) - 1) : tokens[n] = Comma /\ tokens[n + 1] = Close}

(* How often a token occurs between two positions. *)
Count(t, tokens, from, to) == Cardinality({n \in from..to : n \in DOMAIN tokens /\ tokens[n] = t})

(* From some token on there are more lists opened than closed. *)
Unclosed(tokens) ==
    \E n \in DOMAIN tokens :
        Count(Open, tokens, n, Len(tokens)) > Count(Close, tokens, n, Len(tokens))

(* An assignment that ends before its expression. *)
WithoutExpression(tokens) == Len(tokens) \in {1, 3} /\ tokens[1] = AssignWord

LacksEquals(tokens) == Len(tokens) >= 2 /\ tokens[1] = AssignWord /\ (Len(tokens) = 2 \/ tokens[3] # Equals)

-----------------------------------------------------------------------------
(* The shape of the state; the position is never more than one past the     *)
(* end of the tokens.                                                       *)
TypeOK ==
    /\ statement \in 1..(Len(Stmts) + 1)
    /\ pc \in {"expression", "arguments", "returned"} => Position \in 0..(Len(S) + 1)
    /\ pc \in {"statement"} => frames = << >>
    /\ \A n \in DOMAIN ParsedStmts : ParsedStmts[n].value # << >>
    /\ errors \subseteq DOMAIN Stmts

(* Of the text only blanks and semicolons are lost: the tokens are the      *)
(* characters that are not blank, and the statements have all of them.      *)
TextKept ==
    pc # "read" =>
        /\ FlattenSeq(Tokens) = Without(Positions(Blank, text), text)
        /\ FlattenSeq(Stmts) = Without(Positions(Semicolon, Tokens), Tokens)

(* A program of the grammar (README.md) is parsed into its own tree,        *)
(* without an error, however its calls are nested.                          *)
ParsesGrammar ==
    source # Unknown =>
        /\ errors = {} /\ ~Aborted
        /\ Parsed => [n \in DOMAIN ParsedStmts |-> [name |-> ParsedStmts[n].name, value |-> ParsedStmts[n].value]]
                        = source

(* Whatever the text, a tree without null pointers says what the tokens     *)
(* that were eaten for it say, and these are a prefix of the statement:     *)
(* apart from commas before a parenthesis, nothing is left out, or read     *)
(* twice, on the way in and out of nested calls.                            *)
ParsedIsText ==
    \A n \in DOMAIN ParsedStmts :
        LET p == ParsedStmts[n]
            eaten == SubSeq(Stmts[p.from], 1, p.to)
        IN  ~HasNull(p.value) =>
                /\ p.to <= Len(Stmts[p.from])
                /\ \E dropped \in SUBSET Trailing(eaten) :
                      Without(dropped, eaten) = Header(p.name) \o Unparse(p.value)

(* The parser goes on after an error, in the calls around and in the next   *)
(* statements; the error remains in the tree of its statement, as a null    *)
(* pointer, and only there.                                                 *)
ErrorsMarked ==
    \A n \in DOMAIN ParsedStmts : HasNull(ParsedStmts[n].value) <=> ParsedStmts[n].from \in errors

(* The statements behind are in the program in their order, all but the     *)
(* assignments without an equals sign, of which there is no trace.          *)
OnlyAssignmentsLost ==
    pc # "read" =>
        [n \in DOMAIN ParsedStmts |-> ParsedStmts[n].from]
            = InOrder({k \in DOMAIN Stmts : ~LacksEquals(Stmts[k])}, statement - 1)

(* The parser aborts only on a statement without tokens, on a list of       *)
(* arguments that is not closed, or on an assignment without an expression. *)
AbortsOnlyUnfinished ==
    /\ pc = "assert" => S = << >>
    /\ pc = "out_of_range" => Unclosed(S) \/ WithoutExpression(S)

(* Parsing ends, on all texts. *)
Terminates == <>(Parsed \/ Aborted)
=============================================================================
