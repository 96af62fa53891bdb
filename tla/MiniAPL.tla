------------------------------ MODULE MiniAPL ------------------------------
(***************************************************************************)
(* The compiler of MiniAPL (compiler.cpp of the first assignment) on one   *)
(* program: main infers the type of every node, then generates code for    *)
(* one statement after the other, and then runs it.                        *)
(*                                                                         *)
(* A node of the syntax tree is known by its path: the statement it is in, *)
(* and the arguments that lead to it.  What an array contains is left      *)
(* symbolic, as the expression that made it.                               *)
(***************************************************************************)
EXTENDS Tensors

CONSTANT Programs        \* each a sequence of [name, rhs], name being "" for an evaluation

VARIABLES
    Stmts,               \* the program
    typed,               \* the number of nodes SetType has visited
    TypeTable,           \* the type of each visited node, and its name if it is a variable
    generated,           \* the number of statements with code
    gen,                 \* code, block (the insertion point of Builder), ValueTable, value, loads
    pc,                  \* <<block, position>> of the running code
    output               \* the arrays that have been printed

vars == <<Stmts, typed, TypeTable, generated, gen, pc, output>>

-----------------------------------------------------------------------------
Variable(x) == [kind |-> "variable", name |-> x]

(* The constants among the arguments of a call are its scalars; those of    *)
(* mkArray are all constants.                                               *)
Call(callee, args, scalars) == [kind |-> "call", callee |-> callee, args |-> args, scalars |-> scalars]

IsAssign(stmt) == stmt.name # ""
Assign(x, e) == [name |-> x, rhs |-> e]
Evaluation(e) == [name |-> "", rhs |-> e]

Null == [kind |-> "null"]

Init ==
    /\ Stmts \in Programs
    /\ typed = 0
    /\ TypeTable = << >>
    /\ generated = 0
    /\ gen = [code |-> <<<< >>>>, block |-> 1, ValueTable |-> << >>, value |-> Null, loads |-> {}]
    /\ pc = <<1, 1>>
    /\ output = << >>

-----------------------------------------------------------------------------
(* The order in which SetType and main reach the nodes of the program: the  *)
(* arguments before the call, the right-hand side before the variable that  *)
(* is assigned.                                                             *)
RECURSIVE PostOrder(_, _)
PostOrder(node, path) ==
    IF node.kind = "variable"
    THEN <<[node |-> node, path |-> path]>>
    ELSE FlattenSeq([n \in DOMAIN node.args |-> PostOrder(node.args[n], Append(path, n))])
         \o <<[node |-> node, path |-> path]>>

Visits ==
    FlattenSeq([s \in DOMAIN Stmts |->
        PostOrder(Stmts[s].rhs, <<s>>)
        \o IF IsAssign(Stmts[s])
           THEN <<[node |-> Variable(Stmts[s].name), path |-> <<s, 0>>]>>
           ELSE << >>])

Visit == Visits[typed + 1]
TypedAs(path, name, type) == TypeTable' = (path :> [name |-> name, type |-> type]) @@ TypeTable

TypeNode ==
    /\ typed < Len(Visits)
    /\ typed' = typed + 1
    /\ UNCHANGED <<Stmts, generated, gen, pc, output>>

(* SetType of a call. *)
TypeCall ==
    /\ TypeNode
    /\ Visit.node.kind = "call"
    /\ LET call == Visit.node
           types == [n \in DOMAIN call.args |-> TypeTable[Append(Visit.path, n)].type]
       IN  TypedAs(Visit.path, "", CallType(call.callee, types, call.scalars))

(* Faulty variant: the type of any variable. *)
TypeVariableAny ==
    /\ TypeNode
    /\ Visit.node.kind = "variable"
    /\ Last(Visit.path) # 0
    /\ \E p \in DOMAIN TypeTable :
          /\ TypeTable[p].name # ""
          /\ TypedAs(Visit.path, Visit.node.name, TypeTable[p].type)

(* SetType of a variable: TypeTable is ordered by the addresses of the      *)
(* nodes, and the last variable of this name in it gives the type.  The     *)
(* addresses are those the allocator happens to return.                     *)
TypeVariable ==
    /\ TypeNode
    /\ Visit.node.kind = "variable"
    /\ Last(Visit.path) # 0
    /\ \E p \in DOMAIN TypeTable :
          /\ TypeTable[p].name = Visit.node.name
          /\ TypedAs(Visit.path, Visit.node.name, TypeTable[p].type)

(* main: TypeTable[Assign->Name.get()] = TypeTable[Assign->RHS.get()]. *)
TypeAssigned ==
    /\ TypeNode
    /\ Last(Visit.path) = 0
    /\ TypedAs(Visit.path, Visit.node.name, TypeTable[Front(Visit.path)].type)

-----------------------------------------------------------------------------
(***************************************************************************)
(* Code generation.  A visit of a node takes the generator's state g to    *)
(* the next, and leaves in g.value the value that codegen returns: a       *)
(* pointer to `cells' cells that hold the array `expr', or null.           *)
(***************************************************************************)
Emit(g, block, instr) == [g EXCEPT !.code[block] = Append(@, instr)]

Printf(dims, expr, block) == [op |-> "print", dims |-> dims, expr |-> expr, from |-> block]
Branch(block) == [op |-> "br", to |-> block]
LoopUntil(block) == [op |-> "condbr", to |-> block]
Return == [op |-> "ret"]

Terminates(instr) == instr.op # "print"

(* Faulty variants: the insertion point stays before the loop, or is moved  *)
(* past the last block.                                                     *)
EmitLoopBehind(g) ==
    LET n == Len(g.code)
    IN  [Emit(g, g.block, Branch(n + 1)) EXCEPT !.code = @ \o <<<<LoopUntil(n + 2)>>, << >>>>]

EmitLoopBeyond(g) ==
    LET n == Len(g.code)
    IN  [Emit(g, g.block, Branch(n + 1)) EXCEPT !.code = @ \o <<<<LoopUntil(n + 2)>>, << >>>>,
                                                !.block = n + 3]

(* The two blocks of "exp" (module Exp has what they do): the insertion     *)
(* point moves to the block after the loop.                                 *)
EmitLoop(g) ==
    LET n == Len(g.code)
    IN  [Emit(g, g.block, Branch(n + 1)) EXCEPT !.code = @ \o <<<<LoopUntil(n + 2)>>, << >>>>,
                                                !.block = n + 2]

(* "exp" generates the code of its array twice, as arg0 and as base. *)
ArgsInOrder(node) == IF node.callee = "exp" THEN node.args \o node.args ELSE node.args

(* CallASTNode::codegen, once the arguments have their code: bb is the      *)
(* insertion point from before the arguments, where the instructions that   *)
(* print the result go; args are the values of the arguments.               *)
EmitCall(node, path, g, bb, args) ==
    LET type == TypeTable[path].type
        loads == {[path |-> path, arg |-> n,
                   loaded |-> LoadedLengths(node.callee, type, Len(node.args))[n],
                   allocated |-> args[n].cells] : n \in DOMAIN node.args}
        expr == [callee |-> node.callee, scalars |-> node.scalars,
                 args |-> [n \in DOMAIN node.args |-> args[n].expr],
                 made |-> IF node.callee = "mkArray" THEN path ELSE << >>]
        result == [kind |-> "array", cells |-> Cells(type.dimensions), expr |-> expr]
        loaded == [g EXCEPT !.loads = @ \cup loads]
        looped == EmitLoop(loaded)
    IN  CASE node.callee = "mkArray" -> [loaded EXCEPT !.value = result]
          [] node.callee = "print"   ->
                [Emit(loaded, bb, Printf(type.dimensions, args[1].expr, g.block)) EXCEPT !.value = Null]
          [] node.callee = "exp"     ->
                [Emit(looped, looped.block, Printf(type.dimensions, expr, looped.block)) EXCEPT !.value = result]
          [] OTHER                   ->
                [Emit(loaded, bb, Printf(type.dimensions, expr, g.block)) EXCEPT !.value = result]

RECURSIVE Codegen(_, _, _)
Codegen(node, path, g) ==
    IF node.kind = "variable"
    THEN [g EXCEPT !.value = g.ValueTable[node.name]]
    ELSE LET args == ArgsInOrder(node)
             Arg(n) == ((n - 1) % Len(node.args)) + 1
             after[n \in 0..Len(args)] ==
                 IF n = 0 THEN g ELSE Codegen(args[n], Append(path, Arg(n)), after[n - 1])
         IN  EmitCall(node, path, after[Len(args)], g.block, [n \in DOMAIN args |-> after[n].value])

(* Faulty variant: ValueTable.insert keeps the value a variable has.        *)
AssignOnce(name, g) ==
    IF g.value = Null THEN g ELSE [g EXCEPT !.ValueTable = @ @@ (name :> g.value)]

(* AssignStmtAST::codegen: without a value there is no assignment. *)
AssignValue(name, g) ==
    IF g.value = Null THEN g ELSE [g EXCEPT !.ValueTable = (name :> g.value) @@ @]

(* ProgramAST::codegen, one statement. *)
GenerateStatement ==
    /\ typed = Len(Visits)
    /\ generated < Len(Stmts)
    /\ LET stmt == Stmts[generated + 1]
           g == Codegen(stmt.rhs, <<generated + 1>>, gen)
       IN  gen' = IF IsAssign(stmt) THEN AssignValue(stmt.name, g) ELSE g
    /\ generated' = generated + 1
    /\ UNCHANGED <<Stmts, typed, TypeTable, pc, output>>

(* main: CreateRet. *)
Finish ==
    /\ typed = Len(Visits)
    /\ generated = Len(Stmts)
    /\ gen' = Emit(gen, gen.block, Return)
    /\ generated' = generated + 1
    /\ UNCHANGED <<Stmts, typed, TypeTable, pc, output>>

-----------------------------------------------------------------------------
(* FP(): the code runs. *)
Compiled == typed = Len(Visits) /\ generated = Len(Stmts) + 1
Instr == gen.code[pc[1]][pc[2]]

RunPrint ==
    /\ Compiled
    /\ Instr.op = "print"
    /\ output' = Append(output, [dims |-> Instr.dims, expr |-> Instr.expr])
    /\ pc' = [pc EXCEPT ![2] = @ + 1]
    /\ UNCHANGED <<Stmts, typed, TypeTable, generated, gen>>

(* The loop of "exp" ends (property Ends of module Exp). *)
RunBranch ==
    /\ Compiled
    /\ Instr.op \in {"br", "condbr"}
    /\ pc' = <<Instr.to, 1>>
    /\ UNCHANGED <<Stmts, typed, TypeTable, generated, gen, output>>

Returned == Compiled /\ Instr.op = "ret"

Exit == Returned /\ UNCHANGED vars

Next ==
    \/ TypeCall \/ TypeVariable \/ TypeAssigned
    \/ GenerateStatement \/ Finish
    \/ RunPrint \/ RunBranch \/ Exit

Spec == Init /\ [][Next]_vars

-----------------------------------------------------------------------------
(* The meaning of a program: an array is the expression that made it and    *)
(* its dimensions; env has the array of each variable.                      *)
RECURSIVE Meaning(_, _, _)
Meaning(node, path, env) ==
    IF node.kind = "variable"
    THEN env[node.name]
    ELSE LET args == [n \in DOMAIN node.args |-> Meaning(node.args[n], Append(path, n), env)]
             types == [n \in DOMAIN args |-> OfDimensions(args[n].dims)]
         IN  [dims |-> CallType(node.callee, types, node.scalars).dimensions,
              expr |-> [callee |-> node.callee, scalars |-> node.scalars,
                        args |-> [n \in DOMAIN args |-> args[n].expr],
                        made |-> IF node.callee = "mkArray" THEN path ELSE << >>]]

(* The variables after s statements.                                        *)
Environment(s) ==
    LET env[n \in 0..Len(Stmts)] ==
            IF n = 0 THEN << >>
            ELSE IF IsAssign(Stmts[n])
                 THEN (Stmts[n].name :> Meaning(Stmts[n].rhs, <<n>>, env[n - 1])) @@ env[n - 1]
                 ELSE env[n - 1]
    IN  env[s]

MeaningAt(node, path) == Meaning(node, path, Environment(path[1] - 1))

(* The variables in an expression, and in the program.                      *)
NamesIn(node) ==
    LET visits == PostOrder(node, << >>)
    IN  {visits[n].node.name : n \in {m \in DOMAIN visits : visits[m].node.kind = "variable"}}

Assignments(x) == {s \in DOMAIN Stmts : Stmts[s].name = x}
Names == {Stmts[s].name : s \in {t \in DOMAIN Stmts : IsAssign(Stmts[t])}}

(* A variable keeps its shape when all that is assigned to it has the same  *)
(* dimensions, and is made of variables that keep theirs.                   *)
KeepShape(xs) ==
    \A x \in xs : \A s, t \in Assignments(x) :
        /\ MeaningAt(Stmts[s].rhs, <<s>>).dims = MeaningAt(Stmts[t].rhs, <<t>>).dims
        /\ NamesIn(Stmts[s].rhs) \subseteq xs

KeepingShape == UNION {xs \in SUBSET Names : KeepShape(xs)}

(* The evaluations, and those of them that are calls (of mkArray excepted); *)
(* the result of print is its argument.                                     *)
Evaluations == {s \in DOMAIN Stmts : ~IsAssign(Stmts[s])}

EvaluatedCalls ==
    {s \in Evaluations : Stmts[s].rhs.kind = "call" /\ Stmts[s].rhs.callee # "mkArray"}

ResultOf(s) ==
    LET e == Stmts[s].rhs
    IN  IF e.kind = "call" /\ e.callee = "print"
        THEN MeaningAt(e.args[1], <<s, 1>>)
        ELSE MeaningAt(e, <<s>>)

(* The results of these statements are in the output, in their order.       *)
PrintedInOrder(statements) ==
    \E at \in [statements -> DOMAIN output] :
        /\ \A s \in statements : output[at[s]] = ResultOf(s)
        /\ \A s, t \in statements : s < t => at[s] < at[t]

-----------------------------------------------------------------------------
(* The shape of the state.                                                  *)
TypeOK ==
    /\ typed \in 0..Len(Visits)
    /\ generated \in 0..(Len(Stmts) + 1)
    /\ DOMAIN TypeTable = {Visits[n].path : n \in 1..typed}
    /\ gen.block \in DOMAIN gen.code
    /\ pc[1] \in DOMAIN gen.code
    /\ pc[2] \in 1..(Len(gen.code[pc[1]]) + 1)

(* The dimensions SetType gives to a node are those of the array the node   *)
(* will have when the program runs ("Each array has a fixed number of       *)
(* dimensions, and each dimension is of fixed length.", README.md).         *)
RightShape(v) == TypeTable[v.path].type.dimensions = MeaningAt(v.node, v.path).dims

InferredShapes == \A n \in 1..typed : Last(Visits[n].path) # 0 => RightShape(Visits[n])

(* A variable's type is looked up by its name among all the nodes that have *)
(* been visited, in no order of the program.  The expressions whose         *)
(* variables keep their shape have the right dimensions all the same,       *)
(* whatever happens to the others.                                          *)
KeptShapesInferred ==
    \A n \in 1..typed :
        Last(Visits[n].path) # 0 /\ NamesIn(Visits[n].node) \subseteq KeepingShape => RightShape(Visits[n])

(* Generated code loads an argument as a vector of the length the argument  *)
(* was allocated with, in all calls on variables that keep their shape.     *)
LoadsFit ==
    \A l \in gen.loads : \A n \in DOMAIN Visits :
        Visits[n].path = l.path /\ NamesIn(Visits[n].node) \subseteq KeepingShape => l.loaded = l.allocated

(* A block ends with its only terminator: nothing is inserted into a block  *)
(* that Builder has left, and a print uses an array of its own block.       *)
BlocksWellFormed ==
    \A b \in DOMAIN gen.code :
        LET instrs == gen.code[b]
        IN  /\ \A n \in DOMAIN instrs :
                  /\ Terminates(instrs[n]) => n = Len(instrs)
                  /\ instrs[n].op = "print" => instrs[n].from = b
            /\ b # gen.block \/ Compiled => instrs # << >> /\ Terminates(Last(instrs))

(* The results of the evaluated calls are printed, in the order of the      *)
(* statements, each with the arrays its arguments have then, if all         *)
(* variables keep their shape.  What else is printed is not said: the       *)
(* results of the other calls are, too.                                     *)
EvaluatedCallsPrint ==
    Returned /\ Names \subseteq KeepingShape => PrintedInOrder(EvaluatedCalls)

(* "Evaluations print out their result to the terminal." (README.md)        *)
EvaluationsPrint == Returned => PrintedInOrder(Evaluations)
=============================================================================
