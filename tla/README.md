# TLA+ models of cs343d-DSL

The repository holds two compilers for array languages:

* **the vector compiler** (`assignment2-vector-taco-release`), a small TACO: it compiles an
  assignment such as `A(i) = (B(i) + C(i)) * D(i)` over one-dimensional dense or compressed arrays
  to a C++ kernel made of merging loops, and a script compiles and runs the kernel with a test;
* **MiniAPL** (`assignment1-MiniAPL-release`), which parses programs over multidimensional integer
  arrays, infers the array types, generates LLVM IR and runs it in a JIT.

This directory contains TLA+ specifications of both, TLC runs on small instances, and proofs
checked by TLAPS: the vector compiler from the merge lattice to the C statements that run, the test
runner, and the parser, the calls and the loop of `exp` of MiniAPL. Each part has a module of its own; the
chain from an assignment to the statements that run is linked by two refinements, `KernelC` of
`Kernel` and `Kernel` of `VectorAssign`, and proved from end to end (`CodeCorrect`). Two modules
compose: `VectorCompiler` builds the lattice and runs the kernel made of it, `CallExecution` compiles
a MiniAPL call and runs the loop of `exp`.
`tlc -config MCVectorCompiler.cfg MCVectorCompiler.tla` runs a check, `tlapm KernelProofs.tla` the proofs.

## 1. Inventory

### Vector compiler

| part | code | state | operations | what makes it correct |
|---|---|---|---|---|
| front end | `include/Expr.h`, `SetExpr.h`, `Lower.cpp: convert` | expression trees | build, `convert` to set expressions | addition becomes union, multiplication intersection, operand order kept |
| merge lattice | `src/Lattice.cpp` | the field `lattice` of the visitor, the copies its pending visits hold | `visit(ArrayDim / Union / Intersection)`, `merge`, `dominates`, `get_sub_points` | points in an order in which loops and branches are right; every coordinate pattern has a point with the right expression; no iterator twice |
| lowering | `Lower.cpp: lower`, `LIR.h` | the statements emitted | one while loop per point, one branch per sub-point with a compressed iterator, increments | see the kernel |
| printed C, the kernel | `IRPrinter.cpp`, `LIR.h`, `runtime/array.h` | the iterators, the logical index, the result's values | one C statement | the LIR means what lowering relies on; element-wise result, one ascending pass, no access out of bounds, termination |
| iterator set | `GatherIteratorSet.cpp` | names seen | written array first, each operand once | the kernel's parameters and iterators |
| JIT, test runner | `JIT.cpp`, `run_test.sh` | a temporary file, `test.cpp`, `test.out` | write, append, remove, compile, run | what runs is this kernel with this test |

The parts are called one after the other: the front end hands an `Assignment` to `lower`, which
makes a `ForAll` of its set expression and body; the second `lower` builds the lattice from the
set expression and emits LIR for its points; `compile_to_file` prints the LIR as C++; and
`run_test.sh` concatenates the file with a test and runs the compiler. The only state shared
between processes is the pair of files `test.cpp` and `test.out`. The interfaces rest on
conventions nobody checks: the loops rely on the order of the lattice's points, the branches on
being tried in that order, the increments on iterators that are unique, the stores to a compressed
result on its `crd` being there already.

### MiniAPL (`compiler.cpp`)

| part | lines | state | operations | what makes it correct |
|---|---|---|---|---|
| tokenizer, parser | 1014-1083, 1160-1230 | position in the tokens | `ParseExpr`, statements | the tree, or an error, for every input |
| type inference | 1088-1158, 1236-1247 | `TypeTable`, a map ordered by node *addresses* | `SetType` per node, the type of assigned variables | the inferred shape of a node is that of its value (it is where variables keep their shapes; not always else) |
| code generation | 338-1009 | `Builder`'s insertion block, `ValueTable`, the blocks | `codegen` per node | well-formed blocks, arguments loaded as long as they are, each result cell stored with the right thing, the results printed in order |
| the loop of `exp` | 566-763 | phi nodes, product | one iteration | the power, and an end |
| execution | 1266-1281, `MiniAPLJIT.h` | program counter, output | run | the documented output |

### What is hard

There is no concurrency inside the compilers. The difficulty lies in long loops over combinations
of inputs (arrays that end at different coordinates), in orders that are relied upon but never
stated, in state that is read before a nested visit and used after it (the saved lattice, the
insertion block `bb`), in a table looked up in address order, in index arithmetic on flattened
arrays and in a loop that tests at its end with wrap-around. The test runner adds failing
compilations, interrupted rounds, stale files under version control, and tests run in parallel by
`make -j`. `PROJECT.json` lists each hazard with its line and the properties that watch it.

## 2. Modules

| module | models |
|---|---|
| `Expressions` | expressions and set expressions in postfix order; `Convert`; the reference `Simplify` |
| `Lattice` | merge points, `Merge`, `MergeUnion`, `MergeIntersection`, `SubPoints`; what a well-formed lattice is |
| `MergeLattice` | the `BuildMergeLattice` visitor, one action per visited node |
| `VectorCompiler` | `MergeLattice` and `Kernel`: the kernel of the lattice that has been built |
| `VectorAssign` | abstract: the coordinates of an assignment are settled in ascending order, each with its value |
| `Kernel` | the generated loops when they run, one iteration a step; a refinement of `VectorAssign` |
| `LIR` | the statements of `LIR.h`, and `lower`, which makes them of an assignment and its lattice |
| `KernelC` | the LIR when it runs, one printed C statement a step; a refinement of `Kernel` |
| `TestRunner` | `compile_and_test` with `run_test.sh` |
| `Parser` | the tokenizer and the parser of MiniAPL, on any text |
| `Tensors` | the types of MiniAPL calls, the cells each call stores and loads, the printing |
| `TensorCalls` | one call through `SetType`, `codegen`, `codegen_print_array` |
| `Exp` | the generated loop of `exp` |
| `CallExecution` | `TensorCalls` and `Exp`: a call is compiled, and the loop of `exp` runs |
| `MiniAPL` | a whole program: type inference, code generation, execution |
| `Ascending` | the loops that keep some elements of a vector, in their order |

| module | proves about |
|---|---|
| `Induction` | induction on numbers, the runs of loops, rows and places in them, what `Ascending` keeps, `FlattenSeq` |
| `LatticeProofs` | `Make` on any right-hand side; used by the next three |
| `MergeLatticeProofs` | `MergeLattice`; that `VectorCompiler` runs it, and `Kernel` |
| `KernelProofs` | `Kernel` |
| `KernelCProofs` | `KernelC` |
| `TestRunnerProofs` | `TestRunner` |
| `CallProofs` | `TensorCalls`, `Exp`; that `CallExecution` runs both |
| `ParserProofs` | `Parser` |

`MC*` modules bind the constants for TLC. Definitions described as a *faulty variant* stand before
the definition they vary: each is a plausible bug, and the property it breaks is listed under
`mutants` in `PROJECT.json`. They take no part in the specifications.

### How the models correspond to the code

*Expressions.* All the visitors of the compiler treat operand `a`, operand `b`, then the node. A
tree is therefore written as the postfix sequence of its nodes, and a recursive visitor is a walk
along the sequence with a stack. This keeps recursive operators out of the modules under proof.

*MergeLattice.* `stack` holds the values of the field `lattice` that pending visits have saved in
`a_lattice` and `b_lattice`. An action is one `visit`.

*VectorCompiler.* `BuildLattice` is a step of the visitor, `RunKernel` one of the kernel, which exists
when the visitor has returned and has the points the visitor has put together, not those of the
operator `Make` that the programs of `Kernel` are given with. Lowering and `clang++` are no step of
their own: `KernelC` has the statements.

*Kernel.* A step is one iteration of one `while`, or its exit. `loop` is the loop that runs,
`iter[x]` the C variable `x_i` (dense) or `x_i_iter` (compressed), `i` the logical index of the
last iteration. `TakeBranch`, `SkipCoordinate` and `StoreWhole` are the three shapes the body has:
a branch of the `if` matches, none matches, there is no `if`. Each includes the definition of the
indices, the store, the increment of a compressed result and all the increments of the operands.
Values are symbolic: a cell holds the expression stored and the position each operand was read at,
so a value read from a wrong cell is told apart from the right one. `crd` may be any sorted arrays
of coordinates. A compressed result comes with the coordinates of the result: the kernel
writes values only (`IRPrinter.cpp:385`). No test of the repository has such a result.

The written array may be among the operands: it has one iterator then. `wanted` is the right value
from what the caller passed, and a read of a cell that has been stored to gives `Overwritten`,
which is right nowhere. With all arrays dense each cell is read before it is stored to, and never
after; compressed arrays in place are excluded (section 3).

*LIR / KernelC.* A statement of `LIR.h` is a record, `Lower` is the second `lower` with
`gather_iterator_set`, on the points that `Make` (module `Lattice`) gives. `KernelC` runs the
statements with the meaning `IRPrinter` prints for each: `rest` is what is left of the body of the
running `while`, `index` has the `x_i` that the body has defined, `iter` the iterators. `head` keeps
`iter`, `i` and `values` as of the last evaluation of the loop's condition, and with it as the
refinement mapping all but the last statement of an iteration are stuttering steps of `Kernel`. Text,
indentation and parameter lists are left out.

*Parser.* One action per decision of `ParseExpr` and of the statement loop; `frames` is the stack
of the C++ calls, each with the trees of its arguments so far, one after the other, and their
number. A tree is the postfix sequence of its nodes, `Null` for a null pointer; a call has the
number of its arguments. `LastPeek` is the last position a step looks at: beyond the end of the
tokens `Tokens.at` throws, since `AtEnd` compares for equality, and the program ends (`out_of_range`);
`assert` is the assertion on empty statements. The word `assign` is one character of the model, and
`is_int` is reduced to the numerals written with `0` and `1`.

*TestRunner.* One action per line of the script; `cat $KERNEL > $TEST_FILE` is two, the shell's
truncation of the file and the write of `cat`. A write starts where the file did when it was opened,
so it goes over what another round has written in between, over some of its pieces or a part of one
(`Overwritten`, `Fragment`). `Compile` accepts whatever a compiler can link (`Links`): one test and,
before it, one kernel with the parameters the test calls (`Signature`), be it of another test or another
round. `FailToCompile` is always possible: the kernel may be one `clang++` rejects. `clang++` reads
`test.cpp` and writes `test.out` in one step. `Interrupt` stops a round in any step and leaves the files.
Initially `test.cpp` and `test.out` are any old program, or missing.

*Tensors / TensorCalls.* A store is the destination cell and the argument cells that are added up.
The loops of code generation become sets of stores with the same bounds and index expressions.
`expand` emits each of its stores as often as the new dimension is long (its outermost loop,
`compiler.cpp:900`, runs over the product of two dimensions); the set has it once. A type has all the
fields of `MiniAPLArrayType`: `reduce`, `expand` and `concat` copy that of an argument, with what earlier
calls have left in it, and overwrite some fields, and the calls that are checked start from such types too.

*Exp.* Blocks `loop` and `afterloop` of the IR; `i_` and `exp_` are the phi nodes. `Width` stands
for 32.

*CallExecution.* `CompileCall` takes the call through `TensorCalls`; when it is printed and a call of
`exp`, `RunLoop` is a step of `Exp` on an array of its cells and with its constant as the power.

*MiniAPL.* `TypeTable` is keyed by the path of a node; `TypeVariable` picks any of the variables of
that name that have a type, since the last one in address order may be any. `gen` is the state of
code generation: the instructions of each block, `Builder`'s block, `ValueTable`, the value
`codegen` returns. Arithmetic is left out of the IR here; an array is the expression that made it.
Prints and terminators are kept. A step of the run is one print or one branch.

## 3. Runs

| run | instance | shows |
|---|---|---|
| `MCVectorCompiler` | all trees of up to 3 operands, each another array, in all supported formats of operands and result, and dense in place; all trees of up to 5 operands, all dense; dimension 3, all coordinate sets | the lattice at every node is complete, ordered, join-closed, without repetition; of the kernel made of it element-wise result, bounds, loops in a right order that hand their iterators on, one ascending pass, termination, refinement of `VectorAssign` |
| `MCKernelC` | up to 2 reads of one or two arrays in *all* formats, repeated and unsupported ones too, in place when dense; 3 operands in two formats; dimension 3, all coordinate sets | variables in scope, `x_i` and iterator move together, each iteration is a step of `Kernel`, and the code returns |
| `MCParser` | 119 programs of the grammar, nested up to three calls deep, and one with a comma behind the last argument; five of them with every character left out, replaced and inserted; all texts of up to 4 characters | grammatical programs give their trees; every other text a tree that says what was read, a null pointer after an error, or an abort on an unfinished statement; only assignments without `=` are lost; parsing ends |
| `MCTestRunner` | one runner, 3 tests with two signatures, 2 builds of the compiler, any old files | a round runs its own program or nothing |
| `MCCallExecution` | every function on arrays of 1 to 3 dimensions of lengths 1 to 3 (2 or 3 dimensions for `reduce`, 1 or 2 for `expand`), with fresh types and with fields left by earlier calls; `mkArray` with 0 to 10 values, fitting or not; `exp` in words of 4 bits, of arrays of two numbers, with all positive powers, and power 0 on odd numbers | every cell stored, right sources, printed notation; exactly the calls of `mkArray` whose values do not fit miss cells or store beyond the array; the power; the loop of `exp` ends |
| `MCMiniAPL` | 1349 programs of three statements over two variables, with `exp` of calls and of `exp`, and of four statements where one variable is assigned two shapes | inferred shapes and load lengths of what is made of variables that keep their shape, well-formed blocks, the results of evaluated calls in order |
| `MCKernelMixed`, `MCTestRunnerParallel`, `MCExpZero`, `MCMiniAPLNested`, `MCMiniAPLReassigned`, `MCMiniAPLEvaluation` | one small case each | a counterexample, see below |

Why the bounds are enough. Three operands give every nesting of two operators, hence the loops
after a first and after a second operand has ended; more operands repeat these situations, and the
theorems hold for all of them. Dimension 3 has room for a coordinate before, at and after any other.
The expressions of four and five operands give unions of lattices that are themselves unions and
intersections of several points. The index arithmetic treats the dimensions before, at and after
the one concerned; three dimensions of up to three elements tell them and their strides apart.
4-bit words make the wrap-around of the index and of the products happen.
What `KernelC` adds to `Kernel` is the order of the statements within an iteration, and two arrays,
or one that is read twice, show it; three operands give loops with several branches. A text of the
parser needs two calls, one within the other, and a statement behind them for an error to hit any
of the three; the edited programs have these, and longer ones repeat them.

`MCVectorCompiler` leaves out what is not `Supported`: a lattice with a point of dense arrays only beside
compressed ones. Repeated operands, and assignments in place with a compressed operand, are left
out too. `MCMiniAPL` nests no `exp` in a call other than `exp`. The next section says what the code does in the cases left out.

Deadlock is checked in all the runs; the states in which a program has returned loop.

### Where the code departs from its documentation

These have a run that finds a counterexample.

* `MCKernelMixed`: `A(i) = B(i) + C(i)` with `B` compressed and `C` dense. The point of `C` alone
  has no branch (`Lower.cpp:173`), so coordinates of `C` are dropped while `B` has elements, and
  the loop after it computes the whole sum with `B` exhausted (`Lower.cpp:192`).
* `MCTestRunnerParallel`: two runners share `test.cpp` and `test.out`.
* `MCExpZero`: an even number to the power of zero is 0. The loop multiplies before it compares.
* `MCMiniAPLNested`: prints of a call whose argument contains `exp` go behind the `br` of a block.
* `MCMiniAPLReassigned`: after two assignments of different shapes a use of the variable can have the
  type of either, as `SetType` takes the last node of that name in the order of addresses
  (`compiler.cpp:1147`), while its value is the last one assigned. `InferredShapes` fails;
  `KeptShapesInferred`, checked by `MCMiniAPL`, is what remains: a variable that is always assigned the
  same shape, from variables of which the same is true, and all that is made of such variables, is
  typed right, whatever the order of the addresses.
* `MCMiniAPLEvaluation`: the README of MiniAPL (line 52) promises that evaluations print their result.
  The prints are in the code of the calls, so the evaluation of a variable, or of `mkArray`, prints
  nothing (`compiler.cpp:370`), a call prints in an assignment too, and a call in the array of `exp`
  prints twice. `EvaluationsPrint` fails; `EvaluatedCallsPrint`, checked by `MCMiniAPL`, is what remains:
  the results of the calls that are evaluated are printed, in their order. In `add_file.mapl` the sum
  is printed by its assignment and not by the evaluation that follows, so `expected_results/` cannot
  tell the difference.

These were met while modelling and have no run of their own.

* An operand read twice, `A(i) = B(i) * B(i)`, gives a point with a repeated iterator
  (`Lattice.cpp:51`), against the comment of `dominates` in `Lattice.h`. A dense `B` is incremented
  twice in an iteration (`Lower.cpp:198`) and every other coordinate is skipped; a compressed `B` is
  defined twice in a block, which does not compile (`CompilesInC`). `KernelC` shows that the emitted
  statements do just what `Kernel` does there.
* In place, `A(i) = A(i) + B(i)` with compressed `A` advances the only iterator of `A` twice, after
  the store and with the other operands; and `A(i) = A(i) * B(i)` with dense `A` and compressed `B`
  leaves the cells of `A` as they are where `B` has no value, for a kernel never stores zeros.
* `mkArray` with too few values prints uninitialised cells, with too many writes beyond them
  (`compiler.cpp:514`).
* The grammar of MiniAPL's README (line 54) has no commas, and no `assign` before an assignment,
  where all its programs, and the parser, have both. Without `assign` the statement `A = 1` is read
  as the evaluation of `A`, and what follows is ignored; with it but without `=` the statement is
  left out silently (`compiler.cpp:1224`). A comma may follow the last argument.
* A syntax error is printed as `EAT ERROR`, but parsing goes on and the null pointer it leaves in
  the tree is dereferenced by `SetType`. A list that is not closed ends in an exception of
  `Tokens.at`, an empty statement (`;;`) in an assertion. A number of ten digits is a variable.

### Fairness

`Kernel`, `KernelC`, `Exp` and `Parser` have a liveness property (that of `KernelC` is the fairness
of `Kernel`, which it implements), under `WF_vars(Next)` (`WF_loopvars(LoopNext)` in `Exp`): a
sequential program that can take a step takes it. `Kernel` and `Exp` run within `VectorCompiler` and
`CallExecution`, and there the fairness is of the whole: `WF_compilervars(CompilerNext)` and
`WF_callvars(CallNext)`. No choice between enabled steps is subject to fairness: in all of them, at most
one step that changes the state is possible in a state. `TestRunner` and `MiniAPL` assume none: a user may interrupt a
round, and what matters there is what has been run or printed.

## 4. Proofs

TLAPS checks every theorem to the last leaf; nothing is assumed beyond the named assumptions.

### How induction over data is done

No theorem with an operator parameter can be used by these provers, which excludes the library's
induction schemes, and no RECURSIVE operator. `Induction` states the scheme for *sets*: a set of
numbers that has 0, and with `n` also `n + 1`, has all numbers (`NaturalsFrom`, from the well-founded
order of the numbers). A property is proved with the set of the numbers that have it. Expressions
are postfix sequences, loops are recursive functions on numbers, and so the inductions over
expressions, over the loops of the tokenizer, over the nodes of a syntax tree, over the dimensions
of an array and over the factors of a power become inductions along positions. What a recursive
function computes is known once there is a function that satisfies its equation (`LoopRuns`,
`KeptExists`, `SimplifyRun`, `CellsExist`, `PowerExists`). The folds of the community modules take
operators: of these, `FlattenSeq` is shown to be a recursive function (`FlattenIs`), and known by
what it does to a sequence that grows (`FlattenAppend`).

### `LatticeProofs`, `MergeLatticeProofs`

`MakeWellFormed`: for every expression that reads no array twice, `MergeLattice::make` builds a
lattice that is join-closed, has dominating points before those they dominate, starts with a point
of all arrays, repeats no iterator and is complete: whatever arrays have a value at a coordinate,
the largest point within them, which is the first, has the right expression, and if there is none the value is zero.

`LatticeFor` is this property of a lattice relative to an expression. It holds of the lattice of a
single array (`DimIsLattice`), and of the merge of two lattices of expressions that share no array
(`MergeIsLattice`): for the pairs of points, the order of the pairs is that of the divisions with
remainder by the number of points of `b`; a union's points that stand alone come after all pairs.
`Visited` says of the stack of the visitor that its lattices are right for consecutive parts of the
expression that together are all the nodes visited. It is the inductive invariant of the proof about
`Make` and, with the node that is visited, of the one about `MergeLattice`.

Assumption of `MergeLattice`: `Inputs` are expressions without repeated operands (with repeated
ones the iterators are not unique, section 3). Theorems, for all `Inputs`: `TypeCorrect`,
`StackAlwaysCovers`, `IteratorsAlwaysUnique`, `LoopsAlwaysInOrder`, `PointsAlwaysComplete`,
`FirstMatchAlwaysLargest`: all the invariants of the run that are about the visitor. `CompilerRunsBoth`
says that a run of `VectorCompiler` is one of the visitor and has only steps of the kernel, so
that the safety of either carries over.

### `KernelProofs`

Assumption: `N` is a natural number. Most theorems have the hypothesis `ProgramsOK`: each program's
lattice is `WellFormed` and the program is `Supported`. `CompiledOK` discharges the first half with
`MakeWellFormed`: `CompilerCorrect` says of all supported assignments without repeated operands,
lowered with the lattice that `make` builds for them, that the kernel computes them element-wise.

`WellFormed` allows the written array among the operands when they are all dense. `ReadsFresh`
shows that a kernel in place then reads only what the caller passed: at the frontier every
coordinate is still untouched (`BehindFrontier`).

None of the checked properties is inductive alone: that an iteration stores the right value depends
on where *all* the iterators stand, those of points whose loops have not started included. `Inv`
therefore adds

* `ConsumedBehind`: what an iterator has consumed lies behind the frontier (the coordinate after the
  last iteration's), and no iterator is past its bound;
* `LiveAtFrontier`: of a point whose loop condition still holds, a dense iterator stands at the
  frontier, and a compressed one at an element that is not behind it;
* `ResultAtFrontier`: the free cells of a compressed result are for coordinates not behind it;
* that loops which have been left stay exhausted, and `BehindFrontier`, the part of `ElementWise` about
  every state.

The first two together are `IteratorsKeepPace`, which the run checks as well: the loops hand their
iterators on to each other although each only advances its own.

The argument: while the loop of point `k` runs, the join of `k` with any other live point is a point
(`JoinClosed`) and live. It does not come before `k`, as the loops before `k` are exhausted, nor
after `k`, as it dominates `k` (`DominatingFirst`). So it is `k`, which covers all that is live
(`LoopCoversLive`). Hence no coordinate is lost between the frontier and the logical index, the
first branch that matches is the largest point whose arrays are all present, and its expression is
the simplified right-hand side (`Complete`).

Theorems, for every `N` and all such programs: `TypeCorrect`, `ElementWiseCorrect`,
`IteratorsAlwaysKeepPace`, `LoopsCoverLive`, `AccessesInBounds`, `CoordinatesAscendAlways`,
`Refinement` (`Kernel` implements `VectorAssign`), and `CompilerCorrect`.

### `KernelCProofs`

Assumption: `N` is a natural number. Hypothesis `ProgramsTyped`: the programs are assignments with
any formats and points that iterate over something. Lattices need not be well formed, formats not
supported, operands not distinct (programs that C++ rejects are not run): that the statements
implement the loops does not depend on it.

The invariant says which part of the body of the running `while` is left, and what the statements
before it have done since `head`. A body is in one of five phases:

* `Loading`: some of the `x_i`, then `i`, are being defined; nothing has moved;
* `Choosing`: `i` and all `x_i` are there, the `if` chain is next;
* `Storing`: the branch that matched, or the only store, is next;
* `Bumping`: the value is stored, the iterator of a compressed result is next;
* `Incrementing`: the iterators of the first operands of the point have moved, the others have not.

`CodeImplementsLoops`: with `head` for `iter`, `i` and `values`, each statement but the last of a
body is a stuttering step of `Kernel`, the last is `TakeBranch`, `SkipCoordinate` or `StoreWhole`,
and leaving a `while` is `LeaveLoop`. This is the safety part of `ImplementsKernel`; its fairness,
which needs ENABLED, stays with TLC. `TypeCorrect`, `VariablesInScope` and `IteratorsCurrent` follow
from the same invariant; the last supposes `InPlaceOnlyDense`, that an array both read and written is
dense, as in all programs of `MCKernelC`: a compressed one is advanced by the store (section 3).

`CodeCorrect` composes everything: under the hypothesis of `CompilerCorrect`, whenever the emitted
code has returned, each element of the result is the value of the assignment there. `KP` is
`KernelProofs` at the same refinement mapping, so its invariant is proved along the steps of `KernelC`.

### `CallProofs`

*Calls.* Assumption: `Calls` are typed, and made with the arguments the functions are for
(`MadeFor`): as many arrays as the function takes, of dimensions that agree where they have to, and
constants in range. The compiler checks none of it. Numbers of dimensions and lengths are not
bounded. Theorems: `AllCellsStored`, `AllElementsRight` and `AllPrintedInNotation`.

A cell is the value of its coordinate in mixed radix, `CellAt`, and `Cells` the product of the
radices. Both are loops along the dimensions. `CellsJoined` and `CellAtJoined` take an array apart:
for dimensions `p` before and `q` behind, `Cells` is the product of both, and the cell of a joined
coordinate is the row `CellAt(p, c)` times `Cells(q)` plus the place `CellAt(q, d)`. Each generated
loop nest then stores pairs or triples of a row and places, and division with remainder tells them
apart (`DivModUnique`, `PositionUnique`), so that no two stores put different things into one cell, and finds them
again (`PositionExists`), which gives the store into every cell. `ReduceRight`, `ExpandRight`,
`ConcatRight`, `ElementwiseRight` and `MkArrayRight` do this for each function; of `mkArray` the
cells are all stored to if and only if the number of values fits. `expand` repeats its stores (its
outermost loop runs too often), which the set of stores does not show: they are the same ones.

*Printing.* `codegen_print_array` recurses on the dimensions and writes nested lists; README.md of the
program describes one list of cells in which the brackets of a row, of a matrix and so on open and
close. `Part(dims, j, p)` is that description for the dimensions from `j` on and the cells from `p`
on: the element at place `n` opens a list for each dimension whose lists have a length that divides
`n - 1`, and closes one for each whose length divides `n` (`Depth`). `PartNext` is the step of the
recursion: one dimension further out, the first element opens one list more and the last one closes
it (`ElementNext`, `FlattenBracketed`), and in between are as many rows as the dimension is long,
each the `Part` of its own cells, because the places of a row differ from those of the list by a
multiple of every length that counts (`EnclosingRepeat`, `RowIs`, `FlattenRows`). By induction from
the innermost dimension the recursive function of `PrintArray` is `Part` (`PrintArrayIs`), and so is
`Notation` (`NotationIs`); `DimensionsRight` says that the dimensions the code printed are those of
the shape. `AllPrintedInNotation` has the hypothesis `ResultsHaveDimensions`, which the calls of
`MCCallExecution` meet: the sum of an array of one dimension has no dimension left, and there the code
reads behind the vector of dimensions (hazard at compiler.cpp:1105), which the model does not give a
value.

*The loop of `exp`.* Assumptions: there are at least two words (`Modulus`), and `Inputs` are arrays and powers of words. The
loop multiplies before it compares, so the index goes through `power` or, from zero, through all the
words. The invariant: at the head the product is the power of the index, and the index is below
`power` unless that is zero. `TypeCorrect`, `ProductAlwaysFollows`, and `StoresPower`: what is stored
is the base to the power, and for power zero the base to the number of words. `AlwaysRaised` has the
hypothesis `ZeroPowersOK`, that for the inputs with power zero this happens to be 1; `MCCallExecution` checks
it of its odd bases, and `MCExpZero` shows an even one. `CallRunsBoth`: a run of `CallExecution` is one
of the compilation and has only steps of the loop.

### `ParserProofs`

Assumptions: texts are sequences of their characters, and where an input names the program it is the
text of (`source`), that is a program of the grammar (`IsStatement`) and the text is `TextOf` it. TLC
evaluates both in `MCParser`. Theorems, for every text: `TypeCorrect`, `ErrorsAlwaysMarked`,
`OnlyAssignmentsAreLost`, `AbortsAreUnfinished`, `TextAlwaysKept`, `ParsedAlwaysText`; for every
program of the grammar: `AllProgramsParsed`. None of the properties is inductive, since each speaks
of statements that are parsed while the trouble arises within calls. The invariant adds

* `NullSoFar`: within a statement, an error has been logged for it exactly if there is a null in the
  arguments of some call that is being parsed, or in what `ParseExpr` has just returned;
* `Balanced`: from the parenthesis of some call on, at least as many more parentheses have been
  opened than closed, up to the position, as there are calls. A call is left by eating a `)`, or by
  `EAT`, with an error and whatever token there is. So when tokens run out within a call, there are
  more opened than closed from there to the end. Outside of calls nothing is said, so leftovers behind an
  expression do not matter;
* `Kept`: the statement that is parsed is one to be kept, and those kept so far are in order.

`TextAlwaysKept` and `ParsedAlwaysText` have an invariant of their own, `Faithful`:

* `TextRead`: what the loops of the tokenizer and of the splitting have put together is, at every
  position, what `Without` leaves of the text up to there (`TokenizeKeeps`, `SplitKeeps`);
* `Told`: as long as no error is logged for the statement, the tokens behind the position say, but
  for commas before a parenthesis, the head of the statement, of each call in `frames` its name, its
  parenthesis and its arguments with a comma behind each, and then the text of the value that is
  returned. A tree is postfix and its text is prefix: `Says` is the stack of `Unparse` at every node,
  and `CallSays` joins the texts of the arguments under their call.

When a value is returned to a call, its comma is eaten, or the next token is a parenthesis, or an
error is logged; that `ParsedIsText` is only about trees without null pointers is what the error case
needs, with `ErrorsMarked`. A comma that is eaten before a parenthesis is one of those to drop
(`TellsTrailing`). Just these commas are lost: of `f(,,)` the second one is, and the first one is kept as
a variable of that name.

`AllProgramsParsed` goes the other way: the text of a program gives the program, with no error and no
abort, for any number of statements, any names and any nesting. (Digits are `0` and `1`, as in the
model of `is_int`; as there, a word of ten digits is a name.) That is more than `ParsedAlwaysText`,
since it says that no other tree has the same text. The proof has three parts.

* *The reader.* `Read` takes one token of an expression, knowing the one after it, and `Reader(w)` is
  what has been read before each token of `w`: what is to come, the calls that are open with their
  arguments, the last value. `Phrase` says that a text is read as a tree wherever it occurs, in any
  calls and before any token but an opening parenthesis. By induction along the nodes of a tree, each
  text on the stack of `Unparse` is read as the tree of its own nodes; a leaf is one token, and a call
  is its name, its parenthesis and its arguments, one after another. So the reader turns
  `Unparse(tree)` into `tree` for every expression, and never goes wrong on the way.
* *The parser.* `Planned` is the invariant: the statements behind are those of `source`, and within
  the expression of one the parser is where the reader is (`Following`). A step of the parser is a
  step of the reader, but for an argument before a parenthesis: the parser takes the argument first
  and then leaves the call, and the reader does both at the parenthesis.
* *The text.* `Tokenize` cuts `TextOf(program)` into the tokens of its statements, for which two words
  must not meet: that is where the grammar has a blank, and within an expression no word follows
  another. `SplitStatements` then finds the statements, as no word of a program is a semicolon. Both
  are loops, and what they do with a text is put together from what they do with its parts.

### `TestRunnerProofs`

`CorrespondingTest`: with one runner (`Alone`) every round runs its program or nothing, from any old
files, under any interruption, for all sets of tests and builds. The invariant says what `test.cpp`
and `test.out` contain after each line of the script. With more runners only the shape of the files
is kept (`TypeCorrect`), and `MCTestRunnerParallel` shows a round that runs another's program.

### Only model-checked

* Liveness: termination of kernels, of `exp` and of the parser, and the fairness within
  `ImplementsKernel`. These need ENABLED.
* `MiniAPL`: syntax trees need RECURSIVE operators.

## 5. Not modelled

* `MiniAPLJIT.h`: LLVM's tutorial JIT. IR printing and `IRVisitor`: formatting and dispatch.
* Number arguments used as arrays, calls of unknown functions, undefined variables: the code
  dereferences null there, with no behaviour to state.
* The numbers of MiniAPL arrays, but for `exp`: values are symbolic. `reduce` of a one-dimensional
  array: the compiler then reads the first of no dimensions (`compiler.cpp:381`).
* The text of the printed C, and `malloc`ed arrays of `runtime/array.h` beyond their fields.

## 6. Plan

Done: lattice, kernel (in place too), lowering to LIR and its execution, test runner, MiniAPL
parser, types, calls, `exp` and programs; proofs of the whole chain from the lattice to the emitted
C, of the test runner, of the calls on arrays of any dimensions and of `exp`, and of the parser on
arbitrary texts and on all programs of the grammar.

Next, in this order:

1. More composition: the trees of `Parser` as the programs of `MiniAPL`; `KernelC` and `TestRunner` as one
   pipeline.
