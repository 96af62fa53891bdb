------------------------------ MODULE KernelC ------------------------------
(***************************************************************************)
(* The lowered IR when it runs: each statement of LIR.h with the meaning   *)
(* of the C that IRPrinter.cpp prints for it.  A step is one C statement,  *)
(* or one evaluation of the condition of a while or of an if.              *)
(*                                                                         *)
(* Kernel takes an iteration of a loop in one step.  KernelC implements    *)
(* it: `head' keeps what Kernel sees, the state at the head of the loop.   *)
(***************************************************************************)
EXTENDS LIR, Integers

CONSTANTS
    N,           \* shape[0], the same for all the arrays
    Programs     \* the assignments, each with its formats and its lattice

ASSUME DimensionAssumption == N \in Nat

VARIABLES
    prog,        \* the assignment that has been lowered
    code,        \* the statements it has been lowered to
    crd,         \* the coordinates of each compressed array
    loop,        \* the while that runs, a position in its sequence
    rest,        \* what is left of this iteration; empty at the condition of the while
    iter,        \* the iterators: x_i of a dense array x, x_i_iter of a compressed one
    index,       \* x_i of the compressed arrays, in the scope of the loop's body
    i,           \* the logical index, in the scope of the loop's body
    values,      \* the `values' of the result array
    wanted,      \* not in the code: the right value of each coordinate
    head         \* not in the code: iter, i and values at the head of the loop

vars == <<prog, code, crd, loop, rest, iter, index, i, values, wanted, head>>

frame == <<prog, code, crd, wanted>>

(* Kernel with the state at the head of the loop. *)
K == INSTANCE Kernel WITH
    iter   <- head.iter,
    i      <- head.i,
    values <- head.values

-----------------------------------------------------------------------------
(* The first statement defines the iterators, a while follows for each      *)
(* point of the lattice.                                                    *)
Declared == {a.name : a \in Range(code[1].iterators)}

Loops == Tail(code)

None == [x \in {} |-> 0]

Init ==
    /\ prog \in {p \in Programs : K!CompilesInC(p)}
    /\ code = Lower(prog)
    /\ \E s \in [K!Gathered(prog) \ prog.dense -> K!CoordinateArrays] :
          crd = [x \in K!Gathered(prog) |-> IF x \in prog.dense THEN << >> ELSE s[x]]
    /\ prog.lhs \in prog.dense \/ K!ResultAllocated
    /\ loop = 1
    /\ rest = << >>
    /\ iter = [x \in Declared |-> 0]
    /\ index = None
    /\ i = -1
    /\ values = [c \in K!Coords |-> K!Untouched]
    /\ wanted = [c \in K!Coords |-> K!Wanted(c)]
    /\ head = [iter |-> iter, i |-> i, values |-> values]

-----------------------------------------------------------------------------
(* print_iterator_bound. *)
Bound(a) == IF IsCompressed(a) THEN Len(crd[a.name]) ELSE N

(* print_bounded_guard. *)
BoundedGuard(iset) == \A n \in DOMAIN iset : iter[iset[n].name] < Bound(iset[n])

(* print_resolved_index: x_i, which is the iterator itself of a dense array. *)
ResolvedIndex(a) == IF IsCompressed(a) THEN index[a.name] ELSE iter[a.name]

(* print_set_guard. *)
SetGuard(iset) == \A n \in DOMAIN iset : ResolvedIndex(iset[n]) = i

(* print_array_access: the position accessed. *)
Accessed(a) == IF IsCompressed(a) THEN iter[a.name] ELSE i

(* A cell of the array of the result has lost what the caller had in it     *)
(* when the kernel has stored there.                                        *)
ReadAt(a) ==
    IF a.name = prog.lhs /\ values[Accessed(a)] # K!Untouched THEN K!Overwritten ELSE Accessed(a)

(* The value of an expression, as Kernel writes it. *)
Evaluated(e) ==
    [expr |-> [n \in DOMAIN e |-> IF e[n].op = "read" THEN Read(e[n].name) ELSE e[n]],
     at   |-> [x \in Operands(e) |->
                  LET n == CHOOSE m \in DOMAIN e : e[m].op = "read" /\ e[m].name = x
                  IN  ReadAt(e[n].array)]]

-----------------------------------------------------------------------------
Running(class) == rest # << >> /\ rest[1].stmt = class

(* The last statement of an iteration: Kernel sees its effect now. *)
Continue ==
    /\ rest' = Tail(rest)
    /\ head' = IF Len(rest) = 1 THEN [iter |-> iter', i |-> i', values |-> values'] ELSE head

(* The condition of the while; the body is a block with variables of its    *)
(* own.                                                                     *)
Iterate ==
    /\ rest = << >>
    /\ loop <= Len(Loops)
    /\ BoundedGuard(Loops[loop].condition)
    /\ rest' = Loops[loop].body
    /\ index' = None
    /\ UNCHANGED <<frame, loop, iter, i, values, head>>

LeaveLoop ==
    /\ rest = << >>
    /\ loop <= Len(Loops)
    /\ ~BoundedGuard(Loops[loop].condition)
    /\ loop' = loop + 1
    /\ UNCHANGED <<frame, rest, iter, index, i, values, head>>

(* uint64_t x_i = x.crd[x_i_iter]; *)
DefineCompressedIndex ==
    /\ Running("CompressedIndexDefinition")
    /\ LET x == rest[1].array.name
       IN  index' = [y \in DOMAIN index \cup {x} |-> IF y = x THEN crd[x][iter[x] + 1] ELSE index[y]]
    /\ UNCHANGED <<frame, loop, iter, i, values>>
    /\ Continue

(* uint64_t i = min(x_i, min(y_i, ...)); *)
DefineLogicalIndex ==
    /\ Running("LogicalIndexDefinition")
    /\ i' = Min({ResolvedIndex(a) : a \in Range(rest[1].iterators)})
    /\ UNCHANGED <<frame, loop, iter, index, values>>
    /\ Continue

(* The if / else if chain takes the first branch whose condition holds. *)
TakeBranch ==
    /\ Running("IfStmt")
    /\ \E k \in DOMAIN rest[1].conditions :
          /\ SetGuard(rest[1].conditions[k])
          /\ \A m \in 1..(k - 1) : ~SetGuard(rest[1].conditions[m])
          /\ rest' = rest[1].bodies[k] \o Tail(rest)
    /\ UNCHANGED <<frame, loop, iter, index, i, values, head>>

SkipBranches ==
    /\ Running("IfStmt")
    /\ \A k \in DOMAIN rest[1].conditions : ~SetGuard(rest[1].conditions[k])
    /\ UNCHANGED <<frame, loop, iter, index, i, values>>
    /\ Continue

(* The store; a compressed result is followed by x_i_iter++. *)
Assign ==
    /\ Running("ArrayAssignment")
    /\ UNCHANGED <<frame, loop, iter, index, i>>
    /\ LET a == rest[1].array
       IN  /\ values' = [values EXCEPT ![Accessed(a)] = Evaluated(rest[1].value)]
           /\ IF IsCompressed(a)
              THEN rest' = <<IncrementIterator(a, TRUE)>> \o Tail(rest) /\ UNCHANGED head
              ELSE Continue

(* x_i++, or x_i_iter += (i == x_i), or x_i_iter++ when it is set to        *)
(* advance always.                                                          *)
Increment ==
    /\ Running("IncrementIterator")
    /\ LET a == rest[1].array
           moves == ~IsCompressed(a) \/ rest[1].always \/ i = index[a.name]
       IN  iter' = [iter EXCEPT ![a.name] = @ + (IF moves THEN 1 ELSE 0)]
    /\ UNCHANGED <<frame, loop, index, i, values>>
    /\ Continue

Returned == loop > Len(Loops)

Return == Returned /\ UNCHANGED vars

Next ==
    \/ Iterate \/ LeaveLoop
    \/ DefineCompressedIndex \/ DefineLogicalIndex
    \/ TakeBranch \/ SkipBranches \/ Assign \/ Increment
    \/ Return

Spec == Init /\ [][Next]_vars /\ WF_vars(Next)

-----------------------------------------------------------------------------
(* The arrays a statement uses the iterator of, and those whose x_i it uses. *)
Levels(s) ==
    CASE s.stmt = "LogicalIndexDefinition" -> Range(s.iterators)
      [] s.stmt = "IfStmt"                 -> UNION {Range(s.conditions[k]) : k \in DOMAIN s.conditions}
      [] OTHER                             -> {s.array}

(* The shape of the state. *)
TypeOK ==
    /\ DOMAIN iter = K!Gathered(prog) /\ \A x \in DOMAIN iter : iter[x] \in Nat
    /\ DOMAIN index \subseteq K!Gathered(prog) \ prog.dense
    /\ \A x \in DOMAIN index : index[x] \in K!Coords
    /\ i \in -1..(N - 1)
    /\ loop \in 1..(Len(prog.points) + 1)
    /\ DOMAIN values = K!Coords

(* The variables of the printed code are in scope when they are used, and   *)
(* no x_i is defined twice in a block: a branch only compares x_i of arrays *)
(* that its loop iterates over, and each of them is defined before.         *)
InScope ==
    rest # << >> =>
        /\ \A a \in Levels(rest[1]) : a.name \in DOMAIN iter
        /\ Running("CompressedIndexDefinition") => rest[1].array.name \notin DOMAIN index
        /\ Running("LogicalIndexDefinition") \/ Running("IfStmt") =>
              \A a \in Levels(rest[1]) : IsCompressed(a) => a.name \in DOMAIN index
        /\ Running("IncrementIterator") /\ IsCompressed(rest[1].array) /\ ~rest[1].always =>
              rest[1].array.name \in DOMAIN index

(* Until it is incremented, the iterator of an operand stands at the        *)
(* coordinate that was read into x_i at the start of the iteration: the     *)
(* if compares x_i, the stores read at x_i_iter.                            *)
IndexCurrent ==
    \A x \in DOMAIN index :
        (\E n \in DOMAIN rest : rest[n].stmt = "IncrementIterator" /\ ~rest[n].always /\ rest[n].array.name = x)
            => iter[x] < Len(crd[x]) /\ crd[x][iter[x] + 1] = index[x]

(* The statements of one iteration do what a step of Kernel does, which     *)
(* returns because the code always takes another step.                      *)
ImplementsKernel == K!Spec
=============================================================================
