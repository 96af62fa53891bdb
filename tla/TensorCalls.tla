---------------------------- MODULE TensorCalls ----------------------------
(***************************************************************************)
(* The compilation of one call of a MiniAPL function: SetType infers its   *)
(* type, codegen allocates the result, without initialising it, and emits  *)
(* the stores that fill it, and codegen_print_array prints it.  The stores *)
(* are a set: one that is emitted again is not told from one that is not.  *)
(***************************************************************************)
EXTENDS Tensors, FiniteSets

CONSTANT Calls       \* [callee, types (of the arguments), scalars (the constants)]

Callees    == {"mkArray", "neg", "exp", "add", "sub", "reduce", "expand", "concat"}
Lengths    == Nat \ {0}
ArrayTypes == [dimensions : Seq(Lengths), innermost_dimension : Int,
               concat_dim1 : Int, concat_dim2 : Int, dim_to_concat : Int]

(* The arguments the functions are made for; the compiler checks none of it. *)
MadeFor(c) ==
    \/ /\ c.callee = "mkArray" /\ c.types = << >>
       /\ Len(c.scalars) > 0 /\ c.scalars[1] \in 1..(Len(c.scalars) - 1)
       /\ \A d \in 1..c.scalars[1] : c.scalars[d + 1] \in Lengths
    \/ c.callee = "neg" /\ Len(c.types) = 1
    \/ c.callee = "exp" /\ Len(c.types) = 1 /\ Len(c.scalars) = 1
    \/ /\ c.callee \in {"add", "sub"} /\ Len(c.types) = 2
       /\ c.types[1].dimensions = c.types[2].dimensions
    \/ c.callee = "reduce" /\ Len(c.types) = 1 /\ c.types[1].dimensions # << >>
    \/ /\ c.callee = "expand" /\ Len(c.types) = 1 /\ c.types[1].dimensions # << >>
       /\ Len(c.scalars) = 1 /\ c.scalars[1] \in Lengths
    \/ /\ c.callee = "concat" /\ Len(c.types) = 2 /\ Len(c.scalars) = 1
       /\ Len(c.types[1].dimensions) = Len(c.types[2].dimensions)
       /\ c.scalars[1] \in 0..(Len(c.types[1].dimensions) - 1)
       /\ \A d \in DOMAIN c.types[1].dimensions :
             d = c.scalars[1] + 1 \/ c.types[1].dimensions[d] = c.types[2].dimensions[d]

ASSUME CallsAssumption ==
    /\ Calls \subseteq [callee : Callees, types : Seq(ArrayTypes), scalars : Seq(Int)]
    /\ \A c \in Calls : MadeFor(c)

VARIABLES
    call,
    type,            \* TypeTable[this]
    stores,          \* the stores of the generated code
    printed,         \* what the generated code prints
    done             \* "parsed", "typed", "stored", "printed"

vars == <<call, type, stores, printed, done>>

Init ==
    /\ call \in Calls
    /\ type = OfDimensions(<< >>)
    /\ stores = {}
    /\ printed = << >>
    /\ done = "parsed"

-----------------------------------------------------------------------------
(* Faulty variant: what was added by the first argument is not skipped when *)
(* the second one is copied.                                                *)
StoresOverlapping(c, t) ==
    CASE c.callee = "reduce" -> ReduceStores(t)
      [] c.callee = "expand" -> ExpandStores(t)
      [] c.callee = "concat" -> ConcatStores([t EXCEPT !.concat_dim1 = t.concat_dim2])
      [] c.callee = "mkArray" -> MkArrayStores(t, c.scalars)
      [] OTHER               -> ElementwiseStores(t, Len(c.types))

CallStores(c, t) ==
    CASE c.callee = "reduce" -> ReduceStores(t)
      [] c.callee = "expand" -> ExpandStores(t)
      [] c.callee = "concat" -> ConcatStores(t)
      [] c.callee = "mkArray" -> MkArrayStores(t, c.scalars)
      [] OTHER               -> ElementwiseStores(t, Len(c.types))

InferType ==
    /\ done = "parsed"
    /\ type' = CallType(call.callee, call.types, call.scalars)
    /\ done' = "typed"
    /\ UNCHANGED <<call, stores, printed>>

GenerateStores ==
    /\ done = "typed"
    /\ stores' = CallStores(call, type)
    /\ done' = "stored"
    /\ UNCHANGED <<call, type, printed>>

(* The code of mkArray prints nothing. *)
GeneratePrint ==
    /\ done = "stored"
    /\ call.callee # "mkArray"
    /\ printed' = PrintArray(type.dimensions)
    /\ done' = "printed"
    /\ UNCHANGED <<call, type, stores>>

Finished ==
    /\ done = "printed" \/ (done = "stored" /\ call.callee = "mkArray")
    /\ UNCHANGED vars

Next == InferType \/ GenerateStores \/ GeneratePrint \/ Finished

Spec == Init /\ [][Next]_vars

-----------------------------------------------------------------------------
(* The functions of MiniAPL as README.md describes them, on coordinates.    *)

Coordinates(dims) ==
    {c \in [DOMAIN dims -> UNION {0..(dims[d] - 1) : d \in DOMAIN dims}] :
        \A d \in DOMAIN dims : c[d] < dims[d]}

(* The cell of a coordinate, "incrementing the inner most dimension first". *)
CellAt(dims, c) ==
    LET at[n \in 0..Len(dims)] == IF n = 0 THEN 0 ELSE at[n - 1] * dims[n] + c[n]
    IN  at[Len(dims)]

Dims(arg) == call.types[arg].dimensions
At(arg, c) == Load(arg, CellAt(Dims(arg), c))

(* The dimensions of the result.                                            *)
Shape ==
    CASE call.callee = "mkArray" -> [d \in 1..call.scalars[1] |-> call.scalars[d + 1]]
      [] call.callee = "reduce" -> Front(Dims(1))
      [] call.callee = "expand" -> Front(Dims(1)) \o <<call.scalars[1]>> \o <<Last(Dims(1))>>
      [] call.callee = "concat" ->
            [d \in DOMAIN Dims(1) |-> Dims(1)[d] + (IF d = call.scalars[1] + 1 THEN Dims(2)[d] ELSE 0)]
      [] OTHER                  -> Dims(1)

(* The cells of the arguments that make the element at coordinate c.        *)
Sources(c) ==
    LET d == IF call.callee = "concat" THEN call.scalars[1] + 1 ELSE 1
    IN  CASE call.callee = "mkArray" -> <<Load(Constants, Len(Shape) + 1 + CellAt(Shape, c))>>
          [] call.callee = "reduce" -> [j \in 1..Last(Dims(1)) |-> At(1, Append(c, j - 1))]
          [] call.callee = "expand" -> <<At(1, RemoveAt(c, Len(c) - 1))>>
          [] call.callee = "concat" ->
                IF c[d] < Dims(1)[d] THEN <<At(1, c)>> ELSE <<At(2, [c EXCEPT ![d] = @ - Dims(1)[d]])>>
          [] OTHER                  -> [a \in DOMAIN call.types |-> At(a, c)]

(* There is a value for each cell: not checked by the compiler.             *)
Matched ==
    call.callee = "mkArray" => Len(call.scalars) = 1 + Len(Shape) + Cells(Shape)

(* README.md, mkArray: an element is printed in brackets, and each row, each *)
(* matrix of rows, ... is enclosed in brackets of its own.                   *)
Starting(n) == {d \in DOMAIN Shape : n % Cells(SubSeq(Shape, d, Len(Shape))) = 0}
Repeat(t, k) == [m \in 1..k |-> t]
Notation ==
    FlattenSeq([n \in 1..Cells(Shape) |->
        Repeat(Open, Cardinality(Starting(n - 1)))
        \o <<Open, Cell(n - 1), Close>>
        \o Repeat(Close, Cardinality(Starting(n)))])

-----------------------------------------------------------------------------
(* The code loads only cells that its arguments have, each argument as a    *)
(* vector of the length it was allocated with, and stores into every cell   *)
(* of the result, no two of its stores different things into one cell: the  *)
(* result is not initialised, and a cell that is missed would be printed as *)
(* garbage.  Only mkArray, with too many values, stores beyond its          *)
(* allocation, and with too few misses cells.                               *)
EveryCellStored ==
    done \in {"stored", "printed"} =>
        /\ Matched <=> {s.dst : s \in stores} = 0..(Cells(type.dimensions) - 1)
        /\ \A s, t \in stores : s.dst = t.dst => s = t
        /\ \A s \in stores : \A n \in DOMAIN s.from :
              s.from[n].arg # Constants => s.from[n].cell \in 0..(Cells(Dims(s.from[n].arg)) - 1)
        /\ LoadedLengths(call.callee, type, Len(call.types)) =
              [a \in DOMAIN call.types |-> Cells(Dims(a))]

(* The code of each function computes what README.md says of it: the index  *)
(* arithmetic on the flattened arrays agrees with coordinates.              *)
ElementsRight ==
    Matched /\ done \in {"stored", "printed"} =>
        \A c \in Coordinates(Shape) : Store(CellAt(Shape, c), Sources(c)) \in stores

(* The result is printed in the notation of README.md, with the dimensions  *)
(* of the result.                                                           *)
PrintedInNotation == done = "printed" => printed = Notation
============================================================================
