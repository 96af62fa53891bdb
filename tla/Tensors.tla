------------------------------ MODULE Tensors ------------------------------
(***************************************************************************)
(* The arrays of MiniAPL (compiler.cpp of the first assignment): the type  *)
(* SetType gives to a call, and the cells the generated code of a call     *)
(* loads and stores.  An array is flattened, the innermost dimension       *)
(* varies fastest.                                                         *)
(*                                                                         *)
(* A store puts into cell dst of the result the sum of the loaded cells    *)
(* in `from', each a cell of the first or of the second argument, or       *)
(* Constants, a constant among the arguments; all but reduce load one.     *)
(***************************************************************************)
EXTENDS Integers, Sequences, SequencesExt

Load(arg, cell) == [arg |-> arg, cell |-> cell]
Store(dst, from) == [dst |-> dst, from |-> from]
Constants == 0

(* MiniAPLArrayType, when only the dimensions are given. *)
OfDimensions(dims) ==
    [dimensions |-> dims, innermost_dimension |-> 0,
     concat_dim1 |-> 0, concat_dim2 |-> 0, dim_to_concat |-> 0]

(* MiniAPLArrayType::Cardinality. *)
Cells(dims) ==
    LET cells[n \in 0..Len(dims)] == IF n = 0 THEN 1 ELSE cells[n - 1] * dims[n]
    IN  cells[Len(dims)]

-----------------------------------------------------------------------------
(* SetType: the type of a call from those of its arguments. *)

(* The arguments of mkArray are the number of dimensions, the dimensions    *)
(* and the values; the values are not counted.                              *)
MkArrayType(args) == OfDimensions(SubSeq(args, 2, 1 + args[1]))

(* The other calls copy the type of an argument, with all that an earlier   *)
(* call has left in its fields, and overwrite some of them.                 *)

(* Faulty variant: the field of an earlier call stays.                      *)
ReduceTypeStale(type) == [type EXCEPT !.dimensions = Front(type.dimensions)]

(* The field `innermost_dimension' keeps the length that is summed up.      *)
ReduceType(type) ==
    [type EXCEPT !.dimensions = Front(type.dimensions),
                 !.innermost_dimension = Last(type.dimensions)]

(* The field `innermost_dimension' of an expanded array is the new          *)
(* dimension, the last but one.                                             *)
ExpandType(type, times) ==
    [type EXCEPT !.dimensions = Front(type.dimensions) \o <<times, Last(type.dimensions)>>,
                 !.innermost_dimension = times]

ConcatType(type1, type2, dim) ==
    LET dim1 == type1.dimensions[dim + 1]
        dim2 == type2.dimensions[dim + 1]
    IN  [type1 EXCEPT !.dimensions = [type1.dimensions EXCEPT ![dim + 1] = dim1 + dim2],
                      !.concat_dim1 = dim1,
                      !.concat_dim2 = dim2,
                      !.dim_to_concat = dim]

(* Faulty variant: the dimensions of an expanded array in another order.    *)
CallTypeSwapped(callee, types, scalars) ==
    CASE callee = "mkArray" -> MkArrayType(scalars)
      [] callee = "reduce"  -> ReduceType(types[1])
      [] callee = "expand"  -> [ExpandType(types[1], scalars[1]) EXCEPT
                                   !.dimensions = types[1].dimensions \o scalars]
      [] callee = "concat"  -> ConcatType(types[1], types[2], scalars[1])
      [] OTHER              -> types[1]

(* The type of a call from those of its array arguments and its constants   *)
(* (all those of mkArray; the power, the size or the dimension).            *)
CallType(callee, types, scalars) ==
    CASE callee = "mkArray" -> MkArrayType(scalars)
      [] callee = "reduce"  -> ReduceType(types[1])
      [] callee = "expand"  -> ExpandType(types[1], scalars[1])
      [] callee = "concat"  -> ConcatType(types[1], types[2], scalars[1])
      [] OTHER              -> types[1]

-----------------------------------------------------------------------------
(* CallASTNode::codegen of "mkArray": one store for each value there is,    *)
(* whatever the cardinality.                                                *)
MkArrayStores(type, args) ==
    LET skipped == 1 + Len(type.dimensions)
    IN  {Store(i, <<Load(Constants, skipped + i)>>) : i \in 0..(Len(args) - skipped - 1)}

(* Of "reduce". *)
ReduceStores(type) ==
    {Store(i, [j \in 1..type.innermost_dimension |->
                  Load(1, i * type.innermost_dimension + (j - 1))]) :
        i \in 0..(Cells(type.dimensions) - 1)}

(* Faulty variant: the copies of a row are interleaved. *)
ExpandInterleaved(type) ==
    LET nth_dim == type.innermost_dimension
        n_plus_1 == Last(type.dimensions)
        prev_dims == Cells(SubSeq(type.dimensions, 1, Len(type.dimensions) - 2))
    IN  {Store(j * n_plus_1 * nth_dim + nth_dim * k + q, <<Load(1, j * n_plus_1 + k)>>) :
            k \in 0..(n_plus_1 - 1), j \in 0..(prev_dims - 1), q \in 0..(nth_dim - 1)}

(* Of "expand".  The outermost loop runs nth_dim * n_plus_1 times, and      *)
(* emits each store nth_dim times: the set has the distinct ones, and does  *)
(* not show that they are repeated.                                         *)
ExpandStores(type) ==
    LET nth_dim == type.innermost_dimension
        n_plus_1 == Last(type.dimensions)
        prev_dims == Cells(SubSeq(type.dimensions, 1, Len(type.dimensions) - 2))
    IN  {Store(j * n_plus_1 * nth_dim + n_plus_1 * q + (i \div nth_dim),
               <<Load(1, j * n_plus_1 + (i \div nth_dim))>>) :
            i \in 0..(nth_dim * n_plus_1 - 1), j \in 0..(prev_dims - 1), q \in 0..(nth_dim - 1)}

(* Of "concat", as the two loop nests, one for each argument. *)
ConcatStores(type) ==
    LET both == type.concat_dim1 + type.concat_dim2
        prev_dims == Cells(SubSeq(type.dimensions, 1, type.dim_to_concat))
        next_dims == Cells(SubSeq(type.dimensions, type.dim_to_concat + 2, Len(type.dimensions)))
        Copy(arg, length, offset) ==
            {Store(j * both * next_dims + offset * next_dims + i * next_dims + k,
                   <<Load(arg, j * length * next_dims + i * next_dims + k)>>) :
                i \in 0..(length - 1), j \in 0..(prev_dims - 1), k \in 0..(next_dims - 1)}
    IN  Copy(1, type.concat_dim1, 0) \cup Copy(2, type.concat_dim2, type.concat_dim1)

(* Of "neg", "add", "sub" and "exp": vector instructions, cell by cell (of  *)
(* what the loop of exp does to a cell see module Exp).                     *)
ElementwiseStores(type, args) ==
    {Store(n, [a \in 1..args |-> Load(a, n)]) : n \in 0..(Cells(type.dimensions) - 1)}

(* The length of the vector each argument is loaded as; an argument has to  *)
(* have been allocated with it.                                             *)
LoadedLengths(callee, type, args) ==
    LET size == Cells(type.dimensions)
    IN  CASE callee = "reduce" -> <<size * type.innermost_dimension>>
          [] callee = "expand" -> <<size \div type.innermost_dimension>>
          [] callee = "concat" ->
                LET both == type.concat_dim1 + type.concat_dim2
                IN  <<(size * type.concat_dim1) \div both, (size * type.concat_dim2) \div both>>
          [] OTHER             -> [a \in 1..args |-> size]

-----------------------------------------------------------------------------
Open    == <<"[">>
Close   == <<"]">>
Cell(n) == <<"cell", n>>

(* codegen_print_array: what the code generated for an array of these       *)
(* dimensions prints.                                                       *)
PrintArray(dims) ==
    LET last == Len(dims) - 1
        print[dim \in 0..last] == [prefix \in Nat |->
            <<Open>>
            \o FlattenSeq([i \in 1..dims[dim + 1] |->
                    IF dim = last
                    THEN <<Open, Cell(prefix + (i - 1)), Close>>
                    ELSE print[dim + 1][prefix + (i - 1) * Cells(SubSeq(dims, dim + 2, Len(dims)))]])
            \o <<Close>>]
    IN  print[0][0]
============================================================================
