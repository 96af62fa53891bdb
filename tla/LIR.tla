-------------------------------- MODULE LIR --------------------------------
(***************************************************************************)
(* The lowered IR (LIR.h) and its construction from an assignment and its  *)
(* merge lattice (lower, Lower.cpp).                                       *)
(*                                                                         *)
(* A statement is a record whose field `stmt' tells its class; a           *)
(* SequenceStmt is the sequence of its statements, and a SequenceStmt      *)
(* within one is printed, and run, as if it were spelled out.              *)
(***************************************************************************)
EXTENDS Lattice, Ascending

Dense      == "Dense"
Compressed == "Compressed"

(* access_to_array_level, with `dense' for the FormatMap. *)
ArrayLevel(x, dense) == [name |-> x, format |-> IF x \in dense THEN Dense ELSE Compressed]

ArrayLevels(names, dense) == [n \in DOMAIN names |-> ArrayLevel(names[n], dense)]

IsCompressed(a) == a.format = Compressed

(* Expressions: LIR::Add and LIR::Mul are the tokens of Expressions.        *)
ArrayAccess(a) == [op |-> "read", name |-> a.name, array |-> a]

(* convert_lir. *)
ConvertLIR(e, dense) ==
    [n \in DOMAIN e |-> IF e[n].op = "read" THEN ArrayAccess(ArrayLevel(e[n].name, dense)) ELSE e[n]]

(* Statements. *)
CompressedIndexDefinition(a)   == [stmt |-> "CompressedIndexDefinition", array |-> a]
LogicalIndexDefinition(iset)   == [stmt |-> "LogicalIndexDefinition", iterators |-> iset]
IteratorDefinition(iset)       == [stmt |-> "IteratorDefinition", iterators |-> iset]
ArrayAssignment(a, value)      == [stmt |-> "ArrayAssignment", array |-> a, value |-> value]
IncrementIterator(a, always)   == [stmt |-> "IncrementIterator", array |-> a, always |-> always]
IfStmt(conditions, bodies)     == [stmt |-> "IfStmt", conditions |-> conditions, bodies |-> bodies]
WhileStmt(condition, body)     == [stmt |-> "WhileStmt", condition |-> condition, body |-> body]

-----------------------------------------------------------------------------
(* The reads of e that are the first of their array. *)
FirstReads(e) ==
    {n \in DOMAIN e : e[n].op = "read" /\ \A m \in 1..(n - 1) : e[m] # e[n]}

(* Faulty variant: the written array is not visited. *)
GatherReadsOnly(p) ==
    LET first == InOrder(FirstReads(p.rhs), Len(p.rhs))
    IN  [n \in DOMAIN first |-> ArrayLevel(p.rhs[first[n]].name, p.dense)]

(* gather_iterator_set: the written array first, each array that is read    *)
(* once, in the order of the right-hand side.                               *)
GatherIteratorSet(p) ==
    LET first == InOrder({n \in FirstReads(p.rhs) : p.rhs[n].name # p.lhs}, Len(p.rhs))
    IN  <<ArrayLevel(p.lhs, p.dense)>>
            \o [n \in DOMAIN first |-> ArrayLevel(p.rhs[first[n]].name, p.dense)]

(* Faulty variant: the iterators that are read advance in the branch. *)
LowerBodyAdvances(p, e) ==
    LET reads == SelectSeq(e, LAMBDA t : t.op = "read" /\ t.name \notin p.dense)
    IN  <<ArrayAssignment(ArrayLevel(p.lhs, p.dense), ConvertLIR(e, p.dense))>>
            \o [n \in DOMAIN reads |-> IncrementIterator(ArrayLevel(reads[n].name, p.dense), TRUE)]

(* visit(ArrayAssignment) of lower. *)
LowerBody(p, e) == <<ArrayAssignment(ArrayLevel(p.lhs, p.dense), ConvertLIR(e, p.dense))>>

(* The compressed ones of the iterators of a point. *)
CompressedLevels(its, dense) ==
    LET kept == InOrder({n \in DOMAIN its : IsCompressed(ArrayLevel(its[n], dense))}, Len(its))
    IN  [n \in DOMAIN kept |-> ArrayLevel(its[kept[n]], dense)]

(* The x_i of the compressed iterators, then i. *)
LowerIndices(p, point) ==
    LET load(a) == CompressedIndexDefinition(a)
        levels  == CompressedLevels(point.iterators, p.dense)
    IN  [n \in DOMAIN levels |-> load(levels[n])]
            \o <<LogicalIndexDefinition(ArrayLevels(point.iterators, p.dense))>>

(* The points that are sub-points of a point and have a compressed iterator. *)
BranchPoints(p, point) ==
    {k \in DOMAIN p.points :
        Dominates(point, p.points[k]) /\ CompressedLevels(p.points[k].iterators, p.dense) # << >>}

(* Faulty variant: all the points give branches, not the sub-points only. *)
LowerBranchesOfAll(p, point) ==
    LET kept == InOrder({k \in DOMAIN p.points : CompressedLevels(p.points[k].iterators, p.dense) # << >>},
                        Len(p.points))
    IN  [n \in DOMAIN kept |-> p.points[kept[n]]]

(* get_sub_points, those of them with a compressed iterator. *)
LowerBranches(p, point) ==
    LET kept == InOrder(BranchPoints(p, point), Len(p.points))
    IN  [n \in DOMAIN kept |-> p.points[kept[n]]]

(* The if, or the whole assignment when there is no condition. *)
LowerChoice(p, point) ==
    LET branches == LowerBranches(p, point)
    IN  IF branches = << >>
        THEN LowerBody(p, p.rhs)
        ELSE <<IfStmt([n \in DOMAIN branches |-> CompressedLevels(branches[n].iterators, p.dense)],
                      [n \in DOMAIN branches |-> LowerBody(p, branches[n].expr)])>>

LowerIncrements(p, point) ==
    [n \in DOMAIN point.iterators |-> IncrementIterator(ArrayLevel(point.iterators[n], p.dense), FALSE)]

(* Faulty variant: the iterators are incremented before the if. *)
LowerPointIncrementsFirst(p, point) ==
    WhileStmt(ArrayLevels(point.iterators, p.dense),
              LowerIndices(p, point) \o LowerIncrements(p, point) \o LowerChoice(p, point))

(* The while loop of a point. *)
LowerPoint(p, point) ==
    WhileStmt(ArrayLevels(point.iterators, p.dense),
              LowerIndices(p, point) \o LowerChoice(p, point) \o LowerIncrements(p, point))

(* visit(ForAll) of lower: the code of the kernel. *)
Lower(p) ==
    <<IteratorDefinition(GatherIteratorSet(p))>>
        \o [k \in DOMAIN p.points |-> LowerPoint(p, p.points[k])]
============================================================================
