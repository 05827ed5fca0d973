-------------------------------- MODULE Sql ---------------------------------
(***************************************************************************)
(* A statement from its parse tree to its rows: the code generator         *)
(* (SelectCode) composed with the machine that runs what it generates      *)
(* (Vdbe), and what SQL says the rows are.                                 *)
(***************************************************************************)
EXTENDS SelectCode, Vdbe

CONSTANTS Databases,    \* a sequence of what the tables and indices may hold
          Queries       \* a sequence of [select, nTab]: a query and how many cursors it names

VARIABLE run            \* the numbers of the query and of the database

sqlVars == <<run, db, program, pc, aMem, apCsr, aOnceFlag, iCompare, aPermute, result, magic, resets>>

SqlInit ==
  /\ run \in [query : DOMAIN Queries, database : DOMAIN Databases] /\ db = Databases[run.database]
  /\ program = << >> /\ pc = 0 /\ aMem = << >> /\ apCsr = << >> /\ aOnceFlag = << >>
  /\ iCompare = 0 /\ aPermute = << >> /\ result = << >> /\ magic = "init" /\ resets = 0

\* What the code generator makes of a query: the planner may choose any of
\* the scans.
Compiled(q) ==
  {LET p == FinishCoding(coded.p) IN [code |-> resolveP2Values(p), nMem |-> p.nMem, nTab |-> p.nTab, nOnce |-> p.nOnce] :
     coded \in Select([NewParse EXCEPT !.nTab = q.nTab], ProcessJoin(q.select), Dest("Output", 0))}

Prepare ==
  /\ magic = "init"
  /\ \E p \in Compiled(Queries[run.query]) : MakeReady(p.code, p.nMem, p.nTab, p.nOnce)
  /\ UNCHANGED run

SqlStop == magic \in {"halt", "error"} /\ resets = MaxReset /\ UNCHANGED sqlVars
SqlNext == Prepare \/ (VdbeNext /\ UNCHANGED run) \/ SqlStop

\* The machine goes on by itself from a step to the next row.
SqlSpec == SqlInit /\ [][SqlNext]_sqlVars /\ WF_sqlVars(VdbeNext /\ magic = "run" /\ UNCHANGED run)

-----------------------------------------------------------------------------
(* The rows of a query, from its parse tree.  A point is what an           *)
(* expression is evaluated at: a row of every table, and the rows of the   *)
(* group.                                                                  *)

Ranked == <<0, Null, 1>>
Rank(x) == IF x = Null THEN 2 ELSE IF x = 0 THEN 1 ELSE 3
Lesser(x, y) == Ranked[IF Rank(x) < Rank(y) THEN Rank(x) ELSE Rank(y)]
Greater(x, y) == Ranked[IF Rank(x) > Rank(y) THEN Rank(x) ELSE Rank(y)]
Negation(x) == Ranked[4 - Rank(x)]
Compared(op, x, y) == IF x = Null \/ y = Null THEN Null
                      ELSE Bool(CASE op = "Eq" -> x = y [] op = "Ne" -> x # y [] op = "Lt" -> x < y
                                  [] op = "Le" -> x <= y [] op = "Gt" -> x > y [] op = "Ge" -> x >= y)
Aggregated(name, values) ==
  LET known == SelectSeq(values, LAMBDA v : v # Null)
      set == {known[i] : i \in DOMAIN known}
  IN  CASE name = "count" -> Len(known)
        [] name = "sum" -> IF known = << >> THEN Null ELSE FoldLeft(LAMBDA x, y : x + y, 0, known)
        [] name = "min" -> IF known = << >> THEN Null ELSE CHOOSE v \in set : \A u \in set : v <= u
        [] name = "max" -> IF known = << >> THEN Null ELSE CHOOSE v \in set : \A u \in set : v >= u
Distinct(seq) == FoldLeft(LAMBDA seen, x : IF \E i \in DOMAIN seen : seen[i] = x THEN seen ELSE Append(seen, x), << >>, seq)

RECURSIVE Value(_, _), CaseValue(_, _, _)
Value(e, at) ==
  LET L == Value(e.left, at)
      R == Value(e.right, at)
      V(i) == Value(e.list[i], at)
      row == at.env[e.iTable]
      args == [k \in DOMAIN at.group |-> IF e.list = << >> THEN 1
                                         ELSE Value(e.list[1], [env |-> at.group[k], group |-> << >>])]
  IN  CASE e.op = "Column" -> IF e.iColumn < 0 THEN row.k ELSE IF row.k = Null THEN Null ELSE row.d[e.iColumn + 1]
        [] e.op = "Integer" -> e.value
        [] e.op = "Null" -> Null
        [] e.op = "Uplus" -> L
        [] e.op = "Uminus" -> IF L = Null THEN Null ELSE -L
        [] e.op \in Comparisons -> Compared(e.op, L, R)
        [] e.op = "Is" -> Bool(L = R)
        [] e.op = "IsNot" -> Bool(L # R)
        [] e.op = "And" -> Lesser(L, R)
        [] e.op = "Or" -> Greater(L, R)
        [] e.op = "Not" -> Negation(L)
        [] e.op = "IsNull" -> Bool(L = Null)
        [] e.op = "NotNull" -> Bool(L # Null)
        [] e.op \in {"Add", "Subtract", "Multiply", "Divide", "Remainder"} -> Arithmetic(e.op, L, R)
        [] e.op = "Between" -> Lesser(Compared("Ge", L, V(1)), Compared("Le", L, V(2)))
        [] e.op = "In" -> FoldLeft(LAMBDA found, item : Greater(found, Compared("Eq", L, Value(item, at))), 0, e.list)
        [] e.op = "Coalesce" -> FoldLeft(LAMBDA x, item : IF x # Null THEN x ELSE Value(item, at), Null, e.list)
        [] e.op = "Function" -> IF \E i \in DOMAIN e.list : V(i) = Null THEN Null
                                ELSE Aggregated(e.value, [i \in DOMAIN e.list |-> V(i)])
        [] e.op = "Case" -> CaseValue(e, 1, at)
        [] e.op = "AggFunction" -> Aggregated(e.value, IF e.op2 = "distinct" THEN Distinct(args) ELSE args)
CaseValue(e, i, at) ==
  IF i > Len(e.list) THEN IF e.right = Null THEN Null ELSE Value(e.right, at)
  ELSE LET test == Value(e.list[i], at)
           holds == IF e.left = Null THEN test ELSE Compared("Eq", Value(e.left, at), test)
       IN  IF Truth(holds) THEN Value(e.list[i + 1], at) ELSE CaseValue(e, i + 2, at)

Holds(e, env) == e = Null \/ Truth(Value(e, [env |-> env, group |-> << >>]))
MaxCursor == Max({Queries[n].nTab : n \in DOMAIN Queries})
NullRow == [k |-> Null, d |-> << >>]

RECURSIVE Rows(_, _), Join(_, _, _, _)
\* Every combination of rows; a row without a partner on the right of a LEFT
\* JOIN gets a row of NULLs.
Join(data, from, i, env) ==
  IF i > Len(from) THEN <<env>>
  ELSE LET item == from[i]
           sub == Rows(data, item.select)
           source == IF item.select = Null THEN data[item.tab] ELSE [k \in DOMAIN sub |-> [k |-> k, d |-> sub[k].row]]
           With(row) == [env EXCEPT ![item.iCursor] = row]
           Joins(row) == /\ Holds(item.on, With(row))
                         /\ \A u \in {item.using[k] : k \in DOMAIN item.using} :
                              env[u.iTable].k # Null /\ env[u.iTable].d[u.iColumn + 1] = row.d[u.iRight + 1]
                              /\ row.d[u.iRight + 1] # Null
           kept == SelectSeq(source, Joins)
           rows == IF kept = << >> /\ item.left THEN <<NullRow>> ELSE kept
       IN  FlattenSeq([k \in DOMAIN rows |-> Join(data, from, i + 1, With(rows[k]))])

\* The rows of one SELECT, each with the values it is sorted by.
SimpleRows(data, s) ==
  LET envs == SelectSeq(Join(data, s.from, 1, [c \in 0 .. MaxCursor |-> NullRow]), LAMBDA env : Holds(s.where, env))
      Key(env) == [k \in DOMAIN s.groupBy |-> Value(s.groupBy[k], [env |-> env, group |-> << >>])]
      keys == Distinct([k \in DOMAIN envs |-> Key(envs[k])])
      groups == IF s.groupBy = << >> THEN <<envs>>
                ELSE [k \in DOMAIN keys |-> SelectSeq(envs, LAMBDA env : Key(env) = keys[k])]
      points == IF ~s.agg /\ s.groupBy = << >> THEN [k \in DOMAIN envs |-> [env |-> envs[k], group |-> << >>]]
                ELSE SelectSeq([k \in DOMAIN groups |->
                                  [env |-> IF groups[k] = << >> THEN Null ELSE groups[k][1], group |-> groups[k]]],
                               LAMBDA at : s.having = Null \/ Truth(Value(s.having, at)))
      Row(at) == [i \in DOMAIN s.list |-> Value(s.list[i], at)]
      Sorts(at) == [i \in DOMAIN s.orderBy |-> IF s.prior # Null THEN Null ELSE Value(s.orderBy[i].e, at)]
      rows == [k \in DOMAIN points |-> [row |-> Row(points[k]), key |-> Sorts(points[k])]]
  IN  IF s.distinct THEN Distinct(rows) ELSE rows

\* A compound query is sorted by columns of its result.
RECURSIVE Compound(_, _)
Compound(data, s) ==
  LET own == SimpleRows(data, s)
      right == [k \in DOMAIN own |-> own[k].row]
      left == IF s.prior = Null THEN << >> ELSE Compound(data, s.prior)
      In(seq, x) == \E k \in DOMAIN seq : seq[k] = x
  IN  IF s.prior = Null THEN right
      ELSE CASE s.op = "ALL" -> left \o right
             [] s.op = "UNION" -> Distinct(left \o right)
             [] s.op = "EXCEPT" -> Distinct(SelectSeq(left, LAMBDA x : ~In(right, x)))
             [] s.op = "INTERSECT" -> Distinct(SelectSeq(left, LAMBDA x : In(right, x)))

Constant(e, default) == IF e = Null THEN default ELSE Value(e, [env |-> << >>, group |-> << >>])
Skipped(s) == LET n == Constant(s.offset, 0) IN IF n < 0 THEN 0 ELSE n

\* All rows in the order of the ORDER BY clause.
Ordered(data, s) ==
  LET compound == Compound(data, s)
      all == IF s.prior = Null THEN SimpleRows(data, s)
             ELSE [k \in DOMAIN compound |-> [row |-> compound[k],
                     key |-> [i \in DOMAIN s.orderBy |-> compound[k][s.orderBy[i].col]]]]
      Before(x, y) == LET differ == {i \in DOMAIN x.key : x.key[i] # y.key[i]}
                          i == CHOOSE j \in differ : \A h \in differ : j <= h
                      IN  differ # {} /\ (MemCompare(x.key[i], y.key[i]) < 0) # s.orderBy[i].desc
  IN  SortSeq(all, Before)

\* How many rows the query has.
Taken(s, total) ==
  LET left == IF total > Skipped(s) THEN total - Skipped(s) ELSE 0
      n == Constant(s.limit, -1)
  IN  IF n >= 0 /\ n < left THEN n ELSE left
Rows(data, s) ==
  IF s = Null THEN << >>
  ELSE LET all == Ordered(data, s) IN SubSeq(all, Skipped(s) + 1, Skipped(s) + Taken(s, Len(all)))

-----------------------------------------------------------------------------
(* The properties. *)

\* The registers an instruction reads.
Reads(op) ==
  LET Vector(first, n) == first .. first + n - 1
  IN  CASE op.opcode \in {"Return", "Yield", "If", "IfNot", "IsNull", "NotNull", "Not", "AddImm", "MustBeInt",
                          "IfPos", "IfNeg", "IfZero", "Copy", "SCopy", "AggFinal"} -> {op.p1}
        [] op.opcode = "Move" -> Vector(op.p1, op.p3)
        [] op.opcode \in {"ResultRow", "MakeRecord"} -> Vector(op.p1, op.p2)
        [] op.opcode \in BinaryOps -> {op.p1, op.p2}
        [] op.opcode \in Comparisons \union {"RowSetTest"} -> {op.p1, op.p3}
        [] op.opcode = "Compare" -> Vector(op.p1, op.p3) \union Vector(op.p2, op.p3)
        [] op.opcode \in {"SeekLt", "SeekLe", "SeekGe", "SeekGt", "IdxLT", "IdxGE", "Found", "NotFound"} ->
             IF op.p4 \in {0, Null} THEN {op.p3} ELSE Vector(op.p3, op.p4)
        [] op.opcode = "NotExists" -> {op.p3}
        [] op.opcode \in {"Seek", "InsertInt", "IdxInsert", "SorterInsert"} -> {op.p2}
        [] op.opcode = "Insert" -> {op.p2, op.p3}
        [] op.opcode = "IdxDelete" -> Vector(op.p2, op.p3)
        [] op.opcode = "AggStep" -> Vector(op.p2, op.p1) \union {op.p3}
        [] op.opcode = "Function" -> Vector(op.p2, op.p1)
        [] OTHER -> {}

\* The assertions memIsValid of the machine: no instruction reads a register
\* that nothing was stored in since the program started, whatever path led to
\* it.
MemIsValid == magic = "run" => \A r \in Reads(O) : aMem[r] # Invalid

\* The assertions on cursors: an instruction finds its cursor open, and one
\* that reads a row finds the cursor on a row, or on the row of NULLs, or
\* with a seek put off.
CursorPlaced ==
  magic = "run" =>
    /\ O.opcode \in {"Column", "Rowid", "IdxRowid", "IdxLT", "IdxGE", "SorterData", "RowKey", "Delete", "Last",
                     "Rewind", "Sort", "SorterSort", "SeekLt", "SeekLe", "SeekGe", "SeekGt", "Seek", "Found",
                     "NotFound", "NotExists", "Sequence", "NewRowid", "Insert", "InsertInt", "NullRow",
                     "IdxInsert", "SorterInsert", "IdxDelete", "Count"} => Csr # Null
    /\ O.opcode \in {"Column", "Rowid"} => Csr.kind = "pseudo" \/ Csr.nullRow \/ Csr.deferred \/ Csr.pos # 0
    /\ O.opcode = "IdxRowid" => Csr.nullRow \/ Csr.pos # 0
    /\ O.opcode \in {"IdxLT", "IdxGE", "SorterData", "RowKey", "Delete"} => Csr.pos # 0

\* A statement that runs to its end has delivered the rows that SQL says: the
\* right ones, each as often as it should be, in the order of the ORDER BY
\* clause, and as many as LIMIT and OFFSET leave.
ResultOf(rows, s, all) ==
  LET skip == Skipped(s)
      Count(k) == Cardinality({i \in DOMAIN all : all[i].key = all[k].key /\ all[i].row = all[k].row})
      At1(k, i) == i + skip \in DOMAIN all /\ all[i + skip].key = all[k].key /\ rows[i] = all[k].row
  IN  /\ Len(rows) = Taken(s, Len(all))
      /\ \A i \in DOMAIN rows : \E k \in DOMAIN all : At1(k, i)
      /\ \A k \in DOMAIN all : Cardinality({i \in DOMAIN rows : At1(k, i)}) <= Count(k)
ResultExact ==
  [][magic' = "halt" =>
       ResultOf(result', Queries[run.query].select, Ordered(Databases[run.database], Queries[run.query].select))]_sqlVars

\* Only a limit that is no integer makes a query fail.
FailsOnlyOnLimit ==
  [][magic' = "error" => \/ Constant(Queries[run.query].select.limit, 0) = Null
                         \/ Constant(Queries[run.query].select.offset, 0) = Null]_sqlVars

\* sqlite3_step returns: the machine reaches a row, the end or an error.
StepReturns == magic = "run" ~> magic \in {"row", "halt", "error"}

\* No generated program makes the machine read a register or a row that is not
\* there.
MachineSound == MemIsValid /\ CursorPlaced

\* A statement that is stepped to its end returns its rows, and no other ending is
\* possible.
StatementExact == ResultExact /\ FailsOnlyOnLimit /\ StepReturns
=============================================================================
