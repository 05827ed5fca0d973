----------------------------- MODULE SelectCode -----------------------------
(***************************************************************************)
(* The code for a SELECT (select.go): the inner loop and its destinations, *)
(* sorting, LIMIT and OFFSET, DISTINCT, compound queries by transient      *)
(* tables and by coroutines, subqueries in the FROM clause, flattened or   *)
(* materialized, and aggregates.                                           *)
(*                                                                         *)
(* A Select is a record as selectExpander and resolve.go leave it: list,   *)
(* from (items of WhereCode with the field select), where, groupBy,        *)
(* having, orderBy, limit, offset, distinct, agg, prior, op, iLimit,       *)
(* iOffset, and compound: is it one of several (pRightmost)?  A term of    *)
(* orderBy is [e, desc, col]; col is the number of the result column it    *)
(* stands for, or 0.  A destination is [eDest, iParm, iMem].  The register *)
(* numbers that a routine leaves in its arguments are part of its result.  *)
(***************************************************************************)
EXTENDS WhereCode

CONSTANT nCol      \* how many columns every table has

-----------------------------------------------------------------------------
(* The conditions of joins become terms of the WHERE clause.  An item of   *)
(* the FROM clause has the expression of its ON clause, or Null, and for   *)
(* every column of its USING clause the cursor and the column on the left  *)
(* and the column on the right.                                            *)

RECURSIVE setJoinExpr(_, _)
setJoinExpr(e, iTable) ==
  IF e = Null THEN Null
  ELSE [e EXCEPT !.join = TRUE, !.iRightJoinTable = iTable,
                 !.left = setJoinExpr(@, iTable), !.right = setJoinExpr(@, iTable)]

ColumnExpr(iTable, iColumn) ==
  [op |-> "Column", op2 |-> "", left |-> Null, right |-> Null, list |-> << >>, iTable |-> iTable,
   iColumn |-> iColumn, value |-> 0, join |-> FALSE, iRightJoinTable |-> -1, fixed |-> FALSE, agg |-> FALSE]

addWhereTerm(where, u, item) ==
  LET eq == [ColumnExpr(0, 0) EXCEPT !.op = "Eq", !.left = ColumnExpr(u.iTable, u.iColumn),
                                     !.right = ColumnExpr(item.iCursor, u.iRight)]
  IN  ExprAnd(where, IF item.left THEN [eq EXCEPT !.join = TRUE, !.iRightJoinTable = item.iCursor] ELSE eq)

RECURSIVE JoinTerms(_, _, _)
JoinTerms(from, i, where) ==
  IF i > Len(from) THEN where
  ELSE LET item == from[i]
           on == IF item.left THEN setJoinExpr(item.on, item.iCursor) ELSE item.on
       IN  JoinTerms(from, i + 1, FoldLeft(LAMBDA w, u : addWhereTerm(w, u, item), ExprAnd(where, on), item.using))

\* selectExpander: the subqueries are processed the same way.
RECURSIVE ProcessJoin(_)
ProcessJoin(s) ==
  IF s = Null THEN Null
  ELSE [s EXCEPT !.where = JoinTerms(s.from, 2, @), !.prior = ProcessJoin(@),
                 !.from = [i \in DOMAIN @ |-> [@[i] EXCEPT !.select = ProcessJoin(@)]]]

-----------------------------------------------------------------------------
(* One row of the result. *)

Dest(eDest, iParm) == [eDest |-> eDest, iParm |-> iParm, iMem |-> 0]
Exprs(orderBy) == [i \in DOMAIN orderBy |-> orderBy[i].e]
Ascending(n) == [i \in 1 .. n |-> FALSE]
keyInfoFromExprList(orderBy) == [i \in DOMAIN orderBy |-> orderBy[i].desc]

\* The sorter keeps no more than LIMIT+OFFSET rows: the last one makes room.
MakeRoom(p, sort, reg) ==
  LET zero == AddOp1(p, "IfZero", reg)
      room == AddOp2(AddOp2(zero, "AddImm", reg, -1), "Goto", 0, 0)
      full == AddOp1(AddOp1(JumpHere(room, zero.r), "Last", sort.iECursor), "Delete", sort.iECursor)
  IN  JumpHere(full, room.r)
LimitSorter(p, s, sort) ==
  IF s.iLimit = 0 THEN p ELSE MakeRoom(p, sort, IF s.iOffset # 0 THEN s.iOffset + 1 ELSE s.iLimit)
pushOntoSorter(p, s, sort, regData) ==
  LET n == Len(sort.orderBy)
      base == GetTempRange(p, n + 2)
      rec == GetTempReg(base)
      a == AddOp2(ExprCodeExprList(rec, Exprs(sort.orderBy), base.r, FALSE),
                  "Sequence", sort.iECursor, base.r + n)
      b == AddOp3(ExprCodeMove(a, regData, base.r + n + 1, 1), "MakeRecord", base.r, n + 2, rec.r)
      c == AddOp2(b, IF sort.useSorter THEN "SorterInsert" ELSE "IdxInsert", sort.iECursor, rec.r)
  IN  LimitSorter(ReleaseTempRange(ReleaseTempReg(c, rec.r), base.r, n + 2), s, sort)

codeOffset(p, s, iContinue) ==
  LET a == AddOp1(AddOp2(p, "AddImm", s.iOffset, -1), "IfNeg", s.iOffset)
  IN  IF s.iOffset = 0 \/ iContinue = 0 THEN p
      ELSE JumpHere(AddOp2(a, "Goto", 0, iContinue), a.r)

codeDistinct(p, iTab, addrRepeat, n, iMem) ==
  LET r1 == GetTempReg(p)
      a == AddOp3(AddOp4(r1, "Found", iTab, addrRepeat, iMem, n), "MakeRecord", iMem, n, r1.r)
  IN  ReleaseTempReg(AddOp2(a, "IdxInsert", iTab, r1.r), r1.r)

InsertRow(p, iTab, record) ==
  LET r2 == GetTempReg(p)
  IN  ReleaseTempReg(AddOp3(AddOp2(r2, "NewRowid", iTab, r2.r), "Insert", iTab, record, r2.r), r2.r)

RECURSIVE ReadColumns(_, _, _, _, _)
ReadColumns(p, iTab, i, n, to) ==
  IF i = n THEN p ELSE ReadColumns(AddOp3(p, "Column", iTab, i, to + i), iTab, i + 1, n, to)

\* Where the row in the registers from reg on goes.
Deliver(p, s, sort, dest, reg, n) ==
  LET r1 == GetTempReg(p)
      rec == AddOp3(r1, "MakeRecord", reg, n, r1.r)
  IN  CASE dest.eDest = "Union" -> ReleaseTempReg(AddOp2(rec, "IdxInsert", dest.iParm, r1.r), r1.r)
        [] dest.eDest = "Except" -> AddOp3(p, "IdxDelete", dest.iParm, reg, n)
        [] dest.eDest \notin {"Union", "Except"} /\ sort.orderBy # << >> ->
             ReleaseTempReg(pushOntoSorter(rec, s, sort, r1.r), r1.r)
        [] dest.eDest \in {"Table", "EphemTab"} /\ sort.orderBy = << >> ->
             ReleaseTempReg(InsertRow(rec, dest.iParm, r1.r), r1.r)
        [] dest.eDest = "Coroutine" /\ sort.orderBy = << >> -> AddOp1(p, "Yield", dest.iParm)
        [] dest.eDest = "Output" /\ sort.orderBy = << >> -> AddOp2(p, "ResultRow", reg, n)

\* The row is computed from the list, or read from cursor srcTab unless that
\* is -1.  The register of its first column is returned.
LimitRow(p, s, sort, reg, iBreak) ==
  [IF sort.orderBy = << >> /\ s.iLimit # 0 THEN AddOp3(p, "IfZero", s.iLimit, iBreak, -1) ELSE p
   EXCEPT !.r = reg]
DistinctRow(p, s, sort, distinct, iContinue, reg, n) ==
  LET a == IF distinct < 0 THEN p ELSE codeDistinct(p, distinct, iContinue, n, reg)
  IN  IF distinct >= 0 /\ sort.orderBy = << >> THEN codeOffset(a, s, iContinue) ELSE a
\* The columns go into the registers from p.r on.
DeliverRow(p, s, list, srcTab, sort, distinct, dest, iContinue, iBreak) ==
  LET n == Len(list)
      a == IF srcTab >= 0 THEN ReadColumns(p, srcTab, 0, n, p.r)
           ELSE ExprCodeExprList(p, list, p.r, dest.eDest = "Output")
  IN  LimitRow(Deliver(DistinctRow(a, s, sort, distinct, iContinue, p.r, n), s, sort, dest, p.r, n),
               s, sort, p.r, iBreak)
selectInnerLoop(p, s, list, srcTab, sort, distinct, dest, iContinue, iBreak) ==
  LET a == IF sort.orderBy = << >> /\ distinct < 0 THEN codeOffset(p, s, iContinue) ELSE p
      b == IF dest.iMem = 0 THEN NewRegs(a, Len(list)) ELSE [a EXCEPT !.r = dest.iMem]
  IN  DeliverRow(b, s, list, srcTab, sort, distinct, dest, iContinue, iBreak)

Unsorted == [orderBy |-> << >>, iECursor |-> -1, useSorter |-> FALSE]

-----------------------------------------------------------------------------
(* Sorting and limits. *)

RECURSIVE ReadPseudo(_, _, _, _, _)
ReadPseudo(p, iTab, i, n, to) ==
  IF i = n THEN p
  ELSE LET a == AddOp3(p, "Column", iTab, i, to + i)
       IN  ReadPseudo(IF i = 0 THEN ChangeP5(a, {"CLEARCACHE"}) ELSE a, iTab, i + 1, n, to)

\* The loop over the sorted rows.
ReadSorted(p, sort, tab2, out, row) ==
  LET n == Len(sort.orderBy)
  IN  IF sort.useSorter
      THEN ChangeP5(AddOp3(AddOp2(p, "SorterData", sort.iECursor, out), "Column", tab2, n + 1, row),
                    {"CLEARCACHE"})
      ELSE AddOp3(p, "Column", sort.iECursor, n + 1, row)
\* The row goes to its destination; x holds the registers and cursors.
DeliverSorted(p, x, nColumn, dest) ==
  LET read == ReadPseudo(p, x.pseudo, 0, nColumn, dest.iMem)
  IN  CASE dest.eDest = "Output" -> ReleaseTempReg(AddOp2(read, "ResultRow", dest.iMem, nColumn), x.row)
        [] dest.eDest = "Coroutine" -> ReleaseTempReg(AddOp1(read, "Yield", dest.iParm), x.row)
        [] OTHER -> ReleaseTempReg(ReleaseTempReg(AddOp3(AddOp2(p, "NewRowid", dest.iParm, x.rowid),
                                                         "Insert", dest.iParm, x.row, x.rowid), x.row), x.rowid)
SortedLoop(p, s, sort, x, nColumn, dest) ==
  LET top == AddOp2(p, IF sort.useSorter THEN "SorterSort" ELSE "Sort", sort.iECursor, x.brk)
      a == ReadSorted(codeOffset(top, s, x.cont), sort, x.tab2, x.out, x.row)
      b == ResolveLabel(DeliverSorted(a, x, nColumn, dest), x.cont)
      c == ResolveLabel(AddOp2(b, IF sort.useSorter THEN "SorterNext" ELSE "Next", sort.iECursor, top.r + 1), x.brk)
  IN  IF dest.eDest \in {"Output", "Coroutine"} THEN AddOp2(c, "Close", x.pseudo, 0) ELSE c
OpenSorted(p, s, sort, x, nColumn, dest) ==
  LET out == NewReg(p)
      tab2 == NewTab(out)
  IN  IF sort.useSorter
      THEN SortedLoop(AddOp3(tab2, "OpenPseudo", tab2.r, out.r, Len(sort.orderBy) + 2), s, sort,
                      [x EXCEPT !.out = out.r, !.tab2 = tab2.r], nColumn, dest)
      ELSE SortedLoop(p, s, sort, x, nColumn, dest)
generateSortTail(p, s, sort, nColumn, dest) ==
  LET brk == MakeLabel(p)
      cont == MakeLabel(brk)
      row == GetTempReg(cont)
      direct == dest.eDest \in {"Output", "Coroutine"}
      pseudo == NewTab(row)
      rowid == GetTempReg(row)
      x == [brk |-> brk.r, cont |-> cont.r, row |-> row.r, rowid |-> IF direct THEN 0 ELSE rowid.r,
            pseudo |-> pseudo.r, out |-> 0, tab2 |-> 0]
  IN  OpenSorted(IF direct THEN AddOp3(pseudo, "OpenPseudo", pseudo.r, row.r, nColumn) ELSE rowid,
                 s, sort, x, nColumn, dest)

\* The counters for LIMIT, OFFSET and their sum, unless a limit is given.
LimitCounter(p, s, reg, iBreak) ==
  LET n == ExprIsInteger(s.limit)
      const == AddOp2(p, "Integer", n, reg)
  IN  IF n # Null THEN (IF n = 0 THEN AddOp2(const, "Goto", 0, iBreak) ELSE const)
      ELSE AddOp2(AddOp1(ExprCode(p, s.limit, reg), "MustBeInt", reg), "IfZero", reg, iBreak)
\* The register behind the one of the offset is for the sum.
SumCounter(p, lim, off) ==
  LET pos == AddOp1(AddOp1(p, "MustBeInt", off), "IfPos", off)
      sum == AddOp3(JumpHere(AddOp2(pos, "Integer", 0, off), pos.r), "Add", lim, off, off + 1)
      neg == AddOp1(sum, "IfPos", lim)
  IN  JumpHere(AddOp2(neg, "Integer", -1, off + 1), neg.r)
OffsetCounter(p, s, lim) ==
  LET off == NewRegs(p, 2)
  IN  IF s.offset = Null THEN [p |-> p, s |-> [s EXCEPT !.iLimit = lim]]
      ELSE [p |-> SumCounter(ExprCode(off, s.offset, off.r), lim, off.r),
            s |-> [s EXCEPT !.iLimit = lim, !.iOffset = off.r]]
computeLimitRegisters(p, s, iBreak) ==
  LET lim == NewReg(p)
  IN  IF s.iLimit # 0 \/ s.limit = Null THEN [p |-> p, s |-> s]
      ELSE OffsetCounter(LimitCounter(lim, s, lim.r, iBreak), s, lim.r)

-----------------------------------------------------------------------------
(* Subqueries that become part of the query around them. *)

RECURSIVE substExpr(_, _, _)
substExprList(list, iTable, by) == [i \in DOMAIN list |-> substExpr(list[i], iTable, by)]
substExpr(e, iTable, by) ==
  IF e = Null THEN Null
  ELSE IF e.op = "Column" /\ e.iTable = iTable
  THEN IF e.iColumn < 0 THEN [e EXCEPT !.op = "Null"] ELSE by[e.iColumn + 1]
  ELSE [e EXCEPT !.left = substExpr(@, iTable, by), !.right = substExpr(@, iTable, by),
                 !.list = substExprList(@, iTable, by)]

\* The simple queries of a compound one, from right to left.
RECURSIVE Arms(_)
Arms(s) == IF s = Null THEN << >> ELSE <<s>> \o Arms(s.prior)

mayFlatten(s, i) ==
  LET sub == s.from[i].select
      arms == Arms(sub)
  IN  /\ ~(s.agg /\ sub.agg)
      /\ ~(sub.agg /\ Len(s.from) > 1)
      /\ ~(sub.limit # Null /\ s.limit # Null)
      /\ sub.offset = Null
      /\ ~(s.compound /\ sub.limit # Null)
      /\ sub.from # << >>
      /\ ~sub.distinct
      /\ ~(sub.limit # Null /\ (Len(s.from) > 1 \/ s.agg))
      /\ ~(s.distinct /\ sub.agg)
      /\ ~(s.orderBy # << >> /\ sub.orderBy # << >>)
      /\ ~(s.agg /\ sub.orderBy # << >>)
      /\ ~(sub.limit # Null /\ s.where # Null)
      /\ ~(sub.limit # Null /\ s.distinct)
      /\ ~s.from[i].left
      /\ sub.prior # Null =>
           /\ sub.orderBy = << >> /\ ~s.agg /\ ~s.distinct /\ Len(s.from) = 1
           /\ \A k \in DOMAIN arms : /\ ~arms[k].distinct /\ ~arms[k].agg /\ arms[k].from # << >>
                                     /\ arms[k].prior # Null => arms[k].op = "ALL"
           /\ \A k \in DOMAIN s.orderBy : s.orderBy[k].col # 0

\* The query with the FROM clause of sub in the place of item i.
Absorb(s, i, sub) ==
  LET iParent == s.from[i].iCursor
      E(e) == substExpr(e, iParent, sub.list)
      items == [k \in DOMAIN sub.from |-> IF k = 1 THEN [sub.from[1] EXCEPT !.left = s.from[i].left]
                                          ELSE sub.from[k]]
      order == [k \in DOMAIN s.orderBy |-> [s.orderBy[k] EXCEPT !.e = E(@)]]
  IN  [s EXCEPT
         !.from = SubSeq(@, 1, i - 1) \o items \o SubSeq(@, i + 1, Len(@)),
         !.list = substExprList(@, iParent, sub.list),
         !.orderBy = IF sub.orderBy # << >> THEN sub.orderBy ELSE order,
         !.groupBy = IF sub.agg THEN sub.groupBy
                     ELSE IF s.agg THEN substExprList(@, iParent, sub.list) ELSE @,
         !.having = IF sub.agg THEN ExprAnd(E(s.where), sub.having) ELSE IF s.agg THEN E(@) ELSE @,
         !.where = IF sub.agg THEN sub.where ELSE ExprAnd(E(@), sub.where),
         !.agg = @ \/ sub.agg,
         !.distinct = @ \/ sub.distinct,
         !.limit = IF sub.limit # Null THEN sub.limit ELSE @]

\* A compound subquery makes the query a compound one too: one copy of it for
\* every simple query of the subquery.
RECURSIVE AbsorbArms(_, _, _, _)
AbsorbArms(s, i, arms, k) ==
  IF k > Len(arms) THEN Null
  ELSE LET copy == IF k = 1 THEN s ELSE [s EXCEPT !.orderBy = << >>, !.limit = Null]
       IN  [Absorb(copy, i, arms[k]) EXCEPT !.prior = AbsorbArms(s, i, arms, k + 1), !.op = "ALL"]
flattenSubquery(s, i) == AbsorbArms(s, i, Arms(s.from[i].select), 1)

-----------------------------------------------------------------------------
(* Aggregates.  ai is the AggInfo: the columns that are read (cols), the   *)
(* functions (funcs), how many of the columns have a value of their own in *)
(* the result (nAccumulator), and the GROUP BY clause.  A column outside   *)
(* the GROUP BY clause gets the number of the field behind its own in the  *)
(* record of the sorter.                                                   *)

SameColumn(x, y) == x.iTable = y.iTable /\ x.iColumn = y.iColumn

RECURSIVE analyzeAggregate(_, _, _), ExprAnalyzeAggList(_, _, _, _)
analyzeAggregate(a, e, inFunc) ==
  CASE e = Null -> a
    [] e # Null /\ e.op = "Column" ->
         LET key == {j \in DOMAIN a.ai.groupBy : a.ai.groupBy[j].op = "Column" /\ SameColumn(a.ai.groupBy[j], e)}
             b == NewReg(a.p)
             field == IF key = {} THEN a.ai.nSortingColumn + 1
                      ELSE (CHOOSE j \in key : \A k \in key : j <= k) - 1
         IN  IF \E k \in DOMAIN a.ai.cols : SameColumn(a.ai.cols[k].e, e) THEN a
             ELSE [p |-> b, ai |-> [a.ai EXCEPT
                     !.cols = Append(@, [e |-> e, iMem |-> b.r, iSorterColumn |-> field]),
                     !.nSortingColumn = IF key = {} THEN @ + 1 ELSE @]]
    [] e # Null /\ e.op = "AggFunction" ->
         LET b == NewReg(a.p)
             c == NewTab(b)
             distinct == e.op2 = "distinct"
         IN  IF inFunc \/ \E k \in DOMAIN a.ai.funcs : a.ai.funcs[k].e = e THEN a
             ELSE [p |-> IF distinct THEN c ELSE b, ai |-> [a.ai EXCEPT
                     !.funcs = Append(@, [e |-> e, iMem |-> b.r, iDistinct |-> IF distinct THEN c.r ELSE -1])]]
    [] e # Null /\ e.op \notin {"Column", "AggFunction"} ->
         ExprAnalyzeAggList(analyzeAggregate(analyzeAggregate(a, e.left, inFunc), e.right, inFunc),
                            e.list, 1, inFunc)
ExprAnalyzeAggList(a, list, i, inFunc) ==
  IF i > Len(list) THEN a
  ELSE ExprAnalyzeAggList(analyzeAggregate(a, list[i], inFunc), list, i + 1, inFunc)

\* The analysis that sqlite3Select makes of an aggregate query.
RECURSIVE AnalyzeArguments(_, _)
AnalyzeArguments(a, k) ==
  IF k > Len(a.ai.funcs) THEN a
  ELSE AnalyzeArguments(ExprAnalyzeAggList(a, a.ai.funcs[k].e.list, 1, TRUE), k + 1)
CountAccumulators(a) == AnalyzeArguments([a EXCEPT !.ai.nAccumulator = Len(a.ai.cols)], 1)
AnalyzeSelect(p, s) ==
  LET n == Len(s.groupBy)
      ai == [cols |-> << >>, funcs |-> << >>, nAccumulator |-> 0, groupBy |-> s.groupBy,
             nSortingColumn |-> IF n = 0 THEN 0 ELSE n + 1]
      a == ExprAnalyzeAggList([p |-> p, ai |-> ai], s.list, 1, FALSE)
  IN  CountAccumulators(analyzeAggregate(ExprAnalyzeAggList(a, Exprs(s.orderBy), 1, FALSE), s.having, FALSE))

\* An expression whose columns and functions are read from the accumulators.
RECURSIVE Accumulated(_, _)
Accumulated(ai, e) ==
  IF e = Null THEN Null
  ELSE IF e.op = "Column"
  THEN LET k == CHOOSE j \in DOMAIN ai.cols : SameColumn(ai.cols[j].e, e)
       IN  [e EXCEPT !.op = "AggColumn", !.value = "accumulated", !.iTable = ai.cols[k].iMem]
  ELSE IF e.op = "AggFunction"
  THEN LET k == CHOOSE j \in DOMAIN ai.funcs : ai.funcs[j].e = e
       IN  [e EXCEPT !.iTable = ai.funcs[k].iMem]
  ELSE [e EXCEPT !.left = Accumulated(ai, @), !.right = Accumulated(ai, @),
                 !.list = [i \in DOMAIN @ |-> Accumulated(ai, @[i])]]

\* directMode: columns are read from their table, or from the record of the
\* sorter when sortPTab is its cursor and not -1.
RECURSIVE Direct(_, _, _)
Direct(ai, e, sortPTab) ==
  IF e = Null THEN Null
  ELSE IF e.op = "Column" /\ sortPTab >= 0
  THEN LET k == CHOOSE j \in DOMAIN ai.cols : SameColumn(ai.cols[j].e, e)
       IN  [e EXCEPT !.op = "AggColumn", !.value = "direct", !.iTable = sortPTab,
                     !.iColumn = ai.cols[k].iSorterColumn]
  ELSE [e EXCEPT !.left = Direct(ai, @, sortPTab), !.right = Direct(ai, @, sortPTab),
                 !.list = [i \in DOMAIN @ |-> Direct(ai, @[i], sortPTab)]]

RECURSIVE ResetColumns(_, _, _), ResetFuncs(_, _, _)
ResetColumns(p, cols, i) ==
  IF i > Len(cols) THEN p ELSE ResetColumns(AddOp2(p, "Null", 0, cols[i].iMem), cols, i + 1)
ResetFuncs(p, funcs, i) ==
  IF i > Len(funcs) THEN p
  ELSE LET a == AddOp2(p, "Null", 0, funcs[i].iMem)
       IN  ResetFuncs(IF funcs[i].iDistinct < 0 THEN a
                      ELSE AddOp4(a, "OpenEphemeral", funcs[i].iDistinct, 0, 0, <<FALSE>>), funcs, i + 1)
\* Mutant: the accumulators of the functions are not set to NULL.
MutResetColumnsOnly(p, ai) == ResetColumns(p, ai.cols, 1)
resetAccumulator(p, ai) == ResetFuncs(ResetColumns(p, ai.cols, 1), ai.funcs, 1)

RECURSIVE FinalizeFuncs(_, _, _)
FinalizeFuncs(p, funcs, i) ==
  IF i > Len(funcs) THEN p
  ELSE FinalizeFuncs(AddOp4(p, "AggFinal", funcs[i].iMem, Len(funcs[i].e.list), 0, funcs[i].e.value),
                     funcs, i + 1)
finalizeAggFunctions(p, ai) == FinalizeFuncs(p, ai.funcs, 1)

\* One step of every function.  min() and max() tell in register regHit that
\* the row is not the one whose columns are wanted.
StepFunc(p, f, reg, next) ==
  LET a == ReleaseTempRange(AddOp4(IF f.e.value \in {"min", "max"} THEN AddOp1(p, "CollSeq", p.r) ELSE p,
                                   "AggStep", Len(f.e.list), reg, f.iMem, f.e.value), reg, Len(f.e.list))
  IN  [IF f.iDistinct < 0 THEN a ELSE ResolveLabel(a, next) EXCEPT !.r = p.r]
HitRegister(p, ai, f, regHit) ==
  IF f.e.value \in {"min", "max"} /\ regHit = 0 /\ ai.nAccumulator > 0 THEN NewReg(p)
  ELSE [p EXCEPT !.r = regHit]
StepDistinct(p, ai, f, reg, regHit) ==
  LET next == MakeLabel(p)
  IN  StepFunc(HitRegister(IF f.iDistinct < 0 THEN p ELSE codeDistinct(next, f.iDistinct, next.r, 1, reg),
                           ai, f, regHit), f, reg, next.r)
StepArguments(p, ai, f, regHit, sortPTab) ==
  StepDistinct(ExprCodeExprList(p, [k \in DOMAIN f.e.list |-> Direct(ai, f.e.list[k], sortPTab)], p.r, TRUE),
               ai, f, p.r, regHit)

RECURSIVE StepFuncs(_, _, _, _), TakeColumns(_, _, _, _)
StepFuncs(p, ai, i, sortPTab) ==
  IF i > Len(ai.funcs) THEN p
  ELSE StepFuncs(StepArguments(IF ai.funcs[i].e.list = << >> THEN [p EXCEPT !.r = 0]
                               ELSE GetTempRange(p, Len(ai.funcs[i].e.list)),
                               ai, ai.funcs[i], p.r, sortPTab), ai, i + 1, sortPTab)
TakeColumns(p, ai, i, sortPTab) ==
  IF i > ai.nAccumulator THEN p
  ELSE TakeColumns(ExprCode(p, Direct(ai, ai.cols[i].e, sortPTab), ai.cols[i].iMem), ai, i + 1, sortPTab)
TakeHit(p, ai, sortPTab) ==
  IF p.r = 0 THEN TakeColumns(p, ai, 1, sortPTab)
  ELSE JumpHere(TakeColumns(AddOp1(p, "If", p.r), ai, 1, sortPTab), CurrentAddr(p))
updateAccumulator(p, ai, sortPTab) ==
  TakeHit(StepFuncs([p EXCEPT !.r = 0], ai, 1, sortPTab), ai, sortPTab)
-----------------------------------------------------------------------------
(* Compound queries.  The result of coding a query is a set of records:    *)
(* the program, the first register of the rows (iMem), and the registers   *)
(* of the limit.                                                           *)

RECURSIVE Select(_, _, _)

Coded(p, iMem, s) == [p |-> p, iMem |-> iMem, iLimit |-> s.iLimit, iOffset |-> s.iOffset]
Alone(s) == [s EXCEPT !.prior = Null, !.limit = Null, !.offset = Null]

\* UNION ALL: one after the other, with one limit for both.
CompoundAll(p, s, dest) ==
  LET Second(a) ==
        LET q == IF a.iLimit = 0 THEN a.p ELSE AddOp1(a.p, "IfZero", a.iLimit)
        IN  {[b EXCEPT !.p = IF a.iLimit = 0 THEN @ ELSE JumpHere(@, q.r)] :
               b \in Select(q, [Alone(s) EXCEPT !.iLimit = a.iLimit, !.iOffset = a.iOffset],
                            [dest EXCEPT !.iMem = a.iMem])}
  IN  UNION {Second(a) : a \in Select(p, [s.prior EXCEPT !.limit = s.limit, !.offset = s.offset], dest)}

\* The rows of the transient index tab, those only that filter lets through.
CopyEnd(p, s, iMem, tab, filter) ==
  Coded(AddOp2(IF filter < 0 THEN p ELSE AddOp2(p, "Close", filter, 0), "Close", tab, 0), iMem, s)
CopyNext(p, s, tab, filter, top, brk, cont) ==
  CopyEnd(ResolveLabel(AddOp2(ResolveLabel(p, cont), "Next", tab, top), brk), s, p.r, tab, filter)
CopyFilter(p, tab, filter, cont) ==
  LET r1 == GetTempReg(p)
  IN  ReleaseTempReg(AddOp4(AddOp2(r1, "RowKey", tab, r1.r), "NotFound", filter, cont, r1.r, 0), r1.r)
CopyRows(p, s, dest, tab, filter, brk, cont) ==
  CopyNext(selectInnerLoop(IF filter < 0 THEN p ELSE CopyFilter(p, tab, filter, cont),
                           s, s.list, tab, Unsorted, -1, dest, cont, brk),
           s, tab, filter, CurrentAddr(p), brk, cont)
CopyLimited(l, dest, tab, filter, brk, cont) ==
  CopyRows(AddOp2(l.p, "Rewind", tab, brk), l.s, dest, tab, filter, brk, cont)
CopyOut(p, s, dest, tab, filter) ==
  LET brk == MakeLabel(p)
      cont == MakeLabel(brk)
  IN  CopyLimited(computeLimitRegisters(cont, s, brk.r), dest, tab, filter, brk.r, cont.r)

\* UNION and EXCEPT: the rows are put into, or removed from, one index, which
\* a query to the right may provide.
CompoundUnion(p, s, dest) ==
  LET n == Len(s.list)
      reuse == dest.eDest = "Union" /\ s.limit = Null /\ s.offset = Null
      t == NewTab(p)
      tab == IF reuse THEN dest.iParm ELSE t.r
      a == IF reuse THEN p ELSE AddOp4(t, "OpenEphemeral", tab, n, 0, Ascending(n))
      self == IF s.op = "EXCEPT" THEN "Except" ELSE "Union"
      Finish(q) == IF dest.eDest = "Union" THEN Coded(q, dest.iMem, [s EXCEPT !.iLimit = 0, !.iOffset = 0])
                   ELSE CopyOut(q, [s EXCEPT !.iLimit = 0, !.iOffset = 0], dest, tab, -1)
  IN  UNION {{Finish(c.p) : c \in Select(b.p, Alone(s), [eDest |-> self, iParm |-> tab, iMem |-> b.iMem])} :
               b \in Select(a, s.prior, Dest("Union", tab))}

CompoundIntersect(p, s, dest) ==
  LET n == Len(s.list)
      t1 == NewTab(p)
      t2 == NewTab(t1)
      a == AddOp4(t2, "OpenEphemeral", t1.r, n, 0, Ascending(n))
      Open2(q) == AddOp4(q, "OpenEphemeral", t2.r, n, 0, Ascending(n))
  IN  UNION {{CopyOut(c.p, s, dest, t1.r, t2.r) :
                c \in Select(Open2(b.p), Alone(s), [eDest |-> "Union", iParm |-> t2.r, iMem |-> b.iMem])} :
               b \in Select(a, s.prior, Dest("Union", t1.r))}

-----------------------------------------------------------------------------
(* A compound query with ORDER BY: both sides are coroutines that deliver  *)
(* their rows in order, and their outputs are merged.                      *)

RECURSIVE CodeCopies(_, _, _, _)
CodeCopies(p, from, to, n) ==
  IF n = 0 THEN p ELSE CodeCopies(AddOp2(p, "Copy", from, to), from + 1, to + 1, n - 1)

\* The subroutine that outputs the row at iMem unless it is the previous one
\* again (regPrev # 0).  A coroutine's registers are allocated here; its iMem is returned.
EndOutput(p, s, dest, cont, regReturn, iBreak) ==
  [AddOp1(ResolveLabel(IF s.iLimit = 0 THEN p ELSE AddOp3(p, "IfZero", s.iLimit, iBreak, -1), cont),
          "Return", regReturn) EXCEPT !.r = IF dest.eDest = "Coroutine" THEN p.r ELSE dest.iMem]
YieldRow(p, iMem, n, addr) == [AddOp1(ExprCodeMove(p, iMem, p.r, n), "Yield", addr) EXCEPT !.r = p.r]
InsertOutput(p, iMem, n, dest, r1, r2) ==
  ReleaseTempReg(ReleaseTempReg(
    AddOp3(AddOp2(AddOp3(p, "MakeRecord", iMem, n, r1), "NewRowid", dest.iParm, r2),
           "Insert", dest.iParm, r1, r2), r2), r1)
OutputRow(p, iMem, n, dest) ==
  CASE dest.eDest \in {"Table", "EphemTab"} ->
         LET r1 == GetTempReg(p)
             r2 == GetTempReg(r1)
         IN  InsertOutput(r2, iMem, n, dest, r1.r, r2.r)
    [] dest.eDest = "Coroutine" ->
         YieldRow(IF dest.iMem = 0 THEN GetTempRange(p, n) ELSE [p EXCEPT !.r = dest.iMem],
                  iMem, n, dest.iParm)
    [] dest.eDest = "Output" -> AddOp2(p, "ResultRow", iMem, n)
ForgetOutput(p, iMem, n, regPrev) ==
  AddOp2(CodeCopies(p, iMem, regPrev + 1, n), "Integer", 1, regPrev)
TestOutput(p, iMem, n, regPrev, cont) ==
  LET j1 == CurrentAddr(p)
      a == AddOp4(AddOp1(p, "IfNot", regPrev), "Compare", iMem, regPrev + 1, n, Ascending(n))
  IN  JumpHere(AddOp3(a, "Jump", j1 + 3, cont, j1 + 3), j1)
NewOutput(p, s, iMem, n, dest, regReturn, regPrev, iBreak) ==
  EndOutput(OutputRow(codeOffset(IF regPrev = 0 THEN p
                                 ELSE ForgetOutput(TestOutput(p, iMem, n, regPrev, p.r), iMem, n, regPrev),
                                 s, p.r), iMem, n, dest), s, dest, p.r, regReturn, iBreak)
generateOutputSubroutine(p, s, iMem, n, dest, regReturn, regPrev, iBreak) ==
  NewOutput(MakeLabel(p), s, iMem, n, dest, regReturn, regPrev, iBreak)

\* The ORDER BY of a compound query names result columns; every operator but
\* UNION ALL needs all of them.
FullOrder(s) ==
  LET missing == SelectSeq([i \in DOMAIN s.list |-> i],
                           LAMBDA i : \A j \in DOMAIN s.orderBy : s.orderBy[j].col # i)
  IN  IF s.op = "ALL" THEN s.orderBy
      ELSE s.orderBy \o [k \in DOMAIN missing |-> [e |-> Null, desc |-> FALSE, col |-> missing[k]]]
ResolveOrder(s, order) ==
  [s EXCEPT !.orderBy = [k \in DOMAIN order |->
                           IF s.prior # Null THEN order[k]
                           ELSE [order[k] EXCEPT !.e = s.list[order[k].col]]]]

\* The registers and labels of the merge: limit and return addresses, end of
\* file flags and output routines of both sides (six registers from p.r on).
MergeRecord(p, s, m, limitA, limitB) ==
  [p |-> AddOp2(p, "Goto", 0, 0), s |-> s, op |-> m.op, n |-> m.n, order |-> m.order, dest |-> m.dest,
   end |-> m.end, cmpr |-> m.cmpr, prev |-> m.prev, j1 |-> CurrentAddr(p),
   limitA |-> limitA, limitB |-> limitB, addrA |-> p.r, eofA |-> p.r + 1, addrB |-> p.r + 2,
   eofB |-> p.r + 3, outA |-> p.r + 4, outB |-> p.r + 5, selectA |-> CurrentAddr(p) + 1,
   selectB |-> 0, memA |-> 0, memB |-> 0, addrOutA |-> 0, addrOutB |-> 0, addrEofA |-> 0,
   addrEofB |-> 0, altB |-> 0, aeqB |-> 0, agtB |-> 0]
SplitLimit(p, s, m, from) ==
  MergeRecord(NewRegs(AddOp2(AddOp2(p, "Copy", from, p.r), "Copy", p.r, p.r + 1), 6), s, m, p.r, p.r + 1)
MergeLimits(l, m) ==
  IF l.s.iLimit # 0 /\ m.op = "ALL"
  THEN SplitLimit(NewRegs(l.p, 2), l.s, m, IF l.s.iOffset # 0 THEN l.s.iOffset + 1 ELSE l.s.iLimit)
  ELSE MergeRecord(NewRegs(l.p, 6), l.s, m, 0, 0)
MergeLabels(p, s, order, dest, end) ==
  LET range == GetTempRange(p, Len(s.list) + 1)
  IN  MergeLimits(computeLimitRegisters(IF s.op = "ALL" THEN p ELSE AddOp2(range, "Integer", 0, range.r), s, end),
                  [op |-> s.op, n |-> Len(s.list), order |-> order, dest |-> dest, end |-> end,
                   cmpr |-> p.r, prev |-> IF s.op = "ALL" THEN 0 ELSE range.r])
MergeRegisters(p, s, order, dest) ==
  LET end == MakeLabel(p) IN MergeLabels(MakeLabel(end), s, order, dest, end.r)

EndCoroutine(p, eof, addr) == AddOp1(AddOp2(p, "Integer", 1, eof), "Yield", addr)
Advance(p, m, addr, eof, addrEof) ==
  AddOp2(AddOp2(AddOp1(p, "Yield", addr), "If", eof, addrEof), "Goto", 0, m.cmpr)
Drain(p, m, eofOther, out, addrOut, addr) ==
  LET top == CurrentAddr(p)
  IN  AddOp2(AddOp1(AddOp2(AddOp2(p, "If", eofOther, m.end), "Gosub", out, addrOut), "Yield", addr),
             "Goto", 0, top)

\* What follows the two coroutines, from the last part to the first; m gets
\* the addresses of the parts.
BothSides(m) == m.op \in {"ALL", "UNION"}
MergeEnd(p, m) ==
  Coded(ResolveLabel(IF m.prev = 0 THEN p ELSE ReleaseTempRange(p, m.prev, Len(m.order) + 1), m.end),
        m.dest.iMem, m.s)
MergeCompare(p, m) ==
  MergeEnd(AddOp3(AddOp4(AddOp4(ResolveLabel(p, m.cmpr), "Permutation", 0, 0, 0,
                                [x \in DOMAIN m.order |-> m.order[x].col - 1]),
                         "Compare", m.memA, m.memB, Len(m.order), keyInfoFromExprList(m.order)),
                  "Jump", m.altB, m.aeqB, m.agtB), m)
MergeStart(p, m) ==
  LET a == AddOp2(AddOp2(JumpHere(p, m.j1), "Integer", 0, m.eofA), "Integer", 0, m.eofB)
      b == AddOp2(AddOp2(a, "Gosub", m.addrA, m.selectA), "Gosub", m.addrB, m.selectB)
  IN  MergeCompare(AddOp2(AddOp2(b, "If", m.eofA, m.addrEofA), "If", m.eofB, m.addrEofB), m)
MergeGt(p, m) ==
  MergeStart(Advance(IF BothSides(m) THEN AddOp2(p, "Gosub", m.outB, m.addrOutB) ELSE p,
                     m, m.addrB, m.eofB, m.addrEofB), [m EXCEPT !.agtB = CurrentAddr(p)])
MergeEq(p, m) ==
  IF m.op \in {"ALL", "INTERSECT"}
  THEN MergeGt(p, [m EXCEPT !.aeqB = m.altB, !.altB = IF m.op = "INTERSECT" THEN @ + 1 ELSE @])
  ELSE MergeGt(Advance(p, m, m.addrA, m.eofA, m.addrEofA), [m EXCEPT !.aeqB = CurrentAddr(p)])
MergeLt(p, m) ==
  MergeEq(Advance(AddOp2(p, "Gosub", m.outA, m.addrOutA), m, m.addrA, m.eofA, m.addrEofA),
          [m EXCEPT !.altB = CurrentAddr(p)])
MergeEofB(p, m) ==
  IF m.op = "INTERSECT" THEN MergeLt(p, [m EXCEPT !.addrEofB = m.addrEofA])
  ELSE MergeLt(Drain(p, m, m.eofA, m.outA, m.addrOutA, m.addrA), [m EXCEPT !.addrEofB = CurrentAddr(p)])
MergeEofA(p, m) ==
  MergeEofB(IF BothSides(m) THEN Drain(p, m, m.eofB, m.outB, m.addrOutB, m.addrB)
            ELSE AddOp2(p, "Goto", 0, m.end), [m EXCEPT !.addrEofA = CurrentAddr(p)])
MergeOutputs(p, m) == MergeEofA(p, [m EXCEPT !.dest.iMem = p.r])
MergeOutB(p, m) ==
  MergeOutputs(IF BothSides(m)
               THEN generateOutputSubroutine(p, m.s, m.memB, m.n, m.dest, m.outB, m.prev, m.end)
               ELSE [p EXCEPT !.r = m.dest.iMem], [m EXCEPT !.addrOutB = CurrentAddr(p)])
MergeDest(p, m) == MergeOutB(p, [m EXCEPT !.dest.iMem = p.r])
MergeLoop(p, m) ==
  MergeDest(generateOutputSubroutine(p, m.s, m.memA, m.n, m.dest, m.outA, m.prev, m.end),
            [m EXCEPT !.addrOutA = CurrentAddr(p)])

MergeRight(p, m, right) ==
  {MergeLoop(EndCoroutine(b.p, m.eofB, m.addrB), [m EXCEPT !.memB = b.iMem, !.selectB = CurrentAddr(p)]) :
     b \in Select(p, right, Dest("Coroutine", m.addrB))}
MergeLeft(m, left, right) ==
  UNION {MergeRight(EndCoroutine(a.p, m.eofA, m.addrA), [m EXCEPT !.memA = a.iMem], right) :
           a \in Select(m.p, left, Dest("Coroutine", m.addrA))}
MergeSides(m, s) ==
  MergeLeft(m, [ResolveOrder(s.prior, m.order) EXCEPT !.iLimit = m.limitA],
            [ResolveOrder(Alone(s), m.order) EXCEPT !.iLimit = m.limitB, !.iOffset = 0])
multiSelectOrderBy(p, s, dest) == MergeSides(MergeRegisters(p, s, FullOrder(s), dest), s)

multiSelect(p, s, dest) ==
  LET open == AddOp2(p, "OpenEphemeral", dest.iParm, Len(s.list))
      a == IF dest.eDest = "EphemTab" THEN open ELSE p
      to == IF dest.eDest = "EphemTab" THEN [dest EXCEPT !.eDest = "Table"] ELSE dest
  IN  CASE s.orderBy # << >> -> multiSelectOrderBy(a, s, dest)
        [] s.orderBy = << >> /\ s.op = "ALL" -> CompoundAll(a, s, to)
        [] s.orderBy = << >> /\ s.op \in {"UNION", "EXCEPT"} -> CompoundUnion(a, s, to)
        [] s.orderBy = << >> /\ s.op = "INTERSECT" -> CompoundIntersect(a, s, to)
-----------------------------------------------------------------------------
(* Aggregate queries. *)

IfHaving(p, having, dest) == IF having = Null THEN p ELSE ExprIfFalse(p, having, dest, TRUE)
AccumulatedList(ai, list) == [i \in DOMAIN list |-> Accumulated(ai, list[i])]

\* SELECT count(*) FROM table reads the smallest b-tree that has all the rows.
isSimpleCount(s, ai) ==
  /\ s.where = Null /\ Len(s.list) = 1 /\ Len(s.from) = 1 /\ s.from[1].select = Null
  /\ s.list[1].op = "AggFunction" /\ s.list[1].op2 # "distinct"
  /\ ai.funcs[1].e.value = "count" /\ ai.funcs[1].e.list = << >>

SimpleCount(p, s, ai) ==
  LET tab == s.from[1].tab
      indices == Indices[tab]
      best == {i \in DOMAIN indices :
                 /\ Len(indices[i].columns) < nCol[tab]
                 /\ \A j \in DOMAIN indices : \/ Len(indices[i].columns) < Len(indices[j].columns)
                                              \/ Len(indices[i].columns) = Len(indices[j].columns) /\ i <= j}
      idx == indices[CHOOSE i \in best : TRUE]
      csr == NewTab(p)
      a == CodeVerifySchema(csr)
      b == IF best = {} THEN AddOp2(a, "OpenRead", csr.r, tab)
           ELSE AddOp4(a, "OpenRead", csr.r, idx.name, 0, idx.desc)
  IN  AddOp1(AddOp2(b, "Count", csr.r, ai.funcs[1].iMem), "Close", csr.r)

\* min(x) or max(x) alone wants the rows in the order of x.
minMaxQuery(s) ==
  LET e == s.list[1]
      is == Len(s.list) = 1 /\ e.op = "AggFunction" /\ e.value \in {"min", "max"} /\ Len(e.list) = 1
  IN  IF is /\ e.list[1].op = "Column" THEN e.value ELSE "no"

\* Without GROUP BY: all rows are one group.  A set of programs.
AggregateAll(p, s, ai, addrEnd) ==
  LET flag == minMaxQuery(s)
      order == IF flag = "no" THEN << >> ELSE <<[e |-> s.list[1].list[1], desc |-> flag = "max", col |-> 0]>>
      scans == WhereBegin(resetAccumulator(p, ai), s.from, s.where, order, << >>,
                          IF flag = "min" THEN {"ORDERBY_MIN"} ELSE {})
  IN  IF isSimpleCount(s, ai) THEN {SimpleCount(p, s, ai)}
      ELSE {finalizeAggFunctions(WhereEnd([w EXCEPT !.p = updateAccumulator(@, ai, -1)]), ai) : w \in scans}

\* The registers of a query with GROUP BY.
GroupRegisters(p, s, ai) ==
  LET n == Len(s.groupBy)
      idx == NewTab(p)
      a == AddOp4(idx, "SorterOpen", idx.r, ai.nSortingColumn, 0, Ascending(n))
      r == NewRegs(a, 4 + 2 * n)
      out == MakeLabel(r)
      reset == MakeLabel(out)
      b == AddOp3(AddOp2(AddOp2(reset, "Integer", 0, r.r + 1), "Integer", 0, r.r),
                  "Null", 0, r.r + 4, r.r + 4 + n - 1)
  IN  [p |-> AddOp2(b, "Gosub", r.r + 3, reset.r), idx |-> idx.r, use |-> r.r, abort |-> r.r + 1,
       regOut |-> r.r + 2, regReset |-> r.r + 3, iA |-> r.r + 4, iB |-> r.r + 4 + n,
       out |-> out.r, reset |-> reset.r]

\* The rows are put into a sorter with the terms of the GROUP BY clause as key.
RECURSIVE SorterColumns(_, _, _, _, _)
SorterColumns(p, cols, i, j, regBase) ==
  IF i > Len(cols) THEN [p EXCEPT !.r = j]
  ELSE IF cols[i].iSorterColumn < j THEN SorterColumns(p, cols, i + 1, j, regBase)
  ELSE SorterColumns(ExprCodeGetColumn(p, cols[i].e.iColumn, cols[i].e.iTable, j + regBase),
                     cols, i + 1, j + 1, regBase)
SortRow(p, base, width, idx) ==
  LET rec == GetTempReg(p)
  IN  ReleaseTempRange(ReleaseTempReg(AddOp2(AddOp3(rec, "MakeRecord", base, width, rec.r),
                                             "SorterInsert", idx, rec.r), rec.r), base, width)
SortTerms(p, s, ai, g, width) ==
  SortRow(SorterColumns(AddOp2(ExprCodeExprList(p, s.groupBy, p.r, FALSE), "Sequence", g.idx,
                               p.r + Len(s.groupBy)), ai.cols, 1, Len(s.groupBy) + 1, p.r),
          p.r, width, g.idx)
SorterWidth(p, s, ai) == SorterColumns(p, ai.cols, 1, Len(s.groupBy) + 1, 0).r
FillSorter(w, s, ai, g, width) ==
  WhereEnd([w EXCEPT !.p = SortTerms(GetTempRange(w.p, width), s, ai, g, width)])

\* The groups come out of the sorter one after the other: a change of the
\* terms in B against those in A ends a group.
NextInGroup(p, g, top, addrEnd) ==
  AddOp2(AddOp2(AddOp2(AddOp2(p, "Integer", 1, g.use), "SorterNext", g.idx, top),
                "Gosub", g.regOut, g.out), "Goto", 0, addrEnd)
CompareGroup(p, n, g, addrEnd) ==
  LET cmp == CurrentAddr(p)
      a == ExprCodeMove(AddOp3(AddOp4(p, "Compare", g.iA, g.iB, n, Ascending(n)), "Jump", cmp + 2, 0, cmp + 2),
                        g.iB, g.iA, n)
  IN  JumpHere(AddOp2(AddOp2(AddOp2(a, "Gosub", g.regOut, g.out), "IfPos", g.abort, addrEnd),
                      "Gosub", g.regReset, g.reset), cmp + 1)
GroupRow(p, out, ptab, n, ai, g, addrEnd) ==
  NextInGroup(updateAccumulator(CompareGroup(ReadPseudo(AddOp2(p, "SorterData", g.idx, out), ptab, 0, n, g.iB),
                                             n, g, addrEnd), ai, ptab), g, CurrentAddr(p), addrEnd)
GroupLoop(p, width, n, ai, g, addrEnd) ==
  LET ptab == NewTab(p)
      out == GetTempReg(ptab)
  IN  GroupRow(AddOp2(AddOp3(out, "OpenPseudo", ptab.r, out.r, width), "SorterSort", g.idx, addrEnd),
               out.r, ptab.r, n, ai, g, addrEnd)

\* The subroutines that output a group and that start the next one.
GroupReset(p, ai, g) ==
  [AddOp1(resetAccumulator(ResolveLabel(AddOp1(p, "Return", g.regOut), g.reset), ai), "Return", g.regReset)
   EXCEPT !.r = p.r]
GroupOutput(p, s, ai, g, sort, distinct, dest, setAbort) ==
  LET out == CurrentAddr(p)
      a == finalizeAggFunctions(AddOp1(AddOp2(p, "IfPos", g.use, out + 2), "Return", g.regOut), ai)
  IN  GroupReset(selectInnerLoop(IfHaving(a, Accumulated(ai, s.having), out + 1), s,
                                 AccumulatedList(ai, s.list), -1, sort, distinct, dest, out + 1, setAbort),
                 ai, g)
GroupSubroutines(p, s, ai, g, sort, distinct, dest) ==
  GroupOutput(ResolveLabel(AddOp1(AddOp2(p, "Integer", 1, g.abort), "Return", g.regOut), g.out),
              s, ai, g, sort, distinct, dest, CurrentAddr(p))

Grouped(w, s, ai, g, sort, distinct, dest, end, width) ==
  GroupSubroutines(GroupLoop(FillSorter(w, s, ai, g, width), width, Len(s.groupBy), ai, g, end),
                   s, ai, g, sort, distinct, dest)
GroupAll(g, s, ai, sort, distinct, dest, end) ==
  {Grouped(w, s, ai, g, sort, distinct, dest, end, SorterWidth(w.p, s, ai)) :
     w \in WhereBegin(g.p, s.from, s.where,
                      [k \in DOMAIN s.groupBy |-> [e |-> s.groupBy[k], desc |-> FALSE, col |-> 0]], << >>, {})}
OneGroup(p, s, ai, dest, end) ==
  {selectInnerLoop(IfHaving(q, Accumulated(ai, s.having), end), s, AccumulatedList(ai, s.list), -1,
                   Unsorted, -1, dest, end, end) : q \in AggregateAll(p, s, ai, end)}
Analyzed(p, s, ai, sort, distinct, dest, end) ==
  IF s.groupBy = << >> THEN OneGroup(p, s, ai, dest, end)
  ELSE GroupAll(GroupRegisters(p, s, ai), s, ai,
                [sort EXCEPT !.orderBy = [k \in DOMAIN @ |-> [@[k] EXCEPT !.e = Accumulated(ai, @)]]],
                distinct, dest, end)
AnalyzedAt(a, s, sort, distinct, dest, end) ==
  {[ResolveLabel(q, end) EXCEPT !.r = q.r] : q \in Analyzed(a.p, s, a.ai, sort, distinct, dest, end)}
Aggregate(p, s, sort, distinct, dest) ==
  LET end == MakeLabel(p) IN AnalyzedAt(AnalyzeSelect(end, s), s, sort, distinct, dest, end.r)

-----------------------------------------------------------------------------
(* One SELECT. *)

\* The scan delivers equal rows one after the other: compare each with the
\* one before.  The program with the test at its end is returned.
RECURSIVE TestSame(_, _, _, _, _)
TestSame(p, k, n, base, iJump) ==
  IF k = n THEN p
  ELSE TestSame(ChangeP5(AddOp3(p, "Ne", base + k, iJump, base + n + k), {"NullEq"}), k + 1, n, base, iJump)
KeepRow(p, n, iFlag, iContinue) ==
  LET iJump == CurrentAddr(p) + n + 3
  IN  AddOp3(AddOp2(AddOp2(TestSame(AddOp2(p, "If", iFlag, iJump - 1), 0, n, iFlag + 1, iJump),
                           "Goto", 0, iContinue),
                    "Integer", 0, iFlag), "Move", iFlag + 1, iFlag + 1 + n, n)
SetFlag(p, list, iFlag, addrDistinct) ==
  ExprCodeExprList([p EXCEPT !.code[addrDistinct + 1] = Op("Integer", 1, iFlag, 0)], list, iFlag + 1, TRUE)
OrderedDistinct(p, list, addrDistinct, iContinue) ==
  LET r == NewRegs(p, 1 + 2 * Len(list))
  IN  KeepRow(SetFlag(r, list, r.r, addrDistinct), Len(list), r.r, iContinue)

EndScan(w, p) == [WhereEnd([w EXCEPT !.p = p]) EXCEPT !.r = p.r]
ScanLoop(w, s, sort, distinct, addrDistinct, dest) ==
  LET ordered == w.eDistinct = "ordered"
  IN  EndScan(w, selectInnerLoop(IF ordered THEN OrderedDistinct(w.p, s.list, addrDistinct, w.iContinue)
                                 ELSE w.p,
                                 s, s.list, -1, sort, IF ordered THEN -1 ELSE distinct, dest,
                                 w.iContinue, w.iBreak))
Scan(p, s, sort, distinct, addrDistinct, dest) ==
  {ScanLoop(w, s, sort, distinct, addrDistinct, dest) :
     w \in WhereBegin(p, s.from, s.where, sort.orderBy, IF s.distinct THEN s.list ELSE << >>, {})}

\* DISTINCT is rewritten as GROUP BY, and the ORDER BY clause dropped, unless
\* the ORDER BY clause is the same as the list: the test for it is inverted.
DistinctAsGroups(s) ==
  IF s.distinct /\ ~s.agg
     /\ s.orderBy # [k \in DOMAIN s.list |-> [e |-> s.list[k], desc |-> FALSE, col |-> k]]
  THEN [s EXCEPT !.distinct = FALSE, !.groupBy = s.list, !.orderBy = << >>] ELSE s

SortedOutput(p, s, sort, dest, end) ==
  Coded(ResolveLabel(IF sort.orderBy # << >> /\ (~s.agg \/ s.groupBy # << >>)
                     THEN generateSortTail(p, s, sort, Len(s.list), [dest EXCEPT !.iMem = p.r]) ELSE p, end),
        p.r, s)
SelectRows(p, s, sort, distinct, dest, end) ==
  {SortedOutput(q, s, sort, dest, end) :
     q \in IF ~s.agg /\ s.groupBy = << >> THEN Scan(p, s, sort, distinct, p.r, dest)
           ELSE Aggregate(p, s, sort, distinct, dest)}
OpenDistinct(p, s, sort, dest, end) ==
  LET dis == NewTab(p)
  IN  SelectRows(IF s.distinct THEN AddOp4(dis, "OpenEphemeral", dis.r, 0, 0, Ascending(Len(s.list))) ELSE p,
                 s, sort, IF s.distinct THEN dis.r ELSE -1, dest, end)
OpenSorter(l, cursor, addrSort, dest, end) ==
  LET useSorter == l.s.iLimit = 0 /\ l.s.orderBy # << >>
  IN  OpenDistinct(IF useSorter THEN [l.p EXCEPT !.code[addrSort + 1].opcode = "SorterOpen"] ELSE l.p, l.s,
                   [orderBy |-> l.s.orderBy, iECursor |-> cursor, useSorter |-> useSorter], dest, end)
LimitSelect(p, s, cursor, addrSort, dest) ==
  LET end == MakeLabel(p)
  IN  OpenSorter(computeLimitRegisters(end, s, end.r), cursor, addrSort, dest, end.r)
OpenDest(p, s, cursor, addrSort, dest) ==
  LimitSelect(IF dest.eDest = "EphemTab" THEN AddOp2(p, "OpenEphemeral", dest.iParm, Len(s.list)) ELSE p,
              s, cursor, addrSort, dest)
SortSelect(p, s, dest) ==
  LET cur == NewTab(p)
  IN  OpenDest(IF s.orderBy = << >> THEN p
               ELSE AddOp4(cur, "OpenEphemeral", cur.r, Len(s.orderBy) + 2, 0, keyInfoFromExprList(s.orderBy)),
               s, cur.r, CurrentAddr(p), dest)
SimpleSelect(p, s, dest) == SortSelect(p, DistinctAsGroups(s), dest)

\* A subquery that is not flattened fills a transient table, once.
RECURSIVE FromSubqueries(_, _, _)
FromSubqueries(p, s, i) ==
  IF s.prior # Null \/ i > Len(s.from) THEN {[p |-> p, s |-> s]}
  ELSE LET item == s.from[i]
           reg == NewReg(p)
           top == AddOp2(reg, "Integer", 0, reg.r)
           once == CodeOnce(top)
           End(q) == LET ret == AddOp1(JumpHere(q, once.r), "Return", reg.r)
                     IN  ClearTempRegCache([ret EXCEPT !.code[top.r + 1].p1 = ret.r])
           filled == [s EXCEPT !.from[i].regReturn = reg.r, !.from[i].addrFillSub = top.r + 1]
       IN  CASE item.select = Null -> FromSubqueries(p, s, i + 1)
             [] item.select # Null /\ item.addrFillSub # 0 ->
                  FromSubqueries(AddOp2(p, "Gosub", item.regReturn, item.addrFillSub), s, i + 1)
             [] item.select # Null /\ item.addrFillSub = 0 /\ mayFlatten(s, i) ->
                  FromSubqueries(p, flattenSubquery(s, i), 1)
             [] item.select # Null /\ item.addrFillSub = 0 /\ ~mayFlatten(s, i) ->
                  UNION {FromSubqueries(End(c.p), filled, i + 1) :
                           c \in Select(once, item.select, Dest("EphemTab", item.iCursor))}

RECURSIVE OfCompound(_)
OfCompound(s) == IF s = Null THEN Null ELSE [s EXCEPT !.compound = TRUE, !.prior = OfCompound(@)]

\* sqlite3Select: where neither order nor duplicates matter they are dropped.
Select(p, s, dest) ==
  LET ignorable == dest.eDest \in {"Union", "Except"}
      Ignoring(t) == IF ignorable THEN [t EXCEPT !.orderBy = << >>, !.distinct = FALSE] ELSE t
  IN  UNION {IF f.s.prior # Null THEN multiSelect(f.p, OfCompound(f.s), dest)
             ELSE SimpleSelect(f.p, IF ignorable THEN [f.s EXCEPT !.orderBy = << >>] ELSE f.s, dest) :
               f \in FromSubqueries(p, Ignoring(s), 1)}

\* The program starts with the transaction.
FinishCoding(p) ==
  LET a == AddOp1(p, "Halt", 0)
      b == AddOp1(AddOp1(JumpHere(a, p.cookieGoto - 1), "Transaction", 0), "VerifyCookie", 0)
  IN  IF p.cookieGoto = 0 THEN a ELSE AddOp2(b, "Goto", 0, p.cookieGoto)
=============================================================================
