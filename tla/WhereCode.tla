------------------------------ MODULE WhereCode -----------------------------
(***************************************************************************)
(* The loops of a query (where.go): the WHERE clause is split into terms,  *)
(* every table of the FROM clause gets a way to be scanned, and the terms  *)
(* that the scans do not enforce are tested in the innermost loop where    *)
(* they can be.                                                            *)
(*                                                                         *)
(* What a scan costs is left out: any plan the planner could prefer for    *)
(* some statistics is possible, so WhereBegin returns a set.  Terms that   *)
(* exprAnalyze would duplicate (BETWEEN, and OR of equalities on one       *)
(* column) are outside this module: WhereClause.Insert always returns 0,   *)
(* and analysing the duplicate analyses term 0 again without end.          *)
(***************************************************************************)
EXTENDS ExprCode, FiniteSets

CONSTANT Indices   \* for every table, its indices: [name, columns, desc]

-----------------------------------------------------------------------------
(* Terms. A FROM item is [tab, iCursor, left, ephemeral, colUsed]; a set   *)
(* of cursors stands for a Bitmask.                                        *)

exprTableUsage(e) == {n.iTable : n \in {m \in Nodes(e) : m.op = "Column"}}
Cursors(from) == {from[i].iCursor : i \in DOMAIN from}

\* The operators an index can help with.
allowedOp(op) == op \in {"In", "Eq", "Gt", "Le", "Lt", "Ge", "IsNull"}
Commute == [Eq |-> "Eq", Gt |-> "Lt", Lt |-> "Gt", Ge |-> "Le", Le |-> "Ge"]

AlwaysFalse(e) == ~e.join \/ ExprIsInteger(e) # Null
ExprAnd(left, right) ==
  CASE left = Null -> right
    [] right = Null -> left
    [] left # Null /\ right # Null ->
         IF AlwaysFalse(left) \/ AlwaysFalse(right)
         THEN [left EXCEPT !.op = "Integer", !.value = 0, !.left = Null, !.right = Null,
                           !.list = << >>, !.join = FALSE]
         ELSE [left EXCEPT !.op = "And", !.left = left, !.right = right, !.list = << >>,
                           !.join = FALSE]

RECURSIVE Split(_, _)
Split(e, op) ==
  IF e = Null THEN << >>
  ELSE IF e.op # op THEN <<e>>
  ELSE Split(e.left, op) \o Split(e.right, op)

RECURSIVE exprAnalyze(_, _)
exprAnalyzeAll(from, list) == [i \in DOMAIN list |-> exprAnalyze(from, list[i])]

\* The tables an OR subterm that is no single comparison could be looked up in.
AndTables(from, e) ==
  LET terms == exprAnalyzeAll(from, Split(e, "And"))
  IN  {terms[i].leftCursor : i \in {j \in DOMAIN terms : allowedOp(terms[j].e.op)}} \ {-1}

exprAnalyzeOrTerm(from, term) ==
  LET subs == exprAnalyzeAll(from, Split(term.e, "Or"))
      Tables(t) == IF t.eOperator = "none" THEN AndTables(from, t.e) ELSE {t.leftCursor}
      indexable == {c \in Cursors(from) : \A i \in DOMAIN subs : c \in Tables(subs[i])}
  IN  [term EXCEPT
         !.or = [i \in DOMAIN subs |->
                   IF subs[i].eOperator = "none" THEN [subs[i] EXCEPT !.eOperator = "And"] ELSE subs[i]],
         !.indexable = indexable,
         !.eOperator = IF indexable = {} THEN "none" ELSE "Or"]

\* A term of the form <column> <op> <expr> can be looked up, and so can its
\* mirror image.  When both sides are columns only the left one is recorded,
\* because the copy for the right one is never analysed.
exprAnalyze(from, e) ==
  LET prereqLeft == exprTableUsage(e.left)
      prereqRight == CASE e.op = "In" -> UNION {exprTableUsage(e.list[i]) : i \in DOMAIN e.list}
                       [] e.op = "IsNull" -> {}
                       [] OTHER -> exprTableUsage(e.right)
      position == IF e.join THEN CHOOSE i \in DOMAIN from : from[i].iCursor = e.iRightJoinTable
                  ELSE 1
      extraRight == {from[i].iCursor : i \in 1 .. position - 1}
      term == [e |-> e, leftCursor |-> -1, leftColumn |-> 0, eOperator |-> "none",
               prereqRight |-> prereqRight \union extraRight,
               prereqAll |-> exprTableUsage(e) \union (IF e.join THEN {e.iRightJoinTable} ELSE {}),
               coded |-> FALSE, or |-> << >>, indexable |-> {}]
      usable == allowedOp(e.op) /\ prereqLeft \intersect prereqRight = {}
      rightColumn == e.right # Null /\ e.right.op = "Column"
  IN  CASE usable /\ e.left.op = "Column" ->
             [term EXCEPT !.leftCursor = e.left.iTable, !.leftColumn = e.left.iColumn,
                          !.eOperator = e.op,
                          !.prereqRight = IF rightColumn THEN prereqRight ELSE @]
        [] usable /\ e.left.op # "Column" /\ rightColumn ->
             [term EXCEPT !.e = [e EXCEPT !.op = Commute[e.op], !.left = e.right, !.right = e.left],
                          !.leftCursor = e.right.iTable, !.leftColumn = e.right.iColumn,
                          !.eOperator = Commute[e.op],
                          !.prereqRight = prereqLeft \union extraRight]
        [] e.op = "Or" -> exprAnalyzeOrTerm(from, term)
        [] OTHER -> term

\* The number of the first term on the column whose other side is available,
\* or 0.
findTerm(wc, iCur, iColumn, notReady, ops) ==
  LET found == {i \in DOMAIN wc : /\ wc[i].leftCursor = iCur /\ wc[i].leftColumn = iColumn
                                  /\ wc[i].eOperator \in ops
                                  /\ wc[i].prereqRight \intersect notReady = {}}
  IN  IF found = {} THEN 0 ELSE CHOOSE i \in found : \A j \in found : i <= j

-----------------------------------------------------------------------------
(* The plans for one table.  rev is WHERE_REVERSE, and the direction of a  *)
(* scan is free when there is no ORDER BY (SQLITE_ReverseOrder).  The      *)
(* number nEq of equalities is 0 for every real index: the loop that       *)
(* counts them counts in a variable of its own.                            *)

Plan(kind, rev) ==
  [kind |-> kind, rev |-> rev, idx |-> Null, nEq |-> 0, top |-> FALSE, btm |-> FALSE,
   idxOnly |-> FALSE, orderBy |-> FALSE, distinct |-> FALSE, term |-> 0]

\* Does scanning the columns in this order sort by orderBy?  {} if not, and
\* otherwise the set with the direction.  The column after the last one is
\* the rowid, which counts as a match whatever the ORDER BY term is.
RECURSIVE SortsFrom(_, _, _, _, _)
SortsFrom(columns, iCur, orderBy, i, rev) ==
  IF i > Len(orderBy) THEN {rev}
  ELSE IF i > Len(columns) + 1 \/ orderBy[i].e.op # "Column" \/ orderBy[i].e.iTable # iCur THEN {}
  ELSE LET rowid == i > Len(columns) \/ columns[i].column = -1
           dir == (~rowid /\ columns[i].desc) # orderBy[i].desc
           others == \E j \in i + 1 .. Len(orderBy) : exprTableUsage(orderBy[j].e) \ {iCur} # {}
       IN  IF (i <= Len(columns) /\ columns[i].column # orderBy[i].e.iColumn) \/ (i > 1 /\ dir # rev)
           THEN {}
           ELSE IF rowid /\ ~others THEN {dir}
           ELSE SortsFrom(columns, iCur, orderBy, i + 1, dir)
isSortingIndex(columns, iCur, orderBy) ==
  IF orderBy = << >> THEN {} ELSE SortsFrom(columns, iCur, orderBy, 1, FALSE)

\* Are rows with equal values of the list next to each other in the index?
isDistinctIndex(wc, idx, iCur, list) ==
  LET fixed == {i \in DOMAIN list :
                  findTerm(wc, list[i].iTable, list[i].iColumn,
                           UNION {wc[j].prereqRight : j \in DOMAIN wc}, {"Eq"}) # 0}
      Lists(i, column) == list[i].iTable = iCur /\ list[i].iColumn = column
      InIndex(i) == \E k \in DOMAIN idx.columns :
                      /\ Lists(i, idx.columns[k])
                      /\ ~ \E j \in 1 .. i - 1 : Lists(j, idx.columns[k])
                      /\ \A h \in 1 .. k : \E j \in DOMAIN list : Lists(j, idx.columns[h])
  IN  /\ list # << >>
      /\ \A i \in DOMAIN list : list[i].op = "Column"
      /\ \A i \in DOMAIN list \ fixed : InIndex(i)

Directions(orderBy) == IF orderBy = << >> THEN BOOLEAN ELSE {FALSE}

RowidPlans(wc, item, notReady, orderBy) ==
  LET Find(ops) == findTerm(wc, item.iCursor, -1, notReady, ops) # 0
      sorts == isSortingIndex(<<[column |-> -1, desc |-> FALSE]>>, item.iCursor, orderBy)
  IN  IF Find({"Eq", "In"}) THEN {Plan("rowidEq", FALSE)}
      ELSE IF Find({"Lt", "Le", "Gt", "Ge"}) \/ sorts # {}
      THEN {Plan("rowidRange", rev) : rev \in IF sorts # {} THEN sorts ELSE Directions(orderBy)}
      ELSE {Plan("scan", rev) : rev \in Directions(orderBy)}

IndexPlans(wc, item, idx, notReady, orderBy, list) ==
  LET Find(k, ops) == findTerm(wc, item.iCursor, idx.columns[k], notReady, ops)
      eqOps == IF item.left THEN {"Eq", "In"} ELSE {"Eq", "In", "IsNull"}
      eqs == {k \in DOMAIN idx.columns : \A h \in 1 .. k : Find(h, eqOps) # 0}
      in == \E k \in eqs : wc[Find(k, eqOps)].eOperator = "In"
      top == Find(1, {"Lt", "Le"}) # 0
      btm == Find(1, {"Gt", "Ge"}) # 0
      columns == [k \in DOMAIN idx.columns |-> [column |-> idx.columns[k], desc |-> idx.desc[k]]]
      sorts == IF in THEN {} ELSE isSortingIndex(columns, item.iCursor, orderBy)
      distinct == ~in /\ isDistinctIndex(wc, idx, item.iCursor, list)
  IN  IF eqs = {} /\ ~top /\ ~btm /\ sorts = {} /\ ~distinct THEN {}
      ELSE {[Plan("index", rev) EXCEPT
               !.idx = idx, !.top = top, !.btm = btm, !.orderBy = sorts # {}, !.distinct = distinct,
               !.idxOnly = item.colUsed \subseteq {idx.columns[k] : k \in DOMAIN idx.columns}] :
             rev \in IF sorts # {} THEN sorts ELSE Directions(orderBy)}

bestOrClauseIndex(wc, item, notReady, flags) ==
  {[Plan("or", FALSE) EXCEPT !.term = t] :
     t \in {i \in DOMAIN wc : /\ "AND_ONLY" \notin flags
                              /\ wc[i].eOperator = "Or"
                              /\ (wc[i].prereqAll \ {item.iCursor}) \intersect notReady = {}
                              /\ item.iCursor \in wc[i].indexable}}

termCanDriveIndex(term, item, notReady) ==
  /\ term.leftCursor = item.iCursor /\ term.eOperator = "Eq"
  /\ term.prereqRight \intersect notReady = {}

\* An index for this statement only, instead of scanning an inner table again
\* and again.
bestAutomaticIndex(wc, item, notReady, outermost) ==
  IF ~outermost /\ \E i \in DOMAIN wc : termCanDriveIndex(wc[i], item, notReady)
  THEN {Plan("temp", FALSE)} ELSE {}

bestBtreeIndex(wc, item, notReady, orderBy, list, outermost, flags) ==
  LET rowid == RowidPlans(wc, item, notReady, orderBy)
      indices == IF item.ephemeral THEN << >> ELSE Indices[item.tab]
  IN  rowid \union bestOrClauseIndex(wc, item, notReady, flags)
      \union UNION {IndexPlans(wc, item, indices[i], notReady, orderBy, list) : i \in DOMAIN indices}
      \union (IF \E plan \in rowid : plan.kind = "scan"
              THEN bestAutomaticIndex(wc, item, notReady, outermost) ELSE {})

-----------------------------------------------------------------------------
(* The loop of one level.  w is the WhereInfo: the program so far (p), the *)
(* terms (wc), the levels, the cursors that no loop has positioned yet     *)
(* (notReady), and the register to release at the end of                   *)
(* codeOneLoopStart (release).                                             *)

Level(item, iFrom, plan, iIdxCur) ==
  [item |-> item, iFrom |-> iFrom, plan |-> plan, iIdxCur |-> iIdxCur, iLeftJoin |-> 0,
   addrBrk |-> 0, addrNxt |-> 0, addrCont |-> 0, addrFirst |-> 0,
   op |-> "Noop", p1 |-> 0, p2 |-> 0, in |-> << >>]

\* A term that a scan enforces is not tested again.  For the right table of
\* a LEFT JOIN this holds of the terms of its ON clause only.
disableTerm(w, i, t) ==
  IF t # 0 /\ (w.level[i].iLeftJoin = 0 \/ w.wc[t].e.join)
  THEN [w EXCEPT !.wc[t].coded = TRUE] ELSE w

\* The value the column of term t must have, in a register; w.p.r is the
\* register.  IN starts a loop of its own.
OpenInLoop(w, i, p, isRowid, iTarget) ==
  LET first == w.level[i].in = << >>
      a == AddOp2(p, "Rewind", p.r, 0)
      b == IF first THEN MakeLabel(a) ELSE a
      c == IF isRowid THEN AddOp2(b, "Rowid", p.r, iTarget) ELSE AddOp3(b, "Column", p.r, 0, iTarget)
  IN  [w EXCEPT !.p = [AddOp1(c, "IsNull", iTarget) EXCEPT !.r = iTarget],
                !.level[i].addrNxt = IF first THEN b.r ELSE @,
                !.level[i].in = Append(@, [iCur |-> p.r, addrInTop |-> c.r])]
codeEqualityTerm(w, i, t, iTarget) ==
  LET e == w.wc[t].e
      isRowid == e.left.iColumn < 0
  IN  disableTerm(
        CASE e.op = "Eq" -> [w EXCEPT !.p = ExprCodeTarget(@, e.right, iTarget)]
          [] e.op = "IsNull" -> [w EXCEPT !.p = [AddOp2(@, "Null", 0, iTarget) EXCEPT !.r = iTarget]]
          [] e.op = "In" -> OpenInLoop(w, i, CodeSubselect(w.p, e, 0, isRowid), isRowid, iTarget), i, t)

\* The value of a term goes into its place, or, when it is the only one, its
\* register becomes the place.  w.p.r is then the first of the registers.
PlaceTerm(w, i, t, j, regBase, nReg) ==
  LET moved == w.p.r # regBase + j - 1
      base == IF moved /\ nReg = 1 THEN w.p.r ELSE regBase
      a == IF ~moved THEN w.p
           ELSE IF nReg = 1 THEN ReleaseTempReg(w.p, regBase)
           ELSE AddOp2(w.p, "SCopy", w.p.r, regBase + j - 1)
      b == IF w.wc[t].eOperator = "Eq"
           THEN ExprCodeIsNullJump(a, w.wc[t].e.right, base + j - 1, w.level[i].addrBrk) ELSE a
  IN  [w EXCEPT !.p = [b EXCEPT !.r = base]]

\* The values of the first nEq columns of the index; w.p.r is the first of
\* their registers.
RECURSIVE CodeEqualities(_, _, _, _)
CodeEqualities(w, i, j, nReg) ==
  LET level == w.level[i]
      ops == {"Eq", "In"} \union (IF level.item.left THEN {} ELSE {"IsNull"})
      t == findTerm(w.wc, level.item.iCursor, level.plan.idx.columns[j], w.notReady, ops)
      regBase == w.p.r
  IN  IF j > level.plan.nEq THEN w
      ELSE CodeEqualities(PlaceTerm(codeEqualityTerm(w, i, t, regBase + j - 1), i, t, j, regBase, nReg),
                          i, j + 1, nReg)
codeAllEqualityTerms(w, i, nExtraReg) ==
  LET nReg == w.level[i].plan.nEq + nExtraReg
  IN  CodeEqualities([w EXCEPT !.p = NewRegs(@, nReg)], i, 1, nReg)

\* Case 1: one row, or the rows of a list, by rowid.
SeekRowid(w, i, iCur, temp) ==
  LET addrNxt == w.level[i].addrNxt
      r1 == w.p.r
  IN  [w EXCEPT !.p = AddOp3(AddOp2(@, "MustBeInt", r1, addrNxt), "NotExists", iCur, addrNxt, r1),
                !.release = temp]
LoopRowidEq(w, i) ==
  LET iCur == w.level[i].item.iCursor
      a == GetTempReg(w.p)
      t == findTerm(w.wc, iCur, -1, w.notReady, {"Eq", "In"})
  IN  SeekRowid(codeEqualityTerm([w EXCEPT !.p = a], i, t, a.r), i, iCur, a.r)

SeekOp == [Gt |-> "SeekGt", Ge |-> "SeekGe", Lt |-> "SeekLt", Le |-> "SeekLe"]

\* Case 2: a range of rowids, either end of which may be open.
SeekStart(p, opcode, iCur, addrBrk) ==
  ReleaseTempReg(AddOp3(p, opcode, iCur, addrBrk, p.r), p.free)
RangeStart(w, i, t) ==
  LET level == w.level[i]
  IN  IF t = 0
      THEN AddOp2(w.p, IF level.plan.rev THEN "Last" ELSE "Rewind", level.item.iCursor, level.addrBrk)
      ELSE SeekStart(ExprCodeTemp(w.p, w.wc[t].e.right), SeekOp[w.wc[t].e.op], level.item.iCursor,
                     level.addrBrk)

\* The test at the top of the loop whether the row is behind the end, whose
\* value is in register p.r.
RangeTest(w, i, t, p) ==
  LET level == w.level[i]
      strict == w.wc[t].e.op \in {"Lt", "Gt"}
      testOp == IF strict THEN (IF level.plan.rev THEN "Le" ELSE "Ge")
                ELSE (IF level.plan.rev THEN "Lt" ELSE "Gt")
      a == GetTempReg(p)
      b == AddOp3(AddOp2(a, "Rowid", level.item.iCursor, a.r), testOp, p.r, level.addrBrk, a.r)
  IN  [w EXCEPT !.p = ChangeP5(b, {"JumpIfNull"}), !.level[i].p2 = CurrentAddr(a), !.release = a.r]
RangeEnd(w, i, t) ==
  LET to == NewReg(w.p)
  IN  IF t = 0 THEN [w EXCEPT !.level[i].p2 = CurrentAddr(w.p)]
      ELSE RangeTest(w, i, t, ExprCode(to, w.wc[t].e.right, to.r))

LoopRowidRange(w, i) ==
  LET level == w.level[i]
      rev == level.plan.rev
      low == findTerm(w.wc, level.item.iCursor, -1, w.notReady, {"Gt", "Ge"})
      high == findTerm(w.wc, level.item.iCursor, -1, w.notReady, {"Lt", "Le"})
      start == IF rev THEN high ELSE low
      end == IF rev THEN low ELSE high
      v == [disableTerm(disableTerm(w, i, start), i, end) EXCEPT
              !.p = RangeStart(w, i, start), !.level[i].p1 = level.item.iCursor,
              !.level[i].op = IF rev THEN "Prev" ELSE "Next"]
  IN  RangeEnd(v, i, end)

\* The bound of term t into register reg; there is nothing to scan if it is NULL.
CodeBound(w, i, t, reg) ==
  ExprCodeIsNullJump(ExprCode(w.p, w.wc[t].e.right, reg), w.wc[t].e.right, reg, w.level[i].addrNxt)

StartOp(constrained, eq, rev) ==
  CASE ~constrained -> IF rev THEN "Last" ELSE "Rewind"
    [] constrained /\ ~eq -> IF rev THEN "SeekLt" ELSE "SeekGt"
    [] constrained /\ eq -> IF rev THEN "SeekLe" ELSE "SeekGe"

\* Case 3: a range of an index.  The bounds change places when the scan runs
\* against the order of the column.  A query for min(x) starts behind the
\* NULLs.  start and end are the numbers of the terms.
IndexBounds(w, i) ==
  LET plan == w.level[i].plan
      more == plan.nEq < Len(plan.idx.columns)
      k == IF more THEN plan.idx.columns[plan.nEq + 1] ELSE -1
      Bound(limited, ops) ==
        IF limited THEN findTerm(w.wc, w.level[i].item.iCursor, k, w.notReady, ops) ELSE 0
      upper == Bound(plan.top, {"Lt", "Le"})
      lower == Bound(plan.btm, {"Gt", "Ge"})
      swap == IF more THEN plan.rev = ~plan.idx.desc[plan.nEq + 1] ELSE plan.rev
      start == IF swap THEN upper ELSE lower
      isMinQuery == "ORDERBY_MIN" \in w.flags /\ plan.orderBy /\ more
      Inclusive(t) == t = 0 \/ w.wc[t].eOperator \in {"Le", "Ge"}
      end == IF swap THEN lower ELSE upper
  IN  [start |-> start, end |-> end, startEq |-> Inclusive(start), endEq |-> Inclusive(end),
       skipNulls |-> start = 0 /\ isMinQuery, nExtra |-> IF isMinQuery \/ plan.top \/ plan.btm THEN 1 ELSE 0,
       base |-> 0]

\* b.base is the first register of the key.
IndexSeek(w, i, b, p) ==
  LET nEq == w.level[i].plan.nEq
      bounded == b.start # 0 \/ b.skipNulls
  IN  [w EXCEPT !.p = AddOp4(p, StartOp(bounded \/ nEq > 0, b.startEq /\ ~b.skipNulls, w.level[i].plan.rev),
                             w.level[i].iIdxCur, w.level[i].addrNxt, b.base,
                             nEq + (IF bounded THEN 1 ELSE 0))]
IndexStart(w, i, b) ==
  LET reg == b.base + w.level[i].plan.nEq
  IN  IndexSeek(w, i, b, IF b.start # 0 THEN CodeBound(w, i, b.start, reg)
                         ELSE IF b.skipNulls THEN AddOp2(w.p, "Null", 0, reg) ELSE w.p)

\* The test at the top of the loop.
IndexTest(w, i, b, p) ==
  LET plan == w.level[i].plan
      test == AddOp4(p, IF plan.rev THEN "IdxLT" ELSE "IdxGE", w.level[i].iIdxCur, w.level[i].addrNxt,
                     b.base, plan.nEq + (IF b.end # 0 THEN 1 ELSE 0))
  IN  [w EXCEPT !.p = IF b.end = 0 /\ plan.nEq = 0 THEN p
                      ELSE ChangeP5(test, IF b.endEq # plan.rev THEN {"IncrKey"} ELSE {}),
                !.level[i].p2 = CurrentAddr(p)]
IndexEnd(w, i, b) ==
  IndexTest(w, i, b, IF b.end = 0 THEN w.p ELSE CodeBound(w, i, b.end, b.base + w.level[i].plan.nEq))

\* NULLs in the column of the range are passed over, and the row is looked up
\* unless the index has all of it.
IndexRow(w, i) ==
  LET level == w.level[i]
      r1 == GetTempReg(w.p)
      a == IF level.plan.top \/ level.plan.btm
           THEN AddOp2(AddOp3(r1, "Column", level.iIdxCur, level.plan.nEq, r1.r), "IsNull", r1.r, level.addrCont)
           ELSE r1
      b == ReleaseTempReg(a, r1.r)
      row == GetTempReg(b)
      omitTable == level.plan.idxOnly /\ "FORCE_TABLE" \notin w.flags
  IN  [w EXCEPT !.p = IF omitTable THEN b
                      ELSE AddOp2(AddOp2(row, "IdxRowid", level.iIdxCur, row.r), "Seek", level.item.iCursor, row.r),
                !.level[i].op = IF level.plan.rev THEN "Prev" ELSE "Next",
                !.level[i].p1 = level.iIdxCur, !.release = IF omitTable THEN 0 ELSE row.r]

IndexRange(w, i, b) ==
  disableTerm(disableTerm(IndexRow(IndexEnd(IndexStart(w, i, b), i, b), i), i, b.start), i, b.end)
IndexScan(w, i, b) == IndexRange(w, i, [b EXCEPT !.base = w.p.r])
LoopIndex(w, i) ==
  LET b == IndexBounds(w, i) IN IndexScan(codeAllEqualityTerms(w, i, b.nExtra), i, b)

\* Case 5: the whole table.
LoopScan(w, i) ==
  LET rev == w.level[i].plan.rev
      iCur == w.level[i].item.iCursor
      a == AddOp2(w.p, IF rev THEN "Last" ELSE "Rewind", iCur, w.level[i].addrBrk)
  IN  [w EXCEPT !.p = a, !.level[i].op = IF rev THEN "Prev" ELSE "Next",
                !.level[i].p1 = iCur, !.level[i].p2 = 1 + a.r]

-----------------------------------------------------------------------------
(* The end of the loops. *)

RECURSIVE EndInLoops(_, _, _)
EndInLoops(p, in, j) ==
  IF j = 0 THEN p
  ELSE LET a == AddOp2(JumpHere(p, in[j].addrInTop + 1), "Next", in[j].iCur, in[j].addrInTop)
       IN  EndInLoops(JumpHere(a, in[j].addrInTop - 1), in, j - 1)

\* When no row of the right table of a LEFT JOIN matched, the loop body runs
\* once more on a row of NULLs.
EndLevel(p, level) ==
  LET a == ResolveLabel(p, level.addrCont)
      b == IF level.op = "Noop" THEN a ELSE AddOp2(a, level.op, level.p1, level.p2)
      c == IF level.in = << >> THEN b
           ELSE EndInLoops(ResolveLabel(b, level.addrNxt), level.in, Len(level.in))
      d == ResolveLabel(c, level.addrBrk)
      test == AddOp1(d, "IfPos", level.iLeftJoin)
      f == IF level.plan.idxOnly THEN test ELSE AddOp1(test, "NullRow", level.item.iCursor)
      g == IF level.iIdxCur < 0 THEN f ELSE AddOp1(f, "NullRow", level.iIdxCur)
      h == IF level.op = "Return" THEN AddOp2(g, "Gosub", level.p1, level.addrFirst)
           ELSE AddOp2(g, "Goto", 0, level.addrFirst)
  IN  IF level.iLeftJoin = 0 THEN d ELSE JumpHere(h, test.r)

RECURSIVE EndLevels(_, _, _)
EndLevels(p, level, i) == IF i = 0 THEN p ELSE EndLevels(EndLevel(p, level[i]), level, i - 1)

\* Read what the index holds from the index, in the code from iTop on.
ReadIndex(p, level, iTop) ==
  LET columns == level.plan.idx.columns
      Position(c) == CHOOSE j \in DOMAIN columns :
                       columns[j] = c /\ \A h \in 1 .. j - 1 : columns[h] # c
      Rewrite(op) ==
        IF op.p1 # level.item.iCursor THEN op
        ELSE IF op.opcode = "Column" /\ op.p2 \in {columns[j] : j \in DOMAIN columns}
        THEN [op EXCEPT !.p1 = level.iIdxCur, !.p2 = Position(op.p2) - 1]
        ELSE IF op.opcode = "Rowid" THEN [op EXCEPT !.opcode = "IdxRowid", !.p1 = level.iIdxCur]
        ELSE op
  IN  [p EXCEPT !.code = [k \in DOMAIN @ |-> IF k > iTop THEN Rewrite(@[k]) ELSE @[k]]]

CloseLevel(w, p, level) ==
  LET keep == level.item.ephemeral \/ "OMIT_OPEN_CLOSE" \in w.flags
      a == IF keep \/ level.plan.idxOnly THEN p ELSE AddOp1(p, "Close", level.item.iCursor)
      b == IF keep \/ level.plan.kind # "index" THEN a ELSE AddOp1(a, "Close", level.iIdxCur)
  IN  IF level.iIdxCur < 0 THEN b ELSE ReadIndex(b, level, w.iTop)

RECURSIVE CloseLevels(_, _, _)
CloseLevels(w, p, i) ==
  IF i > Len(w.level) THEN p ELSE CloseLevels(w, CloseLevel(w, p, w.level[i]), i + 1)

\* The Parse object is returned.
WhereEnd(w) == CloseLevels(w, ResolveLabel(EndLevels(w.p, w.level, Len(w.level)), w.iBreak), 1)
-----------------------------------------------------------------------------
RECURSIVE WhereBegin(_, _, _, _, _, _)

\* One subterm of an OR: a scan of its own, whose rows go to the loop body
\* unless an earlier subterm has delivered them.  A set of [p, untested].
CodeOrTerm(w, i, p, iSet, or, and, r) ==
  LET level == w.level[i]
      e == IF and = Null THEN or.e
           ELSE [or.e EXCEPT !.op = "And", !.left = or.e, !.right = and, !.list = << >>]
      from == IF Len(w.level) > 1
              THEN <<level.item>> \o [j \in 1 .. Len(w.level) - i |-> w.level[i + j].item]
              ELSE w.from
      Body(q) ==
        LET a == ExprCodeGetColumn(q, -1, level.item.iCursor, r.rowid)
            b == AddOp4(a, "RowSetTest", r.rowset, CurrentAddr(a) + 2, r.rowid, iSet)
        IN  AddOp2(IF "DUPLICATES_OK" \in w.flags THEN q ELSE b, "Gosub", r.return, r.body)
  IN  {[p |-> WhereEnd([s EXCEPT !.p = Body(s.p)]), untested |-> s.untested] :
         s \in WhereBegin(p, from, e, << >>, << >>,
                          {"OMIT_OPEN_CLOSE", "AND_ONLY", "FORCE_TABLE", "ONETABLE_ONLY"})}

RECURSIVE CodeOrTerms(_, _, _, _, _, _, _)
CodeOrTerms(w, i, p, or, k, and, r) ==
  IF k > Len(or) THEN {[p |-> p, untested |-> FALSE]}
  ELSE IF or[k].leftCursor # w.level[i].item.iCursor /\ or[k].eOperator # "And"
  THEN CodeOrTerms(w, i, p, or, k + 1, and, r)
  ELSE UNION {{[rest EXCEPT !.untested = @ \/ one.untested] :
                 rest \in CodeOrTerms(w, i, one.p, or, k + 1, and, r)} :
              one \in CodeOrTerm(w, i, p, IF k = Len(or) THEN -1 ELSE k - 1, or[k], and, r)}

\* The terms that every subterm of an OR is combined with.
RECURSIVE AndedTerms(_, _, _)
AndedTerms(wc, t, and) ==
  IF t > Len(wc) THEN and
  ELSE AndedTerms(wc, t + 1, IF wc[t].e.join \/ wc[t].or # << >> \/ wc[t].eOperator = "none" THEN and
                             ELSE ExprAnd(and, wc[t].e))

\* Case 4: the rows that some subterm of an OR finds, each once.  The loop
\* body is a subroutine.
LoopOr(w, i) ==
  LET t == w.level[i].plan.term
      ret == NewReg(w.p)
      body == MakeLabel(ret)
      rowset == NewReg(body)
      rowid == NewReg(rowset)
      a == IF "DUPLICATES_OK" \in w.flags THEN body ELSE AddOp2(rowid, "Null", 0, rowset.r)
      b == AddOp2(a, "Integer", 0, ret.r)
      r == [return |-> ret.r, body |-> body.r, rowset |-> rowset.r, rowid |-> rowid.r]
      End(p) == ResolveLabel(AddOp2([p EXCEPT !.code[b.r + 1].p1 = CurrentAddr(p)],
                                    "Goto", 0, w.level[i].addrBrk), body.r)
  IN  {LET v == [w EXCEPT !.p = End(c.p), !.level[i].op = "Return", !.level[i].p1 = ret.r]
       IN  IF c.untested THEN v ELSE disableTerm(v, i, t) :
         c \in CodeOrTerms(w, i, b, w.wc[t].or, 1, AndedTerms(w.wc, 1, Null), r)}

\* Test the terms from t on that can be evaluated now.
RECURSIVE TestTerms(_, _, _, _)
TestTerms(w, i, t, onlyJoin) ==
  IF t > Len(w.wc) THEN w
  ELSE LET term == w.wc[t]
       IN  IF term.coded THEN TestTerms(w, i, t + 1, onlyJoin)
           ELSE IF term.prereqAll \intersect w.notReady # {}
           THEN TestTerms([w EXCEPT !.untested = TRUE], i, t + 1, onlyJoin)
           ELSE IF onlyJoin /\ ~term.e.join THEN TestTerms(w, i, t + 1, onlyJoin)
           ELSE TestTerms([w EXCEPT !.p = ExprIfFalse(@, term.e, w.level[i].addrCont, TRUE),
                                    !.wc[t].coded = TRUE], i, t + 1, onlyJoin)

\* What follows the start of the loop: the terms are tested, for the right
\* table of a LEFT JOIN first the ones of the ON clause.
TestJoined(w, i) ==
  TestTerms([w EXCEPT !.p = AddOp2(@, "Integer", 1, w.level[i].iLeftJoin),
                      !.level[i].addrFirst = CurrentAddr(w.p)], i, 1, FALSE)
TestOuter(w, i) == IF w.level[i].iLeftJoin = 0 THEN w ELSE TestJoined(w, i)
ReleaseLoop(w, i) == [w EXCEPT !.p = ReleaseTempReg(@, w.release), !.iContinue = w.level[i].addrCont]
TestLoop(w, i) ==
  ReleaseLoop(TestOuter(TestTerms([w EXCEPT !.notReady = @ \ {w.level[i].item.iCursor}], i, 1,
                                  w.level[i].iLeftJoin # 0), i), i)

StartLoop(w, i) ==
  CASE w.level[i].plan.kind = "rowidEq" -> {LoopRowidEq(w, i)}
    [] w.level[i].plan.kind = "rowidRange" -> {LoopRowidRange(w, i)}
    [] w.level[i].plan.kind \in {"index", "temp"} -> {LoopIndex(w, i)}
    [] w.level[i].plan.kind = "or" -> LoopOr(w, i)
    [] w.level[i].plan.kind = "scan" -> {LoopScan(w, i)}

codeOneLoopStart(w, i) ==
  LET brk == MakeLabel(w.p)
      cont == MakeLabel(brk)
      outer == i > 1 /\ w.level[i].item.left
      hit == NewReg(cont)
      a == [w EXCEPT !.p = IF outer THEN AddOp2(hit, "Integer", 0, hit.r) ELSE cont,
                     !.level[i].addrBrk = brk.r, !.level[i].addrNxt = brk.r,
                     !.level[i].addrCont = cont.r,
                     !.level[i].iLeftJoin = IF outer THEN hit.r ELSE 0, !.release = 0]
  IN  {TestLoop(v, i) : v \in StartLoop(a, i)}

-----------------------------------------------------------------------------
(* The beginning of the loops. *)

CodeVerifySchema(p) ==
  IF p.cookieGoto # 0 THEN p
  ELSE LET a == AddOp2(p, "Goto", 0, 0) IN [a EXCEPT !.cookieGoto = a.r + 1]

GenerateIndexKey(p, columns, iCur, regOut) ==
  LET n == Len(columns)
      a == GetTempRange(p, n + 1)
      RECURSIVE Load(_, _)
      Load(q, j) == IF j > n THEN q
                    ELSE Load(AddOp3(q, "Column", iCur, columns[j], a.r + j - 1), j + 1)
      b == Load(AddOp2(a, "Rowid", iCur, a.r + n), 1)
  IN  ReleaseTempRange(AddOp3(b, "MakeRecord", a.r, n + 1, regOut), a.r, n + 1)

\* The transient index holds the columns that are looked up and then every
\* other column the query uses.
AutomaticIndex(w, item) ==
  LET Drives(t) == termCanDriveIndex(w.wc[t], item, w.notReady)
      driving == SelectSeq([t \in DOMAIN w.wc |-> t],
                           LAMBDA t : Drives(t) /\ ~ \E s \in 1 .. t - 1 :
                             Drives(s) /\ w.wc[s].leftColumn = w.wc[t].leftColumn)
      eqs == [k \in DOMAIN driving |-> w.wc[driving[k]].leftColumn]
  IN  [nEq |-> Len(eqs), columns |-> eqs \o SetToSortSeq(item.colUsed \ {eqs[k] : k \in DOMAIN eqs}, <)]
FillAutomatic(p, level, columns, once) ==
  LET top == AddOp1(p, "Rewind", level.item.iCursor)
      rec == GetTempReg(top)
      a == AddOp2(GenerateIndexKey(rec, columns, level.item.iCursor, rec.r), "IdxInsert",
                  level.iIdxCur, rec.r)
      b == AddOp2(a, "Next", level.item.iCursor, top.r + 1)
  IN  JumpHere(ReleaseTempReg(JumpHere(b, top.r), rec.r), once)
OpenAutomatic(w, i, auto) ==
  LET init == CodeOnce(w.p)
      desc == [k \in DOMAIN auto.columns |-> FALSE]
      open == AddOp4(init, "OpenAutoindex", w.level[i].iIdxCur, Len(auto.columns) + 1, 0, desc)
  IN  [w EXCEPT !.p = FillAutomatic(open, w.level[i], auto.columns, init.r),
                !.level[i].plan.nEq = auto.nEq,
                !.level[i].plan.idx = [name |-> "auto-index", columns |-> auto.columns, desc |-> desc],
                !.level[i].plan.idxOnly = TRUE]
constructAutomaticIndex(w, i) == OpenAutomatic(w, i, AutomaticIndex(w, w.level[i].item))

OpenLevel(w, i) ==
  LET level == w.level[i]
      closed == level.item.ephemeral \/ level.plan.idxOnly \/ "OMIT_OPEN_CLOSE" \in w.flags
      a == IF closed THEN w
           ELSE [w EXCEPT !.p = AddOp2(@, "OpenRead", level.item.iCursor, level.item.tab)]
      b == CASE level.plan.kind = "temp" -> constructAutomaticIndex(a, i)
             [] level.plan.kind = "index" ->
                  [a EXCEPT !.p = AddOp4(@, "OpenRead", level.iIdxCur, level.plan.idx.name, 0,
                                         level.plan.idx.desc)]
             [] OTHER -> a
  IN  [b EXCEPT !.notReady = @ \ {level.item.iCursor}]

RECURSIVE OpenLevels(_, _), CodeLevels(_, _), ChooseLevels(_, _, _)
OpenLevels(w, i) == IF i > Len(w.level) THEN w ELSE OpenLevels(OpenLevel(w, i), i + 1)
CodeLevels(w, i) ==
  IF i > Len(w.level) THEN {w} ELSE UNION {CodeLevels(v, i + 1) : v \in codeOneLoopStart(w, i)}

\* The order of the loops and a plan for each.  A table with a LEFT JOIN
\* before it changes places with no other.
ChooseLevels(w, orderBy, list) ==
  LET used == {w.level[i].iFrom : i \in DOMAIN w.level}
      first == CHOOSE j \in DOMAIN w.from : j \notin used /\ 1 .. j - 1 \subseteq used
      next == {j \in DOMAIN w.from \ used :
                 j = first \/ \A k \in first .. j : ~w.from[k].left}
      outermost == w.level = << >>
      Add(j, plan) ==
        LET cursor == NewTab(w.p)
            indexed == plan.kind \in {"index", "temp"}
        IN  [w EXCEPT !.p = IF indexed THEN cursor ELSE @,
                      !.level = Append(@, Level(w.from[j], j, plan, IF indexed THEN cursor.r ELSE -1)),
                      !.notReady = @ \ {w.from[j].iCursor},
                      !.eDistinct = IF plan.distinct THEN "ordered" ELSE @]
      Plans(j) == bestBtreeIndex(w.wc, w.from[j], w.notReady, IF outermost THEN orderBy ELSE << >>,
                                 IF outermost THEN list ELSE << >>, outermost, w.flags)
  IN  IF Len(w.level) = (IF "ONETABLE_ONLY" \in w.flags THEN 1 ELSE Len(w.from)) THEN {w}
      ELSE UNION {ChooseLevels(Add(j, plan), orderBy, list) :
                    <<j, plan>> \in UNION {{j} \X Plans(j) :
                      j \in IF "ONETABLE_ONLY" \in w.flags THEN {1} ELSE next}}

\* The set of WhereInfo objects there can be: e is the WHERE clause or Null,
\* orderBy and list the ORDER BY clause and the DISTINCT list or empty.
CodeLoops(w, notReady) ==
  CodeLevels([w EXCEPT !.iTop = CurrentAddr(w.p), !.notReady = notReady], 1)
PlanLoops(w, orderBy, list) ==
  UNION {CodeLoops(OpenLevels([chosen EXCEPT !.p = CodeVerifySchema(@), !.notReady = w.notReady], 1),
                   w.notReady) :
           chosen \in ChooseLevels(w, orderBy, list)}
NewWhere(p, from, where, flags, iBreak) ==
  [p |-> IF where # Null /\ (from = << >> \/ ExprIsConstantNotJoin(where))
         THEN ExprIfFalse(p, where, iBreak, TRUE) ELSE p,
   wc |-> exprAnalyzeAll(from, Split(where, "And")), level |-> << >>,
   notReady |-> Cursors(from), untested |-> FALSE, release |-> 0, from |-> from,
   flags |-> flags, iTop |-> 0, iBreak |-> iBreak, iContinue |-> 0, eDistinct |-> "no"]
WhereOf(p, from, flags, iBreak) == NewWhere(p, from, p.r, flags, iBreak)
WhereBegin(p, from, e, orderBy, list, flags) ==
  LET brk == MakeLabel(p)
  IN  PlanLoops(WhereOf(ExprCodeConstants(brk, e), from, flags, brk.r), orderBy, list)
=============================================================================
