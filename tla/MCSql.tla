------------------------------- MODULE MCSql --------------------------------
(***************************************************************************)
(* Two tables, t(a, b) and u(c), with an index on t(a), one on t(a DESC,   *)
(* b) and one on u(c), and queries over them.                              *)
(***************************************************************************)
EXTENDS Sql

MCnCol == [t |-> 2, u |-> 1]
MCIndices == [t |-> <<[name |-> "ta", columns |-> <<0>>, desc |-> <<FALSE>>],
                      [name |-> "tab", columns |-> <<0, 1>>, desc |-> <<TRUE, FALSE>>]>>,
              u |-> <<[name |-> "uc", columns |-> <<0>>, desc |-> <<FALSE>>]>>]

-----------------------------------------------------------------------------
(* Databases: rows by rowid, and the entries of the indices in their order. *)

Entries(rows) == [i \in DOMAIN rows |-> [k |-> i, d |-> rows[i]]]
IndexOf(rows, idx) ==
  LET entries == [i \in DOMAIN rows |->
                    [k |-> 0, d |-> [j \in DOMAIN idx.columns |-> rows[i][idx.columns[j] + 1]] \o <<i>>]]
  IN  SortSeq(entries, LAMBDA x, y : RecordCompare(x.d, y.d, idx.desc, {}) < 0)
Database(t, u) ==
  [t |-> Entries(t), u |-> Entries(u), ta |-> IndexOf(t, MCIndices.t[1]), tab |-> IndexOf(t, MCIndices.t[2]),
   uc |-> IndexOf(u, MCIndices.u[1])]

MCDatabases ==
  <<Database(<<<<1, 0>>, <<Null, 1>>, <<0, Null>>, <<1, 2>>>>, <<<<1>>, <<Null>>, <<2>>>>),
   Database(<<<<2, 1>>, <<2, 1>>>>, << >>),
   Database(<<<<Null, Null>>>>, <<<<Null>>, <<0>>, <<0>>>>)>>

-----------------------------------------------------------------------------
(* Expressions. *)

E0 == ColumnExpr(0, 0)
C(cursor, column) == ColumnExpr(cursor, column)
I(n) == [E0 EXCEPT !.op = "Integer", !.value = n]
N == [E0 EXCEPT !.op = "Null"]
B(op, x, y) == [E0 EXCEPT !.op = op, !.left = x, !.right = y]
U(op, x) == B(op, x, Null)
L(op, x, list) == [E0 EXCEPT !.op = op, !.left = x, !.list = list]
F(name, list) == [L("Function", Null, list) EXCEPT !.value = name]
Agg(name, list) == [L("AggFunction", Null, list) EXCEPT !.value = name, !.agg = TRUE]
Unique(e) == [e EXCEPT !.op2 = "distinct"]
When(x, list, else) == [L("Case", x, list) EXCEPT !.right = else]

a == C(0, 0)
b == C(0, 1)
rowid == C(0, -1)
c == C(1, 0)

-----------------------------------------------------------------------------
(* Queries. *)

Item(tab, iCursor) ==
  [tab |-> tab, iCursor |-> iCursor, left |-> FALSE, ephemeral |-> FALSE, colUsed |-> {}, select |-> Null,
   regReturn |-> 0, addrFillSub |-> 0, on |-> Null, using |-> << >>]
T == Item("t", 0)
Uu == Item("u", 1)
Sub(s, iCursor) == [Item("", iCursor) EXCEPT !.select = s, !.ephemeral = TRUE]
Left(item, on) == [item EXCEPT !.left = TRUE, !.on = on]

Q(list, from) ==
  [list |-> list, from |-> from, where |-> Null, groupBy |-> << >>, having |-> Null, orderBy |-> << >>,
   limit |-> Null, offset |-> Null, distinct |-> FALSE, agg |-> \E i \in DOMAIN list : \E n \in Nodes(list[i]) : n.agg,
   prior |-> Null, op |-> "", iLimit |-> 0, iOffset |-> 0, compound |-> FALSE]
Where(q, e) == [q EXCEPT !.where = e]
Asc(q, k) == [e |-> q.list[k], desc |-> FALSE, col |-> k]
Desc(q, k) == [Asc(q, k) EXCEPT !.desc = TRUE]

\* The columns that every table's part in a query needs.
ColUsed(q, iCursor) ==
  LET exprs == {q.list[i] : i \in DOMAIN q.list} \union {q.groupBy[i] : i \in DOMAIN q.groupBy}
               \union {q.where, q.having} \union {q.orderBy[i].e : i \in DOMAIN q.orderBy}
               \union {q.from[i].on : i \in DOMAIN q.from}
      nodes == UNION {Nodes(e) : e \in exprs}
  IN  {n.iColumn : n \in {m \in nodes : m.op = "Column" /\ m.iTable = iCursor /\ m.iColumn >= 0}}
      \union UNION {{u.iRight : u \in {q.from[i].using[k] : k \in DOMAIN q.from[i].using}} :
                      i \in {j \in DOMAIN q.from : q.from[j].iCursor = iCursor}}
RECURSIVE Resolved(_)
Resolved(q) ==
  IF q = Null THEN Null
  ELSE [q EXCEPT !.from = [i \in DOMAIN @ |-> [@[i] EXCEPT !.colUsed = ColUsed(q, q.from[i].iCursor),
                                                           !.select = Resolved(@)]],
                 !.prior = Resolved(@)]
Query(q, nTab) == [select |-> Resolved(q), nTab |-> nTab]

\* Conditions on one table.
Conditions ==
  <<B("Eq", a, I(1)), B("Eq", I(2), a), B("Lt", a, I(2)), B("Le", I(0), a), B("Ge", a, b), U("IsNull", a),
   U("NotNull", a), B("Is", a, N), B("IsNot", a, I(1)), U("Not", B("Gt", a, U("Uminus", I(1)))),
   B("Eq", rowid, I(2)), B("Gt", rowid, I(1)), B("Le", rowid, b), L("In", rowid, <<I(1), a, I(3)>>),
   L("In", a, <<I(0), I(1), N>>), U("Not", L("In", a, <<b, I(0)>>)), L("In", b, << >>),
   U("Not", L("In", b, <<N, I(1)>>)),
   B("Or", B("Eq", a, I(1)), B("Gt", b, I(0))), B("Or", B("Eq", a, I(1)), B("Eq", rowid, I(2))),
   B("Or", B("Lt", a, I(2)), B("Or", U("IsNull", a), B("Ge", rowid, I(2)))),
   U("Not", L("Between", a, <<I(0), b>>)), U("Uplus", a), N, I(1), B("Ne", rowid, I(1)),
   When(a, <<I(1), b, I(2), N>>, I(1)), L("Coalesce", Null, <<a, b, I(0)>>)>>

\* Expressions of one table.
Expressions ==
  <<B("Add", a, b), B("Subtract", a, I(1)), B("Multiply", I(2), b), B("Divide", I(2), a), B("Remainder", b, I(2)),
    U("Uminus", a), U("Not", a), B("Or", a, B("Lt", b, I(1))), B("Is", a, b), B("IsNot", a, b), U("IsNull", b),
    L("Between", a, <<I(0), b>>), L("In", a, <<b, N>>), L("In", a, <<I(0), I(2)>>), L("Coalesce", Null, <<b, a, I(7)>>),
    F("max", <<a, b>>), F("min", <<b, I(1)>>), When(Null, <<B("Lt", a, b), I(3), U("IsNull", a), N>>, b),
    When(a, <<b, I(4)>>, Null)>>

Scans == [i \in DOMAIN Conditions |-> Query(Where(Q(<<rowid, a, b>>, <<T>>), Conditions[i]), 1)]
Covered == [i \in 1 .. 4 |-> Query(Where(Q(<<a>>, <<T>>), Conditions[i]), 1)]
Computed == [i \in DOMAIN Expressions |-> Query(Q(<<Expressions[i], rowid>>, <<T>>), 1)]


\* Joins: the conditions are terms of the WHERE clause in the end.
U2 == Item("u", 2)
Joins ==
  <<Query(Q(<<a, c>>, <<T, Uu>>), 2),
   Query(Where(Q(<<b, c>>, <<T, Uu>>), B("Eq", a, c)), 2),
   Query(Q(<<rowid, c>>, <<T, [Uu EXCEPT !.on = B("Lt", c, a)]>>), 2),
   Query(Q(<<a, c>>, <<T, Left(Uu, B("Eq", c, a))>>), 2),
   Query(Q(<<a, c, C(1, -1)>>, <<T, Left(Uu, B("Eq", C(1, -1), b))>>), 2),
   Query(Q(<<rowid, c>>, <<T, Left(Uu, B("Gt", a, I(0)))>>), 2),
   Query(Q(<<b, c>>, <<T, [Left(Uu, Null) EXCEPT !.using = <<[iTable |-> 0, iColumn |-> 0, iRight |-> 0]>>]>>), 2),
   Query(Q(<<a, c, C(2, 0)>>, <<T, Left(Uu, B("Eq", c, a)), Left(U2, B("Eq", C(2, 0), c))>>), 3),
   Query(Where(Q(<<a, c>>, <<Uu, T>>), B("Or", B("Eq", a, c), B("Eq", rowid, I(1)))), 2)>>


\* ORDER BY, LIMIT, OFFSET and DISTINCT.
Order(q, terms) == [q EXCEPT !.orderBy = terms]
Limit(q, n, skip) == [q EXCEPT !.limit = n, !.offset = skip]
By(e, desc) == [e |-> e, desc |-> desc, col |-> 0]
TwoCol == Q(<<a, b>>, <<T>>)
OneCol == Q(<<a>>, <<T>>)
Sorts ==
  <<Query(Order(TwoCol, <<Asc(TwoCol, 1)>>), 1),
   Query(Order(TwoCol, <<Desc(TwoCol, 1), Asc(TwoCol, 2)>>), 1),
   Query(Order(TwoCol, <<By(B("Add", a, b), FALSE), By(rowid, TRUE)>>), 1),
   Query(Where(Order(TwoCol, <<By(rowid, TRUE)>>), B("Lt", rowid, I(4))), 1),
   Query(Limit(Order(TwoCol, <<Asc(TwoCol, 1)>>), I(2), Null), 1),
   Query(Limit(Order(TwoCol, <<Desc(TwoCol, 2)>>), I(1), I(1)), 1),
   Query(Limit(Order(TwoCol, <<Desc(TwoCol, 2)>>), I(0), Null), 1),
   Query(Limit(Order(TwoCol, <<Asc(TwoCol, 1)>>), U("Uminus", I(1)), I(1)), 1),
   Query(Limit(TwoCol, I(2), U("Uminus", I(1))), 1),
   Query(Limit(TwoCol, B("Add", I(1), I(1)), I(1)), 1),
   Query(Limit(TwoCol, I(5), I(3)), 1),
   Query(Limit(TwoCol, N, Null), 1),
   Query(Limit(TwoCol, I(1), N), 1)>>
Distincts ==
  <<Query([OneCol EXCEPT !.distinct = TRUE], 1),
   Query([TwoCol EXCEPT !.distinct = TRUE], 1),
   Query([Where(OneCol, B("Ge", a, I(1))) EXCEPT !.distinct = TRUE], 1),
   Query(Limit([OneCol EXCEPT !.distinct = TRUE], I(1), I(1)), 1),
   Query([Order(OneCol, <<Asc(OneCol, 1)>>) EXCEPT !.distinct = TRUE], 1),
   Query([Order(TwoCol, <<Asc(TwoCol, 1), Asc(TwoCol, 2)>>) EXCEPT !.distinct = TRUE], 1),
   Query(Limit([Order(OneCol, <<Asc(OneCol, 1)>>) EXCEPT !.distinct = TRUE], I(1), I(1)), 1)>>


\* Compound queries: the last SELECT holds ORDER BY and LIMIT.
Then(q, op, r) == [r EXCEPT !.prior = q, !.op = op]
SelC == Q(<<c>>, <<Uu>>)
SelB == Q(<<C(2, 1)>>, <<Item("t", 2)>>)
ByCol(k, desc) == [e |-> Null, desc |-> desc, col |-> k]
Ops == <<"ALL", "UNION", "EXCEPT", "INTERSECT">>
Each(Of(_)) == [i \in DOMAIN Ops |-> Of(Ops[i])]
Compounds ==
  Each(LAMBDA op : Query(Then(OneCol, op, SelC), 2))
  \o Each(LAMBDA op : Query(Order(Then(OneCol, op, SelC), <<ByCol(1, TRUE)>>), 2))
  \o Each(LAMBDA op : Query(Limit(Then(OneCol, op, SelC), I(2), I(1)), 2))
  \o Each(LAMBDA op : Query(Limit(Order(Then(OneCol, op, SelC), <<ByCol(1, FALSE)>>), I(2), I(1)), 2))
  \o <<Query(Then(Then(OneCol, "UNION", SelC), "EXCEPT", SelB), 3),
       Query(Then(Then(OneCol, "ALL", SelC), "UNION", SelB), 3),
       Query(Then(Then(OneCol, "EXCEPT", SelC), "ALL", SelB), 3),
       Query(Order(Then(Then(OneCol, "UNION", SelC), "ALL", SelB), <<ByCol(1, FALSE)>>), 3)>>

\* Subqueries in the FROM clause.
S1(col) == C(1, col)
Inner == Q(<<B("Add", a, I(1)), b>>, <<T>>)
Subqueries ==
  <<Query(Where(Q(<<S1(0), S1(1)>>, <<Sub(Inner, 1)>>), B("Gt", S1(0), I(1))), 2),
   Query(Q(<<S1(0), C(2, 0)>>, <<Sub(Inner, 1), U2>>), 3),
   Query(Q(<<S1(0)>>, <<Sub([OneCol EXCEPT !.distinct = TRUE], 1)>>), 2),
   Query(Order(Q(<<S1(0)>>, <<Sub([OneCol EXCEPT !.distinct = TRUE], 1)>>), <<By(S1(0), TRUE)>>), 2),
   Query(Where(Q(<<S1(1)>>, <<Sub(Limit(Order(Inner, <<By(rowid, TRUE)>>), I(1), Null), 1)>>), U("NotNull", S1(0))), 2),
   Query(Q(<<S1(1)>>, <<Sub(Limit(Order(Inner, <<By(rowid, TRUE)>>), I(2), Null), 1)>>), 2),
   Query(Q(<<C(2, 0), S1(0)>>, <<U2, Left(Sub(Inner, 1), B("Eq", S1(0), C(2, 0)))>>), 3),
   Query(Where(Q(<<C(3, 0)>>, <<Sub(Then(OneCol, "ALL", Q(<<C(2, 0)>>, <<U2>>)), 3)>>), B("Ge", C(3, 0), I(1))), 4),
   Query(Order(Q(<<C(3, 0)>>, <<Sub(Then(OneCol, "ALL", Q(<<C(2, 0)>>, <<U2>>)), 3)>>), <<[ByCol(1, FALSE) EXCEPT !.e = C(3, 0)]>>), 4),
   Query(Q(<<C(3, 0)>>, <<Sub(Then(OneCol, "UNION", Q(<<C(2, 0)>>, <<U2>>)), 3)>>), 4),
   Query(Q(<<C(3, 0)>>, <<Sub(Order(Then(OneCol, "EXCEPT", Q(<<C(2, 0)>>, <<U2>>)), <<ByCol(1, TRUE)>>), 3)>>), 4)>>

\* Aggregates.
Aggregates ==
  <<Query(Q(<<Agg("count", << >>)>>, <<T>>), 1),
   Query(Q(<<Agg("count", << >>)>>, <<Uu>>), 2),
   Query(Q(<<Agg("count", <<a>>), Agg("sum", <<b>>), Agg("min", <<a>>), Agg("max", <<b>>)>>, <<T>>), 1),
   Query(Q(<<Agg("min", <<a>>)>>, <<T>>), 1),
   Query(Q(<<Agg("max", <<a>>)>>, <<T>>), 1),
   Query(Where(Q(<<Agg("min", <<a>>)>>, <<T>>), B("Gt", a, I(0))), 1),
   Query(Q(<<Unique(Agg("count", <<a>>)), B("Add", Agg("sum", <<a>>), I(1))>>, <<T>>), 1),
   Query([Q(<<Agg("sum", <<B("Multiply", a, b)>>)>>, <<T>>) EXCEPT !.having = B("Gt", Agg("count", << >>), I(1))], 1),
   Query([Q(<<a, Agg("count", << >>)>>, <<T>>) EXCEPT !.groupBy = <<a>>], 1),
   Query([Q(<<a, b>>, <<T>>) EXCEPT !.groupBy = <<a, b>>, !.having = B("Ge", Agg("count", << >>), I(1))], 1),
   Query([Q(<<a, Agg("count", <<a>>), Agg("max", <<a>>)>>, <<T>>) EXCEPT !.groupBy = <<a>>, !.orderBy = <<By(a, TRUE)>>], 1),
   Query(Limit([Q(<<a, Agg("count", << >>)>>, <<T>>) EXCEPT !.groupBy = <<a>>], I(1), I(1)), 1),
   Query([Where(Q(<<B("Add", a, I(1)), Agg("count", << >>)>>, <<T, Uu>>), B("Eq", a, c)) EXCEPT !.groupBy = <<a>>], 2),
   Query(Q(<<Agg("sum", <<S1(0)>>)>>, <<Sub([OneCol EXCEPT !.distinct = TRUE], 1)>>), 2),
   Query(Q(<<S1(0)>>, <<Sub([Q(<<Agg("count", << >>)>>, <<T>>) EXCEPT !.groupBy = <<a>>], 1)>>), 2)>>

MCQueries == Scans \o Covered \o Computed \o Joins \o Sorts \o Distincts \o Compounds \o Subqueries \o Aggregates
=============================================================================
