------------------------------ MODULE MCSearch ------------------------------
(***************************************************************************)
(* Small instances of the R-tree and of four parts of full-text search: the*)
(* index a table's writes keep, the segment B-trees, the query parser and  *)
(* query evaluation.  They do not share state: a behaviour takes steps of  *)
(* one of them, and the others stay in an initial state.                   *)
(***************************************************************************)
EXTENDS Rtree, Fts3Index, Fts3Query, Fts3Segments, Fts3Expr

VARIABLE part   \* the component that runs

-----------------------------------------------------------------------------
(* Rtree: the entries that make the tree before the writes that are looked *)
(* at.                                                                     *)
MCBoxes == {<<1, 2, 1, 2>>, <<2, 1, 0, 0>>}
Spread == <<<<0, 1, 0, 1>>, <<5, 6, 5, 6>>, <<0, 1, 5, 6>>, <<5, 6, 0, 1>>, <<2, 4, 2, 4>>,
            <<0, 6, 3, 3>>, <<3, 3, 0, 6>>, <<1, 1, 1, 1>>, <<6, 6, 6, 6>>, <<2, 2, 4, 4>>,
            <<4, 5, 1, 2>>, <<0, 2, 2, 2>>, <<3, 4, 5, 5>>, <<6, 6, 2, 3>>, <<1, 3, 0, 0>>,
            <<2, 3, 6, 6>>, <<5, 5, 3, 4>>, <<0, 0, 4, 5>>, <<4, 4, 4, 4>>, <<1, 2, 1, 3>>,
            <<3, 5, 0, 2>>, <<0, 3, 0, 3>>, <<6, 6, 0, 0>>, <<2, 5, 5, 6>>, <<1, 1, 5, 5>>,
            <<4, 6, 4, 6>>, <<0, 0, 0, 0>>, <<3, 3, 3, 3>>, <<5, 6, 1, 1>>, <<2, 2, 1, 1>>>>
First(n) == SubSeq(Spread, 1, n)
At(is) == [i \in DOMAIN is |-> Spread[is[i]]]
\* The root has three children, one of them at its minimum.
Three == First(19) \o At(<<13, 5, 5, 22, 13, 13, 9, 5, 1, 5, 5>>) \o <<<<15>>>> \o At(<<5>>)
MCTrees == {[made |-> <<>>, writes |-> 0],
            [made |-> First(8), writes |-> 2], [made |-> First(26), writes |-> 1],
            [made |-> First(27), writes |-> 1],
            [made |-> Three, writes |-> 1]}
Scans(cons) == [rowid |-> NULL, cons |-> cons]
MCQueries == {Scans(<<>>), Scans(<<[op |-> "GE", c |-> 1, v |-> 2], [op |-> "LT", c |-> 4, v |-> 5]>>),
              Scans(<<[op |-> "LE", c |-> 3, v |-> 1], [op |-> "GT", c |-> 2, v |-> 2]>>),
              Scans(<<[op |-> "EQ", c |-> 2, v |-> 6]>>),
              Scans(<<[op |-> "MATCH", c |-> 1, v |-> <<2, 3, 2, 3>>]>>),
              [rowid |-> 3, cons |-> <<>>]}
MCScanned == {Scans(<<[op |-> "EQ", c |-> 2, v |-> 6]>>), [rowid |-> 3, cons |-> <<>>]}

-----------------------------------------------------------------------------
(* Fts3Index: two terms, and texts in which a term has different positions,*)
(* so that a stale entry is not a current one.                             *)
MCTexts == {<<{}, {}>>, <<{1}, {}>>, <<{2}, {1}>>}

-----------------------------------------------------------------------------
(* Fts3Query: tables of one segment, and of three in which rows were       *)
(* deleted, changed and added; phrases, AND, OR, NOT and NEAR over the     *)
(* tokens a, b, c, a prefix of four terms and a token that must be the     *)
(* first of its column; costs that defer none, one or most tokens; an      *)
(* index and a query in ascending order, or one of them in descending.     *)
(* The document size is one page.                                          *)
(* A NEAR is the whole query or absent, and no phrase is deferred in part  *)
(* below an OR: README.md says what fails there.                           *)
Plain(term) == [terms |-> <<term>>, look |-> TRUE, first |-> FALSE]
TokA == Plain("a")
TokB == Plain("b")
TokC == Plain("c")
AnyTok == [terms |-> <<"a", "b", "c", "d">>, look |-> FALSE, first |-> FALSE]
FirstB == [TokB EXCEPT !.first = TRUE]
MCToks == {TokA, TokB, TokC, AnyTok, FirstB}

MCDoc == <<
  <<<<"a", "b">>, <<"b">>>>,
  <<<<"b", "a", "c">>, <<>>>>,
  <<<<"a", "c", "b", "b", "a">>, <<"b">>>>,
  <<<<"c">>, <<"a", "b">>>>,
  <<<<"b">>, <<"d", "c">>>> >>

Leafs(parent, toks, col) ==
  [type |-> "PHRASE", parent |-> parent, left |-> 0, right |-> 0, near |-> 0, toks |-> toks, col |-> col]
Op(type, parent, l, r, near) ==
  [type |-> type, parent |-> parent, left |-> l, right |-> r, near |-> near, toks |-> <<>>, col |-> 2]

One(toks, col) == <<Leafs(0, toks, col)>>
Two(op, near, a, b) == <<Op(op, 0, 2, 3, near), Leafs(1, a, 2), Leafs(1, b, 2)>>
LeftDeep(op, in, near, a, b, c) ==
  <<Op(op, 0, 2, 3, near), Op(in, 1, 4, 5, near), Leafs(1, c, 2), Leafs(2, a, 2), Leafs(2, b, 2)>>
RightDeep(op, in, near, a, b, c) ==
  <<Op(op, 0, 2, 3, near), Leafs(1, a, 2), Op(in, 1, 4, 5, near), Leafs(3, b, 2), Leafs(3, c, 2)>>

MCExprs == {
  One(<<TokA, TokB>>, 1),
  One(<<AnyTok>>, 2),
  Two("AND", 0, <<TokA, TokB>>, <<TokC>>),
  Two("NEAR", 1, <<TokA>>, <<TokC>>),
  LeftDeep("NEAR", "NEAR", 1, <<TokA>>, <<TokB>>, <<TokC>>),
  LeftDeep("NOT", "OR", 0, <<TokA>>, <<FirstB>>, <<TokC>>),
  LeftDeep("OR", "AND", 0, <<TokA>>, <<TokB>>, <<TokC>>),
  RightDeep("OR", "AND", 0, <<TokA>>, <<TokB>>, <<TokC>>),
  RightDeep("AND", "OR", 0, <<TokA>>, <<TokB>>, <<TokC>>) }

Filled(x, y, z) == <<(1 :> MCDoc[x]) @@ (2 :> MCDoc[y]) @@ (4 :> MCDoc[z])>>
Changed(x, y) == Filled(x, y, x) \o <<1 :> <<>>, (2 :> MCDoc[x]) @@ (3 :> MCDoc[x])>>
MCTables == {Filled(2, 1, 5), Filled(4, 3, 2), Changed(3, 1)}

Costing(free, rest) == [t \in MCToks |-> IF t = free THEN 0 ELSE rest]
MCCosts == {Costing(TokA, 0), Costing(TokA, 4), Costing(TokB, 1), Costing(TokC, 3)}
MCOrders == (BOOLEAN \X BOOLEAN) \ {<<TRUE, TRUE>>}

-----------------------------------------------------------------------------
(* Fts3Segments.                                                           *)
\* The terms of one and two letters.
SegWords == UNION {[1..n -> {1, 2}] : n \in {1, 2}}

MCBatches == {SegWords, {<<1, 1>>, <<1, 2>>, <<2, 2>>}, {<<1>>, <<2>>, <<2, 1>>}}
MCQuotas == {<<1, 2>>, <<4, 3>>}

-----------------------------------------------------------------------------
\* What a component that does not run stays at.
Idle(name) ==
  part # name => CASE name = "rtree" -> script = <<>>
                   [] name = "query" -> /\ table = Filled(2, 1, 5) /\ expr = One(<<AnyTok>>, 2)
                                        /\ cost = Costing(TokA, 0) /\ order = <<FALSE, FALSE>>
                   [] name = "expr" -> parens

SearchInit ==
  /\ part \in {"rtree", "index", "segments", "expr", "query"}
  /\ RtInit /\ Idle("rtree")
  /\ Init
  /\ SegsInit
  /\ ExprInit /\ Idle("expr")
  /\ QInit /\ Idle("query")

SearchNext ==
  \/ part = "rtree" /\ RtNext /\ UNCHANGED <<part, vars, segVars, exprVars, qVars>>
  \/ part = "index" /\ Next /\ UNCHANGED <<part, rtVars, segVars, exprVars, qVars>>
  \/ part = "segments" /\ SegsNext /\ UNCHANGED <<part, rtVars, vars, exprVars, qVars>>
  \/ part = "expr" /\ TypeLexeme /\ UNCHANGED <<part, rtVars, vars, segVars, qVars>>
  \/ part = "query" /\ QNext /\ UNCHANGED <<part, rtVars, vars, segVars, exprVars>>

SearchSpec == SearchInit /\ [][SearchNext]_<<part, rtVars, vars, segVars, exprVars, qVars>>
=============================================================================
