----------------------------- MODULE Fts3Query -----------------------------
(***************************************************************************)
(* A full-text query of an FTS table (fts3.go, with the readers and the    *)
(* deferred tokens of fts3_write.go): the doclists of the tokens of a      *)
(* phrase are read from the segments and merged, the nodes of the          *)
(* expression advance from docid to docid, and every row found is tested   *)
(* again for the tokens that were too costly to read and for NEAR.         *)
(* matchinfo() rescans a part of the expression in the middle of the query *)
(* and offsets() and snippet() ask for the positions of a phrase.          *)
(*                                                                         *)
(* A position is a pair <<column, position>>, a position list a set of     *)
(* them.  A doclist is a sequence of [docid, pos, pad]: pad counts the     *)
(* zero bytes left behind a list that was shortened in place.  The tree of *)
(* the expression is a sequence of nodes, the root first.  Memory does not *)
(* run out and the shadow tables are not corrupt.                          *)
(***************************************************************************)
EXTENDS Integers, FiniteSets, Sequences, SequencesExt, FiniteSetsExt, TLC

CONSTANTS
  nColumn,     \* columns of the table
  nOutput,     \* slots of TermSelect.aaOutput (16 in the code)
  Tables,      \* sequences of segments, the oldest first: docid -> document
  Exprs,       \* query expressions
  Costs,       \* functions from tokens to the overflow pages of their doclist
  Orders       \* pairs <<bDescIdx, bDesc>>

ASSUME Fts3QueryAssumption == nColumn \in Nat \ {0} /\ nOutput \in Nat \ {0, 1}

VARIABLES
  table,       \* the table
  expr,        \* the expression tree
  cost,        \* the cost of each token
  order,       \* bDescIdx, bDesc
  fq,          \* the cursor and the state of the nodes and phrases
  seen         \* the docids returned so far

qVars == <<table, expr, cost, order, fq, seen>>

bDescIdx == order[1]
bDesc == order[2]
Columns == 0..nColumn - 1
NoList == [at |-> -1, pos |-> {}]

IsPhrase(n) == expr[n].type = "PHRASE"
Phrases == {n \in DOMAIN expr : IsPhrase(n)}
Left(n) == expr[n].left
Right(n) == expr[n].right
Parent(n) == expr[n].parent
nToken(n) == Len(expr[n].toks)
IsNearRoot(n) == expr[n].type = "NEAR" /\ (Parent(n) = 0 \/ expr[Parent(n)].type # "NEAR")
Before(a, b, desc) == IF desc THEN a > b ELSE a < b
Bad(s, c) == IF c THEN [s EXCEPT !.bad = TRUE] ELSE s

-----------------------------------------------------------------------------
(* The content of the table and its segments.                                *)
QDocids == UNION {DOMAIN table[k] : k \in DOMAIN table}
LastOf(d, k) == LET ks == {j \in 1..k : d \in DOMAIN table[j]} IN IF ks = {} THEN 0 ELSE Max(ks)
DocAt(d, k) == LET j == LastOf(d, k) IN IF j = 0 THEN <<>> ELSE table[j][d]
Row(d) == DocAt(d, Len(table))
Rows == {d \in QDocids : Row(d) # <<>>}

Spots(doc) == IF doc = <<>> THEN {} ELSE UNION {{<<c, p - 1>> : p \in DOMAIN doc[c + 1]} : c \in Columns}
Places(doc, term) == {s \in Spots(doc) : doc[s[1] + 1][s[2] + 1] = term}

\* A segment has an entry for the terms of the new and of the old document.
SegDoclist(k, term) ==
  LET has(d) == Places(table[k][d], term) # {} \/ Places(DocAt(d, k - 1), term) # {}
      ids == SetToSortSeq({d \in DOMAIN table[k] : has(d)},
                          LAMBDA a, b : Before(a, b, bDescIdx))
  IN [i \in DOMAIN ids |-> [docid |-> ids[i], pos |-> Places(table[k][ids[i]], term), pad |-> 0]]

fts3ColumnFilter(pos, col) == IF col >= nColumn THEN pos ELSE {p \in pos : p[1] = col}
sqlite3Fts3FirstFilter(pos, first) == IF first THEN {p \in pos : p[2] = 0} ELSE pos

\* The segments' doclists of one term, the newest segment first: of entries
\* with one docid the newest counts, and one left without positions is skipped.
RECURSIVE MergeSegments(_, _, _)
MergeSegments(segs, col, first) ==
  LET live == {i \in DOMAIN segs : segs[i] # <<>>}
      top  == CHOOSE i \in live : \A j \in live :
                LET a == segs[i][1].docid
                    b == segs[j][1].docid
                IN Before(a, b, bDescIdx) \/ (a = b /\ i <= j)
      id   == segs[top][1].docid
      pos  == sqlite3Fts3FirstFilter(fts3ColumnFilter(segs[top][1].pos, col), first)
      rest == MergeSegments([i \in DOMAIN segs |->
                IF i \in live /\ segs[i][1].docid = id THEN Tail(segs[i]) ELSE segs[i]], col, first)
  IN IF live = {} THEN <<>>
     ELSE IF pos = {} THEN rest
     ELSE <<[docid |-> id, pos |-> pos, pad |-> 0]>> \o rest

TermDoclist(term, col, first) ==
  MergeSegments([i \in DOMAIN table |-> SegDoclist(Len(table) + 1 - i, term)], col, first)

-----------------------------------------------------------------------------
(* Position lists and doclists.                                              *)
PosOf(list, c) == SetToSortSeq({p[2] : p \in {q \in list : q[1] = c}}, <)

\* One column of fts3PoslistPhraseMerge: two cursors over the positions.
RECURSIVE PairUp(_, _, _, _, _, _)
PairUp(l, r, n, saveLeft, exact, acc) ==
  LET hit == r[1] = l[1] + n \/ (~exact /\ r[1] > l[1] /\ r[1] <= l[1] + n)
      acc1 == IF hit THEN acc \cup {IF saveLeft THEN l[1] ELSE r[1]} ELSE acc
  IN IF (~saveLeft /\ r[1] <= l[1] + n) \/ r[1] <= l[1]
     THEN IF Len(r) = 1 THEN acc1 ELSE PairUp(l, Tail(r), n, saveLeft, exact, acc1)
     ELSE IF Len(l) = 1 THEN acc1 ELSE PairUp(Tail(l), r, n, saveLeft, exact, acc1)

fts3PoslistPhraseMerge(n, saveLeft, exact, l, r) ==
  LET both == {p[1] : p \in l} \cap {p[1] : p \in r}
  IN UNION {{<<c, i>> : i \in PairUp(PosOf(l, c), PosOf(r, c), n, saveLeft, exact, {})} : c \in both}

fts3PoslistNearMerge(nRight, nLeft, l, r) ==
  fts3PoslistPhraseMerge(nRight, FALSE, FALSE, l, r) \cup fts3PoslistPhraseMerge(nLeft, TRUE, FALSE, r, l)

RECURSIVE fts3DoclistOrMerge(_, _)
fts3DoclistOrMerge(a, b) ==
  IF a = <<>> THEN b ELSE IF b = <<>> THEN a
  ELSE IF a[1].docid = b[1].docid
  THEN <<[a[1] EXCEPT !.pos = @ \cup b[1].pos]>> \o fts3DoclistOrMerge(Tail(a), Tail(b))
  ELSE IF Before(a[1].docid, b[1].docid, bDescIdx) THEN <<a[1]>> \o fts3DoclistOrMerge(Tail(a), b)
  ELSE <<b[1]>> \o fts3DoclistOrMerge(a, Tail(b))

RECURSIVE fts3DoclistPhraseMerge(_, _, _)
fts3DoclistPhraseMerge(n, l, r) ==
  LET pos == fts3PoslistPhraseMerge(n, FALSE, TRUE, l[1].pos, r[1].pos)
      rest == fts3DoclistPhraseMerge(n, Tail(l), Tail(r))
  IN IF l = <<>> \/ r = <<>> THEN <<>>
     ELSE IF l[1].docid = r[1].docid
     THEN IF pos = {} THEN rest ELSE <<[r[1] EXCEPT !.pos = pos]>> \o rest
     ELSE IF Before(l[1].docid, r[1].docid, bDescIdx) THEN fts3DoclistPhraseMerge(n, Tail(l), r)
     ELSE fts3DoclistPhraseMerge(n, l, Tail(r))

\* The doclists of the terms of a prefix are merged pair by pair, as one counts
\* in binary; the last slot takes what comes.
RECURSIVE fts3TermSelectMerge(_, _, _)
fts3TermSelectMerge(out, dl, i) ==
  LET merged == fts3DoclistOrMerge(dl, out[i])
  IN IF out[i] = <<>> THEN [out EXCEPT ![i] = dl]
     ELSE IF i = nOutput THEN [out EXCEPT ![i] = merged]
     ELSE fts3TermSelectMerge([out EXCEPT ![i] = <<>>], merged, i + 1)

fts3TermSelectFinishMerge(out) == FoldLeft(LAMBDA a, b : fts3DoclistOrMerge(b, a), <<>>, out)

fts3TermSelect(tok, col) ==
  LET lists == SelectSeq([i \in DOMAIN tok.terms |-> TermDoclist(tok.terms[i], col, tok.first)],
                         LAMBDA dl : dl # <<>>)
  IN fts3TermSelectFinishMerge(
       FoldLeft(LAMBDA out, dl : fts3TermSelectMerge(out, dl, 1),
                [i \in 1..nOutput |-> <<>>], lists))

-----------------------------------------------------------------------------
(* Starting a query.  Tokens are numbered from 1; iDoclistToken 0 is none.   *)
NewNode == [docid |-> 0, eof |-> FALSE, start |-> FALSE, def |-> FALSE]
NewPhrase(n) == [all |-> <<>>, next |-> 0, docid |-> 0, list |-> NoList, valid |-> FALSE,
                 free |-> FALSE, incr |-> FALSE, dtok |-> 0, readers |-> 1..nToken(n),
                 defer |-> {}, mi |-> <<>>]

fts3EvalPhraseMergeToken(s, n, i, dl) ==
  LET p == s.ph[n]
      all == IF p.dtok = 0 THEN dl
             ELSE IF p.dtok < i THEN fts3DoclistPhraseMerge(i - p.dtok, p.all, dl)
             ELSE fts3DoclistPhraseMerge(p.dtok - i, dl, p.all)
  IN [s EXCEPT !.ph[n].all = all, !.ph[n].dtok = IF i > @ THEN i ELSE @,
               !.ph[n].readers = @ \ {i}]

LoadToken(s, n, i) ==
  fts3EvalPhraseMergeToken(s, n, i, fts3TermSelect(expr[n].toks[i], expr[n].col))

fts3EvalPhraseLoad(s, n) ==
  FoldLeft(LAMBDA x, i : LoadToken(x, n, i), s, SetToSortSeq(s.ph[n].readers, <))

\* A phrase of one token that is looked up is read docid by docid.
fts3EvalPhraseStart(s, n, optOk) ==
  LET tok == expr[n].toks[1]
      incr == bDesc = bDescIdx /\ optOk /\ nToken(n) = 1 /\ 1 \in s.ph[n].readers
              /\ tok.look /\ ~tok.first
  IN IF incr
     THEN [s EXCEPT !.ph[n].all = TermDoclist(tok.terms[1], expr[n].col, FALSE), !.ph[n].incr = TRUE]
     ELSE [fts3EvalPhraseLoad(s, n) EXCEPT !.ph[n].incr = FALSE]

RECURSIVE fts3EvalStartReaders(_, _)
fts3EvalStartReaders(s, n) ==
  IF IsPhrase(n)
  THEN LET x == [s EXCEPT !.node[n].def = (s.ph[n].defer = 1..nToken(n))]
       IN fts3EvalPhraseStart(x, n, TRUE)
  ELSE LET x == fts3EvalStartReaders(fts3EvalStartReaders(s, Left(n)), Right(n))
       IN [x EXCEPT !.node[n].def = x.node[Left(n)].def /\ x.node[Right(n)].def]

\* The tokens that may be deferred, each with the root of its cluster: nothing
\* below a NOT, and a cluster of its own on each side of an OR.
RECURSIVE fts3EvalTokenCosts(_, _)
fts3EvalTokenCosts(root, n) ==
  LET or == expr[n].type = "OR"
  IN IF IsPhrase(n)
     THEN [i \in 1..nToken(n) |-> [n |-> n, i |-> i, root |-> root, nOvfl |-> cost[expr[n].toks[i]]]]
     ELSE IF expr[n].type = "NOT" THEN <<>>
     ELSE fts3EvalTokenCosts(IF or THEN Left(n) ELSE root, Left(n))
          \o fts3EvalTokenCosts(IF or THEN Right(n) ELSE root, Right(n))

OrRoots == {Left(n) : n \in {m \in DOMAIN expr : expr[m].type = "OR"}}
           \cup {Right(n) : n \in {m \in DOMAIN expr : expr[m].type = "OR"}}

\* The cheapest token is read, then those of phrases of several, until reading
\* the next one would cost more than looking at the rows (of one page each).
RECURSIVE ChooseTokens(_, _, _, _, _)
ChooseTokens(s, tc, ii, nMinEst, nLoad4) ==
  LET best == CHOOSE k \in DOMAIN tc : \A j \in DOMAIN tc :
                tc[k].nOvfl < tc[j].nOvfl \/ (tc[k].nOvfl = tc[j].nOvfl /\ k <= j)
      t == tc[best]
      most == (nMinEst + (nLoad4 \div 4) - 1) \div (nLoad4 \div 4)
      x == LoadToken(s, t.n, t.i)
      count == Len(x.ph[t.n].all)
      loads == IF ii < 12 THEN nLoad4 * 4 ELSE nLoad4
  IN IF tc = <<>> THEN s
     ELSE IF ii > 0 /\ t.nOvfl >= most
     THEN ChooseTokens([s EXCEPT !.ph[t.n].defer = @ \cup {t.i}, !.ph[t.n].readers = @ \ {t.i}],
                       RemoveAt(tc, best), ii + 1, nMinEst, nLoad4)
     ELSE IF ii = 0 \/ nToken(t.n) > 1
     THEN ChooseTokens(x, RemoveAt(tc, best), ii + 1,
                       IF ii = 0 \/ count < nMinEst THEN count ELSE nMinEst, loads)
     ELSE ChooseTokens(s, RemoveAt(tc, best), ii + 1, nMinEst, loads)

fts3EvalSelectDeferred(s, root, tc) ==
  LET mine == SelectSeq(tc, LAMBDA t : t.root = root)
  IN IF Len(mine) < 2 \/ (\A k \in DOMAIN mine : mine[k].nOvfl = 0) THEN s
     ELSE ChooseTokens(s, mine, 0, 0, 1)

fts3EvalStart ==
  LET s == [node |-> [n \in DOMAIN expr |-> NewNode], ph |-> [n \in Phrases |-> NewPhrase(n)],
            prev |-> 0, eof |-> FALSE, bad |-> FALSE]
      tc == fts3EvalTokenCosts(0, 1)
      x == IF Len(tc) > 1
           THEN FoldLeft(LAMBDA y, r : fts3EvalSelectDeferred(y, r, tc), s,
                         <<0>> \o SetToSortSeq(OrRoots, <))
           ELSE s
  IN fts3EvalStartReaders(x, 1)

HasDeferred(s) == \E n \in DOMAIN s.ph : s.ph[n].defer # {}

-----------------------------------------------------------------------------
(* Advancing.  A phrase's next is the entry to read when it runs along its   *)
(* doclist, and the entry it stands on when it runs against it.              *)
fts3EvalInvalidatePoslist(s, n) ==
  [s EXCEPT !.ph[n].list = IF s.ph[n].free THEN NoList ELSE @, !.ph[n].valid = FALSE,
            !.ph[n].free = FALSE]

StandOn(s, n, k, next) ==
  [s EXCEPT !.ph[n].next = next, !.ph[n].docid = s.ph[n].all[k].docid, !.ph[n].valid = TRUE,
            !.ph[n].list = [at |-> k, pos |-> s.ph[n].all[k].pos],
            !.node[n].eof = FALSE, !.node[n].docid = s.ph[n].all[k].docid]

AtEnd(s, n, list) ==
  [s EXCEPT !.ph[n].list = list, !.node[n].eof = TRUE, !.node[n].docid = s.ph[n].docid]

Along(s, n, atEnd) ==
  LET k == IF s.ph[n].next = 0 THEN 1 ELSE s.ph[n].next
  IN IF k > Len(s.ph[n].all) THEN AtEnd(s, n, atEnd) ELSE StandOn(s, n, k, k + 1)

sqlite3Fts3MsrIncrNext(s, n) == Along(s, n, NoList)

fts3EvalPhraseNext(s, n) ==
  LET p == s.ph[n]
      last == Len(p.all)
      k == IF p.next = 0 THEN last ELSE p.next - 1
  IN IF p.incr THEN sqlite3Fts3MsrIncrNext(s, n)
     ELSE IF bDesc = bDescIdx \/ last = 0 THEN Along(s, n, p.list)
     ELSE IF k = 0 THEN AtEnd(s, n, [at |-> 0, pos |-> {}])
     ELSE StandOn(s, n, k, k)

Precedes(s, a, b) == Before(s.node[a].docid, s.node[b].docid, bDesc)

RECURSIVE fts3EvalNextRow(_, _), Meet(_, _, _), CatchUp(_, _, _)
fts3EvalNextRow(s, n) ==
  LET type == expr[n].type
      l == Left(n)
      r == Right(n)
      s0 == Bad([s EXCEPT !.node[n].start = TRUE], s.node[n].eof)
      Take(x, docid, eof) == [x EXCEPT !.node[n].docid = docid, !.node[n].eof = eof]
  IN CASE type \in {"NEAR", "AND"} ->
            IF s.node[l].def \/ s.node[r].def
            THEN LET m == IF s.node[l].def THEN r ELSE l
                     x == fts3EvalNextRow(Bad(s0, s.node[l].def /\ s.node[r].def), m)
                 IN Take(x, x.node[m].docid, x.node[m].eof)
            ELSE LET x == Meet(fts3EvalNextRow(fts3EvalNextRow(s0, l), r), l, r)
                 IN Take(x, x.node[l].docid, x.node[l].eof \/ x.node[r].eof)
       [] type = "OR" ->
            LET onlyL(x) == x.node[r].eof \/ (~x.node[l].eof /\ Precedes(x, l, r))
                onlyR(x) == x.node[l].eof \/ (~x.node[r].eof /\ Precedes(x, r, l))
                unmet == (~s.node[l].start \/ ~s.node[r].start) /\ s.node[l].docid # s.node[r].docid
                s1 == Bad(s0, unmet)
                x == IF onlyL(s1) THEN fts3EvalNextRow(s1, l)
                     ELSE IF onlyR(s1) THEN fts3EvalNextRow(s1, r)
                     ELSE fts3EvalNextRow(fts3EvalNextRow(s1, l), r)
            IN Take(x, x.node[IF onlyL(x) THEN l ELSE r].docid, x.node[l].eof /\ x.node[r].eof)
       [] type = "NOT" ->
            LET x == fts3EvalNextRow(IF s.node[r].start THEN s0 ELSE fts3EvalNextRow(s0, r), l)
                y == IF x.node[l].eof THEN x ELSE CatchUp(x, l, r)
            IN Take(y, y.node[l].docid, y.node[l].eof)
       [] OTHER -> fts3EvalPhraseNext(fts3EvalInvalidatePoslist(s0, n), n)

Meet(s, l, r) ==
  IF s.node[l].eof \/ s.node[r].eof \/ s.node[l].docid = s.node[r].docid THEN s
  ELSE Meet(fts3EvalNextRow(s, IF Precedes(s, l, r) THEN l ELSE r), l, r)

CatchUp(s, l, r) ==
  IF ~s.node[r].eof /\ Precedes(s, r, l) THEN CatchUp(fts3EvalNextRow(s, r), l, r) ELSE s

-----------------------------------------------------------------------------
(* Testing a row: deferred tokens are looked up in the row itself, and the   *)
(* position lists of a NEAR are shortened in place.                          *)
RowPlaces(d, tok, col) ==
  LET here == UNION {Places(Row(d), tok.terms[i]) : i \in DOMAIN tok.terms}
  IN sqlite3Fts3FirstFilter(fts3ColumnFilter(here, col), tok.first)

\* The positions of the deferred tokens of a phrase, as those of its last one.
RECURSIVE DeferredPlaces(_, _, _, _)
DeferredPlaces(s, n, toks, acc) ==
  LET i == toks[1]
      here == RowPlaces(s.prev, expr[n].toks[i], expr[n].col)
      pos == IF acc.last = 0 THEN here ELSE fts3PoslistPhraseMerge(i - acc.last, FALSE, TRUE, acc.pos, here)
  IN IF toks = <<>> THEN acc
     ELSE IF pos = {} THEN [last |-> i, pos |-> {}]
     ELSE DeferredPlaces(s, n, Tail(toks), [last |-> i, pos |-> pos])

KeepPlaces(s, n, pos) ==
  IF pos = {} THEN [s EXCEPT !.ph[n].list = NoList, !.ph[n].valid = FALSE]
  ELSE [s EXCEPT !.ph[n].list = [at |-> 0, pos |-> pos], !.ph[n].valid = TRUE, !.ph[n].free = TRUE]

\* The places of the deferred tokens meet those of the others, up to token dtok.
WithDeferred(s, n, acc) ==
  LET dtok == s.ph[n].dtok
      list == s.ph[n].list.pos
  IN IF acc.last = 0 THEN s
     ELSE IF acc.pos = {} THEN KeepPlaces(s, n, {})
     ELSE IF dtok = 0 THEN [KeepPlaces(s, n, acc.pos) EXCEPT !.ph[n].docid = s.prev]
     ELSE KeepPlaces(s, n, IF dtok > acc.last
                           THEN fts3PoslistPhraseMerge(dtok - acc.last, FALSE, TRUE, acc.pos, list)
                           ELSE fts3PoslistPhraseMerge(acc.last - dtok, FALSE, TRUE, list, acc.pos))

fts3EvalDeferredPhrase(s, n) ==
  WithDeferred(s, n, DeferredPlaces(s, n, SetToSortSeq(s.ph[n].defer, <), [last |-> 0, pos |-> {}]))

\* The bytes of a position list without its terminator.
Bytes(pos) == Cardinality(pos) + 2 * Cardinality({p[1] : p \in pos} \ {0})

\* One phrase of a NEAR against the list of its neighbour, of nTok tokens.
ShortenList(s, n, pos) ==
  LET p == s.ph[n]
      s1 == Bad(s, p.list = NoList)
      s2 == [s1 EXCEPT !.bad = @ \/ ~p.valid, !.ph[n].list.pos = pos,
                       !.ph[n].all = IF p.list.at > 0
                                     THEN [@ EXCEPT ![p.list.at].pos = pos,
                                                    ![p.list.at].pad = @ + Bytes(p.list.pos) - Bytes(pos)]
                                     ELSE @]
  IN [s |-> IF pos = {} THEN s1 ELSE s2, hit |-> pos # {}]

fts3EvalNearTrim(s, nNear, near, nTok, n) ==
  ShortenList(s, n, fts3PoslistNearMerge(nNear + nToken(n), nNear + nTok, near, s.ph[n].list.pos))

\* The phrases of a NEAR from the first to the last, with the distance between
\* each and the next, for the tree leans to the left.
RECURSIVE NearPhrases(_), NearGaps(_)
NearPhrases(n) == IF IsPhrase(n) THEN <<n>> ELSE Append(NearPhrases(Left(n)), Right(n))
NearGaps(n) == IF IsPhrase(n) THEN <<>> ELSE Append(NearGaps(Left(n)), expr[n].near)

RECURSIVE TrimAlong(_, _, _, _, _)
TrimAlong(s, q, g, i, step) ==
  LET j == i + step
      GoOn(t) == IF t.hit THEN TrimAlong(t.s, q, g, j, step) ELSE t
  IN IF j \notin DOMAIN q THEN [s |-> s, hit |-> TRUE]
     ELSE GoOn(fts3EvalNearTrim(s, g[IF step = 1 THEN i ELSE j], s.ph[q[i]].list.pos, nToken(q[i]), q[j]))

\* Mutant: the phrases are trimmed from the first to the last only.
MutNearOneWay(s, n) ==
  IF ~IsNearRoot(n) \/ s.node[n].eof THEN [s |-> s, hit |-> TRUE]
  ELSE TrimAlong(s, NearPhrases(n), NearGaps(n), 1, 1)

fts3EvalNearTest(s, n) ==
  LET q == NearPhrases(n)
      g == NearGaps(n)
      AndBack(up) == IF up.hit THEN TrimAlong(up.s, q, g, Len(q), -1) ELSE up
  IN IF ~IsNearRoot(n) \/ s.node[n].eof THEN [s |-> s, hit |-> TRUE]
     ELSE AndBack(TrimAlong(s, q, g, 1, 1))

InvalidateNear(s, n) ==
  FoldLeft(LAMBDA x, m : IF x.node[m].docid = x.prev THEN fts3EvalInvalidatePoslist(x, m) ELSE x,
           s, NearPhrases(n))

TestPhrase(s, n) ==
  LET here == s.node[n].docid = s.prev
      s1 == IF s.node[n].def THEN fts3EvalInvalidatePoslist(s, n) ELSE Bad(s, s.ph[n].free)
      Listed(x) == [s |-> [x EXCEPT !.node[n].docid = s.prev], hit |-> x.ph[n].list # NoList]
  IN IF HasDeferred(s) /\ (here \/ s.node[n].def) THEN Listed(fts3EvalDeferredPhrase(s1, n))
     ELSE [s |-> s, hit |-> ~s.node[n].eof /\ here]

\* A NEAR that is not met leaves no positions behind.
TestedNear(t, n) == IF ~t.hit /\ IsNearRoot(n) THEN [t EXCEPT !.s = InvalidateNear(t.s, n)] ELSE t
TestedBoth(l, r, n) ==
  CASE expr[n].type = "OR"  -> [s |-> r.s, hit |-> l.hit \/ r.hit]
    [] expr[n].type = "NOT" -> [s |-> r.s, hit |-> ~r.hit]
    [] OTHER                -> TestedNear(IF r.hit THEN fts3EvalNearTest(r.s, n) ELSE r, n)

\* The right operand is not looked at if the left one decides.
RECURSIVE fts3EvalTestExpr(_, _)
TestRight(l, n) ==
  IF expr[n].type # "OR" /\ ~l.hit THEN TestedNear(l, n)
  ELSE TestedBoth(l, fts3EvalTestExpr(l.s, Right(n)), n)
fts3EvalTestExpr(s, n) ==
  IF IsPhrase(n) THEN TestPhrase(s, n) ELSE TestRight(fts3EvalTestExpr(s, Left(n)), n)

fts3EvalTestDeferredAndNear(s) == fts3EvalTestExpr(s, 1)

\* The cursor stands where a node does.
Arrived(s, n) == [s EXCEPT !.eof = s.node[n].eof, !.prev = s.node[n].docid]

RECURSIVE fts3EvalNext(_)
Passed(t) == IF t.hit THEN t.s ELSE fts3EvalNext(t.s)
TestRow(s) == IF s.eof THEN s ELSE Passed(fts3EvalTestDeferredAndNear(s))
fts3EvalNext(s) == TestRow(Arrived(fts3EvalNextRow(s, 1), 1))

-----------------------------------------------------------------------------
(* matchinfo(): a rescan of the NEAR (or the phrase alone) in mid-query.     *)
\* A phrase read docid by docid is loaded whole, from leaves in which the lists
\* are as a NEAR left them.
sqlite3Fts3MsrIncrRestart(s, n) ==
  [fts3EvalPhraseStart(s, n, FALSE) EXCEPT
     !.ph[n].all = [k \in DOMAIN s.ph[n].all |-> [s.ph[n].all[k] EXCEPT !.pad = 0]]]

RECURSIVE fts3EvalRestart(_, _)
fts3EvalRestart(s, n) ==
  LET x == fts3EvalInvalidatePoslist(s, n)
      y == IF s.ph[n].incr THEN sqlite3Fts3MsrIncrRestart(x, n) ELSE x
      Fresh(u) == [u EXCEPT !.node[n].docid = 0, !.node[n].eof = FALSE, !.node[n].start = FALSE]
  IN IF IsPhrase(n) THEN Fresh([y EXCEPT !.ph[n].next = 0, !.ph[n].docid = 0])
     ELSE fts3EvalRestart(fts3EvalRestart(Fresh(s), Left(n)), Right(n))

fts3EvalUpdateCounts(s, q) ==
  [s EXCEPT !.ph = [n \in DOMAIN @ |->
     IF n \notin Range(q) \/ @[n].list = NoList THEN @[n]
     ELSE [@[n] EXCEPT !.mi = [c \in Columns |->
            LET k == Cardinality({p \in s.ph[n].list.pos : p[1] = c})
            IN <<@[c][1] + k, @[c][2] + (IF k > 0 THEN 1 ELSE 0)>>]]]]

RECURSIVE NearRoot(_)
NearRoot(n) == IF Parent(n) # 0 /\ expr[Parent(n)].type = "NEAR" THEN NearRoot(Parent(n)) ELSE n

RECURSIVE ScanAll(_, _, _)
Counted(t, root, q) == ScanAll(IF t.hit THEN fts3EvalUpdateCounts(t.s, q) ELSE t.s, root, q)
CountRow(s, root, q) ==
  IF s.eof THEN s
  ELSE Counted(IF expr[root].type = "NEAR" THEN fts3EvalTestDeferredAndNear(s) ELSE [s |-> s, hit |-> TRUE], root, q)
ScanAll(s, root, q) == CountRow(Arrived(fts3EvalNextRow(s, root), root), root, q)

RECURSIVE ScanTo(_, _, _)
ScanTo(s, root, docid) ==
  LET Stop(x) == IF x.node[root].eof THEN Bad(x, TRUE)
                 ELSE IF x.node[root].docid = docid THEN x ELSE ScanTo(x, root, docid)
  IN Stop(fts3EvalNextRow(s, root))

fts3EvalGatherStats(s, n) ==
  LET root == NearRoot(n)
      q == NearPhrases(root)
      zero == [c \in Columns |-> <<0, 0>>]
      s1 == [s EXCEPT !.ph = [m \in DOMAIN @ |->
               IF m \in Range(q) THEN [@[m] EXCEPT !.mi = zero] ELSE @[m]]]
      s2 == ScanAll(fts3EvalRestart(s1, root), root, q)
      Return(x) == IF s.node[root].eof THEN [x EXCEPT !.node[root].eof = TRUE]
                   ELSE fts3EvalTestDeferredAndNear(ScanTo(fts3EvalRestart(x, root), root, s.node[root].docid)).s
  IN IF s.ph[n].mi # <<>> THEN s ELSE Return([s2 EXCEPT !.eof = FALSE, !.prev = s.prev])

-----------------------------------------------------------------------------
(* offsets() and snippet(): the positions of a phrase in the current row.    *)
\* sqlite3Fts3DoclistNext takes the zeros behind a shortened list for an entry.
StepNext(all, it) ==
  LET k == it.i + 1
  IN IF it.i > 0 /\ it.zeros = 1 /\ k <= Len(all)
     THEN [i |-> k, docid |-> it.docid, zeros |-> all[k].pad, eof |-> FALSE, odd |-> TRUE]
     ELSE IF it.i > 0 /\ it.zeros > 1
     THEN [it EXCEPT !.zeros = @ - 2, !.odd = TRUE]
     ELSE IF k > Len(all) THEN [it EXCEPT !.eof = TRUE]
     ELSE [i |-> k, zeros |-> all[k].pad, eof |-> FALSE, odd |-> FALSE,
           docid |-> IF it.i = 0 THEN all[k].docid ELSE it.docid + all[k].docid - all[it.i].docid]

StepPrev(all, it) ==
  LET k == IF it.i = 0 THEN Len(all) ELSE it.i - 1
  IN IF k = 0 THEN [it EXCEPT !.eof = TRUE]
     ELSE [it EXCEPT !.i = k, !.docid = all[k].docid, !.odd = FALSE]

RECURSIVE SeekRow(_, _, _)
SeekRow(s, all, it) ==
  IF it.eof \/ (it.i # 0 /\ ~Before(s.prev, it.docid, bDesc)) THEN it
  ELSE SeekRow(s, all, IF bDesc = bDescIdx THEN StepPrev(all, it) ELSE StepNext(all, it))

RECURSIVE BelowOr(_)
BelowOr(n) == Parent(n) # 0 /\ (expr[Parent(n)].type = "OR" \/ BelowOr(Parent(n)))

RECURSIVE ScanPhrase(_, _, _, _)
ScanPhrase(s, n, eof, docid) ==
  LET Stop(x) == IF x.node[n].eof \/ (~eof /\ x.node[n].docid = docid) THEN x ELSE ScanPhrase(x, n, eof, docid)
  IN Stop(fts3EvalNextRow(s, n))

\* The phrase is read afresh, all of it, when it was read docid by docid.
Reload(s, n) ==
  IF s.ph[n].incr THEN ScanPhrase(fts3EvalRestart(s, n), n, s.node[n].eof, s.node[n].docid) ELSE s

Elsewhere(s, n) == s.node[n].docid # s.prev \/ s.node[n].eof

\* The state after the call, and the positions in all columns.
SoughtRow(x, n, it) ==
  LET p == x.ph[n]
      lost == ~x.node[n].eof /\ p.list # NoList /\ p.list.at = 0 /\ p.all # <<>>
  IN [s |-> Bad(x, lost), pos |-> IF it.eof \/ it.docid # x.prev \/ it.odd THEN {} ELSE p.all[it.i].pos]
SeekPhrase(x, n, docid) ==
  LET p == x.ph[n]
      from == IF x.node[n].eof \/ p.list = NoList THEN 0 ELSE p.list.at
  IN SoughtRow(x, n, SeekRow(x, p.all, [i |-> from, docid |-> IF x.node[n].eof THEN 0 ELSE docid,
                                        zeros |-> IF from > 0 THEN p.all[from].pad ELSE 0,
                                        eof |-> p.all = <<>>, odd |-> FALSE]))
sqlite3Fts3EvalPhrasePoslist(s, n) ==
  IF ~Elsewhere(s, n) THEN [s |-> s, pos |-> s.ph[n].list.pos]
  ELSE IF ~BelowOr(n) THEN [s |-> s, pos |-> {}]
  ELSE SeekPhrase(Reload(s, n), n, s.node[n].docid)

-----------------------------------------------------------------------------
QInit ==
  /\ table \in Tables
  /\ expr \in Exprs
  /\ cost \in Costs
  /\ order \in Orders
  /\ fq = <<>>
  /\ seen = <<>>

fts3FilterMethod ==
  /\ fq = <<>>
  /\ fq' = fts3EvalNext(fts3EvalStart)
  /\ seen' = IF fq'.eof THEN <<>> ELSE <<fq'.prev>>
  /\ UNCHANGED <<table, expr, cost, order>>

OnRow == fq # <<>> /\ ~fq.eof

fts3NextMethod ==
  /\ OnRow
  /\ fq' = fts3EvalNext(fq)
  /\ seen' = IF fq'.eof THEN seen ELSE Append(seen, fq'.prev)
  /\ UNCHANGED <<table, expr, cost, order>>

\* matchinfo() of the row the cursor stands on.
sqlite3Fts3EvalPhraseStats(n) ==
  /\ OnRow
  /\ fq.ph[n].mi = <<>>
  /\ ~(fq.node[n].def /\ expr[Parent(n)].type # "NEAR")
  /\ fq' = fts3EvalGatherStats(fq, n)
  /\ UNCHANGED <<table, expr, cost, order, seen>>

\* offsets() or snippet() of the row the cursor stands on.
AskPositions(n) ==
  /\ OnRow
  /\ fq' = sqlite3Fts3EvalPhrasePoslist(fq, n).s
  /\ UNCHANGED <<table, expr, cost, order, seen>>

QNext ==
  \/ fts3FilterMethod
  \/ fts3NextMethod
  \/ \E n \in Phrases : sqlite3Fts3EvalPhraseStats(n)
  \/ \E n \in Phrases : AskPositions(n)

QSpec == QInit /\ [][QNext]_qVars

-----------------------------------------------------------------------------
(* What a query should answer, from the content alone.                       *)
PhraseHere(n, d) ==
  {s \in Spots(Row(d)) :
     \A i \in 1..nToken(n) :
       <<s[1], s[2] - (nToken(n) - i)>> \in RowPlaces(d, expr[n].toks[i], expr[n].col)}

Close(p, q, gap, m, n) ==
  /\ p[1] = q[1]
  /\ \/ p[2] < q[2] /\ q[2] <= p[2] + gap + nToken(n)
     \/ q[2] < p[2] /\ p[2] <= q[2] + gap + nToken(m)

\* One instance of each phrase of a NEAR, each close to the next.
Chains(root, d) ==
  LET q == NearPhrases(root)
      g == NearGaps(root)
      here == [i \in DOMAIN q |-> PhraseHere(q[i], d)]
  IN {f \in [DOMAIN q -> UNION Range(here)] :
        /\ \A i \in DOMAIN q : f[i] \in here[i]
        /\ \A i \in 1..Len(q) - 1 : Close(f[i], f[i + 1], g[i], q[i], q[i + 1])}

RECURSIVE QMatches(_, _)
QMatches(n, d) ==
  CASE expr[n].type = "NEAR" -> Chains(n, d) # {}
    [] expr[n].type = "AND"  -> QMatches(Left(n), d) /\ QMatches(Right(n), d)
    [] expr[n].type = "OR"   -> QMatches(Left(n), d) \/ QMatches(Right(n), d)
    [] expr[n].type = "NOT"  -> QMatches(Left(n), d) /\ ~QMatches(Right(n), d)
    [] OTHER                 -> PhraseHere(n, d) # {}

\* The instances of a phrase that count: within a NEAR, those of a chain.
Instances(n, d) ==
  LET q == NearPhrases(NearRoot(n))
      k == CHOOSE i \in DOMAIN q : q[i] = n
  IN IF NearRoot(n) = n THEN PhraseHere(n, d) ELSE {f[k] : f \in Chains(NearRoot(n), d)}

RECURSIVE AllMatch(_, _)
AllMatch(n, d) == QMatches(n, d) /\ (Parent(n) = 0 \/ AllMatch(Parent(n), d))

Answer == SetToSortSeq({d \in Rows : QMatches(1, d)}, LAMBDA a, b : Before(a, b, bDesc))

\* No assertion of the evaluation fails, and a list in memory lies within its doclist.
QTypeOK == fq # <<>> =>
  /\ ~fq.bad
  /\ \A n \in Phrases :
       /\ fq.ph[n].next \in 0..Len(fq.ph[n].all) + 1
       /\ fq.ph[n].list.at <= Len(fq.ph[n].all)

\* The rows come in order, each once, and are the rows of the table that match
\* the expression: whatever tokens were deferred, whichever way the doclists
\* are sorted, and wherever matchinfo() or offsets() was called in between.
RowsExact ==
  /\ seen # <<>> => IsPrefix(seen, Answer)
  /\ fq # <<>> => (fq.eof => seen = Answer)

\* offsets() and snippet() of a row are told the instances of a phrase in that
\* row, none that is not there, and all of them if the operators above the
\* phrase are satisfied; of a phrase of a NEAR those that satisfy the NEAR.
PositionsExact ==
  OnRow =>
    \A n \in Phrases :
      LET Told(pos) == /\ pos \subseteq PhraseHere(n, fq.prev)
                       /\ AllMatch(n, fq.prev) => pos = Instances(n, fq.prev)
      IN Told(sqlite3Fts3EvalPhrasePoslist(fq, n).pos)

\* matchinfo() counts the instances of a phrase in all rows of the table, and
\* the rows that have one.
StatsExact == fq # <<>> =>
  \A n \in Phrases : fq.ph[n].mi # <<>> /\ fq.ph[n].defer = {} =>
    \A c \in Columns :
      LET per(d) == Cardinality({p \in Instances(n, d) : p[1] = c})
      IN fq.ph[n].mi[c] = <<MapThenSumSet(per, Rows),
                            Cardinality({d \in Rows : per(d) > 0})>>

\* A query returns the matching rows, and its auxiliary functions the positions and
\* counts that belong to them.
QueryExact == QTypeOK /\ RowsExact /\ PositionsExact /\ StatsExact
=============================================================================
