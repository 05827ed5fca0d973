----------------------------- MODULE Fts3Expr ------------------------------
(***************************************************************************)
(* The parser of full-text queries (fts3_expr.go).  The text of a query is *)
(* a sequence of lexemes: a phrase "w", a phrase with a unary minus "-w",  *)
(* the operators and the brackets.  The tree is an arena of nodes linked   *)
(* both ways, as the parser climbs from the node it inserted last.  With   *)
(* brackets enabled (SQLITE_ENABLE_FTS3_PARENTHESIS) the operators are     *)
(* NEAR, NOT, AND and OR, from the tightest; without, NEAR, OR and the AND *)
(* between phrases, and the phrases with a minus are taken out last.       *)
(* Memory does not run out and the tokenizer does not fail.                *)
(***************************************************************************)
EXTENDS Integers, Sequences, SequencesExt, FiniteSets

CONSTANTS
  MaxLexemes   \* bound: lexemes of a query

VARIABLES
  parens,      \* sqlite3_fts3_enable_parentheses
  text,        \* the query
  parsed       \* what the parser makes of it

exprVars == <<parens, text, parsed>>

Lexemes == IF parens THEN {"w", "OR", "AND", "NOT", "NEAR", "(", ")"} ELSE {"w", "-w", "OR", "NEAR"}

\* fts3Int.h's codes of the operators order them by precedence.
Code == [NEAR |-> 1, NOT |-> 2, AND |-> 3, OR |-> 4]

opPrecedence(type) ==
  IF parens THEN Code[type] ELSE CASE type = "NEAR" -> 1 [] type = "OR" -> 2 [] OTHER -> 3

\* A node; a phrase is known by its place in the text.
NodeOf(type, place) == [type |-> type, place |-> place, left |-> 0, right |-> 0, parent |-> 0]
NewOf(st, type, place) == [st EXCEPT !.nodes = Append(@, NodeOf(type, place))]

\* Mutant: operators of one precedence group to the right.
RECURSIVE MutSplitPoint(_, _, _)
MutSplitPoint(st, at, type) ==
  LET up == st.nodes[at].parent
  IN IF up # 0 /\ opPrecedence(st.nodes[up].type) < opPrecedence(type)
     THEN MutSplitPoint(st, up, type) ELSE at

\* The node that becomes the left operand of a new operator.
RECURSIVE SplitPoint(_, _, _)
SplitPoint(st, at, type) ==
  LET up == st.nodes[at].parent
  IN IF up # 0 /\ opPrecedence(st.nodes[up].type) <= opPrecedence(type)
     THEN SplitPoint(st, up, type) ELSE at

\* The new operator is the last node of the arena; the root may change.
insertBinaryOperator(st, ret, prev) ==
  LET new == Len(st.nodes)
      at  == SplitPoint(st, prev, st.nodes[new].type)
      up  == st.nodes[at].parent
      nodes == [st.nodes EXCEPT ![new].left = at, ![new].parent = up, ![at].parent = new]
  IN [st |-> [st EXCEPT !.nodes = IF up = 0 THEN nodes ELSE [nodes EXCEPT ![up].right = new],
                        !.bad = @ \/ (up # 0 /\ st.nodes[up].right # at)],
      ret |-> IF up = 0 THEN new ELSE ret]

LeftOf(st, n) == st.nodes[n].left
ParseResult(st, rc, root, i) == [st |-> st, rc |-> rc, root |-> root, i |-> i]

RECURSIVE fts3ExprParse(_, _), getNextNode(_, _), ParseOn(_, _, _, _, _, _), BottomLeft(_, _)

\* The node at lexeme i and where the next begins; DONE at the end of the text,
\* at a closing bracket, and after brackets with nothing in them.
getNextNode(st, i) ==
  LET lex == IF i <= Len(st.text) THEN st.text[i] ELSE "end"
      in == fts3ExprParse([st EXCEPT !.nest = @ + 1], i + 1)
  IN CASE lex = "end" -> ParseResult(st, "DONE", 0, i)
       [] lex = "("   -> IF in.rc = "OK" /\ in.root = 0 THEN [in EXCEPT !.rc = "DONE"] ELSE in
       [] lex = ")"   -> ParseResult([st EXCEPT !.nest = @ - 1], "DONE", 0, i + 1)
       [] OTHER       -> ParseResult(NewOf(st, IF lex = "-w" THEN "w" ELSE lex, i), "OK", Len(st.nodes) + 1, i + 1)

\* The loop of fts3ExprParse.
ParseOn(st, i, ret, prev, notBranch, isRequirePhrase) ==
  LET nx == getNextNode(st, i)
      p  == nx.root
      type == nx.st.nodes[p].type
      isPhrase == type = "w" \/ LeftOf(nx.st, p) # 0
      implicit == isPhrase /\ ~isRequirePhrase
      s1 == NewOf(nx.st, "AND", 0)
      ins == insertBinaryOperator(s1, ret, prev)
      s2 == IF implicit THEN ins.st ELSE nx.st
      ret2 == IF implicit THEN ins.ret ELSE ret
      prev2 == IF implicit THEN Len(s1.nodes) ELSE prev
      badNear == prev2 # 0 /\ \/ type = "NEAR" /\ ~isPhrase /\ s2.nodes[prev2].type # "w"
                              \/ type # "w" /\ isPhrase /\ s2.nodes[prev2].type = "NEAR"
      linked == [s2 EXCEPT !.nodes = [@ EXCEPT ![prev2].right = p, ![p].parent = prev2],
                           !.bad = @ \/ s2.nodes[prev2].left = 0 \/ s2.nodes[prev2].right # 0]
      op == insertBinaryOperator(s2, ret2, prev2)
      last == ParseResult(nx.st, IF ret # 0 /\ isRequirePhrase THEN "ERROR" ELSE "OK", ret, nx.i)
  IN IF nx.rc = "DONE"
     THEN IF last.rc = "ERROR" \/ notBranch = 0 THEN last
          ELSE IF ret = 0 THEN [last EXCEPT !.rc = "ERROR"]
          ELSE [last EXCEPT !.root = notBranch,
                            !.st.nodes[BottomLeft(nx.st, notBranch)].left = ret]
     ELSE IF nx.rc = "ERROR" THEN nx
     ELSE IF st.text[i] = "-w"
     THEN LET s3 == NewOf(nx.st, "NOT", i)
              n == Len(s3.nodes)
          IN ParseOn([s3 EXCEPT !.nodes[n].right = p, !.nodes[n].left = notBranch],
                     nx.i, ret, prev, n, isRequirePhrase)
     ELSE IF (~isPhrase /\ isRequirePhrase) \/ badNear THEN ParseResult(s2, "ERROR", 0, nx.i)
     ELSE IF ~isPhrase THEN ParseOn(op.st, nx.i, op.ret, p, notBranch, TRUE)
     ELSE IF ret2 = 0 THEN ParseOn(s2, nx.i, p, p, notBranch, FALSE)
     ELSE ParseOn(linked, nx.i, ret2, p, notBranch, FALSE)

BottomLeft(st, n) == IF LeftOf(st, n) = 0 THEN n ELSE BottomLeft(st, LeftOf(st, n))

fts3ExprParse(st, i) == ParseOn(st, i, 0, 0, 0, TRUE)

Balanced(x) == IF x.rc = "OK" /\ x.st.nest # 0 THEN [x EXCEPT !.rc = "ERROR", !.root = 0] ELSE x
sqlite3Fts3ExprParse(query) ==
  Balanced(fts3ExprParse([text |-> query, nodes |-> <<>>, nest |-> 0, bad |-> FALSE], 1))

-----------------------------------------------------------------------------
ExprInit == parens \in BOOLEAN /\ text = <<>> /\ parsed = sqlite3Fts3ExprParse(text)

\* A longer query is parsed.
TypeLexeme ==
  /\ Len(text) < MaxLexemes
  /\ \E x \in Lexemes : /\ text' = Append(text, x)
                        /\ parsed' = sqlite3Fts3ExprParse(Append(text, x))
  /\ UNCHANGED parens

ExprSpec == ExprInit /\ [][TypeLexeme]_exprVars

-----------------------------------------------------------------------------
(* The trees the query language promises.                                    *)
RECURSIVE Shape(_, _)
Shape(st, n) ==
  IF st.nodes[n].type = "w" THEN <<st.nodes[n].place>>
  ELSE <<Shape(st, st.nodes[n].left), st.nodes[n].type, Shape(st, st.nodes[n].right)>>

\* The lexeme of the bracket that closes the one at i, 0 if there is none.
Closing(i) ==
  LET depth(j) == Cardinality({k \in i..j : text[k] = "("}) - Cardinality({k \in i..j : text[k] = ")"})
      at == {j \in i..Len(text) : depth(j) = 0}
  IN IF at = {} THEN 0 ELSE CHOOSE j \in at : \A k \in at : j <= k

Operand(tree) == [op |-> "", tree |-> tree]
Operator(op) == [op |-> op, tree |-> <<>>]
NoTree == <<0>>

\* Operands and operators in turn, with the ANDs that are not written.
RECURSIVE Items(_, _, _), Group(_)
Items(lo, hi, acc) ==
  LET sep == IF acc # <<>> /\ Last(acc).op = "" THEN Append(acc, Operator("AND")) ELSE acc
      end == Closing(lo)
  IN IF lo > hi THEN acc
     ELSE CASE text[lo] = "w" -> Items(lo + 1, hi, Append(sep, Operand(<<lo>>)))
            [] text[lo] = "(" -> IF end = 0 THEN <<Operand(NoTree)>>
                                 ELSE Items(end + 1, hi, Append(sep, Operand(Group(Items(lo + 1, end - 1, <<>>)))))
            [] text[lo] = ")" -> <<Operand(NoTree)>>
            [] text[lo] = "-w" -> Items(lo + 1, hi, acc)
            [] OTHER -> Items(lo + 1, hi, Append(acc, Operator(text[lo])))

\* The loosest operator, the last of its kind, is the root.
Group(items) ==
  LET ops == {k \in DOMAIN items : items[k].op # ""}
      root == CHOOSE k \in ops : \A j \in ops :
                \/ opPrecedence(items[k].op) > opPrecedence(items[j].op)
                \/ opPrecedence(items[k].op) = opPrecedence(items[j].op) /\ k >= j
      odd(k) == k \in ops /\ (k = 1 \/ k = Len(items) \/ k - 1 \in ops \/ k + 1 \in ops)
      phrase(k) == Len(items[k].tree) = 1
      far(k) == k \in ops /\ items[k].op = "NEAR" /\ ~(phrase(k - 1) /\ phrase(k + 1))
  IN IF items = <<>> \/ \E k \in DOMAIN items : items[k].tree = NoTree \/ odd(k) \/ far(k) THEN NoTree
     ELSE IF ops = {} THEN items[1].tree
     ELSE <<Group(SubSeq(items, 1, root - 1)), items[root].op, Group(SubSeq(items, root + 1, Len(items)))>>

Minuses == {i \in DOMAIN text : text[i] = "-w"}
RECURSIVE Without(_, _)
Without(tree, ms) ==
  IF ms = {} THEN tree
  ELSE LET m == CHOOSE x \in ms : \A y \in ms : x >= y IN <<Without(tree, ms \ {m}), "NOT", <<m>>>>

Promised ==
  LET tree == Group(Items(1, Len(text), <<>>))
  IN IF tree = NoTree THEN NoTree ELSE Without(tree, Minuses)

Hollow == \E i \in 1..Len(text) - 1 : text[i] = "(" /\ text[i + 1] = ")"

\* No assertion of the parser fails, and the nodes are linked both ways.
ExprTypeOK ==
  LET nodes == parsed.st.nodes
      up(n) == nodes[n].parent
  IN /\ ~parsed.st.bad
     /\ parens /\ parsed.rc = "OK" =>
          \A n \in DOMAIN nodes : up(n) # 0 => n \in {nodes[up(n)].left, nodes[up(n)].right}

\* A query is accepted exactly if operands and operators take turns, its
\* brackets match and NEAR joins phrases; its tree groups the tighter operators
\* first and those of one precedence to the left, as the comment on opPrecedence
\* says.  (Brackets with nothing in them end the query: they are left out.)
TreeAsPromised ==
  text # <<>> /\ ~Hollow =>
    IF parsed.rc = "OK" THEN Shape(parsed.st, parsed.root) = Promised ELSE Promised = NoTree

\* The right operand of a NEAR is a phrase and its left one a phrase or a NEAR,
\* which the evaluation of NEAR relies on ("There are no exceptions to this").
NearOverPhrases ==
  LET nodes == parsed.st.nodes
  IN parsed.rc = "OK" =>
       \A n \in DOMAIN nodes : nodes[n].type = "NEAR" =>
         nodes[nodes[n].right].type = "w" /\ nodes[nodes[n].left].type \in {"w", "NEAR"}

\* The parser accepts what it should, with the tree the precedences give.
ParseExact == ExprTypeOK /\ TreeAsPromised /\ NearOverPhrases
=============================================================================
