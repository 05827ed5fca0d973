------------------------------- MODULE RowSet -------------------------------
(***************************************************************************)
(* rowset.go: a set of rowids that is filled in any order, tested by       *)
(* batches, and read in ascending order.  The entries inserted since the   *)
(* last change of batch are a list; the older ones are in a forest of      *)
(* trees, where a new tree takes in the trees before the first free place. *)
(***************************************************************************)
EXTENDS Naturals, Sequences, SequencesExt

CONSTANTS RowIds,       \* the rowids inserted and tested, a set of numbers
          MaxInsert,    \* bound on the insertions
          MaxBatch      \* bound on the batch numbers

VARIABLES entries,   \* pEntry: the rowids of the current batch, in order of insertion
          sorted,    \* ROWSET_SORTED
          next,      \* ROWSET_NEXT: reading has begun
          forest,    \* pForest: trees, or NoTree for a free place
          batch,     \* iBatch
          inserted,  \* history: rowids inserted, and those a test may see
          seen,
          taken      \* history: the rowids read

rowSetVars == <<entries, sorted, next, forest, batch, inserted, seen, taken>>

NoTree == << >>
Node(v, l, r) == [v |-> v, l |-> l, r |-> r]

\* rowSetEntryMerge: merge two ascending lists and keep one of two equal heads.
RECURSIVE EntryMerge(_, _)
EntryMerge(a, b) ==
  IF a = << >> THEN b
  ELSE IF b = << >> THEN a
  ELSE IF Head(a) < Head(b) THEN <<Head(a)>> \o EntryMerge(Tail(a), b)
  ELSE IF Head(b) < Head(a) THEN <<Head(b)>> \o EntryMerge(a, Tail(b))
  ELSE EntryMerge(Tail(a), b)

\* The inner loop of rowSetEntrySort: a list goes to the first free bucket and
\* takes the full ones before it along.
RECURSIVE Carry(_, _, _)
Carry(buckets, i, list) ==
  IF i > Len(buckets) THEN Append(buckets, list)
  ELSE IF buckets[i] = << >> THEN [buckets EXCEPT ![i] = list]
  ELSE Carry([buckets EXCEPT ![i] = << >>], i + 1, EntryMerge(buckets[i], list))

EntrySort(list) ==
  FoldLeft(EntryMerge, << >>, FoldLeft(LAMBDA bs, v : Carry(bs, 1, <<v>>), << >>, list))

\* rowSetTreeToList.
RECURSIVE TreeToList(_)
TreeToList(t) ==
  IF t = NoTree THEN << >> ELSE TreeToList(t.l) \o <<t.v>> \o TreeToList(t.r)

\* rowSetNDeepTree: a tree of the given depth from the head of a list, and the
\* rest of the list.
RECURSIVE NDeepTree(_, _)
NDeepTree(list, depth) ==
  IF list = << >> THEN [tree |-> NoTree, rest |-> list]
  ELSE IF depth = 1 THEN [tree |-> Node(Head(list), NoTree, NoTree), rest |-> Tail(list)]
  ELSE LET left == NDeepTree(list, depth - 1)
           right == NDeepTree(Tail(left.rest), depth - 1)
       IN IF left.rest = << >> THEN left
          ELSE [tree |-> Node(Head(left.rest), left.tree, right.tree), rest |-> right.rest]

\* rowSetListToTree: make the tree so far the left child of a deeper one.
RECURSIVE RowSetDeepen(_, _, _)
RowSetDeepen(tree, list, depth) ==
  IF list = << >> THEN tree
  ELSE LET right == NDeepTree(Tail(list), depth)
       IN RowSetDeepen(Node(Head(list), tree, right.tree), right.rest, depth + 1)
ListToTree(list) == RowSetDeepen(Node(Head(list), NoTree, NoTree), Tail(list), 1)

\* The loop over the forest in sqlite3RowSetTest.
RECURSIVE IntoForest(_, _, _)
IntoForest(trees, i, list) ==
  IF i > Len(trees) THEN Append(trees, ListToTree(list))
  ELSE IF trees[i] = NoTree THEN [trees EXCEPT ![i] = ListToTree(list)]
  ELSE IntoForest([trees EXCEPT ![i] = NoTree], i + 1, EntryMerge(TreeToList(trees[i]), list))

RECURSIVE InTree(_, _)
InTree(t, v) ==
  /\ t # NoTree
  /\ \/ t.v = v
     \/ t.v < v /\ InTree(t.r, v)
     \/ t.v > v /\ InTree(t.l, v)

-----------------------------------------------------------------------------
RowSetInit ==
  /\ entries = << >> /\ sorted = TRUE /\ next = FALSE /\ forest = << >> /\ batch = 0
  /\ inserted = << >> /\ seen = {} /\ taken = << >>

\* sqlite3RowSetInsert.  Nothing is added to a set that is being read.
RowSetInsert(v) ==
  /\ ~next /\ taken = << >> /\ Len(inserted) < MaxInsert
  /\ sorted' = (sorted /\ (entries = << >> \/ v > Last(entries)))
  /\ entries' = Append(entries, v)
  /\ inserted' = Append(inserted, v)
  /\ UNCHANGED <<next, forest, batch, seen, taken>>

\* Mutant: the list becomes a tree in the order of insertion.
MutRowSetTestUnsorted(b) ==
  /\ ~next /\ taken = << >> /\ b # batch
  /\ batch' = b
  /\ forest' = IF entries = << >> THEN forest ELSE IntoForest(forest, 1, entries)
  /\ entries' = << >> /\ sorted' = TRUE
  /\ seen' = Range(inserted)
  /\ UNCHANGED <<next, inserted, taken>>

\* sqlite3RowSetTest, of which this is the change of batch; the search that
\* follows is Found.
RowSetTest(b) ==
  /\ ~next /\ taken = << >> /\ b # batch
  /\ batch' = b
  /\ forest' = IF entries = << >> THEN forest
               ELSE IntoForest(forest, 1, IF sorted THEN entries ELSE EntrySort(entries))
  /\ entries' = << >> /\ sorted' = TRUE
  /\ seen' = Range(inserted)
  /\ UNCHANGED <<next, inserted, taken>>

Found(v) == \E i \in DOMAIN forest : InTree(forest[i], v)

\* sqlite3RowSetNext, which clears the set with its last rowid.  It is not used
\* on a set that was tested.
RowSetNext ==
  /\ forest = << >>
  /\ LET list == IF next \/ sorted THEN entries ELSE EntrySort(entries)
     IN /\ next' = (Len(list) # 1)
        /\ entries' = IF list = << >> THEN list ELSE Tail(list)
        /\ taken' = IF list = << >> THEN taken ELSE Append(taken, Head(list))
        /\ sorted' = IF Len(list) = 1 THEN TRUE ELSE sorted
  /\ UNCHANGED <<forest, batch, inserted, seen>>

RowSetStep ==
  \/ \E v \in RowIds : RowSetInsert(v)
  \/ \E b \in 1..MaxBatch : RowSetTest(b)
  \/ RowSetNext

-----------------------------------------------------------------------------
\* Every tree of the forest is a search tree, so that a test finds exactly the
\* rowids inserted before the last change of batch, whatever the insertions,
\* repetitions and batches the forest was built from.
RowSetTestExact == \A v \in RowIds : Found(v) <=> v \in seen

\* Reading takes the rowids in ascending order, each one once, and none of the
\* inserted ones is passed over.
RowSetReadsAscending ==
  /\ \A i \in 1..(Len(taken) - 1) : taken[i] < taken[i + 1]
  /\ taken # << >> =>
       \A v \in Range(inserted) : entries = << >> \/ v <= Last(taken) => v \in Range(taken)

\* Both uses of a row set, testing and reading, are exact.
RowSetExact == RowSetTestExact /\ RowSetReadsAscending
=============================================================================
