-------------------------------- MODULE Rtree --------------------------------
(***************************************************************************)
(* The R*-tree virtual table (rtree.go): a balanced tree of nodes kept in  *)
(* the xxx_node table, with the xxx_rowid table leading from a row to its  *)
(* leaf and the xxx_parent table from a node to its parent.                *)
(*                                                                         *)
(* The tree is a record: the three shadow tables, and the nodes in memory  *)
(* (RtreeNode), which are counted references: a node is shared by whoever  *)
(* acquired it and by its children in memory, and is written back only     *)
(* when the last reference goes.  An open cursor keeps nodes in memory     *)
(* across the writes of other statements.                                  *)
(*                                                                         *)
(* A cell is an integer (rowid, or number of a child) and a box; a box is  *)
(* a sequence of 2*NDim integers, minimum and maximum of each dimension.   *)
(* Statements on the shadow tables succeed; a failed assertion or a        *)
(* SQLITE_CORRUPT ends the behaviour (err).                                *)
(***************************************************************************)
EXTENDS Integers, FiniteSets, Sequences, SequencesExt, FiniteSetsExt, TLC

CONSTANTS
  NDim,        \* dimensions of the table
  MaxCells,    \* cells that fit in a node
  RowIds,      \* rowids a statement may name
  Boxes,       \* boxes a statement may insert
  Queries,     \* constraints of whole scans
  Scanned,     \* constraints of the cursor that stays open during writes
  Trees        \* tables: the writes that fill each, and how many writes follow

ASSUME RtreeAssumption == NDim \in 1..5 /\ MaxCells \in Nat /\ MaxCells >= 3

VARIABLES
  rt,          \* the r-tree
  rtRows,      \* what the statements have stored: rowid -> box
  csr,         \* a cursor: the node and cell it is at, its constraints
  script,      \* the writes that fill the table, still to come
  writes       \* writes left after them (a bound)

rtVars == <<rt, rtRows, csr, script, writes>>

MinCells == MaxCells \div 3
NULL == 0
Dims == 1..NDim
Coords == 1..2 * NDim
Lo(b, k) == b[2 * k - 1]
Hi(b, k) == b[2 * k]

RtOk(x) == x.err = "ok"
RtFail(x, e) == IF RtOk(x) THEN [x EXCEPT !.err = e] ELSE x
RtWithout(f, a) == [b \in DOMAIN f \ {a} |-> f[b]] @@ <<>>
Mem(x, p) == x.mem[p]
Cells(x, p) == x.mem[p].cells
SetCells(x, p, cells) == [x EXCEPT !.mem[p].cells = cells, !.mem[p].dirty = TRUE]

-----------------------------------------------------------------------------
(* Boxes.                                                                    *)
RtMin(a, b) == IF a > b THEN b ELSE a
RtMax(a, b) == IF a < b THEN b ELSE a

cellArea(b) ==
  LET area[k \in 0..NDim] == IF k = 0 THEN 1 ELSE area[k - 1] * (Hi(b, k) - Lo(b, k)) IN area[NDim]
cellMargin(b) ==
  LET sum[k \in 0..NDim] == IF k = 0 THEN 0 ELSE sum[k - 1] + (Hi(b, k) - Lo(b, k)) IN sum[NDim]
cellUnion(a, b) == [i \in Coords |-> IF i % 2 = 1 THEN RtMin(a[i], b[i]) ELSE RtMax(a[i], b[i])]
cellContains(a, b) == \A k \in Dims : Lo(b, k) >= Lo(a, k) /\ Hi(b, k) <= Hi(a, k)
cellGrowth(a, b) == cellArea(cellUnion(a, b)) - cellArea(a)

cellOverlap(a, b) ==
  LET side(k) == RtMin(Hi(a, k), Hi(b, k)) - RtMax(Lo(a, k), Lo(b, k))
  IN IF \E k \in Dims : side(k) < 0 THEN 0
     ELSE LET o[k \in 0..NDim] == IF k = 0 THEN 1 ELSE o[k - 1] * side(k) IN o[NDim]

UnionOf(cells) ==
  LET union[i \in DOMAIN cells] == IF i = 1 THEN cells[1].box ELSE cellUnion(union[i - 1], cells[i].box)
  IN union[Len(cells)]

-----------------------------------------------------------------------------
(* Nodes in memory.                                                          *)
Fresh(x) == CHOOSE p \in 1..Cardinality(DOMAIN x.mem) + 1 : p \notin DOMAIN x.mem
Deleted(x) == ToSet(x.deleted)

\* Nodes being removed have left the hash table, their iNode is a height.
nodeHashLookup(x, n) ==
  LET hits == {p \in DOMAIN x.mem \ Deleted(x) : Mem(x, p).iNode = n}
  IN IF hits = {} THEN NULL ELSE CHOOSE p \in hits : TRUE

nodeReference(x, p) == IF p = NULL THEN x ELSE [x EXCEPT !.mem[p].nRef = @ + 1]

AddNode(x, p, parent, n, data, dirty) ==
  nodeReference([x EXCEPT !.mem = (p :> [iNode |-> n, pParent |-> parent, nRef |-> 1,
                                         dirty |-> dirty, depth |-> data.depth,
                                         cells |-> data.cells]) @@ @],
                parent)

nodeNew(x, parent) == AddNode(x, Fresh(x), parent, 0, [depth |-> 0, cells |-> <<>>], TRUE)

\* The result is in field res.
nodeAcquire(x, n, parent) ==
  LET Loaded(p) ==
        IF parent # NULL /\ Mem(x, p).pParent \notin {NULL, parent} THEN RtFail(x, "assert")
        ELSE [nodeReference(IF parent # NULL /\ Mem(x, p).pParent = NULL
                            THEN [nodeReference(x, parent) EXCEPT !.mem[p].pParent = parent] ELSE x, p)
              EXCEPT !.res = p]
      Read(q) == [AddNode(x, q, parent, n, x.node[n], FALSE) EXCEPT
                    !.res = q, !.iDepth = IF n = 1 THEN x.node[n].depth ELSE @]
      Found(p) == IF p # NULL THEN Loaded(p)
                  ELSE IF n \notin DOMAIN x.node THEN RtFail(x, "corrupt") ELSE Read(Fresh(x))
  IN IF RtOk(x) THEN Found(nodeHashLookup(x, n)) ELSE x

\* A new node gets the next number of the node table.
nodeWrite(x, p) ==
  LET m == Mem(x, p)
      n == IF m.iNode = 0 THEN Max(DOMAIN x.node) + 1 ELSE m.iNode
  IN IF ~m.dirty THEN x
     ELSE [x EXCEPT !.node = (n :> [depth |-> m.depth, cells |-> m.cells]) @@ @,
                    !.mem[p].iNode = n, !.mem[p].dirty = FALSE]

RECURSIVE nodeRelease(_, _)
nodeRelease(x, p) ==
  LET m == Mem(x, p)
      up == nodeRelease(IF m.iNode = 1 THEN [x EXCEPT !.iDepth = -1] ELSE x, m.pParent)
  IN IF p = NULL THEN x
     ELSE IF m.nRef > 1 THEN [x EXCEPT !.mem[p].nRef = @ - 1]
     ELSE [nodeWrite(up, p) EXCEPT !.mem = RtWithout(@, p)]

nodeRowidIndex(cells, id) == SelectInSeq(cells, LAMBDA c : c.id = id)
nodeParentIndex(x, p) == nodeRowidIndex(Cells(x, Mem(x, p).pParent), Mem(x, p).iNode)

\* A cell goes to node p: a child of it that is in memory follows.
Reparent(x, id, p) ==
  LET child == nodeHashLookup(x, id)
  IN IF child = NULL THEN x
     ELSE [nodeReference(nodeRelease(x, Mem(x, child).pParent), p) EXCEPT !.mem[child].pParent = p]

\* rowidWrite or parentWrite
SetMapping(x, id, n, height) ==
  IF height = 0 THEN [x EXCEPT !.rowid = (id :> n) @@ @]
  ELSE [x EXCEPT !.parent = (id :> n) @@ @]

updateMapping(x, id, p, height) ==
  SetMapping(IF height > 0 THEN Reparent(x, id, p) ELSE x, id, Mem(x, p).iNode, height)

-----------------------------------------------------------------------------
(* Insertion.                                                                *)

\* The child that grows least; of those, the smallest; of those, the first.
RECURSIVE Best(_, _, _, _)
Best(cells, b, i, best) ==
  LET cost(j) == <<cellGrowth(cells[j].box, b), cellArea(cells[j].box)>>
      less(s, t) == s[1] < t[1] \/ (s[1] = t[1] /\ s[2] < t[2])
  IN IF i > Len(cells) THEN cells[best].id
     ELSE Best(cells, b, i + 1, IF less(cost(i), cost(best)) THEN i ELSE best)

RECURSIVE Descend(_, _, _, _)
Descend(x, p, b, levels) ==
  LET Into(x1) == IF RtOk(x1) THEN Descend(nodeRelease(x1, p), x1.res, b, levels - 1) ELSE x1
  IN IF levels <= 0 \/ ~RtOk(x) THEN [x EXCEPT !.res = p]
     ELSE Into(nodeAcquire(x, Best(Cells(x, p), b, 2, 1), p))

ChooseLeaf(x, b, height) ==
  LET From(x1) == IF RtOk(x1) THEN Descend(x1, x1.res, b, x1.iDepth - height) ELSE x1
  IN From(nodeAcquire(x, 1, NULL))

RECURSIVE AdjustTree(_, _, _)
AdjustTree(x, p, b) ==
  LET parent == Mem(x, p).pParent
      i      == nodeParentIndex(x, p)
      box    == Cells(x, parent)[i].box
      x1     == IF cellContains(box, b) THEN x
                ELSE SetCells(x, parent, [Cells(x, parent) EXCEPT ![i].box = cellUnion(box, b)])
  IN IF parent = NULL \/ ~RtOk(x) THEN x
     ELSE IF i = 0 THEN RtFail(x, "corrupt")
     ELSE AdjustTree(x1, parent, b)

\* SortByDistance and SortByDimension: a merge sort of indexes by key that
\* takes the left one only if it is strictly smaller.
RECURSIVE RtMerge(_, _, _)
RtMerge(l, r, key) ==
  LET less == key[l[1]][1] < key[r[1]][1]
              \/ (key[l[1]][1] = key[r[1]][1] /\ key[l[1]][2] < key[r[1]][2])
  IN IF l = <<>> THEN r ELSE IF r = <<>> THEN l
     ELSE IF less THEN <<l[1]>> \o RtMerge(Tail(l), r, key)
     ELSE <<r[1]>> \o RtMerge(l, Tail(r), key)

RECURSIVE SortBy(_, _)
SortBy(idx, key) ==
  LET n == Len(idx) \div 2
  IN IF Len(idx) <= 1 THEN idx
     ELSE RtMerge(SortBy(SubSeq(idx, 1, n), key), SortBy(SubSeq(idx, n + 1, Len(idx)), key), key)

Indexes(s) == [i \in DOMAIN s |-> i]
Pick(cells, idx) == [i \in DOMAIN idx |-> cells[idx[i]]]

\* splitNodeStartree: along the dimension whose splits have the least margin
\* in all, at the place where the halves overlap least, then cover least.
SortedBy(cells, k) ==
  Pick(cells, SortBy(Indexes(cells), [i \in DOMAIN cells |-> <<Lo(cells[i].box, k), Hi(cells[i].box, k)>>]))
Less(s, t) == s[1] < t[1] \/ (s[1] = t[1] /\ s[2] < t[2])
SplitPlaces(n) == [i \in 1..n - 2 * MinCells + 1 |-> MinCells + i - 1]
Halves(cells, at) == <<SubSeq(cells, 1, at), SubSeq(cells, at + 1, Len(cells))>>
SplitMargin(cells) ==
  LET Sides(h) == cellMargin(UnionOf(h[1])) + cellMargin(UnionOf(h[2]))
  IN FoldLeft(LAMBDA m, at : m + Sides(Halves(cells, at)), 0, SplitPlaces(Len(cells)))
SplitCost(cells, at) ==
  LET Cost(l, r) == <<cellOverlap(l, r), cellArea(l) + cellArea(r)>>
      Boxes2(h) == Cost(UnionOf(h[1]), UnionOf(h[2]))
  IN Boxes2(Halves(cells, at))
BestPlace(cells) ==
  LET places == SplitPlaces(Len(cells))
      cost == [i \in DOMAIN places |-> SplitCost(cells, places[i])]
  IN places[FoldLeft(LAMBDA a, b : IF Less(cost[b], cost[a]) THEN b ELSE a, 1, Indexes(places))]
splitNodeStartree(cells) ==
  LET sorted == [k \in Dims |-> SortedBy(cells, k)]
      margin == [k \in Dims |-> SplitMargin(sorted[k])]
      bestDim == FoldLeft(LAMBDA k, j : IF margin[j] < margin[k] THEN j ELSE k, 1, [k \in Dims |-> k])
      AtBest(c) == Halves(c, BestPlace(c))
  IN AtBest(sorted[bestDim])

RECURSIVE fixBoundingBox(_, _)
fixBoundingBox(x, p) ==
  LET parent == Mem(x, p).pParent
      i      == nodeParentIndex(x, p)
      box    == [id |-> Mem(x, p).iNode, box |-> UnionOf(Cells(x, p))]
  IN IF parent = NULL \/ ~RtOk(x) THEN x
     ELSE IF i = 0 THEN RtFail(x, "corrupt")
     ELSE fixBoundingBox(SetCells(x, parent, [Cells(x, parent) EXCEPT ![i] = box]), parent)

\* updateMapping of each cell of node p
RECURSIVE MapCells(_, _, _, _)
MapCells(x, cells, p, height) ==
  IF cells = <<>> \/ ~RtOk(x) THEN x
  ELSE MapCells(updateMapping(x, cells[1].id, p, height), Tail(cells), p, height)
MapAll(x, p, height) == MapCells(x, Cells(x, p), p, height)

\* Distance of a cell from the centre, times (2n)^2: the code compares the
\* extent of the cell, not its centre, with the centre of all.
Distance(cells, c) ==
  LET n == Len(cells)
      centre(k) == FoldLeft(LAMBDA s, e : s + Lo(e.box, k) + Hi(e.box, k), 0, cells)
      Square(o) == o * o
      off(k) == Square(2 * n * (Hi(c.box, k) - Lo(c.box, k)) - centre(k))
      d[k \in 0..NDim] == IF k = 0 THEN 0 ELSE d[k - 1] + off(k)
  IN d[NDim]

RECURSIVE rtreeInsertCell(_, _, _, _), Reinsert(_, _, _, _), PutBack(_, _, _),
          InsertBoxes(_, _, _)

\* The new nodes: two children for the root, a right sibling for another node.
NewNodes(x, p) ==
  LET Child(y) == [nodeNew(y, p) EXCEPT !.iDepth = @ + 1, !.mem[p].depth = y.iDepth + 1]
  IN IF Mem(x, p).iNode = 1 THEN Child(nodeNew(x, p))
     ELSE nodeReference(nodeNew(x, Mem(x, p).pParent), p)

BoxOf(x, p) == [id |-> Mem(x, p).iNode, box |-> UnionOf(Cells(x, p))]

\* The cell for a left node that was there before.
ReplaceCell(x, parent, i, cell) ==
  IF i = 0 THEN RtFail(x, "corrupt")
  ELSE AdjustTree(SetCells(x, parent, [Cells(x, parent) EXCEPT ![i] = cell]), parent, cell.box)

\* A cell for each of the nodes in its parent.
InsertBoxes(x, ps, height) ==
  IF ps = <<>> \/ ~RtOk(x) THEN x
  ELSE InsertBoxes(rtreeInsertCell(x, Mem(x, ps[1]).pParent, BoxOf(x, ps[1]), height), Tail(ps), height)

MapSplit(x, isRoot, left, right, cell, height) ==
  IF isRoot THEN MapAll(x, left, height)
  ELSE IF nodeRowidIndex(Cells(x, right), cell.id) = 0 THEN updateMapping(x, cell.id, left, height)
  ELSE x

FillNodes(x, isRoot, left, right, halves) ==
  LET Filled(y) == nodeWrite(SetCells(SetCells(y, left, halves[1]), right, halves[2]), right)
      Written(y) == IF isRoot THEN nodeWrite(y, left)
                    ELSE ReplaceCell(y, Mem(y, left).pParent, nodeParentIndex(y, left), BoxOf(y, left))
  IN Written(Filled(x))

FreeNodes(x, isRoot, left, right, cell, height) ==
  IF ~RtOk(x) THEN x
  ELSE nodeRelease(nodeRelease(MapSplit(MapAll(x, right, height), isRoot, left, right, cell, height),
                               right), left)

SplitInto(x, p, cell, height, isRoot, left, right) ==
  FreeNodes(InsertBoxes(FillNodes(NewNodes(SetCells(x, p, <<>>), p), isRoot, left, right,
                                  splitNodeStartree(Append(Cells(x, p), cell))),
                        IF isRoot THEN <<left, right>> ELSE <<right>>, height + 1),
            isRoot, left, right, cell, height)

SplitNode(x, p, cell, height) ==
  LET isRoot == Mem(x, p).iNode = 1
  IN SplitInto(x, p, cell, height, isRoot, IF isRoot THEN Fresh(nodeNew(x, p)) ELSE p, Fresh(x))

\* Each cell to a node of its height, chosen from the root.
PutRest(x, p, cells, height) ==
  IF RtOk(x) THEN PutBack(nodeRelease(x, p), Tail(cells), height) ELSE x
PutCell(x, cells, height) == PutRest(rtreeInsertCell(x, x.res, cells[1], height), x.res, cells, height)
PutBack(x, cells, height) ==
  IF cells = <<>> \/ ~RtOk(x) THEN x
  ELSE PutCell(ChooseLeaf(x, cells[1].box, height), cells, height)

ByDistance(cells) ==
  Pick(cells, SortBy(Indexes(cells), [i \in DOMAIN cells |-> <<Distance(cells, cells[i]), 0>>]))

KeepNear(x, p, cell, height, near) ==
  IF nodeRowidIndex(near, cell.id) # 0
  THEN SetMapping(SetCells(x, p, near), cell.id, Mem(x, p).iNode, height)
  ELSE SetCells(x, p, near)
CutFar(x, p, cell, height, far, n) ==
  PutBack(fixBoundingBox(KeepNear(x, p, cell, height, SubSeq(far, 1, n)), p),
          SubSeq(far, n + 1, Len(far)), height)
Reinsert(x, p, cell, height) ==
  CutFar(x, p, cell, height, ByDistance(Append(Cells(x, p), cell)), Len(Cells(x, p)) - MinCells)

MapCell(x, p, cell, height) ==
  IF RtOk(x) THEN SetMapping(x, cell.id, Mem(x, p).iNode, height) ELSE x
FillCell(x, p, cell, height) ==
  MapCell(AdjustTree(SetCells(x, p, Append(Cells(x, p), cell)), p, cell.box), p, cell, height)

AddCell(x, p, cell, height) ==
  IF Len(Cells(x, p)) = MaxCells
  THEN IF height <= x.iReinsertHeight \/ Mem(x, p).iNode = 1
       THEN SplitNode(x, p, cell, height)
       ELSE Reinsert([x EXCEPT !.iReinsertHeight = height], p, cell, height)
  ELSE FillCell(x, p, cell, height)

rtreeInsertCell(x, p, cell, height) ==
  IF RtOk(x) THEN AddCell(IF height > 0 THEN Reparent(x, cell.id, p) ELSE x, p, cell, height) ELSE x

-----------------------------------------------------------------------------
(* Deletion.                                                                 *)

\* The ancestors of p are loaded, up to one that has its parent already.
RECURSIVE fixLeafParent(_, _, _)
fixLeafParent(x, leaf, p) ==
  LET n  == x.parent[Mem(x, p).iNode]
      Up(x1) == IF RtOk(x1) THEN fixLeafParent([x1 EXCEPT !.mem[p].pParent = x1.res], leaf, x1.res) ELSE x1
      RECURSIVE Above(_)
      Above(q) == IF q = NULL THEN {} ELSE {Mem(x, q).iNode} \cup Above(Mem(x, q).pParent)
  IN IF ~RtOk(x) \/ Mem(x, p).iNode = 1 \/ Mem(x, p).pParent # NULL THEN x
     ELSE IF Mem(x, p).iNode \notin DOMAIN x.parent \/ n \in Above(leaf) THEN RtFail(x, "corrupt")
     ELSE Up(nodeAcquire(x, n, NULL))

RECURSIVE deleteCell(_, _, _, _)

ForgetNode(x, p, m, height) ==
  IF ~RtOk(x) THEN x
  ELSE [nodeRelease(x, m.pParent) EXCEPT
          !.node = RtWithout(@, m.iNode),
          !.parent = RtWithout(@, m.iNode),
          !.mem[p].iNode = height, !.mem[p].nRef = @ + 1, !.deleted = <<p>> \o @]

\* The node leaves the tree; its content is to be inserted again.
removeNode(x, p, height) ==
  LET m == Mem(x, p)
      i == nodeParentIndex(x, p)
  IN IF m.nRef # 1 THEN RtFail(x, "assert")
     ELSE IF i = 0 THEN RtFail(x, "corrupt")
     ELSE ForgetNode(deleteCell([x EXCEPT !.mem[p].pParent = NULL], m.pParent, i, height + 1),
                     p, m, height)

\* Mutant: a node that keeps enough cells keeps its box.
MutCondense(x, p, height) ==
  IF Mem(x, p).pParent # NULL /\ Len(Cells(x, p)) < MinCells THEN removeNode(x, p, height) ELSE x

Condense(x, p, height) ==
  IF Mem(x, p).pParent = NULL
  THEN IF Mem(x, p).iNode = 1 THEN x ELSE RtFail(x, "assert")
  ELSE IF Len(Cells(x, p)) < MinCells THEN removeNode(x, p, height)
  ELSE fixBoundingBox(x, p)

DeleteAt(x, p, i, height) ==
  IF RtOk(x) THEN Condense(SetCells(x, p, RemoveAt(Cells(x, p), i)), p, height) ELSE x

deleteCell(x, p, i, height) == DeleteAt(fixLeafParent(x, p, p), p, i, height)

\* The root has one child left: the content of the child moves up.
FreeChild(x, p, root) ==
  LET Lower(y) == [y EXCEPT !.iDepth = @ - 1, !.mem[root].depth = y.iDepth - 1,
                            !.mem[root].dirty = TRUE]
  IN IF RtOk(x) THEN Lower(nodeRelease(x, p)) ELSE x
TakeChild(x, root) ==
  IF RtOk(x) THEN FreeChild(removeNode(x, x.res, x.iDepth - 1), x.res, root) ELSE x
Shrink(x, root) ==
  IF ~RtOk(x) \/ x.iDepth <= 0 \/ Len(Cells(x, root)) # 1 THEN x
  ELSE TakeChild(nodeAcquire(x, Cells(x, root)[1].id, root), root)

\* Mutant: the first cell of a removed node is not inserted again.
RECURSIVE MutReinsertTail(_)
MutReinsertTail(x) ==
  LET p == Head(x.deleted)
      Freed(x1) == MutReinsertTail([x1 EXCEPT !.deleted = Tail(@), !.mem = RtWithout(@, p)])
  IN IF ~RtOk(x) \/ x.deleted = <<>> THEN x
     ELSE Freed(PutBack(x, Tail(Cells(x, p)), Mem(x, p).iNode))

\* reinsertNodeContent of every removed node, the last one removed first.
RECURSIVE ReinsertDeleted(_)
ReinsertDeleted(x) ==
  LET p == Head(x.deleted)
      Freed(x1) == ReinsertDeleted([x1 EXCEPT !.deleted = Tail(@),
                                              !.mem = RtWithout(@, p)])
  IN IF ~RtOk(x) \/ x.deleted = <<>> THEN x ELSE Freed(PutBack(x, Cells(x, p), Mem(x, p).iNode))

findLeafNode(x, id) ==
  IF id \in DOMAIN x.rowid THEN nodeAcquire(x, x.rowid[id], NULL) ELSE [x EXCEPT !.res = NULL]

UnmapRow(x, leaf, id) == [nodeRelease(x, leaf) EXCEPT !.rowid = RtWithout(@, id)]
FreeRoot(x, root) == IF RtOk(x) THEN nodeRelease(x, root) ELSE x
CondenseTree(x, root, leaf, id) ==
  IF RtOk(x) THEN FreeRoot(ReinsertDeleted(Shrink(UnmapRow(x, leaf, id), root)), root) ELSE x
DeleteFound(x, root, leaf, i, id) ==
  IF i = 0 THEN RtFail(x, "corrupt") ELSE CondenseTree(deleteCell(x, leaf, i, 0), root, leaf, id)
DeleteFrom(x, root, id) ==
  IF ~RtOk(x) THEN x
  ELSE IF x.res = NULL THEN RtFail(x, "corrupt")
  ELSE DeleteFound(x, root, x.res, nodeRowidIndex(Cells(x, x.res), id), id)
DeleteBelow(x, id) == IF RtOk(x) THEN DeleteFrom(findLeafNode(x, id), x.res, id) ELSE x
rtreeDeleteRowid(x, id) == DeleteBelow(nodeAcquire(x, 1, NULL), id)

-----------------------------------------------------------------------------
(* xUpdate: delete row old (NULL: none), insert a row with rowid new (NULL:  *)
(* the next one) and a box (<<>>: none).                                     *)
Valid(b) == \A k \in Dims : Lo(b, k) <= Hi(b, k)

newRowid(x) == IF DOMAIN x.rowid = {} THEN 1 ELSE Max(DOMAIN x.rowid) + 1

InsertInto(x, id, b) ==
  FreeRoot(rtreeInsertCell([x EXCEPT !.iReinsertHeight = -1], x.res, [id |-> id, box |-> b], 0), x.res)
InsertRow(x, id, b) == InsertInto(ChooseLeaf(x, b, 0), id, b)

RECURSIVE DeleteRows(_, _)
DeleteRows(x, ids) ==
  IF ids = <<>> \/ ~RtOk(x) THEN x ELSE DeleteRows(rtreeDeleteRowid(x, ids[1]), Tail(ids))

StoreRow(x, id, b, mapped) ==
  [InsertRow(IF mapped THEN x ELSE [x EXCEPT !.rowid = (id :> NULL) @@ @], id, b) EXCEPT !.res = id]
StoreNew(x, new, b) ==
  IF b = <<>> \/ ~RtOk(x) THEN x
  ELSE StoreRow(x, IF new = NULL THEN newRowid(x) ELSE new, b, new # NULL)

rtreeUpdate(x, old, new, b, replace) ==
  LET taken == b # <<>> /\ new # NULL /\ new # old /\ new \in DOMAIN x.rowid
      gone == (IF taken THEN <<new>> ELSE <<>>) \o (IF old # NULL THEN <<old>> ELSE <<>>)
  IN IF (b # <<>> /\ ~Valid(b)) \/ (taken /\ ~replace)
     THEN [x EXCEPT !.res = -1]                                \* SQLITE_CONSTRAINT
     ELSE StoreNew(DeleteRows(x, gone), new, b)

-----------------------------------------------------------------------------
(* Cursors.  A constraint compares a coordinate with a value, or is a MATCH  *)
(* whose callback asks for the cells that meet a box.                        *)
Meets(a, b) == \A k \in Dims : Lo(a, k) <= Hi(b, k) /\ Lo(b, k) <= Hi(a, k)

\* testRtreeCell: may rows below the cell satisfy the constraint?
testRtreeCell(b, con) ==
  LET k == (con.c + 1) \div 2
  IN CASE con.op \in {"LE", "LT"} -> con.v >= Lo(b, k)
       [] con.op \in {"GE", "GT"} -> con.v <= Hi(b, k)
       [] con.op = "EQ" -> con.v <= Hi(b, k) /\ con.v >= Lo(b, k)
       [] con.op = "MATCH" -> Meets(b, con.v)

testRtreeEntry(b, con) ==
  CASE con.op = "LE" -> b[con.c] <= con.v
    [] con.op = "LT" -> b[con.c] < con.v
    [] con.op = "GE" -> b[con.c] >= con.v
    [] con.op = "GT" -> b[con.c] > con.v
    [] con.op = "EQ" -> b[con.c] = con.v
    [] con.op = "MATCH" -> Meets(b, con.v)

\* Results: the tree, the cursor's node and cell, and whether nothing matched.
RECURSIVE descendToCell(_, _, _, _, _), Siblings(_, _, _, _, _)

\* The first match at or below a cell of p from cell i on.
Siblings(x, p, i, height, q) ==
  LET Tried(r) == IF ~r.eof \/ ~RtOk(r.x) THEN r ELSE Siblings(r.x, p, i + 1, height, q)
  IN IF i > Len(Cells(x, p)) THEN [x |-> x, p |-> p, i |-> i, eof |-> TRUE]
     ELSE Tried(descendToCell(x, p, i, height, q))

descendToCell(x, p, i, height, q) ==
  LET At(y, eof) == [x |-> y, p |-> p, i |-> i, eof |-> eof]
      Out(cell) == IF height = 0 THEN \E j \in DOMAIN q.cons : ~testRtreeEntry(cell.box, q.cons[j])
                   ELSE \E j \in DOMAIN q.cons : ~testRtreeCell(cell.box, q.cons[j])
      Below(r, child) == IF r.eof /\ RtOk(r.x)
                         THEN At(nodeRelease(nodeReference(r.x, p), child), TRUE) ELSE r
      Into(x1) == IF ~RtOk(x1) THEN At(x1, TRUE)
                  ELSE Below(Siblings(nodeRelease(x1, p), x1.res, 1, height - 1, q), x1.res)
      Tested(cell, out) == IF out \/ height = 0 THEN At(x, out) ELSE Into(nodeAcquire(x, cell.id, p))
      Cell(cell) == Tested(cell, Out(cell))
  IN Cell(Cells(x, p)[i])

rtreeFilter(x, q) ==
  LET Eof(y) == [x |-> y, p |-> NULL, i |-> 0, eof |-> TRUE]
      Row(x1, i) == [x |-> IF i = 0 THEN RtFail(x1, "corrupt") ELSE x1, p |-> x1.res, i |-> i, eof |-> FALSE]
      Leaf(x1) == IF x1.res = NULL THEN Eof(x1)
                  ELSE Row(x1, nodeRowidIndex(Cells(x1, x1.res), q.rowid))
      First(r, root) == IF r.eof /\ RtOk(r.x) THEN Eof(nodeRelease(r.x, root)) ELSE r
      Root(x1) == First(Siblings(x1, x1.res, 1, x1.iDepth, q), x1.res)
  IN IF q.rowid # NULL THEN Leaf(findLeafNode(x, q.rowid)) ELSE Root(nodeAcquire(x, 1, NULL))

\* The next match in node p, else in its parent behind p, and so on up.
RECURSIVE Climb(_, _, _, _, _)
Climb(x, p, i, height, q) ==
  LET up == Mem(x, p).pParent
      Up(y, j) ==
        IF up = NULL THEN [x |-> nodeRelease(y, p), p |-> NULL, i |-> -1, eof |-> TRUE]
        ELSE IF j = 0 THEN [x |-> RtFail(y, "corrupt"), p |-> p, i |-> i, eof |-> TRUE]
        ELSE Climb(nodeRelease(nodeReference(y, up), p), up, j, height + 1, q)
      Past(r) == IF ~r.eof \/ ~RtOk(r.x) THEN r ELSE Up(r.x, nodeParentIndex(x, p))
  IN Past(Siblings(x, p, i + 1, height, q))

rtreeNext(x, p, i, q) ==
  IF q.rowid # NULL THEN [x |-> nodeRelease(x, p), p |-> NULL, i |-> 0, eof |-> TRUE]
  ELSE Climb(x, p, i, 0, q)

-----------------------------------------------------------------------------
NoCsr == [p |-> NULL, i |-> 0, q |-> [rowid |-> NULL, cons |-> <<>>]]

\* rtreeInit leaves an empty root and a zeroed Rtree.
EmptyTree == [node |-> (1 :> [depth |-> 0, cells |-> <<>>]), rowid |-> <<>>, parent |-> <<>>,
              mem |-> <<>>, iDepth |-> 0, iReinsertHeight |-> 0, deleted |-> <<>>,
              err |-> "ok", res |-> NULL]

RtInit ==
  /\ rt = EmptyTree
  /\ rtRows = <<>>
  /\ csr = NoCsr
  /\ \E tree \in Trees : script = tree.made /\ writes = tree.writes

\* INSERT, UPDATE (of rowid and box) and DELETE of one row: the row before, its
\* rowid and box after, and whether the conflict clause is REPLACE.
RtWrite(old, new, b, replace) ==
  LET gone == {old} \cup IF b = <<>> THEN {} ELSE {new}
      kept == [r \in DOMAIN rtRows \ gone |-> rtRows[r]]
      Wrote(x) ==
        /\ rt' = [x EXCEPT !.res = NULL]
        /\ rtRows' = IF x.res = -1 \/ ~RtOk(x) THEN rtRows
                     ELSE IF b = <<>> THEN kept ELSE (x.res :> b) @@ kept
  IN /\ RtOk(rt)
     /\ old # NULL => old \in DOMAIN rtRows
     /\ Wrote(rtreeUpdate(rt, old, new, b, replace))
     /\ UNCHANGED csr

\* A table is first filled by its script, of boxes to insert and rows to delete
\* (<<rowid>>); then comes any write.
Scripted(h) == {IF Len(h) = 1 THEN <<h[1], NULL, <<>>, FALSE>> ELSE <<NULL, NULL, h, FALSE>>}
Inserts == {NULL} \X (RowIds \cup {NULL}) \X Boxes \X BOOLEAN
Deletes == (DOMAIN rtRows) \X {NULL} \X {<<>>} \X {FALSE}
Updates == (RowIds \cap DOMAIN rtRows) \X RowIds \X Boxes \X BOOLEAN
RtUpdate ==
  /\ script # <<>> \/ writes > 0
  /\ script' = IF script = <<>> THEN script ELSE Tail(script)
  /\ writes' = IF script = <<>> THEN writes - 1 ELSE writes
  /\ \E w \in IF script = <<>> THEN Inserts \cup Deletes \cup Updates ELSE Scripted(Head(script)) :
       RtWrite(w[1], w[2], w[3], w[4])

Moved(r, q) ==
  /\ rt' = [r.x EXCEPT !.res = NULL]
  /\ csr' = IF r.eof THEN NoCsr ELSE [p |-> r.p, i |-> r.i, q |-> q]
  /\ UNCHANGED <<rtRows, writes, script>>

\* rtreeOpen, rtreeFilter
RtFilter(q) == RtOk(rt) /\ csr.p = NULL /\ writes > 0 /\ script = <<>> /\ Moved(rtreeFilter(rt, q), q)

RtNextRow == RtOk(rt) /\ csr.p # NULL /\ Moved(rtreeNext(rt, csr.p, csr.i, csr.q), csr.q)

RtClose ==
  /\ RtOk(rt) /\ csr.p # NULL
  /\ rt' = nodeRelease(rt, csr.p)
  /\ csr' = NoCsr
  /\ UNCHANGED <<rtRows, writes, script>>

RtNext ==
  \/ RtUpdate
  \/ \E q \in Scanned : RtFilter(q)
  \/ RtNextRow \/ RtClose

RtSpec == RtInit /\ [][RtNext]_rtVars

-----------------------------------------------------------------------------
(* The tree as memory and the node table together show it.                   *)
View(x, n) ==
  LET p == nodeHashLookup(x, n)
  IN IF p = NULL THEN x.node[n] ELSE [depth |-> Mem(x, p).depth, cells |-> Mem(x, p).cells]

TreeDepth(x) == View(x, 1).depth

\* The nodes of a level, the root at level 0, with a node for every cell that
\* leads to it.
RECURSIVE LevelOf(_, _)
LevelOf(x, l) ==
  IF l = 0 THEN <<1>>
  ELSE LET above == LevelOf(x, l - 1)
       IN FlattenSeq([i \in DOMAIN above |-> LET cells == View(x, above[i]).cells
                                             IN [j \in DOMAIN cells |-> cells[j].id]])

Inner(x) == UNION {ToSet(LevelOf(x, l)) : l \in 0..TreeDepth(x) - 1}
Leaves(x) == LevelOf(x, TreeDepth(x))
LeafCells(x) == LET leaves == Leaves(x) IN FlattenSeq([i \in DOMAIN leaves |-> View(x, leaves[i]).cells])

Matches(b, q) == \A j \in DOMAIN q.cons : testRtreeEntry(b, q.cons[j])

\* The rowids a whole scan returns, in order.
RECURSIVE Rest(_, _, _)
Rest(r, q, most) ==
  IF r.eof \/ most = 0 THEN <<>>
  ELSE <<Cells(r.x, r.p)[r.i].id>> \o Rest(rtreeNext(r.x, r.p, r.i, q), q, most - 1)
Scan(x, q) == Rest(rtreeFilter(x, q), q, Cardinality(DOMAIN rtRows) + 1)

-----------------------------------------------------------------------------
(* Properties.                                                               *)

\* The variables have their types, every node holds between none and MaxCells
\* cells, and nothing is left on the list of removed nodes between writes.
RtTypeOK ==
  /\ rt.err \in {"ok", "corrupt", "assert"}
  /\ \A n \in DOMAIN rt.node : Len(rt.node[n].cells) <= MaxCells
  /\ RtOk(rt) => rt.deleted = <<>> /\ (\A p \in DOMAIN rt.mem : rt.mem[p].iNode \in DOMAIN rt.node)
  /\ csr.p \in DOMAIN rt.mem \cup {NULL}
  /\ writes \in Nat

\* While no cursor is open no write meets a corrupt tree or fails an
\* assertion: the mapping tables, parent pointers and reference counts that
\* insert, split, reinsert and condense rely on are right at every use.
NoErrorAlone == csr.p = NULL => RtOk(rt)

\* The tree holds exactly the rows the statements stored, each in one cell of
\* one leaf, with its box: no split, reinsertion or removal of a node loses or
\* doubles a row.
RowsStored ==
  RtOk(rt) =>
    LET cells == LeafCells(rt)
    IN /\ Len(cells) = Cardinality(DOMAIN rtRows)
       /\ {<<c.id, c.box>> : c \in ToSet(cells)} = {<<r, rtRows[r]>> : r \in DOMAIN rtRows}

\* Every inner cell has the smallest box around the node it leads to, so that a
\* scan neither skips a match nor visits a node for nothing.
BoxesTight ==
  RtOk(rt) =>
    \A n \in Inner(rt) : LET cells == View(rt, n).cells
                         IN \A i \in DOMAIN cells :
                              cells[i].box = UnionOf(View(rt, cells[i].id).cells)

\* Nodes other than the root are at least a third full; a root above others has
\* two or more; the node table holds the nodes of the tree and no other.
Condensed ==
  RtOk(rt) =>
    LET nodes == Inner(rt) \cup ToSet(Leaves(rt))
    IN /\ DOMAIN rt.node = nodes
       /\ \A n \in nodes \ {1} : Len(View(rt, n).cells) >= MinCells
       /\ TreeDepth(rt) > 0 => Len(View(rt, 1).cells) >= 2

\* The rowid table leads each row to its leaf, and the parent table each node to
\* its parent, as deletion needs to find its way up from a row.
MappingsExact ==
  RtOk(rt) =>
    LET leaves == ToSet(Leaves(rt))
        inner  == Inner(rt)
        leadsTo(n, id) == \E i \in DOMAIN View(rt, n).cells : View(rt, n).cells[i].id = id
    IN /\ DOMAIN rt.rowid = DOMAIN rtRows
       /\ \A r \in DOMAIN rtRows : rt.rowid[r] \in leaves /\ leadsTo(rt.rowid[r], r)
       /\ DOMAIN rt.parent = DOMAIN rt.node \ {1}
       /\ \A n \in DOMAIN rt.parent : rt.parent[n] \in inner /\ leadsTo(rt.parent[n], n)

\* A node in memory has as many references as there are cursors on it and nodes
\* in memory below it, its parent is the one the tree gives it, and it differs
\* from the table only if it is marked to be written; without a cursor nothing
\* stays in memory, so all is in the tables when the transaction commits.
ReferencesExact ==
  RtOk(rt) =>
    /\ csr.p = NULL => rt.mem = <<>>
    /\ \A p \in DOMAIN rt.mem :
         LET m == rt.mem[p]
         IN /\ m.nRef = Cardinality({q \in DOMAIN rt.mem : rt.mem[q].pParent = p})
                        + IF csr.p = p THEN 1 ELSE 0
            /\ m.nRef > 0
            /\ m.pParent # NULL => rt.mem[m.pParent].iNode = rt.parent[m.iNode]
            /\ ~m.dirty => rt.node[m.iNode] = View(rt, m.iNode)

\* A scan returns each row that satisfies its constraints once and no other,
\* whatever the shape the writes gave the tree.
ScansExact ==
  RtOk(rt) /\ csr.p = NULL =>
    \A q \in Queries :
      LET Exact(found) ==
            /\ IsInjective(found)
            /\ ToSet(found) = IF q.rowid # NULL THEN {q.rowid} \cap DOMAIN rtRows
                              ELSE {r \in DOMAIN rtRows : Matches(rtRows[r], q)}
      IN Exact(Scan(rt, q))

\* The tree is sound between writes: its boxes, its fill, its tables and the nodes
\* in memory agree, and no write met an error by itself.
TreeSound == RtTypeOK /\ NoErrorAlone /\ BoxesTight /\ Condensed /\ MappingsExact /\ ReferencesExact

\* The tree stores exactly the rows written to it, and scans find them.
RtreeExact == RowsStored /\ ScansExact
=============================================================================
