----------------------------- MODULE BtreePages -----------------------------
(* The page layer of a b-tree database file (btree/btree.go over             *)
(* btree/pager.go): the free list, the pointer map of an auto-vacuum         *)
(* database, overflow chains, creating, clearing and dropping tables,        *)
(* incremental and full auto-vacuum, and what a commit writes and a rollback *)
(* restores.                                                                 *)
(*                                                                           *)
(* The whole state of one BtShared and its pager is one record, `d`, and     *)
(* every routine of the source is an operator from such a record to the one  *)
(* it leaves:                                                                *)
(*   img    content of each page as the cache shows it                       *)
(*   disk   content of each page in the file                                 *)
(*   nPage  BtShared.nPage        size, orig   Pager.dbSize, dbOrigSize      *)
(*   jrnl   records of the rollback journal    inJ   Pager.pInJournal        *)
(*   dirty, dont  pages with PGHDR_DIRTY, PGHDR_DONT_WRITE                   *)
(*   has    BtShared.pHasContent ([len |-> 0, set |-> {}] is nil)            *)
(*   mode   "none", "full" or "incr": autoVacuum and incrVacuum              *)
(*   mj     PAGER_MJ_PGNO, the page of the pending byte, scaled down         *)
(*   err    result code of the last routine                                  *)
(*   pg     page number the last allocation returned                         *)
(*                                                                           *)
(* A page holds what the properties tell apart: page 1 its header fields and *)
(* the root pages the schema records; a tree page its cells (key, number of  *)
(* overflow pages, first overflow page) and its children; an overflow page   *)
(* its link and one datum; a trunk page its link and its leaves; a pointer   *)
(* map page its entries.  The trees are those that need no balancing.        *)
EXTENDS Integers, Sequences, FiniteSets, SequencesExt, TLC

CONSTANTS Tables,       \* b-trees besides the schema table
          Keys,         \* rowids
          MaxPage,      \* PRAGMA max_page_count
          NEntry,       \* pointer map entries of one page, usableSize / 5
          TrunkCap,     \* leaves a trunk takes, usableSize / 4 - 8
          MaxChain,     \* longest overflow chain of a row
          Modes,        \* auto-vacuum modes of the databases
          PendingPages, \* where the pending byte page may be
          Starts,       \* plans that fill a new database
          MaxOps        \* bound on the operations of a behaviour

VARIABLES d,       \* the file, its cache and its journal
          rows,    \* what the tables hold: table -> key -> data of its pages
          saved,   \* the same at the last commit
          blob,    \* an incremental blob handle and its OverflowCache
          plan,    \* operations that fill the database, still to come
          ops      \* operations after those, so far

pageVars == <<d, rows, saved, blob, plan, ops>>

Pages == 1..MaxPage
Zero == [k |-> "zero"]
ROOT_PAGE == 1
FREE_PAGE == 2
FIRST_OVERFLOW_PAGE == 3
SECONDARY_OVERFLOW_PAGE == 4
NON_ROOT_BTREE_PAGE == 5

(* Content of pages, as the code finds it at the offsets it reads.           *)
PageOne(x) == x.img[1]
NextOf(x, p) == IF x.img[p].k \in {"ovfl", "trunk"} THEN x.img[p].next ELSE 0
LeavesOf(x, p) == IF x.img[p].k = "trunk" THEN x.img[p].leaves ELSE <<>>
CellsOf(x, p) == IF x.img[p].k = "tree" THEN x.img[p].cells ELSE <<>>
KidsOf(x, p) == IF x.img[p].k = "tree" THEN x.img[p].kids ELSE <<>>
EntriesOf(x, p) == IF x.img[p].k = "map" THEN x.img[p].ent
                   ELSE [i \in 1..NEntry |-> <<0, 0>>]
Leaf == [k |-> "tree", cells |-> <<>>, kids |-> <<>>]

Ok(x) == x.err = "ok"
Fail(x, e) == [x EXCEPT !.err = e]
AutoVacuum(x) == x.mode # "none"

-----------------------------------------------------------------------------
(* The pager.                                                                *)

\* pager_write: a page of the original file is journalled before its first
\* change in the transaction.
Write(x, p) ==
  LET logged == p \notin x.inJ /\ p <= x.orig
  IN [x EXCEPT !.jrnl = IF logged THEN (p :> x.img[p]) @@ @ ELSE @,
               !.inJ = IF logged THEN @ \cup {p} ELSE @,
               !.dirty = @ \cup {p}, !.dont = @ \ {p},
               !.size = IF @ < p THEN p ELSE @]

\* DbPage.Write, then a change of the page.
Store(x, p, content) == [Write(x, p) EXCEPT !.img[p] = content]

\* Pager.Acquire with noContent: the page is zeroed, and marked as journalled
\* without being journalled.
AcquireNoContent(x, p) ==
  IF p > MaxPage THEN Fail(x, "full")
  ELSE [x EXCEPT !.img[p] = Zero,
                 !.inJ = IF p <= x.orig THEN @ \cup {p} ELSE @]

\* sqlite3PagerMovepage: the content of page p becomes that of page to; what
\* is read at p from then on is what the file has there.
Movepage(x, p, to) ==
  [x EXCEPT !.img = [@ EXCEPT ![to] = x.img[p], ![p] = x.disk[p]],
            !.dirty = (@ \cup {to}) \ {p}, !.dont = @ \ {p, to}]

-----------------------------------------------------------------------------
(* BtShared.pHasContent: pages that became free-list leaves in this          *)
(* transaction, whose old content a rollback may need.                       *)
NoContentVector == [len |-> 0, set |-> {}]

\* Mutant: leaves are not remembered.
MutForgetContent(x, p) == x

btreeSetHasContent(x, p) ==
  LET v == IF x.has.len = 0 THEN [len |-> x.nPage, set |-> {}] ELSE x.has
  IN [x EXCEPT !.has = IF p <= v.len THEN [v EXCEPT !.set = @ \cup {p}] ELSE v]

btreeGetHasContent(x, p) == x.has.len # 0 /\ (p > x.has.len \/ p \in x.has.set)

-----------------------------------------------------------------------------
(* The pointer map.                                                          *)
Pageno(x, p) ==
  LET per == NEntry + 1
      n   == ((p - 2) \div per) * per + 2
  IN IF p < 2 THEN 0 ELSE IF n = x.mj THEN n + 1 ELSE n

IsMapPage(x, p) == Pageno(x, p) = p
Reserved(x, p) == p = x.mj \/ IsMapPage(x, p)

SetEntry(x, m, ent, i, entry) ==
  IF ent[i] = entry THEN x ELSE Store(x, m, [k |-> "map", ent |-> [ent EXCEPT ![i] = entry]])
PutOn(x, m, key, entry) == SetEntry(x, m, EntriesOf(x, m), key - m, entry)
Put(x, key, type, parent) ==
  IF ~Ok(x) THEN x
  ELSE IF key = 0 THEN Fail(x, "corrupt")
  ELSE PutOn(x, Pageno(x, key), key, <<type, parent>>)

EntryOn(x, m, key) == EntriesOf(x, m)[key - m]
Get(x, key) == EntryOn(x, Pageno(x, key), key)

\* The first page from p on (or down from p) that is neither a pointer map
\* page nor the pending byte page.
RECURSIVE SkipUp(_, _)
SkipUp(x, p) == IF Reserved(x, p) THEN SkipUp(x, p + 1) ELSE p
RECURSIVE SkipDown(_, _)
SkipDown(x, p) == IF Reserved(x, p) THEN SkipDown(x, p - 1) ELSE p

-----------------------------------------------------------------------------
(* The free list.                                                            *)

\* Index of the leaf nearest to `nearby`, the first of several.
Closest(leaves, nearby) ==
  LET dist(i) == IF leaves[i] < nearby THEN nearby - leaves[i] ELSE leaves[i] - nearby
  IN IF nearby = 0 THEN 1
     ELSE CHOOSE i \in 1..Len(leaves) :
            /\ \A j \in 1..Len(leaves) : dist(i) <= dist(j)
            /\ \A j \in 1..i - 1 : dist(i) < dist(j)

\* Leaf number i leaves trunk t; its old content is read only if a rollback
\* may need it.
Unlisted(leaves, i) == SubSeq([leaves EXCEPT ![i] = leaves[Len(leaves)]], 1, Len(leaves) - 1)
TakeFree(x, p) ==
  [Write(IF btreeGetHasContent(x, p) THEN x ELSE AcquireNoContent(x, p), p) EXCEPT !.pg = p]
TakeLeaf(x, t, i) ==
  TakeFree(Store(x, t, [x.img[t] EXCEPT !.leaves = Unlisted(@, i)]), LeavesOf(x, t)[i])

\* The link of the free list that led to a trunk: on page 1 or the previous
\* trunk.
Relink(x, prev, to) ==
  IF prev = 0 THEN [x EXCEPT !.img[1].trunk = to]
  ELSE Store(x, prev, [x.img[prev] EXCEPT !.next = to])

\* The trunk page itself is the page wanted; its first leaf takes its place.
TakeTrunk(x, prev, t) ==
  LET Replaced(y, leaves) ==
        IF leaves = <<>> THEN Relink(y, prev, NextOf(x, t))
        ELSE Relink(Store(y, leaves[1], [k |-> "trunk", next |-> NextOf(x, t), leaves |-> Tail(leaves)]),
                    prev, leaves[1])
  IN [Replaced(Write(x, t), LeavesOf(x, t)) EXCEPT !.pg = t]

\* The search of the whole list for the page `nearby`.
RECURSIVE SearchList(_, _, _, _)
SearchList(x, prev, t, nearby) ==
  LET leaves == LeavesOf(x, t)
      i      == Closest(leaves, nearby)
  IN IF t = 0 \/ t > x.nPage THEN Fail(x, "corrupt")
     ELSE IF t = nearby THEN TakeTrunk(x, prev, t)
     ELSE IF leaves # <<>> /\ leaves[i] = nearby THEN TakeLeaf(x, t, i)
     ELSE SearchList(x, t, NextOf(x, t), nearby)

\* One page more at the end of the file, two where the first is a pointer map
\* page.
After(x, p) == IF p + 1 = x.mj THEN p + 2 ELSE p + 1
ExtendPast(x, map) == IF Ok(x) THEN [Write(x, map) EXCEPT !.nPage = After(x, map)] ELSE x
ExtendMap(x) ==
  IF AutoVacuum(x) /\ IsMapPage(x, x.nPage) THEN ExtendPast(AcquireNoContent(x, x.nPage), x.nPage) ELSE x
NewPage(x, p) == IF Ok(x) THEN [Write(x, p) EXCEPT !.pg = p] ELSE x
ExtendTo(x) ==
  IF Ok(x) THEN NewPage(AcquireNoContent([x EXCEPT !.img[1].n = x.nPage], x.nPage), x.nPage) ELSE x
ExtendFile(x) == ExtendTo(ExtendMap([Write(x, 1) EXCEPT !.nPage = After(x, x.nPage)]))

\* A page of the free list, counted off already: `nearby` itself, or the leaf of
\* the first trunk nearest to it.
AllocateFree(x, t, nearby, search) ==
  IF search THEN SearchList(x, 0, t, nearby)
  ELSE IF t = 0 \/ t > x.nPage THEN Fail(x, "corrupt")
  ELSE IF LeavesOf(x, t) = <<>> THEN TakeTrunk(x, 0, t)
  ELSE TakeLeaf(x, t, Closest(LeavesOf(x, t), nearby))

AllocateNear(x, nearby, type) ==
  IF type = 0 THEN Fail(x, "corrupt")
  ELSE AllocateFree([Write(x, 1) EXCEPT !.img[1].nFree = @ - 1], PageOne(x).trunk, nearby,
                    type = FREE_PAGE)

\* `exact`: the page `nearby` is wanted, if it is free.
allocateBtreePage(x, nearby, exact) ==
  IF ~Ok(x) THEN x
  ELSE IF PageOne(x).nFree >= x.nPage THEN Fail(x, "corrupt")
  ELSE IF PageOne(x).nFree = 0 THEN ExtendFile(x)
  ELSE AllocateNear(x, nearby, IF exact /\ nearby <= x.nPage THEN Get(x, nearby)[1] ELSE -1)

FreeAsLeaf(x, p, t) ==
  btreeSetHasContent([Store(x, t, [x.img[t] EXCEPT !.leaves = Append(@, p)])
                       EXCEPT !.dont = @ \cup {p}], p)
FreeAsTrunk(x, p, t) ==
  [Store(x, p, [k |-> "trunk", next |-> t, leaves |-> <<>>]) EXCEPT !.img[1].trunk = p]
FreeOnto(x, p, t) ==
  IF t # 0 /\ x.img[t].k # "trunk" THEN Fail(x, "corrupt")
  ELSE IF t # 0 /\ Len(LeavesOf(x, t)) < TrunkCap THEN FreeAsLeaf(x, p, t) ELSE FreeAsTrunk(x, p, t)
FreeMapped(x, p) == IF AutoVacuum(x) THEN Put(x, p, FREE_PAGE, 0) ELSE x

freePage2(x, p) ==
  IF ~Ok(x) THEN x
  ELSE FreeOnto(FreeMapped([Write(x, 1) EXCEPT !.img[1].nFree = @ + 1], p), p,
                IF PageOne(x).nFree = 0 THEN 0 ELSE PageOne(x).trunk)

-----------------------------------------------------------------------------
(* Overflow chains.                                                          *)

\* getOverflowPage: an auto-vacuum database first guesses the page that
\* follows and asks the pointer map.
getOverflowPage(x, p) ==
  LET guess == SkipUp(x, p + 1)
  IN IF AutoVacuum(x) /\ guess <= x.nPage
        /\ Get(x, guess) = <<SECONDARY_OVERFLOW_PAGE, p>>
     THEN guess ELSE NextOf(x, p)

\* clearCell: free the n pages of a chain that starts at p.
RECURSIVE clearCell(_, _, _)
clearCell(x, p, n) ==
  IF n = 0 \/ ~Ok(x) THEN x
  ELSE IF p < 2 \/ p > x.nPage THEN Fail(x, "corrupt")
  ELSE clearCell(freePage2(x, p), IF n > 1 THEN getOverflowPage(x, p) ELSE 0, n - 1)

\* fillInCell: allocate and fill the pages of a new chain; prior is the page
\* filled last (0: the cell), and the first page of the chain is returned
\* with the record.
RECURSIVE fillInCell(_, _, _, _)
ChainEntry(x, p, prior) ==
  IF AutoVacuum(x)
  THEN Put(x, p, IF prior = 0 THEN FIRST_OVERFLOW_PAGE ELSE SECONDARY_OVERFLOW_PAGE, prior)
  ELSE x
ChainLinked(x, p, prior) == IF prior = 0 THEN x ELSE [x EXCEPT !.img[prior].next = p]
ChainFilled(x, p, prior, first, data) ==
  IF ~Ok(x) THEN <<x, first>>
  ELSE fillInCell([ChainLinked(x, p, prior) EXCEPT !.img[p] = [k |-> "ovfl", next |-> 0, data |-> data[1]]],
                  p, IF first = 0 THEN p ELSE first, Tail(data))
ChainGrown(x, prior, first, data) == ChainFilled(ChainEntry(x, x.pg, prior), x.pg, prior, first, data)
fillInCell(x, prior, first, data) ==
  IF data = <<>> \/ ~Ok(x) THEN <<x, first>>
  ELSE ChainGrown(allocateBtreePage(x, IF AutoVacuum(x) THEN SkipUp(x, prior + 1) ELSE prior, FALSE),
                  prior, first, data)

-----------------------------------------------------------------------------
(* Moving a page.                                                            *)

\* MemoryPage.PutOvflPtr for each cell of page p, and an entry for each child.
PutOvflPtr(x, p, c) == IF c.n = 0 THEN x ELSE Put(x, c.first, FIRST_OVERFLOW_PAGE, p)

setChildPtrmaps(x, p) ==
  LET cell(y, c) == PutOvflPtr(y, p, c)
      kid(y, q)  == Put(y, q, NON_ROOT_BTREE_PAGE, p)
  IN FoldLeft(kid, FoldLeft(cell, x, CellsOf(x, p)), KidsOf(x, p))

\* The pointer to page `from` on page p is changed to `to`.
modifyPagePointer(x, p, from, to, type) ==
  LET cells == CellsOf(x, p)
      kids  == KidsOf(x, p)
      C     == {i \in 1..Len(cells) : cells[i].n > 0 /\ cells[i].first = from}
      K     == {i \in 1..Len(kids) : kids[i] = from}
      least(S) == CHOOSE i \in S : \A j \in S : i <= j
  IN CASE type = SECONDARY_OVERFLOW_PAGE ->
            IF NextOf(x, p) # from THEN Fail(x, "corrupt")
            ELSE [x EXCEPT !.img[p].next = to]
       [] type = FIRST_OVERFLOW_PAGE ->
            IF C = {} THEN Fail(x, "corrupt") ELSE [x EXCEPT !.img[p].cells[least(C)].first = to]
       [] OTHER ->
            IF K = {} THEN Fail(x, "corrupt") ELSE [x EXCEPT !.img[p].kids[least(K)] = to]

\* The pointer to a moved page and its entry.
Repoint(x, p, type, ptr, to) ==
  IF ~Ok(x) \/ type = ROOT_PAGE THEN x
  ELSE Put(modifyPagePointer(Write(x, ptr), ptr, p, to, type), to, type, ptr)

\* Mutant: children and chains of a moved tree page keep their old entries.
MutRelocateAlone(x, p, type, ptr, to) ==
  IF Ok(x) THEN Repoint(Movepage(x, p, to), p, type, ptr, to) ELSE x

\* The entries of what hangs below a moved page.
MovedChildren(x, type, to) ==
  IF type \in {NON_ROOT_BTREE_PAGE, ROOT_PAGE} THEN setChildPtrmaps(x, to)
  ELSE IF NextOf(x, to) # 0 THEN Put(x, NextOf(x, to), SECONDARY_OVERFLOW_PAGE, to) ELSE x

relocatePage(x, p, type, ptr, to) ==
  IF Ok(x) THEN Repoint(MovedChildren(Movepage(x, p, to), type, to), p, type, ptr, to) ELSE x

-----------------------------------------------------------------------------
(* Vacuum.                                                                   *)

\* Pages are taken off the free list until one lies within the first nFin.
RECURSIVE AllocateWithin(_, _)
KeepWithin(x, nFin) == IF ~Ok(x) \/ nFin = 0 \/ x.pg <= nFin THEN x ELSE AllocateWithin(x, nFin)
AllocateWithin(x, nFin) == KeepWithin(allocateBtreePage(x, 0, FALSE), nFin)

\* The last page of the file, and pointer map pages before it, are cut off.
RECURSIVE CutOff(_, _)
CutOff(x, last) ==
  IF Reserved(x, last)
  THEN CutOff(IF IsMapPage(x, last) THEN Write(x, last) ELSE x, last - 1)
  ELSE [x EXCEPT !.size = last, !.nPage = last]

MoveLast(x, last, entry) ==
  IF ~Ok(x) THEN x
  ELSE IF x.pg >= last THEN Fail(x, "assert")
  ELSE relocatePage(Write(x, last), last, entry[1], entry[2], x.pg)
TakenLast(x, last) == IF Ok(x) /\ x.pg # last THEN Fail(x, "assert") ELSE x
EmptyLast(x, nFin, last, entry) ==
  IF entry[1] \in {0, ROOT_PAGE} THEN Fail(x, "corrupt")
  ELSE IF entry[1] # FREE_PAGE THEN MoveLast(AllocateWithin(x, nFin), last, entry)
  ELSE IF nFin # 0 THEN x
  ELSE TakenLast(allocateBtreePage(x, last, TRUE), last)
VacuumLast(x, nFin, last) ==
  IF Reserved(x, last) THEN x
  ELSE IF PageOne(x).nFree = 0 THEN Fail(x, "done")
  ELSE EmptyLast(x, nFin, last, Get(x, last))
VacuumCut(x, nFin, last) == IF ~Ok(x) \/ nFin # 0 THEN x ELSE CutOff(x, last - 1)
incrVacuumStep(x, nFin, last) == VacuumCut(VacuumLast(x, nFin, last), nFin, last)

CountPages(x) == IF Ok(x) THEN [Write(x, 1) EXCEPT !.img[1].n = x.nPage] ELSE x
sqlite3BtreeIncrVacuum(x) == CountPages(incrVacuumStep(x, 0, x.nPage))

\* Number of pages a full auto-vacuum leaves.
FinalSize(x) ==
  LET nOrig == x.nPage
      nFree == PageOne(x).nFree
      nPtrmap == (nFree - nOrig + Pageno(x, nOrig) + NEntry) \div NEntry
      nFin  == nOrig - nFree - nPtrmap
  IN SkipDown(x, IF nOrig > x.mj /\ nFin < x.mj THEN nFin - 1 ELSE nFin)

RECURSIVE VacuumDown(_, _, _)
VacuumDown(x, nFin, last) ==
  IF last <= nFin \/ ~Ok(x) THEN x
  ELSE VacuumDown(incrVacuumStep(x, nFin, last), nFin, last - 1)

Shortened(x, nFin) ==
  [Write([x EXCEPT !.err = "ok"], 1) EXCEPT !.img[1].trunk = 0, !.img[1].nFree = 0,
     !.img[1].n = nFin, !.size = nFin, !.nPage = nFin]

Vacuumed(x, nFree, nFin) ==
  IF x.err \in {"ok", "done"} /\ nFree > 0 THEN Shortened(x, nFin) ELSE x
VacuumTo(x, nFin) ==
  IF Reserved(x, x.nPage) \/ nFin > x.nPage THEN Fail(x, "corrupt")
  ELSE Vacuumed(VacuumDown(x, nFin, x.nPage), PageOne(x).nFree, nFin)
autoVacuumCommit(x) == IF x.mode = "full" THEN VacuumTo(x, FinalSize(x)) ELSE x

-----------------------------------------------------------------------------
(* Commit and rollback.                                                      *)

JournalTail(x) ==
  LET lost == {p \in x.size + 1..x.orig : p \notin x.inJ /\ p # x.mj}
  IN [x EXCEPT !.jrnl = @ @@ [p \in lost |-> x.img[p]], !.inJ = @ \cup lost]

\* sqlite3PagerCommitPhaseOne: pages a smaller file loses are journalled, and
\* the dirty pages are written.
WriteDirty(x) ==
  [x EXCEPT !.disk = [p \in Pages |-> IF p > x.size THEN Zero
                                      ELSE IF p \in x.dirty \ x.dont THEN x.img[p] ELSE @[p]]]
WriteFile(x) == IF Ok(x) THEN WriteDirty(JournalTail(x)) ELSE x
CommitPhaseOne(x) == WriteFile(autoVacuumCommit(x))

\* The journal is gone: the transaction has ended (btreeEndTransaction).
EndTransaction(x) ==
  [x EXCEPT !.jrnl = <<>>, !.inJ = {}, !.dirty = {}, !.dont = {}, !.orig = x.size,
            !.has = NoContentVector, !.err = "ok", !.pg = 0,
            !.img = [p \in Pages |-> IF p > x.size THEN Zero ELSE @[p]]]

\* Btree.Rollback: pages of the journal are restored in the cache, pages past
\* the original end are dropped, the page count is read from page 1.
Restored(x, pages) ==
  [p \in Pages |-> IF p \in DOMAIN x.jrnl THEN x.jrnl[p] ELSE IF p > x.orig THEN Zero ELSE pages[p]]
RestoredTo(x, img) == [x EXCEPT !.img = img, !.size = x.orig, !.nPage = img[1].n]
RolledBack(x) == EndTransaction(RestoredTo(x, Restored(x, x.img)))

\* What playing back the journal after a crash leaves when the first phase of
\* the commit had finished: journalled pages as they were, others as the file
\* has them, in a file of the original size.
PlayedBack(x) ==
  LET file == Restored(x, x.disk)
  IN EndTransaction([RestoredTo(x, file) EXCEPT !.disk = file])

-----------------------------------------------------------------------------
(* Tables.                                                                   *)

\* The schema records root page r for table t.
SetRoot(x, t, r) == [Write(x, 1) EXCEPT !.img[1].roots[t] = r]

\* Page r, to be a root, is empty or its content moves to the page allocated.
VacateRoot(x, r, entry) ==
  IF ~Ok(x) \/ x.pg = r THEN x
  ELSE IF entry[1] \in {0, ROOT_PAGE, FREE_PAGE} THEN Fail(x, "corrupt")
  ELSE relocatePage(x, r, entry[1], entry[2], x.pg)
VacatedRoot(x, r) == VacateRoot(x, r, Get(x, r))
NewRoot(x, r, t) ==
  IF ~Ok(x) THEN x
  ELSE SetRoot([Write(Put(Write(x, r), r, ROOT_PAGE, 0), 1) EXCEPT !.img[1].maxRoot = r, !.img[r] = Leaf], t, r)
CreateAt(x, r, t) == NewRoot(VacatedRoot(allocateBtreePage(x, r, TRUE), r), r, t)
CreateAnywhere(x, t) == IF Ok(x) THEN SetRoot([x EXCEPT !.img[x.pg] = Leaf], t, x.pg) ELSE x
btreeCreateTable(x, t) ==
  IF AutoVacuum(x) THEN CreateAt(x, SkipUp(x, PageOne(x).maxRoot + 1), t)
  ELSE CreateAnywhere(allocateBtreePage(x, 1, FALSE), t)

\* clearDatabasePage: the chains of the cells, then the children, then the
\* page itself, freed or emptied.
RECURSIVE clearDatabasePage(_, _, _)
ClearCells(x, p) == FoldLeft(LAMBDA y, c : clearCell(y, c.first, c.n), x, CellsOf(x, p))
ClearKids(x, kids) == FoldLeft(LAMBDA y, q : clearDatabasePage(y, q, TRUE), x, kids)
Cleared(x, p, freePageFlag) ==
  IF ~Ok(x) THEN x ELSE IF freePageFlag THEN freePage2(x, p) ELSE Store(x, p, Leaf)
clearDatabasePage(x, p, freePageFlag) ==
  Cleared(ClearKids(ClearCells(x, p), KidsOf(x, p)), p, freePageFlag)

\* The table with the largest root page moves into the gap.
DroppedRoot(x, t, r, m) ==
  IF ~Ok(x) THEN x
  ELSE [Write(x, 1) EXCEPT !.img[1].maxRoot = SkipDown(x, m - 1),
          !.img[1].roots = [u \in Tables |-> IF u = t THEN 0 ELSE IF @[u] = m THEN r ELSE @[u]]]
DropRoot(x, t, r, m) ==
  DroppedRoot(freePage2(IF m = r THEN x ELSE relocatePage(x, m, ROOT_PAGE, 0, r), m), t, r, m)
DropCleared(x, t, r) ==
  IF ~Ok(x) THEN x
  ELSE IF AutoVacuum(x) THEN DropRoot(x, t, r, PageOne(x).maxRoot)
  ELSE SetRoot(freePage2(x, r), t, 0)
DropAt(x, t, r) == DropCleared(clearDatabasePage(x, r, FALSE), t, r)
btreeDropTable(x, t) == DropAt(x, t, PageOne(x).roots[t])

-----------------------------------------------------------------------------
(* Rows.                                                                     *)

\* The page of table t that holds, or would hold, a key.
LeafFor(x, t, key) ==
  LET r == PageOne(x).roots[t]
      L == {p \in Range(KidsOf(x, r)) : \E c \in Range(CellsOf(x, p)) : c.key = key}
  IN IF L = {} THEN r ELSE CHOOSE p \in L : TRUE

CellOf(x, p, key) == SelectSeq(CellsOf(x, p), LAMBDA c : c.key = key)

\* sqlite3BtreeInsert: the new cell and its chain are built first, then the
\* old cell of the key, if there is one, is cleared and dropped.
CellPut(x, p, cell) ==
  Store(x, p, [x.img[p] EXCEPT !.cells = SelectSeq(@, LAMBDA c : c.key < cell.key) \o <<cell>>
                                         \o SelectSeq(@, LAMBDA c : c.key > cell.key)])
InsertCell(x, p, cell) ==
  IF ~Ok(x) THEN x
  ELSE IF AutoVacuum(x) THEN PutOvflPtr(CellPut(x, p, cell), p, cell) ELSE CellPut(x, p, cell)
ClearOld(x, p, old) ==
  IF old = <<>> \/ ~Ok(x) THEN x ELSE clearCell(Write(x, p), old[1].first, old[1].n)
InsertMade(made, p, key, n) ==
  InsertCell(ClearOld(made[1], p, CellOf(made[1], p, key)), p, [key |-> key, n |-> n, first |-> made[2]])
sqlite3BtreeInsert(x, t, key, data) ==
  InsertMade(fillInCell(x, 0, 0, data), LeafFor(x, t, key), key, Len(data))

\* Cursor.Delete of a row on a leaf that needs no balancing afterwards.
DropCell(x, p, key) ==
  IF Ok(x) THEN [x EXCEPT !.img[p].cells = SelectSeq(@, LAMBDA c : c.key # key)] ELSE x
DeleteCell(x, p, c) == DropCell(clearCell(Write(x, p), c.first, c.n), p, c.key)
DeleteOn(x, p, key) == DeleteCell(x, p, CellOf(x, p, key)[1])
BtreeDelete(x, t, key) == DeleteOn(x, LeafFor(x, t, key), key)

-----------------------------------------------------------------------------
(* An incremental blob handle: a cursor on one row that remembers where the  *)
(* pages of the row's chain are (0: not yet known).                          *)
NoBlob == [t |-> "none", key |-> 0, cache |-> <<>>]

\* accessPayload of the i-th overflow page: the walk starts at the page if it
\* is known, else at the first, and fills the cache on its way.
RECURSIVE FillCache(_, _, _, _, _)
FillCache(x, cache, idx, p, i) ==
  LET known == [cache EXCEPT ![idx] = p]
  IN IF idx = i THEN known
     ELSE FillCache(x, known, idx + 1,
                    IF cache[idx + 1] # 0 THEN cache[idx + 1] ELSE getOverflowPage(x, p), i)

accessPayload(x, b, i) ==
  LET c     == CellOf(x, LeafFor(x, b.t, b.key), b.key)[1]
      cache == IF b.cache = <<>> THEN [j \in 1..c.n |-> 0] ELSE b.cache
  IN IF cache[i] # 0 THEN FillCache(x, cache, i, cache[i], i)
     ELSE FillCache(x, cache, 1, c.first, i)

\* invalidateAllOverflowCache
Uncached(b) == [b EXCEPT !.cache = <<>>]

\* saveAllCursors on table t, then InvalidateIncrblobCursors for a row.
BlobAfterWrite(b, t, key) ==
  IF b.key = key THEN NoBlob ELSE IF b.t = t THEN Uncached(b) ELSE b

-----------------------------------------------------------------------------
(* A new database holds page 1.                                              *)
NewDatabase(mode, mj) ==
  LET one == [k |-> "one", trunk |-> 0, nFree |-> 0, n |-> 1,
              maxRoot |-> IF mode = "none" THEN 0 ELSE 1, roots |-> [t \in Tables |-> 0]]
      img == [p \in Pages |-> IF p = 1 THEN one ELSE Zero]
  IN [img |-> img, disk |-> img, nPage |-> 1, size |-> 1, orig |-> 1, jrnl |-> <<>>,
      inJ |-> {}, dirty |-> {}, dont |-> {}, has |-> NoContentVector, mode |-> mode,
      mj |-> mj, err |-> "ok", pg |-> 0]

\* The data of a row's overflow pages: whose page it is, and a version.
Data(t, key, n, v) == [i \in 1..n |-> <<t, key, i, v>>]

\* Two leaves below the root of an empty table, each with a row, as a tree has
\* that grew.
DeepRows(x, leaves, t) ==
  FoldLeft(LAMBDA y, i : InsertMade(fillInCell(y, 0, 0, Data(t, i, 1, 1)), leaves[i], i, 1), x, <<1, 2>>)
DeepKids(x, leaves, r) == [x EXCEPT !.img[r] = [Leaf EXCEPT !.kids = leaves]]
DeepMapped(x, r) == IF AutoVacuum(x) THEN setChildPtrmaps(x, r) ELSE x
DeepLeaf(x) == [x EXCEPT !.img[x.pg] = Leaf]
DeepTree(x, leaf1, r, t) ==
  DeepRows(DeepMapped(DeepKids(DeepLeaf(x), <<leaf1, x.pg>>, r), r), <<leaf1, x.pg>>, t)
DeepRight(x, r, t) == DeepTree(allocateBtreePage(DeepLeaf(x), x.pg, FALSE), x.pg, r, t)
DeepBelow(x, r, t) == DeepRight(allocateBtreePage(x, r, FALSE), r, t)
Deepened(x, t) == DeepBelow(x, PageOne(x).roots[t], t)

NoRows == [t \in Tables |-> <<>>]

PagesInit ==
  /\ \E mode \in Modes, mj \in PendingPages : d = NewDatabase(mode, mj)
  /\ plan \in Starts
  /\ rows = NoRows
  /\ saved = NoRows
  /\ blob = NoBlob
  /\ ops = 0

-----------------------------------------------------------------------------
(* Operations of a connection.  One that fails ("full") leaves what it had   *)
(* done so far, and the transaction is rolled back.  The first ones are      *)
(* those of the plan, which fills the database; MaxOps others follow.        *)
HasTable(t) == PageOne(d).roots[t] # 0
Ready(op) == Ok(d) /\ IF plan = <<>> THEN ops < MaxOps ELSE Head(plan) = op
Done ==
  /\ plan' = IF plan = <<>> THEN plan ELSE Tail(plan)
  /\ ops' = IF plan = <<>> THEN ops + 1 ELSE ops

Outcome(x, r, b) ==
  /\ d' = [x EXCEPT !.pg = 0, !.err = IF @ = "done" THEN "ok" ELSE @]
  /\ rows' = IF Ok(x) THEN r ELSE rows
  /\ blob' = b
  /\ Done
  /\ UNCHANGED saved

CreateTable(t) ==
  /\ Ready(<<"create", t>>) /\ ~HasTable(t)
  /\ Outcome(btreeCreateTable(d, t), [rows EXCEPT ![t] = <<>>],
             IF AutoVacuum(d) THEN Uncached(blob) ELSE blob)

\* A table is not dropped while a cursor is open.
DropTable(t) ==
  /\ Ready(<<"drop", t>>) /\ HasTable(t) /\ blob = NoBlob
  /\ Outcome(btreeDropTable(d, t), [rows EXCEPT ![t] = <<>>], blob)

ClearTable(t) ==
  /\ Ready(<<"clear", t>>) /\ HasTable(t) /\ DOMAIN rows[t] # {}
  /\ Outcome(clearDatabasePage(d, PageOne(d).roots[t], FALSE), [rows EXCEPT ![t] = <<>>], NoBlob)

\* A new row goes to a table of one page, or replaces one where it is.
Insert(t, key, n) ==
  LET old  == key \in DOMAIN rows[t]
      data == Data(t, key, n, IF old /\ rows[t][key] = Data(t, key, n, 1) THEN 2 ELSE 1)
  IN /\ Ready(<<"insert", t, key, n>>) /\ HasTable(t)
     /\ old \/ KidsOf(d, PageOne(d).roots[t]) = <<>>
     /\ Outcome(sqlite3BtreeInsert(d, t, key, data),
                [rows EXCEPT ![t] = (key :> data) @@ @], BlobAfterWrite(blob, t, key))

Delete(t, key) ==
  /\ Ready(<<"delete", t, key>>) /\ HasTable(t) /\ key \in DOMAIN rows[t]
  /\ KidsOf(d, PageOne(d).roots[t]) = <<>>
  /\ Outcome(BtreeDelete(d, t, key),
             [rows EXCEPT ![t] = [k \in DOMAIN @ \ {key} |-> @[k]]], BlobAfterWrite(blob, t, key))

\* The tree of a table grows by two leaves: only in a plan.
Deepen(t) ==
  /\ plan # <<>> /\ Head(plan) = <<"deepen", t>> /\ HasTable(t)
  /\ Outcome(Deepened(d, t), [rows EXCEPT ![t] = [key \in {1, 2} |-> Data(t, key, 1, 1)]], blob)

IncrVacuum ==
  /\ Ready(<<"vacuum">>) /\ AutoVacuum(d)
  /\ Outcome(sqlite3BtreeIncrVacuum(d), rows, Uncached(blob))

OpenBlob(t, key) ==
  /\ Ready(<<"open", t, key>>) /\ blob = NoBlob /\ HasTable(t) /\ key \in DOMAIN rows[t] /\ rows[t][key] # <<>>
  /\ blob' = [t |-> t, key |-> key, cache |-> <<>>]
  /\ Done
  /\ UNCHANGED <<d, rows, saved>>

\* sqlite3_blob_read of the i-th overflow page, or sqlite3_blob_write, which
\* changes it in place.
BlobReadWrite(i, write) ==
  /\ Ready(<<"blob", i>>) /\ blob # NoBlob /\ i \in DOMAIN rows[blob.t][blob.key]
  /\ LET new == [rows[blob.t][blob.key][i] EXCEPT ![4] = 3 - @]
         Access(cache) ==
           /\ blob' = [blob EXCEPT !.cache = cache]
           /\ d' = IF write
                   THEN Store(d, cache[i], [k |-> "ovfl", next |-> NextOf(d, cache[i]), data |-> new])
                   ELSE d
           /\ rows' = IF write THEN [rows EXCEPT ![blob.t][blob.key][i] = new] ELSE rows
     IN Access(accessPayload(d, blob, i))
  /\ Done
  /\ UNCHANGED saved

CloseBlob ==
  /\ blob # NoBlob
  /\ blob' = NoBlob
  /\ UNCHANGED <<d, rows, saved, plan, ops>>

CommitDone(x) ==
  /\ IF Ok(x) THEN d' = EndTransaction(x) /\ saved' = rows /\ UNCHANGED rows
     ELSE d' = RolledBack(x) /\ rows' = saved /\ UNCHANGED saved
  /\ blob' = IF ~Ok(x) THEN NoBlob ELSE IF AutoVacuum(d) THEN Uncached(blob) ELSE blob
Commit ==
  /\ Ok(d) /\ d.dirty # {}
  /\ plan # <<>> => Head(plan) = <<"commit">>
  /\ CommitDone(CommitPhaseOne(d))
  /\ plan' = IF plan = <<>> THEN plan ELSE Tail(plan)
  /\ UNCHANGED ops

Rollback ==
  /\ d.dirty # {} /\ plan = <<>>
  /\ d' = RolledBack(d)
  /\ rows' = saved
  /\ blob' = NoBlob
  /\ UNCHANGED <<saved, plan, ops>>

PagesNext ==
  \/ \E t \in Tables : CreateTable(t) \/ DropTable(t) \/ ClearTable(t) \/ Deepen(t)
  \/ \E t \in Tables, key \in Keys : Delete(t, key) \/ OpenBlob(t, key)
  \/ \E t \in Tables, key \in Keys, n \in 0..MaxChain : Insert(t, key, n)
  \/ \E i \in 1..MaxChain, w \in BOOLEAN : BlobReadWrite(i, w)
  \/ IncrVacuum \/ CloseBlob \/ Commit \/ Rollback

PagesSpec == PagesInit /\ [][PagesNext]_pageVars

-----------------------------------------------------------------------------
(* What every page is used for, as <<page, type, parent>>.                   *)
RECURSIVE ChainFrom(_, _, _)
ChainFrom(x, p, n) ==
  IF n = 0 \/ p \notin Pages THEN <<>> ELSE <<p>> \o ChainFrom(x, NextOf(x, p), n - 1)

UsesOf(chain, p) ==
  [i \in DOMAIN chain |-> IF i = 1 THEN <<chain[i], FIRST_OVERFLOW_PAGE, p>>
                         ELSE <<chain[i], SECONDARY_OVERFLOW_PAGE, chain[i - 1]>>]
ChainUses(x, p, c) == UsesOf(ChainFrom(x, c.first, c.n), p)

CellUses(x, p) == FlattenSeq([i \in DOMAIN CellsOf(x, p) |-> ChainUses(x, p, CellsOf(x, p)[i])])

TableUses(x, t) ==
  LET r    == PageOne(x).roots[t]
      kids == KidsOf(x, r)
  IN IF r = 0 THEN <<>>
     ELSE <<<<r, ROOT_PAGE, 0>>>> \o CellUses(x, r)
          \o FlattenSeq([i \in DOMAIN kids |->
               <<<<kids[i], NON_ROOT_BTREE_PAGE, r>>>> \o CellUses(x, kids[i])])

RECURSIVE FreeFrom(_, _, _)
FreeFrom(x, t, most) ==
  IF t \notin Pages \/ most = 0 THEN <<>>
  ELSE <<t>> \o LeavesOf(x, t) \o FreeFrom(x, NextOf(x, t), most - 1)
FreeList(x) == FreeFrom(x, PageOne(x).trunk, MaxPage)
FreeUses(x) == LET free == FreeList(x) IN [i \in DOMAIN free |-> <<free[i], FREE_PAGE, 0>>]

Uses(x) == FreeUses(x) \o FoldSet(LAMBDA t, u : TableUses(x, t) \o u, <<>>, Tables)

DataPages(x) == {p \in 2..x.nPage : p # x.mj /\ ~(AutoVacuum(x) /\ IsMapPage(x, p))}

\* Each page has exactly one use, and page 1 counts the pages and the free
\* ones.
AccountedBy(x, U, pages) ==
  /\ {U[i][1] : i \in DOMAIN U} = pages
  /\ Len(U) = Cardinality(pages)
  /\ Len(FreeList(x)) = PageOne(x).nFree
  /\ PageOne(x).n = x.nPage
Accounted(x) == AccountedBy(x, Uses(x), DataPages(x))

MapExact(x) ==
  AutoVacuum(x) => \A u \in Range(Uses(x)) : Get(x, u[1]) = <<u[2], u[3]>>

\* The rows of table t as a reader finds them: each chain holds the row's
\* data in order and ends there, whichever way the next page is looked up.
ChainHolds(x, chain, data) ==
  /\ Len(chain) = Len(data)
  /\ \A j \in DOMAIN chain :
       /\ x.img[chain[j]] = [k |-> "ovfl", data |-> data[j],
                             next |-> IF j < Len(chain) THEN chain[j + 1] ELSE 0]
       /\ getOverflowPage(x, chain[j]) = NextOf(x, chain[j])
CellsHold(x, cells, rs) ==
  /\ {cells[i].key : i \in DOMAIN cells} = DOMAIN rs
  /\ \A c \in Range(cells) : ChainHolds(x, ChainFrom(x, c.first, c.n), rs[c.key])
TableCells(x, r) == IF r = 0 THEN <<>>
                    ELSE CellsOf(x, r) \o FlattenSeq([i \in DOMAIN KidsOf(x, r) |-> CellsOf(x, KidsOf(x, r)[i])])
Holds(x, rs) == \A t \in Tables : CellsHold(x, TableCells(x, PageOne(x).roots[t]), rs[t])
Is(x, rs) == Accounted(x) /\ MapExact(x) /\ Holds(x, rs)

-----------------------------------------------------------------------------
(* Properties.                                                               *)

\* The record has the values the C types allow; no page past the bound is in
\* use, and the codes of a corrupt database or a failed assertion (btree.go
\* returns SQLITE_CORRUPT_BKPT in fourteen of these routines) never come up.
PagesTypeOK ==
  /\ d.nPage \in 1..MaxPage + 2 /\ d.size \in Pages /\ d.orig \in Pages
  /\ DOMAIN d.jrnl \subseteq d.inJ /\ d.inJ \subseteq 1..d.orig
  /\ d.dont \subseteq Pages /\ d.dirty \subseteq Pages
  /\ d.err \in {"ok", "full"}
  /\ ops \in 0..MaxOps

\* Every page of the file is page 1, the pending byte page, a pointer map
\* page, or has exactly one place: in one table's tree or overflow chain, or
\* on the free list (allocateBtreePage, freePage2, relocatePage).
PagesAccounted == Ok(d) => Accounted(d)

\* In an auto-vacuum database the pointer map gives the type and the parent
\* of every page, as moves, chains and the free list leave them (Put).
PointerMapExact == Ok(d) => MapExact(d)

\* Every row reads back as it was written, although its pages may have been
\* moved, and getOverflowPage's guess agrees with the links.
RowsIntact == Ok(d) => Holds(d, rows)

\* Rolling back from any state, also from the middle of a failed operation,
\* gives the last committed database, although leaves of the free list are
\* neither read nor journalled when they are reused (pHasContent).
RollbackRestores == Is(RolledBack(d), saved)

\* A crash after the dirty pages have been written, with the journal still
\* there, also leads back to the last committed database: what auto-vacuum
\* cuts off and what DONT_WRITE leaves out is in the journal or untouched.
CrashRestores ==
  LET Back(x) == Ok(x) => Is(PlayedBack(x), saved)
  IN Ok(d) => Back(CommitPhaseOne(d))

\* A commit of a full auto-vacuum database leaves no free page, and the file
\* ends with a page in use (autoVacuumCommit's count of pages to keep).
VacuumLeavesNoFree ==
  d.mode = "full" /\ d.dirty = {} => PageOne(d).nFree = 0 /\ d.size = d.nPage

\* The root pages of an auto-vacuum database fill the beginning of the file,
\* up to the largest root page that page 1 records (btreeDropTable moves the
\* last root into the gap).
RootsFirst ==
  Ok(d) /\ AutoVacuum(d) =>
    {PageOne(d).roots[t] : t \in Tables} \ {0}
      = {p \in 3..PageOne(d).maxRoot : ~Reserved(d, p)}

\* The pages a blob handle remembers are those of its row's chain, whatever
\* has moved since it looked them up (invalidateAllOverflowCache).
BlobCacheExact ==
  Ok(d) /\ blob # NoBlob =>
    LET c     == CellOf(d, LeafFor(d, blob.t, blob.key), blob.key)[1]
        chain == ChainFrom(d, c.first, c.n)
    IN blob.cache # <<>> =>
         \A i \in DOMAIN blob.cache : blob.cache[i] \in {0, chain[i]}

\* The file is sound between operations: every page is accounted for once, the
\* pointer map and page 1 agree with where the pages are, and a vacuum leaves
\* no free page.
PagesSound == PagesTypeOK /\ PagesAccounted /\ PointerMapExact /\ RootsFirst /\ VacuumLeavesNoFree

\* Rows are kept: they read back as written, also through the pages a blob handle
\* remembers, and a rollback or a crash gives back the committed ones.
RowsKept == RowsIntact /\ BlobCacheExact /\ RollbackRestores /\ CrashRestores
=============================================================================
