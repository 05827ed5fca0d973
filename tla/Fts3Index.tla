----------------------------- MODULE Fts3Index -----------------------------
(***************************************************************************)
(* The inverted index of a full-text table (fts3_write.go, fts3.go): the   *)
(* pending terms of the current transaction, the segments they are flushed *)
(* to, the levels of segments and their merges, and the transaction and    *)
(* savepoint methods by which the index follows the content table.         *)
(*                                                                         *)
(* A text maps every term to its positions.  A doclist maps docids to      *)
(* positions; the empty set of positions marks a deleted document.  A      *)
(* segment maps terms to doclists.  The idx values of a level are          *)
(* contiguous from 0, so a level is a sequence of segments, oldest first.  *)
(* The table has no languageid and no prefix index.                        *)
(***************************************************************************)
EXTENDS Naturals, FiniteSets, SequencesExt

CONSTANTS Docids,            \* document ids, numbers greater than 0
          Texts,             \* the texts documents may have
          MergeCount,        \* FTS3_MERGE_COUNT, 16 in the code
          MinMerge,          \* the B of 'merge=A,B' and of the automatic merge
          MaxLevel,          \* bound on the levels used, 1024 in the code
          MaxSavepoint,      \* bound on the savepoints open at a time
          MaxOps,            \* bound on the operations
          EarlySavepoint,    \* may a savepoint be older than the table's first write
          OptimizePending    \* may 'optimize' run before the first flush to an empty index

ASSUME FtsAssumption ==
  /\ Docids \subseteq Nat \ {0}
  /\ MergeCount \in Nat \ {0} /\ MinMerge \in Nat \ {0, 1} /\ MaxLevel \in Nat

VARIABLES tab,      \* content, dir, hint: the shadow tables; pending, prev: the Fts3Table object
          base,     \* the shadow tables at the start of the transaction
          saved,    \* the shadow tables at every open savepoint
          open,     \* is a transaction open
          joined,   \* is the table in db.aVTrans
          depth,    \* its SavepointStackDepth
          ops       \* operations so far

vars == <<tab, base, saved, open, joined, depth, ops>>

Levels == 0..MaxLevel
Terms == UNION {DOMAIN x : x \in Texts}
NoTerms == << >>

\* The shadow tables of a table object: what a rollback restores.
Shadow(s) == [content |-> s.content, dir |-> s.dir, hint |-> s.hint]

-----------------------------------------------------------------------------
(* Reading: sqlite3Fts3SegReaderStep over several segments.                *)

\* The entries of the segments ms, oldest first.  Of the segments that have an
\* entry for a document, the newest one counts.
Merged(ms) ==
  [t \in UNION {DOMAIN ms[i] : i \in DOMAIN ms} |->
     LET has == {i \in DOMAIN ms : t \in DOMAIN ms[i]}
     IN [d \in UNION {DOMAIN ms[i][t] : i \in has} |->
           ms[Max({i \in has : d \in DOMAIN ms[i][t]})][t][d]]]

\* FTS3_SEGMENT_IGNORE_EMPTY: no entry for a deleted document, no term
\* without a document.
IgnoreEmpty(m) ==
  LET live(t) == {d \in DOMAIN m[t] : m[t][d] # {}}
  IN [t \in {u \in DOMAIN m : live(u) # {}} |-> [d \in live(t) |-> m[t][d]]]

TermsOf(segs) == [i \in DOMAIN segs |-> segs[i].terms]

\* sqlite3Fts3SegReaderCursor(FTS3_SEGCURSOR_ALL): every segment, the highest
\* level first, then the pending terms.
Readers(s) ==
  TermsOf(FlattenSeq([i \in 1..(MaxLevel + 1) |-> s.dir[MaxLevel + 1 - i]]))
    \o (IF s.pending = NoTerms THEN << >> ELSE <<s.pending>>)

\* What a query finds.
Query(s) == IgnoreEmpty(Merged(Readers(s)))

-----------------------------------------------------------------------------
(* Segments and levels.                                                    *)

\* Mutant: a merge of a level drops the deleted documents.
MutAllocateDropsDeleted(dir, seg) ==
  LET k == Min({l \in Levels : Len(dir[l]) < MergeCount})
      up(l) == [terms |-> IgnoreEmpty(Merged(TermsOf(dir[l]))), appendable |-> FALSE]
  IN [l \in Levels |->
        IF l > k THEN dir[l]
        ELSE (IF l = k THEN dir[l] ELSE << >>) \o (IF l = 0 THEN <<seg>> ELSE <<up(l - 1)>>)]

\* fts3AllocateSegdirIdx, and the merges of full levels it starts: of the full
\* levels at the bottom each becomes one segment of the level above it.
AllocateSegdirIdx(dir, seg) ==
  LET k == Min({l \in Levels : Len(dir[l]) < MergeCount})
      up(l) == [terms |-> Merged(TermsOf(dir[l])), appendable |-> FALSE]
  IN [l \in Levels |->
        IF l > k THEN dir[l]
        ELSE (IF l = k THEN dir[l] ELSE << >>) \o (IF l = 0 THEN <<seg>> ELSE <<up(l - 1)>>)]

\* sqlite3Fts3PendingTermsFlush.
PendingTermsFlush(s) ==
  IF s.pending = NoTerms THEN s
  ELSE [s EXCEPT !.dir = AllocateSegdirIdx(@, [terms |-> s.pending, appendable |-> FALSE]),
                 !.pending = NoTerms]

\* Documents are added to the pending terms in ascending order; full stands for
\* nPendingData > nMaxPendingData.
PendingTermsDocid(s, d, full) ==
  [IF d <= s.prev \/ full THEN PendingTermsFlush(s) ELSE s EXCEPT !.prev = d]

\* fts3PendingTermsAdd for the document prev; a deletion (column -1) adds its
\* docid without positions.
PendingTermsAdd(s, text, delete) ==
  LET ts == {t \in DOMAIN text : text[t] # {}}
      list(t) == IF t \in DOMAIN s.pending THEN s.pending[t] ELSE << >>
      new(t) == (IF s.prev \in DOMAIN list(t) THEN list(t)[s.prev] ELSE {})
                  \cup (IF delete THEN {} ELSE text[t])
  IN [s EXCEPT !.pending =
        [t \in DOMAIN s.pending \cup ts |->
           IF t \notin ts THEN list(t)
           ELSE [d \in DOMAIN list(t) \cup {s.prev} |-> IF d = s.prev THEN new(t) ELSE list(t)[d]]]]

\* fts3DeleteAll.  iPrevDocid keeps its value.
DeleteAll(s, withContent) ==
  [s EXCEPT !.pending = NoTerms, !.dir = [l \in Levels |-> << >>], !.hint = << >>,
            !.content = IF withContent THEN << >> ELSE @]

-----------------------------------------------------------------------------
(* sqlite3Fts3UpdateMethod.                                                *)

\* fts3DeleteTerms of a row that may not exist.
DeleteTerms(s, d, full) ==
  IF d \in DOMAIN s.content
    THEN PendingTermsAdd(PendingTermsDocid(s, d, full), s.content[d], TRUE)
    ELSE s

\* When no other row exists the whole table is cleared.
DeleteByRowid(s, d, full) ==
  IF DOMAIN s.content \subseteq {d} THEN DeleteAll(s, TRUE)
  ELSE LET t == DeleteTerms(s, d, full)
       IN [t EXCEPT !.content = [e \in DOMAIN @ \ {d} |-> @[e]]]

InsertData(s, d, text) ==
  [s EXCEPT !.content = [e \in DOMAIN @ \cup {d} |-> IF e = d THEN text ELSE @[e]]]

InsertTerms(s, d, text, skipDocid) ==
  PendingTermsAdd(IF skipDocid THEN s ELSE PendingTermsDocid(s, d, FALSE), text, FALSE)

\* INSERT (old = 0) or UPDATE of row old to row new.  A new rowid is checked
\* first: REPLACE deletes the row that has it, otherwise the row is inserted
\* before anything else.
Upsert(s, old, new, text, replace, full) ==
  LET check == new # old
      s1 == IF ~check THEN s
            ELSE IF replace THEN DeleteByRowid(s, new, full) ELSE InsertData(s, new, text)
      s2 == IF old = 0 THEN s1 ELSE DeleteByRowid(s1, old, full)
      s3 == InsertData(s2, new, text)
  IN InsertTerms(s3, new, text, old # 0 /\ new = s3.prev)

\* The constraint that makes the method return before it changes anything.
Conflict(s, old, new, replace) == new # old /\ ~replace /\ new \in DOMAIN s.content

-----------------------------------------------------------------------------
(* The special inserts.                                                    *)

\* fts3DoOptimize: one segment on the highest level in use, without the deleted
\* documents; nothing when there is one segment.  The pending terms are merged
\* with the segments, and cleared also when there are none.
DoOptimize(s) ==
  LET used == {l \in Levels : s.dir[l] # << >>}
      seg == [terms |-> Query(s), appendable |-> FALSE]
      dir == [l \in Levels |-> IF l = Max(used) THEN <<seg>> ELSE << >>]
  IN [s EXCEPT !.pending = NoTerms,
               !.dir = IF used = {} \/ Len(Readers(s)) = 1 THEN @ ELSE dir]

\* More than one segment, and every document in them deleted.
NothingLeft(s) ==
  Len(Readers(s)) > 1 /\ (\E l \in Levels : s.dir[l] # << >>) /\ Query(s) = NoTerms

\* fts3DoRebuild; the pending terms outgrow their limit at the documents of big.
DoRebuild(s, big) ==
  FoldLeft(LAMBDA x, d : PendingTermsAdd(PendingTermsDocid(x, d, d \in big), s.content[d], FALSE),
           DeleteAll(s, FALSE), SetToSortSeq(DOMAIN s.content, <))

\* The level an incremental merge works on, and the number of its oldest
\* segments: the lowest level with at least MinMerge segments, unless the last
\* hint is for a level that is not higher.
NoMerge == [level |-> 0, n |-> 0, hinted |-> FALSE]
MergeLevel(s) ==
  LET ready == {l \in Levels : Len(s.dir[l]) >= MinMerge}
  IN IF s.hint # << >> /\ \A l \in ready : Last(s.hint).level <= l
       THEN [level |-> Last(s.hint).level, n |-> Last(s.hint).n, hinted |-> TRUE]
     ELSE IF ready = {} THEN NoMerge
     ELSE [level |-> Min(ready), n |-> MinMerge, hinted |-> FALSE]

\* fts3IncrmergeLoad: the newest segment of the next level can be appended to.
CanAppend(dir, level, first) ==
  LET out == Last(dir[level + 1]) IN out.appendable /\ first > Max(DOMAIN out.terms)

\* fts3IncrmergeChomp: the inputs lose the terms up to top, and go when nothing
\* is left of them.
Chomped(segs, top) ==
  LET rest(g) == [t \in {u \in DOMAIN g.terms : u > top} |-> g.terms[t]]
      cut == [i \in DOMAIN segs |-> [segs[i] EXCEPT !.terms = rest(segs[i])]]
  IN SelectSeq(cut, LAMBDA g : g.terms # NoTerms)

\* One round of sqlite3Fts3Incrmerge that copies at most quota terms.  The
\* result says whether the round did any work.
IncrmergeRound(s, quota) ==
  LET m == MergeLevel(s)
      popped == IF m.hinted THEN Front(s.hint) ELSE s.hint
      ins == SubSeq(s.dir[m.level], 1, m.n)
      all == Merged(TermsOf(ins))
      top == CHOOSE t \in DOMAIN all :
               LET low == {u \in DOMAIN all : u <= t}
               IN IF Cardinality(DOMAIN all) <= quota THEN low = DOMAIN all
                  ELSE Cardinality(low) = quota
      moved == [t \in {u \in DOMAIN all : u <= top} |-> all[t]]
      above == s.dir[m.level + 1]
      append == m.hinted /\ above # << >>
      left == Chomped(ins, top)
      out == IF append
               THEN [above EXCEPT ![Len(above)].terms = moved @@ @]
               ELSE Append(above, [terms |-> moved, appendable |-> TRUE])
  IN IF m.n = 0 THEN [s |-> s, worked |-> FALSE, idle |-> TRUE]
     ELSE IF \/ Len(s.dir[m.level]) < m.n
             \/ append /\ ~CanAppend(s.dir, m.level, Min(DOMAIN all))
       THEN [s |-> [s EXCEPT !.hint = popped], worked |-> FALSE, idle |-> FALSE]
     ELSE [s |-> [s EXCEPT
                    !.hint = IF left = << >> THEN popped
                             ELSE Append(popped, [level |-> m.level, n |-> Len(left)]),
                    !.dir[m.level] = left \o SubSeq(@, m.n + 1, Len(@)),
                    !.dir[m.level + 1] = out],
           worked |-> TRUE, idle |-> FALSE]

\* sqlite3Fts3Incrmerge: rounds that copy all their terms, and a last one that
\* may be stopped by its quota.  The loop ends after a round that worked, or
\* when there is nothing to merge.
Incrmerge(s, quotas) ==
  FoldLeft(LAMBDA r, q : IncrmergeRound(r.s, q),
           [s |-> s, worked |-> TRUE, idle |-> FALSE], quotas)

\* Bounds: at most three rounds; a quota of Cardinality(Terms) copies all terms.
Quotas ==
  LET all == Cardinality(Terms)
  IN UNION {{[i \in 1..n |-> IF i = n THEN q ELSE all] : q \in 1..all} : n \in 1..3}
Merges(s) == {r \in {Incrmerge(s, q) : q \in Quotas} : r.worked \/ r.idle}

\* fts3SyncMethod: the flush, and the automatic merge when it applies.
Syncs(s) ==
  LET f == PendingTermsFlush(s) IN {f} \cup {r.s : r \in Merges(f)}

-----------------------------------------------------------------------------
(* The statements and the transaction methods.                             *)

Init ==
  /\ tab = [content |-> << >>, dir |-> [l \in Levels |-> << >>], hint |-> << >>,
            pending |-> NoTerms, prev |-> 0]
  /\ base = Shadow(tab)
  /\ saved = << >> /\ open = FALSE /\ joined = FALSE /\ depth = 0 /\ ops = 0

\* Bound: nothing is written once the top level is in use.
Room == tab.dir[MaxLevel] = << >>

\* sqlite3VtabBegin before the first write of a transaction, then the write.
\* The savepoints open at that time are not in SavepointStackDepth.
Write(s) ==
  /\ open /\ ops < MaxOps /\ Room
  /\ ops' = ops + 1
  /\ tab' = s
  /\ joined' = TRUE
  /\ depth' = IF joined THEN depth ELSE 0
  /\ UNCHANGED <<base, saved, open>>

Begin ==
  /\ ~open /\ ops < MaxOps
  /\ open' = TRUE /\ base' = Shadow(tab)
  /\ UNCHANGED <<tab, saved, joined, depth, ops>>

Insert ==
  \E d \in Docids, x \in Texts, replace, full \in BOOLEAN :
    ~Conflict(tab, 0, d, replace) /\ Write(Upsert(tab, 0, d, x, replace, full))

Update ==
  \E d \in DOMAIN tab.content, e \in Docids, x \in Texts, replace, full \in BOOLEAN :
    ~Conflict(tab, d, e, replace) /\ Write(Upsert(tab, d, e, x, replace, full))

Delete ==
  \E d \in DOMAIN tab.content, full \in BOOLEAN : Write(DeleteByRowid(tab, d, full))

Optimize ==
  /\ OptimizePending \/ tab.pending = NoTerms \/ \E l \in Levels : tab.dir[l] # << >>
  /\ ~NothingLeft(tab)
  /\ Write(DoOptimize(tab))

\* 'optimize' of an index of deleted documents only: fts3SegmentMerge has no
\* writer to flush, which ends the process.
OptimizeAborts ==
  /\ open /\ NothingLeft(tab)
  /\ tab' = base @@ [tab EXCEPT !.pending = NoTerms, !.prev = 0]
  /\ saved' = << >> /\ open' = FALSE /\ joined' = FALSE /\ depth' = 0
  /\ UNCHANGED <<base, ops>>

Rebuild ==
  \E big \in SUBSET DOMAIN tab.content : Write(DoRebuild(tab, big))

Merge ==
  \E r \in Merges(tab) : Write(r.s)

\* SAVEPOINT, or the savepoint of a statement: xSavepoint flushes the pending
\* terms when the table is in the transaction.
Savepoint ==
  /\ open /\ Len(saved) < MaxSavepoint /\ Room
  /\ EarlySavepoint \/ joined
  /\ \E s \in IF joined THEN Syncs(tab) ELSE {tab} :
       tab' = s /\ saved' = Append(saved, Shadow(s))
  /\ depth' = IF joined THEN Len(saved) + 1 ELSE depth
  /\ UNCHANGED <<base, open, joined, ops>>

\* ROLLBACK TO: the shadow tables return to the savepoint; xRollbackTo discards
\* the pending terms when the table knows of the savepoint.
RollbackTo ==
  \E i \in DOMAIN saved :
    /\ tab' = saved[i] @@ [tab EXCEPT !.pending = IF joined /\ depth >= i THEN NoTerms ELSE @]
    /\ saved' = SubSeq(saved, 1, i)
    /\ UNCHANGED <<base, open, joined, depth, ops>>

Release ==
  /\ saved # << >>
  /\ \E i \in DOMAIN saved : saved' = SubSeq(saved, 1, i - 1)
  /\ UNCHANGED <<tab, base, open, joined, depth, ops>>

\* COMMIT: xSync flushes, xCommit has nothing left to do.
Commit ==
  /\ open /\ Room
  /\ \E s \in IF joined THEN Syncs(tab) ELSE {tab} : tab' = s /\ base' = Shadow(s)
  /\ saved' = << >> /\ open' = FALSE /\ joined' = FALSE /\ depth' = 0
  /\ UNCHANGED ops

\* ROLLBACK, also after an error of a flush: xRollback discards the pending terms.
Rollback ==
  /\ open
  /\ tab' = base @@ [tab EXCEPT !.pending = IF joined THEN NoTerms ELSE @]
  /\ saved' = << >> /\ open' = FALSE /\ joined' = FALSE /\ depth' = 0
  /\ UNCHANGED <<base, ops>>

Next ==
  \/ Begin \/ Insert \/ Update \/ Delete \/ Optimize \/ OptimizeAborts \/ Rebuild \/ Merge
  \/ Savepoint \/ RollbackTo \/ Release \/ Commit \/ Rollback

Spec == Init /\ [][Next]_vars

-----------------------------------------------------------------------------
(* Properties.                                                             *)

IsTermMap(m) ==
  /\ DOMAIN m \subseteq Terms
  /\ \A t \in DOMAIN m :
       /\ DOMAIN m[t] \subseteq Docids /\ DOMAIN m[t] # {}
       /\ \A d \in DOMAIN m[t] : m[t][d] = {} \/ \E x \in Texts : m[t][d] = x[t]

\* The state variables have their types, and no segment, level directory entry
\* or pending list is empty: a merge that reads only empty segments would make
\* the loop of sqlite3Fts3Incrmerge spin without reducing nRem.
TypeOK ==
  /\ DOMAIN tab.content \subseteq Docids /\ \A d \in DOMAIN tab.content : tab.content[d] \in Texts
  /\ IsTermMap(tab.pending) /\ tab.prev \in Docids \cup {0}
  /\ \A l \in Levels : \A i \in DOMAIN tab.dir[l] :
       IsTermMap(tab.dir[l][i].terms) /\ tab.dir[l][i].terms # NoTerms
  /\ \A i \in DOMAIN tab.hint : tab.hint[i].level \in Levels /\ tab.hint[i].n > 0
  /\ open \in BOOLEAN /\ joined \in BOOLEAN
  /\ depth \in 0..MaxSavepoint /\ Len(saved) <= MaxSavepoint /\ ops \in 0..MaxOps

\* The index finds exactly the documents of the content table, at the positions
\* the terms have in their current texts: after any mix of updates, flushes,
\* level merges, partial incremental merges, rebuilds, rollbacks and savepoints,
\* whichever segments the entries of a document are spread over.
IndexMatchesContent ==
  Query(tab) =
    LET docs(t) == {d \in DOMAIN tab.content : tab.content[d][t] # {}}
    IN [t \in {u \in Terms : docs(u) # {}} |-> [d \in docs(t) |-> tab.content[d][t]]]

\* What the savepoints and the start of the transaction saved is a consistent
\* table too, without any pending terms: a rollback that discards them loses
\* nothing the content table still has.
SavedMatchContent ==
  \A s \in {base} \cup Range(saved) :
    LET whole == s @@ [pending |-> NoTerms]
        docs(t) == {d \in DOMAIN s.content : s.content[d][t] # {}}
    IN Query(whole) = [t \in {u \in Terms : docs(u) # {}} |-> [d \in docs(t) |-> s.content[d][t]]]

\* The pending doclists can be stored as ascending deltas: fts3PendingListAppend
\* asserts that no docid is smaller than the one before it.
PendingAscending ==
  \A t \in DOMAIN tab.pending : \A d \in DOMAIN tab.pending[t] : d <= tab.prev

\* fts3BeginMethod asserts that nothing is pending when a table joins a
\* transaction: no earlier transaction left terms behind.
NothingPendingOutside == ~joined => tab.pending = NoTerms

\* The index, pending terms included, is what the content table holds, now and at
\* every point a rollback may return to.
IndexExact == TypeOK /\ IndexMatchesContent /\ SavedMatchContent /\ PendingAscending /\ NothingPendingOutside
=============================================================================
