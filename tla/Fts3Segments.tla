---------------------------- MODULE Fts3Segments ----------------------------
(***************************************************************************)
(* The b-trees a full-text index is kept in (fts3_write.go): segments are  *)
(* written leaf by leaf with a tree of interior nodes above them, found    *)
(* again through those nodes (fts3.go), merged level by level, and merged  *)
(* a few leaves at a time: an incremental merge appends to an output       *)
(* segment whose blocks were reserved in advance, cuts what it has copied  *)
(* off its inputs and leaves a hint for the next one.                      *)
(*                                                                         *)
(* A term is a sequence of letters, a doclist a set of documents of        *)
(* DocBytes bytes each; a varint takes one byte.  Nodes hold their terms   *)
(* prefix-compressed.  There is one language and one index.                *)
(***************************************************************************)
EXTENDS Integers, Sequences, FiniteSets, SequencesExt, FiniteSetsExt

CONSTANTS
  nNodeSize,      \* bytes of a node
  DocBytes,       \* bytes of a document in a doclist
  SegMergeCount,  \* FTS3_MERGE_COUNT
  Batches,        \* the sets of terms a document may have
  MergeQuotas,    \* the pairs <<nMerge, nMin>> a merge may be given
  MaxDocs,        \* bound: documents added
  MaxMerges       \* bound: incremental merges run

VARIABLES
  segdirs,        \* %_segdir: <<level, idx>> -> segment
  blocks,         \* %_segments: blockid -> node, or no node
  hint,           \* the merge hint in %_stat: a stack of <<level, segments>>
  termDocs,       \* the documents of every term
  nFlushed, nMerges

segVars == <<segdirs, blocks, hint, termDocs, nFlushed, nMerges>>

FTS_MAX_APPENDABLE_HEIGHT == 16
FTS3_VARINT_MAX == 10
NullBlock == [height |-> -1, child |-> 0, entries |-> <<>>]

-----------------------------------------------------------------------------
(* Terms and nodes.                                                          *)

fts3PrefixCompress(prev, term) ==
  CHOOSE n \in 0..Len(prev) :
    /\ n <= Len(term) /\ \A i \in 1..n : prev[i] = term[i]
    /\ n = Len(prev) \/ n = Len(term) \/ prev[n + 1] # term[n + 1]

\* memcmp, a prefix first.
TermLess(x, y) ==
  LET n == fts3PrefixCompress(x, y)
  IN IF n = Len(x) THEN n < Len(y) ELSE n < Len(y) /\ x[n + 1] < y[n + 1]

EntryOf(prev, term, docs) ==
  LET n == fts3PrefixCompress(prev, term)
  IN [nPrefix |-> n, suffix |-> SubSeq(term, n + 1, Len(term)), docs |-> docs]

\* nodeReaderNext, fts3SegReaderNext: the terms of a node.
NodeTerms(node) ==
  FoldLeft(LAMBDA done, e : Append(done, [term |-> (IF done = <<>> THEN <<>> ELSE SubSeq(Last(done).term, 1, e.nPrefix)) \o e.suffix,
                                          docs |-> e.docs]),
           <<>>, node.entries)
LastTerm(node) == IF node.entries = <<>> THEN <<>> ELSE Last(NodeTerms(node)).term

EntryBytes(prev, term) == 2 + Len(term) - fts3PrefixCompress(prev, term)
LeafBytes(prev, term, docs) == EntryBytes(prev, term) + 1 + DocBytes * Cardinality(docs)
EntriesBytes(entries, header) ==
  FoldLeft(LAMBDA n, e : n + 2 + Len(e.suffix) + (IF e.docs = {} THEN 0 ELSE 1 + DocBytes * Cardinality(e.docs)),
           header - (IF entries = <<>> THEN 0 ELSE 1), entries)
NodeBytes(node) == EntriesBytes(node.entries, IF node.height = 0 THEN 1 ELSE 2)

EmptyLeaf == [height |-> 0, child |-> 0, entries |-> <<>>]
EmptyInterior(height, child) == [height |-> height, child |-> child, entries |-> <<>>]
AppendToNode(node, term, docs) == [node EXCEPT !.entries = Append(@, EntryOf(LastTerm(node), term, docs))]

WriteSegment(bs, id, node) == [b \in DOMAIN bs \cup {id} |-> IF b = id THEN node ELSE bs[b]]
DeleteRange(bs, first, last) == [b \in {x \in DOMAIN bs : x < first \/ x > last} |-> bs[b]]
NextBlock(bs) == IF DOMAIN bs = {} THEN 1 ELSE Max(DOMAIN bs) + 1

-----------------------------------------------------------------------------
(* fts3SegWriterAdd, fts3NodeAddTerm: a segment written from its terms.      *)

\* layers[h] holds the nodes of height h so far; a node is its entries.
RECURSIVE fts3NodeAddTerm(_, _, _)
fts3NodeAddTerm(layers, h, term) ==
  IF h > Len(layers) THEN Append(layers, <<AppendToNode(EmptyInterior(h, 0), term, {})>>)
  ELSE LET node == Last(layers[h])
           nReq == EntriesBytes(node.entries, 1 + FTS3_VARINT_MAX) + EntryBytes(LastTerm(node), term)
       IN IF nReq <= nNodeSize \/ node.entries = <<>>
          THEN [layers EXCEPT ![h] = Append(Front(@), AppendToNode(node, term, {}))]
          ELSE fts3NodeAddTerm([layers EXCEPT ![h] = Append(@, EmptyInterior(h, 0))], h + 1, term)

fts3SegWriterAdd(w, term, docs) ==
  LET prev == LastTerm(w.leaf)
      full == w.leaf.entries # <<>> /\ NodeBytes(w.leaf) + LeafBytes(prev, term, docs) > nNodeSize
  IN IF full THEN [w EXCEPT !.blocks = WriteSegment(@, w.iFree, w.leaf), !.iFree = @ + 1,
                            !.layers = fts3NodeAddTerm(@, 1, SubSeq(term, 1, fts3PrefixCompress(prev, term) + 1)),
                            !.leaf = AppendToNode(EmptyLeaf, term, docs)]
     ELSE [w EXCEPT !.leaf = AppendToNode(@, term, docs)]

\* The nodes of a layer, then of the layers above; the root is not written.
RECURSIVE fts3NodeWrite(_, _, _, _, _)
fts3NodeWrite(bs, layers, h, iLeaf, iFree) ==
  IF h = Len(layers) THEN [blocks |-> bs, root |-> [layers[h][1] EXCEPT !.child = iLeaf], last |-> iFree - 1]
  ELSE LET n == Len(layers[h])
           child(i) == iLeaf + FoldLeft(LAMBDA k, node : k + Len(node.entries) + 1, 0, SubSeq(layers[h], 1, i - 1))
           written == FoldLeft(LAMBDA b, i : WriteSegment(b, iFree + i - 1, [layers[h][i] EXCEPT !.child = child(i)]),
                               bs, [i \in 1..n |-> i])
       IN fts3NodeWrite(written, layers, h + 1, iFree, iFree + n)

SegdirRow(start, leafEnd, end, root) == [start |-> start, leafEnd |-> leafEnd, end |-> end, root |-> root]

fts3SegWriterFlush(bs, w) ==
  IF w.layers = <<>> THEN [blocks |-> bs, seg |-> SegdirRow(0, 0, 0, w.leaf)]
  ELSE LET tree == fts3NodeWrite(WriteSegment(bs, w.iFree, w.leaf), w.layers, 1, w.iFirst, w.iFree + 1)
       IN [blocks |-> tree.blocks, seg |-> SegdirRow(w.iFirst, w.iFree, tree.last, tree.root)]

-----------------------------------------------------------------------------
(* Reading.                                                                  *)

\* What the reader of a segment visits.
SegmentTerms(bs, seg) ==
  IF seg.start = 0 THEN NodeTerms(seg.root)
  ELSE FlattenSeq([i \in 1..(seg.leafEnd - seg.start + 1) |-> NodeTerms(bs[seg.start + i - 1])])

\* sqlite3Fts3SegReaderStep: the terms of several segments in order, with what each
\* has for it.
MergedTerms(scans) ==
  LET all == UNION {Range(scans[i]) : i \in DOMAIN scans}
      terms == SetToSortSeq({e.term : e \in all}, TermLess)
  IN FoldLeft(LAMBDA out, t : Append(out, [term |-> t, docs |-> UNION {e.docs : e \in {x \in all : x.term = t}}]),
              <<>>, terms)

\* Mutant: a term equal to the one looked for belongs to the child on its left.
MutScanInteriorNode(node, term, prefix) ==
  LET keys == NodeTerms(node)
      cmpAbove(i) == LET k == keys[i].term
                         n == fts3PrefixCompress(term, k)
                     IN IF prefix THEN n < Len(term) /\ n < Len(k) /\ term[n + 1] < k[n + 1] ELSE ~TermLess(k, term)
  IN node.child + (IF \E i \in DOMAIN keys : cmpAbove(i) THEN Min({i \in DOMAIN keys : cmpAbove(i)}) - 1 ELSE Len(keys))

\* The child to look in for a term (the first whose right-hand key is larger), or
\* for the last term that begins with it.
fts3ScanInteriorNode(node, term, prefix) ==
  LET keys == NodeTerms(node)
      cmpAbove(i) == LET k == keys[i].term
                         n == fts3PrefixCompress(term, k)
                     IN IF prefix THEN n < Len(term) /\ n < Len(k) /\ term[n + 1] < k[n + 1] ELSE TermLess(term, k)
  IN node.child + (IF \E i \in DOMAIN keys : cmpAbove(i) THEN Min({i \in DOMAIN keys : cmpAbove(i)}) - 1 ELSE Len(keys))

RECURSIVE fts3SelectLeaf(_, _, _, _)
fts3SelectLeaf(bs, node, term, prefix) ==
  LET child == fts3ScanInteriorNode(node, term, prefix)
  IN IF node.height > 1 THEN fts3SelectLeaf(bs, bs[child], term, prefix) ELSE child

\* sqlite3Fts3SegReaderCursor: the leaves first to last are read.
SegmentFinds(bs, seg, term, prefix) ==
  LET first == fts3SelectLeaf(bs, seg.root, term, FALSE)
      last == IF prefix THEN fts3SelectLeaf(bs, seg.root, term, TRUE) ELSE first
      read == IF seg.start = 0 THEN NodeTerms(seg.root)
              ELSE FlattenSeq([i \in 1..(last - first + 1) |-> NodeTerms(bs[first + i - 1])])
  IN UNION {e.docs : e \in {x \in Range(read) : IF prefix THEN IsPrefix(term, x.term) ELSE x.term = term}}

-----------------------------------------------------------------------------
(* Merging whole levels.                                                     *)

SegmentsAt(dir, level) == {k \in DOMAIN dir : k[1] = level}
NextIdx(dir, level) == IF SegmentsAt(dir, level) = {} THEN 0 ELSE Max({k[2] : k \in SegmentsAt(dir, level)}) + 1
WithSegment(dir, key, seg) == [k \in DOMAIN dir \cup {key} |-> IF k = key THEN seg ELSE dir[k]]
WithoutSegments(dir, keys) == [k \in DOMAIN dir \ keys |-> dir[k]]

DeleteSegment(bs, seg) == IF seg.start = 0 THEN bs ELSE DeleteRange(bs, seg.start, seg.end)

WriteTerms(bs, terms) ==
  FoldLeft(LAMBDA w, e : fts3SegWriterAdd(w, e.term, e.docs),
           [blocks |-> bs, iFree |-> NextBlock(bs), iFirst |-> NextBlock(bs), leaf |-> EmptyLeaf, layers |-> <<>>], terms)

\* fts3AllocateSegdirIdx and fts3SegmentMerge: a full level becomes one segment of
\* the next, which is emptied first if it is full itself.
RECURSIVE fts3AllocateSegdirIdx(_, _)
AddSegment(dir, level, new) ==
  [segdir |-> WithSegment(dir, <<level, NextIdx(dir, level)>>, new.seg), blocks |-> new.blocks]
MergeUp(st, level, keys, up) ==
  LET Flushed(w) == fts3SegWriterFlush(FoldSet(LAMBDA k, b : DeleteSegment(b, st.segdir[k]), w.blocks, keys), w)
  IN AddSegment(WithoutSegments(up.segdir, keys), level + 1,
                Flushed(WriteTerms(up.blocks, MergedTerms([k \in keys |-> SegmentTerms(st.blocks, st.segdir[k])]))))
fts3AllocateSegdirIdx(st, level) ==
  IF NextIdx(st.segdir, level) < SegMergeCount THEN st
  ELSE MergeUp(st, level, SegmentsAt(st.segdir, level), fts3AllocateSegdirIdx(st, level + 1))

\* sqlite3Fts3PendingTermsFlush.
FlushInto(room, terms) ==
  LET Flushed(w) == fts3SegWriterFlush(w.blocks, w)
  IN AddSegment(room.segdir, 0, Flushed(WriteTerms(room.blocks, terms)))
SegPendingTermsFlush(st, terms) == FlushInto(fts3AllocateSegdirIdx(st, 0), terms)

-----------------------------------------------------------------------------
(* Incremental merging.  A writer has a node in progress in every layer, the  *)
(* leaves' being layer 0, and the block it is for.                            *)

WriterLayers == 0..(FTS_MAX_APPENDABLE_HEIGHT - 1)
NodeOpen(n) == n.node # NullBlock

fts3IncrmergeWriter(bs, inputs, level, idx) ==
  LET nLeafEst == 2 * MapThenSumSet(LAMBDA k : 1 + inputs[k].leafEnd - inputs[k].start, DOMAIN inputs)
      iStart == NextBlock(bs)
      iEnd == iStart - 1 + nLeafEst * FTS_MAX_APPENDABLE_HEIGHT
  IN [blocks |-> WriteSegment(bs, iEnd, NullBlock), nLeafEst |-> nLeafEst, iStart |-> iStart, iEnd |-> iEnd,
      key |-> <<level + 1, idx>>, nWork |-> 0,
      nodes |-> [i \in WriterLayers |-> [iBlock |-> iStart + i * nLeafEst, node |-> NullBlock]]]

NoWriter(bs) == [blocks |-> bs, nLeafEst |-> 0, iStart |-> 0, iEnd |-> 0, key |-> <<0, 0>>, nWork |-> 0,
                 nodes |-> [i \in WriterLayers |-> [iBlock |-> 0, node |-> NullBlock]]]

\* The nodes on the right-hand edge of a tree, below the one given.
RECURSIVE RightEdge(_, _)
RightEdge(bs, nodes) ==
  LET low == CHOOSE i \in WriterLayers : NodeOpen(nodes[i]) /\ \A j \in WriterLayers : j < i => ~NodeOpen(nodes[j])
      node == nodes[low].node
      child == node.child + Len(node.entries)
  IN IF low = 0 THEN nodes
     ELSE RightEdge(bs, [nodes EXCEPT ![low - 1] = [iBlock |-> child, node |-> bs[child]]])

fts3IncrmergeLoad(dir, bs, level, idx, term) ==
  LET seg == dir[<<level + 1, idx>>]
      bAppendable == /\ seg.end \in DOMAIN bs /\ bs[seg.end] = NullBlock
                     /\ TermLess(LastTerm(bs[seg.leafEnd]), term)
      nLeafEst == (seg.end - seg.start + 1) \div FTS_MAX_APPENDABLE_HEIGHT
      nHeight == seg.root.height
      start == [i \in WriterLayers |-> [iBlock |-> IF i >= nHeight THEN seg.start + i * nLeafEst ELSE 0,
                                  node |-> IF i = nHeight THEN seg.root ELSE NullBlock]]
  IN IF ~bAppendable THEN NoWriter(bs)
     ELSE [blocks |-> bs, nLeafEst |-> nLeafEst, iStart |-> seg.start, iEnd |-> seg.end,
           key |-> <<level + 1, idx>>, nWork |-> 0, nodes |-> RightEdge(bs, start)]

RECURSIVE fts3IncrmergePush(_, _, _, _)
fts3IncrmergePush(w, iLayer, term, iPtr) ==
  LET n == w.nodes[iLayer]
      started == IF NodeOpen(n) THEN n.node ELSE EmptyInterior(iLayer, iPtr)
      key == LastTerm(started)
      nSize == IF NodeOpen(n) THEN NodeBytes(n.node) ELSE 0
  IN IF key = <<>> \/ nSize + EntryBytes(key, term) <= nNodeSize
     THEN [w EXCEPT !.nodes[iLayer].node = AppendToNode(started, term, {})]
     ELSE fts3IncrmergePush([w EXCEPT !.blocks = WriteSegment(@, n.iBlock, n.node),
                                      !.nodes[iLayer] = [iBlock |-> n.iBlock + 1, node |-> EmptyInterior(iLayer, iPtr + 1)]],
                            iLayer + 1, term, n.iBlock)

fts3IncrmergeAppend(w, term, docs) ==
  LET leaf == w.nodes[0]
      prev == IF NodeOpen(leaf) THEN LastTerm(leaf.node) ELSE <<>>
      full == NodeOpen(leaf) /\ NodeBytes(leaf.node) + LeafBytes(prev, term, docs) > nNodeSize
      pushed == fts3IncrmergePush([w EXCEPT !.blocks = WriteSegment(@, leaf.iBlock, leaf.node), !.nWork = @ + 1],
                                  1, SubSeq(term, 1, fts3PrefixCompress(prev, term) + 1), leaf.iBlock)
  IN IF full THEN [pushed EXCEPT !.nodes[0] = [iBlock |-> @.iBlock + 1, node |-> AppendToNode(EmptyLeaf, term, docs)]]
     ELSE [w EXCEPT !.nodes[0].node = AppendToNode(IF NodeOpen(leaf) THEN leaf.node ELSE EmptyLeaf, term, docs)]

fts3IncrmergeRelease(dir, bs, w) ==
  LET open == {i \in WriterLayers : NodeOpen(w.nodes[i])}
      iRoot == IF Max(open) = 0 THEN 1 ELSE Max(open)
      root == IF Max(open) = 0 THEN EmptyInterior(1, w.nodes[0].iBlock) ELSE w.nodes[iRoot].node
      out == FoldSet(LAMBDA i, b : WriteSegment(b, w.nodes[i].iBlock, w.nodes[i].node), bs, {i \in open : i < iRoot})
  IN IF open = {} THEN [segdir |-> dir, blocks |-> bs]
     ELSE [segdir |-> WithSegment(dir, w.key, SegdirRow(w.iStart, w.nodes[0].iBlock, w.iEnd, root)), blocks |-> out]

fts3TruncateNode(node, term) ==
  LET all == NodeTerms(node)
      kept == SelectSeq(all, LAMBDA e : IF node.height = 0 THEN ~TermLess(e.term, term) ELSE TermLess(term, e.term))
      start == [node EXCEPT !.entries = <<>>,
                            !.child = IF node.height = 0 THEN 0 ELSE @ + Len(all) - Len(kept)]
  IN FoldLeft(LAMBDA n, e : AppendToNode(n, e.term, e.docs), start, kept)

RECURSIVE TruncateFrom(_, _, _)
CutNode(bs, id, node, term) ==
  LET out == WriteSegment(bs, id, node)
  IN IF node.child = 0 THEN [blocks |-> out, iNewStart |-> id] ELSE TruncateFrom(out, node.child, term)
TruncateFrom(bs, id, term) == CutNode(bs, id, fts3TruncateNode(bs[id], term), term)

\* The new root of a segment and what was cut below it.
CutBelow(dir, bs, key, root, below) ==
  [segdir |-> [dir EXCEPT ![key].start = below.iNewStart, ![key].root = root],
   blocks |-> IF below.iNewStart = 0 THEN bs ELSE DeleteRange(below.blocks, dir[key].start, below.iNewStart - 1)]
CutRoot(dir, bs, key, root, term) ==
  CutBelow(dir, bs, key, root,
           IF root.child = 0 THEN [blocks |-> bs, iNewStart |-> 0] ELSE TruncateFrom(bs, root.child, term))
fts3TruncateSegment(dir, bs, key, term) == CutRoot(dir, bs, key, fts3TruncateNode(dir[key].root, term), term)

fts3RepackSegdirLevel(dir, level) ==
  LET left == SetToSortSeq({k[2] : k \in SegmentsAt(dir, level)}, LAMBDA x, y : x < y)
      old(k) == IF k[1] = level THEN <<level, left[k[2] + 1]>> ELSE k
  IN [k \in (DOMAIN dir \ SegmentsAt(dir, level)) \cup {<<level, i - 1>> : i \in DOMAIN left} |-> dir[old(k)]]

\* The inputs, read up to the terms given: what was copied is removed.
fts3IncrmergeChomp(st, level, nSeg, rest) ==
  LET spent == {i \in 0..(nSeg - 1) : rest[<<level, i>>] = <<>>}
      Repacked(s) == IF spent = {} THEN s ELSE [s EXCEPT !.segdir = fts3RepackSegdirLevel(@, level)]
  IN [st |-> Repacked(FoldSet(LAMBDA i, s :
                       IF i \in spent
                       THEN [segdir |-> WithoutSegments(s.segdir, {<<level, i>>}), blocks |-> DeleteSegment(s.blocks, s.segdir[<<level, i>>])]
                       ELSE fts3TruncateSegment(s.segdir, s.blocks, <<level, i>>, rest[<<level, i>>][1].term),
                     st, 0..(nSeg - 1))),
      nRem |-> nSeg - Cardinality(spent)]

\* Terms are appended until the quota of leaves is written.
RECURSIVE AppendTerms(_, _, _, _)
AppendTerms(w, terms, i, nRem) ==
  LET next == fts3IncrmergeAppend(w, terms[i].term, terms[i].docs)
  IN IF i = Len(terms) \/ next.nWork >= nRem THEN [w |-> next, n |-> i] ELSE AppendTerms(next, terms, i + 1, nRem)

\* fts3IncrmergeHintPush and fts3IncrmergeHintPop: the hint is a stack.
HintPush(stack, level, nInput) == Append(stack, <<level, nInput>>)
HintPop(stack) == [level |-> Last(stack)[1], nInput |-> Last(stack)[2], left |-> Front(stack)]

\* One round of sqlite3Fts3Incrmerge.  in: its level and number of segments, what they
\* hold, the terms in order, whether a hint chose them and the hint without it.
RoundInput(st, hinted, level, nSeg, left) ==
  LET scans == [k \in {<<level, i>> : i \in 0..(nSeg - 1)} |-> SegmentTerms(st.blocks, st.segdir[k])]
  IN [hinted |-> hinted, level |-> level, nSeg |-> nSeg, left |-> left, scans |-> scans, terms |-> MergedTerms(scans)]

RoundWriter(st, in, iIdx) ==
  IF in.hinted /\ iIdx > 0 THEN fts3IncrmergeLoad(st.segdir, st.blocks, in.level, iIdx - 1, in.terms[1].term)
  ELSE fts3IncrmergeWriter(st.blocks, [k \in DOMAIN in.scans |-> st.segdir[k]], in.level, iIdx)

NotCopied(in, n) ==
  [k \in DOMAIN in.scans |-> IF n = Len(in.terms) THEN <<>>
                             ELSE SelectSeq(in.scans[k], LAMBDA e : ~TermLess(e.term, in.terms[n + 1].term))]

\* sqlite3Fts3Incrmerge: the loop, with what is left of the quota.
RECURSIVE IncrmergeLoop(_, _, _, _)
EndRound(in, w, chomped, nRem, nMin) ==
  IncrmergeLoop(fts3IncrmergeRelease(chomped.st.segdir, chomped.st.blocks, w),
                IF chomped.nRem = 0 THEN in.left ELSE HintPush(in.left, in.level, chomped.nRem),
                nRem - 1 - w.nWork, nMin)
Copied(st, in, done, nRem, nMin) ==
  EndRound(in, done.w,
           fts3IncrmergeChomp([st EXCEPT !.blocks = done.w.blocks], in.level, in.nSeg, NotCopied(in, done.n)), nRem, nMin)
CopyTerms(st, in, writer, nRem, nMin) ==
  IF writer.nLeafEst = 0 THEN IncrmergeLoop(st, in.left, nRem, nMin)
  ELSE Copied(st, in, AppendTerms(writer, in.terms, 1, nRem), nRem, nMin)
MergeRound(st, in, nRem, nMin) ==
  CopyTerms(st, in, RoundWriter(st, in, NextIdx(st.segdir, in.level + 1)), nRem, nMin)
SegMergeLevel(st, hinted, level, nSeg, left, nRem, nMin) ==
  IF \A i \in 0..(nSeg - 1) : <<level, i>> \in DOMAIN st.segdir
  THEN MergeRound(st, RoundInput(st, hinted, level, nSeg, left), nRem, nMin)
  ELSE IncrmergeLoop(st, left, nRem, nMin)
IncrmergeLoop(st, stack, nRem, nMin) ==
  LET full == {l \in {k[1] : k \in DOMAIN st.segdir} : Cardinality(SegmentsAt(st.segdir, l)) >= nMin}
      bUseHint == stack # <<>> /\ (full = {} \/ Min(full) >= HintPop(stack).level)
      levels == IF bUseHint THEN HintPop(stack) ELSE [level |-> Min(full), nInput |-> nMin, left |-> stack]
  IN IF nRem <= 0 \/ (stack = <<>> /\ full = {}) THEN [st |-> st, hint |-> stack]
     ELSE SegMergeLevel(st, bUseHint, levels.level, levels.nInput, levels.left, nRem, nMin)

-----------------------------------------------------------------------------
SegTerms == UNION Batches

SegsInit ==
  /\ segdirs = <<>> /\ blocks = <<>> /\ hint = <<>>
  /\ termDocs = [t \in SegTerms |-> {}]
  /\ nFlushed = 0 /\ nMerges = 0

\* A document is added and the pending terms are flushed.
SegsFlush(batch) ==
  /\ nFlushed < MaxDocs
  /\ LET Pending(terms) == [i \in DOMAIN terms |-> [term |-> terms[i], docs |-> {nFlushed + 1}]]
         Store(st) == segdirs' = st.segdir /\ blocks' = st.blocks
     IN Store(SegPendingTermsFlush([segdir |-> segdirs, blocks |-> blocks], Pending(SetToSortSeq(batch, TermLess))))
  /\ nFlushed' = nFlushed + 1
  /\ termDocs' = [t \in SegTerms |-> IF t \in batch THEN termDocs[t] \cup {nFlushed + 1} ELSE termDocs[t]]
  /\ UNCHANGED <<hint, nMerges>>

sqlite3Fts3Incrmerge(nMerge, nMin) ==
  /\ nMerges < MaxMerges
  /\ LET Store(out) == segdirs' = out.st.segdir /\ blocks' = out.st.blocks /\ hint' = out.hint
     IN Store(IncrmergeLoop([segdir |-> segdirs, blocks |-> blocks], hint, nMerge, nMin))
  /\ nMerges' = nMerges + 1
  /\ UNCHANGED <<termDocs, nFlushed>>

SegsNext ==
  \/ \E batch \in Batches : SegsFlush(batch)
  \/ \E q \in MergeQuotas : sqlite3Fts3Incrmerge(q[1], q[2])

SegsSpec == SegsInit /\ [][SegsNext]_segVars

-----------------------------------------------------------------------------
\* The segments of a level are numbered from 0, and a level is emptied before it has
\* more than SegMergeCount of them by flushes alone.
SegsTypeOK ==
  /\ \A k \in DOMAIN segdirs : segdirs[k].start <= segdirs[k].leafEnd /\ segdirs[k].leafEnd <= segdirs[k].end
  /\ \A k \in DOMAIN segdirs : \A i \in 0..k[2] : <<k[1], i>> \in DOMAIN segdirs
  /\ \A b \in DOMAIN blocks : blocks[b].height \in -1..FTS_MAX_APPENDABLE_HEIGHT

\* A query for a term reads, through the interior nodes of every segment, exactly the
\* documents that have it (fts3SelectLeaf).
LookupExact ==
  nFlushed > 0 =>
    \A t \in SegTerms : UNION {SegmentFinds(blocks, segdirs[k], t, FALSE) : k \in DOMAIN segdirs} = termDocs[t]

\* A prefix query reads exactly the documents that have a term with the prefix.
PrefixLookupExact ==
  nFlushed > 0 =>
    \A t \in SegTerms : UNION {SegmentFinds(blocks, segdirs[k], t, TRUE) : k \in DOMAIN segdirs}
                          = UNION {termDocs[x] : x \in {y \in SegTerms : IsPrefix(t, y)}}

\* The leaves below a node, from left to right.
RECURSIVE LeavesBelow(_)
LeavesBelow(node) ==
  LET children == [i \in 1..(Len(node.entries) + 1) |-> node.child + i - 1]
  IN IF node.height = 1 THEN children
     ELSE FlattenSeq([i \in DOMAIN children |-> LeavesBelow(blocks[children[i]])])

\* Every segment is one b-tree: its interior nodes lead to its leaves from the first
\* to the last, which hold terms in ascending order, and no entry is in two segments:
\* what an incremental merge copies, it cuts off.
TreesExact ==
  /\ \A k \in DOMAIN segdirs :
       LET seg == segdirs[k]
           scan == SegmentTerms(blocks, seg)
       IN /\ scan # <<>>
          /\ \A i \in 1..(Len(scan) - 1) : TermLess(scan[i].term, scan[i + 1].term)
          /\ seg.start # 0 => LeavesBelow(seg.root) = [i \in 1..(seg.leafEnd - seg.start + 1) |-> seg.start + i - 1]
  /\ \A j, k \in DOMAIN segdirs : j # k =>
       \A x \in Range(SegmentTerms(blocks, segdirs[j])), y \in Range(SegmentTerms(blocks, segdirs[k])) : x.term = y.term => x.docs \cap y.docs = {}

\* Every block belongs to one segment; none is left behind and none is shared, though
\* incremental merges reserve blocks they have not written yet.
BlocksOwned ==
  /\ \A b \in DOMAIN blocks : Cardinality({k \in DOMAIN segdirs : segdirs[k].start <= b /\ b <= segdirs[k].end}) = 1
  /\ \A j, k \in DOMAIN segdirs : j # k /\ segdirs[j].start > 0 /\ segdirs[k].start > 0 =>
       segdirs[j].end < segdirs[k].start \/ segdirs[k].end < segdirs[j].start

\* Lookups find exactly the documents of a term or prefix, in segments that are
\* well-formed trees with blocks of their own.
SegmentsExact == SegsTypeOK /\ LookupExact /\ PrefixLookupExact /\ TreesExact /\ BlocksOwned
=============================================================================
