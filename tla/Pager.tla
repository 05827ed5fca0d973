------------------------------- MODULE Pager -------------------------------
(***************************************************************************)
(* The rollback-journal pager of btree/pager.go: connections of several    *)
(* processes that read, write, spill, commit and roll back one database    *)
(* file through a journal, die, lose power and recover a hot journal.      *)
(*                                                                         *)
(* A step is a lock call, a look at the file system, or the I/O up to the  *)
(* next point where a crash or another process can tell the difference.    *)
(* The journal is a sequence of slots, each one a header or a page record; *)
(* journalOff and journalHdr count slots.  A page is abstracted to the     *)
(* write that made it and, on page 1, the change counter.  The locks are   *)
(* those of Lock and Unlock in os_unix.go (module UnixLock), each          *)
(* connection in a process of its own.  Savepoints, WAL, exclusive mode,   *)
(* in-memory journals and master journals are left out, and a sector holds *)
(* one page.                                                               *)
(***************************************************************************)
EXTENDS Integers, Sequences, FiniteSets, FiniteSetsExt, Functions

CONSTANTS Conns,         \* connections, each in a process of its own
          MaxPage,       \* bound on the pages of the database
          InitSizes,     \* sizes of the database file at the start
          JournalModes,  \* the assignments of journal modes to connections
          FullSync,      \* synchronous=FULL, else NORMAL
          WeakChecksum,  \* a torn journal record passes its checksum
          Aligned,       \* the synced records end exactly at a sector boundary
          Shrink,        \* auto-vacuum may make the database smaller
          MaxTxn,        \* bound on write transactions
          FaultSites,    \* the calls that may fail
          MaxCrash, MaxPower, MaxFault
                         \* bounds on process crashes, power failures, I/O errors

ASSUME BoundsAssumption == {MaxPage, MaxTxn, MaxCrash, MaxPower, MaxFault} \subseteq Nat
ASSUME SizesAssumption == InitSizes \subseteq 0..MaxPage
ASSUME ModesAssumption == JournalModes \subseteq [Conns -> {"DELETE", "TRUNCATE", "PERSIST"}]
ASSUME SwitchesAssumption == {FullSync, WeakChecksum, Aligned, Shrink} \subseteq BOOLEAN

Pages == 1..MaxPage
Inodes == 1..(Cardinality(Conns) + 2)

NO_LOCK == 0
SHARED_LOCK == 1
RESERVED_LOCK == 2
PENDING_LOCK == 3
EXCLUSIVE_LOCK == 4

PAGER_OPEN == 0
PAGER_READER == 1
PAGER_WRITER_LOCKED == 2
PAGER_WRITER_CACHEMOD == 3
PAGER_WRITER_DBMOD == 4
PAGER_WRITER_FINISHED == 5
PAGER_ERROR == 6

\* A page: the write that made it, and the change counter if it is page 1.
ZeroPage == [w |-> 0, cc |-> 0]
TornPage == [w |-> -1, cc |-> -1]

ZeroSlot == [k |-> "zero"]
NoJournal == [os |-> <<>>, disk |-> <<>>, cut |-> FALSE]

FreshPager == [eState |-> PAGER_OPEN, dbSize |-> 0, dbOrigSize |-> 0, dbFileSize |-> 0,
               cache |-> <<>>, dirty |-> {}, needSync |-> {}, inJournal |-> {},
               nRec |-> 0, journalOff |-> 0, journalHdr |-> 0, hdrOpen |-> FALSE,
               jfd |-> 0, dirSync |-> FALSE,
               dbFileVers |-> 0, changeCountDone |-> FALSE,
               todo |-> {}, goal |-> "none", play |-> <<>>]

VARIABLES db, dbDisk,    \* the database file as processes see it, and as synced
          ino,           \* journal inodes: contents seen, contents synced, and
                         \* whether a truncation is not yet synced
          name, nameDisk,\* the inode zJournal names, and the one it names on disk
          lock,          \* the level each connection has locked the file to
          resv,          \* the connections that hold RESERVED_BYTE
          pg, pc,        \* each connection's Pager and the call it is in
          journalMode,
          txn,           \* history: write transactions so far
          committed,     \* history: the image readers are owed
          undo,          \* history: the transaction whose journal was finalized last
                         \* but is still whole on disk, and what it restores
          crashes, powers, faults

diskVars == <<db, dbDisk, ino, name, nameDisk>>
lockVars == <<lock, resv>>
histVars == <<txn, committed, undo>>
boundVars == <<crashes, powers, faults>>
vars == <<diskVars, lockVars, pg, pc, journalMode, histVars, boundVars>>

-----------------------------------------------------------------------------
(***************************************************************************)
(* Locks and files.                                                        *)
(***************************************************************************)
Others(c) == Conns \ {c}

\* unixLock between processes: what the byte locks of the others allow.
CanShare(c) == \A d \in Others(c) : lock[d] < PENDING_LOCK
CanReserve(c) == resv \subseteq {c}
CanPend(c) == \A d \in Others(c) : lock[d] < PENDING_LOCK
CanExclude(c) == CanPend(c) /\ \A d \in Others(c) : lock[d] = NO_LOCK

SetLock(c, l) ==
  /\ lock' = [lock EXCEPT ![c] = l]
  /\ resv' = IF l = RESERVED_LOCK THEN resv \cup {c}
             ELSE IF l <= SHARED_LOCK THEN resv \ {c} ELSE resv

Goto(c, label) == pc' = [pc EXCEPT ![c] = label]
SetPg(c, P) == pg' = [pg EXCEPT ![c] = P]

\* A write to page p of the database file, and a change of its size; what
\* lies between is zero.
Resized(d, n) == [p \in 1..n |-> IF p <= Len(d) THEN d[p] ELSE ZeroPage]
Written(d, p, v) == [Resized(d, Max({p, Len(d)})) EXCEPT ![p] = v]

\* A write of slot i of a journal.
PutSlot(j, i, s) ==
  [j EXCEPT !.os = [k \in 1..Max({i, Len(@)}) |->
                      IF k = i THEN s ELSE IF k <= Len(@) THEN @[k] ELSE ZeroSlot]]

SyncedJournal(j) == [os |-> j.os, disk |-> j.os, cut |-> FALSE]
TruncatedJournal(j) == [os |-> <<>>, disk |-> j.disk, cut |-> TRUE]

\* Inodes that nothing names any more hold nothing.
Reaped(f, n, nd, P) ==
  [i \in Inodes |-> IF i \in {n, nd} \cup {P[c].jfd : c \in Conns} THEN f[i] ELSE NoJournal]

\* An I/O error at one of the calls that may fail, and whether a call that is
\* made at all may succeed or fail.
MayFail(site) == site \in FaultSites /\ faults < MaxFault
Fault(site) == MayFail(site) /\ faults' = faults + 1
Results(site, made) == IF made /\ MayFail(site) THEN BOOLEAN ELSE {TRUE}

FreeInode == Min(Inodes \ ({name, nameDisk} \cup {pg[c].jfd : c \in Conns}))

\* PCache::Truncate keeps the pages up to n.
UpTo(f, n) == Restrict(f, DOMAIN f \cap 1..n)
Cached(f, p, v) == [q \in DOMAIN f \cup {p} |-> IF q = p THEN v ELSE f[q]]

\* readDbPage: a page beyond the end of the file reads as zero.
readDbPage(p) == IF p <= Len(db) THEN db[p] ELSE ZeroPage

\* What connection c sees of page p.
PageSeen(c, p) == IF p \in DOMAIN pg[c].cache THEN pg[c].cache[p] ELSE readDbPage(p)
View(c) == [p \in 1..pg[c].dbSize |-> PageSeen(c, p)]

-----------------------------------------------------------------------------
(***************************************************************************)
(* The journal.                                                            *)
(***************************************************************************)
\* writeJournalHdr at journalOff: no magic and no record count yet, a fresh
\* random checksum initializer.
NewHdr(P) == [k |-> "hdr", magic |-> FALSE, nRec |-> 0,
              cksumInit |-> <<txn, P.journalOff>>, dbSize |-> P.dbOrigSize]
ZeroHdr == [k |-> "hdr", magic |-> FALSE, nRec |-> 0, cksumInit |-> <<0, 0>>, dbSize |-> 0]

writeJournalHdr(P, j) ==
  [p |-> [P EXCEPT !.journalHdr = P.journalOff, !.hdrOpen = TRUE, !.journalOff = @ + 1, !.nRec = 0],
   j |-> PutSlot(j, P.journalOff + 1, NewHdr(P))]

HasMagic(j, i) == i <= Len(j) /\ j[i].k = "hdr" /\ j[i].magic

\* The record of page p as it was when the transaction began.
JournalRec(P, j, p, v) ==
  [k |-> "rec", pgno |-> p, data |-> v, cksumInit |-> j.os[P.journalHdr + 1].cksumInit, torn |-> FALSE]

\* pager_cksum against the initializer of the header.
CksumOk(r, h) == r.cksumInit = h.cksumInit /\ (r.torn => WeakChecksum)

\* pager_playback's reading of journal j: the database size in the first
\* header and the slots of the records it plays.  own is
\* journalHdr, or -1 when that is no sector boundary.  A header needs its
\* magic unless it is at own, where the records of a header that this process
\* is still filling reach to the end of the file.  Playback ends
\* at the first slot that is no header where one is due, at a record that is
\* zero or fails its checksum, and at the end of the file.
Playback(j, isHot, own) ==
  LET Mine(off) == ~isHot /\ off = own
      HdrOk(off) == off < Len(j) /\ j[off + 1].k = "hdr" /\ (Mine(off) \/ j[off + 1].magic)
      mxPg == IF HdrOk(0) THEN j[1].dbSize ELSE 0
      nRec(off) == IF Mine(off) /\ j[off + 1].nRec = 0 THEN Len(j) - (off + 1) ELSE j[off + 1].nRec
      Skipped(i) == HasMagic(j, i) \/ (j[i].k = "rec" /\ j[i].pgno > mxPg)
      Ends(off, i) == i > Len(j) \/ ~(Skipped(i) \/ (j[i].k = "rec" /\ CksumOk(j[i], j[off + 1])))
      Stop(off) == Min({i \in (off + 2)..(off + 2 + nRec(off)) : i = off + 2 + nRec(off) \/ Ends(off, i)})
      Recs(off) == SelectSeq([n \in 1..(Stop(off) - off - 2) |-> off + 1 + n], LAMBDA i : ~Skipped(i))
      From[off \in 0..Len(j)] ==
        IF ~HdrOk(off) THEN <<>>
        ELSE Recs(off) \o (IF Stop(off) = off + 2 + nRec(off) /\ Stop(off) <= Len(j) + 1
                           THEN From[Stop(off) - 1] ELSE <<>>)
  IN [found |-> HdrOk(0), mxPg |-> mxPg, recs |-> From[0],
      any |-> From[0] # <<>> \/ (HdrOk(0) /\ nRec(0) > 0)]


\* pager_open_journal: open or create the file zJournal names, unless jfd is
\* still open, and write the first header.
OpenedInode(P) == IF P.jfd # 0 THEN P.jfd ELSE IF name # 0 THEN name ELSE FreeInode

pager_open_journal(P) ==
  LET i == OpenedInode(P)
      Q == [P EXCEPT !.jfd = i, !.dirSync = @ \/ P.jfd = 0, !.journalOff = 0, !.eState = PAGER_WRITER_CACHEMOD, !.inJournal = {}]
      h == writeJournalHdr(Q, ino[i])
  IN [p |-> h.p, j |-> h.j, n |-> IF P.jfd = 0 THEN i ELSE name]

\* Mutant: the last page of the original database counts as new.
LastPageNew(P, j, p, v) ==
  LET Q == [P EXCEPT !.dirty = @ \cup {p}, !.cache = Cached(@, p, v), !.dbSize = Max({@, p})]
  IN IF p \in P.inJournal THEN [p |-> Q, j |-> j]
     ELSE IF p < P.dbOrigSize
          THEN [p |-> [Q EXCEPT !.needSync = @ \cup {p}, !.journalOff = @ + 1, !.nRec = @ + 1,
                                !.inJournal = @ \cup {p}],
                j |-> PutSlot(j, P.journalOff + 1, JournalRec(P, j, p, v))]
          ELSE [p |-> [Q EXCEPT !.needSync = @ \cup {p}], j |-> j]

\* pager_write of a page whose content is v: the journal is opened if need be
\* and the page journalled unless it is there already or is new.
JournalPage(P, j, p, v) ==
  LET Q == [P EXCEPT !.dirty = @ \cup {p}, !.cache = Cached(@, p, v), !.dbSize = Max({@, p})]
  IN IF p \in P.inJournal THEN [p |-> Q, j |-> j]
     ELSE IF p <= P.dbOrigSize
          THEN [p |-> [Q EXCEPT !.needSync = @ \cup {p}, !.journalOff = @ + 1, !.nRec = @ + 1,
                                !.inJournal = @ \cup {p}],
                j |-> PutSlot(j, P.journalOff + 1, JournalRec(P, j, p, v))]
          ELSE [p |-> IF P.eState = PAGER_WRITER_DBMOD THEN Q
                      ELSE [Q EXCEPT !.needSync = @ \cup {p}],
                j |-> j]

\* JournalPage for each page of S, in ascending order.
JournalPages(P, j, S) ==
  MapThenFoldSet(LAMBDA p, r : JournalPage(r.p, r.j, p, IF p \in DOMAIN r.p.cache THEN r.p.cache[p] ELSE readDbPage(p)),
                 [p |-> P, j |-> j], LAMBDA p : p, LAMBDA T : Max(T), S)

-----------------------------------------------------------------------------
(***************************************************************************)
(* Ending a transaction.                                                   *)
(***************************************************************************)
\* pager_end_transaction on the journal: delete the file zJournal names,
\* truncate the open file, or zero its first header and sync.  A file that
\* was not written (journalOff = 0) is only deleted.
FinalizedName(c, P) == IF P.jfd # 0 /\ journalMode[c] = "DELETE" THEN 0 ELSE name

\* Mutant: a zeroed header is not synced.
FinalizedUnsynced(c, P) ==
  LET j == IF P.jfd = 0 THEN NoJournal ELSE ino[P.jfd]
  IN IF P.journalOff = 0 \/ journalMode[c] = "DELETE" THEN j
     ELSE IF journalMode[c] = "TRUNCATE" THEN TruncatedJournal(j)
     ELSE PutSlot(j, 1, ZeroHdr)

FinalizedJournal(c, P) ==
  LET j == IF P.jfd = 0 THEN NoJournal ELSE ino[P.jfd]
  IN IF P.journalOff = 0 \/ journalMode[c] = "DELETE" THEN j
     ELSE IF journalMode[c] = "TRUNCATE" THEN TruncatedJournal(j)
     ELSE SyncedJournal(PutSlot(j, 1, ZeroHdr))

FinalizedPager(c, P) ==
  [P EXCEPT !.eState = PAGER_READER, !.jfd = IF journalMode[c] = "DELETE" THEN 0 ELSE @,
            !.dirSync = @ /\ journalMode[c] # "DELETE",
            !.cache = UpTo(@, P.dbSize), !.dirty = {}, !.needSync = {}, !.inJournal = {},
            !.nRec = 0, !.journalOff = 0, !.journalHdr = 0, !.hdrOpen = FALSE,
            !.changeCountDone = FALSE, !.dbOrigSize = 0, !.dbFileSize = 0,
            !.todo = {}, !.goal = "none", !.play = <<>>]

\* A commit by c that leaves its journal as j: the journal may still be whole
\* on disk, and undo the transaction after a power failure.
UndoneBy(c, P, j) ==
  IF P.jfd # 0 /\ P.jfd = nameDisk /\ ~ino[P.jfd].cut /\ HasMagic(j.disk, 1)
  THEN [t |-> j.disk[1].cksumInit[1], img |-> committed, mode |-> journalMode[c]]
  ELSE undo

\* What pager_end_transaction does whether or not the journal is finalized: the
\* cache is clean, the lock SHARED.  nm is the inode zJournal names then, j the
\* journal and Q the pager.
EndsWith(c, P, nm, j, Q) ==
  LET f == IF P.jfd = 0 THEN ino ELSE [ino EXCEPT ![P.jfd] = j]
  IN /\ name' = nm
     /\ pg' = [pg EXCEPT ![c] = Q]
     /\ ino' = Reaped(f, nm, nameDisk, [pg EXCEPT ![c] = Q])
     /\ SetLock(c, SHARED_LOCK)
     /\ UNCHANGED nameDisk

pager_end_transaction(c, P) ==
  EndsWith(c, P, FinalizedName(c, P), FinalizedJournal(c, P), FinalizedPager(c, P))

\* The finalization fails: the journal stays as it is.
Unfinalized(c, P) == EndsWith(c, P, name, ino[P.jfd], [FinalizedPager(c, P) EXCEPT !.eState = PAGER_ERROR])

\* pager_unlock: close the journal and drop the locks; after an error, drop
\* the cache as well.
UnlockedPager(P) ==
  [FreshPager EXCEPT !.cache = IF P.eState = PAGER_ERROR THEN <<>> ELSE P.cache,
                     !.dbFileVers = P.dbFileVers]

pager_unlock(c, P) ==
  LET Q == [pg EXCEPT ![c] = UnlockedPager(P)]
  IN /\ pg' = Q
     /\ ino' = Reaped(ino, name, nameDisk, Q)
     /\ SetLock(c, NO_LOCK)
     /\ Goto(c, "idle")
     /\ UNCHANGED <<db, dbDisk, name, nameDisk, journalMode, histVars>>

-----------------------------------------------------------------------------
(***************************************************************************)
(* Opening a read transaction: sqlite3PagerSharedLock and hasHotJournal.   *)
(***************************************************************************)
SharedLock(c) ==
  /\ pc[c] = "idle" /\ pg[c].eState = PAGER_OPEN
  /\ CanShare(c)
  /\ SetLock(c, SHARED_LOCK)
  /\ Goto(c, "exists")
  /\ UNCHANGED <<diskVars, pg, journalMode, histVars, boundVars>>

\* hasHotJournal: is there a journal?
HotExists(c) ==
  /\ pc[c] = "exists"
  /\ Goto(c, IF name = 0 THEN "validate" ELSE "reserved")
  /\ UNCHANGED <<diskVars, lockVars, pg, journalMode, histVars, boundVars>>

\* Is its writer alive?  A journal beside an empty database is deleted under
\* a RESERVED lock, if that is to be had.
HotReserved(c) ==
  /\ pc[c] = "reserved"
  /\ \/ /\ resv # {}
        /\ Goto(c, "validate")
        /\ UNCHANGED <<ino, name>>
     \/ /\ resv = {} /\ Len(db) = 0
        /\ name' = 0
        /\ ino' = Reaped(ino, 0, nameDisk, pg)
        /\ Goto(c, "validate")
     \/ /\ resv = {} /\ Len(db) > 0
        /\ Goto(c, "first")
        /\ UNCHANGED <<ino, name>>
  /\ UNCHANGED <<db, dbDisk, nameDisk, lockVars, pg, journalMode, histVars, boundVars>>

\* Is its first byte not zero?  A journal that has gone meanwhile counts as hot.
HotFirstByte(c) ==
  /\ pc[c] = "first"
  /\ Goto(c, IF name = 0 \/ HasMagic(ino[name].os, 1) THEN "hotlock" ELSE "validate")
  /\ UNCHANGED <<diskVars, lockVars, pg, journalMode, histVars, boundVars>>

\* The EXCLUSIVE lock is asked for once, straight from SHARED.
HotLock(c) ==
  /\ pc[c] = "hotlock"
  /\ IF CanExclude(c)
     THEN /\ SetLock(c, EXCLUSIVE_LOCK)
          /\ Goto(c, "hotopen")
          /\ UNCHANGED <<diskVars, pg, journalMode, histVars>>
     ELSE pager_unlock(c, pg[c])
  /\ UNCHANGED boundVars

\* pager_playback up to the first record: the database file gets its old size
\* back, and a hot journal with records empties the cache.
StartPlayback(c, P, isHot, toFile) ==
  LET r == Playback(ino[P.jfd].os, isHot, IF P.hdrOpen \/ Aligned THEN P.journalHdr ELSE -1)
  IN /\ pg' = [pg EXCEPT ![c] =
                [P EXCEPT !.play = r.recs, !.goal = IF isHot THEN "hot" ELSE "rollback",
                          !.dbSize = IF r.found THEN r.mxPg ELSE @,
                          !.journalOff = IF r.found THEN Len(ino[P.jfd].os) ELSE 0,
                          !.changeCountDone = FALSE, !.todo = {},
                          !.cache = IF isHot /\ r.any THEN <<>> ELSE @]]
     /\ db' = IF r.found /\ toFile THEN Resized(db, r.mxPg) ELSE db
     /\ Goto(c, "play")

\* The journal is opened, synced (pagerSyncHotJournal) and played back, unless
\* it has been rolled back by someone else meanwhile.
HotOpen(c) ==
  /\ pc[c] = "hotopen"
  /\ \/ /\ name = 0
        /\ SetLock(c, SHARED_LOCK)
        /\ Goto(c, "validate")
        /\ UNCHANGED <<db, ino, pg>>
     \/ /\ name # 0
        /\ ino' = [ino EXCEPT ![name] = SyncedJournal(@)]
        /\ StartPlayback(c, [pg[c] EXCEPT !.jfd = name, !.journalHdr = Len(ino[name].os)], TRUE, TRUE)
        /\ UNCHANGED lockVars
  /\ UNCHANGED <<dbDisk, name, nameDisk, journalMode, histVars, boundVars>>

\* Mutant: the cache is kept whatever the change counter says.
ValidateKeepsCache(c) ==
  /\ pc[c] = "validate"
  /\ LET kept == pg[c].cache
     IN SetPg(c, [pg[c] EXCEPT !.cache = IF 1 \in DOMAIN kept THEN kept ELSE Cached(kept, 1, readDbPage(1)),
                               !.dbFileVers = IF 1 \notin DOMAIN kept /\ Len(db) > 0 THEN db[1].cc ELSE @,
                               !.dbSize = Len(db), !.eState = PAGER_READER])
  /\ Goto(c, "idle")
  /\ UNCHANGED <<diskVars, lockVars, journalMode, histVars, boundVars>>

\* The cache is kept if the change counter has not moved.  lockBtree then takes
\* page 1 and holds it to the end of the transaction.
Validate(c) ==
  /\ pc[c] = "validate"
  /\ LET vers == IF Len(db) > 0 THEN db[1].cc ELSE 0
         stale == pg[c].cache # <<>> /\ vers # pg[c].dbFileVers
         kept == IF stale THEN <<>> ELSE pg[c].cache
         read == 1 \notin DOMAIN kept
     IN SetPg(c, [pg[c] EXCEPT !.cache = IF read THEN Cached(kept, 1, readDbPage(1)) ELSE kept,
                               !.dbFileVers = IF read /\ Len(db) > 0 THEN db[1].cc ELSE @,
                               !.dbSize = Len(db), !.eState = PAGER_READER])
  /\ Goto(c, "idle")
  /\ UNCHANGED <<diskVars, lockVars, journalMode, histVars, boundVars>>

-----------------------------------------------------------------------------
(***************************************************************************)
(* pager_playback, from the journal of a dead process or our own.          *)
(***************************************************************************)
ToFile(P) == P.eState >= PAGER_WRITER_DBMOD \/ P.eState = PAGER_OPEN

\* An error on the way: SharedLock unlocks, Rollback enters the ERROR state.
PlaybackFailed(c, P) ==
  IF P.goal = "hot"
  THEN pager_unlock(c, [P EXCEPT !.eState = PAGER_ERROR])
  ELSE /\ SetPg(c, [P EXCEPT !.eState = PAGER_ERROR, !.play = <<>>, !.goal = "none"])
       /\ Goto(c, "idle")
       /\ UNCHANGED <<diskVars, lockVars, journalMode, histVars>>

\* pager_playback_one_page: the file gets the page if its record is synced; a
\* cached copy is restored and clean.  With such a copy rc is overwritten by the
\* result of Codec1, and the failure of the write is lost.
pager_playback_one_page(c) ==
  LET P == pg[c]
      i == Head(P.play)
      r == ino[P.jfd].os[i]
      hit == r.pgno \in DOMAIN P.cache
      writes == ToFile(P) /\ i <= P.journalHdr
  IN /\ pc[c] = "play" /\ P.play # <<>>
     /\ \E written \in Results("playback", writes) :
          /\ faults' = IF written THEN faults ELSE faults + 1
          /\ IF written \/ hit
             THEN /\ SetPg(c, [P EXCEPT !.play = Tail(@), !.dirty = @ \ {r.pgno}, !.needSync = @ \ {r.pgno},
                                       !.cache = IF hit THEN Cached(@, r.pgno, r.data) ELSE @,
                                       !.dbFileVers = IF hit /\ r.pgno = 1 THEN r.data.cc ELSE @])
                  /\ db' = IF writes /\ written THEN Written(db, r.pgno, r.data) ELSE db
                  /\ UNCHANGED <<dbDisk, ino, name, nameDisk, lockVars, pc, journalMode, histVars>>
             ELSE PlaybackFailed(c, P)
     /\ UNCHANGED <<crashes, powers>>

PlaybackSync(c) ==
  /\ pc[c] = "play" /\ pg[c].play = <<>>
  /\ \/ /\ dbDisk' = IF ToFile(pg[c]) THEN db ELSE dbDisk
        /\ Goto(c, "playend")
        /\ UNCHANGED <<db, ino, name, nameDisk, lockVars, pg, journalMode, histVars, boundVars>>
     \/ /\ ToFile(pg[c]) /\ Fault("playsync")
        /\ PlaybackFailed(c, pg[c])
        /\ UNCHANGED <<crashes, powers>>

\* The journal is finalized; after a hot rollback SharedLock goes on.
PlaybackEnd(c) ==
  LET P == pg[c]
      Q == FinalizedPager(c, P)
  IN /\ pc[c] = "playend"
     /\ \/ /\ EndsWith(c, P, FinalizedName(c, P), FinalizedJournal(c, P),
                       IF P.goal = "hot" THEN [Q EXCEPT !.eState = PAGER_OPEN] ELSE Q)
           /\ Goto(c, IF P.goal = "hot" THEN "validate" ELSE "idle")
           /\ UNCHANGED <<db, dbDisk, journalMode, histVars, boundVars>>
        \/ /\ Fault("finalize")
           /\ IF P.goal = "hot" THEN PlaybackFailed(c, P)
              ELSE /\ Unfinalized(c, P)
                   /\ Goto(c, "idle")
                   /\ UNCHANGED <<db, dbDisk, journalMode, histVars>>
           /\ UNCHANGED <<crashes, powers>>

-----------------------------------------------------------------------------
(***************************************************************************)
(* Reading and writing.                                                    *)
(***************************************************************************)
Idle(c, states) == pc[c] = "idle" /\ pg[c].eState \in states

\* Acquire of a page that is not in the cache.
Acquire(c, p) ==
  /\ Idle(c, PAGER_READER..PAGER_WRITER_DBMOD)
  /\ p <= pg[c].dbSize /\ p \notin DOMAIN pg[c].cache
  /\ SetPg(c, [pg[c] EXCEPT !.cache = Cached(@, p, readDbPage(p))])
  /\ UNCHANGED <<diskVars, lockVars, pc, journalMode, histVars, boundVars>>

\* The page cache recycles a clean page; page 1 is in use.
Evict(c, p) ==
  /\ Idle(c, PAGER_READER..PAGER_WRITER_DBMOD)
  /\ p \in DOMAIN pg[c].cache \ (pg[c].dirty \cup {1})
  /\ SetPg(c, [pg[c] EXCEPT !.cache = Restrict(@, DOMAIN @ \ {p})])
  /\ UNCHANGED <<diskVars, lockVars, pc, journalMode, histVars, boundVars>>

sqlite3PagerBegin(c) ==
  /\ Idle(c, {PAGER_READER}) /\ txn < MaxTxn
  /\ CanReserve(c)
  /\ SetLock(c, RESERVED_LOCK)
  /\ SetPg(c, [pg[c] EXCEPT !.eState = PAGER_WRITER_LOCKED, !.dbFileSize = pg[c].dbSize,
                            !.dbOrigSize = pg[c].dbSize, !.journalOff = 0])
  /\ txn' = txn + 1
  /\ UNCHANGED <<diskVars, pc, journalMode, committed, undo, boundVars>>

\* The transaction's journal, opened if this is its first write.
WriterJournal(P) ==
  IF P.eState = PAGER_WRITER_LOCKED THEN pager_open_journal(P)
  ELSE [p |-> P, j |-> ino[P.jfd], n |-> name]

\* DbPage.Write and the caller's change to page p, which is in the cache, or is
\* new and zero.  Further changes of a dirty page go into the same write.  A
\* failure leaves the page as it was, and the caller rolls back.
DbPageWrite(c, p) ==
  LET P == pg[c]
      o == WriterJournal(P)
      old == IF p \in DOMAIN P.cache THEN P.cache[p] ELSE ZeroPage
      r == JournalPage(o.p, o.j, p, old)
      new == [old EXCEPT !.w = IF @ = 2 * txn THEN 2 * txn + 1 ELSE 2 * txn]
  IN /\ Idle(c, PAGER_WRITER_LOCKED..PAGER_WRITER_DBMOD)
     /\ p \in DOMAIN P.cache \ P.dirty \/ p = P.dbSize + 1
     /\ \/ /\ SetPg(c, [r.p EXCEPT !.cache = Cached(@, p, new)])
           /\ ino' = [ino EXCEPT ![o.p.jfd] = r.j]
           /\ name' = o.n
           /\ UNCHANGED <<pc, boundVars>>
        \/ \* the first header is not written
           /\ P.eState = PAGER_WRITER_LOCKED /\ Fault("journal")
           /\ SetPg(c, [P EXCEPT !.jfd = o.p.jfd, !.dirSync = o.p.dirSync, !.journalOff = 1])
           /\ name' = o.n
           /\ Goto(c, "rollback")
           /\ UNCHANGED <<ino, crashes, powers>>
        \/ \* the record is not written
           /\ P.eState # PAGER_WRITER_LOCKED /\ r.j # o.j /\ Fault("journal")
           /\ SetPg(c, [P EXCEPT !.dirty = @ \cup {p}, !.needSync = @ \cup {p}])
           /\ Goto(c, "rollback")
           /\ UNCHANGED <<ino, name, crashes, powers>>
     /\ UNCHANGED <<db, dbDisk, nameDisk, lockVars, journalMode, histVars>>

\* pagerStress: the page cache wants dirty page p written out.
pagerStress(c, p) ==
  LET P == pg[c]
  IN /\ Idle(c, PAGER_WRITER_CACHEMOD..PAGER_WRITER_DBMOD)
     /\ p \in P.dirty \ {1}
     /\ SetPg(c, [P EXCEPT !.todo = {p}, !.goal = "spill"])
     /\ Goto(c, IF p \in P.needSync \/ P.eState = PAGER_WRITER_CACHEMOD THEN "exclusive" ELSE "write")
     /\ UNCHANGED <<diskVars, lockVars, journalMode, histVars, boundVars>>

-----------------------------------------------------------------------------
(***************************************************************************)
(* Commit: sqlite3PagerCommitPhaseOne, syncJournal, pager_write_pagelist,  *)
(* sqlite3PagerCommitPhaseTwo.                                             *)
(***************************************************************************)
\* pager_incr_changecounter, once in a transaction.
pager_incr_changecounter(P, j) ==
  LET r == JournalPage(P, j, 1, P.cache[1])
  IN IF P.changeCountDone \/ P.dbSize = 0 THEN [p |-> P, j |-> j]
     ELSE [p |-> [r.p EXCEPT !.cache[1].cc = P.dbFileVers + 1, !.changeCountDone = TRUE], j |-> r.j]

\* The pages that a smaller image of n pages discards are journalled.
JournalDiscarded(P, j, n) ==
  LET r == JournalPages(P, j, ((n + 1)..P.dbOrigSize) \ P.inJournal)
  IN [p |-> [r.p EXCEPT !.dbSize = n], j |-> r.j]

\* Up to the lock of syncJournal.  Auto-vacuum may first cut the image to n pages
\* (sqlite3PagerTruncateImage).  A transaction that changed nothing has nothing to do.
sqlite3PagerCommitPhaseOne(c, n) ==
  LET P == [pg[c] EXCEPT !.dbSize = n, !.goal = "commit"]
      a == pager_incr_changecounter(P, ino[P.jfd])
      b == JournalDiscarded(a.p, a.j, n)
  IN /\ Idle(c, PAGER_WRITER_LOCKED..PAGER_WRITER_DBMOD)
     /\ n = pg[c].dbSize \/ (Shrink /\ pg[c].eState # PAGER_WRITER_LOCKED /\ n \in 1..pg[c].dbSize)
     /\ \/ /\ P.eState = PAGER_WRITER_LOCKED
           /\ Goto(c, "end")
           /\ UNCHANGED <<ino, pg, boundVars>>
        \/ /\ P.eState # PAGER_WRITER_LOCKED
           /\ SetPg(c, b.p)
           /\ ino' = [ino EXCEPT ![P.jfd] = b.j]
           /\ Goto(c, "exclusive")
           /\ UNCHANGED boundVars
        \/ /\ P.eState # PAGER_WRITER_LOCKED /\ b.j # ino[P.jfd] /\ Fault("journal")
           /\ SetPg(c, [P EXCEPT !.goal = "none"])
           /\ Goto(c, "rollback")
           /\ UNCHANGED <<ino, crashes, powers>>
     /\ UNCHANGED <<db, dbDisk, name, nameDisk, lockVars, journalMode, histVars>>

\* An I/O error: pagerStress enters the ERROR state, a failed commit is rolled back.
WriterFailed(c) ==
  /\ SetPg(c, [pg[c] EXCEPT !.goal = "none", !.todo = {},
                            !.eState = IF pg[c].goal = "spill" THEN PAGER_ERROR ELSE @])
  /\ Goto(c, IF pg[c].goal = "spill" THEN "idle" ELSE "rollback")
  /\ UNCHANGED <<lockVars, journalMode, histVars, crashes, powers>>

\* sqlite3PagerExclusiveLock.  When busy the caller may try again; PENDING
\* is kept.
sqlite3PagerExclusiveLock(c) ==
  /\ pc[c] = "exclusive"
  /\ \/ /\ CanExclude(c)
        /\ SetLock(c, EXCLUSIVE_LOCK)
        /\ Goto(c, "sync")
        /\ UNCHANGED pg
     \/ /\ ~CanExclude(c)
        /\ SetLock(c, IF CanPend(c) THEN PENDING_LOCK ELSE lock[c])
        /\ SetPg(c, [pg[c] EXCEPT !.goal = "none", !.todo = {}])
        /\ Goto(c, "idle")
  /\ UNCHANGED <<diskVars, journalMode, histVars, boundVars>>

\* Mutant: the directory is not synced.
JournalSyncNoDir(P, j) == nameDisk' = nameDisk /\ ino' = Reaped([ino EXCEPT ![P.jfd] = j], name, nameDisk, pg)

\* unixSync of the open journal, which then is j; the first one after the file
\* was created syncs the directory as well.
JournalSync(P, j) ==
  LET nd == IF P.dirSync THEN name ELSE nameDisk
  IN /\ nameDisk' = nd
     /\ ino' = Reaped([ino EXCEPT ![P.jfd] = j], name, nd, pg)

\* Mutant: a header that an older journal left behind ours stays.
NextHdrLeft(P) == ino[P.jfd]

\* syncJournal: a header that an older journal left behind ours is unmade; with
\* full sync the records are synced before the header counts them.
ClearNextHdr(P) ==
  LET j == ino[P.jfd]
      i == P.journalOff + 1
  IN IF HasMagic(j.os, i) THEN PutSlot(j, i, [j.os[i] EXCEPT !.magic = FALSE]) ELSE j

SyncRecords(c) ==
  LET P == pg[c]
  IN /\ pc[c] = "sync"
     /\ \/ /\ IF FullSync THEN JournalSync(P, SyncedJournal(ClearNextHdr(P))) /\ SetPg(c, [P EXCEPT !.dirSync = FALSE])
              ELSE ino' = [ino EXCEPT ![P.jfd] = ClearNextHdr(P)] /\ UNCHANGED <<nameDisk, pg>>
           /\ Goto(c, "header")
           /\ UNCHANGED <<lockVars, journalMode, histVars, boundVars>>
        \/ /\ FullSync /\ Fault("sync")
           /\ ino' = [ino EXCEPT ![P.jfd] = ClearNextHdr(P)]
           /\ WriterFailed(c)
           /\ UNCHANGED nameDisk
     /\ UNCHANGED <<db, dbDisk, name>>

WriteNRec(c) ==
  LET P == pg[c]
      i == P.journalHdr + 1
  IN /\ pc[c] = "header"
     /\ ino' = [ino EXCEPT ![P.jfd] = PutSlot(@, i, [@.os[i] EXCEPT !.magic = TRUE, !.nRec = P.nRec])]
     /\ Goto(c, "synchdr")
     /\ UNCHANGED <<db, dbDisk, name, nameDisk, lockVars, pg, journalMode, histVars, boundVars>>

\* The second sync; after it the pages may go to the file.  A spill opens a
\* new header.
SyncHeader(c) ==
  LET P == [pg[c] EXCEPT !.journalHdr = pg[c].journalOff, !.hdrOpen = FALSE, !.needSync = {},
                         !.eState = PAGER_WRITER_DBMOD, !.dirSync = FALSE]
      j == SyncedJournal(ino[P.jfd])
      h == IF P.goal = "spill" THEN writeJournalHdr(P, j) ELSE [p |-> P, j |-> j]
  IN /\ pc[c] = "synchdr"
     /\ \/ /\ JournalSync(pg[c], h.j)
           /\ SetPg(c, IF P.goal = "spill" THEN h.p ELSE [h.p EXCEPT !.todo = P.dirty])
           /\ Goto(c, "write")
           /\ UNCHANGED <<lockVars, journalMode, histVars, boundVars>>
        \/ /\ Fault("sync")
           /\ WriterFailed(c)
           /\ UNCHANGED <<ino, nameDisk>>
     /\ UNCHANGED <<db, dbDisk, name>>

\* pager_write_pagelist, a page at a time; pages beyond the image are skipped.
\* A failed write may tear the page.
WritePage(c) ==
  LET P == pg[c]
      p == Min(P.todo)
      v == IF p = 1 THEN [P.cache[1] EXCEPT !.cc = P.dbFileVers + 1] ELSE P.cache[p]
  IN /\ pc[c] = "write" /\ P.todo # {}
     /\ \/ /\ db' = IF p <= P.dbSize THEN Written(db, p, v) ELSE db
           /\ SetPg(c, [P EXCEPT !.todo = @ \ {p}, !.cache[p] = v,
                                 !.dbFileVers = IF p = 1 THEN v.cc ELSE @,
                                 !.dbFileSize = IF p <= P.dbSize THEN Max({@, p}) ELSE @,
                                 !.dirty = IF P.goal = "spill" THEN @ \ {p} ELSE @,
                                 !.goal = IF P.goal = "spill" THEN "none" ELSE @])
           /\ Goto(c, IF P.goal = "spill" THEN "idle" ELSE "write")
           /\ UNCHANGED <<lockVars, journalMode, histVars, boundVars>>
        \/ /\ p <= P.dbSize /\ Fault("write")
           /\ db' \in {db, Written(db, p, TornPage)}
           /\ WriterFailed(c)
     /\ UNCHANGED <<dbDisk, ino, name, nameDisk>>

\* The cache is clean; the file is cut if the image is smaller.
CommitTruncate(c) ==
  /\ pc[c] = "write" /\ pg[c].todo = {}
  /\ SetPg(c, [pg[c] EXCEPT !.dirty = {}, !.dbFileSize = pg[c].dbSize])
  /\ db' = IF pg[c].dbSize # pg[c].dbFileSize THEN Resized(db, pg[c].dbSize) ELSE db
  /\ Goto(c, "dbsync")
  /\ UNCHANGED <<dbDisk, ino, name, nameDisk, lockVars, journalMode, histVars, boundVars>>

CommitSync(c) ==
  /\ pc[c] = "dbsync"
  /\ \/ /\ dbDisk' = db
        /\ SetPg(c, [pg[c] EXCEPT !.eState = PAGER_WRITER_FINISHED])
        /\ Goto(c, "end")
        /\ UNCHANGED <<lockVars, journalMode, histVars, boundVars>>
     \/ /\ Fault("dbsync")
        /\ WriterFailed(c)
        /\ UNCHANGED dbDisk
  /\ UNCHANGED <<db, ino, name, nameDisk>>

\* The transaction is committed when its journal is finalized; when that fails the
\* pager enters the ERROR state.
sqlite3PagerCommitPhaseTwo(c) ==
  LET P == pg[c]
  IN /\ pc[c] = "end"
     /\ \/ /\ pager_end_transaction(c, P)
           /\ committed' = View(c)
           /\ undo' = UndoneBy(c, P, FinalizedJournal(c, P))
           /\ UNCHANGED boundVars
        \/ /\ P.journalOff > 0 /\ Fault("finalize")
           /\ Unfinalized(c, P)
           /\ UNCHANGED <<committed, undo, crashes, powers>>
     /\ Goto(c, "idle")
     /\ UNCHANGED <<db, dbDisk, journalMode, txn>>

\* sqlite3PagerRollback, on request or because a call failed; "end" when another
\* file of the transaction could not be committed.
sqlite3PagerRollback(c) ==
  LET P == pg[c]
  IN /\ pc[c] \in {"idle", "rollback", "end"}
     /\ P.eState \in PAGER_WRITER_LOCKED..PAGER_WRITER_FINISHED
     /\ \/ /\ P.eState = PAGER_WRITER_LOCKED
           /\ pager_end_transaction(c, P)
           /\ Goto(c, "idle")
           /\ UNCHANGED <<db, boundVars>>
        \/ /\ P.eState = PAGER_WRITER_LOCKED /\ P.journalOff > 0 /\ Fault("finalize")
           /\ Unfinalized(c, P)
           /\ Goto(c, "idle")
           /\ UNCHANGED <<db, crashes, powers>>
        \/ /\ P.eState # PAGER_WRITER_LOCKED
           /\ StartPlayback(c, P, FALSE, ToFile(P))
           /\ UNCHANGED <<ino, name, nameDisk, lockVars, boundVars>>
     /\ UNCHANGED <<dbDisk, journalMode, histVars>>

\* The end of a read transaction, or of the ERROR state.
Unlock(c) ==
  /\ Idle(c, {PAGER_READER, PAGER_ERROR})
  /\ pager_unlock(c, pg[c])
  /\ UNCHANGED boundVars

-----------------------------------------------------------------------------
(***************************************************************************)
(* Crashes.                                                                *)
(***************************************************************************)
\* A process dies; the operating system drops its locks.
Crash(c) ==
  LET Q == [pg EXCEPT ![c] = FreshPager]
  IN /\ crashes < MaxCrash /\ (pc[c] # "idle" \/ pg[c] # FreshPager)
     /\ pg' = Q
     /\ ino' = Reaped(ino, name, nameDisk, Q)
     /\ SetLock(c, NO_LOCK)
     /\ Goto(c, "idle")
     /\ crashes' = crashes + 1
     /\ UNCHANGED <<db, dbDisk, name, nameDisk, journalMode, histVars, powers, faults>>

\* What a power failure leaves of an unsynced page or slot: the old, the new,
\* or a mixture.  A header fits a sector and is not torn.
Torn(s) == IF s.k = "rec" THEN {[s EXCEPT !.data = TornPage, !.torn = TRUE]} ELSE {}
SlotAfter(old, new) == IF old = new THEN {old} ELSE {old, new} \cup Torn(new)
PageAfter(old, new) == IF old = new THEN {old} ELSE {old, new, TornPage}

At(q, i, none) == IF i <= Len(q) THEN q[i] ELSE none
Between(m, n) == Min({m, n})..Max({m, n})

\* The sequences of n elements with an element of S(i) at i.
SeqsOf(S(_), n) ==
  LET F[m \in 0..n] == IF m = 0 THEN {<<>>} ELSE {Append(f, e) : f \in F[m - 1], e \in S(m)}
  IN F[n]

\* The files after a power failure: some subset of the unsynced writes.
FilesFrom(disk, os) ==
  UNION {SeqsOf(LAMBDA i : SlotAfter(At(disk, i, ZeroSlot), At(os, i, ZeroSlot)), n) :
         n \in Between(Len(disk), Len(os))}
JournalsAfter(j) == IF j.cut THEN {j.disk} \cup FilesFrom(<<>>, j.os) ELSE FilesFrom(j.disk, j.os)

DbsAfter ==
  UNION {SeqsOf(LAMBDA p : PageAfter(At(dbDisk, p, ZeroPage), At(db, p, At(dbDisk, p, ZeroPage))), n) :
         n \in {Len(dbDisk), Len(db)}}

\* The journal that survives may be one that was finalized: then its transaction
\* is undone.
PowerLoss ==
  /\ powers < MaxPower /\ \E c \in Conns : pg[c] # FreshPager
  /\ db' \in DbsAfter /\ dbDisk' = db'
  /\ \E nm \in {name, nameDisk} : \E k \in IF nm = 0 THEN {<<>>} ELSE JournalsAfter(ino[nm]) :
       /\ name' = nm /\ nameDisk' = nm
       /\ ino' = [i \in Inodes |-> IF i = nm THEN [os |-> k, disk |-> k, cut |-> FALSE] ELSE NoJournal]
       /\ committed' = IF HasMagic(k, 1) /\ k[1].cksumInit[1] = undo.t THEN undo.img ELSE committed
  /\ lock' = [c \in Conns |-> NO_LOCK] /\ resv' = {}
  /\ pg' = [c \in Conns |-> FreshPager] /\ pc' = [c \in Conns |-> "idle"]
  /\ powers' = powers + 1
  /\ UNCHANGED <<journalMode, txn, undo, crashes, faults>>

-----------------------------------------------------------------------------
Init ==
  /\ db \in {[p \in 1..n |-> [w |-> 1, cc |-> IF p = 1 THEN 1 ELSE 0]] : n \in InitSizes}
  /\ dbDisk = db
  /\ ino = [i \in Inodes |-> NoJournal] /\ name = 0 /\ nameDisk = 0
  /\ lock = [c \in Conns |-> NO_LOCK] /\ resv = {}
  /\ pg = [c \in Conns |-> FreshPager] /\ pc = [c \in Conns |-> "idle"]
  /\ journalMode \in JournalModes
  /\ txn = 0 /\ committed = db
  /\ undo = [t |-> 0, img |-> db, mode |-> "none"]
  /\ crashes = 0 /\ powers = 0 /\ faults = 0

Read(c) ==
  \/ SharedLock(c) \/ HotExists(c) \/ HotReserved(c) \/ HotFirstByte(c)
  \/ HotLock(c) \/ HotOpen(c) \/ Validate(c) \/ Unlock(c)
  \/ \E p \in Pages : Acquire(c, p) \/ Evict(c, p)

Rollback(c) ==
  sqlite3PagerRollback(c) \/ pager_playback_one_page(c) \/ PlaybackSync(c) \/ PlaybackEnd(c)

Commit(c) ==
  \/ \E n \in 0..MaxPage : sqlite3PagerCommitPhaseOne(c, n)
  \/ sqlite3PagerExclusiveLock(c) \/ SyncRecords(c) \/ WriteNRec(c) \/ SyncHeader(c)
  \/ WritePage(c) \/ CommitTruncate(c) \/ CommitSync(c) \/ sqlite3PagerCommitPhaseTwo(c)

Update(c) ==
  sqlite3PagerBegin(c) \/ \E p \in Pages : DbPageWrite(c, p) \/ pagerStress(c, p)

Next ==
  \/ \E c \in Conns : Read(c) \/ Update(c) \/ Commit(c) \/ Rollback(c) \/ Crash(c)
  \/ PowerLoss

Spec == Init /\ [][Next]_vars

-----------------------------------------------------------------------------
(***************************************************************************)
(* Properties.                                                             *)
(***************************************************************************)
\* Each pager's fields have the types the code gives them, and it holds what
\* its eState promises (the state descriptions at the head of pager.go): a writer
\* RESERVED, a writer of the file EXCLUSIVE, a clean pager no dirty page.
TypeOK ==
  \A c \in Conns :
    LET P == pg[c]
    IN /\ P.eState \in PAGER_OPEN..PAGER_ERROR /\ lock[c] \in NO_LOCK..EXCLUSIVE_LOCK
       /\ P.jfd \in Inodes \cup {0} /\ DOMAIN P.cache \subseteq Pages
       /\ P.dirty \subseteq DOMAIN P.cache /\ P.needSync \subseteq P.dirty
       /\ P.dirty # {} => P.eState >= PAGER_WRITER_CACHEMOD \/ pc[c] = "rollback"
       /\ P.eState = PAGER_OPEN => lock[c] = NO_LOCK \/ pc[c] # "idle"
       /\ P.eState \in PAGER_WRITER_LOCKED..PAGER_WRITER_FINISHED => c \in resv
       /\ P.eState \in PAGER_WRITER_DBMOD..PAGER_WRITER_FINISHED => lock[c] = EXCLUSIVE_LOCK

\* A connection in a read transaction sees the image that was committed last,
\* whole: its cache and the file have the pages of one transaction, whatever
\* other processes wrote, rolled back or left undone before.
ReadsCommitted ==
  \A c \in Conns : Idle(c, {PAGER_READER, PAGER_WRITER_LOCKED}) => View(c) = committed

\* The file that hasHotJournal and pager_playback would make of file d and
\* journal j if every process were dead.
Recovered(d, j) ==
  LET r == Playback(j, TRUE, -1)
      Apply[n \in 0..Len(r.recs)] ==
        IF n = 0 THEN Resized(d, r.mxPg)
        ELSE Written(Apply[n - 1], j[r.recs[n]].pgno, j[r.recs[n]].data)
  IN IF Len(d) > 0 /\ HasMagic(j, 1) THEN Apply[Len(r.recs)] ELSE d

\* At every moment, inside a commit, a spill or a rollback too, the database file
\* and the journal beside it hold the image that was committed last: the journal
\* has every page that the file has lost, and no other transaction's
\* (requirements 1, 2 and 7 at the head of pager.go).
Recoverable == Recovered(db, IF name = 0 THEN <<>> ELSE ino[name].os) = committed

\* The same of what is synced, unless the journal on disk is still the one of
\* the last commit, which it then undoes: the pager syncs a page to the journal
\* before it writes the file, and the file before it gives up the journal
\* (requirements 5 and 7).
DiskRecoverable ==
  LET j == IF nameDisk = 0 THEN <<>> ELSE ino[nameDisk].disk
  IN Recovered(dbDisk, j) = IF HasMagic(j, 1) /\ j[1].cksumInit[1] = undo.t THEN undo.img ELSE committed

\* While a connection reads there is no hot journal in the file system
\* (the READER state at the head of pager.go).
NoHotJournal ==
  (\E c \in Conns : Idle(c, {PAGER_READER, PAGER_WRITER_LOCKED}))
    => name = 0 \/ Len(db) = 0 \/ ~HasMagic(ino[name].os, 1)

\* A power failure never undoes a transaction that a connection in PERSIST mode
\* has committed (pager_end_transaction).
Durable ==
  [][powers' # powers /\ committed' # committed => undo.mode # "PERSIST"]_vars

\* The file can be recovered at every moment, and nothing is left to recover while
\* a connection reads.
FileRecoverable == TypeOK /\ Recoverable /\ NoHotJournal
=============================================================================
