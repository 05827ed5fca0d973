-------------------------------- MODULE Wal --------------------------------
(***************************************************************************)
(* The write-ahead log of wal.go: connections of several processes that    *)
(* read, append to, restart, checkpoint and recover one WAL through the    *)
(* shared wal-index.                                                       *)
(*                                                                         *)
(* A step is one access to shared memory, one lock call or one page of     *)
(* I/O.  The two copies of the wal-index header are written [1] then [0]   *)
(* and read [0] then [1], without any lock.  The wal-index locks are those *)
(* of unixShmLock, held per connection.  Page contents are abstracted to   *)
(* the frame they were written in: <<salt, frame number>>.                 *)
(***************************************************************************)
EXTENDS Integers, Sequences, FiniteSets, FiniteSetsExt

CONSTANTS Conns,       \* connections, each in a process of its own
          Readers, Writers, Checkpointers, Spillers, Faulty,
                       \* those that read, write, checkpoint, spill and roll back,
                       \* and those whose I/O may fail
          Pages,       \* database pages
          Lists,       \* the lists of pages that calls of WriteFrames write
          NReader,     \* WAL_NREADER: read-mark slots, 5 in the code
          MaxFrame,    \* bound on the frames of one generation of the log
          MaxGen,      \* bound on the generations (salt values) of the log
          MaxRetry,    \* WAL_RETRYs before SQLITE_PROTOCOL, 100 in the code
          Modes,       \* checkpoint modes requested
          Crashes      \* bound on process crashes

ASSUME NReaderAssumption == NReader \in Nat /\ NReader > 1
ASSUME BoundsAssumption == {MaxFrame, MaxGen, MaxRetry, Crashes} \subseteq Nat
ASSUME RolesAssumption ==
  /\ Readers \cup Writers \cup Checkpointers \cup Spillers \cup Faulty \subseteq Conns
  /\ Spillers \subseteq Writers /\ Writers \subseteq Readers
ASSUME PagesAssumption == Pages \subseteq Nat \ {0}
ASSUME ListsAssumption == Lists \subseteq Seq(Pages) \ {<<>>}
ASSUME ModesAssumption == Modes \subseteq {"passive", "full", "restart"}

WAL_WRITE_LOCK == 0
WAL_CKPT_LOCK == 1
WAL_RECOVER_LOCK == 2
WAL_READ_LOCK(i) == 3 + i
LockIds == 0..(2 + NReader)
Slots == 1..(NReader - 1)
ReadLocks == {WAL_READ_LOCK(i) : i \in Slots}

\* 0xffffffff in the code: larger than every frame number.
READMARK_NOT_USED == MaxFrame + 1

\* WalIndexHdr.  aFrameCksum is the running checksum of the frames written
\* since the WAL header, abstracted to the sequence it was computed over.
ZeroHdr == [isInit |-> FALSE, aSalt |-> 0, mxFrame |-> 0, iChange |-> 0, aFrameCksum |-> <<>>]
NoFrame == [salt |-> 0, page |-> 0, commit |-> FALSE, cksum |-> <<>>]
NoSavepoint == [mxFrame |-> 0, aFrameCksum |-> <<>>, nCkpt |-> -1]

NoCache == <<-1, 0>>

\* Local variables of the calls in progress.
NoLocals == [op |-> "none", h1 |-> ZeroHdr, cnt |-> 0, i |-> 0, mxI |-> 0,
             mark |-> 0, mode |-> "passive", isChanged |-> FALSE,
             mxSafeFrame |-> 0, todo |-> {}, list |-> <<>>]

VARIABLES aHdr,        \* the two header copies in shared memory
          nBackfill,   \* WalCkptInfo.nBackfill
          aReadMark,   \* WalCkptInfo.aReadMark
          aPageNumber, \* the page of each frame, as the wal-index has it
          walHdr,      \* header of the WAL file: salt and nCkpt
          walFile,     \* frames of the WAL file, by slot
          db,          \* the frame each page of the database file comes from
          shared, excl,\* holders of the wal-index locks
          pc, hdr, readLock, nCkpt, savepoint, loc,  \* per connection
          opened,      \* connections whose pager has opened the WAL (the ones that only
                       \* checkpoint had done so before)
          cache,       \* the snapshot the pager's cached pages belong to
          salts,       \* salt values used so far
          log,         \* history: the pages committed under each salt
          overtaken,   \* history: a checkpoint that had read its header, and not
                       \* yet nBackfill, has seen the log restarted; or the
                       \* restarting process died before it reset nBackfill
          crashes      \* process crashes so far

shmVars == <<aHdr, nBackfill, aReadMark, aPageNumber>>
fileVars == <<walHdr, walFile, db>>
lockVars == <<shared, excl>>
histVars == <<opened, salts, log, overtaken, crashes>>
vars == <<shmVars, fileVars, lockVars, pc, hdr, readLock, nCkpt, savepoint, loc, cache, histVars>>

-----------------------------------------------------------------------------
(***************************************************************************)
(* Locks, headers and the wal-index.                                       *)
(***************************************************************************)
writeLock(c) == c \in excl[WAL_WRITE_LOCK]
ckptLock(c) == c \in excl[WAL_CKPT_LOCK]

\* unixShmLock refuses what any connection holds, the caller included.
CanShare(l) == excl[l] = {}
CanExclude(ls) == \A l \in ls : shared[l] \cup excl[l] = {}

WithShared(c, l) == [shared EXCEPT ![l] = @ \cup {c}]
WithoutShared(c, l) == [shared EXCEPT ![l] = @ \ {c}]
WithExcl(c, ls) == [l \in LockIds |-> IF l \in ls THEN excl[l] \cup {c} ELSE excl[l]]
WithoutExcl(c, ls) == [l \in LockIds |-> IF l \in ls THEN excl[l] \ {c} ELSE excl[l]]

Goto(c, label) == pc' = [pc EXCEPT ![c] = label]
SetLoc(c, r) == loc' = [loc EXCEPT ![c] = r]
SetHdr(c, h) == hdr' = [hdr EXCEPT ![c] = h]

\* Sequence s is a beginning of t.
StartOf(s, t) == Len(s) <= Len(t) /\ s = SubSeq(t, 1, Len(s))

\* One half of walIndexWriteHdr: copy k of the header.
WriteHdrCopy(c, k) == aHdr' = [aHdr EXCEPT ![k] = [hdr[c] EXCEPT !.isInit = TRUE]]

\* The test of walIndexTryHdr on two copies read from shared memory.
HdrOk(h1, h2) == h1 = h2 /\ h1.isInit

\* Mutant: the entry of frame mx itself is forgotten too.
CleanedM(index, mx) ==
  IF mx = 0 THEN index ELSE [f \in 1..MaxFrame |-> IF f < mx THEN index[f] ELSE 0]

\* walCleanupHash: forget the entries beyond frame mx, except that nothing is
\* done when mx is 0.
Cleaned(index, mx) ==
  IF mx = 0 THEN index ELSE [f \in 1..MaxFrame |-> IF f <= mx THEN index[f] ELSE 0]

\* walIndexAppend for the pages of list, the first of them at frame base + 1:
\* the table is zeroed for its first entry, and remnants of a writer that died
\* are removed when the entry is found in use.
Appended(index, base, list) ==
  LET clean == CASE base = 0 -> [f \in 1..MaxFrame |-> 0]
                 [] base > 0 /\ index[base + 1] # 0 -> Cleaned(index, base)
                 [] OTHER -> index
  IN  [f \in 1..MaxFrame |->
         IF f - base \in DOMAIN list THEN list[f - base] ELSE clean[f]]

\* The search of sqlite3WalRead: the newest frame up to mx that holds page p.
walRead(index, mx, p) == Max({0} \cup {f \in 1..mx : index[f] = p})

-----------------------------------------------------------------------------
(***************************************************************************)
(* walIndexReadHdr, for a reader (op = "read") or a checkpoint ("ckpt").   *)
(***************************************************************************)
AfterHdr(c) == IF loc[c].op = "read" THEN "choose" ELSE "ckptStart"

\* walIndexTryHdr, first copy.
ReadHdr0(c) ==
  /\ pc[c] = "hdr0"
  /\ SetLoc(c, [loc[c] EXCEPT !.h1 = aHdr[0]])
  /\ Goto(c, "hdr1")
  /\ UNCHANGED <<shmVars, fileVars, lockVars, hdr, readLock, nCkpt, savepoint, cache, histVars>>

\* walIndexTryHdr, second copy: the header is taken over if both agree.
ReadHdr1(c) ==
  /\ pc[c] = "hdr1"
  /\ IF HdrOk(loc[c].h1, aHdr[1])
       THEN /\ SetHdr(c, aHdr[1])
            /\ SetLoc(c, [loc[c] EXCEPT !.h1 = ZeroHdr,
                                        !.isChanged = @ \/ hdr[c] # aHdr[1]])
            /\ Goto(c, AfterHdr(c))
       ELSE /\ SetLoc(c, [loc[c] EXCEPT !.h1 = ZeroHdr])
            /\ Goto(c, "badHdr")
            /\ UNCHANGED hdr
  /\ UNCHANGED <<shmVars, fileVars, lockVars, readLock, nCkpt, savepoint, cache, histVars>>

\* A failed attempt that may be repeated (WAL_RETRY), until there have been
\* too many (SQLITE_PROTOCOL).  A writer that fails inside walRestartLog ends
\* its transaction.
Retry(c, start, isChanged) ==
  IF loc[c].cnt < MaxRetry
    THEN /\ SetLoc(c, [NoLocals EXCEPT !.op = loc[c].op, !.cnt = loc[c].cnt + 1,
                                       !.isChanged = isChanged])
         /\ Goto(c, start)
         /\ UNCHANGED <<excl, savepoint, cache>>
    ELSE /\ SetLoc(c, NoLocals)
         /\ Goto(c, "idle")
         /\ excl' = WithoutExcl(c, {WAL_WRITE_LOCK})
         /\ savepoint' = [savepoint EXCEPT ![c] = NoSavepoint]
         /\ cache' = [cache EXCEPT ![c] = NoCache]

\* The end of Checkpoint: the locks it still holds are released.  The cached
\* header is forgotten if the checkpoint has loaded it: the pager's cache is
\* older.
CkptEnd(c, isChanged) ==
  /\ SetHdr(c, IF isChanged THEN ZeroHdr ELSE hdr[c])
  /\ excl' = WithoutExcl(c, LockIds)
  /\ SetLoc(c, NoLocals)
  /\ Goto(c, "idle")

\* SQLITE_BUSY from walIndexReadHdr: a reader retries unless a recovery is
\* running; a checkpoint gives up.
HdrBusy(c, isChanged) ==
  /\ \/ /\ loc[c].op = "read"
        /\ UNCHANGED hdr
        /\ IF CanShare(WAL_RECOVER_LOCK)
             THEN Retry(c, "hdr0", isChanged)
             ELSE /\ SetLoc(c, NoLocals)
                  /\ Goto(c, "idle")
                  /\ cache' = [cache EXCEPT ![c] = NoCache]
                  /\ UNCHANGED <<excl, savepoint>>
     \/ /\ loc[c].op = "ckpt"
        /\ CkptEnd(c, isChanged)
        /\ UNCHANGED <<savepoint, cache>>
  /\ UNCHANGED <<shmVars, fileVars, shared, readLock, nCkpt, histVars>>

\* The frames a recovery accepts: their salt is that of the WAL header and
\* their checksums continue it.
ValidFrames ==
  Max({n \in 0..MaxFrame : \A k \in 1..n :
        /\ walFile[k] # NoFrame
        /\ walFile[k].salt = walHdr.salt
        /\ walFile[k].cksum = [j \in 1..k |-> <<walFile[j].page, walFile[j].commit>>]})

\* The last commit frame among them.
RecoveredFrame == Max({0} \cup {k \in 1..ValidFrames : walFile[k].commit})

\* The locks a recovery takes: all but the write lock, and the checkpoint lock
\* if the caller is a checkpoint.
RecoveryLocks(c) == LockIds \ {WAL_WRITE_LOCK, IF ckptLock(c) THEN WAL_CKPT_LOCK ELSE WAL_WRITE_LOCK}

\* The first part of walIndexRecover, with every lock held: the WAL file is
\* read and its valid frames are entered in the wal-index.
StartRecovery(c) ==
  LET hasFrames == walFile[1] # NoFrame
      mx == RecoveredFrame
  IN  /\ excl' = WithExcl(c, LockIds)
      /\ SetHdr(c, IF ~hasFrames THEN ZeroHdr
                   ELSE [ZeroHdr EXCEPT !.aSalt = walHdr.salt, !.mxFrame = mx,
                           !.aFrameCksum = IF mx = 0 THEN <<>> ELSE walFile[mx].cksum])
      /\ nCkpt' = IF hasFrames THEN [nCkpt EXCEPT ![c] = walHdr.nCkpt] ELSE nCkpt
      /\ aPageNumber' = IF ValidFrames = 0 THEN aPageNumber
                        ELSE Appended(aPageNumber, 0, [k \in 1..ValidFrames |-> walFile[k].page])
      /\ SetLoc(c, [loc[c] EXCEPT !.isChanged = TRUE])
      /\ Goto(c, "recoverHdr1")
      /\ UNCHANGED <<aHdr, nBackfill, aReadMark, fileVars, shared, readLock, savepoint, cache, histVars>>

\* The header was bad: take the write lock and read it again; if it still is,
\* recover.  A blocking checkpoint that holds the write lock itself is refused.
RereadHdr(c) ==
  /\ pc[c] = "badHdr"
  /\ \/ ~CanExclude({WAL_WRITE_LOCK}) /\ HdrBusy(c, loc[c].isChanged)
     \/ /\ CanExclude({WAL_WRITE_LOCK})
        /\ HdrOk(aHdr[0], aHdr[1])
        /\ SetHdr(c, aHdr[0])
        /\ SetLoc(c, [loc[c] EXCEPT !.isChanged = @ \/ hdr[c] # aHdr[0]])
        /\ Goto(c, AfterHdr(c))
        /\ UNCHANGED <<shmVars, fileVars, lockVars, readLock, nCkpt, savepoint, cache, histVars>>
     \/ /\ CanExclude({WAL_WRITE_LOCK})
        /\ ~HdrOk(aHdr[0], aHdr[1])
        /\ CanExclude(RecoveryLocks(c))
        /\ StartRecovery(c)
     \/ /\ CanExclude({WAL_WRITE_LOCK})
        /\ ~HdrOk(aHdr[0], aHdr[1])
        /\ ~CanExclude(RecoveryLocks(c))
        /\ HdrBusy(c, TRUE)

\* The second part of walIndexRecover: the header, the checkpoint information,
\* and the locks.
RecoverHdr1(c) ==
  /\ pc[c] = "recoverHdr1"
  /\ WriteHdrCopy(c, 1)
  /\ SetHdr(c, [hdr[c] EXCEPT !.isInit = TRUE])
  /\ Goto(c, "recoverHdr0")
  /\ UNCHANGED <<nBackfill, aReadMark, aPageNumber, fileVars, lockVars, readLock, nCkpt, savepoint, loc, cache, histVars>>

RecoverHdr0(c) ==
  /\ pc[c] = "recoverHdr0"
  /\ WriteHdrCopy(c, 0)
  /\ Goto(c, "recoverInfo")
  /\ UNCHANGED <<nBackfill, aReadMark, aPageNumber, fileVars, lockVars, hdr, readLock, nCkpt, savepoint, loc, cache, histVars>>

RecoverInfo(c) ==
  /\ pc[c] = "recoverInfo"
  /\ nBackfill' = 0
  /\ aReadMark' = [i \in Slots |-> READMARK_NOT_USED]
  /\ excl' = WithoutExcl(c, IF loc[c].op = "ckpt" THEN LockIds \ {WAL_CKPT_LOCK} ELSE LockIds)
  /\ Goto(c, AfterHdr(c))
  /\ UNCHANGED <<aHdr, aPageNumber, fileVars, shared, hdr, readLock, nCkpt, savepoint, loc, cache, histVars>>

-----------------------------------------------------------------------------
(***************************************************************************)
(* walTryBeginRead and the read transaction.                               *)
(***************************************************************************)
\* Page p of the database after the commit that left frame m as the last one
\* of the log with salt s: the frame it was last written in.
Image(s, m, p) ==
  LET gens == {g \in 1..s : \E f \in DOMAIN log[g] : log[g][f] = p /\ (g < s \/ f <= m)}
      g == Max(gens)
  IN  IF gens = {} THEN <<0, 0>>
      ELSE <<g, walRead(log[g], IF g = s THEN m ELSE Len(log[g]), p)>>

\* A header stands for the database its commit left.
Snapshot(h) == <<h.aSalt, h.mxFrame>>

BeginRead(c) ==
  /\ c \in Readers
  /\ pc[c] = "idle"
  /\ opened' = opened \cup {c}
  /\ SetLoc(c, [NoLocals EXCEPT !.op = "read", !.cnt = 1, !.h1 = aHdr[0]])
  /\ Goto(c, "hdr1")
  /\ UNCHANGED <<shmVars, fileVars, lockVars, hdr, readLock, nCkpt, savepoint, cache, salts, log, overtaken, crashes>>

\* pagerBeginReadTransaction resets the cache if the header has changed.
Opened(c, k) ==
  /\ readLock' = [readLock EXCEPT ![c] = k]
  /\ cache' = IF loc[c].op = "read" /\ (loc[c].isChanged \/ cache[c] = NoCache)
                THEN [cache EXCEPT ![c] = Snapshot(hdr[c])]
                ELSE cache
  /\ IF loc[c].op = "read"
       THEN SetLoc(c, NoLocals) /\ Goto(c, "read")
       ELSE SetLoc(c, [NoLocals EXCEPT !.op = "write"]) /\ Goto(c, "frames")
  /\ UNCHANGED <<excl, savepoint>>

\* The WAL has been backfilled completely: try to ignore it.
ChooseLock(c) ==
  /\ pc[c] = "choose"
  /\ Goto(c, IF nBackfill = hdr[c].mxFrame THEN "share0" ELSE "pickMark")
  /\ UNCHANGED <<shmVars, fileVars, lockVars, hdr, readLock, nCkpt, savepoint, loc, cache, histVars>>

ShareIgnoreWal(c) ==
  /\ pc[c] = "share0"
  /\ IF CanShare(WAL_READ_LOCK(0))
       THEN shared' = WithShared(c, WAL_READ_LOCK(0)) /\ Goto(c, "check0")
       ELSE Goto(c, "pickMark") /\ UNCHANGED shared
  /\ UNCHANGED <<shmVars, fileVars, excl, hdr, readLock, nCkpt, savepoint, loc, cache, histVars>>

\* With READ_LOCK(0) held, the header must still be the one that was read.
CheckIgnoreWal(c) ==
  /\ pc[c] = "check0"
  /\ IF aHdr[0] = hdr[c]
       THEN Opened(c, 0) /\ UNCHANGED shared
       ELSE /\ shared' = WithoutShared(c, WAL_READ_LOCK(0))
            /\ Retry(c, "hdr0", loc[c].isChanged)
            /\ UNCHANGED readLock
  /\ UNCHANGED <<shmVars, fileVars, hdr, nCkpt, histVars>>

\* The largest read mark that does not exceed mxFrame, and its slot (0: none;
\* the last slot where several are equal).
PickMark(c) ==
  /\ pc[c] = "pickMark"
  /\ LET usable == {i \in Slots : aReadMark[i] <= hdr[c].mxFrame}
         mark == Max({0} \cup {aReadMark[i] : i \in usable})
         mxI == Max({0} \cup {i \in usable : aReadMark[i] = mark})
     IN  /\ SetLoc(c, [loc[c] EXCEPT !.mxI = mxI, !.mark = mark, !.i = 1])
         /\ Goto(c, IF mark < hdr[c].mxFrame \/ mxI = 0 THEN "claimMark" ELSE "shareMark")
  /\ UNCHANGED <<shmVars, fileVars, lockVars, hdr, readLock, nCkpt, savepoint, cache, histVars>>

\* Lock slot i exclusively, move its mark and unlock it; the first slot that
\* can be locked is taken.
ClaimMark(c) ==
  /\ pc[c] = "claimMark"
  /\ LET i == loc[c].i
         start == IF loc[c].op = "read" THEN "hdr0" ELSE "pickMark"
     IN  \/ /\ i < NReader /\ CanExclude({WAL_READ_LOCK(i)})
            /\ aReadMark' = [aReadMark EXCEPT ![i] = hdr[c].mxFrame]
            /\ SetLoc(c, [loc[c] EXCEPT !.mxI = i, !.mark = hdr[c].mxFrame])
            /\ Goto(c, "shareMark")
            /\ UNCHANGED <<excl, savepoint, cache>>
         \/ /\ i < NReader /\ ~CanExclude({WAL_READ_LOCK(i)})
            /\ SetLoc(c, [loc[c] EXCEPT !.i = i + 1])
            /\ UNCHANGED <<aReadMark, pc, excl, savepoint, cache>>
         \/ /\ i = NReader /\ loc[c].mxI = 0
            /\ Retry(c, start, loc[c].isChanged)
            /\ UNCHANGED aReadMark
         \/ /\ i = NReader /\ loc[c].mxI > 0
            /\ Goto(c, "shareMark")
            /\ UNCHANGED <<aReadMark, loc, excl, savepoint, cache>>
  /\ UNCHANGED <<aHdr, nBackfill, aPageNumber, fileVars, shared, hdr, readLock, nCkpt, histVars>>

ShareMark(c) ==
  /\ pc[c] = "shareMark"
  /\ LET l == WAL_READ_LOCK(loc[c].mxI)
     IN  IF CanShare(l)
           THEN /\ shared' = WithShared(c, l)
                /\ Goto(c, "checkMark")
                /\ UNCHANGED <<loc, excl, savepoint, cache>>
           ELSE /\ Retry(c, IF loc[c].op = "read" THEN "hdr0" ELSE "pickMark", loc[c].isChanged)
                /\ UNCHANGED shared
  /\ UNCHANGED <<shmVars, fileVars, hdr, readLock, nCkpt, histVars>>

\* With the slot locked, neither the mark nor the header may have changed.
CheckMark(c) ==
  /\ pc[c] = "checkMark"
  /\ IF aReadMark[loc[c].mxI] = loc[c].mark /\ aHdr[0] = hdr[c]
       THEN Opened(c, loc[c].mxI) /\ UNCHANGED shared
       ELSE /\ shared' = WithoutShared(c, WAL_READ_LOCK(loc[c].mxI))
            /\ Retry(c, IF loc[c].op = "read" THEN "hdr0" ELSE "pickMark", loc[c].isChanged)
            /\ UNCHANGED readLock
  /\ UNCHANGED <<shmVars, fileVars, hdr, nCkpt, histVars>>

EndRead(c) ==
  /\ pc[c] = "read"
  /\ ~writeLock(c)
  /\ shared' = WithoutShared(c, WAL_READ_LOCK(readLock[c]))
  /\ readLock' = [readLock EXCEPT ![c] = -1]
  /\ Goto(c, "idle")
  /\ UNCHANGED <<shmVars, fileVars, excl, hdr, nCkpt, savepoint, loc, cache, histVars>>

-----------------------------------------------------------------------------
(***************************************************************************)
(* The write transaction.                                                  *)
(***************************************************************************)
\* A writer between calls: it holds the write lock and a read transaction.
Writing(c) == pc[c] = "read" /\ writeLock(c)

\* Mutant: a writer may start from an old snapshot.
BeginWriteM(c) ==
  /\ c \in Writers
  /\ pc[c] = "read"
  /\ CanExclude({WAL_WRITE_LOCK})
  /\ excl' = WithExcl(c, {WAL_WRITE_LOCK})
  /\ UNCHANGED <<shmVars, fileVars, shared, pc, hdr, readLock, nCkpt, savepoint, loc, cache, histVars>>

\* sqlite3WalBeginWriteTransaction: refused if the snapshot is not the latest.
BeginWrite(c) ==
  /\ c \in Writers
  /\ pc[c] = "read"
  /\ CanExclude({WAL_WRITE_LOCK})
  /\ aHdr[0] = hdr[c]
  /\ excl' = WithExcl(c, {WAL_WRITE_LOCK})
  /\ UNCHANGED <<shmVars, fileVars, shared, pc, hdr, readLock, nCkpt, savepoint, loc, cache, histVars>>

\* The bounds leave room for another frame and for the salt it may need.
HasRoom(c) ==
  /\ \/ \E l \in Lists : hdr[c].mxFrame + Len(l) <= MaxFrame
     \/ (readLock[c] = 0 /\ nBackfill > 0 /\ CanExclude(ReadLocks))
  /\ salts < MaxGen \/ (readLock[c] # 0 /\ hdr[c].mxFrame > 0)

\* Mutant: the log is restarted without locking out its readers.
RestartLogM(c) ==
  /\ Writing(c)
  /\ HasRoom(c)
  /\ IF readLock[c] # 0
       THEN /\ SetLoc(c, [NoLocals EXCEPT !.op = "write"])
            /\ Goto(c, "frames")
            /\ UNCHANGED <<lockVars, hdr, readLock, nCkpt, salts>>
       ELSE /\ nCkpt' = [nCkpt EXCEPT ![c] = @ + 1]
            /\ salts' = salts + 1
            /\ SetHdr(c, [hdr[c] EXCEPT !.mxFrame = 0, !.aSalt = salts + 1])
            /\ Goto(c, "restartHdr1")
            /\ UNCHANGED <<lockVars, readLock, loc>>
  /\ UNCHANGED <<shmVars, fileVars, savepoint, cache, log, overtaken, crashes, opened>>

\* The start of WriteFrames: walRestartLog restarts the log if this connection
\* ignores it, all of it is backfilled and nobody reads from it; a connection
\* that ignored the log must then become a reader of it.
RestartLog(c) ==
  /\ Writing(c)
  /\ HasRoom(c)
  /\ IF readLock[c] # 0
       THEN /\ SetLoc(c, [NoLocals EXCEPT !.op = "write"])
            /\ Goto(c, "frames")
            /\ UNCHANGED <<lockVars, hdr, readLock, nCkpt, salts>>
       ELSE IF nBackfill > 0 /\ CanExclude(ReadLocks)
       THEN /\ excl' = WithExcl(c, ReadLocks)
            /\ nCkpt' = [nCkpt EXCEPT ![c] = @ + 1]
            /\ salts' = salts + 1
            /\ SetHdr(c, [hdr[c] EXCEPT !.mxFrame = 0, !.aSalt = salts + 1])
            /\ Goto(c, "restartHdr1")
            /\ UNCHANGED <<shared, readLock, loc>>
       ELSE /\ shared' = WithoutShared(c, WAL_READ_LOCK(0))
            /\ readLock' = [readLock EXCEPT ![c] = -1]
            /\ SetLoc(c, [NoLocals EXCEPT !.op = "write", !.cnt = 1])
            /\ Goto(c, "pickMark")
            /\ UNCHANGED <<excl, hdr, nCkpt, salts>>
  /\ UNCHANGED <<shmVars, fileVars, savepoint, cache, log, overtaken, crashes, opened>>

RestartHdr1(c) ==
  /\ pc[c] = "restartHdr1"
  /\ WriteHdrCopy(c, 1)
  /\ Goto(c, "restartHdr0")
  /\ UNCHANGED <<nBackfill, aReadMark, aPageNumber, fileVars, lockVars, hdr, readLock, nCkpt, savepoint, loc, cache, histVars>>

RestartHdr0(c) ==
  /\ pc[c] = "restartHdr0"
  /\ WriteHdrCopy(c, 0)
  /\ Goto(c, "restartInfo")
  /\ UNCHANGED <<nBackfill, aReadMark, aPageNumber, fileVars, lockVars, hdr, readLock, nCkpt, savepoint, loc, cache, histVars>>

RestartInfo(c) ==
  /\ pc[c] = "restartInfo"
  /\ nBackfill' = 0
  /\ aReadMark' = [i \in Slots |-> READMARK_NOT_USED]
  /\ excl' = WithoutExcl(c, ReadLocks)
  /\ shared' = WithoutShared(c, WAL_READ_LOCK(0))
  /\ readLock' = [readLock EXCEPT ![c] = -1]
  /\ SetLoc(c, [NoLocals EXCEPT !.op = "write", !.cnt = 1])
  /\ Goto(c, "pickMark")
  /\ overtaken' = (overtaken \/ \E d \in Conns : pc[d] = "ckptStart" /\ hdr[d] # hdr[c])
  /\ UNCHANGED <<aHdr, aPageNumber, fileVars, hdr, nCkpt, savepoint, cache, salts, log, crashes, opened>>

\* The slot of the WAL file that takes the first frame of the list.  The
\* iFrame that is set to hdr.mxFrame is declared by the if statement; the one
\* that computes the file offset is still zero.
FirstSlot(c) == 0

\* The rest of WriteFrames: the WAL header if the log is empty, then one frame
\* per page of the list.  The list is chosen as it is written; its last page
\* carries the commit mark of the transaction.  After the last frame the list
\* is entered in the wal-index and in the private header.
WriteFrame(c, p, isCommit, isLast) ==
  /\ pc[c] = "frames"
  /\ \E l \in Lists : /\ StartOf(Append(loc[c].list, p), l)
                      /\ hdr[c].mxFrame + Len(l) <= MaxFrame
                      /\ isLast = (Len(l) = Len(loc[c].list) + 1)
  /\ isCommit => isLast
  /\ isLast => isCommit \/ c \in Spillers
  /\ LET list == Append(loc[c].list, p)
         empty == hdr[c].mxFrame = 0 /\ Len(list) = 1
         fresh == empty /\ nCkpt[c] = 0
         salt == IF fresh THEN salts + 1 ELSE hdr[c].aSalt
         cksum == Append(IF empty THEN <<>> ELSE hdr[c].aFrameCksum, <<p, isCommit>>)
         h == [hdr[c] EXCEPT !.aSalt = salt, !.aFrameCksum = cksum]
     IN  /\ salts' = IF fresh THEN salts + 1 ELSE salts
         /\ walHdr' = IF empty THEN [salt |-> salt, nCkpt |-> nCkpt[c]] ELSE walHdr
         /\ walFile' = [walFile EXCEPT ![FirstSlot(c) + Len(list)] =
              [salt |-> salt, page |-> p, commit |-> isCommit, cksum |-> cksum]]
         /\ IF isLast
              THEN /\ aPageNumber' = Appended(aPageNumber, h.mxFrame, list)
                   /\ SetHdr(c, [h EXCEPT !.mxFrame = @ + Len(list),
                                          !.iChange = IF isCommit THEN @ + 1 ELSE @])
                   /\ SetLoc(c, NoLocals)
                   /\ Goto(c, IF isCommit THEN "commitHdr1" ELSE "read")
              ELSE /\ SetHdr(c, h)
                   /\ SetLoc(c, [loc[c] EXCEPT !.list = list])
                   /\ UNCHANGED <<pc, aPageNumber>>
  /\ UNCHANGED <<aHdr, nBackfill, aReadMark, db, lockVars, readLock, nCkpt, savepoint, cache, log, overtaken, crashes, opened>>

CommitHdr1(c) ==
  /\ pc[c] = "commitHdr1"
  /\ WriteHdrCopy(c, 1)
  /\ Goto(c, "commitHdr0")
  /\ UNCHANGED <<nBackfill, aReadMark, aPageNumber, fileVars, lockVars, hdr, readLock, nCkpt, savepoint, loc, cache, histVars>>

\* sqlite3WalEndWriteTransaction.
EndWrite(c) ==
  /\ excl' = WithoutExcl(c, {WAL_WRITE_LOCK})
  /\ savepoint' = [savepoint EXCEPT ![c] = NoSavepoint]
  /\ Goto(c, "read")

\* The commit is complete.  The pager ends the write transaction; its cache
\* holds what it has written.
CommitHdr0(c) ==
  /\ pc[c] = "commitHdr0"
  /\ WriteHdrCopy(c, 0)
  /\ log' = [log EXCEPT ![hdr[c].aSalt] = [f \in 1..hdr[c].mxFrame |-> aPageNumber[f]]]
  /\ EndWrite(c)
  /\ cache' = [cache EXCEPT ![c] = Snapshot(hdr[c])]
  /\ UNCHANGED <<nBackfill, aReadMark, aPageNumber, fileVars, shared, hdr, readLock, nCkpt, loc, salts, overtaken, crashes, opened>>

\* A rollback: sqlite3WalUndo, and the end of the write transaction.
Undo(c) ==
  /\ Writing(c)
  /\ c \in Spillers \/ hdr[c] = aHdr[0]
  /\ SetHdr(c, aHdr[0])
  /\ aPageNumber' = Cleaned(aPageNumber, aHdr[0].mxFrame)
  /\ EndWrite(c)
  /\ UNCHANGED <<aHdr, nBackfill, aReadMark, fileVars, shared, readLock, nCkpt, loc, cache, histVars>>

\* sqlite3WalSavepoint and sqlite3WalSavepointUndo.
Savepoint(c) ==
  /\ Writing(c) /\ c \in Spillers
  /\ savepoint' = [savepoint EXCEPT ![c] =
       [mxFrame |-> hdr[c].mxFrame, aFrameCksum |-> hdr[c].aFrameCksum, nCkpt |-> nCkpt[c]]]
  /\ UNCHANGED <<shmVars, fileVars, lockVars, pc, hdr, readLock, nCkpt, loc, cache, histVars>>

SavepointUndo(c) ==
  /\ Writing(c)
  /\ savepoint[c] # NoSavepoint
  /\ LET data == IF savepoint[c].nCkpt = nCkpt[c] THEN savepoint[c]
                 ELSE [savepoint[c] EXCEPT !.mxFrame = 0, !.nCkpt = nCkpt[c]]
     IN  /\ savepoint' = [savepoint EXCEPT ![c] = data]
         /\ IF data.mxFrame < hdr[c].mxFrame
              THEN /\ SetHdr(c, [hdr[c] EXCEPT !.mxFrame = data.mxFrame,
                                               !.aFrameCksum = data.aFrameCksum])
                   /\ aPageNumber' = Cleaned(aPageNumber, data.mxFrame)
              ELSE UNCHANGED <<hdr, aPageNumber>>
  /\ UNCHANGED <<aHdr, nBackfill, aReadMark, fileVars, lockVars, pc, readLock, nCkpt, loc, cache, histVars>>

\* An I/O error in WriteFrames: the pager ends the transaction and forgets its
\* cache.
WriteFails(c) ==
  /\ c \in Faulty
  /\ pc[c] = "frames"
  /\ shared' = WithoutShared(c, WAL_READ_LOCK(readLock[c]))
  /\ excl' = WithoutExcl(c, {WAL_WRITE_LOCK})
  /\ readLock' = [readLock EXCEPT ![c] = -1]
  /\ savepoint' = [savepoint EXCEPT ![c] = NoSavepoint]
  /\ cache' = [cache EXCEPT ![c] = NoCache]
  /\ SetLoc(c, NoLocals)
  /\ Goto(c, "idle")
  /\ UNCHANGED <<shmVars, fileVars, hdr, nCkpt, histVars>>

-----------------------------------------------------------------------------
(***************************************************************************)
(* Checkpoint and walCheckpoint, by a connection that is in no transaction. *)
(***************************************************************************)
\* Mutant: two checkpoints may run at once.
CheckpointM(c, mode) ==
  /\ c \in Checkpointers \cap opened
  /\ pc[c] = "idle"
  /\ excl' = WithExcl(c, {WAL_CKPT_LOCK})
  /\ SetLoc(c, [NoLocals EXCEPT !.op = "ckpt", !.mode = mode])
  /\ Goto(c, IF mode = "passive" THEN "hdr0" ELSE "ckptWrite")
  /\ UNCHANGED <<shmVars, fileVars, shared, hdr, readLock, nCkpt, savepoint, cache, histVars>>

Checkpoint(c, mode) ==
  /\ c \in Checkpointers \cap opened
  /\ pc[c] = "idle"
  /\ CanExclude({WAL_CKPT_LOCK})
  /\ excl' = WithExcl(c, {WAL_CKPT_LOCK})
  /\ SetLoc(c, [NoLocals EXCEPT !.op = "ckpt", !.mode = mode])
  /\ Goto(c, IF mode = "passive" THEN "hdr0" ELSE "ckptWrite")
  /\ UNCHANGED <<shmVars, fileVars, shared, hdr, readLock, nCkpt, savepoint, cache, histVars>>

\* A blocking checkpoint takes the write lock, or else becomes a passive one.
CkptWriteLock(c) ==
  /\ pc[c] = "ckptWrite"
  /\ IF CanExclude({WAL_WRITE_LOCK})
       THEN excl' = WithExcl(c, {WAL_WRITE_LOCK}) /\ UNCHANGED loc
       ELSE SetLoc(c, [loc[c] EXCEPT !.mode = "passive"]) /\ UNCHANGED excl
  /\ Goto(c, "hdr0")
  /\ UNCHANGED <<shmVars, fileVars, shared, hdr, readLock, nCkpt, savepoint, cache, histVars>>

\* walIteratorInit: the newest frame of every page in the log.
CkptStart(c) ==
  /\ pc[c] = "ckptStart"
  /\ IF nBackfill >= hdr[c].mxFrame
       THEN CkptEnd(c, loc[c].isChanged)
       ELSE /\ UNCHANGED <<hdr, excl>>
            /\ SetLoc(c, [loc[c] EXCEPT !.mxSafeFrame = hdr[c].mxFrame, !.i = 1,
                 !.todo = {<<p, walRead(aPageNumber, hdr[c].mxFrame, p)>> : p \in Pages}])
            /\ Goto(c, "ckptMark")
  /\ UNCHANGED <<shmVars, fileVars, shared, readLock, nCkpt, savepoint, cache, histVars>>

\* Look at the read mark of slot i.
CkptReadMark(c) ==
  /\ pc[c] = "ckptMark"
  /\ LET i == loc[c].i IN
     /\ i < NReader
     /\ IF loc[c].mxSafeFrame > aReadMark[i]
          THEN SetLoc(c, [loc[c] EXCEPT !.mark = aReadMark[i]]) /\ Goto(c, "ckptLock")
          ELSE SetLoc(c, [loc[c] EXCEPT !.i = i + 1]) /\ UNCHANGED pc
  /\ UNCHANGED <<shmVars, fileVars, lockVars, hdr, readLock, nCkpt, savepoint, cache, histVars>>

\* Mutant: a slot in use does not limit the checkpoint.
CkptLockMarkM(c) ==
  /\ pc[c] = "ckptLock"
  /\ SetLoc(c, [loc[c] EXCEPT !.i = @ + 1, !.mark = 0])
  /\ aReadMark' = IF CanExclude({WAL_READ_LOCK(loc[c].i)})
                    THEN [aReadMark EXCEPT ![loc[c].i] = READMARK_NOT_USED] ELSE aReadMark
  /\ Goto(c, "ckptMark")
  /\ UNCHANGED <<aHdr, nBackfill, aPageNumber, fileVars, lockVars, hdr, readLock, nCkpt, savepoint, cache, histVars>>

\* The mark limits the checkpoint if its slot is in use; otherwise the slot is
\* locked, freed and unlocked.
CkptLockMark(c) ==
  /\ pc[c] = "ckptLock"
  /\ LET i == loc[c].i
         next == [loc[c] EXCEPT !.i = i + 1, !.mark = 0]
     IN  IF CanExclude({WAL_READ_LOCK(i)})
           THEN /\ aReadMark' = [aReadMark EXCEPT ![i] = READMARK_NOT_USED]
                /\ SetLoc(c, next)
           ELSE /\ SetLoc(c, [next EXCEPT !.mxSafeFrame = loc[c].mark])
                /\ UNCHANGED aReadMark
  /\ Goto(c, "ckptMark")
  /\ UNCHANGED <<aHdr, nBackfill, aPageNumber, fileVars, lockVars, hdr, readLock, nCkpt, savepoint, cache, histVars>>

\* Backfilling needs READ_LOCK(0): nobody may be ignoring the log.
CkptLock0(c) ==
  /\ pc[c] = "ckptMark" /\ loc[c].i = NReader
  /\ IF nBackfill < loc[c].mxSafeFrame /\ CanExclude({WAL_READ_LOCK(0)})
       THEN /\ excl' = WithExcl(c, {WAL_READ_LOCK(0)})
            /\ SetLoc(c, [loc[c] EXCEPT !.todo =
                 {pf \in @ : pf[2] > nBackfill /\ pf[2] <= loc[c].mxSafeFrame}])
            /\ Goto(c, "copy")
            /\ UNCHANGED hdr
       ELSE CkptEnd(c, loc[c].isChanged)
  /\ UNCHANGED <<shmVars, fileVars, shared, readLock, nCkpt, savepoint, cache, histVars>>

\* Copy the next page of the iterator into the database file.
CopyPage(c) ==
  /\ pc[c] = "copy"
  /\ \E pf \in loc[c].todo :
       /\ \A other \in loc[c].todo : pf[1] <= other[1]
       /\ db' = [db EXCEPT ![pf[1]] = <<aHdr[0].aSalt, pf[2]>>]
       /\ SetLoc(c, [loc[c] EXCEPT !.todo = @ \ {pf}])
  /\ UNCHANGED <<shmVars, walHdr, walFile, lockVars, pc, hdr, readLock, nCkpt, savepoint, cache, histVars>>

\* Mutant: nBackfill claims the whole log, or is set although copying failed.
FinishCopyM(c) ==
  /\ pc[c] = "copy"
  /\ loc[c].todo = {} \/ c \in Faulty
  /\ nBackfill' = hdr[c].mxFrame
  /\ CkptEnd(c, loc[c].isChanged)
  /\ UNCHANGED <<aHdr, aReadMark, aPageNumber, fileVars, shared, readLock, nCkpt, savepoint, cache, histVars>>

\* All pages are copied, or the copying failed and nBackfill stays.
FinishCopy(c) ==
  /\ pc[c] = "copy"
  /\ \/ loc[c].todo = {} /\ nBackfill' = loc[c].mxSafeFrame
     \/ c \in Faulty /\ UNCHANGED nBackfill
  /\ CkptEnd(c, loc[c].isChanged)
  /\ UNCHANGED <<aHdr, aReadMark, aPageNumber, fileVars, shared, readLock, nCkpt, savepoint, cache, histVars>>

-----------------------------------------------------------------------------
(***************************************************************************)
(* Crashes of processes.                                                   *)
(***************************************************************************)
\* The connections cs start again in new processes; the kernel has released
\* their locks.
Restarted(cs) ==
  /\ shared' = [l \in LockIds |-> shared[l] \ cs]
  /\ excl' = [l \in LockIds |-> excl[l] \ cs]
  /\ pc' = [c \in Conns |-> IF c \in cs THEN "idle" ELSE pc[c]]
  /\ hdr' = [c \in Conns |-> IF c \in cs THEN ZeroHdr ELSE hdr[c]]
  /\ readLock' = [c \in Conns |-> IF c \in cs THEN -1 ELSE readLock[c]]
  /\ nCkpt' = [c \in Conns |-> IF c \in cs THEN 0 ELSE nCkpt[c]]
  /\ savepoint' = [c \in Conns |-> IF c \in cs THEN NoSavepoint ELSE savepoint[c]]
  /\ loc' = [c \in Conns |-> IF c \in cs THEN NoLocals ELSE loc[c]]
  /\ cache' = [c \in Conns |-> IF c \in cs THEN NoCache ELSE cache[c]]
  /\ opened' = opened \ (cs \cap Readers)
  /\ crashes < Crashes
  /\ crashes' = crashes + 1
  /\ UNCHANGED <<fileVars, salts, log>>

ZeroShm(hdrs, backfill, marks, index) ==
  /\ hdrs = [k \in 0..1 |-> ZeroHdr]
  /\ backfill = 0
  /\ marks = [i \in Slots |-> 0]
  /\ index = [f \in 1..MaxFrame |-> 0]

\* One process dies and the others keep the shared memory alive; or all die,
\* and the first to open the shared memory again truncates it.
CrashOne(c) ==
  /\ Restarted({c})
  /\ overtaken' = (overtaken \/ pc[c] = "restartInfo")
  /\ UNCHANGED shmVars
CrashAll ==
  /\ Restarted(Conns)
  /\ ZeroShm(aHdr', nBackfill', aReadMark', aPageNumber')
  /\ UNCHANGED overtaken

Init ==
  /\ ZeroShm(aHdr, nBackfill, aReadMark, aPageNumber)
  /\ walHdr = [salt |-> 0, nCkpt |-> 0]
  /\ walFile = [f \in 1..MaxFrame |-> NoFrame]
  /\ db = [p \in Pages |-> <<0, 0>>]
  /\ shared = [l \in LockIds |-> {}] /\ excl = [l \in LockIds |-> {}]
  /\ pc = [c \in Conns |-> "idle"]
  /\ hdr = [c \in Conns |-> ZeroHdr]
  /\ readLock = [c \in Conns |-> -1]
  /\ nCkpt = [c \in Conns |-> 0]
  /\ savepoint = [c \in Conns |-> NoSavepoint]
  /\ loc = [c \in Conns |-> NoLocals]
  /\ cache = [c \in Conns |-> NoCache] /\ opened = Conns \ Readers
  /\ salts = 0 /\ log = [g \in 1..MaxGen |-> <<>>]
  /\ overtaken = FALSE /\ crashes = 0

Reader(c) ==
  \/ BeginRead(c) \/ ReadHdr0(c) \/ ReadHdr1(c) \/ RereadHdr(c)
  \/ RecoverHdr1(c) \/ RecoverHdr0(c) \/ RecoverInfo(c)
  \/ ChooseLock(c) \/ ShareIgnoreWal(c) \/ CheckIgnoreWal(c)
  \/ PickMark(c) \/ ClaimMark(c) \/ ShareMark(c) \/ CheckMark(c)
  \/ EndRead(c)

Writer(c) ==
  \/ BeginWrite(c) \/ RestartLog(c) \/ RestartHdr1(c) \/ RestartHdr0(c) \/ RestartInfo(c)
  \/ \E p \in Pages, isCommit, isLast \in BOOLEAN : WriteFrame(c, p, isCommit, isLast)
  \/ CommitHdr1(c) \/ CommitHdr0(c)
  \/ Undo(c) \/ Savepoint(c) \/ SavepointUndo(c) \/ WriteFails(c)

Checkpointer(c) ==
  \/ \E mode \in Modes : Checkpoint(c, mode)
  \/ CkptWriteLock(c) \/ CkptStart(c) \/ CkptReadMark(c) \/ CkptLockMark(c)
  \/ CkptLock0(c) \/ CopyPage(c) \/ FinishCopy(c)

Next ==
  \/ \E c \in Conns : Reader(c) \/ Writer(c) \/ Checkpointer(c) \/ CrashOne(c)
  \/ CrashAll

Spec == Init /\ [][Next]_vars

-----------------------------------------------------------------------------
(***************************************************************************)
(* Properties.                                                             *)
(***************************************************************************)
Frames == 0..MaxFrame
Hdrs == [isInit : BOOLEAN, aSalt : 0..MaxGen, mxFrame : Frames, iChange : Nat,
         aFrameCksum : Seq(Pages \X BOOLEAN)]
Versions == (0..MaxGen) \X Frames

\* The shared memory, the files, the locks and the connections hold values of
\* their declared types; a lock held exclusively has one holder.
TypeOK ==
  /\ aHdr \in [0..1 -> Hdrs]
  /\ nBackfill \in Frames
  /\ aReadMark \in [Slots -> 0..READMARK_NOT_USED]
  /\ aPageNumber \in [1..MaxFrame -> Pages \cup {0}]
  /\ db \in [Pages -> Versions]
  /\ shared \in [LockIds -> SUBSET Conns] /\ excl \in [LockIds -> SUBSET Conns]
  /\ \A l \in LockIds : excl[l] = {} \/ (\E c \in Conns : shared[l] \cup excl[l] = {c})
  /\ hdr \in [Conns -> Hdrs]
  /\ readLock \in [Conns -> -1..(NReader - 1)]

\* What connection c reads for page p in its read transaction: the newest
\* frame of the log up to its snapshot, or else the database file.  A version
\* is a salt and a frame number; the slot of the WAL file that holds the frame
\* (FirstSlot) is left out of it.
View(c, p) ==
  LET f == IF readLock[c] = 0 THEN 0 ELSE walRead(aPageNumber, hdr[c].mxFrame, p)
  IN  IF f = 0 THEN db[p] ELSE <<aHdr[0].aSalt, f>>

\* A connection in a read transaction that is not writing.
Reading(c) == pc[c] = "read" /\ ~writeLock(c)

\* Snapshot isolation: whatever other connections commit, checkpoint, restart
\* or roll back, and wherever they fail, a read transaction sees for every page
\* the version of the commit it started from ("The current thread will
\* continue to use this snapshot", sqlite3WalBeginReadTransaction).
ReaderSnapshot ==
  ~overtaken => \A c \in Conns : Reading(c) =>
    \A p \in Pages : View(c, p) = Image(hdr[c].aSalt, hdr[c].mxFrame, p)

\* Nothing committed is lost: whenever the two header copies agree, the log up
\* to the header's mxFrame and the database file together hold the last
\* committed version of every page (walCheckpoint, walRestartLog, WriteFrames).
CommittedIsReadable ==
  LET h == aHdr[0] IN
  HdrOk(h, aHdr[1]) /\ ~overtaken =>
    \A p \in Pages :
      LET f == walRead(aPageNumber, h.mxFrame, p)
      IN  (IF f = 0 THEN db[p] ELSE <<h.aSalt, f>>) = Image(h.aSalt, h.mxFrame, p)

\* A snapshot is pinned, also when processes crash and the wal-index is
\* recovered: while a connection reads through the log, the log is neither
\* restarted nor recovered under it and no frame beyond its snapshot is
\* backfilled; while it ignores the log, nothing at all is backfilled.
SnapshotPinned ==
  ~overtaken => \A c \in Conns : Reading(c) =>
    /\ readLock[c] > 0 => /\ hdr[c].mxFrame > 0 => aHdr[0].aSalt = hdr[c].aSalt
                          /\ nBackfill <= hdr[c].mxFrame
    /\ readLock[c] = 0 => \A d \in Conns : pc[d] # "copy"

\* The assertion of walRestartLog: a writer that ignores the log finds all of
\* it backfilled, or it would overwrite frames that exist nowhere else.
IgnoredLogIsBackfilled ==
  ~overtaken => \A c \in Conns :
    Writing(c) /\ readLock[c] = 0 => nBackfill = hdr[c].mxFrame

\* The pager resets its cache exactly when it must: in a read transaction the
\* pages cached by earlier transactions of the connection belong to the
\* snapshot (pChanged of walTryBeginRead, the memset at the end of Checkpoint).
CacheIsSnapshot ==
  ~overtaken => \A c \in Conns : Reading(c) =>
    \A p \in Pages : Image(cache[c][1], cache[c][2], p) = Image(hdr[c].aSalt, hdr[c].mxFrame, p)

\* Commits never fork: the pages committed under a salt are only ever extended
\* at the end (the header comparison of sqlite3WalBeginWriteTransaction).
CommitsExtend == [][\A g \in 1..MaxGen : StartOf(log[g], log'[g])]_vars

\* Connections get and give up locks only as xShmLock lets them: never a lock
\* held by another, never one of several (the calls of walLockShared and
\* walLockExclusive; module ShmLock shows that unixShmLock implements it).
ShmLocks == INSTANCE ConnLocks
LocksAsPromised == ShmLocks!Spec

\* A checkpoint never counts frames as backfilled that the log does not have:
\* "The nBackfill number is never greater than WalIndexHdr.mxFrame" (the comment
\* on WalCkptInfo).
BackfillWithinLog ==
  [][nBackfill' > nBackfill => nBackfill' <= aHdr[0].mxFrame]_vars

\* What a connection reads, through the log, the database or its cache, is its
\* snapshot.
SnapshotsExact == TypeOK /\ ReaderSnapshot /\ CacheIsSnapshot

\* No committed page is lost, and no writer is about to overwrite one.
NothingLost == CommittedIsReadable /\ IgnoredLogIsBackfilled
=============================================================================
