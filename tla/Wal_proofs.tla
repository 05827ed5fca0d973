----------------------------- MODULE Wal_proofs -----------------------------
(***************************************************************************)
(* Proofs about the write-ahead log, for any connections, pages, read      *)
(* marks and bounds.                                                       *)
(***************************************************************************)
EXTENDS Wal, TLAPS

-----------------------------------------------------------------------------
(* The wal-index locks.                                                    *)

\* The lock table: a lock held exclusively is not shared.
LockInv ==
  /\ shared \in [LockIds -> SUBSET Conns] /\ excl \in [LockIds -> SUBSET Conns]
  /\ \A l \in LockIds : excl[l] # {} => shared[l] = {}

\* The lock table promised by xShmLock keeps LockInv by itself.
LEMMA TableKeeps == LockInv /\ ShmLocks!Next => LockInv'
<1> SUFFICES ASSUME LockInv, ShmLocks!Next PROVE LockInv'
  OBVIOUS
<1>1. ASSUME NEW c \in Conns, NEW l \in LockIds, ShmLocks!Share(c, l) PROVE LockInv'
  BY <1>1 DEF LockInv, ShmLocks!Share
<1>2. ASSUME NEW c \in Conns, NEW ls \in SUBSET LockIds, ShmLocks!Exclude(c, ls) PROVE LockInv'
  BY <1>2 DEF LockInv, ShmLocks!Exclude
<1>3. ASSUME NEW cs \in SUBSET Conns, NEW ls \in SUBSET LockIds, ShmLocks!Release(cs, ls)
      PROVE  LockInv'
  BY <1>3 DEF LockInv, ShmLocks!Release
<1> QED BY <1>1, <1>2, <1>3 DEF ShmLocks!Next

\* A connection that only gives locks up makes a release of the lock table.
LEMMA GivesUp ==
  ASSUME LockInv, NEW c \in Conns,
         shared' \in [LockIds -> SUBSET Conns], excl' \in [LockIds -> SUBSET Conns],
         \A l \in LockIds : shared'[l] \in {shared[l], shared[l] \ {c}}
                         /\ excl'[l] \in {excl[l], excl[l] \ {c}}
  PROVE  ShmLocks!Next
<1> DEFINE ls == {l \in LockIds : shared'[l] # shared[l] \/ excl'[l] # excl[l]}
<1>1. ShmLocks!Release({c}, ls)
  BY DEF LockInv, ShmLocks!Release
<1> QED BY <1>1 DEF ShmLocks!Next
\* A failed attempt gives up the write lock or nothing.
LEMMA RetryGivesUp ==
  ASSUME LockInv, NEW c \in Conns, NEW start, NEW isChanged, Retry(c, start, isChanged)
  PROVE  /\ excl' \in [LockIds -> SUBSET Conns]
         /\ \A l \in LockIds : excl'[l] \in {excl[l], excl[l] \ {c}}
<1>1. CASE excl' = excl
  BY <1>1 DEF LockInv
<1>2. CASE excl' = WithoutExcl(c, {WAL_WRITE_LOCK})
  BY <1>2 DEF LockInv, WithoutExcl
<1> QED BY Zenon, <1>1, <1>2 DEF Retry

\* The end of a checkpoint gives up every exclusive lock.
LEMMA CkptEndGivesUp ==
  ASSUME LockInv, NEW c \in Conns, NEW isChanged, CkptEnd(c, isChanged)
  PROVE  /\ excl' \in [LockIds -> SUBSET Conns]
         /\ \A l \in LockIds : excl'[l] \in {excl[l], excl[l] \ {c}}
<1>1. excl' = WithoutExcl(c, LockIds)
  BY Zenon DEF CkptEnd
<1> QED BY <1>1 DEF LockInv, WithoutExcl

\* A shared lock given up, or none.
LEMMA SharedGivesUp ==
  ASSUME LockInv, NEW c \in Conns, NEW l, shared' = WithoutShared(c, l) \/ shared' = shared
  PROVE  /\ shared' \in [LockIds -> SUBSET Conns]
         /\ \A k \in LockIds : shared'[k] \in {shared[k], shared[k] \ {c}}
BY DEF LockInv, WithoutShared

\* Exclusive locks given up.
LEMMA ExclGivesUp ==
  ASSUME LockInv, NEW c \in Conns, NEW ls, excl' = WithoutExcl(c, ls)
  PROVE  /\ excl' \in [LockIds -> SUBSET Conns]
         /\ \A k \in LockIds : excl'[k] \in {excl[k], excl[k] \ {c}}
BY DEF LockInv, WithoutExcl

\* Exclusive locks taken after the test of unixShmLock.
LEMMA TakesExcl ==
  ASSUME LockInv, NEW c \in Conns, NEW ls \in SUBSET LockIds, CanExclude(ls),
         excl' = WithExcl(c, ls), shared' = shared
  PROVE  ShmLocks!Next
<1>1. ShmLocks!Exclude(c, ls)
  BY Zenon DEF ShmLocks!Exclude, CanExclude, WithExcl
<1> QED BY Zenon, <1>1 DEF ShmLocks!Next

LEMMA LockNumbers ==
  /\ WAL_WRITE_LOCK \in LockIds /\ WAL_CKPT_LOCK \in LockIds /\ WAL_RECOVER_LOCK \in LockIds
  /\ \A i \in 0..(NReader - 1) : WAL_READ_LOCK(i) \in LockIds
  /\ ReadLocks \subseteq LockIds
  /\ 0 \in 0..(NReader - 1)
BY NReaderAssumption DEF WAL_WRITE_LOCK, WAL_CKPT_LOCK, WAL_RECOVER_LOCK, WAL_READ_LOCK,
                         LockIds, ReadLocks, Slots

LEMMA HdrBusyLocks ==
  ASSUME LockInv, NEW c \in Conns, NEW isChanged, HdrBusy(c, isChanged)
  PROVE  ShmLocks!Next
<1>1. shared' = shared
  BY Zenon DEF HdrBusy
<1>2. /\ excl' \in [LockIds -> SUBSET Conns]
      /\ \A l \in LockIds : excl'[l] \in {excl[l], excl[l] \ {c}}
  <2>1. CASE excl' = excl
    BY <2>1 DEF LockInv
  <2>2. CASE Retry(c, "hdr0", isChanged)
    BY Zenon, <2>2, RetryGivesUp
  <2>3. CASE CkptEnd(c, isChanged)
    BY Zenon, <2>3, CkptEndGivesUp
  <2> QED BY Zenon, <2>1, <2>2, <2>3 DEF HdrBusy
<1> QED BY Zenon, <1>1, <1>2, GivesUp, SharedGivesUp

LEMMA RecoveryLocksTaken ==
  ASSUME LockInv, NEW c \in Conns, CanExclude({WAL_WRITE_LOCK}), CanExclude(RecoveryLocks(c)),
         StartRecovery(c)
  PROVE  ShmLocks!Next
<1>1. excl' = WithExcl(c, LockIds) /\ shared' = shared
  BY Zenon DEF StartRecovery
<1> DEFINE ls == IF ckptLock(c) THEN LockIds \ {WAL_CKPT_LOCK} ELSE LockIds
<1>2. ls \in SUBSET LockIds
  OBVIOUS
<1>3. CanExclude(ls)
  BY DEF CanExclude, RecoveryLocks
<1>4. WithExcl(c, LockIds) = WithExcl(c, ls)
  BY DEF LockInv, WithExcl, ckptLock
<1> QED BY Zenon, <1>1, <1>2, <1>3, <1>4, TakesExcl

\* Every step of a reader is one of the lock table, or leaves it alone.
LEMMA ReaderLocks ==
  ASSUME LockInv, NEW c \in Conns, Reader(c)
  PROVE  ShmLocks!Next \/ UNCHANGED lockVars
<1>1. CASE \/ BeginRead(c) \/ ReadHdr0(c) \/ ReadHdr1(c) \/ RecoverHdr1(c) \/ RecoverHdr0(c)
           \/ ChooseLock(c) \/ PickMark(c)
  BY Zenon, <1>1 DEF BeginRead, ReadHdr0, ReadHdr1, RecoverHdr1, RecoverHdr0, ChooseLock, PickMark
<1>2. CASE RereadHdr(c)
  <2>1. CASE HdrBusy(c, loc[c].isChanged) \/ HdrBusy(c, TRUE)
    BY Zenon, <2>1, HdrBusyLocks
  <2>2. CASE CanExclude({WAL_WRITE_LOCK}) /\ CanExclude(RecoveryLocks(c)) /\ StartRecovery(c)
    BY Zenon, <2>2, RecoveryLocksTaken
  <2>3. CASE UNCHANGED lockVars
    BY <2>3
  <2> QED BY Zenon, <1>2, <2>1, <2>2, <2>3 DEF RereadHdr
<1>3. CASE RecoverInfo(c)
  <2>1. PICK ls : excl' = WithoutExcl(c, ls)
    BY Zenon, <1>3 DEF RecoverInfo
  <2>2. shared' = shared
    BY Zenon, <1>3 DEF RecoverInfo
  <2> QED BY Zenon, <2>1, <2>2, GivesUp, SharedGivesUp, ExclGivesUp
<1>4. CASE ShareIgnoreWal(c)
  <2>1. excl' = excl
    BY Zenon, <1>4 DEF ShareIgnoreWal
  <2>2. CASE CanShare(WAL_READ_LOCK(0)) /\ shared' = WithShared(c, WAL_READ_LOCK(0))
    <3>1. ShmLocks!Share(c, WAL_READ_LOCK(0))
      BY Zenon, <2>1, <2>2 DEF ShmLocks!Share, CanShare, WithShared
    <3> QED BY Zenon, <3>1, LockNumbers DEF ShmLocks!Next
  <2>3. CASE shared' = shared
    BY Zenon, <2>1, <2>3 DEF lockVars
  <2> QED BY Zenon, <1>4, <2>2, <2>3 DEF ShareIgnoreWal
<1>5. CASE CheckIgnoreWal(c) \/ CheckMark(c)
  <2>1. PICK l : shared' = WithoutShared(c, l) \/ shared' = shared
    BY Zenon, <1>5 DEF CheckIgnoreWal, CheckMark
  <2>2. /\ excl' \in [LockIds -> SUBSET Conns]
        /\ \A k \in LockIds : excl'[k] \in {excl[k], excl[k] \ {c}}
    <3>1. CASE \E start, ch : Retry(c, start, ch)
      BY Zenon, <3>1, RetryGivesUp
    <3>2. CASE excl' = excl
      BY <3>2 DEF LockInv
    <3> QED BY Zenon, <1>5, <3>1, <3>2 DEF CheckIgnoreWal, CheckMark, Opened
  <2> QED BY Zenon, <2>1, <2>2, GivesUp, SharedGivesUp
<1>6. CASE ClaimMark(c)
  <2>1. shared' = shared
    BY Zenon, <1>6 DEF ClaimMark
  <2>2. CASE excl' = excl
    BY Zenon, <2>1, <2>2 DEF lockVars
  <2>3. CASE \E start, ch : Retry(c, start, ch)
    BY Zenon, <2>1, <2>3, RetryGivesUp, GivesUp, SharedGivesUp
  <2> QED BY Zenon, <1>6, <2>2, <2>3 DEF ClaimMark
<1>7. CASE ShareMark(c)
  <2> DEFINE l == WAL_READ_LOCK(loc[c].mxI)
  <2>1. CASE CanShare(l) /\ shared' = WithShared(c, l) /\ excl' = excl
    <3>1. CASE l \in LockIds
      <4>1. ShmLocks!Share(c, l)
        BY Zenon, <2>1 DEF ShmLocks!Share, CanShare, WithShared
      <4> QED BY Zenon, <3>1, <4>1 DEF ShmLocks!Next
    <3>2. CASE l \notin LockIds
      <4>1. shared' = shared
        BY <2>1, <3>2 DEF LockInv, WithShared
      <4> QED BY Zenon, <2>1, <4>1 DEF lockVars
    <3> QED BY <3>1, <3>2
  <2>2. CASE shared' = shared /\ \E start, ch : Retry(c, start, ch)
    BY Zenon, <2>2, RetryGivesUp, GivesUp, SharedGivesUp
  <2> QED BY Zenon, <1>7, <2>1, <2>2 DEF ShareMark
<1>8. CASE EndRead(c)
  <2>1. shared' = WithoutShared(c, WAL_READ_LOCK(readLock[c])) /\ excl' = excl
    BY Zenon, <1>8 DEF EndRead
  <2>2. excl' \in [LockIds -> SUBSET Conns] /\ \A k \in LockIds : excl'[k] = excl[k]
    BY <2>1 DEF LockInv
  <2> QED BY Zenon, <2>1, <2>2, GivesUp, SharedGivesUp
<1> QED BY Zenon, <1>1, <1>2, <1>3, <1>4, <1>5, <1>6, <1>7, <1>8 DEF Reader

\* Every step of a writer is one of the lock table, or leaves it alone.
LEMMA WriterLocks ==
  ASSUME LockInv, NEW c \in Conns, Writer(c)
  PROVE  ShmLocks!Next \/ UNCHANGED lockVars
<1>1. CASE \/ RestartHdr1(c) \/ RestartHdr0(c) \/ CommitHdr1(c) \/ Savepoint(c) \/ SavepointUndo(c)
  BY Zenon, <1>1 DEF RestartHdr1, RestartHdr0, CommitHdr1, Savepoint, SavepointUndo
<1>2. ASSUME NEW p \in Pages, NEW isCommit \in BOOLEAN, NEW isLast \in BOOLEAN,
             WriteFrame(c, p, isCommit, isLast)
      PROVE  UNCHANGED lockVars
  BY Zenon, <1>2 DEF WriteFrame
<1>3. CASE BeginWrite(c)
  <2>1. /\ CanExclude({WAL_WRITE_LOCK}) /\ excl' = WithExcl(c, {WAL_WRITE_LOCK}) /\ shared' = shared
    BY Zenon, <1>3 DEF BeginWrite
  <2>2. {WAL_WRITE_LOCK} \in SUBSET LockIds
    BY LockNumbers
  <2> QED BY Zenon, <2>1, <2>2, TakesExcl
<1>4. CASE RestartLog(c)
  <2>1. CASE UNCHANGED lockVars
    BY <2>1
  <2>2. CASE CanExclude(ReadLocks) /\ excl' = WithExcl(c, ReadLocks) /\ shared' = shared
    BY Zenon, <2>2, LockNumbers, TakesExcl
  <2>3. CASE shared' = WithoutShared(c, WAL_READ_LOCK(0)) /\ excl' = excl
    <3>1. excl' \in [LockIds -> SUBSET Conns] /\ \A k \in LockIds : excl'[k] = excl[k]
      BY <2>3 DEF LockInv
    <3> QED BY Zenon, <2>3, <3>1, GivesUp, SharedGivesUp
  <2> QED BY Zenon, <1>4, <2>1, <2>2, <2>3 DEF RestartLog
<1>5. CASE RestartInfo(c) \/ WriteFails(c)
  <2>1. \E l, ls : shared' = WithoutShared(c, l) /\ excl' = WithoutExcl(c, ls)
    BY Zenon, <1>5 DEF RestartInfo, WriteFails
  <2> QED BY Zenon, <2>1, GivesUp, SharedGivesUp, ExclGivesUp
<1>6. CASE CommitHdr0(c) \/ Undo(c)
  <2>1. excl' = WithoutExcl(c, {WAL_WRITE_LOCK}) /\ shared' = shared
    BY Zenon, <1>6 DEF CommitHdr0, Undo, EndWrite
  <2> QED BY Zenon, <2>1, GivesUp, SharedGivesUp, ExclGivesUp
<1> QED BY Zenon, <1>1, <1>2, <1>3, <1>4, <1>5, <1>6 DEF Writer

\* Every step of a checkpoint is one of the lock table, or leaves it alone.
LEMMA CheckpointerLocks ==
  ASSUME LockInv, NEW c \in Conns, Checkpointer(c)
  PROVE  ShmLocks!Next \/ UNCHANGED lockVars
<1>1. CASE CkptReadMark(c) \/ CkptLockMark(c) \/ CopyPage(c)
  BY Zenon, <1>1 DEF CkptReadMark, CkptLockMark, CopyPage
<1>2. ASSUME NEW mode \in Modes, Checkpoint(c, mode) PROVE ShmLocks!Next
  <2>1. /\ CanExclude({WAL_CKPT_LOCK}) /\ excl' = WithExcl(c, {WAL_CKPT_LOCK}) /\ shared' = shared
    BY Zenon, <1>2 DEF Checkpoint
  <2>2. {WAL_CKPT_LOCK} \in SUBSET LockIds
    BY LockNumbers
  <2> QED BY Zenon, <2>1, <2>2, TakesExcl
<1>3. CASE CkptWriteLock(c)
  <2>1. shared' = shared
    BY Zenon, <1>3 DEF CkptWriteLock
  <2>2. CASE CanExclude({WAL_WRITE_LOCK}) /\ excl' = WithExcl(c, {WAL_WRITE_LOCK})
    <3>1. {WAL_WRITE_LOCK} \in SUBSET LockIds
      BY LockNumbers
    <3> QED BY Zenon, <2>1, <2>2, <3>1, TakesExcl
  <2>3. CASE excl' = excl
    BY Zenon, <2>1, <2>3 DEF lockVars
  <2> QED BY Zenon, <1>3, <2>2, <2>3 DEF CkptWriteLock
<1>4. CASE CkptStart(c) \/ FinishCopy(c) \/ CkptLock0(c)
  <2>1. shared' = shared
    BY Zenon, <1>4 DEF CkptStart, FinishCopy, CkptLock0
  <2>2. CASE excl' = excl
    BY Zenon, <2>1, <2>2 DEF lockVars
  <2>3. CASE CkptEnd(c, loc[c].isChanged)
    BY Zenon, <2>1, <2>3, CkptEndGivesUp, GivesUp, SharedGivesUp
  <2>4. CASE CanExclude({WAL_READ_LOCK(0)}) /\ excl' = WithExcl(c, {WAL_READ_LOCK(0)})
    <3>1. {WAL_READ_LOCK(0)} \in SUBSET LockIds
      BY LockNumbers
    <3> QED BY Zenon, <2>1, <2>4, <3>1, TakesExcl
  <2> QED BY Zenon, <1>4, <2>2, <2>3, <2>4 DEF CkptStart, FinishCopy, CkptLock0
<1> QED BY Zenon, <1>1, <1>2, <1>3, <1>4 DEF Checkpointer

\* The exit of a process gives up its locks.
LEMMA CrashLocks ==
  ASSUME LockInv, NEW cs \in SUBSET Conns, Restarted(cs)
  PROVE  ShmLocks!Next
<1>1. ShmLocks!Release(cs, LockIds)
  BY Zenon DEF Restarted, ShmLocks!Release
<1> QED BY Zenon, <1>1 DEF ShmLocks!Next

\* Whatever connections do, and wherever their processes die, they take and
\* give up the wal-index locks only as xShmLock lets them, for any connections
\* and any number of read marks: the lock and unlock calls of wal.go.
THEOREM WalLocks == Spec => LocksAsPromised
<1>1. Init => LockInv /\ ShmLocks!Init
  BY DEF Init, LockInv, ShmLocks!Init
<1>2. LockInv /\ [Next]_vars => LockInv' /\ [ShmLocks!Next]_<<shared, excl>>
  <2> SUFFICES ASSUME LockInv, [Next]_vars PROVE LockInv' /\ [ShmLocks!Next]_<<shared, excl>>
    OBVIOUS
  <2>1. ShmLocks!Next \/ UNCHANGED lockVars
    <3>1. ASSUME NEW c \in Conns, CrashOne(c) PROVE ShmLocks!Next
      BY Zenon, <3>1, CrashLocks DEF CrashOne
    <3>2. CASE CrashAll
      BY Zenon, <3>2, CrashLocks DEF CrashAll
    <3>3. CASE UNCHANGED vars
      BY <3>3 DEF vars
    <3> QED BY Zenon, <3>1, <3>2, <3>3, ReaderLocks, WriterLocks, CheckpointerLocks DEF Next
  <2>2. CASE ShmLocks!Next
    BY Zenon, <2>2, TableKeeps
  <2>3. CASE UNCHANGED lockVars
    BY <2>3 DEF lockVars, LockInv
  <2> QED BY Zenon, <2>1, <2>2, <2>3
<1> QED BY <1>1, <1>2, PTL DEF Spec, LocksAsPromised, ShmLocks!Spec
=============================================================================
