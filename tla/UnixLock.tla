------------------------------ MODULE UnixLock ------------------------------
(***************************************************************************)
(* The database-file locks of os_unix.go: Lock, posixUnlock and            *)
(* CheckReservedLock, run by the files (database connections) of several   *)
(* processes that have opened the same inode.                              *)
(*                                                                         *)
(* Every process keeps one unixInodeInfo that its files share under the    *)
(* STATIC_MASTER mutex; across processes only the POSIX byte-range locks   *)
(* of the operating system are visible.  A lock operation makes up to      *)
(* three fcntl() calls, and other processes run between them: each call is *)
(* a step of its own, and pc[f] says which call file f makes next.  Every  *)
(* fcntl() call may fail (a conflict, or an I/O error).                    *)
(***************************************************************************)
EXTENDS Integers, FiniteSets

CONSTANTS Procs,       \* operating-system processes
          Files,       \* unixFile objects, one per database connection
          ProcOf,      \* the process that owns each file
          ExclProcs,   \* processes that open the file through "unix-excl"
          MaxInode     \* bound on the unixInodeInfo objects of a process

ASSUME FilesAssumption == IsFiniteSet(Files)
ASSUME ProcOfAssumption == ProcOf \in [Files -> Procs]
ASSUME ExclAssumption == ExclProcs \subseteq Procs
ASSUME MaxInodeAssumption == MaxInode \in Nat

NO_LOCK == 0
SHARED_LOCK == 1
RESERVED_LOCK == 2
PENDING_LOCK == 3
EXCLUSIVE_LOCK == 4
LockLevels == 0..4

Bytes == {"PENDING", "RESERVED", "SHARED"}
Modes == {"none", "rd", "wr"}
NoLocks == [b \in Bytes |-> "none"]

\* The k-th unixInodeInfo that process p allocates for the database file.
InodeIds == Procs \X (0..MaxInode)

VARIABLES eFileLock,   \* unixFile.eFileLock
          pInode,      \* unixFile.pInode
          inode,       \* the unixInodeInfo objects
          posix,       \* the byte-range locks each process holds
          pc           \* the fcntl() call a file is about to make

lockVars == <<eFileLock, pInode, inode, posix, pc>>

-----------------------------------------------------------------------------
Inode(f) == inode[pInode[f]]

\* CriticalSection(SQLITE_MUTEX_STATIC_MASTER): no file of f's process is
\* in the middle of a lock operation.
MutexFree(f) == \A g \in Files : ProcOf[g] = ProcOf[f] => pc[g] = "idle"

\* fcntl(F_SETLK) grants mode m on byte b when no other process conflicts.
Grantable(p, b, m) ==
  \A q \in Procs \ {p} : posix[q][b] = "none" \/ (m = "rd" /\ posix[q][b] = "rd")

\* The locks of process p after it sets mode m on the bytes bs.
SetBytes(p, bs, m) ==
  [posix EXCEPT ![p] = [b \in Bytes |-> IF b \in bs THEN m ELSE posix[p][b]]]

\* unixFileLock: under unix-excl the process lock already covers everything
\* and the call succeeds without the operating system; otherwise fcntl() sets
\* the lock if it can.
FileLock(f, bs, m) ==
  LET p == ProcOf[f] IN
  IF Inode(f).bProcessLock
    THEN posix' = posix
    ELSE /\ m # "none" => \A b \in bs : Grantable(p, b, m)
         /\ posix' = SetBytes(p, bs, m)

\* A call of unixFileLock that returns -1: a conflict or an I/O error, which
\* cannot happen while the process lock makes every call a no-op.
FileLockFails(f) == ~Inode(f).bProcessLock /\ posix' = posix

SetInode(f, rec) == inode' = [inode EXCEPT ![pInode[f]] = rec]

SetBoth(f, level, rec) ==
  /\ eFileLock' = [eFileLock EXCEPT ![f] = level]
  /\ SetInode(f, rec)

Goto(f, label) == pc' = [pc EXCEPT ![f] = label]

\* The early BUSY of Lock: another file of this process holds a lock that
\* precludes the request.
SiblingPrecludes(f, req) ==
  /\ eFileLock[f] # Inode(f).eFileLock
  /\ Inode(f).eFileLock >= PENDING_LOCK \/ req > SHARED_LOCK

-----------------------------------------------------------------------------
(***************************************************************************)
(* Lock(SHARED_LOCK).                                                      *)
(***************************************************************************)
StartShared(f) ==
  /\ MutexFree(f)
  /\ eFileLock[f] = NO_LOCK
  /\ ~SiblingPrecludes(f, SHARED_LOCK)

\* Mutant: nShared is not incremented for a second reader of the process.
JoinSharedM(f) ==
  /\ StartShared(f)
  /\ Inode(f).eFileLock \in {SHARED_LOCK, RESERVED_LOCK}
  /\ SetBoth(f, SHARED_LOCK, [Inode(f) EXCEPT !.nLock = @ + 1])
  /\ UNCHANGED <<pInode, posix, pc>>

\* A sibling already holds SHARED or RESERVED: only the counters move.
JoinShared(f) ==
  /\ StartShared(f)
  /\ Inode(f).eFileLock \in {SHARED_LOCK, RESERVED_LOCK}
  /\ SetBoth(f, SHARED_LOCK, [Inode(f) EXCEPT !.nShared = @ + 1, !.nLock = @ + 1])
  /\ UNCHANGED <<pInode, posix, pc>>

\* Mutant: SHARED is taken without looking at PENDING_BYTE.
PendingForSharedM(f) ==
  /\ StartShared(f)
  /\ Inode(f).eFileLock = NO_LOCK
  /\ Goto(f, "sharedRange")
  /\ UNCHANGED <<eFileLock, pInode, inode, posix>>

\* First call: a read-lock on PENDING_BYTE.  Under unix-excl the first call
\* write-locks the shared range for the process instead.
PendingForShared(f) ==
  /\ StartShared(f)
  /\ Inode(f).eFileLock = NO_LOCK
  /\ IF ProcOf[f] \in ExclProcs /\ ~Inode(f).bProcessLock
       THEN /\ Grantable(ProcOf[f], "SHARED", "wr")
            /\ posix' = SetBytes(ProcOf[f], {"SHARED"}, "wr")
            /\ SetInode(f, [Inode(f) EXCEPT !.bProcessLock = TRUE, !.nLock = @ + 1])
       ELSE /\ FileLock(f, {"PENDING"}, "rd")
            /\ UNCHANGED inode
  /\ Goto(f, "sharedRange")
  /\ UNCHANGED <<eFileLock, pInode>>

\* Second call: a read-lock on the shared range, granted or not.
RangeForShared(f) ==
  /\ pc[f] = "sharedRange"
  /\ \/ FileLock(f, {"SHARED"}, "rd") /\ Goto(f, "dropPendingOk")
     \/ FileLockFails(f) /\ Goto(f, "dropPendingErr")
  /\ UNCHANGED <<eFileLock, pInode, inode>>

\* Third call: drop PENDING_BYTE.  SHARED is held only if both calls succeed.
DropPending(f) ==
  /\ pc[f] \in {"dropPendingOk", "dropPendingErr"}
  /\ \/ /\ FileLock(f, {"PENDING"}, "none")
        /\ IF pc[f] = "dropPendingOk"
             THEN SetBoth(f, SHARED_LOCK,
                    [Inode(f) EXCEPT !.eFileLock = SHARED_LOCK, !.nShared = 1, !.nLock = @ + 1])
             ELSE UNCHANGED <<eFileLock, inode>>
     \/ FileLockFails(f) /\ UNCHANGED <<eFileLock, inode>>
  /\ Goto(f, "idle")
  /\ UNCHANGED pInode

-----------------------------------------------------------------------------
(***************************************************************************)
(* Lock(RESERVED_LOCK) and Lock(EXCLUSIVE_LOCK).  EXCLUSIVE is requested   *)
(* from SHARED (rolling back a hot journal), from RESERVED, or again from  *)
(* PENDING after a failed attempt.                                         *)
(***************************************************************************)
LockReserved(f) ==
  /\ MutexFree(f)
  /\ eFileLock[f] = SHARED_LOCK
  /\ ~SiblingPrecludes(f, RESERVED_LOCK)
  /\ FileLock(f, {"RESERVED"}, "wr")
  /\ SetBoth(f, RESERVED_LOCK, [Inode(f) EXCEPT !.eFileLock = RESERVED_LOCK])
  /\ UNCHANGED <<pInode, pc>>

PendingForExclusive(f) ==
  /\ MutexFree(f)
  /\ eFileLock[f] \in {SHARED_LOCK, RESERVED_LOCK, PENDING_LOCK}
  /\ ~SiblingPrecludes(f, EXCLUSIVE_LOCK)
  /\ IF eFileLock[f] < PENDING_LOCK
       THEN FileLock(f, {"PENDING"}, "wr")
       ELSE UNCHANGED posix
  /\ Goto(f, "exclusiveRange")
  /\ UNCHANGED <<eFileLock, pInode, inode>>

\* Mutant: a reading sibling is overlooked.
RangeForExclusiveM(f) ==
  /\ pc[f] = "exclusiveRange"
  /\ FileLock(f, {"SHARED"}, "wr")
  /\ SetBoth(f, EXCLUSIVE_LOCK, [Inode(f) EXCEPT !.eFileLock = EXCLUSIVE_LOCK])
  /\ Goto(f, "idle")
  /\ UNCHANGED pInode

\* A sibling that still reads, or a conflict on the shared range, leaves the
\* file at PENDING_LOCK.
RangeForExclusive(f) ==
  /\ pc[f] = "exclusiveRange"
  /\ \/ /\ Inode(f).nShared <= 1
        /\ FileLock(f, {"SHARED"}, "wr")
        /\ SetBoth(f, EXCLUSIVE_LOCK, [Inode(f) EXCEPT !.eFileLock = EXCLUSIVE_LOCK])
     \/ /\ \/ Inode(f).nShared > 1 /\ UNCHANGED posix
           \/ Inode(f).nShared <= 1 /\ FileLockFails(f)
        /\ SetBoth(f, PENDING_LOCK, [Inode(f) EXCEPT !.eFileLock = PENDING_LOCK])
  /\ Goto(f, "idle")
  /\ UNCHANGED pInode

-----------------------------------------------------------------------------
(***************************************************************************)
(* posixUnlock.                                                            *)
(***************************************************************************)
\* Unlock(SHARED_LOCK), first call: the shared range becomes read-locked.
DowngradeRange(f) ==
  /\ MutexFree(f)
  /\ eFileLock[f] > SHARED_LOCK
  /\ FileLock(f, {"SHARED"}, "rd")
  /\ Goto(f, "downgrade")
  /\ UNCHANGED <<eFileLock, pInode, inode>>

\* Second call: drop PENDING_BYTE and RESERVED_BYTE together.
DowngradeBytes(f) ==
  /\ pc[f] = "downgrade"
  /\ \/ /\ FileLock(f, {"PENDING", "RESERVED"}, "none")
        /\ SetBoth(f, SHARED_LOCK, [Inode(f) EXCEPT !.eFileLock = SHARED_LOCK])
     \/ FileLockFails(f) /\ UNCHANGED <<eFileLock, inode>>
  /\ Goto(f, "idle")
  /\ UNCHANGED pInode

\* Mutant: the whole file is unlocked before the counters are consulted.
ReleaseBytesM(f) ==
  /\ MutexFree(f)
  /\ eFileLock[f] > SHARED_LOCK
  /\ FileLock(f, Bytes, "none")
  /\ SetInode(f, [Inode(f) EXCEPT !.eFileLock = SHARED_LOCK])
  /\ Goto(f, "release")
  /\ UNCHANGED <<eFileLock, pInode>>

\* Unlock(NO_LOCK) of a writer starts with the same call on both bytes.
ReleaseBytes(f) ==
  /\ MutexFree(f)
  /\ eFileLock[f] > SHARED_LOCK
  /\ FileLock(f, {"PENDING", "RESERVED"}, "none")
  /\ SetInode(f, [Inode(f) EXCEPT !.eFileLock = SHARED_LOCK])
  /\ Goto(f, "release")
  /\ UNCHANGED <<eFileLock, pInode>>

\* closePendingFds: close() of any descriptor drops every lock the process
\* holds on the file.
AfterClosing(p, locks, closed) == IF closed THEN [locks EXCEPT ![p] = NoLocks] ELSE locks

\* The rest of Unlock(NO_LOCK): drop the whole-file lock with the last shared
\* lock of the process (the levels fall even when that call fails), then close
\* the descriptors whose close was deferred once no lock is left.
ReleaseShared(f) ==
  /\ \/ pc[f] = "release"
     \/ MutexFree(f) /\ eFileLock[f] = SHARED_LOCK
  /\ LET ino == Inode(f)
         last == ino.nShared = 1
         closes == ino.nLock = 1 /\ ino.pUnused > 0
         freed == SetBytes(ProcOf[f], Bytes, "none")
     IN /\ \E locks \in IF last /\ ~ino.bProcessLock THEN {freed, posix} ELSE {posix} :
             posix' = AfterClosing(ProcOf[f], locks, closes)
        /\ SetBoth(f, NO_LOCK,
             [ino EXCEPT !.nShared = @ - 1,
                         !.nLock = @ - 1,
                         !.eFileLock = IF last THEN NO_LOCK ELSE @,
                         !.pUnused = IF closes THEN 0 ELSE @])
  /\ Goto(f, "idle")
  /\ UNCHANGED pInode

\* Mutant: siblings of the same process are not asked.
CheckReservedLockM(f) ==
  ~Inode(f).bProcessLock /\ ~Grantable(ProcOf[f], "RESERVED", "wr")

\* CheckReservedLock(f): a sibling above SHARED_LOCK, or another process with
\* a lock on RESERVED_BYTE.
CheckReservedLock(f) ==
  \/ Inode(f).eFileLock > SHARED_LOCK
  \/ /\ ~Inode(f).bProcessLock
     /\ ~Grantable(ProcOf[f], "RESERVED", "wr")
-----------------------------------------------------------------------------
FreshInode == [eFileLock |-> NO_LOCK, bProcessLock |-> FALSE, nShared |-> 0,
               nLock |-> 0, nRef |-> 1, pUnused |-> 0]

\* Every file is open and attached to its process's first unixInodeInfo.
Init ==
  /\ eFileLock = [f \in Files |-> NO_LOCK]
  /\ pInode = [f \in Files |-> <<ProcOf[f], 0>>]
  /\ inode = [i \in InodeIds |-> FreshInode]
  /\ posix = [p \in Procs |-> NoLocks]
  /\ pc = [f \in Files |-> "idle"]

LockStep(f) ==
  \/ JoinShared(f)
  \/ PendingForShared(f)
  \/ RangeForShared(f)
  \/ DropPending(f)
  \/ LockReserved(f)
  \/ PendingForExclusive(f)
  \/ RangeForExclusive(f)
  \/ DowngradeRange(f)
  \/ DowngradeBytes(f)
  \/ ReleaseBytes(f)
  \/ ReleaseShared(f)

Next == \E f \in Files : LockStep(f)

Spec == Init /\ [][Next]_lockVars

-----------------------------------------------------------------------------
(***************************************************************************)
(* Properties.                                                             *)
(***************************************************************************)
PcLabels == {"idle", "sharedRange", "dropPendingOk", "dropPendingErr",
             "exclusiveRange", "downgrade", "release"}

InodeRec == [eFileLock : LockLevels, bProcessLock : BOOLEAN, nShared : Nat,
             nLock : Nat, nRef : Nat, pUnused : Nat]

TypeOK ==
  /\ eFileLock \in [Files -> LockLevels]
  /\ pInode \in [Files -> InodeIds]
  /\ inode \in [InodeIds -> InodeRec]
  /\ posix \in [Procs -> [Bytes -> Modes]]
  /\ pc \in [Files -> PcLabels]

\* The level a file still relies on: once Unlock(NO_LOCK) has given up both
\* bytes, only the shared lock is left to release.
Level(f) == IF pc[f] = "release" THEN SHARED_LOCK ELSE eFileLock[f]

\* The purpose of Lock(EXCLUSIVE_LOCK): while one connection holds EXCLUSIVE,
\* no connection of any process holds any lock, whatever fcntl() calls failed.
MutualExclusion ==
  \A f, g \in Files :
    f # g /\ Level(f) = EXCLUSIVE_LOCK => eFileLock[g] = NO_LOCK

\* Two connections never both hold RESERVED (two writers preparing a commit),
\* and never both PENDING or more (two writers waiting for the readers).
OneWriterPerLevel ==
  \A f, g \in Files :
    f # g => /\ ~(Level(f) = RESERVED_LOCK /\ Level(g) = RESERVED_LOCK)
             /\ ~(Level(f) >= PENDING_LOCK /\ Level(g) >= PENDING_LOCK)

Holders(i) == {f \in Files : pInode[f] = i /\ eFileLock[f] >= SHARED_LOCK}

\* The counters and the level that the files of a process share summarise
\* those files: nShared and nLock count the holders, and eFileLock is the
\* highest level (posixUnlock relies on them to know the last holder).
InodeSummary ==
  \A f \in Files :
    LET ino == Inode(f)
        mine == Holders(pInode[f])
    IN /\ ino.nShared = Cardinality(mine)
       /\ ino.nLock = Cardinality(mine) + (IF ino.bProcessLock THEN 1 ELSE 0)
       /\ Level(f) <= ino.eFileLock
       /\ ino.eFileLock # NO_LOCK => \E g \in mine : Level(g) = ino.eFileLock

\* What the files believe is what the operating system enforces: a holder of
\* SHARED has the shared range locked, a RESERVED holder RESERVED_BYTE, a
\* PENDING holder PENDING_BYTE, and an EXCLUSIVE holder keeps PENDING_BYTE or
\* the whole range for writing even when a downgrade failed halfway.
BeliefsBacked ==
  \A f \in Files :
    LET held == posix[ProcOf[f]] IN
    IF Inode(f).bProcessLock
      THEN held["SHARED"] = "wr"
      ELSE /\ eFileLock[f] >= SHARED_LOCK => held["SHARED"] # "none"
           /\ pc[f] # "release" =>
                /\ eFileLock[f] = RESERVED_LOCK => held["RESERVED"] = "wr"
                /\ eFileLock[f] >= PENDING_LOCK => held["PENDING"] = "wr"

\* A reader whose CheckReservedLock returns false may treat a journal it finds
\* as hot (hasHotJournal): no other connection is at RESERVED at that moment.
NoReservedUnseen ==
  \A f \in Files :
    /\ MutexFree(f)
    /\ eFileLock[f] >= SHARED_LOCK
    /\ ~CheckReservedLock(f)
    => \A g \in Files \ {f} : Level(g) # RESERVED_LOCK

\* A waiting writer keeps new processes out: while f stays at PENDING or more,
\* a connection obtains SHARED only by joining a sibling that already reads.
PendingKeepsProcessesOut ==
  [][\A f, g \in Files :
       /\ f # g
       /\ Level(f) >= PENDING_LOCK /\ Level(f)' >= PENDING_LOCK
       /\ eFileLock[g] = NO_LOCK /\ eFileLock'[g] = SHARED_LOCK
       => \E h \in Files \ {g} : pInode[h] = pInode[g] /\ eFileLock[h] >= SHARED_LOCK
    ]_lockVars
=============================================================================
