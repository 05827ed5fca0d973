------------------------------ MODULE ShmLock ------------------------------
(***************************************************************************)
(* unixShmLock: the locks of connections on the bytes of a wal-index, kept *)
(* as two masks per connection and one POSIX lock per process and byte.    *)
(* The mutex of the unixShmNode makes a call atomic within its process,    *)
(* and its single fcntl() makes it atomic between processes.  The calls    *)
(* that return SQLITE_BUSY change nothing and are no steps.                *)
(*                                                                         *)
(* The module starts from what the assertions of unixShmLock demand, an    *)
(* open shared-memory file (pShmNode.h>=0); whether OpenSharedMemory       *)
(* delivers one is a question of module ShmNode.                           *)
(***************************************************************************)
EXTENDS Integers

CONSTANTS ShmProcs, ShmConns, ShmProcOf,
          NLock    \* SQLITE_SHM_NLOCK

ASSUME ShmProcOfAssumption == ShmProcOf \in [ShmConns -> ShmProcs]
ASSUME NLockAssumption == NLock \in Nat \ {0}

LockIds == 0..(NLock - 1)

VARIABLES sharedMask, exclMask,  \* of each connection
          sys                    \* the lock of each process on each byte
shmVars == <<sharedMask, exclMask, sys>>

-----------------------------------------------------------------------------
\* The connections on the pFirst list of the unixShmNode of c, c included.
Siblings(c) == {d \in ShmConns : ShmProcOf[d] = ShmProcOf[c]}

\* The locks a call is about.
Mask(ofst, n) == ofst..(ofst + n - 1)

\* fcntl(F_SETLK) on the bytes of ls: other processes must allow it.
CanRead(p, ls) == \A q \in ShmProcs \ {p}, l \in ls : sys[q][l] # "wr"
CanWrite(p, ls) == \A q \in ShmProcs \ {p}, l \in ls : sys[q][l] = "none"

\* unixShmSystemLock, granted.
SystemLock(p, type, ls) ==
  sys' = [sys EXCEPT ![p] = [l \in LockIds |-> IF l \in ls THEN type ELSE @[l]]]

-----------------------------------------------------------------------------
LockShared(c, l) ==
  /\ \A d \in Siblings(c) : l \notin exclMask[d]
  /\ IF \E d \in Siblings(c) : l \in sharedMask[d]
       THEN UNCHANGED sys
       ELSE CanRead(ShmProcOf[c], {l}) /\ SystemLock(ShmProcOf[c], "rd", {l})
  /\ sharedMask' = [sharedMask EXCEPT ![c] = @ \cup {l}]
  /\ UNCHANGED exclMask

\* Mutant: only exclusive locks of siblings are looked for.
LockExclusiveM(c, ofst, n) ==
  LET mask == Mask(ofst, n) IN
  /\ \A d \in Siblings(c) : mask \cap exclMask[d] = {}
  /\ CanWrite(ShmProcOf[c], mask)
  /\ SystemLock(ShmProcOf[c], "wr", mask)
  /\ exclMask' = [exclMask EXCEPT ![c] = @ \cup mask]
  /\ UNCHANGED sharedMask

LockExclusive(c, ofst, n) ==
  LET mask == Mask(ofst, n) IN
  /\ \A d \in Siblings(c) : mask \cap (exclMask[d] \cup sharedMask[d]) = {}
  /\ CanWrite(ShmProcOf[c], mask)
  /\ SystemLock(ShmProcOf[c], "wr", mask)
  /\ exclMask' = [exclMask EXCEPT ![c] = @ \cup mask]
  /\ UNCHANGED sharedMask

\* Mutant: siblings that share the lock are not looked for.
UnlockM(c, ofst, n) ==
  LET mask == Mask(ofst, n) IN
  /\ mask \subseteq sharedMask[c] \/ mask \subseteq exclMask[c]
  /\ SystemLock(ShmProcOf[c], "none", mask)
  /\ sharedMask' = [sharedMask EXCEPT ![c] = @ \ mask]
  /\ exclMask' = [exclMask EXCEPT ![c] = @ \ mask]

\* The callers unlock only what they hold.  The system lock stays if a sibling
\* shares one of the locks.
Unlock(c, ofst, n) ==
  LET mask == Mask(ofst, n) IN
  /\ mask \subseteq sharedMask[c] \/ mask \subseteq exclMask[c]
  /\ IF \E d \in Siblings(c) \ {c} : mask \cap sharedMask[d] # {}
       THEN UNCHANGED sys
       ELSE SystemLock(ShmProcOf[c], "none", mask)
  /\ sharedMask' = [sharedMask EXCEPT ![c] = @ \ mask]
  /\ exclMask' = [exclMask EXCEPT ![c] = @ \ mask]

\* A process exits: the kernel drops its locks, its connections are gone.
Exit(p) ==
  /\ sharedMask' = [c \in ShmConns |-> IF ShmProcOf[c] = p THEN {} ELSE sharedMask[c]]
  /\ exclMask' = [c \in ShmConns |-> IF ShmProcOf[c] = p THEN {} ELSE exclMask[c]]
  /\ sys' = [sys EXCEPT ![p] = [l \in LockIds |-> "none"]]

-----------------------------------------------------------------------------
ShmInit ==
  /\ sharedMask = [c \in ShmConns |-> {}]
  /\ exclMask = [c \in ShmConns |-> {}]
  /\ sys = [p \in ShmProcs |-> [l \in LockIds |-> "none"]]

\* Ranges as the assertions of unixShmLock and unixShmSystemLock allow them;
\* a shared lock is on one byte.
Ranges == {r \in LockIds \X (1..NLock) : r[2] < NLock /\ r[1] + r[2] <= NLock}

ShmNext ==
  \/ \E c \in ShmConns, l \in LockIds : LockShared(c, l) \/ Unlock(c, l, 1)
  \/ \E c \in ShmConns, r \in Ranges :
       \/ LockExclusive(c, r[1], r[2])
       \/ Mask(r[1], r[2]) \subseteq exclMask[c] /\ Unlock(c, r[1], r[2])
  \/ \E p \in ShmProcs : Exit(p)

ShmSpec == ShmInit /\ [][ShmNext]_shmVars

-----------------------------------------------------------------------------
(***************************************************************************)
(* Properties.                                                             *)
(***************************************************************************)
\* The masks are sets of locks and every process has one lock state per byte.
ShmTypeOK ==
  /\ sharedMask \in [ShmConns -> SUBSET LockIds]
  /\ exclMask \in [ShmConns -> SUBSET LockIds]
  /\ sys \in [ShmProcs -> [LockIds -> {"none", "rd", "wr"}]]

\* The system locks of a process are exactly what its connections need: a write
\* lock while one of them is exclusive, a read lock while some of them share,
\* and none otherwise (the sibling loops of unixShmLock).
SystemSummary ==
  \A p \in ShmProcs, l \in LockIds :
    /\ sys[p][l] = "wr" <=> \E c \in ShmConns : ShmProcOf[c] = p /\ l \in exclMask[c]
    /\ sys[p][l] = "rd" <=> \E c \in ShmConns : ShmProcOf[c] = p /\ l \in sharedMask[c]

\* The assertion in the unlock branch of unixShmLock, for all connections and
\* not only siblings: what one connection holds exclusively, no other holds.
ExclusiveAlone ==
  \A c, d \in ShmConns : c # d => exclMask[c] \cap (exclMask[d] \cup sharedMask[d]) = {}

\* unixShmLock gives connections the locks module ConnLocks describes, although
\* the kernel only knows processes.
holders(mask) == [l \in LockIds |-> {c \in ShmConns : l \in mask[c]}]
Locks == INSTANCE ConnLocks WITH Conns <- ShmConns, shared <- holders(sharedMask), excl <- holders(exclMask)
ImplementsConnLocks == Locks!Spec
=============================================================================
