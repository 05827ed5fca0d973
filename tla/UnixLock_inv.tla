---------------------------- MODULE UnixLock_inv ----------------------------
(***************************************************************************)
(* The locks of UnixLock are safe for any number of processes and          *)
(* connections.  IInv strengthens the properties with what each pending    *)
(* fcntl() call has already established.                                   *)
(***************************************************************************)
EXTENDS UnixLock, FiniteSetTheorems, TLAPS

Attached == \A f \in Files : pInode[f] = <<ProcOf[f], 0>>

\* The mutex: at most one file of a process is between two calls.
MutexInv ==
  \A f, g \in Files : f # g /\ ProcOf[f] = ProcOf[g] => pc[f] = "idle" \/ pc[g] = "idle"

SharedPc == {"sharedRange", "dropPendingOk", "dropPendingErr"}

\* What the label of a file in mid-operation says about its levels.
PcInv ==
  \A f \in Files :
    /\ pc[f] \in SharedPc => Inode(f).eFileLock = NO_LOCK
    /\ pc[f] = "exclusiveRange" =>
         Inode(f).eFileLock = eFileLock[f] /\ eFileLock[f] \in {SHARED_LOCK, RESERVED_LOCK, PENDING_LOCK}
    /\ pc[f] = "downgrade" => eFileLock[f] > SHARED_LOCK
    /\ pc[f] = "release" => eFileLock[f] > SHARED_LOCK /\ Inode(f).eFileLock = SHARED_LOCK

CountInv ==
  \A f \in Files :
    /\ Inode(f).nShared = Cardinality(Holders(pInode[f]))
    /\ Inode(f).nLock = Inode(f).nShared + (IF Inode(f).bProcessLock THEN 1 ELSE 0)
    /\ Inode(f).pUnused = 0

LevelInv ==
  \A f \in Files :
    /\ Level(f) <= Inode(f).eFileLock
    /\ Inode(f).eFileLock # NO_LOCK =>
         \E g \in Files : ProcOf[g] = ProcOf[f] /\ Level(g) = Inode(f).eFileLock

\* At most one file of a process is above SHARED.
OneAbove ==
  \A f, g \in Files :
    ProcOf[f] = ProcOf[g] /\ Level(f) > SHARED_LOCK /\ Level(g) > SHARED_LOCK => f = g

\* The system never grants conflicting locks.
PosixInv ==
  \A p, q \in Procs : \A b \in Bytes :
    p # q /\ posix[p][b] = "wr" => posix[q][b] = "none"

BackedInv ==
  \A f \in Files :
    LET held == posix[ProcOf[f]] IN
    IF Inode(f).bProcessLock
      THEN held["SHARED"] = "wr"
      ELSE /\ eFileLock[f] >= SHARED_LOCK \/ pc[f] = "dropPendingOk" => held["SHARED"] # "none"
           /\ Level(f) = RESERVED_LOCK => held["RESERVED"] = "wr"
           /\ Level(f) >= PENDING_LOCK \/ pc[f] = "exclusiveRange" => held["PENDING"] = "wr"
           /\ pc[f] \in SharedPc => held["PENDING"] # "none"

IInv ==
  /\ TypeOK
  /\ Attached
  /\ MutexInv
  /\ PcInv
  /\ CountInv
  /\ LevelInv
  /\ OneAbove
  /\ PosixInv
  /\ BackedInv
  /\ MutualExclusion

-----------------------------------------------------------------------------
(***************************************************************************)
(* What the building blocks of the actions do.                             *)
(***************************************************************************)
\* A successful unixFileLock changes only the bytes it names, of its own
\* process, and keeps the locks of different processes compatible.
LEMMA FileLockEffect ==
  ASSUME TypeOK, PosixInv, NEW f \in Files, NEW bs \in SUBSET Bytes, NEW m \in Modes,
         FileLock(f, bs, m)
  PROVE  /\ posix' \in [Procs -> [Bytes -> Modes]]
         /\ PosixInv'
         /\ \A q \in Procs : q # ProcOf[f] => posix'[q] = posix[q]
         /\ Inode(f).bProcessLock => posix' = posix
         /\ ~Inode(f).bProcessLock =>
              \A b \in Bytes : posix'[ProcOf[f]][b] = IF b \in bs THEN m ELSE posix[ProcOf[f]][b]
<1> DEFINE p == ProcOf[f]
<1>1. p \in Procs
  BY ProcOfAssumption
<1>2. CASE Inode(f).bProcessLock
  BY <1>2 DEF FileLock, TypeOK, PosixInv
<1>3. CASE ~Inode(f).bProcessLock
  <2>1. /\ m # "none" => \A b \in bs : Grantable(p, b, m)
        /\ posix' = SetBytes(p, bs, m)
    BY <1>3 DEF FileLock
  <2>2. /\ posix' \in [Procs -> [Bytes -> Modes]]
        /\ \A q \in Procs : q # p => posix'[q] = posix[q]
        /\ \A b \in Bytes : posix'[p][b] = IF b \in bs THEN m ELSE posix[p][b]
    BY <1>1, <2>1 DEF SetBytes, TypeOK
  <2>3. PosixInv'
    <3> SUFFICES ASSUME NEW q \in Procs, NEW r \in Procs, NEW b \in Bytes,
                        q # r, posix'[q][b] = "wr"
                 PROVE  posix'[r][b] = "none"
      BY DEF PosixInv
    <3>1. CASE q = p
      BY <2>1, <2>2 DEF Grantable, PosixInv
    <3>2. CASE r = p
      BY <2>1, <2>2 DEF Grantable, PosixInv
    <3>3. CASE q # p /\ r # p
      BY <2>2, <3>3 DEF PosixInv
    <3> QED BY <3>1, <3>2, <3>3
  <2> QED BY <1>3, <2>2, <2>3
<1> QED BY <1>2, <1>3

\* Assigning to the unixInodeInfo of f is seen by f and its siblings only.
LEMMA SetInodeEffect ==
  ASSUME TypeOK, Attached, NEW f \in Files, NEW rec \in InodeRec,
         SetInode(f, rec), pInode' = pInode
  PROVE  /\ inode' \in [InodeIds -> InodeRec]
         /\ \A g \in Files : inode'[pInode[g]] =
              IF ProcOf[g] = ProcOf[f] THEN rec ELSE inode[pInode[g]]
  BY DEF SetInode, TypeOK, Attached

\* The set of holders is finite, and grows and shrinks by one file at a time.
LEMMA HoldersChange ==
  ASSUME TypeOK, NEW f \in Files, pInode' = pInode, eFileLock'[f] \in 0..4,
         \A h \in Files : h # f => eFileLock'[h] = eFileLock[h],
         NEW g \in Files
  PROVE  /\ (eFileLock'[f] >= 1 <=> eFileLock[f] >= 1) \/ pInode[g] # pInode[f] =>
              Holders(pInode[g])' = Holders(pInode[g])
         /\ pInode[g] = pInode[f] /\ eFileLock'[f] >= 1 /\ eFileLock[f] = 0 =>
              Cardinality(Holders(pInode[g]))' = Cardinality(Holders(pInode[g])) + 1
         /\ pInode[g] = pInode[f] /\ eFileLock'[f] = 0 /\ eFileLock[f] >= 1 =>
              Cardinality(Holders(pInode[g]))' = Cardinality(Holders(pInode[g])) - 1
<1> DEFINE i == pInode[g]
<1> USE DEF Holders, TypeOK, SHARED_LOCK, LockLevels
<1>1. IsFiniteSet(Holders(i))
  BY FilesAssumption, FS_Subset
<1>2. (eFileLock'[f] >= 1 <=> eFileLock[f] >= 1) \/ i # pInode[f] => Holders(i)' = Holders(i)
  OBVIOUS
<1>3. ASSUME i = pInode[f], eFileLock'[f] >= 1, eFileLock[f] = 0
      PROVE  Cardinality(Holders(i))' = Cardinality(Holders(i)) + 1
  <2>1. Holders(i)' = Holders(i) \cup {f} /\ f \notin Holders(i)
    BY <1>3
  <2> HIDE DEF Holders
  <2>2. Cardinality(Holders(i) \cup {f}) = IF f \in Holders(i) THEN Cardinality(Holders(i)) ELSE Cardinality(Holders(i)) + 1
    BY <1>1, FS_AddElement, Zenon
  <2> QED BY <2>1, <2>2, Zenon
<1>4. ASSUME i = pInode[f], eFileLock'[f] = 0, eFileLock[f] >= 1
      PROVE  Cardinality(Holders(i))' = Cardinality(Holders(i)) - 1
  <2>1. Holders(i)' = Holders(i) \ {f} /\ f \in Holders(i)
    BY <1>4
  <2> HIDE DEF Holders
  <2>2. Cardinality(Holders(i) \ {f}) = IF f \in Holders(i) THEN Cardinality(Holders(i)) - 1 ELSE Cardinality(Holders(i))
    BY <1>1, FS_RemoveElement, Zenon
  <2> QED BY <2>1, <2>2, Zenon
<1> QED BY <1>3, <1>4

\* nShared = 0 means no holder, nShared = 1 means one.
LEMMA FewHolders ==
  ASSUME TypeOK, NEW i
  PROVE  /\ Cardinality(Holders(i)) = 0 => Holders(i) = {}
         /\ Cardinality(Holders(i)) <= 1 => \A g, h \in Holders(i) : g = h
         /\ Holders(i) = {} => Cardinality(Holders(i)) = 0
         /\ Cardinality(Holders(i)) # 1 => \A g \in Holders(i) : \E h \in Holders(i) : h # g
         /\ Cardinality(Holders(i)) \in Nat
<1>1. IsFiniteSet(Holders(i))
  BY FilesAssumption, FS_Subset DEF Holders
<1>2. Cardinality(Holders(i)) \in Nat
  BY <1>1, FS_CardinalityType
<1>3. Cardinality(Holders(i)) = 0 <=> Holders(i) = {}
  BY <1>1, FS_EmptySet
<1>4. Cardinality(Holders(i)) = 1 <=> \E x : Holders(i) = {x}
  BY <1>1, FS_Singleton
<1>5. ASSUME Cardinality(Holders(i)) <= 1 PROVE \A g, h \in Holders(i) : g = h
  <2>1. Cardinality(Holders(i)) = 0 \/ Cardinality(Holders(i)) = 1
    BY <1>2, <1>5
  <2> QED BY <2>1, <1>3, <1>4
<1>6. ASSUME Cardinality(Holders(i)) # 1, NEW g \in Holders(i)
      PROVE  \E h \in Holders(i) : h # g
  BY <1>4, <1>6
<1> QED BY <1>2, <1>3, <1>5, <1>6

-----------------------------------------------------------------------------
(***************************************************************************)
(* Every action preserves the invariant.                                   *)
(***************************************************************************)
\* The types of what the actions read, one fact per field.
LEMMA Fields ==
  ASSUME IInv
  PROVE  /\ \A g \in Files :
              /\ ProcOf[g] \in Procs
              /\ eFileLock[g] \in 0..4
              /\ Inode(g).eFileLock \in 0..4
              /\ Inode(g).bProcessLock \in BOOLEAN
              /\ Inode(g).nShared \in Nat
              /\ Inode(g).nLock \in Nat
              /\ pInode[g] \in InodeIds
         /\ \A g, h \in Files :
              /\ ProcOf[g] = ProcOf[h] => Inode(g) = Inode(h)
              /\ pInode[g] = pInode[h] <=> ProcOf[g] = ProcOf[h]
<1> USE DEF IInv, TypeOK
<1>1. \A g \in Files : inode[pInode[g]] \in InodeRec /\ pInode[g] \in InodeIds
  OBVIOUS
<1>2. \A g \in Files : pInode[g] = <<ProcOf[g], 0>>
  BY DEF Attached
<1>3. \A g, h \in Files : pInode[g] = pInode[h] <=> ProcOf[g] = ProcOf[h]
  BY <1>2
<1> QED BY <1>3, ProcOfAssumption DEF Inode, InodeRec, LockLevels

\* The assignments the actions make keep a unixInodeInfo well-typed.
LEMMA SetCounts ==
  ASSUME NEW r \in InodeRec, NEW n \in Nat, NEW k \in Nat
  PROVE  [r EXCEPT !.nShared = n, !.nLock = k] \in InodeRec
  BY Zenon DEF InodeRec

\* As SetCounts, when the process takes its lock under unix-excl.
LEMMA SetProcessLock ==
  ASSUME NEW r \in InodeRec, NEW k \in Nat
  PROVE  [r EXCEPT !.bProcessLock = TRUE, !.nLock = k] \in InodeRec
  BY Zenon DEF InodeRec

\* As SetCounts, when the first connection of the process gets SHARED.
LEMMA SetFirstShared ==
  ASSUME NEW r \in InodeRec, NEW a \in LockLevels, NEW n \in Nat, NEW k \in Nat
  PROVE  [r EXCEPT !.eFileLock = a, !.nShared = n, !.nLock = k] \in InodeRec
  BY Zenon DEF InodeRec

\* As SetCounts, when the level of the process changes.
LEMMA SetLevel ==
  ASSUME NEW r \in InodeRec, NEW a \in LockLevels
  PROVE  [r EXCEPT !.eFileLock = a] \in InodeRec
  BY Zenon DEF InodeRec

\* As SetCounts, when a connection lets its lock go.
LEMMA SetReleased ==
  ASSUME NEW r \in InodeRec, NEW a \in LockLevels, NEW n \in Nat, NEW k \in Nat, NEW u \in Nat
  PROVE  [r EXCEPT !.nShared = n, !.nLock = k, !.eFileLock = a, !.pUnused = u] \in InodeRec
  BY Zenon DEF InodeRec

\* Lock(SHARED_LOCK) preserves the invariant when a sibling holds the lock.
LEMMA JoinSharedStep ==
  ASSUME IInv, NEW f \in Files, JoinShared(f)
  PROVE  IInv'
<1> DEFINE rec == [Inode(f) EXCEPT !.nShared = @ + 1, !.nLock = @ + 1]
<1> USE DEF IInv, NO_LOCK, SHARED_LOCK, RESERVED_LOCK, PENDING_LOCK, EXCLUSIVE_LOCK
<1>1. /\ StartShared(f) /\ Inode(f).eFileLock \in {SHARED_LOCK, RESERVED_LOCK}
      /\ eFileLock' = [eFileLock EXCEPT ![f] = SHARED_LOCK] /\ SetInode(f, rec)
      /\ pInode' = pInode /\ posix' = posix /\ pc' = pc
  BY DEF JoinShared, SetBoth
<1>2. Inode(f) \in InodeRec /\ rec \in InodeRec
  <2>1. Inode(f) \in InodeRec /\ Inode(f).nShared + 1 \in Nat /\ Inode(f).nLock + 1 \in Nat
    BY Fields DEF TypeOK, Inode
  <2> QED BY <2>1, SetCounts, Zenon
<1>3. /\ inode' \in [InodeIds -> InodeRec]
      /\ \A g \in Files :
           IF ProcOf[g] = ProcOf[f]
             THEN /\ Inode(g)'.eFileLock = Inode(f).eFileLock
                  /\ Inode(g)'.bProcessLock = Inode(f).bProcessLock
                  /\ Inode(g)'.nShared = Inode(f).nShared + 1
                  /\ Inode(g)'.nLock = Inode(f).nLock + 1
                  /\ Inode(g)'.pUnused = Inode(f).pUnused
             ELSE Inode(g)' = Inode(g)
  <2>1. /\ rec.eFileLock = Inode(f).eFileLock /\ rec.bProcessLock = Inode(f).bProcessLock
        /\ rec.nShared = Inode(f).nShared + 1 /\ rec.nLock = Inode(f).nLock + 1
        /\ rec.pUnused = Inode(f).pUnused
    OBVIOUS
  <2> HIDE DEF rec
  <2> QED BY <1>1, <1>2, <2>1, SetInodeEffect DEF Inode
<1> HIDE DEF rec
<1>4. pc[f] = "idle" /\ eFileLock[f] = NO_LOCK
  BY <1>1 DEF StartShared, MutexFree
<1>5. \A g \in Files : eFileLock'[g] = IF g = f THEN SHARED_LOCK ELSE eFileLock[g]
  BY <1>1 DEF TypeOK
<1>6. PICK h \in Files : ProcOf[h] = ProcOf[f] /\ eFileLock[h] >= SHARED_LOCK
  BY Fields, <1>1 DEF LevelInv, Level, PcInv
<1>7. TypeOK'
  BY <1>1, <1>3 DEF TypeOK, LockLevels
<1>8. Attached' /\ MutexInv' /\ PosixInv'
  BY <1>1 DEF Attached, MutexInv, PosixInv
<1>9. PcInv'
  BY <1>1, <1>3 DEF PcInv, StartShared, MutexFree
<1>10. CountInv'
  <2> SUFFICES ASSUME NEW g \in Files PROVE CountInv!(g)'
    BY Fields DEF CountInv
  <2>1. /\ ProcOf[g] = ProcOf[f] =>
             Cardinality(Holders(pInode[g]))' = Cardinality(Holders(pInode[g])) + 1
        /\ ProcOf[g] # ProcOf[f] => Holders(pInode[g])' = Holders(pInode[g])
    BY Fields, <1>1, <1>4, <1>5, HoldersChange
  <2> QED BY Fields, <1>3, <2>1 DEF CountInv
<1>11. LevelInv'
  BY Fields, <1>1, <1>3, <1>4 DEF LevelInv, Level
<1>12. OneAbove'
  BY <1>1 DEF OneAbove, Level
<1>13. BackedInv'
  <2>1. ~Inode(f).bProcessLock => posix[ProcOf[f]]["SHARED"] # "none"
    BY <1>6 DEF BackedInv
  <2> QED BY Fields, <1>1, <1>3, <2>1 DEF BackedInv, Level
<1>14. MutualExclusion'
  BY Fields, <1>1, <1>6 DEF MutualExclusion, LevelInv, Level
<1> QED BY <1>7, <1>8, <1>9, <1>10, <1>11, <1>12, <1>13, <1>14

\* Lock(SHARED_LOCK), first call: the read-lock on PENDING_BYTE.
LEMMA PendingForSharedStep ==
  ASSUME IInv, NEW f \in Files, PendingForShared(f)
  PROVE  IInv'
<1> USE DEF IInv, NO_LOCK, SHARED_LOCK, RESERVED_LOCK, PENDING_LOCK, EXCLUSIVE_LOCK
<1>1. /\ StartShared(f) /\ Inode(f).eFileLock = NO_LOCK
      /\ eFileLock' = eFileLock /\ pInode' = pInode
      /\ pc' = [pc EXCEPT ![f] = "sharedRange"]
  BY DEF PendingForShared, Goto
<1>2. /\ pc[f] = "idle" /\ eFileLock[f] = NO_LOCK
      /\ \A g \in Files : ProcOf[g] = ProcOf[f] => pc[g] = "idle" /\ eFileLock[g] = NO_LOCK
  BY Fields, <1>1 DEF StartShared, MutexFree, LevelInv, Level
<1>3. \A g \in Files : pc'[g] = IF g = f THEN "sharedRange" ELSE pc[g]
  BY <1>1 DEF TypeOK
<1>4. \A g \in Files : Level(g)' = Level(g) /\ Holders(pInode[g])' = Holders(pInode[g])
  BY <1>1, <1>2 DEF Level, Holders
<1>5. Attached' /\ MutexInv' /\ OneAbove' /\ MutualExclusion'
  BY <1>1, <1>2, <1>4 DEF Attached, MutexInv, OneAbove, MutualExclusion
<1>6. CASE ProcOf[f] \in ExclProcs /\ ~Inode(f).bProcessLock
  <2> DEFINE rec == [Inode(f) EXCEPT !.bProcessLock = TRUE, !.nLock = @ + 1]
  <2>1. /\ Grantable(ProcOf[f], "SHARED", "wr")
        /\ posix' = SetBytes(ProcOf[f], {"SHARED"}, "wr")
        /\ SetInode(f, rec)
    BY <1>6 DEF PendingForShared
  <2>2. Inode(f) \in InodeRec /\ rec \in InodeRec
    <3>1. Inode(f) \in InodeRec /\ Inode(f).nLock + 1 \in Nat
      BY Fields DEF TypeOK, Inode
    <3> QED BY <3>1, SetProcessLock, Zenon
  <2>3. /\ inode' \in [InodeIds -> InodeRec]
        /\ \A g \in Files :
             IF ProcOf[g] = ProcOf[f]
               THEN /\ Inode(g)'.eFileLock = Inode(f).eFileLock
                    /\ Inode(g)'.bProcessLock
                    /\ Inode(g)'.nShared = Inode(f).nShared
                    /\ Inode(g)'.nLock = Inode(f).nLock + 1
                    /\ Inode(g)'.pUnused = Inode(f).pUnused
               ELSE Inode(g)' = Inode(g)
    <3>1. /\ rec.eFileLock = Inode(f).eFileLock /\ rec.bProcessLock
          /\ rec.nShared = Inode(f).nShared /\ rec.nLock = Inode(f).nLock + 1
          /\ rec.pUnused = Inode(f).pUnused
      OBVIOUS
    <3> HIDE DEF rec
    <3> QED BY <1>1, <2>1, <2>2, <3>1, SetInodeEffect DEF Inode
  <2> HIDE DEF rec
  <2>4. /\ posix' \in [Procs -> [Bytes -> Modes]]
        /\ \A q \in Procs : q # ProcOf[f] => posix'[q] = posix[q]
        /\ \A b \in Bytes : posix'[ProcOf[f]][b] = IF b = "SHARED" THEN "wr" ELSE posix[ProcOf[f]][b]
    BY Fields, <2>1 DEF SetBytes, TypeOK, Modes
  <2>5. TypeOK'
    BY <1>1, <2>3, <2>4 DEF TypeOK, PcLabels
  <2>6. PcInv' /\ LevelInv'
    BY Fields, <1>1, <1>4, <2>3 DEF PcInv, LevelInv
  <2>7. CountInv'
    BY Fields, <1>4, <1>6, <2>3 DEF CountInv
  <2>8. PosixInv'
    BY <2>1, <2>4 DEF PosixInv, Grantable
  <2>9. BackedInv'
    BY Fields, <1>1, <1>4, <2>3, <2>4 DEF BackedInv, Bytes
  <2> QED BY <1>5, <2>5, <2>6, <2>7, <2>8, <2>9
<1>7. CASE ~(ProcOf[f] \in ExclProcs /\ ~Inode(f).bProcessLock)
  <2>1. FileLock(f, {"PENDING"}, "rd") /\ inode' = inode
    BY <1>7 DEF PendingForShared
  <2>2. \A g \in Files : Inode(g)' = Inode(g)
    BY <1>1, <2>1 DEF Inode
  <2>3. /\ posix' \in [Procs -> [Bytes -> Modes]] /\ PosixInv'
        /\ \A q \in Procs : q # ProcOf[f] => posix'[q] = posix[q]
        /\ Inode(f).bProcessLock => posix' = posix
        /\ ~Inode(f).bProcessLock =>
             \A b \in Bytes : posix'[ProcOf[f]][b] = IF b = "PENDING" THEN "rd" ELSE posix[ProcOf[f]][b]
    BY <2>1, FileLockEffect DEF Bytes, Modes
  <2>4. TypeOK'
    BY <1>1, <2>1, <2>3 DEF TypeOK, PcLabels
  <2>5. PcInv' /\ LevelInv'
    BY <1>1, <1>4, <2>2 DEF PcInv, LevelInv
  <2>6. CountInv'
    BY <1>4, <2>2 DEF CountInv
  <2>7. BackedInv'
    <3> SUFFICES ASSUME NEW g \in Files PROVE BackedInv!(g)'
      BY Zenon DEF BackedInv
    <3>1. CASE ProcOf[g] # ProcOf[f]
      BY Fields, <1>1, <1>4, <2>2, <2>3, <3>1 DEF BackedInv
    <3>2. CASE ProcOf[g] = ProcOf[f]
      BY <1>2, <1>3, <1>4, <2>2, <2>3, <3>2 DEF BackedInv, Bytes, Level
    <3> QED BY <3>1, <3>2
  <2> QED BY <1>5, <2>3, <2>4, <2>5, <2>6, <2>7
<1> QED BY <1>6, <1>7

\* Lock(SHARED_LOCK), second call: the read-lock on the shared range.
LEMMA RangeForSharedStep ==
  ASSUME IInv, NEW f \in Files, RangeForShared(f)
  PROVE  IInv'
<1> USE DEF IInv, NO_LOCK, SHARED_LOCK, RESERVED_LOCK, PENDING_LOCK, EXCLUSIVE_LOCK
<1>1. /\ pc[f] = "sharedRange"
      /\ eFileLock' = eFileLock /\ pInode' = pInode /\ inode' = inode
  BY DEF RangeForShared
<1>2. \A g \in Files : Inode(g)' = Inode(g) /\ Holders(pInode[g])' = Holders(pInode[g])
  BY <1>1 DEF Inode, Holders
<1>3. \A g \in Files : ProcOf[g] = ProcOf[f] => (g # f => pc[g] = "idle") /\ eFileLock[g] = NO_LOCK
  BY Fields, <1>1 DEF MutexInv, LevelInv, Level, PcInv, SharedPc
<1>4. ASSUME NEW lbl \in {"dropPendingOk", "dropPendingErr"}, pc' = [pc EXCEPT ![f] = lbl],
             posix' \in [Procs -> [Bytes -> Modes]], PosixInv',
             \A q \in Procs : q # ProcOf[f] => posix'[q] = posix[q],
             Inode(f).bProcessLock => posix' = posix,
             ~Inode(f).bProcessLock =>
               /\ posix'[ProcOf[f]]["PENDING"] = posix[ProcOf[f]]["PENDING"]
               /\ lbl = "dropPendingOk" => posix'[ProcOf[f]]["SHARED"] = "rd"
      PROVE  IInv'
  <2>1. \A g \in Files : pc'[g] = IF g = f THEN lbl ELSE pc[g]
    BY <1>4 DEF TypeOK
  <2>2. \A g \in Files : Level(g)' = Level(g)
    BY <1>1, <2>1 DEF Level
  <2>3. TypeOK'
    BY <1>1, <1>4 DEF TypeOK, PcLabels
  <2>4. Attached' /\ MutexInv' /\ OneAbove' /\ MutualExclusion'
    BY <1>1, <2>1, <2>2 DEF Attached, MutexInv, OneAbove, MutualExclusion
  <2>5. PcInv' /\ LevelInv' /\ CountInv'
    BY <1>1, <1>2, <2>1, <2>2 DEF PcInv, LevelInv, SharedPc, CountInv
  <2>6. BackedInv'
    <3> SUFFICES ASSUME NEW g \in Files PROVE BackedInv!(g)'
      BY Zenon DEF BackedInv
    <3>1. CASE ProcOf[g] # ProcOf[f]
      BY Fields, <1>1, <1>2, <1>4, <2>2, <3>1 DEF BackedInv
    <3>2. CASE ProcOf[g] = ProcOf[f]
      BY Fields, <1>1, <1>2, <1>3, <1>4 DEF BackedInv, SharedPc, Level
    <3> QED BY <3>1, <3>2
  <2> QED BY <1>4, <2>3, <2>4, <2>5, <2>6
<1>5. CASE FileLock(f, {"SHARED"}, "rd") /\ Goto(f, "dropPendingOk")
  BY <1>4, <1>5, FileLockEffect DEF Bytes, Modes, Goto
<1>6. CASE FileLockFails(f) /\ Goto(f, "dropPendingErr")
  BY <1>4, <1>6 DEF FileLockFails, Goto, TypeOK, PosixInv
<1> QED BY <1>5, <1>6 DEF RangeForShared

-----------------------------------------------------------------------------
(***************************************************************************)
(* The steps that raise a lock preserve the inductive invariant IInv: the  *)
(* end of Lock(SHARED_LOCK), Lock(RESERVED_LOCK) and Lock(EXCLUSIVE_LOCK). *)
(***************************************************************************)

\* Lock(SHARED_LOCK), third call: PENDING_BYTE is dropped.
LEMMA DropPendingStep ==
  ASSUME IInv, NEW f \in Files, DropPending(f)
  PROVE  IInv'
<1> USE DEF IInv, NO_LOCK, SHARED_LOCK, RESERVED_LOCK, PENDING_LOCK, EXCLUSIVE_LOCK
<1> DEFINE rec == [Inode(f) EXCEPT !.eFileLock = SHARED_LOCK, !.nShared = 1, !.nLock = @ + 1]
<1>1. /\ pc[f] \in {"dropPendingOk", "dropPendingErr"}
      /\ pc' = [pc EXCEPT ![f] = "idle"] /\ pInode' = pInode
  BY DEF DropPending, Goto
<1>2. /\ Inode(f).eFileLock = NO_LOCK
      /\ \A g \in Files : ProcOf[g] = ProcOf[f] => (g # f => pc[g] = "idle") /\ eFileLock[g] = NO_LOCK
  BY Fields, <1>1 DEF MutexInv, LevelInv, Level, PcInv, SharedPc
<1>3. \A g \in Files : pc'[g] = IF g = f THEN "idle" ELSE pc[g]
  BY <1>1 DEF TypeOK
<1>4. Attached' /\ MutexInv'
  BY <1>1 DEF Attached, MutexInv
<1>5. FileLock(f, {"PENDING"}, "none") \/ FileLockFails(f)
  BY DEF DropPending
<1>6. /\ posix' \in [Procs -> [Bytes -> Modes]] /\ PosixInv'
      /\ \A q \in Procs : q # ProcOf[f] => posix'[q] = posix[q]
      /\ posix'[ProcOf[f]]["SHARED"] = posix[ProcOf[f]]["SHARED"]
  <2>1. CASE FileLock(f, {"PENDING"}, "none")
    BY <2>1, FileLockEffect DEF Bytes, Modes
  <2>2. CASE FileLockFails(f)
    BY <2>2 DEF FileLockFails, TypeOK, PosixInv
  <2> QED BY <1>5, <2>1, <2>2
<1>7. CASE eFileLock' = eFileLock /\ inode' = inode
  <2>1. \A g \in Files : Inode(g)' = Inode(g) /\ Holders(pInode[g])' = Holders(pInode[g])
    BY <1>1, <1>7 DEF Inode, Holders
  <2>2. \A g \in Files : Level(g)' = Level(g)
    BY <1>1, <1>7 DEF Level
  <2>3. TypeOK'
    BY Zenon, <1>1, <1>6, <1>7 DEF TypeOK, PcLabels
  <2>4. PcInv' /\ LevelInv' /\ CountInv' /\ OneAbove' /\ MutualExclusion'
    BY <1>3, <1>7, <2>1, <2>2 DEF PcInv, LevelInv, SharedPc, CountInv, OneAbove, MutualExclusion
  <2>5. BackedInv'
    BY Fields, <1>2, <1>3, <1>6, <1>7, <2>1 DEF BackedInv, SharedPc, Level
  <2> QED BY <1>4, <1>6, <2>3, <2>4, <2>5
<1>8. CASE pc[f] = "dropPendingOk" /\ SetBoth(f, SHARED_LOCK, rec)
  <2>1. eFileLock' = [eFileLock EXCEPT ![f] = SHARED_LOCK] /\ SetInode(f, rec)
    BY <1>8 DEF SetBoth
  <2>2. Inode(f) \in InodeRec /\ rec \in InodeRec
    <3>1. /\ Inode(f) \in InodeRec /\ Inode(f).nLock + 1 \in Nat /\ 1 \in Nat
          /\ SHARED_LOCK \in LockLevels
      BY Fields DEF TypeOK, Inode, LockLevels
    <3> QED BY <3>1, SetFirstShared, Zenon
  <2>3. /\ inode' \in [InodeIds -> InodeRec]
        /\ \A g \in Files :
             IF ProcOf[g] = ProcOf[f]
               THEN /\ Inode(g)'.eFileLock = SHARED_LOCK
                    /\ Inode(g)'.bProcessLock = Inode(f).bProcessLock
                    /\ Inode(g)'.nShared = 1
                    /\ Inode(g)'.nLock = Inode(f).nLock + 1
                    /\ Inode(g)'.pUnused = Inode(f).pUnused
               ELSE Inode(g)' = Inode(g)
    <3>1. /\ rec.eFileLock = SHARED_LOCK /\ rec.bProcessLock = Inode(f).bProcessLock
          /\ rec.nShared = 1 /\ rec.nLock = Inode(f).nLock + 1
          /\ rec.pUnused = Inode(f).pUnused
      OBVIOUS
    <3> HIDE DEF rec
    <3> QED BY <1>1, <2>1, <2>2, <3>1, SetInodeEffect DEF Inode
  <2> HIDE DEF rec
  <2>4. \A g \in Files : eFileLock'[g] = IF g = f THEN SHARED_LOCK ELSE eFileLock[g]
    BY <2>1 DEF TypeOK
  <2>5. \A g \in Files : g # f => Level(g)' = Level(g)
    BY <1>3, <2>4 DEF Level
  <2>6. Level(f)' = SHARED_LOCK
    BY <2>4 DEF Level
  <2>7. TypeOK'
    BY <1>1, <1>6, <2>1, <2>3 DEF TypeOK, PcLabels, LockLevels
  <2>8. PcInv' /\ LevelInv' /\ OneAbove'
    BY <1>2, <1>3, <2>3, <2>4 DEF PcInv, LevelInv, SharedPc, OneAbove, Level
  <2>9. CountInv'
    <3> SUFFICES ASSUME NEW g \in Files PROVE CountInv!(g)'
      BY DEF CountInv
    <3>1. Holders(pInode[f]) = {}
      BY Fields, <1>2 DEF Holders
    <3>2. Cardinality(Holders(pInode[f])) = 0
      BY <3>1, FewHolders, Zenon
    <3>3. Inode(f).nShared = 0
      BY <3>2 DEF CountInv
    <3>4. ProcOf[g] = ProcOf[f] => pInode[g] = pInode[f]
      BY Fields
    <3>5. /\ ProcOf[g] = ProcOf[f] =>
               Cardinality(Holders(pInode[g]))' = Cardinality(Holders(pInode[g])) + 1
          /\ ProcOf[g] # ProcOf[f] => Holders(pInode[g])' = Holders(pInode[g])
      BY Fields, <1>1, <1>2, <2>4, HoldersChange
    <3> QED BY <2>3, <3>3, <3>4, <3>5 DEF CountInv
  <2>10. BackedInv'
    <3> SUFFICES ASSUME NEW g \in Files PROVE BackedInv!(g)'
      BY DEF BackedInv
    <3>1. CASE ProcOf[g] # ProcOf[f]
      BY SMTT(30), Fields, <1>3, <1>6, <2>3, <2>4, <2>5, <3>1 DEF BackedInv
    <3>2. CASE ProcOf[g] = ProcOf[f]
      BY <1>2, <1>3, <1>6, <1>8, <2>3, <2>5, <2>6, <3>2 DEF BackedInv, SharedPc, Level
    <3> QED BY <3>1, <3>2
  <2>11. ASSUME NEW g \in Files, g # f, Level(g) = EXCLUSIVE_LOCK PROVE FALSE
    <3>1. ProcOf[g] # ProcOf[f] /\ eFileLock[g] >= SHARED_LOCK
      BY <1>2, <2>11 DEF Level
    <3>2. posix[ProcOf[f]]["SHARED"] # "none" /\ posix[ProcOf[g]]["SHARED"] # "none"
      BY Zenon, <1>8, <3>1 DEF BackedInv
    <3>3. ~Inode(f).bProcessLock /\ ~Inode(g).bProcessLock
      BY Fields, <3>1, <3>2 DEF BackedInv, PosixInv, Bytes
    <3>4. posix[ProcOf[f]]["PENDING"] # "none" /\ posix[ProcOf[g]]["PENDING"] = "wr"
      BY <1>8, <2>11, <3>3 DEF BackedInv, SharedPc
    <3> QED BY Fields, <3>1, <3>4 DEF PosixInv, Bytes
  <2>12. MutualExclusion'
    BY <2>5, <2>6, <2>11 DEF MutualExclusion
  <2> QED BY <1>4, <1>6, <2>7, <2>8, <2>9, <2>10, <2>12
<1> QED BY <1>7, <1>8 DEF DropPending

\* An action that only sets the level of the unixInodeInfo of f.
LEMMA SetLevelEffect ==
  ASSUME IInv, NEW f \in Files, NEW a \in LockLevels,
         SetInode(f, [Inode(f) EXCEPT !.eFileLock = a]), pInode' = pInode
  PROVE  /\ inode' \in [InodeIds -> InodeRec]
         /\ \A g \in Files :
              IF ProcOf[g] = ProcOf[f]
                THEN /\ Inode(g)'.eFileLock = a
                     /\ Inode(g)'.bProcessLock = Inode(f).bProcessLock
                     /\ Inode(g)'.nShared = Inode(f).nShared
                     /\ Inode(g)'.nLock = Inode(f).nLock
                     /\ Inode(g)'.pUnused = Inode(f).pUnused
                ELSE Inode(g)' = Inode(g)
<1> DEFINE rec == [Inode(f) EXCEPT !.eFileLock = a]
<1> USE DEF IInv
<1>1. Inode(f) \in InodeRec
  BY DEF TypeOK, Inode
<1>2. rec \in InodeRec
  BY <1>1, SetLevel, Zenon
<1>3. /\ rec.eFileLock = a /\ rec.bProcessLock = Inode(f).bProcessLock
      /\ rec.nShared = Inode(f).nShared /\ rec.nLock = Inode(f).nLock
      /\ rec.pUnused = Inode(f).pUnused
  OBVIOUS
<1>4. SetInode(f, rec)
  OBVIOUS
<1> HIDE DEF rec
<1> QED BY <1>2, <1>3, <1>4, SetInodeEffect DEF Inode

\* Lock(RESERVED_LOCK) preserves the invariant.
LEMMA LockReservedStep ==
  ASSUME IInv, NEW f \in Files, LockReserved(f)
  PROVE  IInv'
<1>1. /\ MutexFree(f) /\ eFileLock[f] = SHARED_LOCK /\ ~SiblingPrecludes(f, RESERVED_LOCK)
      /\ FileLock(f, {"RESERVED"}, "wr")
      /\ SetInode(f, [Inode(f) EXCEPT !.eFileLock = RESERVED_LOCK])
      /\ eFileLock' = [eFileLock EXCEPT ![f] = RESERVED_LOCK]
      /\ pInode' = pInode /\ pc' = pc
  BY DEF LockReserved, SetBoth
<1>2. /\ inode' \in [InodeIds -> InodeRec]
      /\ \A g \in Files :
           IF ProcOf[g] = ProcOf[f]
             THEN /\ Inode(g)'.eFileLock = RESERVED_LOCK
                  /\ Inode(g)'.bProcessLock = Inode(f).bProcessLock
                  /\ Inode(g)'.nShared = Inode(f).nShared
                  /\ Inode(g)'.nLock = Inode(f).nLock
                  /\ Inode(g)'.pUnused = Inode(f).pUnused
             ELSE Inode(g)' = Inode(g)
  <2>1. RESERVED_LOCK \in LockLevels
    BY DEF RESERVED_LOCK, LockLevels
  <2> QED BY <1>1, <2>1, SetLevelEffect
<1> USE DEF IInv, NO_LOCK, SHARED_LOCK, RESERVED_LOCK, PENDING_LOCK, EXCLUSIVE_LOCK
<1>3. /\ posix' \in [Procs -> [Bytes -> Modes]] /\ PosixInv'
      /\ \A q \in Procs : q # ProcOf[f] => posix'[q] = posix[q]
      /\ Inode(f).bProcessLock => posix' = posix
      /\ ~Inode(f).bProcessLock =>
           /\ posix'[ProcOf[f]]["SHARED"] = posix[ProcOf[f]]["SHARED"]
           /\ posix'[ProcOf[f]]["RESERVED"] = "wr"
  BY <1>1, FileLockEffect DEF Bytes, Modes
<1>4. /\ Inode(f).eFileLock = SHARED_LOCK
      /\ \A g \in Files : ProcOf[g] = ProcOf[f] => pc[g] = "idle" /\ eFileLock[g] <= SHARED_LOCK
  BY Fields, <1>1 DEF SiblingPrecludes, MutexFree, LevelInv, Level
<1>5. \A g \in Files : eFileLock'[g] = IF g = f THEN RESERVED_LOCK ELSE eFileLock[g]
  BY <1>1 DEF TypeOK
<1>6. \A g \in Files : Level(g)' = IF g = f THEN RESERVED_LOCK ELSE Level(g)
  BY <1>1, <1>4, <1>5 DEF Level
<1>7. TypeOK'
  BY <1>1, <1>2, <1>3 DEF TypeOK, LockLevels
<1>8. Attached' /\ MutexInv'
  BY <1>1 DEF Attached, MutexInv
<1>9. PcInv' /\ LevelInv' /\ OneAbove'
  BY SMTT(30), Fields, <1>1, <1>2, <1>4, <1>5, <1>6 DEF PcInv, LevelInv, OneAbove, Level, SharedPc
<1>10. CountInv'
  <2> SUFFICES ASSUME NEW g \in Files PROVE CountInv!(g)'
    BY DEF CountInv
  <2>1. Holders(pInode[g])' = Holders(pInode[g])
    BY <1>1, HoldersChange
  <2> QED BY Fields, <1>2, <2>1 DEF CountInv
<1>11. BackedInv'
  <2> SUFFICES ASSUME NEW g \in Files PROVE BackedInv!(g)'
    BY DEF BackedInv
  <2>1. CASE ProcOf[g] # ProcOf[f]
    BY Fields, <1>1, <1>2, <1>3, <1>6, <2>1 DEF BackedInv
  <2>2. CASE ProcOf[g] = ProcOf[f]
    BY Fields, <1>1, <1>2, <1>3, <1>4 DEF BackedInv, SharedPc, Level
  <2> QED BY <2>1, <2>2
<1>12. MutualExclusion'
  BY <1>1, <1>6 DEF MutualExclusion
<1> QED BY <1>3, <1>7, <1>8, <1>9, <1>10, <1>11, <1>12

\* Lock(EXCLUSIVE_LOCK), first call: the write-lock on PENDING_BYTE.
LEMMA PendingForExclusiveStep ==
  ASSUME IInv, NEW f \in Files, PendingForExclusive(f)
  PROVE  IInv'
<1> USE DEF IInv, NO_LOCK, SHARED_LOCK, RESERVED_LOCK, PENDING_LOCK, EXCLUSIVE_LOCK
<1>1. /\ MutexFree(f) /\ eFileLock[f] \in {SHARED_LOCK, RESERVED_LOCK, PENDING_LOCK}
      /\ ~SiblingPrecludes(f, EXCLUSIVE_LOCK)
      /\ pc' = [pc EXCEPT ![f] = "exclusiveRange"]
      /\ eFileLock' = eFileLock /\ pInode' = pInode /\ inode' = inode
  BY DEF PendingForExclusive, Goto
<1>2. \A g \in Files : Inode(g)' = Inode(g) /\ Holders(pInode[g])' = Holders(pInode[g])
  BY <1>1 DEF Inode, Holders
<1>3. /\ Inode(f).eFileLock = eFileLock[f]
      /\ \A g \in Files : ProcOf[g] = ProcOf[f] => pc[g] = "idle" /\ (g # f => eFileLock[g] <= SHARED_LOCK)
  BY Fields, <1>1 DEF SiblingPrecludes, MutexFree, LevelInv, Level, OneAbove
<1>4. \A g \in Files : pc'[g] = IF g = f THEN "exclusiveRange" ELSE pc[g]
  BY <1>1 DEF TypeOK
<1>5. \A g \in Files : Level(g)' = Level(g)
  BY <1>1, <1>3 DEF Level
<1>6. /\ posix' \in [Procs -> [Bytes -> Modes]] /\ PosixInv'
      /\ \A q \in Procs : q # ProcOf[f] => posix'[q] = posix[q]
      /\ Inode(f).bProcessLock => posix' = posix
      /\ ~Inode(f).bProcessLock =>
           /\ posix'[ProcOf[f]]["SHARED"] = posix[ProcOf[f]]["SHARED"]
           /\ posix'[ProcOf[f]]["RESERVED"] = posix[ProcOf[f]]["RESERVED"]
           /\ posix'[ProcOf[f]]["PENDING"] = "wr"
  <2>1. CASE eFileLock[f] < PENDING_LOCK
    <3>1. FileLock(f, {"PENDING"}, "wr")
      BY <2>1 DEF PendingForExclusive
    <3> QED BY <3>1, FileLockEffect DEF Bytes, Modes
  <2>2. CASE ~(eFileLock[f] < PENDING_LOCK)
    <3>1. posix' = posix
      BY <2>2 DEF PendingForExclusive
    <3>2. Level(f) >= PENDING_LOCK
      BY <1>1, <1>3, <2>2 DEF Level
    <3> QED BY <3>1, <3>2 DEF TypeOK, PosixInv, BackedInv
  <2> QED BY <2>1, <2>2
<1>7. TypeOK'
  BY <1>1, <1>6 DEF TypeOK, PcLabels
<1>8. Attached' /\ MutexInv' /\ OneAbove' /\ MutualExclusion'
  BY <1>1, <1>3, <1>5 DEF Attached, MutexInv, OneAbove, MutualExclusion
<1>9. PcInv' /\ LevelInv' /\ CountInv'
  BY <1>1, <1>2, <1>3, <1>5 DEF PcInv, LevelInv, CountInv, SharedPc
<1>10. BackedInv'
  <2> SUFFICES ASSUME NEW g \in Files PROVE BackedInv!(g)'
    BY SMTT(30) DEF BackedInv
  <2>0. BackedInv!(g) /\ ProcOf[g] \in Procs
    BY Zenon, Fields DEF BackedInv
  <2>1. CASE ProcOf[g] # ProcOf[f]
    <3>1. /\ posix'[ProcOf[g]] = posix[ProcOf[g]] /\ pc'[g] = pc[g] /\ eFileLock'[g] = eFileLock[g]
          /\ Inode(g)' = Inode(g) /\ Level(g)' = Level(g)
      BY Zenon, <1>1, <1>2, <1>4, <1>5, <1>6, <2>0, <2>1
    <3> QED BY Zenon, <2>0, <3>1
  <2>2. CASE ProcOf[g] = ProcOf[f]
    <3>1. /\ Inode(g) = Inode(f) /\ Inode(g)' = Inode(g) /\ Level(g)' = Level(g)
          /\ eFileLock'[g] = eFileLock[g] /\ pc[g] = "idle"
          /\ pc'[g] = "idle" \/ pc'[g] = "exclusiveRange"
      BY Zenon, Fields, <1>1, <1>2, <1>3, <1>4, <1>5, <2>2
    <3>2. CASE Inode(f).bProcessLock
      BY Zenon, <1>6, <2>0, <3>1, <3>2
    <3>3. CASE ~Inode(f).bProcessLock
      <4>1. /\ posix'[ProcOf[g]]["SHARED"] = posix[ProcOf[g]]["SHARED"]
            /\ posix'[ProcOf[g]]["RESERVED"] = posix[ProcOf[g]]["RESERVED"]
            /\ posix'[ProcOf[g]]["PENDING"] = "wr"
        BY Zenon, <1>6, <2>2, <3>3
      <4> QED BY Zenon, <2>0, <3>1, <3>3, <4>1 DEF SharedPc
    <3> QED BY Zenon, <3>2, <3>3
  <2> QED BY Zenon, <2>1, <2>2
<1> QED BY <1>6, <1>7, <1>8, <1>9, <1>10

\* Lock(EXCLUSIVE_LOCK), second call: the write-lock on the shared range.
LEMMA RangeForExclusiveStep ==
  ASSUME IInv, NEW f \in Files, RangeForExclusive(f)
  PROVE  IInv'
<1>1. /\ pc[f] = "exclusiveRange"
      /\ pInode' = pInode /\ pc' = [pc EXCEPT ![f] = "idle"]
      /\ \/ /\ Inode(f).nShared <= 1 /\ FileLock(f, {"SHARED"}, "wr")
            /\ SetBoth(f, EXCLUSIVE_LOCK, [Inode(f) EXCEPT !.eFileLock = EXCLUSIVE_LOCK])
         \/ /\ posix' = posix
            /\ SetBoth(f, PENDING_LOCK, [Inode(f) EXCEPT !.eFileLock = PENDING_LOCK])
  BY DEF RangeForExclusive, Goto, FileLockFails
<1>2. PICK l \in {PENDING_LOCK, EXCLUSIVE_LOCK} :
        /\ SetBoth(f, l, [Inode(f) EXCEPT !.eFileLock = l])
        /\ l = PENDING_LOCK => posix' = posix
        /\ l = EXCLUSIVE_LOCK => Inode(f).nShared <= 1 /\ FileLock(f, {"SHARED"}, "wr")
  BY <1>1 DEF PENDING_LOCK, EXCLUSIVE_LOCK
<1>3. /\ inode' \in [InodeIds -> InodeRec]
      /\ \A g \in Files :
           IF ProcOf[g] = ProcOf[f]
             THEN /\ Inode(g)'.eFileLock = l
                  /\ Inode(g)'.bProcessLock = Inode(f).bProcessLock
                  /\ Inode(g)'.nShared = Inode(f).nShared
                  /\ Inode(g)'.nLock = Inode(f).nLock
                  /\ Inode(g)'.pUnused = Inode(f).pUnused
             ELSE Inode(g)' = Inode(g)
  <2>1. l \in LockLevels
    BY DEF PENDING_LOCK, EXCLUSIVE_LOCK, LockLevels
  <2>2. SetInode(f, [Inode(f) EXCEPT !.eFileLock = l])
    BY <1>2 DEF SetBoth
  <2> QED BY <1>1, <2>1, <2>2, SetLevelEffect
<1> USE DEF IInv, NO_LOCK, SHARED_LOCK, RESERVED_LOCK, PENDING_LOCK, EXCLUSIVE_LOCK
<1>4. \A g \in Files : /\ eFileLock'[g] = IF g = f THEN l ELSE eFileLock[g]
                       /\ pc'[g] = IF g = f THEN "idle" ELSE pc[g]
  BY <1>1, <1>2 DEF TypeOK, SetBoth
<1>5. /\ Inode(f).eFileLock = eFileLock[f] /\ eFileLock[f] \in {1, 2, 3}
      /\ \A g \in Files : ProcOf[g] = ProcOf[f] /\ g # f => pc[g] = "idle" /\ eFileLock[g] <= SHARED_LOCK
  BY Fields, <1>1 DEF PcInv, MutexInv, LevelInv, Level, OneAbove
<1>6. \A g \in Files : Level(g)' = IF g = f THEN l ELSE Level(g)
  BY Zenon, <1>4 DEF Level
<1>7. /\ posix' \in [Procs -> [Bytes -> Modes]] /\ PosixInv'
      /\ \A q \in Procs : q # ProcOf[f] => posix'[q] = posix[q]
      /\ Inode(f).bProcessLock => posix' = posix
      /\ ~Inode(f).bProcessLock =>
           /\ posix'[ProcOf[f]]["PENDING"] = posix[ProcOf[f]]["PENDING"]
           /\ posix[ProcOf[f]]["SHARED"] # "none" => posix'[ProcOf[f]]["SHARED"] # "none"
           /\ l = EXCLUSIVE_LOCK => posix'[ProcOf[f]]["SHARED"] = "wr"
  <2>1. CASE l = PENDING_LOCK
    BY <1>2, <2>1 DEF TypeOK, PosixInv
  <2>2. CASE l = EXCLUSIVE_LOCK
    BY <1>2, <2>2, FileLockEffect DEF Bytes, Modes
  <2> QED BY <2>1, <2>2
<1>8. TypeOK'
  BY <1>1, <1>3, <1>7 DEF TypeOK, LockLevels, SetBoth, PcLabels
<1>9. Attached' /\ MutexInv'
  BY <1>1 DEF Attached, MutexInv
<1>10. PcInv' /\ LevelInv' /\ OneAbove'
  BY SMTT(30), Fields, <1>1, <1>3, <1>4, <1>5, <1>6 DEF PcInv, LevelInv, OneAbove, Level, SharedPc
<1>11. CountInv'
  <2> SUFFICES ASSUME NEW g \in Files PROVE CountInv!(g)'
    BY DEF CountInv
  <2>1. Holders(pInode[g])' = Holders(pInode[g])
    BY <1>1, <1>4, <1>5, HoldersChange
  <2> QED BY Fields, <1>1, <1>3, <2>1 DEF CountInv
<1>12. BackedInv'
  <2> SUFFICES ASSUME NEW g \in Files PROVE BackedInv!(g)'
    BY SMTT(30) DEF BackedInv
  <2>1. CASE ProcOf[g] # ProcOf[f]
    BY Fields, <1>3, <1>4, <1>6, <1>7, <2>1 DEF BackedInv
  <2>2. CASE ProcOf[g] = ProcOf[f]
    BY <1>1, <1>3, <1>5, <1>6, <1>7, <2>2 DEF BackedInv, Level
  <2> QED BY <2>1, <2>2
<1>13. MutualExclusion'
  <2>1. ASSUME NEW g \in Files, g # f, l = EXCLUSIVE_LOCK PROVE eFileLock[g] = NO_LOCK
    <3>1. CASE ProcOf[g] = ProcOf[f]
      <4>1. Cardinality(Holders(pInode[f])) <= 1
        BY <1>2, <2>1 DEF CountInv
      <4>2. f \in Holders(pInode[f]) /\ (eFileLock[g] # NO_LOCK => g \in Holders(pInode[f]))
        BY Fields, <1>5, <3>1 DEF Holders
      <4> QED BY <2>1, <4>1, <4>2, FewHolders
    <3>2. CASE ProcOf[g] # ProcOf[f]
      <4>1. posix'[ProcOf[f]]["SHARED"] = "wr"
        BY Zenon, <1>7, <2>1 DEF BackedInv
      <4>2. posix[ProcOf[g]]["SHARED"] = "none"
        BY Fields, <1>7, <3>2, <4>1 DEF PosixInv, Bytes
      <4> QED BY Fields, <4>2 DEF BackedInv
    <3> QED BY <3>1, <3>2
  <2> QED BY <1>4, <1>5, <1>6, <2>1 DEF MutualExclusion
<1> QED BY Zenon, <1>7, <1>8, <1>9, <1>10, <1>11, <1>12, <1>13
=============================================================================
