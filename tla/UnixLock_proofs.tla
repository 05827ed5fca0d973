-------------------------- MODULE UnixLock_proofs ---------------------------
(***************************************************************************)
(* The steps that lower a lock preserve the inductive invariant IInv, and  *)
(* with it the properties of UnixLock hold for any number of processes     *)
(* and connections.                                                        *)
(***************************************************************************)
EXTENDS UnixLock_inv

\* Unlock(SHARED_LOCK) preserves the invariant: the read-lock on the range.
LEMMA DowngradeRangeStep ==
  ASSUME IInv, NEW f \in Files, DowngradeRange(f)
  PROVE  IInv'
<1> USE DEF IInv, NO_LOCK, SHARED_LOCK, RESERVED_LOCK, PENDING_LOCK, EXCLUSIVE_LOCK
<1>1. /\ MutexFree(f) /\ eFileLock[f] > SHARED_LOCK /\ FileLock(f, {"SHARED"}, "rd")
      /\ pc' = [pc EXCEPT ![f] = "downgrade"]
      /\ eFileLock' = eFileLock /\ pInode' = pInode /\ inode' = inode
  BY DEF DowngradeRange, Goto
<1>2. \A g \in Files : Inode(g)' = Inode(g) /\ Holders(pInode[g])' = Holders(pInode[g])
  BY <1>1 DEF Inode, Holders
<1>3. \A g \in Files : ProcOf[g] = ProcOf[f] => pc[g] = "idle"
  BY <1>1 DEF MutexFree
<1>4. \A g \in Files : pc'[g] = IF g = f THEN "downgrade" ELSE pc[g]
  BY <1>1 DEF TypeOK
<1>5. \A g \in Files : Level(g)' = Level(g)
  BY <1>1, <1>3 DEF Level
<1>6. /\ posix' \in [Procs -> [Bytes -> Modes]] /\ PosixInv'
      /\ \A q \in Procs : q # ProcOf[f] => posix'[q] = posix[q]
      /\ Inode(f).bProcessLock => posix' = posix
      /\ ~Inode(f).bProcessLock =>
           /\ posix'[ProcOf[f]]["SHARED"] = "rd"
           /\ posix'[ProcOf[f]]["RESERVED"] = posix[ProcOf[f]]["RESERVED"]
           /\ posix'[ProcOf[f]]["PENDING"] = posix[ProcOf[f]]["PENDING"]
  BY <1>1, FileLockEffect DEF Bytes, Modes
<1>7. TypeOK'
  BY <1>1, <1>6 DEF TypeOK, PcLabels
<1>8. Attached' /\ MutexInv' /\ OneAbove' /\ MutualExclusion'
  BY <1>1, <1>3, <1>4, <1>5 DEF Attached, MutexInv, OneAbove, MutualExclusion
<1>9. PcInv' /\ LevelInv' /\ CountInv'
  BY <1>1, <1>2, <1>5 DEF PcInv, LevelInv, CountInv, SharedPc
<1>10. BackedInv'
  <2> SUFFICES ASSUME NEW g \in Files PROVE BackedInv!(g)'
    BY DEF BackedInv
  <2>1. CASE ProcOf[g] # ProcOf[f]
    BY Fields, <1>1, <1>2, <1>5, <1>6, <2>1 DEF BackedInv
  <2>2. CASE ProcOf[g] = ProcOf[f]
    BY Fields, <1>2, <1>4, <1>5, <1>6, <2>2 DEF BackedInv, SharedPc
  <2> QED BY <2>1, <2>2
<1> QED BY <1>6, <1>7, <1>8, <1>9, <1>10

\* Dropping PENDING_BYTE and RESERVED_BYTE while the shared inode falls back to
\* SHARED: the file follows at once (lvl = SHARED, label idle) or, on the way
\* to NO_LOCK, when the release is complete (label release).
LEMMA DropBytesStep ==
  ASSUME IInv, NEW f \in Files, NEW lvl, NEW lbl,
         \A g \in Files : g # f /\ ProcOf[g] = ProcOf[f] => pc[g] = "idle",
         eFileLock[f] > SHARED_LOCK,
         FileLock(f, {"PENDING", "RESERVED"}, "none"),
         SetInode(f, [Inode(f) EXCEPT !.eFileLock = SHARED_LOCK]),
         eFileLock' = [eFileLock EXCEPT ![f] = lvl],
         pc' = [pc EXCEPT ![f] = lbl],
         \/ lvl = SHARED_LOCK /\ lbl = "idle"
         \/ lvl = eFileLock[f] /\ lbl = "release",
         pInode' = pInode
  PROVE  IInv'
<1>1. /\ inode' \in [InodeIds -> InodeRec]
      /\ \A g \in Files :
           IF ProcOf[g] = ProcOf[f]
             THEN /\ Inode(g)'.eFileLock = SHARED_LOCK
                  /\ Inode(g)'.bProcessLock = Inode(f).bProcessLock
                  /\ Inode(g)'.nShared = Inode(f).nShared
                  /\ Inode(g)'.nLock = Inode(f).nLock
                  /\ Inode(g)'.pUnused = Inode(f).pUnused
             ELSE Inode(g)' = Inode(g)
  <2>1. SHARED_LOCK \in LockLevels
    BY DEF SHARED_LOCK, LockLevels
  <2> QED BY <2>1, SetLevelEffect
<1> USE DEF IInv, NO_LOCK, SHARED_LOCK, RESERVED_LOCK, PENDING_LOCK, EXCLUSIVE_LOCK
<1>2. \A g \in Files : /\ eFileLock'[g] = IF g = f THEN lvl ELSE eFileLock[g]
                       /\ pc'[g] = IF g = f THEN lbl ELSE pc[g]
  BY DEF TypeOK
<1>3. \A g \in Files : Level(g)' = IF g = f THEN SHARED_LOCK ELSE Level(g)
  BY <1>2 DEF Level
<1>4. pc[f] # "release" \/ Inode(f).eFileLock = SHARED_LOCK
  BY DEF PcInv
<1>5. \A g \in Files : ProcOf[g] = ProcOf[f] /\ g # f => pc[g] = "idle" /\ eFileLock[g] <= SHARED_LOCK
  BY Fields, <1>4 DEF OneAbove, Level, LevelInv
<1>6. /\ posix' \in [Procs -> [Bytes -> Modes]] /\ PosixInv'
      /\ \A q \in Procs : q # ProcOf[f] => posix'[q] = posix[q]
      /\ Inode(f).bProcessLock => posix' = posix
      /\ ~Inode(f).bProcessLock => posix'[ProcOf[f]]["SHARED"] = posix[ProcOf[f]]["SHARED"]
  BY FileLockEffect DEF Bytes, Modes
<1>7. TypeOK'
  BY <1>1, <1>6 DEF TypeOK, LockLevels, PcLabels
<1>8. Attached' /\ MutexInv'
  BY DEF Attached, MutexInv
<1>9. PcInv' /\ LevelInv' /\ OneAbove'
  BY <1>1, <1>2, <1>3, <1>5 DEF PcInv, LevelInv, OneAbove, Level, SharedPc
<1>10. CountInv'
  <2> SUFFICES ASSUME NEW g \in Files PROVE CountInv!(g)'
    BY DEF CountInv
  <2>1. Holders(pInode[g])' = Holders(pInode[g])
    BY Fields, HoldersChange
  <2> QED BY Fields, <1>1, <2>1 DEF CountInv
<1>11. BackedInv'
  <2> SUFFICES ASSUME NEW g \in Files PROVE BackedInv!(g)'
    BY DEF BackedInv
  <2>1. CASE ProcOf[g] # ProcOf[f]
    BY Fields, <1>1, <1>3, <1>6, <2>1 DEF BackedInv
  <2>2. CASE ProcOf[g] = ProcOf[f]
    BY Fields, <1>1, <1>2, <1>5, <1>6, <2>2 DEF BackedInv, SharedPc, Level
  <2> QED BY <2>1, <2>2
<1>12. MutualExclusion'
  BY <1>3 DEF MutualExclusion
<1> QED BY <1>6, <1>7, <1>8, <1>9, <1>10, <1>11, <1>12

\* Unlock(SHARED_LOCK) preserves the invariant: both bytes are dropped.
LEMMA DowngradeBytesStep ==
  ASSUME IInv, NEW f \in Files, DowngradeBytes(f)
  PROVE  IInv'
<1>1. /\ pc[f] = "downgrade" /\ pc' = [pc EXCEPT ![f] = "idle"] /\ pInode' = pInode
      /\ eFileLock[f] > SHARED_LOCK
      /\ \A g \in Files : g # f /\ ProcOf[g] = ProcOf[f] => pc[g] = "idle"
  BY DEF DowngradeBytes, Goto, IInv, PcInv, MutexInv
<1>2. CASE /\ FileLock(f, {"PENDING", "RESERVED"}, "none")
           /\ SetBoth(f, SHARED_LOCK, [Inode(f) EXCEPT !.eFileLock = SHARED_LOCK])
  <2>1. /\ eFileLock' = [eFileLock EXCEPT ![f] = SHARED_LOCK]
        /\ SetInode(f, [Inode(f) EXCEPT !.eFileLock = SHARED_LOCK])
    BY <1>2 DEF SetBoth
  <2> QED BY <1>1, <1>2, <2>1, DropBytesStep, Zenon
<1>3. CASE FileLockFails(f) /\ eFileLock' = eFileLock /\ inode' = inode
  <2> USE DEF IInv, NO_LOCK, SHARED_LOCK, RESERVED_LOCK, PENDING_LOCK, EXCLUSIVE_LOCK
  <2>1. posix' = posix
    BY <1>3 DEF FileLockFails
  <2>2. \A g \in Files : /\ pc'[g] = IF g = f THEN "idle" ELSE pc[g]
                         /\ Inode(g)' = Inode(g) /\ Holders(pInode[g])' = Holders(pInode[g])
    BY <1>1, <1>3 DEF TypeOK, Inode, Holders
  <2>3. \A g \in Files : Level(g)' = Level(g)
    BY <1>1, <1>3 DEF Level
  <2>4. TypeOK' /\ Attached' /\ PosixInv'
    BY <1>1, <1>3, <2>1 DEF TypeOK, PcLabels, Attached, PosixInv
  <2>5. MutexInv' /\ PcInv' /\ CountInv' /\ LevelInv' /\ OneAbove' /\ MutualExclusion'
    BY <1>3, <2>2, <2>3 DEF MutexInv, PcInv, CountInv, LevelInv, OneAbove, MutualExclusion, SharedPc
  <2>6. BackedInv'
    BY <1>3, <2>1, <2>2, <2>3 DEF BackedInv, SharedPc
  <2> QED BY <2>4, <2>5, <2>6
<1> QED BY <1>2, <1>3 DEF DowngradeBytes

\* Unlock(NO_LOCK) of a writer preserves the invariant: both bytes are dropped.
LEMMA ReleaseBytesStep ==
  ASSUME IInv, NEW f \in Files, ReleaseBytes(f)
  PROVE  IInv'
<1>1. eFileLock' = [eFileLock EXCEPT ![f] = eFileLock[f]]
  BY DEF ReleaseBytes, IInv, TypeOK
<1>2. \A g \in Files : g # f /\ ProcOf[g] = ProcOf[f] => pc[g] = "idle"
  BY DEF ReleaseBytes, MutexFree
<1> QED BY <1>1, <1>2, DropBytesStep, Zenon DEF ReleaseBytes, Goto

\* Unlock(NO_LOCK) preserves the invariant: the shared lock and deferred closes.
LEMMA ReleaseSharedStep ==
  ASSUME IInv, NEW f \in Files, ReleaseShared(f)
  PROVE  IInv'
<1> USE DEF IInv, NO_LOCK, SHARED_LOCK, RESERVED_LOCK, PENDING_LOCK, EXCLUSIVE_LOCK
<1> DEFINE last == Inode(f).nShared = 1
           lvl == IF last THEN NO_LOCK ELSE Inode(f).eFileLock
           n == Inode(f).nShared - 1
           k == Inode(f).nLock - 1
           rec == [Inode(f) EXCEPT !.nShared = n, !.nLock = k, !.eFileLock = lvl, !.pUnused = 0]
<1>1. /\ pc[f] = "release" \/ (MutexFree(f) /\ eFileLock[f] = SHARED_LOCK)
      /\ posix' = posix \/ (last /\ ~Inode(f).bProcessLock /\ posix' = SetBytes(ProcOf[f], Bytes, "none"))
      /\ eFileLock' = [eFileLock EXCEPT ![f] = NO_LOCK]
      /\ SetInode(f, rec)
      /\ pc' = [pc EXCEPT ![f] = "idle"] /\ pInode' = pInode
  <2>1. Inode(f).pUnused = 0
    BY DEF CountInv
  <2> QED BY <2>1 DEF ReleaseShared, Goto, AfterClosing, SetBoth
<1>2. /\ eFileLock[f] >= SHARED_LOCK
      /\ Level(f) = SHARED_LOCK
      /\ \A g \in Files : g # f /\ ProcOf[g] = ProcOf[f] => pc[g] = "idle"
  BY Fields, <1>1 DEF PcInv, MutexFree, MutexInv, Level
<1>3. f \in Holders(pInode[f])
  BY <1>2 DEF Holders
<1>4. Inode(f).nShared >= 1 /\ n \in Nat /\ k \in Nat /\ lvl \in LockLevels
  <2>1. Cardinality(Holders(pInode[f])) # 0
    BY <1>3, FewHolders
  <2> QED BY Fields, <2>1 DEF CountInv, LockLevels
<1>5. Inode(f) \in InodeRec /\ rec \in InodeRec
  <2>1. Inode(f) \in InodeRec /\ 0 \in Nat
    BY DEF TypeOK, Inode
  <2> HIDE DEF n, k, lvl
  <2> QED BY <1>4, <2>1, SetReleased, Zenon
<1>6. /\ inode' \in [InodeIds -> InodeRec]
      /\ \A g \in Files :
           IF ProcOf[g] = ProcOf[f]
             THEN /\ Inode(g)'.eFileLock = lvl
                  /\ Inode(g)'.bProcessLock = Inode(f).bProcessLock
                  /\ Inode(g)'.nShared = Inode(f).nShared - 1
                  /\ Inode(g)'.nLock = Inode(f).nLock - 1
                  /\ Inode(g)'.pUnused = 0
             ELSE Inode(g)' = Inode(g)
  <2> HIDE DEF n, k, lvl
  <2>1. /\ rec.eFileLock = lvl /\ rec.bProcessLock = Inode(f).bProcessLock
        /\ rec.nShared = n /\ rec.nLock = k /\ rec.pUnused = 0
    OBVIOUS
  <2> HIDE DEF rec
  <2> QED BY <1>1, <1>5, <2>1, SetInodeEffect DEF Inode, n, k
<1> HIDE DEF rec
<1>7. \A g \in Files : /\ eFileLock'[g] = IF g = f THEN NO_LOCK ELSE eFileLock[g]
                       /\ pc'[g] = IF g = f THEN "idle" ELSE pc[g]
  BY <1>1 DEF TypeOK
<1>8. \A g \in Files : Level(g)' = IF g = f THEN NO_LOCK ELSE Level(g)
  BY <1>7 DEF Level
<1>9. last => \A g \in Files : ProcOf[g] = ProcOf[f] /\ g # f => eFileLock[g] = NO_LOCK
  <2> SUFFICES ASSUME last, NEW g \in Files, ProcOf[g] = ProcOf[f], g # f, eFileLock[g] # NO_LOCK
               PROVE  FALSE
    OBVIOUS
  <2>1. Cardinality(Holders(pInode[f])) <= 1
    BY DEF CountInv
  <2>2. g \in Holders(pInode[f])
    BY Fields DEF Holders
  <2> QED BY <1>3, <2>1, <2>2, FewHolders
<1>10. ~last => \E g \in Files : ProcOf[g] = ProcOf[f] /\ g # f /\ eFileLock[g] >= SHARED_LOCK
  <2>1. ~last => Cardinality(Holders(pInode[f])) # 1
    BY DEF CountInv
  <2>2. ~last => \E h \in Holders(pInode[f]) : h # f
    BY <1>3, <2>1, FewHolders
  <2> QED BY Fields, <2>2 DEF Holders
<1>11. /\ posix' \in [Procs -> [Bytes -> Modes]] /\ PosixInv'
       /\ \A q \in Procs : q # ProcOf[f] => posix'[q] = posix[q]
       /\ ~last \/ Inode(f).bProcessLock => posix' = posix
  <2>1. CASE posix' = posix
    BY <2>1 DEF TypeOK, PosixInv
  <2>2. CASE last /\ ~Inode(f).bProcessLock /\ posix' = SetBytes(ProcOf[f], Bytes, "none")
    <3>1. /\ posix' \in [Procs -> [Bytes -> Modes]]
          /\ \A q \in Procs : q # ProcOf[f] => posix'[q] = posix[q]
          /\ \A b \in Bytes : posix'[ProcOf[f]][b] = "none"
      BY Fields, <2>2 DEF SetBytes, TypeOK, Modes
    <3> QED BY <2>2, <3>1 DEF PosixInv
  <2> QED BY <1>1, <2>1, <2>2
<1>12. TypeOK' /\ Attached'
  BY <1>1, <1>6, <1>11 DEF TypeOK, PcLabels, LockLevels, Attached
<1>13. MutexInv' /\ PcInv' /\ OneAbove' /\ MutualExclusion'
  BY <1>2, <1>6, <1>7, <1>8 DEF MutexInv, PcInv, OneAbove, MutualExclusion, SharedPc
<1>14. CountInv'
  <2> SUFFICES ASSUME NEW g \in Files PROVE CountInv!(g)'
    BY Zenon DEF CountInv
  <2>1. /\ ProcOf[g] = ProcOf[f] =>
             Cardinality(Holders(pInode[g]))' = Cardinality(Holders(pInode[g])) - 1
        /\ ProcOf[g] # ProcOf[f] => Holders(pInode[g])' = Holders(pInode[g])
    BY Fields, <1>1, <1>2, <1>7, HoldersChange
  <2> QED BY Fields, <1>6, <2>1 DEF CountInv
<1>15. LevelInv'
  <2> SUFFICES ASSUME NEW g \in Files PROVE LevelInv!(g)'
    BY DEF LevelInv
  <2>1. CASE ProcOf[g] # ProcOf[f]
    BY <1>6, <1>8, <2>1 DEF LevelInv
  <2>2. CASE ProcOf[g] = ProcOf[f] /\ last
    BY <1>2, <1>6, <1>8, <1>9, <2>2 DEF Level
  <2>3. CASE ProcOf[g] = ProcOf[f] /\ ~last
    <3>1. PICK h \in Files : ProcOf[h] = ProcOf[f] /\ h # f /\ eFileLock[h] >= SHARED_LOCK
      BY <1>10, <2>3
    <3>2. PICK w \in Files : ProcOf[w] = ProcOf[f] /\ Level(w) = Inode(f).eFileLock
      BY <1>2 DEF LevelInv
    <3>3. Level(h) \in 0..4 /\ Level(h) >= SHARED_LOCK /\ Level(h) <= Inode(f).eFileLock
      BY Fields, <3>1 DEF LevelInv, Level
    <3>4. PICK x \in Files : x # f /\ ProcOf[x] = ProcOf[f] /\ Level(x) = Inode(f).eFileLock
      <4>1. CASE w # f
        BY <3>2, <4>1
      <4>2. CASE w = f
        <5>1. Level(h) = Inode(f).eFileLock
          BY <1>2, <3>2, <3>3, <4>2
        <5> QED BY <3>1, <5>1
      <4> QED BY <4>1, <4>2
    <3>5. /\ Inode(g)'.eFileLock = Inode(g).eFileLock
          /\ Level(x)' = Inode(g)'.eFileLock /\ ProcOf[x] = ProcOf[g]
      BY Zenon, Fields, <1>6, <1>8, <2>3, <3>4
    <3>6. Level(g)' <= Inode(g)'.eFileLock
      BY SMTT(30), Fields, <1>8, <3>5 DEF LevelInv
    <3> QED BY <3>5, <3>6
  <2> QED BY <2>1, <2>2, <2>3
<1>16. BackedInv'
  <2> SUFFICES ASSUME NEW g \in Files PROVE BackedInv!(g)'
    BY DEF BackedInv
  <2>1. CASE ProcOf[g] # ProcOf[f]
    BY SMTT(30), Fields, <1>6, <1>7, <1>8, <1>11, <2>1 DEF BackedInv
  <2>2. CASE g = f
    BY <1>6, <1>7, <1>8, <1>11, <2>2 DEF BackedInv, SharedPc
  <2>3. CASE ProcOf[g] = ProcOf[f] /\ g # f /\ last
    <3>1. eFileLock'[g] = NO_LOCK /\ pc'[g] = "idle" /\ Level(g)' = NO_LOCK
      BY <1>2, <1>7, <1>9, <2>3 DEF Level
    <3>2. Inode(f).bProcessLock => posix'[ProcOf[f]]["SHARED"] = "wr"
      BY SMTT(30), <1>11 DEF BackedInv
    <3> QED BY <1>6, <2>3, <3>1, <3>2 DEF SharedPc
  <2>4. CASE ProcOf[g] = ProcOf[f] /\ g # f /\ ~last
    BY Fields, <1>6, <1>7, <1>8, <1>11, <2>4 DEF BackedInv
  <2> QED BY SMTT(30), <2>1, <2>2, <2>3, <2>4
<1> QED BY <1>11, <1>12, <1>13, <1>14, <1>15, <1>16

-----------------------------------------------------------------------------
\* The invariant holds before the first connection is opened.
LEMMA InitInv == Init => IInv
<1> SUFFICES ASSUME Init PROVE IInv
  OBVIOUS
<1> USE DEF Init, NO_LOCK, SHARED_LOCK, RESERVED_LOCK, PENDING_LOCK, EXCLUSIVE_LOCK
<1>1. TypeOK
  BY ProcOfAssumption, MaxInodeAssumption DEF TypeOK, FreshInode, InodeRec, InodeIds, LockLevels,
     NoLocks, Modes, PcLabels
<1>2. \A f \in Files : Inode(f) = FreshInode /\ Level(f) = NO_LOCK
  BY <1>1 DEF Inode, Level, TypeOK
<1>3. \A f \in Files : Holders(pInode[f]) = {}
  BY DEF Holders
<1>4. \A f \in Files : Cardinality(Holders(pInode[f])) = 0
  BY <1>1, <1>3, FewHolders
<1>5. Attached /\ MutexInv /\ PosixInv /\ OneAbove /\ MutualExclusion
  BY <1>2 DEF Attached, MutexInv, PosixInv, OneAbove, MutualExclusion, NoLocks
<1>6. PcInv /\ LevelInv
  BY <1>2 DEF PcInv, LevelInv, FreshInode
<1>7. CountInv
  BY <1>2, <1>4 DEF CountInv, FreshInode
<1>8. BackedInv
  BY <1>2 DEF BackedInv, SharedPc, FreshInode
<1> QED BY <1>1, <1>5, <1>6, <1>7, <1>8 DEF IInv

\* Every step preserves the invariant.
LEMMA InductiveStep == IInv /\ [Next]_lockVars => IInv'
<1>1. ASSUME IInv, NEW f \in Files, LockStep(f) PROVE IInv'
  BY <1>1, JoinSharedStep, PendingForSharedStep, RangeForSharedStep, DropPendingStep,
     LockReservedStep, PendingForExclusiveStep, RangeForExclusiveStep, DowngradeRangeStep,
     DowngradeBytesStep, ReleaseBytesStep, ReleaseSharedStep DEF LockStep
<1>2. ASSUME IInv, UNCHANGED lockVars PROVE IInv'
  <2> USE DEF lockVars, IInv
  <2>1. \A g \in Files : /\ Inode(g)' = Inode(g) /\ Level(g)' = Level(g)
                         /\ Holders(pInode[g])' = Holders(pInode[g])
    BY <1>2 DEF Inode, Level, Holders
  <2>2. TypeOK' /\ Attached' /\ MutexInv' /\ PosixInv'
    BY <1>2 DEF TypeOK, Attached, MutexInv, PosixInv
  <2>3. PcInv' /\ CountInv' /\ LevelInv' /\ OneAbove'
    BY <1>2, <2>1 DEF PcInv, CountInv, LevelInv, OneAbove
  <2>4. BackedInv' /\ MutualExclusion'
    BY <1>2, <2>1 DEF BackedInv, MutualExclusion
  <2> QED BY <2>2, <2>3, <2>4
<1> QED BY <1>1, <1>2 DEF Next

\* The inductive invariant holds in every reachable state.
THEOREM Invariance == Spec => []IInv
  BY InitInv, InductiveStep, PTL DEF Spec

\* Lock and posixUnlock keep every level, counter and label in its type: in
\* particular nShared and nLock are never decremented below zero.
THEOREM TypeCorrect == Spec => []TypeOK
<1>1. IInv => TypeOK
  BY DEF IInv
<1> QED BY <1>1, Invariance, PTL

\* While a connection holds EXCLUSIVE no other connection of any process holds
\* a lock, for any number of processes and of connections per process and
\* whichever fcntl() calls fail.
THEOREM ExclusiveIsExclusive == Spec => []MutualExclusion
<1>1. IInv => MutualExclusion
  BY DEF IInv
<1> QED BY <1>1, Invariance, PTL

\* No two connections both hold RESERVED, and no two hold PENDING or more, for
\* any number of processes and of connections per process.
THEOREM OneWriter == Spec => []OneWriterPerLevel
<1>1. IInv => OneWriterPerLevel
  <2> USE DEF IInv, NO_LOCK, SHARED_LOCK, RESERVED_LOCK, PENDING_LOCK, EXCLUSIVE_LOCK
  <2> SUFFICES ASSUME IInv, NEW f \in Files, NEW g \in Files, f # g
               PROVE  /\ ~(Level(f) = RESERVED_LOCK /\ Level(g) = RESERVED_LOCK)
                      /\ ~(Level(f) >= PENDING_LOCK /\ Level(g) >= PENDING_LOCK)
    BY DEF OneWriterPerLevel
  <2>1. CASE ProcOf[f] = ProcOf[g]
    BY Fields, <2>1 DEF OneAbove, Level
  <2>2. CASE ProcOf[f] # ProcOf[g]
    <3> SUFFICES ASSUME Level(f) > SHARED_LOCK, Level(g) > SHARED_LOCK
                 PROVE  /\ ~(Level(f) = RESERVED_LOCK /\ Level(g) = RESERVED_LOCK)
                        /\ ~(Level(f) >= PENDING_LOCK /\ Level(g) >= PENDING_LOCK)
      BY Fields DEF Level
    <3>1. eFileLock[f] >= SHARED_LOCK /\ eFileLock[g] >= SHARED_LOCK
      BY Fields DEF Level
    <3>2. posix[ProcOf[f]]["SHARED"] # "none" /\ posix[ProcOf[g]]["SHARED"] # "none"
      BY <3>1 DEF BackedInv
    <3>3. ~Inode(f).bProcessLock /\ ~Inode(g).bProcessLock
      BY Fields, <2>2, <3>2 DEF BackedInv, PosixInv, Bytes
    <3>4. /\ Level(f) = RESERVED_LOCK => posix[ProcOf[f]]["RESERVED"] = "wr"
          /\ Level(g) = RESERVED_LOCK => posix[ProcOf[g]]["RESERVED"] = "wr"
          /\ Level(f) >= PENDING_LOCK => posix[ProcOf[f]]["PENDING"] = "wr"
          /\ Level(g) >= PENDING_LOCK => posix[ProcOf[g]]["PENDING"] = "wr"
      BY <3>3 DEF BackedInv
    <3> QED BY Fields, <2>2, <3>4 DEF PosixInv, Bytes
  <2> QED BY <2>1, <2>2
<1> QED BY <1>1, Invariance, PTL

\* The shared unixInodeInfo counts exactly the holders of its process and its
\* level is the highest of theirs, however the operations interleave.
THEOREM CountersExact == Spec => []InodeSummary
<1>1. IInv => InodeSummary
  <2> USE DEF IInv, NO_LOCK, SHARED_LOCK, RESERVED_LOCK, PENDING_LOCK, EXCLUSIVE_LOCK
  <2> SUFFICES ASSUME IInv, NEW f \in Files PROVE InodeSummary!(f)
    BY DEF InodeSummary
  <2>1. /\ Inode(f).nShared = Cardinality(Holders(pInode[f]))
        /\ Inode(f).nLock = Cardinality(Holders(pInode[f])) + (IF Inode(f).bProcessLock THEN 1 ELSE 0)
    BY DEF CountInv
  <2>2. Level(f) <= Inode(f).eFileLock
    BY DEF LevelInv
  <2>3. Inode(f).eFileLock # NO_LOCK =>
          \E g \in Holders(pInode[f]) : Level(g) = Inode(f).eFileLock
    BY Fields DEF LevelInv, Holders, Level, PcInv
  <2> QED BY <2>1, <2>2, <2>3
<1> QED BY <1>1, Invariance, PTL

\* Whatever a connection believes it holds, the operating system enforces.
THEOREM BeliefsAreBacked == Spec => []BeliefsBacked
<1>1. IInv => BeliefsBacked
  BY Zenon DEF IInv, BackedInv, BeliefsBacked, Level, PENDING_LOCK
<1> QED BY <1>1, Invariance, PTL

\* Two processes that both hold shared locks: neither holds them through the
\* process lock of unix-excl.
LEMMA NoProcessLock ==
  ASSUME IInv, NEW f \in Files, NEW g \in Files, ProcOf[f] # ProcOf[g],
         eFileLock[f] >= SHARED_LOCK \/ pc[f] = "dropPendingOk", eFileLock[g] >= SHARED_LOCK
  PROVE  ~Inode(f).bProcessLock /\ ~Inode(g).bProcessLock
<1> USE DEF IInv
<1>1. posix[ProcOf[f]]["SHARED"] # "none" /\ posix[ProcOf[g]]["SHARED"] # "none"
  BY DEF BackedInv
<1> QED BY Fields, <1>1 DEF BackedInv, PosixInv, Bytes

\* CheckReservedLock misses no writer: when it tells a reader, whose process
\* has no lock operation under way, that nobody has RESERVED, then no other
\* connection of this or any other process is at RESERVED.
THEOREM ReservedIsSeen == Spec => []NoReservedUnseen
<1>1. IInv => NoReservedUnseen
  <2> USE DEF IInv, NO_LOCK, SHARED_LOCK, RESERVED_LOCK, PENDING_LOCK, EXCLUSIVE_LOCK
  <2> SUFFICES ASSUME IInv, NEW f \in Files, eFileLock[f] >= SHARED_LOCK, ~CheckReservedLock(f),
                      NEW g \in Files, g # f, Level(g) = RESERVED_LOCK
               PROVE  FALSE
    BY DEF NoReservedUnseen
  <2>1. CASE ProcOf[g] = ProcOf[f]
    BY Fields, <2>1 DEF CheckReservedLock, LevelInv
  <2>2. CASE ProcOf[g] # ProcOf[f]
    <3>1. eFileLock[g] >= SHARED_LOCK
      BY Fields DEF Level
    <3>2. ~Inode(f).bProcessLock /\ ~Inode(g).bProcessLock
      BY <2>2, <3>1, NoProcessLock
    <3>3. posix[ProcOf[g]]["RESERVED"] = "wr"
      BY <3>2 DEF BackedInv
    <3>4. Grantable(ProcOf[f], "RESERVED", "wr")
      BY <3>2 DEF CheckReservedLock
    <3> QED BY Fields, <2>2, <3>3, <3>4 DEF Grantable
  <2> QED BY <2>1, <2>2
<1> QED BY <1>1, Invariance, PTL

\* A file gets SHARED from nothing by joining a sibling or at the end of the
\* three calls of Lock(SHARED_LOCK); no other step does it.
LEMMA HowSharedIsGot ==
  ASSUME IInv, NEW f \in Files, LockStep(f), NEW g \in Files,
         eFileLock[g] = NO_LOCK, eFileLock'[g] = SHARED_LOCK
  PROVE  f = g /\ (JoinShared(g) \/ (DropPending(g) /\ pc[g] = "dropPendingOk"))
<1> USE DEF IInv, NO_LOCK, SHARED_LOCK, RESERVED_LOCK, PENDING_LOCK, EXCLUSIVE_LOCK
<1>0. eFileLock \in [Files -> 0..4] /\ eFileLock'[g] # eFileLock[g]
  BY DEF TypeOK, LockLevels
<1>1. CASE JoinShared(f)
  BY Zenon, <1>0, <1>1 DEF JoinShared, SetBoth
<1>2. CASE PendingForShared(f)
  BY <1>0, <1>2 DEF PendingForShared
<1>3. CASE RangeForShared(f)
  BY <1>0, <1>3 DEF RangeForShared
<1>4. CASE DropPending(f)
  BY Zenon, <1>0, <1>4 DEF DropPending, SetBoth
<1>5. CASE LockReserved(f)
  BY <1>0, <1>5 DEF LockReserved, SetBoth
<1>6. CASE PendingForExclusive(f)
  BY <1>0, <1>6 DEF PendingForExclusive
<1>7. CASE RangeForExclusive(f)
  BY <1>0, <1>7 DEF RangeForExclusive, SetBoth
<1>8. CASE DowngradeRange(f)
  BY <1>0, <1>8 DEF DowngradeRange
<1>9. CASE DowngradeBytes(f)
  BY <1>0, <1>9 DEF DowngradeBytes, SetBoth, PcInv
<1>10. CASE ReleaseBytes(f)
  BY <1>0, <1>10 DEF ReleaseBytes
<1>11. CASE ReleaseShared(f)
  <2>1. eFileLock' = [eFileLock EXCEPT ![f] = NO_LOCK]
    BY <1>11 DEF ReleaseShared, SetBoth
  <2> QED BY <1>0, <2>1
<1> QED BY <1>1, <1>2, <1>3, <1>4, <1>5, <1>6, <1>7, <1>8, <1>9, <1>10, <1>11 DEF LockStep

\* A writer at PENDING is not starved by new readers of other processes: while
\* it waits, a connection gets SHARED only next to a sibling that already
\* reads, whatever calls fail and however the processes interleave.
THEOREM PendingKeepsOut == Spec => PendingKeepsProcessesOut
<1> DEFINE Kept(f, g) ==
      /\ f # g
      /\ Level(f) >= PENDING_LOCK /\ Level(f)' >= PENDING_LOCK
      /\ eFileLock[g] = NO_LOCK /\ eFileLock'[g] = SHARED_LOCK
      => \E h \in Files \ {g} : pInode[h] = pInode[g] /\ eFileLock[h] >= SHARED_LOCK
<1>1. IInv /\ [Next]_lockVars => [\A f, g \in Files : Kept(f, g)]_lockVars
  <2> SUFFICES ASSUME IInv, Next, NEW f \in Files, NEW g \in Files, f # g,
                      Level(f) >= PENDING_LOCK,
                      eFileLock[g] = NO_LOCK, eFileLock'[g] = SHARED_LOCK
               PROVE  \E h \in Files \ {g} : pInode[h] = pInode[g] /\ eFileLock[h] >= SHARED_LOCK
    BY Zenon
  <2>0. JoinShared(g) \/ (DropPending(g) /\ pc[g] = "dropPendingOk")
    BY HowSharedIsGot DEF Next
  <2> USE DEF IInv, NO_LOCK, SHARED_LOCK, RESERVED_LOCK, PENDING_LOCK, EXCLUSIVE_LOCK
  <2>1. CASE JoinShared(g)
    <3>1. Inode(g).eFileLock # NO_LOCK
      BY <2>1 DEF JoinShared
    <3>2. PICK h \in Files : ProcOf[h] = ProcOf[g] /\ Level(h) = Inode(g).eFileLock
      BY <3>1 DEF LevelInv
    <3>3. eFileLock[h] >= SHARED_LOCK
      BY Fields, <3>1, <3>2 DEF Level, PcInv
    <3> QED BY Fields, <3>2, <3>3
  <2>2. CASE pc[g] = "dropPendingOk"
    <3>1. Inode(g).eFileLock = NO_LOCK
      BY <2>2 DEF PcInv, SharedPc
    <3>2. ProcOf[f] # ProcOf[g]
      <4> SUFFICES ASSUME ProcOf[f] = ProcOf[g] PROVE FALSE
        OBVIOUS
      <4>1. Level(f) \in 0..4 /\ Level(f) <= Inode(f).eFileLock /\ Inode(f).eFileLock = NO_LOCK
        BY Fields, <3>1 DEF Level, LevelInv
      <4> QED BY <4>1
    <3>3. eFileLock[f] >= SHARED_LOCK
      BY Fields DEF Level
    <3>4. ~Inode(f).bProcessLock /\ ~Inode(g).bProcessLock
      BY <2>2, <3>2, <3>3, NoProcessLock
    <3>5. posix[ProcOf[f]]["PENDING"] = "wr" /\ posix[ProcOf[g]]["PENDING"] # "none"
      BY <2>2, <3>4 DEF BackedInv, SharedPc
    <3> QED BY Fields, <3>2, <3>5 DEF PosixInv, Bytes
  <2> QED BY <2>0, <2>1, <2>2
<1>2. Spec => [][\A f, g \in Files : Kept(f, g)]_lockVars
  <2> HIDE DEF Kept
  <2> QED BY <1>1, Invariance, PTL DEF Spec
<1> QED BY <1>2 DEF PendingKeepsProcessesOut

=============================================================================
