------------------------- MODULE MultiFile_proofs -------------------------
(***************************************************************************)
(* The removal of master journals, crashes and power losses preserve the   *)
(* invariant of MultiFile_inv; with it a multi-file commit is atomic and   *)
(* durable and refines AtomicCommit, for any number of files, transactions *)
(* and crashes.                                                            *)
(***************************************************************************)
EXTENDS MultiFile_steps
USE ModesAssumption, BoundAssumption DEF NoMaster

\* A step of pager_delmaster that goes on.
LEMMA GoesOn ==
  ASSUME TypeOK, NEW C \in SUBSET Txns, Inv(C), NEW f \in Files, NEW r,
         rec' = [rec EXCEPT ![f] = r], r.own = rec[f].own, RecInv(C, f)',
         UNCHANGED <<disk, writer, faults>>
  PROVE  Inv(C)'
<1> USE DEF dbs, jrnls, mjs, disk, begun, hist, writer, faults
<1>1. PartKept(C) /\ \A g \in Files : FileInv(C, g) /\ RecInv(C, g)
  BY DEF PartKept, Inv
<1>2. \A g \in Files : rec'[g].own = rec[g].own /\ (g # f => rec'[g] = rec[g])
  BY DEF TypeOK
<1>5. ASSUME NEW g \in Files PROVE FileInv(C, g)'
  BY <1>1, FileFrame
<1>6. ASSUME NEW g \in Files PROVE RecInv(C, g)'
  BY <1>1, <1>2, OtherRec
<1>7. MasterInv(C)'
  BY DEF Inv, MasterInv, Multi
<1>8. WriterInv(C)'
  <2>1. WriterInv(C) /\ held \subseteq Files
    BY DEF Inv, TypeOK
  <2> QED BY <1>2, <2>1, WriterFrame
<1> QED BY <1>5, <1>6, <1>7, <1>8 DEF Inv

\* What a playback in pager_delmaster knows stays true when it reads the names
\* in the master or finds that one of them does not name it.
LEMMA KidsRec ==
  ASSUME TypeOK, NEW C \in SUBSET Txns, Inv(C), NEW f \in Files, rec[f].st \in {"delmaster", "kids"},
         UNCHANGED <<disk, writer>>, NEW ks \in SUBSET Files,
         rec'[f] = [rec[f] EXCEPT !.st = "kids", !.kids = ks],
         \A k \in part[rec[f].master] \ ks : ~jrnl[k].there \/ jrnl[k].tail # rec[f].master
  PROVE  RecInv(C, f)'
<1> USE DEF dbs, jrnls, mjs, disk, begun, hist, writer, faults
<1>1. RecInv(C, f) /\ rec[f] \in Playbacks
  BY DEF Inv, TypeOK
<1>2. /\ rec'[f].st = "kids" /\ rec'[f].own = rec[f].own /\ rec'[f].m = rec[f].m
      /\ rec'[f].off = rec[f].off /\ rec'[f].res = rec[f].res /\ rec'[f].master = rec[f].master
      /\ rec'[f].kids = ks /\ rec[f].master \in Txns \cup {NoMaster}
  BY <1>1 DEF Playbacks
<1>3. \A t \in Txns : Multi(t)' <=> Multi(t)
  BY DEF Multi
<1> QED BY <1>1, <1>2, <1>3 DEF RecInv

\* pager_delmaster opens the master: it is gone, or its children are read.
LEMMA DelMasterOpenStep ==
  ASSUME TypeOK, NEW C \in SUBSET Txns, Inv(C), NEW f \in Files, DelMasterOpen(f)
  PROVE  Inv(C)'
<1> USE DEF dbs, jrnls, mjs, disk, begun, hist, writer, faults
<1>1. CASE rec[f].master \in mj
  <2> DEFINE r == [rec[f] EXCEPT !.st = "kids", !.kids = part[rec[f].master]]
  <2>1. rec' = [rec EXCEPT ![f] = r]
    BY Zenon, <1>1 DEF DelMasterOpen
  <2>2. rec'[f] = r /\ r.own = rec[f].own /\ part[rec[f].master] \in SUBSET Files
    BY <1>1, <2>1 DEF TypeOK, Playbacks
  <2>3. RecInv(C, f)'
    BY Zenon, <1>1, <2>2, KidsRec DEF DelMasterOpen
  <2> HIDE DEF r
  <2> QED BY Zenon, <1>1, <2>1, <2>2, <2>3, GoesOn DEF DelMasterOpen
<1>2. CASE rec[f].master \notin mj
  <2>1. PartKept(C) /\ \A g \in Files : FileInv(C, g)
    BY DEF PartKept, DelMasterOpen, Inv
  <2>2. ASSUME NEW g \in Files PROVE FileInv(C, g)'
    BY <2>1, FileFrame DEF DelMasterOpen
  <2> QED BY <1>2, <2>2, Released DEF DelMasterOpen
<1> QED BY <1>1, <1>2

\* pager_delmaster looks at one child: it names the master, which then stays,
\* or it does not.
LEMMA DelMasterCheckStep ==
  ASSUME TypeOK, NEW C \in SUBSET Txns, Inv(C), NEW f \in Files, NEW k \in Files,
         DelMasterCheck(f, k)
  PROVE  Inv(C)'
<1> USE DEF dbs, jrnls, mjs, disk, begun, hist, writer, faults
<1>1. CASE ~(jrnl[k].there /\ jrnl[k].tail = rec[f].master)
  <2>0. rec[f] \in Playbacks /\ rec[f].st = "kids" /\ RecInv(C, f)
    BY DEF TypeOK, DelMasterCheck, Inv
  <2> DEFINE ks == rec[f].kids \ {k}
  <2>1. rec' = [rec EXCEPT ![f] = [rec[f] EXCEPT !.kids = ks]]
    BY <1>1 DEF DelMasterCheck
  <2>2. ks \in SUBSET Files /\ [rec[f] EXCEPT !.kids = ks] = [rec[f] EXCEPT !.st = "kids", !.kids = ks]
        /\ [rec[f] EXCEPT !.kids = ks].own = rec[f].own
    BY Zenon, <2>0 DEF Playbacks
  <2>3. \A i \in part[rec[f].master] \ ks : ~jrnl[i].there \/ jrnl[i].tail # rec[f].master
    BY <1>1, <2>0 DEF RecInv
  <2> HIDE DEF ks
  <2>4. rec'[f] = [rec[f] EXCEPT !.st = "kids", !.kids = ks]
    BY <2>1, <2>2 DEF TypeOK
  <2>5. RecInv(C, f)'
    BY Zenon, <1>1, <2>0, <2>2, <2>3, <2>4, KidsRec DEF DelMasterCheck
  <2> QED BY Zenon, <1>1, <2>1, <2>2, <2>5, GoesOn DEF DelMasterCheck
<1>2. CASE jrnl[k].there /\ jrnl[k].tail = rec[f].master
  <2>1. PartKept(C) /\ \A g \in Files : FileInv(C, g)
    BY DEF PartKept, DelMasterCheck, Inv
  <2>2. ASSUME NEW g \in Files PROVE FileInv(C, g)'
    BY <2>1, FileFrame DEF DelMasterCheck
  <2> QED BY <1>2, <2>2, Released DEF DelMasterCheck
<1> QED BY <1>1, <1>2

\* The master goes when no journal names it; a journal on disk that still does
\* belongs to a file that was rolled back.
LEMMA DelMasterDeleteStep ==
  ASSUME TypeOK, NEW C \in SUBSET Txns, Inv(C), NEW f \in Files, DelMasterDelete(f)
  PROVE  Inv(C)'
<1> USE DEF dbs, jrnls, mjs, disk, begun, hist, writer, faults
<1>1. PartKept(C) /\ \A g \in Files : FileInv(C, g) /\ RecInv(C, g)
  BY DEF PartKept, DelMasterDelete, Inv
<1>2. /\ rec[f].master \in Txns /\ rec[f].master \notin C
      /\ rec[f].master # txn \/ pc \in {"idle", "rollback"}
      /\ \A k \in part[rec[f].master] : ~jrnl[k].there \/ jrnl[k].tail # rec[f].master
  <2>1. RecInv(C, f) /\ rec[f].st = "kids" /\ rec[f].kids = {}
    BY <1>1 DEF DelMasterDelete
  <2> QED BY <2>1 DEF RecInv, TypeOK, Playbacks
<1>3. ASSUME NEW g \in Files
      PROVE  jrnl[g].tail # rec[f].master /\ (jrnlDisk[g].tail = rec[f].master => Clean(C, g))
  <2>1. FileInv(C, g) /\ rec[f].master # NoMaster
    BY <1>1, <1>2 DEF Txns
  <2>2. jrnl[g].tail # rec[f].master
    BY <1>2, <2>1 DEF FileInv, JournalInv, Hot
  <2>3. jrnlDisk[g].tail = rec[f].master => Clean(C, g)
    BY <2>1, <2>2 DEF FileInv, DiskInv, HotDisk
  <2> QED BY <2>2, <2>3
<1>4. mj' = mj \ {rec[f].master} /\ UNCHANGED <<dbs, jrnls, mjDisk, begun, cur, todo, hist, faults>>
  BY DEF DelMasterDelete
<1>5. ASSUME NEW g \in Files PROVE FileInv(C, g)'
  BY <1>1, <1>3, <1>4, FileFrame
<1> QED BY Zenon, <1>2, <1>3, <1>4, <1>5, Released DEF DelMasterDelete

\* A recovering connection stops before the end of its playback.
LEMMA PlayAbandonStep ==
  ASSUME TypeOK, NEW C \in SUBSET Txns, Inv(C), NEW f \in Files, PlayAbandon(f)
  PROVE  Inv(C)'
<1> USE DEF dbs, jrnls, mjs, disk, begun, hist, writer, faults
<1>1. PartKept(C) /\ \A g \in Files : FileInv(C, g)
  BY DEF PartKept, PlayAbandon, Inv
<1>2. ASSUME NEW g \in Files PROVE FileInv(C, g)'
  BY <1>1, FileFrame DEF PlayAbandon
<1> QED BY Zenon, <1>2, Released DEF PlayAbandon

\* The writing process dies between any two of its steps.
LEMMA CrashStep ==
  ASSUME TypeOK, NEW C \in SUBSET Txns, Inv(C), ~UnlinkLost, Crash
  PROVE  Inv(C)'
<1> USE DEF dbs, jrnls, mjs, disk, begun, hist, writer, faults
<1>1. PartKept(C) /\ \A g \in Files : FileInv(C, g) /\ RecInv(C, g)
  BY DEF PartKept, Crash, Inv
<1>2. /\ pc' = "idle" /\ cur' = {} /\ held' = {} /\ UNCHANGED <<dbs, jrnls, mj, begun, hist, power>>
      /\ rec' = [f \in Files |-> IF rec[f].own THEN Idle ELSE rec[f]]
      /\ mjDisk' = IF pc = "mjdirsync" THEN mjDisk \ {txn} ELSE mjDisk
  BY DEF Crash, WriterGone, LateUnlink
<1>3. pc = "mjdirsync" => txn \in C /\ txn \notin mj
  BY DEF Inv, WriterInv, MasterInv
<1>5. ASSUME NEW g \in Files PROVE FileInv(C, g)'
  BY <1>1, <1>2, <1>3, FileFrame
<1>6. ASSUME NEW g \in Files PROVE RecInv(C, g)'
  <2>1. CASE rec[g].own
    <3>1. rec'[g] = Idle /\ ~Idle.own /\ Idle.st = "idle"
      BY <1>2, <2>1 DEF Idle
    <3> QED BY <1>2, <3>1 DEF RecInv
  <2>2. CASE ~rec[g].own
    <3>1. rec'[g] = rec[g]
      BY <1>2, <2>2
    <3> QED BY <1>1, <1>2, <2>2, <3>1, RecFrame
  <2> QED BY <2>1, <2>2
<1>7. MasterInv(C)'
  BY <1>2, <1>3 DEF Inv, MasterInv, Multi
<1>8. WriterInv(C)'
  BY <1>2 DEF WriterInv, Before, PhaseOne
<1> QED BY <1>5, <1>6, <1>7, <1>8 DEF Inv
\* The transactions that power loss takes back: the one whose master journal was
\* unlinked but comes back, and one of a single file whose journal comes back.
MasterBack == pc = "mjdirsync" /\ txn \in mj'
JournalBack(t) ==
  \E f \in Files : /\ part[t] = {f} /\ t \notin jrnl'[f].old
                   /\ jrnl'[f].there /\ jrnl'[f].hdr /\ jrnl'[f].tail = NoMaster

\* Power loss: what was not synced is lost, and the committed transactions are
\* those that nothing on the disk takes back.
LEMMA PowerLossStep ==
  ASSUME TypeOK, NEW C \in SUBSET Txns, Inv(C), PowerLoss, NEW K \in SUBSET Txns,
         K = {t \in C : ~(MasterBack /\ t = txn) /\ ~JournalBack(t)}
  PROVE  Inv(K)'
<1> USE DEF dbs, jrnls, mjs, disk, begun, hist, writer, faults
<1>1. \A g \in Files : FileInv(C, g)
  BY DEF Inv
<1>2. /\ pc' = "idle" /\ cur' = {} /\ held' = {} /\ UNCHANGED <<begun, acked>> /\ power'
      /\ rec' = [f \in Files |-> Idle]
      /\ \A f \in Files : /\ db'[f] = IF db[f] = dbDisk[f] THEN db[f] ELSE Torn
                          /\ jrnl'[f] = jrnl[f] \/ jrnl'[f] = jrnlDisk[f]
      /\ dbDisk' = db' /\ jrnlDisk' = jrnl' /\ mjDisk' = mj'
      /\ mj' \subseteq mj \cup mjDisk /\ mj \cap mjDisk \subseteq mj'
  BY DEF PowerLoss, WriterGone
<1>3. MasterBack =>
        /\ txn \in Txns /\ txn \in C /\ Multi(txn)
        /\ \A f \in part[txn] : /\ f \in Files /\ jrnl'[f] = jrnl[f] /\ Hot(f) /\ jrnl[f].tail = txn
  <2> SUFFICES ASSUME MasterBack
               PROVE  /\ txn \in Txns /\ txn \in C /\ Multi(txn)
                      /\ \A f \in part[txn] :
                           f \in Files /\ jrnl'[f] = jrnl[f] /\ Hot(f) /\ jrnl[f].tail = txn
    OBVIOUS
  <2>1. txn \in Txns /\ txn \in C /\ Multi(txn) /\ held = part[txn] /\ held \subseteq Files
    BY Zenon DEF MasterBack, Inv, MasterInv, WriterInv, TypeOK
  <2>2. \A f \in held : Hot(f) /\ jrnl[f].tail = txn /\ jrnlDisk[f] = jrnl[f]
    BY DEF MasterBack, Inv, WriterInv
  <2> QED BY <1>2, <2>1, <2>2
<1>4. \A t \in Txns : (Multi(t)' <=> Multi(t)) /\ (Multi(t) => ~JournalBack(t))
  BY <1>2 DEF Multi, JournalBack
<1>5. ASSUME NEW f \in Files PROVE FileInv(K, f)'
  <2> DEFINE j == jrnl'[f]
             lost == MasterBack /\ f \in part[txn]
  <2>1. V(K, f)' = {t \in K : f \in part[t]} /\ V(C, f) = {t \in C : f \in part[t]}
    BY <1>2 DEF V
  <2>2. j.tail \in Txns \cup {NoMaster} /\ FileInv(C, f) /\ txn \in Nat
    BY <1>1, <1>2 DEF TypeOK, Journals
  <2>3. (j.hdr => j.there) /\ (~j.hdr => j.tail = NoMaster)
    BY Zenon, <1>2, <2>2 DEF FileInv, JournalInv, DiskInv
  <2>4. CASE j.hdr /\ j.tail = NoMaster
    <3>1. j.old = V(C, f) \/ \E s \in C : part[s] = {f} /\ j.old = V(C, f) \ {s}
      BY <1>2, <2>2, <2>3, <2>4 DEF FileInv, JournalInv, DiskInv, Hot, HotDisk
    <3>2. ~lost
      BY <1>3, <2>4 DEF Txns
    <3>3. ASSUME NEW t \in C, f \in part[t] PROVE t \in K <=> t \in j.old
      <4>1. ~(MasterBack /\ t = txn)
        BY <3>2, <3>3
      <4>2. JournalBack(t) <=> part[t] = {f} /\ t \notin j.old
        BY <2>3, <2>4, <3>3 DEF JournalBack
      <4>3. t \notin j.old => part[t] = {f}
        BY <3>1, <3>3, <2>1
      <4> QED BY <4>1, <4>2, <4>3
    <3>4. j.old \subseteq V(C, f)
      BY <3>1
    <3>5. j.old = V(K, f)'
      BY Zenon, <2>1, <3>3, <3>4
    <3> QED BY Zenon, <1>2, <2>3, <2>4, <3>5 DEF FileInv, JournalInv, DiskInv, Hot, HotDisk
  <2>5. CASE j.hdr /\ j.tail # NoMaster
    <3>1. /\ f \in part[j.tail] /\ Multi(j.tail)
          /\ j.tail \in C => j.old = V(C, f) \ {j.tail} /\ Clean(C, f)
          /\ j.tail \notin C => j.old = V(C, f) /\ (j.tail \in mj \cap mjDisk \/ Clean(C, f))
      BY <1>2, <2>2, <2>3, <2>5 DEF FileInv, JournalInv, DiskInv, Hot, HotDisk
    <3>2. \A t \in C : f \in part[t] => ~JournalBack(t)
      BY <2>5 DEF JournalBack
    <3>3. CASE lost
      <4>1. j.tail = txn /\ txn \in C /\ txn \in mj' /\ txn \notin K
        BY Zenon, <1>2, <1>3, <3>3 DEF MasterBack
      <4>2. V(K, f)' = V(C, f) \ {txn}
        BY <2>1, <3>2, <3>3
      <4> QED BY Zenon, <1>2, <1>4, <2>2, <2>3, <2>5, <3>1, <4>1, <4>2
            DEF FileInv, JournalInv, DiskInv, Hot, HotDisk
    <3>4. CASE ~lost
      <4>1. V(K, f)' = V(C, f) /\ (j.tail \in K <=> j.tail \in C)
        BY Zenon, <2>1, <2>2, <3>1, <3>2, <3>4
      <4>2. Clean(C, f) => Clean(K, f)'
        BY <1>2, <4>1 DEF Clean
      <4> QED BY Zenon, <1>2, <1>4, <2>2, <2>3, <2>5, <3>1, <4>1, <4>2
            DEF FileInv, JournalInv, DiskInv, Hot, HotDisk
    <3> QED BY <3>3, <3>4
  <2>6. CASE ~j.hdr
    <3>1. Clean(C, f)
      BY Zenon, <1>2, <2>2, <2>6 DEF FileInv, JournalInv, DiskInv, Hot, HotDisk
    <3>2. ~lost
      BY <1>3, <2>6 DEF Hot
    <3>3. \A t \in C : f \in part[t] => ~JournalBack(t)
      BY <2>6 DEF JournalBack
    <3>4. V(K, f)' = V(C, f)
      BY Zenon, <2>1, <3>2, <3>3
    <3>5. Clean(K, f)'
      BY Zenon, <1>2, <3>1, <3>4 DEF Clean
    <3> QED BY Zenon, <1>2, <2>3, <2>6, <3>5 DEF FileInv, JournalInv, DiskInv, Hot, HotDisk
  <2> QED BY <2>4, <2>5, <2>6
<1>6. ASSUME NEW g \in Files PROVE RecInv(K, g)'
  <2>1. rec'[g] = Idle /\ ~Idle.own /\ Idle.st = "idle"
    BY Zenon, <1>2 DEF Idle
  <2> QED BY Zenon, <1>2, <2>1 DEF RecInv
<1>7. MasterInv(K)'
  <2>1. \A t \in K : Multi(t) => t \notin mj'
    BY Zenon, <1>2 DEF Inv, MasterInv, MasterBack
  <2>2. \A t \in acked : Multi(t) => t \in K
    BY Zenon, <1>4 DEF Inv, MasterInv, MasterBack, TypeOK
  <2> QED BY Zenon, <1>2, <1>4, <2>1, <2>2 DEF Inv, MasterInv, TypeOK
<1>8. WriterInv(K)'
  BY Zenon, <1>2 DEF WriterInv, Before, PhaseOne
<1> QED BY <1>5, <1>6, <1>7, <1>8 DEF Inv
-----------------------------------------------------------------------------
(* What is committed changes only as AtomicCommit says.                    *)

\* A step leaves the committed transactions C as they are, commits the current
\* one, or loses some to a power failure.
Moves(C, K) ==
  \/ K = C /\ part' = part
  \/ K = C /\ \E t \in Txns, fs \in SUBSET Files :
                part[t] = {} /\ t \notin C /\ part' = [part EXCEPT ![t] = fs]
  \/ part' = part /\ txn \in Txns /\ K = C \cup {txn}
  \/ part' = part /\ K \subseteq C

\* Every step keeps the invariant for committed transactions that move as
\* AtomicCommit allows.
LEMMA InvStep ==
  ASSUME TypeOK, NEW C \in SUBSET Txns, Inv(C), RecoverModes = {"delete"}, ~UnlinkLost, [Next]_vars
  PROVE  \E K \in SUBSET Txns : Inv(K)' /\ Moves(C, K)
<1> USE DEF dbs, jrnls, mjs, disk, begun, hist, writer, faults
<1> SUFFICES (\E K \in SUBSET Txns : Inv(K)' /\ Moves(C, K)) \/ (Inv(C)' /\ part' = part)
  BY DEF Moves
<1>1. ASSUME NEW fs \in SUBSET Files, NEW m \in WriterModes, Begin(fs, m)
      PROVE  Inv(C)' /\ Moves(C, C)
  <2>1. txn + 1 \in Txns /\ part[txn + 1] = {} /\ txn + 1 \notin C
        /\ part' = [part EXCEPT ![txn + 1] = fs]
    BY <1>1 DEF TypeOK, Inv, MasterInv, Begin, Txns
  <2> QED BY Zenon, <1>1, <2>1, BeginStep DEF Moves
<1>2. ASSUME NEW f \in Files, Spill(f) PROVE Inv(C)' /\ part' = part
  BY Zenon, <1>2, SpillStep DEF Spill
<1>3. ASSUME NEW f \in Files, NEW longer \in BOOLEAN, OpenJournal(f, longer)
      PROVE  Inv(C)' /\ part' = part
  BY Zenon, <1>3, OpenJournalStep DEF OpenJournal
<1>4. ASSUME NEW f \in Files, WriteMasterJournal(f) PROVE Inv(C)' /\ part' = part
  BY Zenon, <1>4, WriteMasterStep DEF WriteMasterJournal
<1>5. ASSUME NEW f \in Files, SyncJournal(f) PROVE Inv(C)' /\ part' = part
  BY Zenon, <1>5, SyncJournalStep DEF SyncJournal
<1>6. ASSUME NEW f \in Files, WriteDb(f) PROVE Inv(C)' /\ part' = part
  BY Zenon, <1>6, WriteDbStep DEF WriteDb
<1>7. ASSUME NEW f \in Files, SyncDb(f) PROVE Inv(C)' /\ part' = part
  BY Zenon, <1>7, SyncDbStep DEF SyncDb
<1>8. CASE CommitStart
  BY <1>8, CommitStartStep DEF CommitStart
<1>9. CASE MasterOpen
  BY <1>9, MasterOpenStep DEF MasterOpen
<1>10. CASE MasterSync
  BY <1>10, MasterSyncStep DEF MasterSync
<1>11. CASE MasterDelete
  <2>1. CASE UNCHANGED mj /\ Fail
    BY <1>11, <2>1, FailStep DEF MasterDelete
  <2>2. CASE mj' = mj \ {txn} /\ pc' = "mjdirsync" /\ UNCHANGED <<todo, cur>>
    <3>1. txn \in Txns
      BY <1>11 DEF MasterDelete, Inv, MasterInv
    <3> DEFINE K == C \cup {txn}
    <3>2. PICK D \in SUBSET Txns : D = K
      BY Zenon, <3>1
    <3>3. Inv(D)'
      BY Zenon, <1>11, <2>2, <3>2, MasterDeleteStep DEF MasterDelete
    <3>4. Moves(C, D)
      BY <1>11, <3>1, <3>2 DEF Moves, MasterDelete
    <3> QED BY <3>3, <3>4
  <2> QED BY <1>11, <2>1, <2>2 DEF MasterDelete
<1>12. CASE MasterDirSync
  BY <1>12, MasterDirSyncStep DEF MasterDirSync
<1>13. CASE PhaseOneError
  BY <1>13, FailStep DEF PhaseOneError, PhaseOne
<1>14. ASSUME NEW f \in Files, NEW ok \in BOOLEAN, CommitPhaseTwo(f, ok)
       PROVE  \E K \in SUBSET Txns : Inv(K)' /\ Moves(C, K)
  <2>0. part' = part /\ txn \in Txns
    BY <1>14 DEF CommitPhaseTwo, Inv, MasterInv
  <2>1. CASE Multi(txn) \/ ~ok
    BY <1>14, <2>0, <2>1, PhaseTwoStep DEF Moves
  <2>2. CASE ~Multi(txn) /\ ok
    <3>1. PICK D \in SUBSET Txns : D = C \cup {txn}
      BY Zenon, <2>0
    <3>2. Inv(D)'
      BY Zenon, <1>14, <2>2, <3>1, SingleStep
    <3>3. Moves(C, D)
      BY <2>0, <3>1 DEF Moves
    <3> QED BY <3>2, <3>3
  <2> QED BY Zenon, <2>1, <2>2
<1>15. ASSUME NEW f \in Files, NEW m \in RecoverModes, Recover(f, m) PROVE Inv(C)' /\ part' = part
  BY Zenon, <1>15, RecoverStep DEF Recover
<1>16. ASSUME NEW f \in Files, Rollback(f) PROVE Inv(C)' /\ part' = part
  BY Zenon, <1>16, RollbackStep DEF Rollback
<1>17. ASSUME NEW f \in Files, PlayPages(f) PROVE Inv(C)' /\ part' = part
  BY Zenon, <1>17, PlayPagesStep DEF PlayPages
<1>18. ASSUME NEW f \in Files, PlaySync(f) PROVE Inv(C)' /\ part' = part
  BY Zenon, <1>18, PlaySyncStep DEF PlaySync
<1>19. ASSUME NEW f \in Files, PlayEnd(f) PROVE Inv(C)' /\ part' = part
  BY Zenon, <1>19, PlayEndStep DEF PlayEnd
<1>20. ASSUME NEW f \in Files, DelMasterOpen(f) PROVE Inv(C)' /\ part' = part
  BY <1>20, DelMasterOpenStep DEF DelMasterOpen
<1>21. ASSUME NEW f \in Files, NEW k \in Files, DelMasterCheck(f, k) PROVE Inv(C)' /\ part' = part
  BY <1>21, DelMasterCheckStep DEF DelMasterCheck
<1>22. ASSUME NEW f \in Files, DelMasterDelete(f) PROVE Inv(C)' /\ part' = part
  BY Zenon, <1>22, DelMasterDeleteStep DEF DelMasterDelete
<1>23. ASSUME NEW f \in Files, PlayAbandon(f) PROVE Inv(C)' /\ part' = part
  BY Zenon, <1>23, PlayAbandonStep DEF PlayAbandon
<1>24. CASE Crash
  BY <1>24, CrashStep DEF Crash
<1>25. CASE PowerLoss
  <2>1. PICK D \in SUBSET Txns : D = {t \in C : ~(MasterBack /\ t = txn) /\ ~JournalBack(t)}
    OBVIOUS
  <2>2. Inv(D)'
    BY <1>25, <2>1, PowerLossStep
  <2>3. Moves(C, D)
    BY <1>25, <2>1 DEF Moves, PowerLoss
  <2> QED BY <2>2, <2>3
<1>26. CASE UNCHANGED vars
  <2>1. PartKept(C) /\ WriterInv(C) /\ \A g \in Files : FileInv(C, g) /\ RecInv(C, g)
    BY <1>26 DEF PartKept, vars, Inv
  <2>2. ASSUME NEW g \in Files PROVE FileInv(C, g)' /\ RecInv(C, g)'
    BY Zenon, <1>26, <2>1, FileFrame, OtherRec DEF vars
  <2>3. WriterInv(C)'
    BY Zenon, <1>26, <2>1, WriterFrame DEF vars
  <2>4. MasterInv(C)'
    BY Zenon, <1>26 DEF vars, Inv, MasterInv, Multi
  <2> QED BY <1>26, <2>2, <2>3, <2>4 DEF vars, Inv
<1> QED BY <1>1, <1>2, <1>3, <1>4, <1>5, <1>6, <1>7, <1>8, <1>9, <1>10, <1>11, <1>12, <1>13,
          <1>14, <1>15, <1>16, <1>17, <1>18, <1>19, <1>20, <1>21, <1>22, <1>23, <1>24, <1>25, <1>26
       DEF Next, WriterStep, PlayStep

\* At first nothing is committed.
LEMMA InvInit == Init => Inv({})
<1> SUFFICES ASSUME Init PROVE Inv({})
  OBVIOUS
<1>1. \A f \in Files : /\ jrnl[f] = NoJournal /\ jrnlDisk[f] = NoJournal /\ rec[f] = Idle
                       /\ db[f] = {} /\ dbDisk[f] = {}
  BY Zenon DEF Init
<1>2. \A f \in Files : V({}, f) = {}
  BY DEF V
<1>3. \A f \in Files : FileInv({}, f)
  <2>1. ~NoJournal.hdr /\ ~NoJournal.there /\ NoJournal.tail = NoMaster
    BY DEF NoJournal
  <2>2. \A f \in Files : ~Hot(f) /\ ~HotDisk(f) /\ Clean({}, f)
    BY Zenon, <1>1, <1>2, <2>1 DEF Hot, HotDisk, Clean
  <2> QED BY Zenon, <1>1, <2>1, <2>2 DEF FileInv, JournalInv, DiskInv
<1>4. \A f \in Files : RecInv({}, f)
  BY Zenon, <1>1 DEF Init, RecInv, Idle
<1>5. MasterInv({})
  BY DEF Init, MasterInv, Txns
<1>6. WriterInv({})
  BY DEF Init, WriterInv, Before, PhaseOne
<1> QED BY <1>3, <1>4, <1>5, <1>6 DEF Inv

\* The next connection reads the committed content of every file.
LEMMA OutcomeIs ==
  ASSUME TypeOK, NEW C \in SUBSET Txns, Inv(C), NEW f \in Files
  PROVE  Outcome(f) = V(C, f)
<1>1. FileInv(C, f)
  BY DEF Inv
<1>2. Hot(f) /\ jrnl[f].tail # NoMaster /\ jrnl[f].tail \in mj => jrnl[f].tail \notin C
  BY Zenon, <1>1 DEF FileInv, JournalInv, Inv, MasterInv
<1> QED BY Zenon, <1>1, <1>2 DEF Outcome, MasterSaysPlay, FileInv, JournalInv, Clean

\* The invariant holds in every reachable state.
THEOREM CommitInductive ==
  ASSUME RecoverModes = {"delete"}, ~UnlinkLost
  PROVE  Spec => []IInv
<1>1. Init => IInv
  <2>1. {} \in SUBSET Txns
    OBVIOUS
  <2> QED BY <2>1, TypeInit, InvInit DEF IInv
<1>2. IInv /\ [Next]_vars => IInv'
  <2> SUFFICES ASSUME IInv, [Next]_vars PROVE IInv'
    OBVIOUS
  <2>1. PICK C \in SUBSET Txns : Inv(C)
    BY DEF IInv
  <2>2. TypeOK /\ TypeOK'
    BY <2>1, TypeNext DEF IInv
  <2>3. PICK K \in SUBSET Txns : Inv(K)'
    BY <2>1, <2>2, InvStep
  <2>4. Txns' = Txns
    BY DEF Txns
  <2> QED BY <2>2, <2>3, <2>4 DEF IInv
<1> QED BY <1>1, <1>2, PTL DEF Spec

\* Whatever step the writer, a recovering connection or the machine stops at,
\* the next connections find a transaction in all of its files or in none: what
\* vdbeCommit uses the master journal for.
THEOREM CommitAllOrNone ==
  ASSUME RecoverModes = {"delete"}, ~UnlinkLost
  PROVE  Spec => []AllOrNone
<1>1. IInv => AllOrNone
  <2> SUFFICES ASSUME IInv PROVE AllOrNone
    OBVIOUS
  <2>1. PICK C \in SUBSET Txns : Inv(C)
    BY DEF IInv
  <2>2. \A t \in Txns : part[t] \subseteq Files
    BY DEF IInv, TypeOK
  <2>3. \A f \in Files : Outcome(f) = V(C, f)
    BY <2>1, OutcomeIs DEF IInv
  <2> QED BY <2>2, <2>3 DEF AllOrNone, V
<1> QED BY <1>1, CommitInductive, PTL

\* A transaction whose commit was acknowledged stays in all of its files,
\* through deaths, and through power loss when it wrote several files.
THEOREM CommitDurable ==
  ASSUME RecoverModes = {"delete"}, ~UnlinkLost
  PROVE  Spec => []Durable
<1>1. IInv => Durable
  <2> SUFFICES ASSUME IInv PROVE Durable
    OBVIOUS
  <2>1. PICK C \in SUBSET Txns : Inv(C)
    BY DEF IInv
  <2>2. \A t \in acked : t \in Txns /\ part[t] \subseteq Files
    BY DEF IInv, TypeOK
  <2>3. \A f \in Files : Outcome(f) = V(C, f)
    BY <2>1, OutcomeIs DEF IInv
  <2>4. \A t \in acked : Multi(t) \/ ~power => t \in C
    BY <2>1 DEF Inv, MasterInv
  <2> QED BY Zenon, <2>2, <2>3, <2>4 DEF Durable, V
<1> QED BY <1>1, CommitInductive, PTL

\* OutcomeIs as a formula that can be primed.
Agrees ==
  \A C \in SUBSET Txns : TypeOK /\ Inv(C) => \A f \in Files : Outcome(f) = V(C, f)

\* Every step of vdbeCommit, of the recovery and of a failure is a step of the
\* atomic commit of AtomicCommit, or invisible to the next connections.
THEOREM CommitRefines ==
  ASSUME RecoverModes = {"delete"}, ~UnlinkLost
  PROVE  Spec => RefinesAtomicCommit
<1>1. Init => Atomic!Init
  <2> SUFFICES ASSUME Init PROVE Atomic!Init
    OBVIOUS
  <2>1. TypeOK /\ Inv({})
    BY TypeInit, InvInit
  <2>2. \A f \in Files : Outcome(f) = {}
    BY <2>1, OutcomeIs DEF V
  <2> QED BY <2>2 DEF Init, Atomic!Init, Txns, Atomic!Txns
<1>2. Agrees
  BY Zenon, OutcomeIs DEF Agrees
<1>3. IInv /\ Agrees' /\ [Next]_vars => [Atomic!Next]_<<part, [f \in Files |-> Outcome(f)]>>
  <2> SUFFICES ASSUME IInv, Agrees', [Next]_vars
               PROVE  [Atomic!Next]_<<part, [f \in Files |-> Outcome(f)]>>
    OBVIOUS
  <2>1. PICK C \in SUBSET Txns : Inv(C)
    BY DEF IInv
  <2>2. TypeOK /\ TypeOK'
    BY <2>1, TypeNext DEF IInv
  <2>3. PICK K \in SUBSET Txns : Inv(K)' /\ Moves(C, K)
    BY <2>1, <2>2, InvStep
  <2> DEFINE val == [f \in Files |-> Outcome(f)]
             after == [f \in Files |-> {t \in K : f \in part'[t]}]
  <2>4. val = [f \in Files |-> {t \in C : f \in part[t]}]
    BY <2>1, <2>2, OutcomeIs DEF V
  <2>5. val' = after
    <3>1. \A f \in Files : Outcome(f)' = V(K, f)'
      BY <2>2, <2>3 DEF Agrees, Txns
    <3> QED BY <3>1 DEF V
  <2>6. CASE K = C /\ part' = part
    BY <2>4, <2>5, <2>6
  <2>7. ASSUME NEW t \in Txns, NEW fs \in SUBSET Files, K = C,
               part[t] = {}, t \notin C, part' = [part EXCEPT ![t] = fs]
        PROVE  Atomic!Begin(t, fs)
    <3>1. \A f \in Files : {s \in C : f \in part'[s]} = {s \in C : f \in part[s]}
      BY <2>2, <2>7 DEF TypeOK
    <3>2. val' = val
      BY <2>4, <2>5, <2>7, <3>1
    <3> QED BY Zenon, <2>7, <3>2 DEF Atomic!Begin
  <2>8. CASE part' = part /\ txn \in Txns /\ K = C \cup {txn}
    <3>1. \A f \in Files : {t \in K : f \in part[t]} =
                             {t \in C : f \in part[t]} \cup (IF f \in part[txn] THEN {txn} ELSE {})
      BY <2>8
    <3>2. val' = [f \in Files |-> val[f] \cup (IF f \in part[txn] THEN {txn} ELSE {})]
      BY <2>4, <2>5, <2>8, <3>1
    <3> QED BY <2>8, <3>2 DEF Atomic!Commit, Atomic!Next, Txns, Atomic!Txns
  <2>9. CASE part' = part /\ K \subseteq C
    <3>1. \A f \in Files : {t \in K : f \in part[t]} = {t \in C : f \in part[t]} \ (C \ K)
      BY <2>9
    <3>2. val' = [f \in Files |-> val[f] \ (C \ K)]
      BY <2>4, <2>5, <2>9, <3>1
    <3>3. Atomic!Lose(C \ K) /\ C \ K \in SUBSET Txns
      BY <2>9, <3>2 DEF Atomic!Lose
    <3> QED BY <3>3 DEF Atomic!Next, Txns, Atomic!Txns
  <2> QED BY <2>3, <2>6, <2>7, <2>8, <2>9 DEF Moves, Atomic!Next, Txns, Atomic!Txns
<1> QED BY <1>1, <1>2, <1>3, CommitInductive, PTL DEF Spec, RefinesAtomicCommit, Atomic!Spec
=============================================================================
