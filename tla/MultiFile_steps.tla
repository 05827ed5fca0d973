-------------------------- MODULE MultiFile_steps --------------------------
(***************************************************************************)
(* The second half of a multi-file commit and the playback of journals     *)
(* preserve the invariant of MultiFile_inv.                                *)
(***************************************************************************)
EXTENDS MultiFile_inv
USE ModesAssumption, BoundAssumption DEF NoMaster
\* The commit fails with the files as they are: every journal is hot.
LEMMA FailStep ==
  ASSUME TypeOK, NEW C \in SUBSET Txns, Inv(C), Fail, pc \in PhaseOne \cup {"mjdelete"},
         UNCHANGED <<disk, begun, held, hist, rec, faults>>
  PROVE  Inv(C)'
<1> USE DEF dbs, jrnls, mjs, disk, begun, hist, writer, faults
<1>1. PartKept(C) /\ \A g \in Files : FileInv(C, g) /\ RecInv(C, g)
  BY DEF PartKept, Inv
<1>5. ASSUME NEW g \in Files PROVE FileInv(C, g)'
  BY <1>1, FileFrame
<1>6. ASSUME NEW g \in Files PROVE RecInv(C, g)'
  BY <1>1, WriterRec DEF Fail, PhaseOne
<1>7. MasterInv(C)'
  BY DEF Inv, MasterInv, Multi, Fail, PhaseOne
<1>8. WriterInv(C)'
  <2>1. \A g \in held : Hot(g)'
    BY DEF Hot, Inv, WriterInv, PhaseOne, Done
  <2>2. held \subseteq part[txn]
    BY DEF Inv, WriterInv, PhaseOne
  <2> QED BY <2>1, <2>2 DEF Fail, WriterInv, Before, PhaseOne
<1> QED BY <1>5, <1>6, <1>7, <1>8 DEF Inv

\* The unlink of the master commits the transaction in all of its files.
LEMMA MasterDeleteStep ==
  ASSUME TypeOK, NEW C \in SUBSET Txns, Inv(C), pc = "mjdelete", pc' = "mjdirsync",
         mj' = mj \ {txn}, UNCHANGED <<todo, cur, dbs, jrnls, mjDisk, begun, held, acked, rec, faults>>,
         NEW K \in SUBSET Txns, K = C \cup {txn}
  PROVE  Inv(K)'
<1> USE DEF dbs, jrnls, mjs, disk, begun, hist, writer, faults
<1>1. \A g \in Files : FileInv(C, g) /\ RecInv(C, g)
  BY DEF Inv
<1>2. /\ txn \in Txns /\ txn \notin C /\ held = part[txn] /\ Multi(txn) /\ held \subseteq Files
      /\ \A g \in held : Done(C, g) /\ jrnl[g].tail = txn
      /\ txn \in mj \cap mjDisk
  BY DEF Inv, WriterInv, MasterInv, Done, Target, TypeOK
<1>3. ASSUME NEW g \in Files
      PROVE  V(K, g)' = IF g \in held THEN V(C, g) \cup {txn} ELSE V(C, g)
  BY <1>2 DEF V
<1>4. \A t \in Txns : Multi(t)' <=> Multi(t)
  BY DEF Multi
<1>5. ASSUME NEW g \in Files PROVE FileInv(K, g)'
  <2>1. CASE g \in held
    <3>1. /\ Hot(g)' /\ HotDisk(g)' /\ jrnl'[g].old = V(C, g) /\ jrnl'[g].tail = txn
          /\ jrnlDisk'[g] = jrnl'[g] /\ jrnl'[g].there /\ jrnl'[g].hdr /\ jrnl'[g] = jrnl[g]
      BY <1>1, <1>2, <2>1 DEF Hot, HotDisk, Done, FileInv, JournalInv, Txns
    <3>2. Clean(K, g)' /\ V(K, g)' = V(C, g) \cup {txn} /\ txn \notin V(C, g)
      BY <1>2, <1>3, <2>1 DEF Done, Clean, V
    <3>3. V(C, g) = V(K, g)' \ {txn}
      BY <3>2
    <3>4. Multi(txn)' /\ g \in part'[txn]
      BY <1>2, <1>4, <2>1
    <3>5. JournalInv(K, g)'
      <4>1. txn' = txn /\ txn \in K /\ txn # NoMaster
        BY <1>2 DEF Txns
      <4> QED BY Zenon, <3>1, <3>2, <3>3, <3>4, <4>1 DEF JournalInv
    <3>6. DiskInv(K, g)'
      <4>1. /\ jrnlDisk'[g].there /\ jrnlDisk'[g].hdr /\ jrnlDisk'[g].tail = txn
            /\ jrnlDisk'[g].old = V(C, g) /\ txn \in K /\ txn # NoMaster
        BY <1>2, <3>1 DEF Txns
      <4> QED BY <3>1, <3>2, <3>3, <3>4, <4>1 DEF DiskInv
    <3> QED BY <3>5, <3>6 DEF FileInv
  <2>2. CASE g \notin held
    <3>1. V(K, g)' = V(C, g) /\ (Clean(K, g)' <=> Clean(C, g))
      BY Zenon, <1>3, <2>2 DEF Clean
    <3>2. (Hot(g)' <=> Hot(g)) /\ (HotDisk(g)' <=> HotDisk(g))
      BY DEF Hot, HotDisk
    <3>3. jrnl[g].tail # txn /\ jrnlDisk[g].tail # txn
          /\ jrnl[g].tail \in Txns \cup {NoMaster} /\ jrnlDisk[g].tail \in Txns \cup {NoMaster}
      BY <1>1, <1>2, <2>2, NamedIn DEF Txns, TypeOK, Journals
    <3>4. JournalInv(K, g)'
      BY Zenon, <1>1, <1>4, <3>1, <3>2, <3>3 DEF FileInv, JournalInv
    <3>5. DiskInv(K, g)'
      BY Zenon, <1>1, <1>4, <3>1, <3>2, <3>3 DEF FileInv, DiskInv
    <3> QED BY <3>4, <3>5 DEF FileInv
  <2> QED BY <2>1, <2>2
<1>6. ASSUME NEW g \in Files PROVE RecInv(K, g)'
  <2>1. RecInv(C, g)'
    <3>1. g \notin held => jrnl[g].tail # txn
      BY <1>1, <1>2, NamedIn DEF Txns
    <3> QED BY <1>1, <3>1, WriterRec
  <2>2. rec[g].st = "end" => g \notin held
    BY <1>1 DEF RecInv
  <2>3. rec[g].st = "end" => (Clean(K, g)' <=> Clean(C, g)')
    BY <1>3, <2>2 DEF Clean, V
  <2>4. rec[g].st # "idle" /\ rec[g].res /\ rec[g].master # NoMaster => rec[g].master # txn
    BY <1>1 DEF RecInv
  <2> QED BY Zenon, <2>1, <2>3, <2>4 DEF RecInv
<1>7. MasterInv(K)'
  BY <1>2, <1>4 DEF Inv, MasterInv, TypeOK, Txns
<1>8. WriterInv(K)'
  <2>1. \A g \in held : Hot(g)' /\ jrnl'[g].tail = txn /\ jrnlDisk'[g] = jrnl'[g]
    BY <1>2 DEF Done, Hot
  <2> QED BY <1>2, <1>4, <2>1 DEF Inv, WriterInv, Before, PhaseOne
<1> QED BY <1>5, <1>6, <1>7, <1>8 DEF Inv

\* The directory is synced, or the unlink reaches the disk on its own.
LEMMA MasterDirSyncStep ==
  ASSUME TypeOK, NEW C \in SUBSET Txns, Inv(C), ~UnlinkLost, MasterDirSync
  PROVE  Inv(C)'
<1> USE DEF dbs, jrnls, mjs, disk, begun, hist, writer, faults
<1>1. PartKept(C) /\ \A g \in Files : FileInv(C, g) /\ RecInv(C, g)
  BY DEF PartKept, MasterDirSync, Inv
<1>2. txn \in C /\ mjDisk' = mjDisk \ {txn} /\ txn \notin mj
  BY DEF Inv, WriterInv, MasterInv, MasterDirSync, LateUnlink
<1>5. ASSUME NEW g \in Files PROVE FileInv(C, g)'
  BY <1>1, <1>2, FileFrame DEF MasterDirSync
<1>6. ASSUME NEW g \in Files PROVE RecInv(C, g)'
  BY <1>1, WriterRec DEF MasterDirSync, Fail
<1>7. MasterInv(C)'
  BY <1>2 DEF MasterDirSync, Inv, MasterInv, Multi, Fail
<1>8. WriterInv(C)'
  <2>1. \A g \in held : Hot(g)' /\ jrnl'[g].tail = txn
    BY DEF Hot, Inv, WriterInv, MasterDirSync
  <2>2. held = part[txn] /\ (Multi(txn)' <=> Multi(txn)) /\ Multi(txn)
    BY DEF Inv, WriterInv, MasterDirSync, Multi
  <2> QED BY Zenon, <1>2, <2>1, <2>2 DEF Fail, MasterDirSync, Inv, WriterInv, Before, PhaseOne
<1> QED BY <1>5, <1>6, <1>7, <1>8 DEF Inv

\* The journal that pager_end_transaction leaves is not hot, except that
\* TRUNCATE and PERSIST leave one they wrote nothing to.
LEMMA FinalizedCold ==
  ASSUME NEW j \in Journals, NEW m \in {"delete", "truncate", "persist"},
         NEW hasMaster \in BOOLEAN, NEW off \in BOOLEAN, off \/ m = "delete",
         j.tail # NoMaster => hasMaster \/ m # "persist"
  PROVE  /\ ~Finalized(j, m, hasMaster, off).hdr
         /\ Finalized(j, m, hasMaster, off).tail = NoMaster
  BY DEF Finalized, ZeroedJournal, EmptyJournal, NoJournal, Journals

\* The journal of a file whose database has the committed content goes.
LEMMA Finished ==
  ASSUME TypeOK, NEW C \in SUBSET Txns, NEW f \in Files, Clean(C, f), DiskInv(C, f),
         UNCHANGED <<part, db, dbDisk, mj, mjDisk>>, ~jrnl'[f].hdr, jrnl'[f].tail = NoMaster,
         jrnlDisk'[f] = jrnlDisk[f] \/ jrnlDisk'[f] = jrnl'[f]
  PROVE  FileInv(C, f)'
<1>1. V(C, f)' = V(C, f) /\ Clean(C, f)' /\ ~Hot(f)' /\ \A t \in Txns : Multi(t)' <=> Multi(t)
  BY DEF V, Clean, Hot, Multi
<1>2. JournalInv(C, f)'
  BY Zenon, <1>1 DEF JournalInv
<1>3. CASE jrnlDisk'[f] = jrnl'[f]
  BY Zenon, <1>1, <1>2, <1>3 DEF FileInv, DiskInv, HotDisk
<1>4. CASE jrnlDisk'[f] = jrnlDisk[f]
  <2>1. (HotDisk(f)' <=> HotDisk(f)) /\ Clean(C, f)
    BY <1>4 DEF HotDisk
  <2>2. jrnlDisk[f].tail \in Txns \cup {NoMaster}
    BY DEF TypeOK, Journals
  <2> QED BY <1>1, <1>2, <1>4, <2>1, <2>2 DEF FileInv, DiskInv
<1> QED BY <1>3, <1>4

\* The effect of pager_end_transaction on the journals.
LEMMA Ended ==
  ASSUME TypeOK, NEW f \in Files, NEW m \in {"delete", "truncate", "persist"},
         NEW hasMaster \in BOOLEAN, NEW off \in BOOLEAN, off \/ m = "delete",
         jrnl[f].tail # NoMaster => hasMaster \/ m # "persist",
         EndTransaction(f, m, hasMaster, off)
  PROVE  /\ ~jrnl'[f].hdr /\ jrnl'[f].tail = NoMaster
         /\ jrnlDisk'[f] = jrnlDisk[f] \/ jrnlDisk'[f] = jrnl'[f]
         /\ \A g \in Files \ {f} : jrnl'[g] = jrnl[g] /\ jrnlDisk'[g] = jrnlDisk[g]
<1>1. jrnl[f] \in Journals
  BY DEF TypeOK
<1> DEFINE j == Finalized(jrnl[f], m, hasMaster, off)
<1>2. ~j.hdr /\ j.tail = NoMaster
  BY <1>1, FinalizedCold
<1>3. jrnl' = [jrnl EXCEPT ![f] = j]
      /\ jrnlDisk' = IF m = "persist" THEN [jrnlDisk EXCEPT ![f] = j] ELSE jrnlDisk
  BY DEF EndTransaction
<1> HIDE DEF j
<1> QED BY <1>2, <1>3 DEF TypeOK

\* CommitPhaseTwo of a file of a transaction whose master is gone, and the error
\* of CommitPhaseTwo: what is committed does not change.
LEMMA PhaseTwoStep ==
  ASSUME TypeOK, NEW C \in SUBSET Txns, Inv(C), NEW f \in Files, NEW ok \in BOOLEAN,
         CommitPhaseTwo(f, ok), Multi(txn) \/ ~ok
  PROVE  Inv(C)'
<1> USE DEF dbs, jrnls, mjs, disk, begun, hist, writer, faults
<1>1. PartKept(C) /\ \A g \in Files : FileInv(C, g) /\ RecInv(C, g) /\ ~rec[g].own
  BY DEF PartKept, CommitPhaseTwo, Inv, RecInv
<1>2. /\ txn \in Txns /\ f \in held /\ pc = "phasetwo" /\ held \subseteq part[txn] /\ cur = {}
      /\ Multi(txn) => txn \in C /\ Hot(f) /\ jrnl[f].tail = txn /\ Clean(C, f)
  <2>1. FileInv(C, f) /\ txn \in Txns /\ txn # 0
    BY <1>1 DEF CommitPhaseTwo, Inv, MasterInv, Txns
  <2> QED BY Zenon, <2>1 DEF CommitPhaseTwo, Inv, WriterInv, PhaseOne, FileInv, JournalInv
<1>3. /\ ok => /\ ~jrnl'[f].hdr /\ jrnl'[f].tail = NoMaster
               /\ jrnlDisk'[f] = jrnlDisk[f] \/ jrnlDisk'[f] = jrnl'[f]
      /\ ~ok => jrnl'[f] = jrnl[f] /\ jrnlDisk'[f] = jrnlDisk[f]
      /\ \A g \in Files \ {f} : jrnl'[g] = jrnl[g] /\ jrnlDisk'[g] = jrnlDisk[g]
  <2>1. CASE ok
    <3>1. Multi(txn) \in BOOLEAN /\ mode \in {"delete", "truncate", "persist"} /\ Multi(txn)
      BY <2>1 DEF TypeOK, Multi
    <3>2. EndTransaction(f, mode, Multi(txn), TRUE)
      BY Zenon, <2>1 DEF CommitPhaseTwo
    <3> QED BY Zenon, <2>1, <3>1, <3>2, Ended
  <2>2. CASE ~ok
    BY <2>2 DEF CommitPhaseTwo
  <2> QED BY <2>1, <2>2
<1>5. ASSUME NEW g \in Files PROVE FileInv(C, g)'
  <2>1. CASE g # f \/ ~ok
    BY Zenon, <1>1, <1>3, <2>1, FileFrame DEF CommitPhaseTwo
  <2>2. CASE g = f /\ ok
    BY <1>1, <1>2, <1>3, <2>2, Finished DEF CommitPhaseTwo, FileInv
  <2> QED BY Zenon, <2>1, <2>2
<1>6. ASSUME NEW g \in Files PROVE RecInv(C, g)'
  <2>1. RecInv(C, g)
    BY <1>1
  <2>2. /\ rec[g].st \in {"play", "sync", "end"} => g \notin held /\ g # f
        /\ g \in held => rec[g].st = "idle"
        /\ rec[g].st # "idle" /\ rec[g].res /\ rec[g].master # NoMaster => rec[g].master # txn
    BY Zenon, <1>1, <1>2, <2>1 DEF RecInv
  <2>3. rec[g].st = "kids" => part[rec[g].master] \subseteq Files /\ rec[g].master # NoMaster
    BY Zenon, <2>1 DEF RecInv, TypeOK, Playbacks
  <2>4. rec[g].st = "kids" =>
          \A k \in part[rec[g].master] :
             jrnl'[k].there /\ jrnl'[k].tail = rec[g].master
               => jrnl[k].there /\ jrnl[k].tail = rec[g].master
    BY <1>3, <2>3
  <2>5. held' \subseteq held /\ txn' = txn /\ rec' = rec /\ UNCHANGED <<db, dbDisk, mj>>
    BY DEF CommitPhaseTwo
  <2> QED BY <1>1, <1>3, <2>1, <2>2, <2>4, <2>5, RecFrame
<1>7. MasterInv(C)'
  <2>1. \A t \in Txns : Multi(t)' <=> Multi(t)
    BY DEF Multi, CommitPhaseTwo
  <2>2. txn <= txn
    BY <1>2 DEF Txns
  <2> QED BY Zenon, <1>2, <2>1, <2>2 DEF CommitPhaseTwo, Inv, MasterInv, TypeOK
<1>8. WriterInv(C)'
  <2>1. \A g \in held \ {f} : (Hot(g)' <=> Hot(g)) /\ jrnl'[g] = jrnl[g]
    BY <1>3 DEF Hot, TypeOK
  <2>2. Multi(txn)' <=> Multi(txn)
    BY DEF CommitPhaseTwo, Multi
  <2>3. ~Multi(txn) => held = {f}
    BY DEF CommitPhaseTwo, Inv, WriterInv, Multi
  <2> QED BY Zenon, <1>2, <2>1, <2>2, <2>3 DEF CommitPhaseTwo, Inv, WriterInv, Before, PhaseOne
<1> QED BY <1>5, <1>6, <1>7, <1>8 DEF Inv

\* CommitPhaseTwo commits a transaction of one file.
LEMMA SingleStep ==
  ASSUME TypeOK, NEW C \in SUBSET Txns, Inv(C), NEW f \in Files,
         CommitPhaseTwo(f, TRUE), ~Multi(txn), NEW K \in SUBSET Txns, K = C \cup {txn}
  PROVE  Inv(K)'
<1> USE DEF dbs, jrnls, mjs, disk, begun, hist, writer, faults
<1>1. \A g \in Files : FileInv(C, g) /\ RecInv(C, g) /\ ~rec[g].own
  BY ZenonT(30) DEF CommitPhaseTwo, Inv, RecInv
<1>2. /\ txn \in Txns /\ f \in held /\ pc = "phasetwo" /\ held = part[txn] /\ cur = {}
      /\ part[txn] = {f} /\ txn \notin C
      /\ Hot(f) /\ jrnl[f].tail = NoMaster /\ jrnl[f].old = V(C, f) /\ jrnlDisk[f] = jrnl[f]
      /\ db[f] = V(C, f) \cup {txn} /\ dbDisk[f] = V(C, f) \cup {txn}
  <2>1. /\ txn \in Txns /\ f \in held /\ pc = "phasetwo" /\ held = part[txn] /\ cur = {}
        /\ txn \notin C /\ Done(C, f) /\ Target = NoMaster
    BY Zenon DEF CommitPhaseTwo, Inv, MasterInv, WriterInv, PhaseOne, Target
  <2>2. part[txn] = {f}
    BY <2>1 DEF Multi
  <2> QED BY Zenon, <1>1, <2>1, <2>2 DEF Done, FileInv, JournalInv
<1>3. /\ ~jrnl'[f].hdr /\ jrnl'[f].tail = NoMaster
      /\ jrnlDisk'[f] = jrnlDisk[f] \/ jrnlDisk'[f] = jrnl'[f]
      /\ \A g \in Files \ {f} : jrnl'[g] = jrnl[g] /\ jrnlDisk'[g] = jrnlDisk[g]
  <2>1. Multi(txn) \in BOOLEAN /\ mode \in {"delete", "truncate", "persist"}
    BY DEF TypeOK, Multi
  <2>2. EndTransaction(f, mode, Multi(txn), TRUE)
    BY Zenon DEF CommitPhaseTwo
  <2> QED BY Zenon, <1>2, <2>1, <2>2, Ended
<1>4. /\ \A t \in Txns : Multi(t)' <=> Multi(t)
      /\ \A g \in Files \ {f} : V(K, g)' = V(C, g) /\ (Clean(K, g)' <=> Clean(C, g))
      /\ V(K, f)' = V(C, f) \cup {txn} /\ Clean(K, f)' /\ V(C, f) = V(K, f)' \ {txn}
  <2>0. UNCHANGED <<part, db, dbDisk>>
    BY Zenon DEF CommitPhaseTwo
  <2>1. \A t \in Txns : Multi(t)' <=> Multi(t)
    BY Zenon, <2>0 DEF Multi
  <2>2. \A g \in Files \ {f} : V(K, g)' = V(C, g)
    BY Zenon, <1>2, <2>0 DEF V
  <2>3. \A g \in Files \ {f} : Clean(K, g)' <=> Clean(C, g)
    BY <2>0, <2>2 DEF Clean
  <2>4. V(K, f)' = V(C, f) \cup {txn} /\ txn \notin V(C, f)
    BY Zenon, <1>2, <2>0 DEF V
  <2>5. Clean(K, f)' /\ V(C, f) = V(K, f)' \ {txn}
    BY Zenon, <1>2, <2>0, <2>4 DEF Clean
  <2> QED BY <2>1, <2>2, <2>3, <2>4, <2>5
<1>5. ASSUME NEW g \in Files PROVE FileInv(K, g)'
  <2>1. CASE g # f
    <3>1. /\ V(K, g)' = V(C, g) /\ (Clean(K, g)' <=> Clean(C, g)) /\ jrnl'[g] = jrnl[g]
          /\ jrnlDisk'[g] = jrnlDisk[g]
      BY Zenon, <1>3, <1>4, <2>1
    <3>2. (Hot(g)' <=> Hot(g)) /\ (HotDisk(g)' <=> HotDisk(g))
      BY <3>1 DEF Hot, HotDisk
    <3>3. jrnl[g].tail # txn /\ jrnlDisk[g].tail # txn
          /\ jrnl[g].tail \in Txns \cup {NoMaster} /\ jrnlDisk[g].tail \in Txns \cup {NoMaster}
      <4>1. jrnl[g] \in Journals /\ jrnlDisk[g] \in Journals
        BY Zenon DEF TypeOK
      <4>2. jrnl[g].tail \in Txns \cup {NoMaster} /\ jrnlDisk[g].tail \in Txns \cup {NoMaster}
        BY <4>1 DEF Journals
      <4>3. /\ jrnl[g].tail # NoMaster => g \in part[jrnl[g].tail]
            /\ jrnlDisk[g].tail # NoMaster => g \in part[jrnlDisk[g].tail]
        BY Zenon, <1>1, NamedIn
      <4>4. g \notin part[txn] /\ txn # NoMaster
        BY <1>1, <1>2, <2>1 DEF Txns
      <4>5. ASSUME NEW t, t # NoMaster => g \in part[t] PROVE t # txn
        BY Zenon, <4>4, <4>5
      <4> QED BY Zenon, <4>2, <4>3, <4>5
    <3>4. UNCHANGED <<part, mj, mjDisk>>
      BY DEF CommitPhaseTwo
    <3>5. JournalInv(K, g)'
      BY Zenon, <1>1, <1>4, <3>1, <3>2, <3>3, <3>4 DEF FileInv, JournalInv
    <3>6. DiskInv(K, g)'
      <4>1. DiskInv(C, g) /\ (jrnlDisk[g].tail \in K <=> jrnlDisk[g].tail \in C) /\ C \subseteq K
        BY Zenon, <1>1, <3>3 DEF FileInv
      <4>2. jrnl[g].tail = jrnl'[g].tail /\ V(C, g) = V(K, g)'
        BY Zenon, <3>1
      <4> QED BY Zenon, <1>4, <3>1, <3>2, <3>3, <3>4, <4>1, <4>2 DEF DiskInv
    <3> QED BY <3>5, <3>6 DEF FileInv
  <2>2. CASE g = f
    <3>1. JournalInv(K, f)'
      BY <1>3, <1>4 DEF JournalInv, Hot
    <3>2. CASE jrnlDisk'[f] = jrnl'[f]
      BY Zenon, <1>3, <1>4, <2>2, <3>1, <3>2 DEF FileInv, DiskInv, HotDisk
    <3>3. CASE jrnlDisk'[f] = jrnlDisk[f]
      <4>1. /\ jrnlDisk'[f].there /\ jrnlDisk'[f].hdr /\ jrnlDisk'[f].tail = NoMaster
            /\ jrnlDisk'[f].old = V(K, f)' \ {txn}
        BY Zenon, <1>2, <1>4, <3>3 DEF Hot
      <4>2. txn \in K /\ part'[txn] = {f}
        BY Zenon, <1>2 DEF CommitPhaseTwo
      <4> QED BY <1>4, <2>2, <3>1, <4>1, <4>2 DEF FileInv, DiskInv, HotDisk
    <3> QED BY <1>3, <3>2, <3>3
  <2> QED BY <2>1, <2>2
<1>6. ASSUME NEW g \in Files PROVE RecInv(K, g)'
  <2>1. RecInv(C, g)
    BY <1>1
  <2>2. /\ rec[g].st \in {"play", "sync", "end"} => g # f
        /\ rec[g].st # "idle" /\ rec[g].res /\ rec[g].master # NoMaster =>
             rec[g].master # txn /\ rec[g].master \in Txns
    BY Zenon, <1>1, <1>2, <2>1 DEF RecInv, TypeOK, Playbacks
  <2>3. rec[g].st = "kids" => part[rec[g].master] \subseteq Files /\ rec[g].master # NoMaster
    BY <2>1 DEF RecInv, TypeOK, Playbacks
  <2>4. rec[g].st = "kids" =>
          \A k \in part[rec[g].master] \ rec[g].kids : ~jrnl'[k].there \/ jrnl'[k].tail # rec[g].master
    BY Zenon, <1>3, <2>1, <2>3 DEF RecInv
  <2>5. held' = {} /\ pc' = "idle" /\ txn' = txn /\ rec' = rec /\ UNCHANGED <<mj, part>>
    BY Zenon, <1>2 DEF CommitPhaseTwo
  <2>6. g # f => (Hot(g)' <=> Hot(g))
    BY Zenon, <1>3 DEF Hot
  <2> QED BY Zenon, <1>1, <1>3, <1>4, <2>1, <2>2, <2>4, <2>5, <2>6 DEF RecInv
<1>7. MasterInv(K)'
  <2>1. held = {f} /\ txn \in Nat /\ txn <= txn
    BY <1>2 DEF Txns
  <2>2. pc' = "idle" /\ acked' = acked \cup {txn} /\ UNCHANGED <<txn, part, mj, mjDisk, power>>
    BY <2>1 DEF CommitPhaseTwo
  <2> QED BY <1>2, <1>4, <2>1, <2>2 DEF Inv, MasterInv, TypeOK, Txns
<1>8. WriterInv(K)'
  <2>1. held' = {} /\ pc' = "idle" /\ cur' = {}
    BY <1>2 DEF CommitPhaseTwo
  <2> QED BY <2>1 DEF WriterInv, Before, PhaseOne
<1> QED BY <1>5, <1>6, <1>7, <1>8 DEF Inv
-----------------------------------------------------------------------------
(* The playbacks.                                                          *)

\* A file that needs its journal may be written: both copies restore it.
LEMMA DirtyFile ==
  ASSUME TypeOK, NEW C \in SUBSET Txns, NEW f \in Files, FileInv(C, f), ~Clean(C, f),
         UNCHANGED <<part, mj, mjDisk, jrnl, jrnlDisk>>
  PROVE  FileInv(C, f)'
<1>1. /\ V(C, f)' = V(C, f) /\ (Hot(f)' <=> Hot(f)) /\ (HotDisk(f)' <=> HotDisk(f))
      /\ \A t \in Txns : Multi(t)' <=> Multi(t)
  BY DEF V, Hot, HotDisk, Multi
<1>2. jrnl[f].tail \in Txns \cup {NoMaster} /\ jrnlDisk[f].tail \in Txns \cup {NoMaster}
  BY DEF TypeOK, Journals
<1>3. JournalInv(C, f)'
  BY Zenon, <1>1, <1>2 DEF FileInv, JournalInv
<1>4. DiskInv(C, f)'
  BY Zenon, <1>1, <1>2 DEF FileInv, DiskInv
<1> QED BY Zenon, <1>3, <1>4 DEF FileInv

\* A file may be given the committed content.
LEMMA CleanedFile ==
  ASSUME TypeOK, NEW C \in SUBSET Txns, NEW f \in Files, FileInv(C, f), Clean(C, f)',
         UNCHANGED <<part, mj, mjDisk, jrnl, jrnlDisk>>
  PROVE  FileInv(C, f)'
<1>1. /\ V(C, f)' = V(C, f) /\ (Hot(f)' <=> Hot(f)) /\ (HotDisk(f)' <=> HotDisk(f))
      /\ \A t \in Txns : Multi(t)' <=> Multi(t)
  BY Zenon DEF V, Hot, HotDisk, Multi
<1>2. jrnl[f].tail \in Txns \cup {NoMaster} /\ jrnlDisk[f].tail \in Txns \cup {NoMaster}
  BY DEF TypeOK, Journals
<1>3. JournalInv(C, f)'
  BY Zenon, <1>1, <1>2 DEF FileInv, JournalInv
<1>4. DiskInv(C, f)'
  BY Zenon, <1>1, <1>2 DEF FileInv, DiskInv
<1> QED BY <1>3, <1>4 DEF FileInv

\* A hot journal may be synced.
LEMMA SyncedFile ==
  ASSUME TypeOK, NEW C \in SUBSET Txns, NEW f \in Files, FileInv(C, f), Hot(f),
         UNCHANGED <<part, mj, mjDisk, jrnl, db, dbDisk>>, jrnlDisk'[f] = jrnl[f]
  PROVE  FileInv(C, f)'
<1>1. /\ V(C, f)' = V(C, f) /\ (Hot(f)' <=> Hot(f)) /\ HotDisk(f)' /\ (Clean(C, f)' <=> Clean(C, f))
      /\ \A t \in Txns : Multi(t)' <=> Multi(t)
  BY Zenon DEF V, Hot, HotDisk, Multi, Clean
<1>2. jrnl[f].tail \in Txns \cup {NoMaster}
  BY DEF TypeOK, Journals
<1>3. JournalInv(C, f)'
  BY Zenon, <1>1, <1>2 DEF FileInv, JournalInv
<1>4. DiskInv(C, f)'
  BY Zenon, <1>1, <1>2 DEF FileInv, DiskInv, JournalInv
<1> QED BY <1>3, <1>4 DEF FileInv

\* While the writer rolls back, the files left to roll back have hot journals.
LEMMA RollbackWriter ==
  ASSUME TypeOK, NEW C \in SUBSET Txns, WriterInv(C), pc = "rollback", pc' = "rollback",
         held' \subseteq held, UNCHANGED <<cur, part, txn>>, \A g \in held' : rec'[g].own \/ Hot(g)'
  PROVE  WriterInv(C)'
  BY Zenon DEF WriterInv, Before, PhaseOne

\* The playback of another file goes on.
LEMMA OtherRec ==
  ASSUME TypeOK, NEW C \in SUBSET Txns, NEW g \in Files, RecInv(C, g),
         UNCHANGED <<part, txn, pc, held>>, rec'[g] = rec[g],
         jrnl'[g] = jrnl[g], jrnlDisk'[g] = jrnlDisk[g], db'[g] = db[g], dbDisk'[g] = dbDisk[g],
         jrnl[g].tail \in mj => jrnl[g].tail \in mj',
         \A k \in Files : jrnl'[k] = jrnl[k] \/ jrnl'[k].tail = NoMaster
  PROVE  RecInv(C, g)'
<1>1. PartKept(C)
  BY DEF PartKept
<1>2. rec[g].st = "kids" => rec[g].master # NoMaster /\ part[rec[g].master] \subseteq Files
  BY Zenon DEF RecInv, TypeOK, Playbacks
<1>3. rec[g].st = "kids" =>
          \A k \in part[rec[g].master] :
             jrnl'[k].there /\ jrnl'[k].tail = rec[g].master
               => jrnl[k].there /\ jrnl[k].tail = rec[g].master
  BY Zenon, <1>2
<1>4. rec[g].st # "idle" /\ rec[g].res /\ rec[g].master # NoMaster =>
           rec[g].master # txn' \/ pc' \in {"idle", "rollback"}
  BY Zenon DEF RecInv
<1>5. rec[g].st \in {"play", "sync", "end"} => rec[g].own \/ g \notin held'
  BY Zenon DEF RecInv
<1>6. /\ rec[g].own => pc' = "rollback" /\ g \in held'
      /\ g \in held' => rec[g].st = "idle"
                        \/ (IF pc' \in {"journal", "active"} THEN ~rec[g].own ELSE rec[g].own)
  BY DEF RecInv
<1> QED BY Zenon, <1>1, <1>3, <1>4, <1>5, <1>6, RecFrame

\* A playback that starts.
LEMMA StartedRec ==
  ASSUME TypeOK, NEW C \in SUBSET Txns, Inv(C), NEW f \in Files, Hot(f), NEW m, NEW own \in BOOLEAN,
         rec' = [rec EXCEPT ![f] = Started(f, m, own)],
         UNCHANGED <<part, txn, pc, held, jrnl, db, dbDisk, mj>>,
         IF own THEN pc = "rollback" /\ f \in held
         ELSE f \notin held /\ m = "delete" /\ jrnlDisk'[f] = jrnl[f]
  PROVE  RecInv(C, f)'
<1>1. FileInv(C, f)
  BY Zenon DEF Inv
<1>2. /\ rec'[f].own = own /\ rec'[f].m = m /\ rec'[f].master = jrnl[f].tail
      /\ rec'[f].off = (own \/ MasterSaysPlay(f)) /\ rec'[f].res = MasterSaysPlay(f)
      /\ rec'[f].st = IF MasterSaysPlay(f) THEN "play" ELSE "end"
  BY DEF Started, TypeOK
<1>3. /\ (Hot(f)' <=> Hot(f)) /\ (Clean(C, f)' <=> Clean(C, f))
      /\ \A t \in Txns : Multi(t)' <=> Multi(t)
  BY DEF Hot, Clean, V, Multi
<1>4. jrnl[f].tail \in Txns \cup {NoMaster}
  BY DEF TypeOK, Journals
<1>5. ~MasterSaysPlay(f) => Clean(C, f)
  BY Zenon, <1>1 DEF MasterSaysPlay, FileInv, JournalInv
<1>6. ASSUME MasterSaysPlay(f), jrnl[f].tail # NoMaster
      PROVE  /\ jrnl[f].tail \notin C /\ Multi(jrnl[f].tail)
             /\ jrnl[f].tail # txn \/ pc \in {"idle", "rollback"}
  <2>1. Multi(jrnl[f].tail) /\ jrnl[f].tail \in mj /\ f \in part[jrnl[f].tail]
    BY Zenon, <1>1, <1>6 DEF MasterSaysPlay, FileInv, JournalInv
  <2>2. jrnl[f].tail \notin C
    BY <2>1 DEF Inv, MasterInv
  <2>3. jrnl[f].tail # txn \/ pc \in {"idle", "rollback"}
    BY Zenon, <2>1, <2>2 DEF Inv, WriterInv, Before, PhaseOne, TypeOK
  <2> QED BY Zenon, <2>1, <2>2, <2>3
<1>7. /\ rec'[f].own => pc' = "rollback" /\ f \in held' /\ rec'[f].off /\ rec'[f].st # "idle"
      /\ rec'[f].own \/ (f \notin held' /\ rec'[f].m = "delete" /\ jrnlDisk'[f] = jrnl'[f])
      /\ rec'[f].master = jrnl'[f].tail
      /\ f \in held' => pc' \notin {"journal", "active"} /\ rec'[f].own
  <2>0. pc' = pc /\ held' = held /\ jrnl' = jrnl /\ rec'[f].st # "idle"
    BY <1>2
  <2>1. CASE own
    BY Zenon, <1>2, <2>0, <2>1
  <2>2. CASE ~own
    BY Zenon, <1>2, <2>0, <2>2
  <2> QED BY Zenon, <2>1, <2>2
<1>8. CASE MasterSaysPlay(f)
  <2>1. /\ rec'[f].st = "play" /\ rec'[f].res
        /\ jrnl'[f].tail = NoMaster \/ jrnl'[f].tail \in mj'
    BY Zenon, <1>2, <1>8 DEF MasterSaysPlay
  <2> QED BY Zenon, <1>3, <1>4, <1>6, <1>7, <1>8, <2>1 DEF RecInv
<1>9. CASE ~MasterSaysPlay(f)
  <2>1. rec'[f].st = "end" /\ ~rec'[f].res
    BY <1>2, <1>9
  <2> QED BY Zenon, <1>3, <1>5, <1>7, <1>9, <2>1 DEF RecInv
<1> QED BY Zenon, <1>8, <1>9

\* sqlite3PagerSharedLock finds a hot journal.
LEMMA RecoverStep ==
  ASSUME TypeOK, NEW C \in SUBSET Txns, Inv(C), RecoverModes = {"delete"},
         NEW f \in Files, NEW m \in RecoverModes, Recover(f, m)
  PROVE  Inv(C)'
<1> USE DEF dbs, jrnls, mjs, disk, begun, hist, writer, faults
<1>1. PartKept(C) /\ \A g \in Files : FileInv(C, g) /\ RecInv(C, g)
  BY Zenon DEF PartKept, Recover, Inv
<1>2. /\ jrnlDisk'[f] = jrnl[f]
      /\ \A g \in Files \ {f} : jrnlDisk'[g] = jrnlDisk[g] /\ rec'[g] = rec[g]
      /\ f \notin held /\ held \subseteq Files
  BY DEF Recover, TypeOK
<1>5. ASSUME NEW g \in Files PROVE FileInv(C, g)'
  <2>1. CASE g # f
    BY Zenon, <1>1, <1>2, <2>1, FileFrame DEF Recover
  <2>2. CASE g = f
    BY <1>1, <1>2, <2>2, SyncedFile DEF Recover
  <2> QED BY <2>1, <2>2
<1>6. ASSUME NEW g \in Files PROVE RecInv(C, g)'
  <2>1. CASE g # f
    BY Zenon, <1>1, <1>2, <2>1, OtherRec DEF Recover
  <2>2. CASE g = f
    BY Zenon, <1>1, <1>2, <2>2, StartedRec DEF Recover
  <2> QED BY <2>1, <2>2
<1>7. MasterInv(C)'
  BY Zenon DEF Recover, Inv, MasterInv, Multi
<1>8. WriterInv(C)'
  <2>1. WriterInv(C) /\ \A g \in held : g # f
    BY <1>2 DEF Inv
  <2> QED BY Zenon, <1>2, <2>1, WriterFrame DEF Recover
<1> QED BY <1>5, <1>6, <1>7, <1>8 DEF Inv

\* sqlite3PagerRollback of the next file of the writer.
LEMMA RollbackStep ==
  ASSUME TypeOK, NEW C \in SUBSET Txns, Inv(C), NEW f \in Files, Rollback(f)
  PROVE  Inv(C)'
<1> USE DEF dbs, jrnls, mjs, disk, begun, hist, writer, faults
<1>1. PartKept(C) /\ \A g \in Files : FileInv(C, g) /\ RecInv(C, g)
  BY Zenon DEF PartKept, Rollback, Inv
<1>2. /\ \A g \in Files \ {f} : rec'[g] = rec[g]
      /\ rec'[f].own /\ Hot(f)
  BY Zenon DEF Rollback, TypeOK, Started, Inv, WriterInv
<1>5. ASSUME NEW g \in Files PROVE FileInv(C, g)'
  BY Zenon, <1>1, FileFrame DEF Rollback
<1>6. ASSUME NEW g \in Files PROVE RecInv(C, g)'
  <2>1. CASE g # f
    BY Zenon, <1>1, <1>2, <2>1, OtherRec DEF Rollback
  <2>2. CASE g = f
    BY Zenon, <1>2, <2>2, StartedRec DEF Rollback
  <2> QED BY <2>1, <2>2
<1>7. MasterInv(C)'
  BY DEF Rollback, Inv, MasterInv, Multi
<1>8. WriterInv(C)'
  <2>1. \A g \in held : rec'[g].own \/ Hot(g)'
    BY Zenon, <1>2 DEF Rollback, Inv, WriterInv, Hot, TypeOK
  <2>2. WriterInv(C) /\ pc = "rollback" /\ pc' = pc /\ UNCHANGED <<held, cur, part, txn>>
    BY DEF Rollback, Inv
  <2> QED BY <2>1, <2>2, RollbackWriter
<1> QED BY <1>5, <1>6, <1>7, <1>8 DEF Inv

\* pager_playback_one_page.
LEMMA PlayPagesStep ==
  ASSUME TypeOK, NEW C \in SUBSET Txns, Inv(C), NEW f \in Files, PlayPages(f)
  PROVE  Inv(C)'
<1> USE DEF dbs, jrnls, mjs, disk, begun, hist, writer, faults
<1>1. PartKept(C) /\ \A g \in Files : FileInv(C, g) /\ RecInv(C, g)
  BY DEF PartKept, PlayPages, Inv
<1>2. /\ \A g \in Files \ {f} : rec'[g] = rec[g] /\ db'[g] = db[g]
      /\ db'[f] = IF rec[f].own /\ db[f] = jrnl[f].old THEN db[f] ELSE Torn
      /\ rec'[f] = [rec[f] EXCEPT !.st = "sync"] /\ rec[f] \in Playbacks
  BY DEF PlayPages, TypeOK
<1>3. /\ rec'[f].st = "sync" /\ rec'[f].own = rec[f].own /\ rec'[f].m = rec[f].m
      /\ rec'[f].off = rec[f].off /\ rec'[f].res = rec[f].res /\ rec'[f].master = rec[f].master
  BY <1>2 DEF Playbacks
<1>4. /\ Hot(f) /\ jrnl[f].old = V(C, f) /\ (rec[f].own \/ (f \notin held /\ jrnlDisk[f] = jrnl[f]))
      /\ jrnl[f].tail # NoMaster =>
           /\ jrnl[f].tail \notin C /\ f \in part[jrnl[f].tail] /\ Multi(jrnl[f].tail)
           /\ jrnl[f].tail \in mj \cap mjDisk
      /\ rec[f].st = "play" /\ (rec[f].own => pc = "rollback")
  <2>1. RecInv(C, f) /\ FileInv(C, f) /\ rec[f].st = "play"
    BY <1>1 DEF PlayPages
  <2>2. Hot(f) /\ (jrnl[f].tail = NoMaster \/ jrnl[f].tail \in mj)
        /\ (rec[f].own \/ (f \notin held /\ jrnlDisk[f] = jrnl[f])) /\ (rec[f].own => pc = "rollback")
        /\ (jrnl[f].tail # NoMaster => jrnl[f].tail \notin C)
    BY Zenon, <2>1 DEF RecInv
  <2> QED BY Zenon, <2>1, <2>2 DEF FileInv, JournalInv
<1>5. ASSUME NEW g \in Files PROVE FileInv(C, g)'
  <2>1. CASE g # f \/ db'[f] = db[f]
    BY <1>1, <1>2, <2>1, FileFrame DEF PlayPages
  <2>2. CASE g = f /\ rec[f].own /\ db[f] # jrnl[f].old
    <3>1. ~Clean(C, f)
      BY <1>4, <2>2 DEF Clean
    <3> QED BY Zenon, <1>1, <2>2, <3>1, DirtyFile DEF PlayPages
  <2>3. CASE g = f /\ ~rec[f].own
    BY <1>4, <2>3, Restorable DEF PlayPages
  <2> QED BY <1>2, <2>1, <2>2, <2>3
<1>6. ASSUME NEW g \in Files PROVE RecInv(C, g)'
  <2>1. CASE g # f
    BY Zenon, <1>1, <1>2, <2>1, OtherRec DEF PlayPages
  <2>2. CASE g = f
    <3>1. /\ (Hot(f)' <=> Hot(f)) /\ \A t \in Txns : Multi(t)' <=> Multi(t)
          /\ rec[f].master \in Txns \cup {NoMaster}
      BY <1>2 DEF PlayPages, Hot, Multi, Playbacks
    <3> QED BY <1>1, <1>3, <1>4, <2>2, <3>1 DEF RecInv, PlayPages
  <2> QED BY <2>1, <2>2
<1>7. MasterInv(C)'
  BY DEF PlayPages, Inv, MasterInv, Multi
<1>8. WriterInv(C)'
  <2>0. WriterInv(C) /\ held \subseteq Files
    BY DEF Inv, TypeOK
  <2>1. CASE rec[f].own
    <3>1. \A g \in held : rec'[g].own \/ Hot(g)'
      BY <1>2, <1>3, <1>4, <2>0, <2>1 DEF PlayPages, WriterInv, Hot
    <3> QED BY Zenon, <1>4, <2>0, <2>1, <3>1, RollbackWriter DEF PlayPages
  <2>2. CASE ~rec[f].own
    <3>1. \A g \in held : g \in Files \ {f}
      BY Zenon, <1>4, <2>0, <2>2
    <3> QED BY <1>2, <2>0, <3>1, WriterFrame DEF PlayPages
  <2> QED BY <2>1, <2>2
<1> QED BY <1>5, <1>6, <1>7, <1>8 DEF Inv

\* The played back pages are synced.
LEMMA PlaySyncStep ==
  ASSUME TypeOK, NEW C \in SUBSET Txns, Inv(C), NEW f \in Files, PlaySync(f)
  PROVE  Inv(C)'
<1> USE DEF dbs, jrnls, mjs, disk, begun, hist, writer, faults
<1>1. PartKept(C) /\ \A g \in Files : FileInv(C, g) /\ RecInv(C, g)
  BY DEF PartKept, PlaySync, Inv
<1>2. /\ \A g \in Files \ {f} : rec'[g] = rec[g] /\ db'[g] = db[g] /\ dbDisk'[g] = dbDisk[g]
      /\ db'[f] = jrnl[f].old /\ dbDisk'[f] = jrnl[f].old
      /\ rec'[f] = [rec[f] EXCEPT !.st = "end"] /\ rec[f] \in Playbacks
  BY DEF PlaySync, TypeOK
<1>3. /\ rec'[f].st = "end" /\ rec'[f].own = rec[f].own /\ rec'[f].m = rec[f].m
      /\ rec'[f].off = rec[f].off /\ rec'[f].res = rec[f].res /\ rec'[f].master = rec[f].master
  BY <1>2 DEF Playbacks
<1>4. /\ jrnl[f].old = V(C, f) /\ (rec[f].own \/ f \notin held) /\ (rec[f].own => pc = "rollback")
      /\ rec[f].st = "sync"
  <2>1. RecInv(C, f) /\ FileInv(C, f) /\ rec[f].st = "sync"
    BY <1>1 DEF PlaySync
  <2>2. Hot(f) /\ (jrnl[f].tail = NoMaster \/ jrnl[f].tail \in mj)
        /\ (rec[f].own \/ f \notin held) /\ (rec[f].own => pc = "rollback")
        /\ (jrnl[f].tail # NoMaster => jrnl[f].tail \notin C)
    BY Zenon, <2>1 DEF RecInv
  <2> QED BY Zenon, <2>1, <2>2 DEF FileInv, JournalInv
<1>a. Clean(C, f)'
  BY <1>2, <1>4 DEF Clean, V, PlaySync
<1>5. ASSUME NEW g \in Files PROVE FileInv(C, g)'
  <2>1. CASE g # f
    BY <1>1, <1>2, <2>1, FileFrame DEF PlaySync
  <2>2. CASE g = f
    BY <1>1, <1>a, <2>2, CleanedFile DEF PlaySync
  <2> QED BY <2>1, <2>2
<1>6. ASSUME NEW g \in Files PROVE RecInv(C, g)'
  <2>1. CASE g # f
    BY <1>1, <1>2, <2>1, OtherRec DEF PlaySync
  <2>2. CASE g = f
    <3>1. /\ \A t \in Txns : Multi(t)' <=> Multi(t)
          /\ rec[f].master \in Txns \cup {NoMaster}
      BY <1>2 DEF PlaySync, Multi, Playbacks
    <3> QED BY <1>1, <1>3, <1>4, <1>a, <2>2, <3>1 DEF RecInv, PlaySync
  <2> QED BY <2>1, <2>2
<1>7. MasterInv(C)'
  BY DEF PlaySync, Inv, MasterInv, Multi
<1>8. WriterInv(C)'
  <2>0. WriterInv(C) /\ held \subseteq Files
    BY DEF Inv, TypeOK
  <2>1. CASE rec[f].own
    <3>1. \A g \in held : rec'[g].own \/ Hot(g)'
      BY <1>2, <1>3, <1>4, <2>0, <2>1 DEF PlaySync, WriterInv, Hot
    <3> QED BY Zenon, <1>4, <2>0, <2>1, <3>1, RollbackWriter DEF PlaySync
  <2>2. CASE ~rec[f].own
    <3>1. \A g \in held : g \in Files \ {f}
      BY <1>4, <2>0, <2>2
    <3> QED BY <1>2, <2>0, <3>1, WriterFrame DEF PlaySync
  <2> QED BY <2>1, <2>2
<1> QED BY <1>5, <1>6, <1>7, <1>8 DEF Inv
\* A playback ends, or gives up: its file is unlocked.
LEMMA Released ==
  ASSUME TypeOK, NEW C \in SUBSET Txns, Inv(C), NEW f \in Files,
         rec' = [rec EXCEPT ![f] = Idle], Release(f),
         UNCHANGED <<part, txn, cur, todo, acked, power, db, dbDisk, mjDisk>>, mj' \subseteq mj,
         txn \in mj => txn \in mj' \/ pc \in {"idle", "rollback"},
         \A g \in Files \ {f} : /\ jrnl'[g] = jrnl[g] /\ jrnlDisk'[g] = jrnlDisk[g]
                                /\ jrnl[g].tail \in mj => jrnl[g].tail \in mj',
         jrnl'[f] = jrnl[f] \/ jrnl'[f].tail = NoMaster,
         f \in held /\ ~rec[f].own => jrnl'[f] = jrnl[f] /\ jrnlDisk'[f] = jrnlDisk[f],
         \A g \in Files : FileInv(C, g)'
  PROVE  Inv(C)'
<1>1. PartKept(C) /\ \A g \in Files : RecInv(C, g)
  BY Zenon DEF PartKept, Inv
<1>2. /\ \A g \in Files \ {f} : rec'[g] = rec[g]
      /\ rec'[f] = Idle /\ ~Idle.own /\ Idle.st = "idle"
  BY Zenon DEF TypeOK, Idle
<1>3. /\ rec[f].own => pc = "rollback" /\ held' = held \ {f} /\ pc' = IF held = {f} THEN "idle" ELSE pc
      /\ ~rec[f].own => held' = held /\ pc' = pc
      /\ held' \subseteq held /\ held \subseteq Files /\ (pc' = pc \/ (pc' = "idle" /\ held' = {}))
  BY Zenon, <1>1 DEF Release, RecInv, TypeOK
<1>6. ASSUME NEW g \in Files PROVE RecInv(C, g)'
  <2>1. CASE g # f
    <3>1. RecInv(C, g)
      BY Zenon, <1>1
    <3>2. rec[g].own => pc' = "rollback" /\ g \in held'
      <4>1. rec[g].own => pc = "rollback" /\ g \in held
        BY Zenon, <3>1 DEF RecInv
      <4>2. g \in held => g \in held' /\ pc' = pc
        BY Zenon, <1>3, <2>1
      <4> QED BY Zenon, <4>1, <4>2
    <3>3. g \in held' => rec[g].st = "idle"
                        \/ (IF pc' \in {"journal", "active"} THEN ~rec[g].own ELSE rec[g].own)
      BY Zenon, <1>3, <3>1 DEF RecInv
    <3>4. rec[g].st \in {"play", "sync", "end"} => rec[g].own \/ g \notin held'
      BY Zenon, <1>3, <3>1 DEF RecInv
    <3>5. rec[g].st # "idle" /\ rec[g].res /\ rec[g].master # NoMaster =>
             rec[g].master # txn' \/ pc' \in {"idle", "rollback"}
      BY Zenon, <1>3, <3>1 DEF RecInv
    <3>6. rec[g].st = "kids" => rec[g].master # NoMaster /\ part[rec[g].master] \subseteq Files
      BY Zenon, <3>1 DEF RecInv, TypeOK, Playbacks
    <3>7. rec[g].st = "kids" =>
             \A k \in part[rec[g].master] :
               jrnl'[k].there /\ jrnl'[k].tail = rec[g].master
                 => jrnl[k].there /\ jrnl[k].tail = rec[g].master
      BY <3>6
    <3> QED BY Zenon, <1>1, <1>2, <2>1, <3>1, <3>2, <3>3, <3>4, <3>5, <3>7, RecFrame
  <2>2. CASE g = f
    BY Zenon, <1>2, <2>2 DEF RecInv
  <2> QED BY Zenon, <2>1, <2>2
<1>7. MasterInv(C)'
  <2>1. pc = "mjdirsync" => pc' = pc
    BY Zenon, <1>3 DEF Inv, WriterInv
  <2>2. \A t \in Txns : Multi(t)' <=> Multi(t)
    BY DEF Multi
  <2> QED BY Zenon, <1>3, <2>1, <2>2 DEF Inv, MasterInv, TypeOK
<1>8. WriterInv(C)'
  <2>0. WriterInv(C)
    BY Zenon DEF Inv
  <2>1. CASE rec[f].own /\ held = {f}
    BY Zenon, <1>3, <2>0, <2>1 DEF WriterInv, Before, PhaseOne
  <2>2. CASE rec[f].own /\ held # {f}
    <3>1. \A g \in held' : g # f /\ g \in Files
      BY Zenon, <1>3, <2>2
    <3>2. \A g \in held' : rec'[g].own \/ Hot(g)'
      BY Zenon, <1>2, <1>3, <2>0, <2>2, <3>1 DEF WriterInv, Hot
    <3> QED BY Zenon, <1>3, <2>0, <2>2, <3>2, RollbackWriter
  <2>3. CASE ~rec[f].own /\ pc \notin {"idle", "rollback"}
    <3>1. \A g \in held : /\ jrnl'[g] = jrnl[g] /\ jrnlDisk'[g] = jrnlDisk[g]
                          /\ rec[g].own => rec'[g].own
      BY Zenon, <1>2, <1>3, <2>3
    <3> QED BY Zenon, <1>3, <2>0, <2>3, <3>1, WriterFrame
  <2>4. CASE ~rec[f].own /\ pc = "rollback"
    <3>1. \A g \in held : rec'[g].own \/ Hot(g)'
      BY ZenonT(30), <1>2, <1>3, <2>0, <2>4 DEF WriterInv, Hot
    <3> QED BY Zenon, <1>3, <2>0, <2>4, <3>1, RollbackWriter
  <2>5. CASE ~rec[f].own /\ pc = "idle"
    BY Zenon, <1>3, <2>0, <2>5 DEF WriterInv, Before, PhaseOne
  <2> QED BY Zenon, <2>1, <2>2, <2>3, <2>4, <2>5
<1> QED BY Zenon, <1>6, <1>7, <1>8 DEF Inv

\* end_playback: the journal goes, and the database has the committed content.
LEMMA PlayEndStep ==
  ASSUME TypeOK, NEW C \in SUBSET Txns, Inv(C), NEW f \in Files, PlayEnd(f)
  PROVE  Inv(C)'
<1> USE DEF dbs, jrnls, mjs, disk, begun, hist, writer, faults
<1>1. PartKept(C) /\ \A g \in Files : FileInv(C, g) /\ RecInv(C, g)
  BY DEF PartKept, PlayEnd, Inv
<1>2. /\ rec[f].st = "end" /\ Clean(C, f) /\ rec[f].master = jrnl[f].tail
      /\ rec[f].own \/ (rec[f].m = "delete" /\ f \notin held)
      /\ rec[f].own => rec[f].off /\ pc = "rollback" /\ f \in held
  BY <1>1 DEF PlayEnd, RecInv
<1>3. /\ ~jrnl'[f].hdr /\ jrnl'[f].tail = NoMaster
      /\ jrnlDisk'[f] = jrnlDisk[f] \/ jrnlDisk'[f] = jrnl'[f]
      /\ \A g \in Files \ {f} : jrnl'[g] = jrnl[g] /\ jrnlDisk'[g] = jrnlDisk[g]
  <2>1. rec[f].m \in {"delete", "truncate", "persist"} /\ rec[f].off \in BOOLEAN
    BY DEF TypeOK, Playbacks
  <2>2. EndTransaction(f, rec[f].m, rec[f].master # NoMaster, rec[f].off)
    BY DEF PlayEnd
  <2>3. jrnl[f].tail # NoMaster => rec[f].master # NoMaster
    BY Zenon, <1>2
  <2>4. rec[f].off \/ rec[f].m = "delete"
    BY Zenon, <1>2
  <2> DEFINE m == rec[f].m
             hasMaster == rec[f].master # NoMaster
             off == rec[f].off
  <2>5. m \in {"delete", "truncate", "persist"} /\ hasMaster \in BOOLEAN /\ off \in BOOLEAN
    BY Zenon, <2>1
  <2>6. /\ off \/ m = "delete"
        /\ jrnl[f].tail # NoMaster => hasMaster \/ m # "persist"
        /\ EndTransaction(f, m, hasMaster, off)
    BY Zenon, <2>2, <2>3, <2>4
  <2> HIDE DEF m, hasMaster, off
  <2> QED BY <2>5, <2>6, Ended
<1>4. UNCHANGED <<part, txn, cur, todo, acked, power, db, dbDisk, mj, mjDisk>>
  BY DEF PlayEnd
<1>5. ASSUME NEW g \in Files PROVE FileInv(C, g)'
  <2>1. CASE g # f
    BY Zenon, <1>1, <1>3, <1>4, <2>1, FileFrame
  <2>2. CASE g = f
    BY Zenon, <1>1, <1>2, <1>3, <1>4, <2>2, Finished DEF FileInv
  <2> QED BY <2>1, <2>2
<1>6. CASE ~(rec[f].master # NoMaster /\ rec[f].res)
  <2>1. rec' = [rec EXCEPT ![f] = Idle] /\ Release(f)
    BY Zenon, <1>6 DEF PlayEnd
  <2> QED BY Zenon, <1>2, <1>3, <1>4, <1>5, <2>1, Released
<1>7. CASE rec[f].master # NoMaster /\ rec[f].res
  <2>1. /\ rec' = [rec EXCEPT ![f] = [rec[f] EXCEPT !.st = "delmaster"]] /\ UNCHANGED <<held, pc>>
        /\ rec[f] \in Playbacks /\ held \subseteq Files
    BY <1>7 DEF PlayEnd, TypeOK
  <2>2. /\ rec'[f].st = "delmaster" /\ rec'[f].own = rec[f].own /\ rec'[f].m = rec[f].m
        /\ rec'[f].off = rec[f].off /\ rec'[f].res = rec[f].res /\ rec'[f].master = rec[f].master
        /\ rec[f].master \in Txns \cup {NoMaster}
        /\ \A g \in Files \ {f} : rec'[g] = rec[g]
    BY <2>1 DEF Playbacks, TypeOK
  <2>3. \A t \in Txns : Multi(t)' <=> Multi(t)
    BY <1>4 DEF Multi
  <2>4. ASSUME NEW g \in Files PROVE RecInv(C, g)'
    <3>1. CASE g # f
      BY <1>1, <1>3, <1>4, <2>1, <2>2, <3>1, OtherRec
    <3>2. CASE g = f
      BY <1>1, <1>2, <1>4, <1>7, <2>1, <2>2, <2>3, <3>2 DEF RecInv
    <3> QED BY <3>1, <3>2
  <2>5. MasterInv(C)'
    BY Zenon, <1>4, <2>1, <2>3 DEF Inv, MasterInv, TypeOK
  <2>6. WriterInv(C)'
    <3>0. WriterInv(C)
      BY DEF Inv
    <3>1. CASE rec[f].own
      <4>1. \A g \in held : rec'[g].own \/ Hot(g)'
        BY <1>2, <1>3, <2>1, <2>2, <3>0, <3>1 DEF WriterInv, Hot
      <4> QED BY <1>2, <1>4, <2>1, <3>0, <3>1, <4>1, RollbackWriter
    <3>2. CASE ~rec[f].own
      <4>1. \A g \in held : g \in Files \ {f}
        BY <1>2, <2>1, <3>2
      <4> QED BY <1>3, <1>4, <2>1, <2>2, <3>0, <4>1, WriterFrame
    <3> QED BY <3>1, <3>2
  <2> QED BY <1>5, <2>4, <2>5, <2>6 DEF Inv
<1> QED BY <1>6, <1>7
=============================================================================
