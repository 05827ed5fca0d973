--------------------------- MODULE MultiFile_inv ---------------------------
(***************************************************************************)
(* The commit of a transaction over several files is atomic, for any       *)
(* number of files, transactions, deaths and power losses, when hot        *)
(* journals are recovered in journal mode DELETE and an unlink that is not *)
(* synced reaches the disk unless the power fails first.                   *)
(*                                                                         *)
(* C stands for the transactions that are committed.  The invariant says   *)
(* what each file and its journal hold in terms of C; it holds for some C  *)
(* in every reachable state, and C changes by the steps of AtomicCommit.   *)
(***************************************************************************)
EXTENDS MultiFile, TLAPS

\* The committed content of a file.
V(C, f) == {t \in C : f \in part[t]}

\* The database file holds it, on disk too.
Clean(C, f) == db[f] = V(C, f) /\ dbDisk[f] = V(C, f)

HotDisk(f) == jrnlDisk[f].there /\ jrnlDisk[f].hdr

\* A hot journal restores the committed content, or its master is gone and the
\* database has it.
JournalInv(C, f) ==
  LET j == jrnl[f] IN
  /\ j.hdr => j.there
  /\ ~j.hdr => j.tail = NoMaster
  /\ Hot(f) /\ j.tail = NoMaster => j.old = V(C, f)
  /\ Hot(f) /\ j.tail # NoMaster =>
       /\ f \in part[j.tail] /\ Multi(j.tail) /\ (j.tail \in mj => j.tail \in mjDisk)
       /\ j.tail \in C => j.old = V(C, f) \ {j.tail} /\ Clean(C, f)
       /\ j.tail \notin C => j.old = V(C, f) /\ (j.tail \in mj \cap mjDisk \/ Clean(C, f))
  /\ ~Hot(f) => Clean(C, f)

\* The same of the journal that is on disk, which may restore one transaction
\* less when that one wrote this file only.
DiskInv(C, f) ==
  LET d == jrnlDisk[f] IN
  /\ d.hdr => d.there
  /\ ~d.hdr => d.tail = NoMaster
  /\ HotDisk(f) /\ d.tail = NoMaster =>
       \/ d.old = V(C, f)
       \/ Clean(C, f) /\ \E s \in C : part[s] = {f} /\ d.old = V(C, f) \ {s}
  /\ HotDisk(f) /\ d.tail # NoMaster =>
       /\ f \in part[d.tail] /\ Multi(d.tail)
       /\ d.tail \in C => d.old = V(C, f) \ {d.tail} /\ Clean(C, f)
       /\ d.tail \notin C => d.old = V(C, f) /\ (d.tail \in mj \cap mjDisk \/ Clean(C, f))
       /\ jrnl[f].tail # d.tail => Clean(C, f)
  /\ ~HotDisk(f) => Clean(C, f)

FileInv(C, f) == JournalInv(C, f) /\ DiskInv(C, f)

\* Transactions, committed ones and master journals.
MasterInv(C) ==
  /\ \A t \in Txns : t > txn => part[t] = {} /\ t \notin C /\ t \notin mj /\ t \notin mjDisk
  /\ \A t \in C : Multi(t) => t \notin mj /\ (t \in mjDisk => pc = "mjdirsync" /\ t = txn)
  /\ pc # "idle" => txn \in Txns /\ txn \notin acked
  /\ \A t \in acked : t <= txn /\ (Multi(t) \/ ~power => t \in C)

Before == {"journal", "active", "mjopen", "mjsync"}
PhaseOne == {"phaseone", "syncjrnl", "writedb", "syncdb"}

\* The master the journals name in phase one.
Target == IF Multi(txn) THEN txn ELSE NoMaster

\* A file that CommitPhaseOne is through with.
Done(C, f) ==
  /\ Hot(f) /\ jrnl[f].tail = Target /\ jrnlDisk[f] = jrnl[f]
  /\ db[f] = V(C, f) \cup {txn} /\ dbDisk[f] = V(C, f) \cup {txn}

\* How far the writer has come.
WriterInv(C) ==
  /\ pc = "idle" => held = {}
  /\ pc \notin PhaseOne => cur = {}
  /\ pc = "journal" => todo \subseteq held
  /\ pc \in {"mjopen", "mjsync"} => todo = held
  /\ pc \in Before \cup PhaseOne \cup {"mjdelete", "mjdirsync"} => held = part[txn]
  /\ pc # "idle" => held \subseteq part[txn]
  /\ pc \in Before \cup PhaseOne \cup {"mjdelete"} => txn \notin C
  /\ pc \in Before => \A f \in held : jrnlDisk[f].tail # txn /\ jrnl[f].tail = NoMaster
  /\ pc = "journal" => \A f \in held : Hot(f) <=> f \notin todo
  /\ pc \in Before \ {"journal"} => \A f \in held : Hot(f)
  /\ pc \in {"mjopen", "mjsync", "mjdelete", "mjdirsync"} => Multi(txn)
  /\ pc = "mjsync" => txn \in mj
  /\ pc \in PhaseOne \cup {"mjdelete"} => (Multi(txn) => txn \in mj \cap mjDisk)
  /\ pc \in PhaseOne =>
       /\ todo \subseteq held
       /\ IF pc = "phaseone" THEN cur = {} ELSE \E f \in todo : cur = {f}
       /\ \A f \in held \ todo : Done(C, f)
       /\ \A f \in todo \ cur : Hot(f) /\ jrnl[f].tail = NoMaster
       /\ \A f \in cur : Hot(f) /\ jrnl[f].tail = Target
                         /\ (pc \in {"writedb", "syncdb"} => jrnlDisk[f] = jrnl[f])
  /\ pc = "mjdelete" => \A f \in held : Done(C, f)
  /\ pc = "mjdirsync" =>
       txn \in C /\ \A f \in held : Hot(f) /\ jrnl[f].tail = txn /\ jrnlDisk[f] = jrnl[f]
  /\ pc = "phasetwo" =>
       IF Multi(txn) THEN txn \in C /\ \A f \in held : Hot(f) /\ jrnl[f].tail = txn
                     ELSE txn \notin C /\ held = part[txn] /\ \A f \in held : Done(C, f)
  /\ pc = "rollback" => \A f \in held : rec[f].own \/ Hot(f)

\* What a playback knows.
RecInv(C, f) ==
  LET r == rec[f] IN
  /\ r.own => pc = "rollback" /\ f \in held /\ r.off /\ r.st # "idle"
  /\ r.st = "idle" \/ r.own \/ r.m = "delete"
  /\ f \in held => r.st = "idle" \/ (IF pc \in {"journal", "active"} THEN ~r.own ELSE r.own)
  /\ r.st \in {"play", "sync", "end"} =>
       /\ r.own \/ f \notin held
       /\ r.master = jrnl[f].tail
  /\ r.st \in {"play", "sync"} =>
       /\ Hot(f) /\ r.res /\ (jrnl[f].tail = NoMaster \/ jrnl[f].tail \in mj)
       /\ r.own \/ jrnlDisk[f] = jrnl[f]
  /\ r.st = "end" => Clean(C, f)
  /\ r.st \in {"delmaster", "kids"} => r.res /\ r.master # NoMaster
  /\ r.st # "idle" /\ r.res /\ r.master # NoMaster =>
       /\ r.master \notin C /\ Multi(r.master)
       /\ r.master # txn \/ pc \in {"idle", "rollback"}
  /\ r.st = "kids" =>
       \A k \in part[r.master] \ r.kids : ~jrnl[k].there \/ jrnl[k].tail # r.master

Inv(C) ==
  /\ MasterInv(C) /\ WriterInv(C)
  /\ \A f \in Files : FileInv(C, f) /\ RecInv(C, f)

IInv == TypeOK /\ \E C \in SUBSET Txns : Inv(C)

-----------------------------------------------------------------------------
USE ModesAssumption, BoundAssumption DEF NoMaster

\* The variables keep their types in every step of the writer, a playback or
\* the machine.
LEMMA TypeInit == Init => TypeOK
<1> SUFFICES ASSUME Init PROVE TypeOK
  OBVIOUS
<1>1. NoJournal \in Journals /\ Idle \in Playbacks /\ {} \in Contents
  BY DEF Contents, Journals, NoJournal, Idle, Playbacks
<1>2. txn \in 0..MaxTxn /\ crashes \in 0..MaxCrash
  BY DEF Init
<1>3. /\ part \in [Txns -> SUBSET Files] /\ rec \in [Files -> Playbacks]
      /\ db \in [Files -> Contents] /\ dbDisk \in [Files -> Contents]
      /\ jrnl \in [Files -> Journals] /\ jrnlDisk \in [Files -> Journals]
  BY <1>1 DEF Init
<1> QED BY Zenon, <1>2, <1>3 DEF Init, TypeOK

\* Finalizing a journal leaves a journal.
LEMMA FinalizedType ==
  ASSUME NEW j \in Journals, NEW m \in {"delete", "truncate", "persist"},
         NEW hasMaster \in BOOLEAN, NEW off \in BOOLEAN
  PROVE  Finalized(j, m, hasMaster, off) \in Journals
  BY Zenon DEF Finalized, ZeroedJournal, EmptyJournal, NoJournal, Journals, Contents

\* The assignments a playback makes keep its record well-typed.
LEMMA PlaybackTypes ==
  ASSUME NEW r \in Playbacks, NEW ks \in SUBSET Files
  PROVE  /\ \A st \in {"sync", "end", "delmaster"} : [r EXCEPT !.st = st] \in Playbacks
         /\ [r EXCEPT !.kids = ks] \in Playbacks
         /\ [r EXCEPT !.st = "kids", !.kids = ks] \in Playbacks
  BY Zenon DEF Playbacks

\* The end of a transaction leaves journals.
LEMMA EndTypes ==
  ASSUME TypeOK, NEW f \in Files, NEW m \in {"delete", "truncate", "persist"},
         NEW hasMaster \in BOOLEAN, NEW off \in BOOLEAN, EndTransaction(f, m, hasMaster, off)
  PROVE  jrnl' \in [Files -> Journals] /\ jrnlDisk' \in [Files -> Journals]
  BY Zenon, FinalizedType DEF EndTransaction, TypeOK

\* Every step keeps the types, given the invariant.
LEMMA TypeNext ==
  ASSUME TypeOK, NEW C \in SUBSET Txns, Inv(C), [Next]_vars
  PROVE  TypeOK'
<1> USE DEF TypeOK, dbs, jrnls, mjs, disk, begun, hist, writer, faults
<1>0. /\ Torn \in Contents
      /\ pc # "idle" => txn \in Txns
      /\ txn \in Txns => \A f \in Files : V(C, f) \in Contents /\ V(C, f) \cup {txn} \in Contents
  BY DEF Contents, Inv, MasterInv, V
<1>1. CASE \E fs \in SUBSET Files, m \in WriterModes : Begin(fs, m)
  BY <1>1 DEF Begin, Txns
<1>2. CASE \E f \in Files : Spill(f)
  BY <1>2, <1>0 DEF Spill
<1>3. ASSUME NEW f \in Files, NEW longer \in BOOLEAN, OpenJournal(f, longer) PROVE TypeOK'
  <2>1. OpenedJournal(f, longer) \in Journals
    BY DEF OpenedJournal, Journals
  <2> QED BY <1>3, <2>1 DEF OpenJournal
<1>4. ASSUME NEW f \in Files, WriteMasterJournal(f) PROVE TypeOK'
  <2>1. [jrnl[f] EXCEPT !.tail = IF Multi(txn) THEN txn ELSE jrnl[f].tail] \in Journals
    BY <1>4, <1>0 DEF WriteMasterJournal, Journals
  <2> QED BY <1>4, <2>1 DEF WriteMasterJournal
<1>5. ASSUME NEW f \in Files, SyncJournal(f) PROVE TypeOK'
  BY <1>5 DEF SyncJournal
<1>6. ASSUME NEW f \in Files, WriteDb(f) PROVE TypeOK'
  BY <1>6, <1>0 DEF WriteDb
<1>7. ASSUME NEW f \in Files, SyncDb(f) PROVE TypeOK'
  <2>1. jrnl[f].old = V(C, f)
    BY <1>7, <1>0 DEF SyncDb, Inv, WriterInv, FileInv, JournalInv, PhaseOne, Target, Hot
  <2> QED BY Zenon, <1>7, <1>0, <2>1 DEF SyncDb
<1>8. CASE CommitStart
  BY <1>8 DEF CommitStart, Fail
<1>9. CASE MasterOpen
  BY <1>9, <1>0 DEF MasterOpen, Fail
<1>10. CASE MasterSync
  BY <1>10, <1>0 DEF MasterSync, Fail
<1>11. CASE MasterDelete \/ MasterDirSync \/ PhaseOneError
  BY <1>11, <1>0 DEF MasterDelete, MasterDirSync, PhaseOneError, LateUnlink, Fail
<1>12. ASSUME NEW f \in Files, NEW ok \in BOOLEAN, CommitPhaseTwo(f, ok) PROVE TypeOK'
  <2>1. Multi(txn) \in BOOLEAN
    BY DEF Multi
  <2>2. jrnl' \in [Files -> Journals] /\ jrnlDisk' \in [Files -> Journals]
    BY Zenon, <1>12, <2>1, EndTypes DEF CommitPhaseTwo
  <2> QED BY <1>12, <1>0, <2>2 DEF CommitPhaseTwo
<1>13. ASSUME NEW f \in Files, NEW m \in RecoverModes, Recover(f, m) PROVE TypeOK'
  <2>1. Started(f, m, FALSE) \in Playbacks
    BY Zenon DEF Started, MasterSaysPlay, Journals, Playbacks
  <2> QED BY Zenon, <1>13, <2>1 DEF Recover
<1>14. ASSUME NEW f \in Files, Rollback(f) PROVE TypeOK'
  <2>1. Started(f, mode, TRUE) \in Playbacks
    BY DEF Started, MasterSaysPlay, Journals, Playbacks
  <2> QED BY Zenon, <1>14, <2>1 DEF Rollback
<1>a. Idle \in Playbacks
  BY DEF Idle, Playbacks
<1>b. ASSUME NEW f \in Files, NEW st \in {"sync", "end", "delmaster"}
      PROVE  [rec[f] EXCEPT !.st = st] \in Playbacks
  BY Zenon, PlaybackTypes
<1>e. ASSUME NEW f \in Files, rec' = [rec EXCEPT ![f] = Idle], Release(f)
      PROVE  rec' \in [Files -> Playbacks] /\ held' \subseteq Files
             /\ (pc' = "idle" \/ pc' = pc)
  BY <1>a, <1>e DEF Release
<1>15. ASSUME NEW f \in Files, PlayPages(f) PROVE TypeOK'
  BY Zenon, <1>15, <1>0, <1>b DEF PlayPages
<1>16. ASSUME NEW f \in Files, PlaySync(f) PROVE TypeOK'
  BY Zenon, <1>16, <1>b DEF PlaySync, Journals
<1>17. ASSUME NEW f \in Files, PlayEnd(f) PROVE TypeOK'
  <2>1. rec[f].m \in {"delete", "truncate", "persist"} /\ rec[f].off \in BOOLEAN
    BY DEF Playbacks
  <2>2. jrnl' \in [Files -> Journals] /\ jrnlDisk' \in [Files -> Journals]
    BY ZenonT(30), <1>17, <2>1, EndTypes DEF PlayEnd
  <2> QED BY Zenon, <1>17, <2>2, <1>a, <1>b DEF PlayEnd, Release
<1>18. ASSUME NEW f \in Files, DelMasterOpen(f) PROVE TypeOK'
  <2>1. rec[f].master \in mj => part[rec[f].master] \in SUBSET Files
    OBVIOUS
  <2>2. CASE rec[f].master \in mj
    <3>1. rec' = [rec EXCEPT ![f] = [rec[f] EXCEPT !.st = "kids", !.kids = part[rec[f].master]]]
      BY Zenon, <1>18, <2>2 DEF DelMasterOpen
    <3>2. rec' \in [Files -> Playbacks]
      BY Zenon, <3>1, <2>1, <2>2, PlaybackTypes
    <3> QED BY <1>18, <2>2, <3>2 DEF DelMasterOpen
  <2>3. CASE rec[f].master \notin mj
    BY <1>18, <2>3, <1>e DEF DelMasterOpen
  <2> QED BY <2>2, <2>3
<1>19. ASSUME NEW f \in Files, NEW k \in Files, DelMasterCheck(f, k) PROVE TypeOK'
  <2>1. rec[f].kids \ {k} \in SUBSET Files
    BY DEF Playbacks
  <2>2. CASE jrnl[k].there /\ jrnl[k].tail = rec[f].master
    BY <1>19, <2>2, <1>e DEF DelMasterCheck
  <2>3. CASE ~(jrnl[k].there /\ jrnl[k].tail = rec[f].master)
    <3>1. rec' = [rec EXCEPT ![f] = [rec[f] EXCEPT !.kids = rec[f].kids \ {k}]]
      BY <1>19, <2>3 DEF DelMasterCheck
    <3>2. rec' \in [Files -> Playbacks]
      BY Zenon, <3>1, <2>1, PlaybackTypes
    <3> QED BY <1>19, <2>3, <3>2 DEF DelMasterCheck
  <2> QED BY <2>2, <2>3
<1>23. ASSUME NEW f \in Files, DelMasterDelete(f) \/ PlayAbandon(f) PROVE TypeOK'
  BY <1>23, <1>e DEF DelMasterDelete, PlayAbandon
<1>20. CASE Crash
  <2>1. rec' \in [Files -> Playbacks] /\ mjDisk' \subseteq Txns
    BY <1>20, <1>a DEF Crash, LateUnlink
  <2> QED BY <1>20, <2>1 DEF Crash, WriterGone
<1>21. CASE PowerLoss
  <2>1. rec' \in [Files -> Playbacks] /\ mj' \subseteq Txns /\ mjDisk' \subseteq Txns
    BY <1>21, <1>a DEF PowerLoss
  <2>2. db' \in [Files -> Contents] /\ dbDisk' \in [Files -> Contents]
    BY <1>21, <1>0 DEF PowerLoss
  <2>3. jrnl' \in [Files -> Journals] /\ jrnlDisk' \in [Files -> Journals]
    BY <1>21 DEF PowerLoss
  <2> QED BY <1>21, <2>1, <2>2, <2>3 DEF PowerLoss, WriterGone
<1>22. CASE UNCHANGED vars
  BY <1>22 DEF vars
<1> QED BY Zenon, <1>1, <1>2, <1>3, <1>4, <1>5, <1>6, <1>7, <1>8, <1>9, <1>10, <1>11, <1>12, <1>13,
          <1>14, <1>15, <1>16, <1>17, <1>18, <1>19, <1>20, <1>21, <1>22, <1>23
       DEF Next, WriterStep, PlayStep

-----------------------------------------------------------------------------
(* What a step that leaves a file, its playback or the writer alone keeps. *)

\* A transaction gets its files once, before it is committed.
PartKept(C) == \A t \in Txns : part'[t] = part[t] \/ (part[t] = {} /\ t \notin C)

\* The committed content of a file stays while PartKept does.
LEMMA VKept ==
  ASSUME TypeOK, NEW C \in SUBSET Txns, PartKept(C)
  PROVE  /\ \A f \in Files : V(C, f)' = V(C, f)
         /\ \A t \in Txns : Multi(t) => Multi(t)' /\ part'[t] = part[t]
<1>1. ASSUME NEW f \in Files PROVE V(C, f)' = V(C, f)
  BY DEF PartKept, V
<1>2. ASSUME NEW t \in Txns, Multi(t) PROVE Multi(t)' /\ part'[t] = part[t]
  BY <1>2 DEF PartKept, Multi
<1> QED BY <1>1, <1>2

\* A file that a step leaves alone keeps its invariant, unless a master journal
\* its journal names comes or goes.
LEMMA FileFrame ==
  ASSUME TypeOK, NEW C \in SUBSET Txns, NEW f \in Files, FileInv(C, f), PartKept(C),
         jrnl'[f] = jrnl[f], jrnlDisk'[f] = jrnlDisk[f], db'[f] = db[f], dbDisk'[f] = dbDisk[f],
         \A t \in mj \cap mjDisk :
           \/ t \in mj' \cap mjDisk' \/ t \in C \/ Clean(C, f)
           \/ jrnl[f].tail # t /\ jrnlDisk[f].tail # t,
         \A t \in mj' : t \in mj \/ jrnl[f].tail # t,
         \A t \in mjDisk : t \in mjDisk' \/ t \notin mj' \/ jrnl[f].tail # t
  PROVE  FileInv(C, f)'
<1>1. V(C, f)' = V(C, f) /\ \A t \in Txns : Multi(t) => Multi(t)' /\ part'[t] = part[t]
  BY VKept
<1>2. Clean(C, f)' <=> Clean(C, f)
  BY <1>1 DEF Clean
<1>3. (Hot(f)' <=> Hot(f)) /\ (HotDisk(f)' <=> HotDisk(f))
  BY DEF Hot, HotDisk
<1>4. jrnl[f].tail \in Txns \cup {0} /\ jrnlDisk[f].tail \in Txns \cup {0}
  BY Zenon DEF TypeOK, Journals
<1>5. JournalInv(C, f)'
  BY Zenon, <1>1, <1>2, <1>3, <1>4 DEF FileInv, JournalInv
<1>6. DiskInv(C, f)'
  <2>1. ASSUME NEW s \in C, part[s] = {f} PROVE part'[s] = {f}
    BY <2>1 DEF PartKept
  <2> QED BY <1>1, <1>2, <1>3, <1>4, <2>1 DEF FileInv, DiskInv
<1> QED BY <1>5, <1>6 DEF FileInv

\* A playback that a step leaves alone keeps its invariant.
LEMMA RecFrame ==
  ASSUME TypeOK, NEW C \in SUBSET Txns, NEW f \in Files, RecInv(C, f), PartKept(C),
         rec'[f] = rec[f],
         rec[f].own => pc' = "rollback" /\ f \in held',
         f \in held' => rec[f].st = "idle"
                        \/ (IF pc' \in {"journal", "active"} THEN ~rec[f].own ELSE rec[f].own),
         rec[f].st \in {"play", "sync", "end"} =>
           /\ rec[f].own \/ f \notin held'
           /\ jrnl'[f] = jrnl[f] /\ jrnlDisk'[f] = jrnlDisk[f]
           /\ db'[f] = db[f] /\ dbDisk'[f] = dbDisk[f]
           /\ jrnl[f].tail \in mj => jrnl[f].tail \in mj',
         rec[f].st # "idle" /\ rec[f].res /\ rec[f].master # NoMaster =>
           rec[f].master # txn' \/ pc' \in {"idle", "rollback"},
         rec[f].st = "kids" =>
           \A k \in part[rec[f].master] :
             jrnl'[k].there /\ jrnl'[k].tail = rec[f].master
               => jrnl[k].there /\ jrnl[k].tail = rec[f].master
  PROVE  RecInv(C, f)'
<1>1. V(C, f)' = V(C, f) /\ \A t \in Txns : Multi(t) => Multi(t)' /\ part'[t] = part[t]
  BY VKept
<1>2. rec[f].master \in Txns \cup {0}
  BY DEF TypeOK, Playbacks
<1>3. rec[f].st = "end" => (Clean(C, f)' <=> Clean(C, f))
  BY <1>1 DEF Clean
<1>4. rec[f].st \in {"play", "sync"} => (Hot(f)' <=> Hot(f))
  BY Zenon DEF Hot
<1>5. rec[f].st = "kids" =>
        \A k \in part'[rec[f].master] \ rec[f].kids : ~jrnl'[k].there \/ jrnl'[k].tail # rec[f].master
  BY <1>1, <1>2 DEF RecInv
<1> QED BY <1>1, <1>2, <1>3, <1>4, <1>5 DEF RecInv

\* The writer is where it was, and its files are as they were.
LEMMA WriterFrame ==
  ASSUME TypeOK, NEW C \in SUBSET Txns, WriterInv(C), UNCHANGED <<part, txn, pc, cur, todo, held>>,
         txn \in mj => txn \in mj', txn \in mjDisk => txn \in mjDisk',
         \A f \in held :
           /\ jrnl'[f] = jrnl[f] /\ jrnlDisk'[f] = jrnlDisk[f]
           /\ db'[f] = db[f] /\ dbDisk'[f] = dbDisk[f]
           /\ rec[f].own => rec'[f].own
  PROVE  WriterInv(C)'
<1>1. held \subseteq Files
  BY DEF TypeOK
<1>2. \A f \in held : V(C, f)' = V(C, f) /\ (Hot(f)' <=> Hot(f))
  BY DEF V, Hot
<1>3. (Multi(txn)' <=> Multi(txn)) /\ Target' = Target
  BY DEF Multi, Target
<1>4. \A f \in held : Done(C, f)' <=> Done(C, f)
  BY <1>2, <1>3 DEF Done
<1>5. pc \in PhaseOne => todo \subseteq held /\ cur \subseteq held
  BY DEF WriterInv
<1> QED BY <1>2, <1>3, <1>4, <1>5 DEF WriterInv
\* A journal that names a master is hot, and belongs to a file of the transaction.
LEMMA NamedIn ==
  ASSUME TypeOK, NEW C \in SUBSET Txns, NEW f \in Files, FileInv(C, f)
  PROVE  /\ jrnl[f].tail # NoMaster => f \in part[jrnl[f].tail]
         /\ jrnlDisk[f].tail # NoMaster => f \in part[jrnlDisk[f].tail]
  BY DEF FileInv, JournalInv, DiskInv, Hot, HotDisk

\* sqlite3PagerBegin finds no hot journal on its files.
LEMMA BeginStep ==
  ASSUME TypeOK, NEW C \in SUBSET Txns, Inv(C), RecoverModes = {"delete"},
         NEW fs \in SUBSET Files, NEW m \in WriterModes, Begin(fs, m)
  PROVE  Inv(C)'
<1> USE DEF dbs, jrnls, mjs, disk, begun, hist, writer, faults
<1>1. /\ txn + 1 \in Txns /\ txn \in Nat /\ part[txn + 1] = {} /\ txn + 1 \notin C
      /\ part' = [part EXCEPT ![txn + 1] = fs] /\ part \in [Txns -> SUBSET Files]
      /\ txn' = txn + 1 /\ pc = "idle" /\ pc' = "journal"
  BY DEF TypeOK, Inv, MasterInv, Begin, Txns
<1>2. PartKept(C)
  BY <1>1 DEF PartKept
<1>3. ASSUME NEW f \in Files PROVE FileInv(C, f)' /\ RecInv(C, f)'
  <2>1. FileInv(C, f) /\ RecInv(C, f)
    BY Zenon DEF Inv
  <2>2. FileInv(C, f)'
    BY Zenon, <1>2, <2>1, FileFrame DEF Begin
  <2>3. ~rec[f].own /\ (f \in fs => rec[f].st \in {"idle", "delmaster", "kids"})
    BY Zenon, <1>1, <2>1 DEF RecInv, Begin, CanRead
  <2>4. rec[f].st # "idle" /\ rec[f].res /\ rec[f].master # NoMaster => rec[f].master # txn + 1
    BY <1>1, <2>1 DEF RecInv, Multi
  <2>5. RecInv(C, f)'
    BY <1>1, <1>2, <2>1, <2>3, <2>4, RecFrame DEF Begin
  <2> QED BY <2>2, <2>5
<1>4. MasterInv(C)'
  <2>1. \A t \in C : Multi(t)' => Multi(t)
    BY <1>1 DEF Multi
  <2>2. \A t \in acked : t <= txn /\ (Multi(t)' => Multi(t))
    BY <1>1 DEF Multi, Inv, MasterInv, TypeOK
  <2> QED BY <1>1, <2>1, <2>2 DEF MasterInv, Inv, Begin, TypeOK, Txns
<1>5. WriterInv(C)'
  <2>1. ASSUME NEW f \in fs PROVE jrnlDisk[f].tail # txn + 1 /\ jrnl[f].tail = NoMaster /\ ~Hot(f)
    <3>1. FileInv(C, f)
      BY DEF Inv
    <3>2. ~Hot(f)
      BY DEF Begin, CanRead
    <3> QED BY <1>1, <3>1, <3>2, NamedIn DEF FileInv, JournalInv, Hot
  <2>2. part'[txn + 1] = fs
    BY Zenon, <1>1
  <2>3. cur' = {} /\ held' = fs /\ todo' = fs /\ jrnl' = jrnl /\ jrnlDisk' = jrnlDisk
    BY <1>1 DEF Begin, Inv, WriterInv, PhaseOne
  <2>4. \A f \in fs : ~Hot(f)'
    BY <2>1, <2>3 DEF Hot
  <2> QED BY Zenon, <1>1, <2>1, <2>2, <2>3, <2>4 DEF WriterInv, Before, PhaseOne
<1> QED BY <1>3, <1>4, <1>5 DEF Inv

\* A step of the writer before it rolls back leaves the playbacks alone: none of
\* them is busy with a file of the writer.
LEMMA WriterRec ==
  ASSUME TypeOK, NEW C \in SUBSET Txns, NEW g \in Files, RecInv(C, g),
         UNCHANGED <<rec, part, txn, held>>, pc \notin {"idle", "rollback"}, pc' # "idle",
         g \in held => IF pc' \in {"journal", "active"} THEN pc \in {"journal", "active"}
                       ELSE pc \in {"journal", "active"} => rec[g].st = "idle",
         g \notin held => /\ jrnl'[g] = jrnl[g] /\ jrnlDisk'[g] = jrnlDisk[g]
                          /\ db'[g] = db[g] /\ dbDisk'[g] = dbDisk[g]
                          /\ jrnl[g].tail \in mj => jrnl[g].tail \in mj',
         \A k \in Files : jrnl'[k] = jrnl[k] \/ jrnl'[k].tail \in {NoMaster, txn}
  PROVE  RecInv(C, g)'
<1>1. PartKept(C) /\ ~rec[g].own
  BY Zenon DEF PartKept, RecInv
<1>2. rec[g].st \in {"play", "sync", "end"} => g \notin held
  BY Zenon, <1>1 DEF RecInv
<1>3. rec[g].st # "idle" /\ rec[g].res /\ rec[g].master # NoMaster => rec[g].master # txn
  BY DEF RecInv
<1>4. rec[g].st = "kids" => rec[g].master # txn /\ rec[g].master \in Txns
  BY <1>3 DEF RecInv, TypeOK, Playbacks
<1>5. rec[g].st = "kids" =>
          \A k \in part[rec[g].master] :
             jrnl'[k].there /\ jrnl'[k].tail = rec[g].master
               => jrnl[k].there /\ jrnl[k].tail = rec[g].master
  BY <1>4 DEF TypeOK, Txns
<1>6. g \in held' => rec[g].st = "idle"
        \/ (IF pc' \in {"journal", "active"} THEN ~rec[g].own ELSE rec[g].own)
  BY <1>1 DEF RecInv
<1> QED BY Zenon, <1>1, <1>2, <1>3, <1>5, <1>6, RecFrame

\* The first write to a file of the transaction opens its journal.
LEMMA OpenJournalStep ==
  ASSUME TypeOK, NEW C \in SUBSET Txns, Inv(C),
         NEW f \in Files, NEW longer \in BOOLEAN, OpenJournal(f, longer)
  PROVE  Inv(C)'
<1> USE DEF dbs, jrnls, mjs, disk, begun, hist, writer, faults
<1>1. PartKept(C) /\ \A g \in Files : FileInv(C, g) /\ RecInv(C, g) /\ ~rec[g].own
  BY DEF PartKept, OpenJournal, Inv, RecInv
<1>2. f \in held /\ ~Hot(f) /\ jrnl[f].tail = NoMaster /\ Clean(C, f)
  BY Zenon, <1>1 DEF OpenJournal, Inv, WriterInv, Before, FileInv, JournalInv
<1>3. jrnl' = [jrnl EXCEPT ![f] = [there |-> TRUE, hdr |-> TRUE, old |-> V(C, f), tail |-> NoMaster]]
  BY <1>2 DEF OpenJournal, OpenedJournal, Clean
<1>4. jrnl'[f] = [there |-> TRUE, hdr |-> TRUE, old |-> V(C, f), tail |-> NoMaster]
      /\ \A g \in Files \ {f} : jrnl'[g] = jrnl[g]
  BY <1>3 DEF TypeOK
<1>5. ASSUME NEW g \in Files PROVE FileInv(C, g)'
  <2>1. CASE g # f
    BY <1>1, <1>4, <2>1, FileFrame DEF OpenJournal
  <2>2. CASE g = f
    <3>1. V(C, f)' = V(C, f) /\ (Clean(C, f)' <=> Clean(C, f)) /\ (HotDisk(f)' <=> HotDisk(f))
      BY Zenon DEF OpenJournal, V, Clean, HotDisk
    <3>0. jrnl'[f].there /\ jrnl'[f].hdr /\ jrnl'[f].tail = NoMaster /\ jrnl'[f].old = V(C, f)
      BY <1>4
    <3>2. JournalInv(C, f)'
      BY Zenon, <3>0, <3>1 DEF JournalInv, Hot
    <3>3. DiskInv(C, f)'
      BY ZenonT(30), <1>1, <1>2, <1>4, <3>1 DEF FileInv, DiskInv, OpenJournal, Multi
    <3> QED BY Zenon, <2>2, <3>2, <3>3 DEF FileInv
  <2> QED BY <2>1, <2>2
<1>6. ASSUME NEW g \in Files PROVE RecInv(C, g)'
  <2>1. /\ UNCHANGED <<rec, part, txn, held, jrnlDisk, db, dbDisk, mj>>
        /\ pc = "journal" /\ pc' \in {"journal", "active"}
    BY DEF OpenJournal
  <2>2. \A k \in Files : jrnl'[k] = jrnl[k] \/ jrnl'[k].tail \in {NoMaster, txn}
    BY <1>4
  <2>3. g \notin held => jrnl'[g] = jrnl[g]
    BY <1>2, <1>4
  <2> QED BY Zenon, <1>1, <2>1, <2>2, <2>3, WriterRec
<1>7. MasterInv(C)'
  BY DEF OpenJournal, Inv, MasterInv, Multi
<1>8. WriterInv(C)'
  <2>1. \A g \in held : (Hot(g)' <=> g = f \/ Hot(g)) /\ jrnl'[g].tail = NoMaster
    <3>1. \A g \in held : g \in Files /\ jrnl[g].tail = NoMaster
      BY Zenon DEF OpenJournal, Inv, WriterInv, Before, TypeOK
    <3> QED BY <1>2, <1>4, <3>1 DEF Hot
  <2> QED BY Zenon, <1>2, <2>1 DEF OpenJournal, Inv, WriterInv, Before, PhaseOne
<1> QED BY Zenon, <1>5, <1>6, <1>7, <1>8 DEF Inv

\* pagerStress.
LEMMA SpillStep ==
  ASSUME TypeOK, NEW C \in SUBSET Txns, Inv(C), NEW f \in Files, Spill(f)
  PROVE  Inv(C)'
<1> USE DEF dbs, jrnls, mjs, disk, begun, hist, writer, faults
<1>1. PartKept(C) /\ \A g \in Files : FileInv(C, g) /\ RecInv(C, g) /\ ~rec[g].own
  BY ZenonT(30) DEF PartKept, Spill, Inv, RecInv
<1>2. f \in held /\ Hot(f) /\ jrnl[f].tail = NoMaster /\ jrnl[f].old = V(C, f)
  BY Zenon, <1>1 DEF Spill, Inv, WriterInv, Before, FileInv, JournalInv
<1>3. /\ jrnl' = jrnl /\ jrnlDisk'[f] = jrnl[f]
      /\ \A g \in Files \ {f} : jrnlDisk'[g] = jrnlDisk[g] /\ db'[g] = db[g]
  BY DEF Spill, TypeOK
<1>5. ASSUME NEW g \in Files PROVE FileInv(C, g)'
  <2>1. CASE g # f
    BY Zenon, <1>1, <1>3, <2>1, FileFrame DEF Spill
  <2>2. CASE g = f
    <3>1. V(C, f)' = V(C, f) /\ Hot(f)' /\ HotDisk(f)'
      BY Zenon, <1>2, <1>3 DEF Spill, V, Hot, HotDisk
    <3> QED BY Zenon, <1>1, <1>2, <1>3, <2>2, <3>1 DEF FileInv, JournalInv, DiskInv, Hot
  <2> QED BY <2>1, <2>2
<1>6. ASSUME NEW g \in Files PROVE RecInv(C, g)'
  BY Zenon, <1>1, <1>2, <1>3, WriterRec DEF Spill
<1>7. MasterInv(C)'
  BY DEF Spill, Inv, MasterInv, Multi
<1>8. WriterInv(C)'
  <2>1. \A g \in held : (Hot(g)' <=> Hot(g)) /\ jrnlDisk'[g].tail # txn
    <3>1. txn \in Txns
      BY DEF Inv, MasterInv, Spill
    <3> QED BY <1>2, <1>3, <3>1 DEF Hot, Spill, Inv, WriterInv, Before, TypeOK, Txns
  <2> QED BY Zenon, <1>3, <2>1 DEF Spill, Inv, WriterInv, Before, PhaseOne
<1> QED BY <1>5, <1>6, <1>7, <1>8 DEF Inv

\* vdbeCommit gets EXCLUSIVE on every file, or fails.
LEMMA CommitStartStep ==
  ASSUME TypeOK, NEW C \in SUBSET Txns, Inv(C), CommitStart
  PROVE  Inv(C)'
<1> USE DEF dbs, jrnls, mjs, disk, begun, hist, writer, faults
<1>1. PartKept(C) /\ \A g \in Files : FileInv(C, g) /\ RecInv(C, g)
  BY Zenon DEF PartKept, CommitStart, Inv
<1>5. ASSUME NEW g \in Files PROVE FileInv(C, g)'
  BY <1>1, FileFrame DEF CommitStart
<1>6. ASSUME NEW g \in Files PROVE RecInv(C, g)'
  BY Zenon, <1>1, WriterRec DEF CommitStart, Fail
<1>7. MasterInv(C)'
  BY DEF CommitStart, Inv, MasterInv, Multi, Fail
<1>8. WriterInv(C)'
  <2>1. \A g \in held : (Hot(g)' <=> Hot(g))
    BY DEF Hot, CommitStart
  <2>2. (Multi(txn)' <=> Multi(txn)) /\ (~Multi(txn) => Target' = NoMaster)
    BY DEF Multi, CommitStart, Target
  <2> QED BY Zenon, <2>1, <2>2 DEF CommitStart, Fail, Inv, WriterInv, Before, PhaseOne
<1> QED BY <1>5, <1>6, <1>7, <1>8 DEF Inv

\* No journal names the master before CommitPhaseOne.
LEMMA Unnamed ==
  ASSUME TypeOK, NEW C \in SUBSET Txns, Inv(C), pc \in Before
  PROVE  \A g \in Files : jrnl[g].tail # txn /\ jrnlDisk[g].tail # txn
<1> SUFFICES ASSUME NEW g \in Files PROVE jrnl[g].tail # txn /\ jrnlDisk[g].tail # txn
  OBVIOUS
<1>1. txn \in Txns /\ held = part[txn] /\ FileInv(C, g)
  BY Zenon DEF Inv, MasterInv, WriterInv, Before
<1>2. CASE g \in held
  BY <1>1, <1>2 DEF Inv, WriterInv, Txns
<1>3. CASE g \notin held
  BY <1>1, <1>3, NamedIn DEF Txns
<1> QED BY <1>2, <1>3

\* The master journal is created.
LEMMA MasterOpenStep ==
  ASSUME TypeOK, NEW C \in SUBSET Txns, Inv(C), MasterOpen
  PROVE  Inv(C)'
<1> USE DEF dbs, jrnls, mjs, disk, begun, hist, writer, faults
<1>1. PartKept(C) /\ \A g \in Files : FileInv(C, g) /\ RecInv(C, g)
  BY DEF PartKept, MasterOpen, Inv
<1>2. mj \subseteq mj' /\ mj' \subseteq mj \cup {txn} /\ \A g \in Files : jrnl[g].tail # txn
  BY Zenon, Unnamed DEF MasterOpen, Before
<1>5. ASSUME NEW g \in Files PROVE FileInv(C, g)'
  BY <1>1, <1>2, FileFrame DEF MasterOpen
<1>6. ASSUME NEW g \in Files PROVE RecInv(C, g)'
  BY Zenon, <1>1, <1>2, WriterRec DEF MasterOpen, Fail
<1>7. MasterInv(C)'
  <2>1. txn \notin C /\ txn \in Nat
    BY DEF Inv, WriterInv, Before, MasterOpen, TypeOK
  <2> QED BY <1>2, <2>1 DEF MasterOpen, Inv, MasterInv, Multi, Fail, TypeOK, Txns
<1>8. WriterInv(C)'
  <2>1. \A g \in held : (Hot(g)' <=> Hot(g))
    BY DEF Hot, MasterOpen
  <2>2. (Multi(txn)' <=> Multi(txn))
    BY DEF Multi, MasterOpen
  <2> QED BY Zenon, <2>1, <2>2 DEF MasterOpen, Fail, Inv, WriterInv, Before, PhaseOne
<1> QED BY <1>5, <1>6, <1>7, <1>8 DEF Inv

\* The master journal is synced, or deleted: no journal names it yet.
LEMMA MasterSyncStep ==
  ASSUME TypeOK, NEW C \in SUBSET Txns, Inv(C), MasterSync
  PROVE  Inv(C)'
<1> USE DEF dbs, jrnls, mjs, disk, begun, hist, writer, faults
<1>1. PartKept(C) /\ \A g \in Files : FileInv(C, g) /\ RecInv(C, g)
  BY DEF PartKept, MasterSync, Inv
<1>2. \A g \in Files : jrnl[g].tail # txn /\ jrnlDisk[g].tail # txn
  BY Unnamed DEF MasterSync, Before
<1>3. mj \ {txn} \subseteq mj' /\ mj' \subseteq mj /\ mjDisk \subseteq mjDisk'
      /\ mjDisk' \subseteq mjDisk \cup {txn}
  BY DEF MasterSync
<1>5. ASSUME NEW g \in Files PROVE FileInv(C, g)'
  BY <1>1, <1>2, <1>3, FileFrame DEF MasterSync
<1>6. ASSUME NEW g \in Files PROVE RecInv(C, g)'
  BY Zenon, <1>1, <1>2, <1>3, WriterRec DEF MasterSync, Fail
<1>7. MasterInv(C)'
  <2>1. txn \notin C /\ txn \in Nat
    BY DEF Inv, WriterInv, Before, MasterSync, TypeOK
  <2> QED BY <1>3, <2>1 DEF MasterSync, Inv, MasterInv, Multi, Fail, TypeOK, Txns
<1>8. WriterInv(C)'
  <2>1. \A g \in held : (Hot(g)' <=> Hot(g))
    BY DEF Hot, MasterSync
  <2>2. (Multi(txn)' <=> Multi(txn))
    BY DEF Multi, MasterSync
  <2> QED BY Zenon, <2>1, <2>2 DEF MasterSync, Fail, Inv, WriterInv, Before, PhaseOne
<1> QED BY <1>5, <1>6, <1>7, <1>8 DEF Inv

\* The name of the master becomes the end of the journal.
LEMMA WriteMasterStep ==
  ASSUME TypeOK, NEW C \in SUBSET Txns, Inv(C), NEW f \in Files, WriteMasterJournal(f)
  PROVE  Inv(C)'
<1> USE DEF dbs, jrnls, mjs, disk, begun, hist, writer, faults
<1>1. PartKept(C) /\ \A g \in Files : FileInv(C, g) /\ RecInv(C, g)
  BY DEF PartKept, WriteMasterJournal, Inv
<1>2. /\ f \in held /\ held = part[txn] /\ f \in todo /\ f \notin cur /\ cur = {}
      /\ Hot(f) /\ jrnl[f].tail = NoMaster /\ jrnl[f].old = V(C, f)
      /\ txn \notin C /\ txn \in Txns /\ (Multi(txn) => txn \in mj \cap mjDisk)
  BY <1>1 DEF WriteMasterJournal, Inv, WriterInv, MasterInv, PhaseOne, FileInv, JournalInv
<1>3. /\ jrnl'[f].tail = Target /\ jrnl'[f].there /\ jrnl'[f].hdr /\ jrnl'[f].old = jrnl[f].old
      /\ \A g \in Files \ {f} : jrnl'[g] = jrnl[g]
  BY <1>2 DEF WriteMasterJournal, TypeOK, Journals, Target, Hot
<1>4. (Multi(txn)' <=> Multi(txn)) /\ Target' = Target /\ Target \in {NoMaster, txn}
  BY DEF WriteMasterJournal, Multi, Target
<1>5. ASSUME NEW g \in Files PROVE FileInv(C, g)'
  <2>1. CASE g # f
    BY <1>1, <1>3, <2>1, FileFrame DEF WriteMasterJournal
  <2>2. CASE g = f
    <3>1. /\ V(C, f)' = V(C, f) /\ (Clean(C, f)' <=> Clean(C, f)) /\ Hot(f)'
          /\ (HotDisk(f)' <=> HotDisk(f)) /\ \A t \in Txns : Multi(t)' <=> Multi(t)
      BY <1>3 DEF WriteMasterJournal, V, Clean, Hot, HotDisk, Multi
    <3>2. JournalInv(C, f)'
      BY <1>2, <1>3, <1>4, <3>1 DEF JournalInv, Target, WriteMasterJournal
    <3>3. DiskInv(C, f)'
      <4>1. jrnlDisk[f].tail \in Txns \cup {NoMaster}
        BY DEF TypeOK, Journals
      <4> QED BY <1>1, <1>2, <3>1, <4>1 DEF FileInv, DiskInv, WriteMasterJournal
    <3> QED BY <2>2, <3>2, <3>3 DEF FileInv
  <2> QED BY <2>1, <2>2
<1>6. ASSUME NEW g \in Files PROVE RecInv(C, g)'
  BY <1>1, <1>2, <1>3, <1>4, WriterRec DEF WriteMasterJournal
<1>7. MasterInv(C)'
  BY DEF WriteMasterJournal, Inv, MasterInv, Multi
<1>8. WriterInv(C)'
  <2>1. /\ \A g \in held : (Hot(g)' <=> Hot(g)) /\ V(C, g)' = V(C, g)
        /\ \A g \in held \ {f} : jrnl'[g] = jrnl[g]
    BY <1>2, <1>3 DEF WriteMasterJournal, Hot, V, TypeOK
  <2>2. \A g \in held \ todo : Done(C, g)'
    BY <1>2, <1>4, <2>1 DEF WriteMasterJournal, Inv, WriterInv, PhaseOne, Done
  <2> QED BY <1>2, <1>3, <1>4, <2>1, <2>2 DEF WriteMasterJournal, Inv, WriterInv, Before, PhaseOne
<1> QED BY <1>5, <1>6, <1>7, <1>8 DEF Inv

\* What is true of the current file of CommitPhaseOne.
LEMMA CurrentFile ==
  ASSUME TypeOK, NEW C \in SUBSET Txns, Inv(C), NEW f \in cur, pc \in PhaseOne
  PROVE  /\ f \in Files /\ f \in held /\ held = part[txn] /\ f \in todo /\ cur = {f}
         /\ todo \subseteq held /\ pc # "phaseone"
         /\ Hot(f) /\ jrnl[f].tail = Target /\ jrnl[f].old = V(C, f)
         /\ pc \in {"writedb", "syncdb"} => jrnlDisk[f] = jrnl[f]
         /\ txn \notin C /\ txn \in Txns /\ (Multi(txn) => txn \in mj \cap mjDisk)
         /\ Target \in {NoMaster, txn} /\ (Target = NoMaster <=> ~Multi(txn))
<1>1. /\ f \in held /\ held = part[txn] /\ f \in todo /\ cur = {f} /\ todo \subseteq held
      /\ Hot(f) /\ jrnl[f].tail = Target
      /\ pc \in {"writedb", "syncdb"} => jrnlDisk[f] = jrnl[f]
      /\ txn \notin C /\ txn \in Txns /\ (Multi(txn) => txn \in mj \cap mjDisk) /\ pc # "phaseone"
  BY DEF Inv, WriterInv, MasterInv, PhaseOne
<1>2. Target \in {NoMaster, txn} /\ (Target = NoMaster <=> ~Multi(txn))
  BY <1>1 DEF Target, Txns
<1>3. f \in Files /\ FileInv(C, f)
  BY <1>1 DEF TypeOK, Inv
<1> QED BY Zenon, <1>1, <1>2, <1>3 DEF FileInv, JournalInv

\* A journal that is synced and restores the committed content leaves the
\* database file free.
LEMMA Restorable ==
  ASSUME TypeOK, NEW C \in SUBSET Txns, NEW f \in Files, UNCHANGED <<part, mj, mjDisk>>,
         jrnl'[f] = jrnl[f], jrnlDisk'[f] = jrnl[f], Hot(f), jrnl[f].old = V(C, f),
         jrnl[f].tail # NoMaster =>
           /\ jrnl[f].tail \notin C /\ f \in part[jrnl[f].tail] /\ Multi(jrnl[f].tail)
           /\ jrnl[f].tail \in mj \cap mjDisk
  PROVE  FileInv(C, f)'
<1>1. V(C, f)' = V(C, f) /\ Hot(f)' /\ HotDisk(f)' /\ \A t \in Txns : Multi(t)' <=> Multi(t)
  BY Zenon DEF V, Hot, HotDisk, Multi
<1> QED BY Zenon, <1>1 DEF FileInv, JournalInv, DiskInv, TypeOK, Journals, Hot

\* CommitPhaseOne syncs the journal of a file.
LEMMA SyncJournalStep ==
  ASSUME TypeOK, NEW C \in SUBSET Txns, Inv(C), NEW f \in Files, SyncJournal(f)
  PROVE  Inv(C)'
<1> USE DEF dbs, jrnls, mjs, disk, begun, hist, writer, faults
<1>1. PartKept(C) /\ \A g \in Files : FileInv(C, g) /\ RecInv(C, g)
  BY Zenon DEF PartKept, SyncJournal, Inv
<1>2. /\ f \in held /\ held = part[txn] /\ f \in todo /\ cur = {f} /\ todo \subseteq held
      /\ Hot(f) /\ jrnl[f].tail = Target /\ jrnl[f].old = V(C, f)
      /\ txn \notin C /\ txn \in Txns /\ (Multi(txn) => txn \in mj \cap mjDisk)
      /\ Target \in {NoMaster, txn} /\ (Target = NoMaster <=> ~Multi(txn))
  BY Zenon, CurrentFile DEF SyncJournal, PhaseOne
<1>3. /\ jrnl' = jrnl /\ jrnlDisk'[f] = jrnl[f]
      /\ \A g \in Files \ {f} : jrnlDisk'[g] = jrnlDisk[g]
  BY DEF SyncJournal, TypeOK
<1>5. ASSUME NEW g \in Files PROVE FileInv(C, g)'
  <2>1. CASE g # f
    BY Zenon, <1>1, <1>3, <2>1, FileFrame DEF SyncJournal
  <2>2. CASE g = f
    BY Zenon, <1>2, <1>3, <2>2, Restorable DEF SyncJournal
  <2> QED BY <2>1, <2>2
<1>6. ASSUME NEW g \in Files PROVE RecInv(C, g)'
  BY Zenon, <1>1, <1>2, <1>3, WriterRec DEF SyncJournal
<1>7. MasterInv(C)'
  BY Zenon DEF SyncJournal, Inv, MasterInv, Multi
<1>8. WriterInv(C)'
  <2>1. /\ \A g \in held : (Hot(g)' <=> Hot(g)) /\ V(C, g)' = V(C, g)
        /\ \A g \in held \ {f} : jrnlDisk'[g] = jrnlDisk[g]
        /\ (Multi(txn)' <=> Multi(txn)) /\ Target' = Target
    BY Zenon, <1>2, <1>3 DEF SyncJournal, Hot, V, TypeOK, Multi, Target
  <2>2. \A g \in held \ todo : Done(C, g)'
    BY ZenonT(30), <1>2, <2>1 DEF SyncJournal, Inv, WriterInv, PhaseOne, Done
  <2> QED BY ZenonT(30), <1>2, <1>3, <2>1, <2>2 DEF SyncJournal, Inv, WriterInv, Before, PhaseOne
<1> QED BY <1>5, <1>6, <1>7, <1>8 DEF Inv

\* CommitPhaseOne writes the pages of a file, whose journal is on disk.
LEMMA WriteDbStep ==
  ASSUME TypeOK, NEW C \in SUBSET Txns, Inv(C), NEW f \in Files, WriteDb(f)
  PROVE  Inv(C)'
<1> USE DEF dbs, jrnls, mjs, disk, begun, hist, writer, faults
<1>1. PartKept(C) /\ \A g \in Files : FileInv(C, g) /\ RecInv(C, g)
  BY Zenon DEF PartKept, WriteDb, Inv
<1>2. /\ f \in held /\ held = part[txn] /\ f \in todo /\ cur = {f} /\ todo \subseteq held
      /\ Hot(f) /\ jrnl[f].tail = Target /\ jrnl[f].old = V(C, f) /\ jrnlDisk[f] = jrnl[f]
      /\ txn \notin C /\ txn \in Txns /\ (Multi(txn) => txn \in mj \cap mjDisk)
      /\ Target \in {NoMaster, txn} /\ (Target = NoMaster <=> ~Multi(txn))
  BY Zenon, CurrentFile DEF WriteDb, PhaseOne
<1>3. \A g \in Files \ {f} : db'[g] = db[g]
  BY DEF WriteDb, TypeOK
<1>5. ASSUME NEW g \in Files PROVE FileInv(C, g)'
  <2>1. CASE g # f
    BY Zenon, <1>1, <1>3, <2>1, FileFrame DEF WriteDb
  <2>2. CASE g = f
    BY Zenon, <1>2, <1>3, <2>2, Restorable DEF WriteDb
  <2> QED BY <2>1, <2>2
<1>6. ASSUME NEW g \in Files PROVE RecInv(C, g)'
  BY Zenon, <1>1, <1>2, <1>3, WriterRec DEF WriteDb
<1>7. MasterInv(C)'
  BY Zenon DEF WriteDb, Inv, MasterInv, Multi
<1>8. WriterInv(C)'
  <2>1. /\ \A g \in held : (Hot(g)' <=> Hot(g)) /\ V(C, g)' = V(C, g)
        /\ \A g \in held \ {f} : db'[g] = db[g]
        /\ (Multi(txn)' <=> Multi(txn)) /\ Target' = Target
    BY Zenon, <1>2, <1>3 DEF WriteDb, Hot, V, TypeOK, Multi, Target
  <2>2. \A g \in held \ todo : Done(C, g)'
    BY ZenonT(30), <1>2, <2>1 DEF WriteDb, Inv, WriterInv, PhaseOne, Done
  <2> QED BY ZenonT(30), <1>2, <2>1, <2>2 DEF WriteDb, Inv, WriterInv, Before, PhaseOne
<1> QED BY <1>5, <1>6, <1>7, <1>8 DEF Inv

\* CommitPhaseOne syncs the database file.
LEMMA SyncDbStep ==
  ASSUME TypeOK, NEW C \in SUBSET Txns, Inv(C), NEW f \in Files, SyncDb(f)
  PROVE  Inv(C)'
<1> USE DEF dbs, jrnls, mjs, disk, begun, hist, writer, faults
<1>1. PartKept(C) /\ \A g \in Files : FileInv(C, g) /\ RecInv(C, g)
  BY Zenon DEF PartKept, SyncDb, Inv
<1>2. /\ f \in held /\ held = part[txn] /\ f \in todo /\ cur = {f} /\ todo \subseteq held
      /\ Hot(f) /\ jrnl[f].tail = Target /\ jrnl[f].old = V(C, f) /\ jrnlDisk[f] = jrnl[f]
      /\ txn \notin C /\ txn \in Txns /\ (Multi(txn) => txn \in mj \cap mjDisk)
      /\ Target \in {NoMaster, txn} /\ (Target = NoMaster <=> ~Multi(txn))
  BY Zenon, CurrentFile DEF SyncDb, PhaseOne
<1>3. /\ db'[f] = V(C, f) \cup {txn} /\ dbDisk'[f] = V(C, f) \cup {txn}
      /\ \A g \in Files \ {f} : db'[g] = db[g] /\ dbDisk'[g] = dbDisk[g]
  BY <1>2 DEF SyncDb, TypeOK
<1>5. ASSUME NEW g \in Files PROVE FileInv(C, g)'
  <2>1. CASE g # f
    BY Zenon, <1>1, <1>3, <2>1, FileFrame DEF SyncDb
  <2>2. CASE g = f
    BY Zenon, <1>2, <1>3, <2>2, Restorable DEF SyncDb
  <2> QED BY <2>1, <2>2
<1>6. ASSUME NEW g \in Files PROVE RecInv(C, g)'
  BY Zenon, <1>1, <1>2, <1>3, WriterRec DEF SyncDb
<1>7. MasterInv(C)'
  BY Zenon DEF SyncDb, Inv, MasterInv, Multi
<1>8. WriterInv(C)'
  <2>1. /\ \A g \in held : (Hot(g)' <=> Hot(g)) /\ V(C, g)' = V(C, g)
        /\ \A g \in held \ {f} : db'[g] = db[g] /\ dbDisk'[g] = dbDisk[g]
        /\ (Multi(txn)' <=> Multi(txn)) /\ Target' = Target
    BY ZenonT(30), <1>2, <1>3 DEF SyncDb, Hot, V, TypeOK, Multi, Target
  <2>2. \A g \in held \ todo : Done(C, g)
    BY Zenon DEF SyncDb, Inv, WriterInv, PhaseOne
  <2>3. todo' = todo \ {f} /\ UNCHANGED <<jrnl, jrnlDisk, txn>>
    BY Zenon DEF SyncDb
  <2>4. \A g \in held \ todo' : Done(C, g)'
    <3>1. Done(C, f)'
      BY Zenon, <1>2, <1>3, <2>1, <2>3 DEF Done
    <3>2. ASSUME NEW g \in held \ todo, g # f PROVE Done(C, g)'
      BY <2>1, <2>2, <2>3, <3>2 DEF Done
    <3> QED BY Zenon, <1>2, <2>3, <3>1, <3>2
  <2> QED BY ZenonT(30), <1>2, <2>1, <2>4 DEF SyncDb, Inv, WriterInv, Before, PhaseOne
<1> QED BY <1>5, <1>6, <1>7, <1>8 DEF Inv
=============================================================================
