----------------------------- MODULE MultiFile -----------------------------
(***************************************************************************)
(* The commit of a transaction that writes several database files:         *)
(* vdbeCommit of vdbeaux.go with its master journal, and the parts of      *)
(* btree/pager.go that give the master journal its meaning (the name at    *)
(* the end of every journal, the playback that looks for it, the deletion  *)
(* of a master no journal names any more).                                 *)
(*                                                                         *)
(* A writer and, on every file, a connection that recovers a hot journal   *)
(* run concurrently; each may fail or die between two I/O calls, and the   *)
(* machine may lose power.  Every file has the content the operating       *)
(* system shows and the content that is on disk.  The content of a         *)
(* database is the set of transactions it includes; a journal is its       *)
(* header byte, the content it restores and the master name its last bytes *)
(* hold.  The locks of module UnixLock appear as who owns a file.          *)
(***************************************************************************)
EXTENDS Naturals

CONSTANTS Files,         \* the database files attached to the connections
          MaxTxn,        \* bound on the transactions
          MaxCrash,      \* bound on the deaths of the writer and power losses
          WriterModes,   \* journal modes of the writing connections
          RecoverModes,  \* journal modes of the connections that find a hot journal
          UnlinkLost     \* may power loss undo the unlink of a master whose writer
                         \* died or failed before it synced the directory

ASSUME ModesAssumption ==
  /\ WriterModes \subseteq {"delete", "truncate", "persist"}
  /\ RecoverModes \subseteq {"delete", "truncate", "persist"}

ASSUME BoundAssumption == MaxTxn \in Nat /\ MaxCrash \in Nat

VARIABLES db, dbDisk,       \* file -> content, as the system shows it and on disk
          jrnl, jrnlDisk,   \* file -> its journal, likewise
          mj, mjDisk,       \* the master journals that exist, likewise
          part,             \* transaction -> the files it writes
          txn,              \* the last transaction begun
          mode,             \* the journal mode of the writer
          pc, cur, todo,    \* where the writer is, its current file, the files left to visit
          held,             \* the files on which the writer has RESERVED or more
          rec,              \* file -> the playback running on it
          acked,            \* history: the transactions whose commit returned SQLITE_OK
          crashes, power    \* deaths so far; whether power was lost

dbs == <<db, dbDisk>>
jrnls == <<jrnl, jrnlDisk>>
mjs == <<mj, mjDisk>>
disk == <<dbs, jrnls, mjs>>
begun == <<part, txn, mode>>
hist == acked
writer == <<begun, pc, cur, todo, held, hist>>
faults == <<crashes, power>>
vars == <<disk, writer, rec, faults>>

Txns == 1..MaxTxn

\* A database file that was only partly written; never the content of a
\* sequence of whole transactions, whose numbers start at 1.
Torn == {0}

NoMaster == 0
NoJournal == [there |-> FALSE, hdr |-> FALSE, old |-> {}, tail |-> NoMaster]
EmptyJournal == [NoJournal EXCEPT !.there = TRUE]

Idle == [st |-> "idle", res |-> FALSE, m |-> "delete", off |-> FALSE, own |-> FALSE,
         master |-> NoMaster, kids |-> {}]

\* hasHotJournal: the journal exists and its first byte is not zero.
Hot(f) == jrnl[f].there /\ jrnl[f].hdr

\* The test at the start of pager_playback: the journal names no master, or
\* one that exists.
MasterSaysPlay(f) == jrnl[f].tail = NoMaster \/ jrnl[f].tail \in mj

\* nTrans > 1: the transaction needs a master journal.
Multi(t) == \E f, g \in part[t] : f # g

\* vdbeCommit and Halt visit the files in the order of db.Databases.
First(fs) == CHOOSE f \in fs : TRUE

\* The content the next connection to open the file will read.
Outcome(f) == IF Hot(f) /\ MasterSaysPlay(f) THEN jrnl[f].old ELSE db[f]

-----------------------------------------------------------------------------
(* Effects on the file system.                                             *)

\* pager_open_journal and the records that follow: the header and the content
\* to restore.  The file is not truncated, so what a persistent journal held
\* past the new records stays the end of the file; longer says that the new
\* records cover it.
OpenedJournal(f, longer) ==
  [there |-> TRUE, hdr |-> TRUE, old |-> db[f],
   tail |-> IF longer THEN NoMaster ELSE jrnl[f].tail]

\* zeroJournalHdr: nothing when this transaction wrote nothing to the journal.
ZeroedJournal(j, doTruncate, off) ==
  IF ~off THEN j
  ELSE IF doTruncate THEN EmptyJournal
  ELSE [j EXCEPT !.hdr = FALSE, !.old = {}]

\* Mutant: a journal that was not played back is left in every mode.
MutFinalizedKeeps(j, m, hasMaster, off) ==
  IF ~off THEN j ELSE IF m = "delete" THEN NoJournal ELSE EmptyJournal

\* The journal pager_end_transaction leaves, by journal mode; off says that
\* journalOff is not zero.
Finalized(j, m, hasMaster, off) ==
  CASE m = "delete" -> NoJournal
    [] m = "truncate" -> IF off THEN EmptyJournal ELSE j
    [] m = "persist" -> ZeroedJournal(j, hasMaster, off)

\* Only PERSIST syncs the journal it finalizes.
EndTransaction(f, m, hasMaster, off) ==
  LET j == Finalized(jrnl[f], m, hasMaster, off)
  IN /\ jrnl' = [jrnl EXCEPT ![f] = j]
     /\ jrnlDisk' = IF m = "persist" THEN [jrnlDisk EXCEPT ![f] = j] ELSE jrnlDisk

-----------------------------------------------------------------------------
Init ==
  /\ db = [f \in Files |-> {}] /\ dbDisk = db
  /\ jrnl = [f \in Files |-> NoJournal] /\ jrnlDisk = jrnl
  /\ mj = {} /\ mjDisk = {}
  /\ part = [t \in Txns |-> {}] /\ txn = 0 /\ mode = "delete"
  /\ pc = "idle" /\ cur = {} /\ todo = {} /\ held = {}
  /\ rec = [f \in Files |-> Idle]
  /\ acked = {} /\ crashes = 0 /\ power = FALSE

-----------------------------------------------------------------------------
(* The writer.                                                             *)

\* A connection takes SHARED on a file only when it finds no hot journal, or
\* after the playback of one.  A journal whose master is gone is not played
\* back, and TRUNCATE and PERSIST then leave it as it is.
CanRead(f, m) ==
  /\ rec[f].st \in {"idle", "delmaster", "kids"}
  /\ \/ ~Hot(f)
     \/ ~MasterSaysPlay(f) /\ m \in RecoverModes \ {"delete"}

\* sqlite3PagerBegin on every file the transaction writes.
Begin(fs, m) ==
  /\ pc = "idle" /\ txn < MaxTxn
  /\ fs # {} /\ \A f \in fs : CanRead(f, m)
  /\ txn' = txn + 1
  /\ part' = [part EXCEPT ![txn + 1] = fs]
  /\ mode' = m /\ held' = fs /\ todo' = fs /\ pc' = "journal"
  /\ UNCHANGED <<disk, cur, hist, rec, faults>>

\* The first page written to a file opens its journal.
OpenJournal(f, longer) ==
  /\ pc = "journal" /\ f \in todo
  /\ jrnl' = [jrnl EXCEPT ![f] = OpenedJournal(f, longer)]
  /\ todo' = todo \ {f}
  /\ pc' = IF todo = {f} THEN "active" ELSE pc
  /\ UNCHANGED <<dbs, jrnlDisk, mjs, begun, cur, held, hist, rec, faults>>

\* pagerStress: the journal is synced, then pages are written to the database.
Spill(f) ==
  /\ pc = "active" /\ f \in held /\ rec[f].st = "idle"
  /\ db[f] # Torn
  /\ jrnlDisk' = [jrnlDisk EXCEPT ![f] = jrnl[f]]
  /\ db' = [db EXCEPT ![f] = Torn]
  /\ UNCHANGED <<dbDisk, jrnl, mjs, writer, rec, faults>>

\* vdbeCommit returns an error, and Halt rolls back every file.
Fail == pc' = "rollback" /\ todo' = {} /\ cur' = {}

\* vdbeCommit up to the choice of the case: the EXCLUSIVE lock on every file,
\* which no reader may share, and the commit hook, which may refuse.
CommitStart ==
  /\ pc = "active"
  /\ \A f \in held : rec[f].st = "idle"
  /\ \/ pc' = (IF Multi(txn) THEN "mjopen" ELSE "phaseone") /\ todo' = held /\ UNCHANGED cur
     \/ Fail
  /\ UNCHANGED <<disk, begun, held, hist, rec, faults>>

\* The master is opened under a name no file has, and the names of the
\* journals are written into it.
MasterOpen ==
  /\ pc = "mjopen"
  /\ \/ mj' = mj \cup {txn} /\ pc' = "mjsync" /\ UNCHANGED <<todo, cur>>
     \/ mj' = mj /\ Fail
  /\ UNCHANGED <<dbs, jrnls, mjDisk, begun, held, hist, rec, faults>>

\* Sync it; on an error close and delete it.
MasterSync ==
  /\ pc = "mjsync"
  /\ \/ mjDisk' = mjDisk \cup {txn} /\ mj' = mj /\ pc' = "phaseone" /\ UNCHANGED <<todo, cur>>
     \/ mjDisk' = mjDisk /\ mj' = mj \ {txn} /\ Fail
  /\ UNCHANGED <<dbs, jrnls, begun, held, hist, rec, faults>>

\* writeMasterJournal, a no-op without a master.  The file is truncated after
\* the name, so the name is the end of the file.
WriteMasterJournal(f) ==
  /\ pc = "phaseone" /\ f \in todo /\ f = First(todo)
  /\ jrnl' = [jrnl EXCEPT ![f].tail = IF Multi(txn) THEN txn ELSE @]
  /\ cur' = {f} /\ pc' = "syncjrnl"
  /\ UNCHANGED <<dbs, jrnlDisk, mjs, begun, todo, held, hist, rec, faults>>

SyncJournal(f) ==
  /\ pc = "syncjrnl" /\ f \in cur
  /\ jrnlDisk' = [jrnlDisk EXCEPT ![f] = jrnl[f]]
  /\ pc' = "writedb"
  /\ UNCHANGED <<dbs, jrnl, mjs, begun, cur, todo, held, hist, rec, faults>>

\* pager_write_pagelist and pager_truncate.
WriteDb(f) ==
  /\ pc = "writedb" /\ f \in cur
  /\ db' = [db EXCEPT ![f] = Torn]
  /\ pc' = "syncdb"
  /\ UNCHANGED <<dbDisk, jrnls, mjs, begun, cur, todo, held, hist, rec, faults>>

\* Mutant: the journals are finalized without deleting the master.
MutSyncDbNoMaster(f) ==
  /\ pc = "syncdb" /\ f \in cur
  /\ db' = [db EXCEPT ![f] = jrnl[f].old \cup {txn}]
  /\ dbDisk' = [dbDisk EXCEPT ![f] = jrnl[f].old \cup {txn}]
  /\ cur' = {} /\ todo' = todo \ {f}
  /\ pc' = IF todo # {f} THEN "phaseone" ELSE "phasetwo"
  /\ UNCHANGED <<jrnls, mjs, begun, held, hist, rec, faults>>

\* The last write and sqlite3PagerSync end CommitPhaseOne of the file.
SyncDb(f) ==
  /\ pc = "syncdb" /\ f \in cur
  /\ db' = [db EXCEPT ![f] = jrnl[f].old \cup {txn}]
  /\ dbDisk' = [dbDisk EXCEPT ![f] = jrnl[f].old \cup {txn}]
  /\ cur' = {} /\ todo' = todo \ {f}
  /\ pc' = IF todo # {f} THEN "phaseone" ELSE IF Multi(txn) THEN "mjdelete" ELSE "phasetwo"
  /\ UNCHANGED <<jrnls, mjs, begun, held, hist, rec, faults>>

\* An I/O error in CommitPhaseOne.  The master is not deleted.
PhaseOneError ==
  /\ pc \in {"phaseone", "syncjrnl", "writedb", "syncdb"}
  /\ Fail
  /\ UNCHANGED <<disk, begun, held, hist, rec, faults>>

\* The writer stops with the directory not synced: the unlink of its master, if
\* it was done, reaches the disk on its own unless UnlinkLost.
LateUnlink == mjDisk' = IF pc = "mjdirsync" /\ ~UnlinkLost THEN mjDisk \ {txn} ELSE mjDisk

\* sqlite3OsDelete of the master unlinks it and then syncs the directory; an
\* error of either is the error of the commit.
MasterDelete ==
  /\ pc = "mjdelete"
  /\ \/ mj' = mj \ {txn} /\ pc' = "mjdirsync" /\ UNCHANGED <<todo, cur>>
     \/ UNCHANGED mj /\ Fail
  /\ UNCHANGED <<dbs, jrnls, mjDisk, begun, held, acked, rec, faults>>

\* Mutant: the directory is not synced after the unlink.
MutMasterDirSyncSkipped ==
  /\ pc = "mjdirsync" /\ pc' = "phasetwo"
  /\ UNCHANGED <<disk, begun, todo, cur, held, hist, rec, faults>>

MasterDirSync ==
  /\ pc = "mjdirsync"
  /\ \/ mjDisk' = mjDisk \ {txn} /\ pc' = "phasetwo" /\ UNCHANGED <<todo, cur>>
     \/ LateUnlink /\ Fail
  /\ UNCHANGED <<dbs, jrnls, mj, begun, held, hist, rec, faults>>

\* CommitPhaseTwo: pager_end_transaction with setMaster.  An error puts the
\* pager in its error state, and the file is unlocked; it is the error of the
\* commit only when there is no master.
CommitPhaseTwo(f, ok) ==
  /\ pc = "phasetwo" /\ f \in held /\ f = First(held)
  /\ IF ok THEN EndTransaction(f, mode, Multi(txn), TRUE)
           ELSE UNCHANGED <<jrnls>>
  /\ held' = held \ {f}
  /\ pc' = IF held = {f} THEN "idle" ELSE pc
  /\ acked' = IF held = {f} /\ (ok \/ Multi(txn)) THEN acked \cup {txn} ELSE acked
  /\ UNCHANGED <<dbs, mjs, begun, cur, todo, rec, faults>>

-----------------------------------------------------------------------------
(* pager_playback, by the writer that rolls back and by a connection that  *)
(* found a hot journal.                                                    *)

\* The state of a playback when it has looked for the master.  rec.master is
\* the name in the journal, res whether the playback is to be done.
Started(f, m, own) ==
  [st |-> IF MasterSaysPlay(f) THEN "play" ELSE "end", res |-> MasterSaysPlay(f),
   m |-> m, off |-> own \/ MasterSaysPlay(f), own |-> own, master |-> jrnl[f].tail, kids |-> {}]

\* sqlite3PagerSharedLock finds a hot journal and gets EXCLUSIVE; the journal
\* is synced before it is played back.
Recover(f, m) ==
  /\ Hot(f) /\ f \notin held /\ rec[f].st = "idle"
  /\ jrnlDisk' = [jrnlDisk EXCEPT ![f] = jrnl[f]]
  /\ rec' = [rec EXCEPT ![f] = Started(f, m, FALSE)]
  /\ UNCHANGED <<dbs, jrnl, mjs, writer, faults>>

\* sqlite3PagerRollback of one file after another.
Rollback(f) ==
  /\ pc = "rollback" /\ f \in held /\ f = First(held) /\ \A g \in Files : ~rec[g].own
  /\ rec' = [rec EXCEPT ![f] = Started(f, mode, TRUE)]
  /\ UNCHANGED <<disk, writer, faults>>

\* The playback is over for file f; the writer is idle after its last file.
Release(f) ==
  /\ held' = IF rec[f].own THEN held \ {f} ELSE held
  /\ pc' = IF rec[f].own /\ held = {f} THEN "idle" ELSE pc

\* pager_playback_one_page for the records of the journal.  A rollback of
\* pages that never left the cache (eState < PAGER_WRITER_DBMOD) does not touch
\* the database file.
PlayPages(f) ==
  /\ rec[f].st = "play"
  /\ db' = [db EXCEPT ![f] = IF rec[f].own /\ @ = jrnl[f].old THEN @ ELSE Torn]
  /\ rec' = [rec EXCEPT ![f].st = "sync"]
  /\ UNCHANGED <<dbDisk, jrnls, mjs, writer, faults>>

PlaySync(f) ==
  /\ rec[f].st = "sync"
  /\ db' = [db EXCEPT ![f] = jrnl[f].old]
  /\ dbDisk' = [dbDisk EXCEPT ![f] = jrnl[f].old]
  /\ rec' = [rec EXCEPT ![f].st = "end"]
  /\ UNCHANGED <<jrnls, mjs, writer, faults>>

\* end_playback: finalize the journal, drop to SHARED, and go on to
\* pager_delmaster when a master was named and exists.
PlayEnd(f) ==
  /\ rec[f].st = "end"
  /\ EndTransaction(f, rec[f].m, rec[f].master # NoMaster, rec[f].off)
  /\ LET more == rec[f].master # NoMaster /\ rec[f].res
     IN /\ rec' = [rec EXCEPT ![f] = IF more THEN [@ EXCEPT !.st = "delmaster"] ELSE Idle]
        /\ IF more THEN UNCHANGED <<held, pc>> ELSE Release(f)
  /\ UNCHANGED <<dbs, mjs, begun, cur, todo, hist, faults>>

\* pager_delmaster opens the master and reads the names of the journals in it.
DelMasterOpen(f) ==
  /\ rec[f].st = "delmaster"
  /\ IF rec[f].master \in mj
       THEN rec' = [rec EXCEPT ![f].st = "kids", ![f].kids = part[rec[f].master]]
            /\ UNCHANGED <<held, pc>>
       ELSE rec' = [rec EXCEPT ![f] = Idle] /\ Release(f)
  /\ UNCHANGED <<disk, begun, cur, todo, hist, faults>>

\* Mutant: the master is deleted although another journal still names it.
MutDelMasterUnchecked(f, k) ==
  /\ rec[f].st = "kids" /\ k \in rec[f].kids
  /\ rec' = [rec EXCEPT ![f].kids = @ \ {k}]
  /\ UNCHANGED <<disk, begun, held, pc, cur, todo, hist, faults>>

\* It looks at one journal after another, and keeps the master as soon as one
\* of them names it.
DelMasterCheck(f, k) ==
  /\ rec[f].st = "kids" /\ k \in rec[f].kids
  /\ IF jrnl[k].there /\ jrnl[k].tail = rec[f].master
       THEN rec' = [rec EXCEPT ![f] = Idle] /\ Release(f)
       ELSE rec' = [rec EXCEPT ![f].kids = @ \ {k}] /\ UNCHANGED <<held, pc>>
  /\ UNCHANGED <<disk, begun, cur, todo, hist, faults>>

\* No journal names it: delete it, without syncing the directory.
DelMasterDelete(f) ==
  /\ rec[f].st = "kids" /\ rec[f].kids = {}
  /\ mj' = mj \ {rec[f].master}
  /\ rec' = [rec EXCEPT ![f] = Idle] /\ Release(f)
  /\ UNCHANGED <<dbs, jrnls, mjDisk, begun, cur, todo, hist, faults>>

\* An I/O error in the playback, or the death of the recovering process: the
\* file is unlocked as it is.
PlayAbandon(f) ==
  /\ rec[f].st # "idle" /\ crashes < MaxCrash
  /\ rec' = [rec EXCEPT ![f] = Idle] /\ Release(f)
  /\ crashes' = crashes + 1
  /\ UNCHANGED <<disk, begun, cur, todo, hist, power>>

-----------------------------------------------------------------------------
(* Failures.                                                               *)

WriterGone == pc' = "idle" /\ cur' = {} /\ todo' = {} /\ held' = {}

\* The writing process dies; its locks go with it.
Crash ==
  /\ pc # "idle" /\ crashes < MaxCrash
  /\ crashes' = crashes + 1
  /\ WriterGone
  /\ LateUnlink
  /\ rec' = [f \in Files |-> IF rec[f].own THEN Idle ELSE rec[f]]
  /\ UNCHANGED <<dbs, jrnls, mj, begun, hist, power>>

\* The machine loses power: every file is left with what was on disk or with
\* what the system had, and a database of which the two differ is torn.
PowerLoss ==
  /\ crashes < MaxCrash
  /\ crashes' = crashes + 1 /\ power' = TRUE
  /\ WriterGone
  /\ rec' = [f \in Files |-> Idle]
  /\ db' = [f \in Files |-> IF db[f] = dbDisk[f] THEN db[f] ELSE Torn] /\ dbDisk' = db'
  /\ \E kept \in SUBSET Files :
       jrnl' = [f \in Files |-> IF f \in kept THEN jrnl[f] ELSE jrnlDisk[f]]
  /\ jrnlDisk' = jrnl'
  /\ \E m \in SUBSET (mj \cup mjDisk) : mj \cap mjDisk \subseteq m /\ mj' = m
  /\ mjDisk' = mj'
  /\ UNCHANGED <<begun, acked>>

-----------------------------------------------------------------------------
WriterStep ==
  \/ \E f \in Files, longer \in BOOLEAN : OpenJournal(f, longer)
  \/ \E f \in Files : WriteMasterJournal(f) \/ SyncJournal(f) \/ WriteDb(f) \/ SyncDb(f)
  \/ CommitStart \/ MasterOpen \/ MasterSync \/ MasterDelete \/ MasterDirSync
  \/ \E f \in Files, ok \in BOOLEAN : CommitPhaseTwo(f, ok)
  \/ \E f \in Files : Rollback(f)

PlayStep(f) ==
  \/ PlayPages(f) \/ PlaySync(f) \/ PlayEnd(f) \/ DelMasterOpen(f) \/ DelMasterDelete(f)
  \/ \E k \in Files : DelMasterCheck(f, k)

Next ==
  \/ \E fs \in SUBSET Files, m \in WriterModes : Begin(fs, m)
  \/ \E f \in Files : Spill(f)
  \/ WriterStep
  \/ PhaseOneError
  \/ \E f \in Files, m \in RecoverModes : Recover(f, m)
  \/ \E f \in Files : PlayStep(f) \/ PlayAbandon(f)
  \/ Crash
  \/ PowerLoss

Spec == Init /\ [][Next]_vars

\* A connection that runs goes on, and somebody reads a file with a hot
\* journal sooner or later.
FairSpec ==
  /\ Spec
  /\ WF_vars(WriterStep)
  /\ \A f \in Files : WF_vars(PlayStep(f) \/ \E m \in RecoverModes : Recover(f, m))

-----------------------------------------------------------------------------
Contents == (SUBSET Txns) \cup {Torn}
Journals == [there : BOOLEAN, hdr : BOOLEAN, old : Contents, tail : Txns \cup {NoMaster}]

Playbacks ==
  [st : {"idle", "play", "sync", "end", "delmaster", "kids"}, res : BOOLEAN,
   m : {"delete", "truncate", "persist"}, off : BOOLEAN, own : BOOLEAN,
   master : Txns \cup {NoMaster}, kids : SUBSET Files]

\* Types of the variables.
TypeOK ==
  /\ db \in [Files -> Contents] /\ dbDisk \in [Files -> Contents]
  /\ jrnl \in [Files -> Journals] /\ jrnlDisk \in [Files -> Journals]
  /\ mj \subseteq Txns /\ mjDisk \subseteq Txns
  /\ part \in [Txns -> SUBSET Files] /\ txn \in 0..MaxTxn
  /\ mode \in {"delete", "truncate", "persist"}
  /\ pc \in {"idle", "journal", "active", "mjopen", "mjsync", "phaseone", "syncjrnl", "writedb",
              "syncdb", "mjdelete", "mjdirsync", "phasetwo", "rollback"}
  /\ cur \subseteq Files /\ todo \subseteq Files /\ held \subseteq Files
  /\ rec \in [Files -> Playbacks]
  /\ acked \subseteq Txns /\ crashes \in 0..MaxCrash /\ power \in BOOLEAN

\* Whatever step the writer, the recovering connections or the machine stopped
\* at, the next connections find a transaction in all of its files or in none
\* ("ensure the transaction is committed atomicly").
AllOrNone ==
  \A t \in Txns : \A f, g \in part[t] : t \in Outcome(f) <=> t \in Outcome(g)

\* No journal that is needed is ever taken for one that is not: a database
\* file that was only partly written can always be restored.
NeverTorn == \A f \in Files : Outcome(f) # Torn

\* A transaction whose commit returned SQLITE_OK is in its files from then on.
\* The deletion of a single journal is not synced, so power loss may undo a
\* transaction of one file.
Durable ==
  \A t \in acked : (Multi(t) \/ ~power) => \A f \in part[t] : t \in Outcome(f)

\* The commit implements the atomic one, file contents read as Outcome.
Atomic == INSTANCE AtomicCommit WITH value <- [f \in Files |-> Outcome(f)]
RefinesAtomicCommit == Atomic!Spec

\* A hot journal does not stay: its writer commits or rolls back, or the next
\* connection deals with it.
HotResolved == \A f \in Files : []<>~Hot(f)
=============================================================================
