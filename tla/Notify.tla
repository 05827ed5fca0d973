------------------------------- MODULE Notify -------------------------------
(***************************************************************************)
(* Unlock notification between the connections of a process that share a   *)
(* cache (notify.go).  Every function runs under the STATIC_MASTER mutex   *)
(* and is one step.  The transactions are those of btree.go and vdbeaux.go *)
(* as far as they call notify.go: a connection is blocked by one that holds *)
(* locks, and one that has released its locks calls ConnectionUnlocked     *)
(* some time later.                                                        *)
(***************************************************************************)
EXTENDS Integers, Sequences

CONSTANTS Conns, Callbacks, NoConn, NoCallback

ASSUME NotifyAssumption == NoConn \notin Conns /\ NoCallback \notin Callbacks

VARIABLES sqlite3BlockedList,   \* connections in list order
          pBlockingConnection, pUnlockConnection, xUnlockNotify,
          phase,      \* of each connection: "idle", "locks", "released"
          panicked    \* a nil callback has been called
notifyVars == <<sqlite3BlockedList, pBlockingConnection, pUnlockConnection, xUnlockNotify>>
vars == <<notifyVars, phase, panicked>>

-----------------------------------------------------------------------------
\* The entries of a list that are in S, in their order, after each of its steps.
KeptSoFar(list, S) ==
  LET kept[n \in 0..Len(list)] ==
        IF n = 0 THEN <<>>
        ELSE IF list[n] \in S THEN Append(kept[n - 1], list[n]) ELSE kept[n - 1]
  IN  kept

Kept(list, S) == KeptSoFar(list, S)[Len(list)]

removeFromBlockedList(list, db) == Kept(list, Conns \ {db})

\* In front of the first entry with the same callback, or at the end.
addToBlockedList(list, callbacks, db) ==
  LET same == {i \in DOMAIN list : callbacks[list[i]] = callbacks[db]}
      at == IF same = {} THEN Len(list) + 1 ELSE CHOOSE i \in same : \A j \in same : i <= j
  IN  SubSeq(list, 1, at - 1) \o <<db>> \o SubSeq(list, at, Len(list))

\* The loop of unlock_notify: the connections db would wait for, directly or
\* through the callbacks they wait for themselves.
WaitsFor(first) ==
  LET all == Conns \cup {NoConn}
  IN  {c \in all : \A S \in SUBSET all :
         first \in S /\ (\A x \in S \ {NoConn} : pUnlockConnection[x] \in S) => c \in S}

-----------------------------------------------------------------------------
\* unlock_notify with a nil callback cancels.
Cancel(db) ==
  /\ sqlite3BlockedList' = removeFromBlockedList(sqlite3BlockedList, db)
  /\ pBlockingConnection' = [pBlockingConnection EXCEPT ![db] = NoConn]
  /\ pUnlockConnection' = [pUnlockConnection EXCEPT ![db] = NoConn]
  /\ xUnlockNotify' = [xUnlockNotify EXCEPT ![db] = NoCallback]
  /\ UNCHANGED <<phase, panicked>>

\* Mutant: only the blocking connection itself is looked at.
RegisterM(db, xNotify) ==
  /\ pBlockingConnection[db] \notin {NoConn, db}
  /\ pUnlockConnection' = [pUnlockConnection EXCEPT ![db] = pBlockingConnection[db]]
  /\ xUnlockNotify' = [xUnlockNotify EXCEPT ![db] = xNotify]
  /\ sqlite3BlockedList' =
       addToBlockedList(removeFromBlockedList(sqlite3BlockedList, db), xUnlockNotify', db)
  /\ UNCHANGED <<pBlockingConnection, phase, panicked>>

\* unlock_notify registers a callback unless that would close a cycle of
\* waiting connections (SQLITE_LOCKED).  Without a blocking connection the
\* callback is invoked at once, and nothing changes.
Register(db, xNotify) ==
  /\ pBlockingConnection[db] # NoConn
  /\ db \notin WaitsFor(pBlockingConnection[db])
  /\ pUnlockConnection' = [pUnlockConnection EXCEPT ![db] = pBlockingConnection[db]]
  /\ xUnlockNotify' = [xUnlockNotify EXCEPT ![db] = xNotify]
  /\ sqlite3BlockedList' =
       addToBlockedList(removeFromBlockedList(sqlite3BlockedList, db), xUnlockNotify', db)
  /\ UNCHANGED <<pBlockingConnection, phase, panicked>>

\* A statement of db needs a lock that blocker holds.
ConnectionBlocked(db, blocker) ==
  /\ db # blocker /\ phase[blocker] = "locks" /\ phase[db] # "released"
  /\ sqlite3BlockedList' =
       IF pBlockingConnection[db] = NoConn /\ pUnlockConnection[db] = NoConn
         THEN addToBlockedList(sqlite3BlockedList, xUnlockNotify, db)
         ELSE sqlite3BlockedList
  /\ pBlockingConnection' = [pBlockingConnection EXCEPT ![db] = blocker]
  /\ UNCHANGED <<pUnlockConnection, xUnlockNotify, phase, panicked>>

\* A transaction takes its first locks; it ends and releases them.
TakeLocks(db) ==
  /\ phase[db] = "idle"
  /\ phase' = [phase EXCEPT ![db] = "locks"]
  /\ UNCHANGED <<notifyVars, panicked>>

ReleaseLocks(db) ==
  /\ phase[db] = "locks"
  /\ phase' = [phase EXCEPT ![db] = "released"]
  /\ UNCHANGED <<notifyVars, panicked>>

\* Mutant: a connection that waits for nothing stays on the list.
UnblockedM(db) ==
  /\ pBlockingConnection' = [c \in Conns |-> IF pBlockingConnection[c] = db THEN NoConn
                                             ELSE pBlockingConnection[c]]
  /\ UNCHANGED <<sqlite3BlockedList, pUnlockConnection, xUnlockNotify>>

\* The loop of ConnectionUnlocked when no callback waits for db: steps 1 and 3.
Unblocked(db) ==
  /\ pBlockingConnection' = [c \in Conns |-> IF pBlockingConnection[c] = db THEN NoConn
                                             ELSE pBlockingConnection[c]]
  /\ sqlite3BlockedList' = Kept(sqlite3BlockedList,
       {c \in Conns : pBlockingConnection'[c] # NoConn \/ pUnlockConnection[c] # NoConn})
  /\ UNCHANGED <<pUnlockConnection, xUnlockNotify>>

\* Step 2 never gets to a callback.  aDyn is nil and nArg is 0 for the first
\* waiting connection, so that the array "needs to grow" to 0 bytes; the
\* allocation of 0 bytes fails, and the callbacks accumulated so far are issued
\* by calling xUnlockNotify, which is still nil.
Notifies(db) == \E c \in Conns : pUnlockConnection[c] = db

\* A statement of an auto-commit connection ends.  Another statement of the
\* connection may still hold locks.
ConnectionUnlocked(db) ==
  /\ phase' = IF phase[db] = "released" THEN [phase EXCEPT ![db] = "idle"] ELSE phase
  /\ IF Notifies(db) THEN panicked' = TRUE /\ UNCHANGED notifyVars
     ELSE Unblocked(db) /\ UNCHANGED panicked

\* Mutant: closing only takes db off the list.
ConnectionClosedM(db) ==
  /\ phase[db] # "released"
  /\ phase' = [phase EXCEPT ![db] = "idle"]
  /\ sqlite3BlockedList' = removeFromBlockedList(sqlite3BlockedList, db)
  /\ pBlockingConnection' = [pBlockingConnection EXCEPT ![db] = NoConn]
  /\ pUnlockConnection' = [pUnlockConnection EXCEPT ![db] = NoConn]
  /\ xUnlockNotify' = [xUnlockNotify EXCEPT ![db] = NoCallback]
  /\ UNCHANGED panicked

\* sqlite3_close: ConnectionUnlocked, and db leaves the list.  The connection
\* is opened again as a new one.
ConnectionClosed(db) ==
  /\ phase[db] # "released"
  /\ phase' = [phase EXCEPT ![db] = "idle"]
  /\ IF Notifies(db)
       THEN panicked' = TRUE /\ UNCHANGED notifyVars
       ELSE /\ sqlite3BlockedList' = Kept(sqlite3BlockedList,
                 {c \in Conns \ {db} :
                    pBlockingConnection[c] \notin {NoConn, db} \/ pUnlockConnection[c] # NoConn})
            /\ pBlockingConnection' = [c \in Conns |-> IF c = db \/ pBlockingConnection[c] = db
                                                       THEN NoConn ELSE pBlockingConnection[c]]
            /\ pUnlockConnection' = [pUnlockConnection EXCEPT ![db] = NoConn]
            /\ xUnlockNotify' = [xUnlockNotify EXCEPT ![db] = NoCallback]
            /\ UNCHANGED panicked

-----------------------------------------------------------------------------
NotifyInit ==
  /\ sqlite3BlockedList = <<>>
  /\ pBlockingConnection = [c \in Conns |-> NoConn]
  /\ pUnlockConnection = [c \in Conns |-> NoConn]
  /\ xUnlockNotify = [c \in Conns |-> NoCallback]
  /\ phase = [c \in Conns |-> "idle"]
  /\ panicked = FALSE

NotifyNext ==
  /\ ~panicked
  /\ \E db \in Conns :
       \/ Cancel(db)
       \/ \E xNotify \in Callbacks : Register(db, xNotify)
       \/ \E blocker \in Conns : ConnectionBlocked(db, blocker)
       \/ TakeLocks(db) \/ ReleaseLocks(db)
       \/ ConnectionUnlocked(db) \/ ConnectionClosed(db)

NotifySpec == NotifyInit /\ [][NotifyNext]_vars

-----------------------------------------------------------------------------
(***************************************************************************)
(* Properties.                                                             *)
(***************************************************************************)
\* The blocked list holds, once each, exactly the connections with a blocking
\* or an unlock connection (the comment on sqlite3BlockedList): one that is
\* missing would never be notified.  Connections with the same callback stand
\* together, so that one call serves them all (addToBlockedList, step 2 of
\* ConnectionUnlocked).
BlockedListExact ==
  LET list == sqlite3BlockedList
      f(n) == xUnlockNotify[list[n]]
  IN  /\ \A i, j \in DOMAIN list : list[i] = list[j] => i = j
      /\ {list[i] : i \in DOMAIN list}
           = {c \in Conns : pBlockingConnection[c] # NoConn \/ pUnlockConnection[c] # NoConn}
      /\ \A i, j, k \in DOMAIN list : i < j /\ j < k /\ f(i) = f(k) => f(j) = f(i)

\* No connections wait for each other's callbacks in a circle: registering is
\* refused as a deadlock before that (unlock_notify), however the blocking
\* connections have changed since they were looked at.
NoWaitCycle ==
  \A c \in Conns : pUnlockConnection[c] # NoConn => c \notin WaitsFor(pUnlockConnection[c])

\* No wakeup is lost: a connection waits for a callback only while the
\* connection it waits for still has its ConnectionUnlocked ahead of it.
WaitsForHolder ==
  \A c \in Conns :
    /\ pUnlockConnection[c] # NoConn /\ ~panicked => phase[pUnlockConnection[c]] # "idle"
    /\ pUnlockConnection[c] # NoConn <=> xUnlockNotify[c] # NoCallback

=============================================================================
