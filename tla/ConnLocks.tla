----------------------------- MODULE ConnLocks -----------------------------
(***************************************************************************)
(* What xShmLock promises to the write-ahead log: shared and exclusive     *)
(* locks of connections on the lock bytes of a wal-index, whichever        *)
(* processes the connections are in.  ShmLock implements it, Wal uses it.  *)
(***************************************************************************)
CONSTANTS Conns, LockIds

VARIABLES shared, excl  \* the connections that hold each lock

Init ==
  /\ shared = [l \in LockIds |-> {}]
  /\ excl = [l \in LockIds |-> {}]

\* A connection takes a shared lock nobody holds exclusively.
Share(c, l) ==
  /\ excl[l] = {}
  /\ shared' = [shared EXCEPT ![l] = @ \cup {c}]
  /\ UNCHANGED excl

\* A connection takes locks nobody holds, all or none of them.
Exclude(c, ls) ==
  /\ \A l \in ls : shared[l] = {} /\ excl[l] = {}
  /\ excl' = [l \in LockIds |-> IF l \in ls THEN excl[l] \cup {c} ELSE excl[l]]
  /\ UNCHANGED shared

\* Connections give up the locks ls: one by a call, or all of a process that
\* exits.
Release(cs, ls) ==
  /\ shared' = [l \in LockIds |-> IF l \in ls THEN shared[l] \ cs ELSE shared[l]]
  /\ excl' = [l \in LockIds |-> IF l \in ls THEN excl[l] \ cs ELSE excl[l]]

Next ==
  \/ \E c \in Conns, l \in LockIds : Share(c, l)
  \/ \E c \in Conns, ls \in SUBSET LockIds : Exclude(c, ls)
  \/ \E cs \in SUBSET Conns, ls \in SUBSET LockIds : Release(cs, ls)

Spec == Init /\ [][Next]_<<shared, excl>>
=============================================================================
