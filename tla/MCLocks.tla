------------------------------ MODULE MCLocks -------------------------------
(***************************************************************************)
(* The small instances of the five protocols of locks and waits.  They do  *)
(* not share state: a behaviour takes steps of one of them, and the others *)
(* stay in their initial states.                                           *)
(***************************************************************************)
EXTENDS UnixLock, ShmLock, Notify, RecMutex, BtMutex, TLC

CONSTANTS p1, p2, p3, f1, f2, f3, f4, f5, c1, c2, c3

VARIABLE part   \* the protocol that runs

\* Two files in each of two processes, and one in a third that opens the
\* database through unix-excl.
FiveFiles == f1 :> p1 @@ f2 :> p1 @@ f3 :> p2 @@ f4 :> p2 @@ f5 :> p3

\* Two connections to a wal-index in process p1 and one in process p2.
TwoAndOne == 1 :> p1 @@ 2 :> p1 @@ 3 :> p2

\* The files of a process are interchangeable, and so are the connections of
\* Notify.
Peers == Permutations({f1, f2}) \cup Permutations({f3, f4}) \cup Permutations({c1, c2, c3})

LocksInit ==
  /\ part \in {"file", "shm", "notify", "recursive", "btree"}
  /\ Init /\ ShmInit /\ NotifyInit /\ RecInit /\ BtInit

LocksNext ==
  \/ part = "file" /\ Next /\ UNCHANGED <<part, shmVars, vars, recVars, btVars>>
  \/ part = "shm" /\ ShmNext /\ UNCHANGED <<part, lockVars, vars, recVars, btVars>>
  \/ part = "notify" /\ NotifyNext /\ UNCHANGED <<part, lockVars, shmVars, recVars, btVars>>
  \/ part = "recursive" /\ RecStep /\ UNCHANGED <<part, lockVars, shmVars, vars, btVars>>
  \/ part = "btree" /\ BtStep /\ UNCHANGED <<part, lockVars, shmVars, vars, recVars>>

LocksSpec ==
  LocksInit /\ [][LocksNext]_<<part, lockVars, shmVars, vars, recVars, btVars>>
=============================================================================
