------------------------------ MODULE RecMutex ------------------------------
(***************************************************************************)
(* mutex_unix.go with SQLITE_HOMEGROWN_RECURSIVE_MUTEX: a recursive mutex  *)
(* made of a plain one, a counter and an owner.  A thread looks at both    *)
(* without any lock to find out whether the mutex is already its own.      *)
(***************************************************************************)
EXTENDS Integers

CONSTANTS Threads,
          NoThread,    \* the owner 0
          MaxDepth     \* bound on the nesting

ASSUME ThreadAssumption == NoThread \notin Threads
ASSUME DepthAssumption == MaxDepth \in Nat

VARIABLES mutex,   \* the thread that has the pthread mutex, or NoThread
          nRef,
          owner,
          step,    \* thread -> the next statement of the call it is in
          try,     \* thread -> is the call pthreadMutexTry
          depth    \* history: thread -> entries it has not left

recVars == <<mutex, nRef, owner, step, try, depth>>

RecInit ==
  /\ mutex = NoThread /\ nRef = 0 /\ owner = NoThread
  /\ step = [t \in Threads |-> "out"] /\ try = [t \in Threads |-> FALSE]
  /\ depth = [t \in Threads |-> 0]

RecGoto(t, s) == step' = [step EXCEPT ![t] = s]

\* pthreadLock or pthreadMutexTry is called, and nRef > 0 evaluated.
CallLock(t, isTry) ==
  /\ step[t] = "out" /\ depth[t] < MaxDepth
  /\ try' = [try EXCEPT ![t] = isTry]
  /\ RecGoto(t, IF nRef > 0 THEN "owner" ELSE "lock")
  /\ UNCHANGED <<mutex, nRef, owner, depth>>

\* Mutant: a counter above zero is taken for the thread's own.
MutReadOwnerAny(t) ==
  /\ step[t] = "owner" /\ RecGoto(t, "nest") /\ UNCHANGED <<mutex, nRef, owner, try, depth>>

\* pthread_equal(owner, self).
ReadOwner(t) ==
  /\ step[t] = "owner"
  /\ RecGoto(t, IF owner = t THEN "nest" ELSE "lock")
  /\ UNCHANGED <<mutex, nRef, owner, try, depth>>

\* nRef++ by the owner.
Nest(t) ==
  /\ step[t] = "nest"
  /\ nRef' = nRef + 1 /\ depth' = [depth EXCEPT ![t] = @ + 1]
  /\ RecGoto(t, "out")
  /\ UNCHANGED <<mutex, owner, try>>

\* pthread_mutex_lock, and pthread_mutex_trylock, which may find it taken.
PthreadLock(t) ==
  /\ step[t] = "lock"
  /\ \/ mutex = NoThread /\ mutex' = t /\ RecGoto(t, "own")
     \/ mutex # NoThread /\ try[t] /\ RecGoto(t, "out") /\ UNCHANGED mutex
  /\ UNCHANGED <<nRef, owner, try, depth>>

SetOwner(t) ==
  /\ step[t] = "own" /\ owner' = t /\ RecGoto(t, "one")
  /\ UNCHANGED <<mutex, nRef, try, depth>>

SetRef(t) ==
  /\ step[t] = "one" /\ nRef' = 1 /\ RecGoto(t, "out")
  /\ depth' = [depth EXCEPT ![t] = 1]
  /\ UNCHANGED <<mutex, owner, try>>

\* pthreadUnlock: nRef--.
CallUnlock(t) ==
  /\ step[t] = "out" /\ depth[t] > 0
  /\ nRef' = nRef - 1 /\ depth' = [depth EXCEPT ![t] = @ - 1]
  /\ RecGoto(t, "clear")
  /\ UNCHANGED <<mutex, owner, try>>

ClearOwner(t) ==
  /\ step[t] = "clear" /\ RecGoto(t, "unlock")
  /\ owner' = IF nRef = 0 THEN NoThread ELSE owner
  /\ UNCHANGED <<mutex, nRef, try, depth>>

PthreadUnlock(t) ==
  /\ step[t] = "unlock" /\ RecGoto(t, "out")
  /\ mutex' = IF nRef = 0 THEN NoThread ELSE mutex
  /\ UNCHANGED <<nRef, owner, try, depth>>

RecStep ==
  \E t \in Threads :
    \/ \E isTry \in BOOLEAN : CallLock(t, isTry)
    \/ ReadOwner(t) \/ Nest(t) \/ PthreadLock(t) \/ SetOwner(t) \/ SetRef(t)
    \/ CallUnlock(t) \/ ClearOwner(t) \/ PthreadUnlock(t)

RecSpec == RecInit /\ [][RecStep]_recVars

-----------------------------------------------------------------------------
\* Types of the variables.
RecTypeOK ==
  /\ mutex \in Threads \cup {NoThread} /\ owner \in Threads \cup {NoThread} /\ nRef \in 0..MaxDepth
  /\ step \in [Threads -> {"out", "owner", "nest", "lock", "own", "one", "clear", "unlock"}]
  /\ try \in [Threads -> BOOLEAN] /\ depth \in [Threads -> 0..MaxDepth]

\* Two threads are never inside together, although nRef and owner are read
\* while the other thread changes them.
OneThreadInside == \A t, u \in Threads : depth[t] > 0 /\ depth[u] > 0 => t = u

\* The thread inside is the one that has the pthread mutex and the owner, and
\* nRef counts its entries: it can neither lock itself out nor leave early.
InsideIsOwner ==
  \A t \in Threads :
    depth[t] > 0 => mutex = t /\ owner = t /\ nRef = depth[t]
=============================================================================
