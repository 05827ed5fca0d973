--------------------------- MODULE Mutex_proofs ---------------------------
(***************************************************************************)
(* Proofs about the locks inside one machine, for any number of threads,   *)
(* connections, processes and locks: the home-grown recursive mutex, the   *)
(* mutexes of shared B-trees, and the locks of the wal-index.              *)
(***************************************************************************)
EXTENDS RecMutex, BtMutex, ShmLock, WellFoundedInduction, TLAPS

(* Proofs about the home-grown recursive mutex, for any threads and nesting. *)

\* Where a thread is and what it may rely on there.
At(t) ==
  /\ step[t] \in {"nest", "own", "one", "clear", "unlock"} => mutex = t
  /\ depth[t] > 0 => mutex = t /\ owner = t /\ nRef = depth[t]
  /\ step[t] = "nest" => depth[t] > 0
  /\ step[t] \in {"own", "one"} => depth[t] = 0 /\ nRef = 0
  /\ step[t] = "one" => owner = t
  /\ step[t] \in {"clear", "unlock"} => nRef = depth[t]
  /\ step[t] = "unlock" /\ depth[t] = 0 => owner = NoThread
  /\ step[t] \in {"owner", "nest", "lock", "own", "one"} => depth[t] < MaxDepth
  /\ owner = t => step[t] \in {"one", "clear"} \/ depth[t] > 0

\* The inductive invariant: a free pthread mutex has no owner and no entries.
RecInv ==
  /\ RecTypeOK
  /\ mutex = NoThread => nRef = 0 /\ owner = NoThread
  /\ \A t \in Threads : At(t)

\* Every statement of the calls preserves the invariant.
LEMMA RecInvStep == RecInv /\ [RecStep]_recVars => RecInv'
<1>1. SUFFICES ASSUME RecInv, [RecStep]_recVars PROVE RecInv'
  OBVIOUS
<1>2. CASE UNCHANGED recVars
  BY Zenon, <1>1, <1>2 DEF RecInv, RecTypeOK, At, recVars
<1>3. CASE RecStep
  <2>1. PICK t \in Threads :
          \/ \E isTry \in BOOLEAN : CallLock(t, isTry)
          \/ ReadOwner(t) \/ Nest(t) \/ PthreadLock(t) \/ SetOwner(t) \/ SetRef(t)
          \/ CallUnlock(t) \/ ClearOwner(t) \/ PthreadUnlock(t)
    BY <1>3 DEF RecStep
  <2> USE <1>1, ThreadAssumption, DepthAssumption DEF RecInv, RecTypeOK, At, RecGoto
  <2>2. CASE \E isTry \in BOOLEAN : CallLock(t, isTry)
    BY <2>2 DEF CallLock
  <2>3. CASE ReadOwner(t)
    BY <2>3 DEF ReadOwner
  <2>4. CASE Nest(t)
    BY <2>4 DEF Nest
  <2>5. CASE PthreadLock(t)
    BY <2>5 DEF PthreadLock
  <2>6. CASE SetOwner(t)
    BY <2>6 DEF SetOwner
  <2>7. CASE SetRef(t)
    BY <2>7 DEF SetRef
  <2>8. CASE CallUnlock(t)
    BY <2>8 DEF CallUnlock
  <2>9. CASE ClearOwner(t)
    BY <2>9 DEF ClearOwner
  <2>10. CASE PthreadUnlock(t)
    BY <2>10 DEF PthreadUnlock
  <2> QED BY <2>1, <2>2, <2>3, <2>4, <2>5, <2>6, <2>7, <2>8, <2>9, <2>10
<1> QED BY <1>1, <1>2, <1>3

\* The invariant holds in every behaviour of the mutex.
LEMMA RecInvariant == RecSpec => []RecInv
<1>1. RecInit => RecInv
  BY ThreadAssumption, DepthAssumption DEF RecInit, RecInv, RecTypeOK, At
<1> QED BY <1>1, RecInvStep, PTL DEF RecSpec

\* Two threads are never inside the mutex together.
THEOREM RecMutualExclusion == RecSpec => []OneThreadInside
<1>1. RecInv => OneThreadInside
  BY DEF RecInv, At, OneThreadInside
<1> QED BY <1>1, RecInvariant, PTL

\* The thread inside has the pthread mutex, is the owner, and nRef counts its
\* entries.
THEOREM RecOwner == RecSpec => []InsideIsOwner
<1>1. RecInv => InsideIsOwner
  BY DEF RecInv, At, InsideIsOwner
<1> QED BY <1>1, RecInvariant, PTL

-----------------------------------------------------------------------------
(* Proofs about the mutexes of shared B-trees, for any number of connections, *)
(* B-trees and nested calls.                                                  *)

\* The parts of the type invariant.
Vars == 
  /\ holder \in [Shared -> BtConns \cup {Nobody}] /\ dbOf \in [Shared -> BtConns \cup {Nobody}]
  /\ locked \in [BtConns -> SUBSET Shared] /\ want \in [BtConns -> [Shared -> 0..MaxNest]]
  /\ at \in [BtConns -> {"out", "drop", "wait", "again"}] /\ on \in [BtConns -> Shared \cup {0}]
OnShared == \A c \in BtConns : at[c] # "out" => on[c] \in Shared
OneHolder == \A c \in BtConns, b \in Shared : b \in locked[c] <=> holder[b] = c
DbIsHolder == \A b \in Shared : holder[b] # Nobody => dbOf[b] = holder[b]

\* What a connection has and wants at every place of Lock: what it gave up is
\* above the mutex it is at, and what it has taken again is not.
Wanted(c) == \A b \in Shared : b \in locked[c] => want[c][b] > 0
Below(c) ==
  /\ at[c] = "out" => \A b \in Shared : want[c][b] > 0 => b \in locked[c]
  /\ at[c] \in {"drop", "wait"} => \A b \in Shared : b < on[c] /\ want[c][b] > 0 => b \in locked[c]
  /\ at[c] = "again" => \A b \in Shared : b <= on[c] /\ want[c][b] > 0 => b \in locked[c]
Asked(c) == at[c] \in {"drop", "wait"} => on[c] \notin locked[c] /\ want[c][on[c]] > 0
Above(c) == at[c] \in {"wait", "again"} => \A b \in locked[c] : b <= on[c]

\* The inductive invariant.
BtInv ==
  /\ Vars /\ OnShared /\ OneHolder /\ DbIsHolder
  /\ \A c \in BtConns : Wanted(c) /\ Below(c) /\ Asked(c) /\ Above(c)

\* Every step preserves the invariant.
LEMMA BtInvStep == BtInv /\ [BtStep]_btVars => BtInv'
<1>1. SUFFICES ASSUME BtInv, [BtStep]_btVars PROVE BtInv'
  OBVIOUS
<1>2. CASE UNCHANGED btVars
  BY <1>1, <1>2 DEF BtInv, Vars, OnShared, OneHolder, DbIsHolder, Wanted, Below, Asked, Above, btVars
<1>3. CASE BtStep
  <2>1. PICK c \in BtConns : (\E b \in Shared : Enter(c, b) \/ Leave(c, b))
                            \/ Drop(c) \/ Wait(c) \/ Again(c)
    BY <1>3 DEF BtStep
  <2> USE AddressAssumption, NobodyAssumption, NestAssumption
  <2>7. on[c] \in Nat /\ \A b \in Shared : b \in Nat /\ want[c][b] \in Nat
    <3>1. on[c] \in Shared \cup {0}
      BY <1>1 DEF BtInv, Vars
    <3>2. \A b \in Shared : want[c][b] \in 0..MaxNest
      BY <1>1 DEF BtInv, Vars
    <3>3. on[c] \in Nat
      <4>1. CASE on[c] \in Shared
        BY Zenon, <4>1
      <4>2. CASE on[c] = 0
        BY <4>2
      <4> QED BY <3>1, <4>1, <4>2, Zenon
    <3>4. ASSUME NEW b \in Shared PROVE want[c][b] \in Nat
      BY <3>2
    <3>5. \A b \in Shared : b \in Nat
      OBVIOUS
    <3> QED BY <3>3, <3>4, <3>5
  <2>8. \A x \in locked[c] : x \in Shared /\ x \in Nat
    BY <1>1 DEF BtInv, Vars
  <2>2. CASE \E b \in Shared : Enter(c, b)
    <3>1. PICK b \in Shared : Enter(c, b)
      BY <2>2
    <3>2. Vars'
      <4>1. want[c][b] \in 0..MaxNest /\ want[c][b] + 1 \in 0..MaxNest
        BY <1>1, <3>1 DEF BtInv, Vars, Enter
      <4>2. want' \in [BtConns -> [Shared -> 0..MaxNest]]
        BY <1>1, <3>1, <4>1 DEF BtInv, Vars, Enter
      <4>3. holder' \in [Shared -> BtConns \cup {Nobody}] /\ dbOf' \in [Shared -> BtConns \cup {Nobody}]
            /\ locked' \in [BtConns -> SUBSET Shared]
        <5>1. CASE UNCHANGED <<holder, dbOf, locked>>
          BY <1>1, <5>1 DEF BtInv, Vars
        <5>2. CASE Take(c, b)
          BY <1>1, <5>2 DEF BtInv, Vars, Take
        <5> QED BY <3>1, <5>1, <5>2 DEF Enter
      <4>4. at' \in [BtConns -> {"out", "drop", "wait", "again"}] /\ on' \in [BtConns -> Shared \cup {0}]
        <5>1. CASE UNCHANGED <<at, on>>
          BY <1>1, <5>1 DEF BtInv, Vars
        <5>2. CASE at' = [at EXCEPT ![c] = "drop"] /\ on' = [on EXCEPT ![c] = b]
          BY <1>1, <5>2 DEF BtInv, Vars
        <5> QED BY <3>1, <5>1, <5>2 DEF Enter
      <4> QED BY <4>2, <4>3, <4>4 DEF Vars
    <3>3. OnShared'
      BY <1>1, <3>1 DEF BtInv, Vars, OnShared, Enter, Take
    <3>4. OneHolder'
      BY <1>1, <3>1 DEF BtInv, Vars, OnShared, OneHolder, Below, Enter, Take
    <3>5. DbIsHolder'
      BY <1>1, <3>1 DEF BtInv, Vars, OnShared, DbIsHolder, Enter, Take
    <3>6. ASSUME NEW d \in BtConns PROVE Wanted(d)'
      <4>1. CASE d = c
        BY <1>1, <3>1, <4>1 DEF BtInv, Vars, OnShared, Wanted, Asked, Enter, Take
      <4>2. CASE d # c
        BY <1>1, <3>1, <4>2 DEF BtInv, Vars, Wanted, Enter, Take
      <4> QED BY <4>1, <4>2
    <3>7. ASSUME NEW d \in BtConns PROVE Below(d)'
      <4>1. CASE d = c
        BY <1>1, <3>1, <4>1 DEF BtInv, Vars, OnShared, Below, Enter, Take
      <4>2. CASE d # c
        BY <1>1, <3>1, <4>2 DEF BtInv, Vars, Below, Enter, Take
      <4> QED BY <4>1, <4>2
    <3>8. ASSUME NEW d \in BtConns PROVE Asked(d)'
      <4>1. CASE d = c
        BY <1>1, <3>1, <4>1 DEF BtInv, Vars, OnShared, Asked, Enter, Take
      <4>2. CASE d # c
        BY <1>1, <3>1, <4>2 DEF BtInv, Vars, Asked, Enter, Take
      <4> QED BY <4>1, <4>2
    <3>9. ASSUME NEW d \in BtConns PROVE Above(d)'
      <4>1. CASE d = c
        BY <1>1, <3>1, <4>1 DEF BtInv, Vars, OnShared, Above, Enter, Take
      <4>2. CASE d # c
        BY Zenon, <1>1, <3>1, <4>2 DEF BtInv, Vars, Above, Enter, Take
      <4> QED BY <4>1, <4>2
    <3> QED BY <3>2, <3>3, <3>4, <3>5, <3>6, <3>7, <3>8, <3>9 DEF BtInv
  <2>3. CASE \E b \in Shared : Leave(c, b)
    <3>1. PICK b \in Shared : Leave(c, b)
      BY <2>3
    <3>2. Vars'
      BY <1>1, <3>1 DEF BtInv, Vars, OnShared, Asked, Wanted, Leave, Give
    <3>3. OnShared'
      BY <1>1, <3>1 DEF BtInv, Vars, OnShared, Leave, Give
    <3>4. OneHolder'
      BY <1>1, <3>1 DEF BtInv, Vars, OnShared, OneHolder, Below, Leave, Give
    <3>5. DbIsHolder'
      BY <1>1, <3>1 DEF BtInv, Vars, OnShared, DbIsHolder, Leave, Give
    <3>6. ASSUME NEW d \in BtConns PROVE Wanted(d)'
      <4>1. CASE d = c
        BY <1>1, <3>1, <4>1 DEF BtInv, Vars, OnShared, Wanted, Asked, Leave, Give
      <4>2. CASE d # c
        BY <1>1, <3>1, <4>2 DEF BtInv, Vars, Wanted, Leave, Give
      <4> QED BY <4>1, <4>2
    <3>7. ASSUME NEW d \in BtConns PROVE Below(d)'
      <4>1. CASE d = c
        BY <1>1, <3>1, <4>1 DEF BtInv, Vars, OnShared, Below, Leave, Give
      <4>2. CASE d # c
        BY <1>1, <3>1, <4>2 DEF BtInv, Vars, Below, Leave, Give
      <4> QED BY <4>1, <4>2
    <3>8. ASSUME NEW d \in BtConns PROVE Asked(d)'
      <4>1. CASE d = c
        BY <1>1, <3>1, <4>1 DEF BtInv, Vars, OnShared, Asked, Leave, Give
      <4>2. CASE d # c
        BY <1>1, <3>1, <4>2 DEF BtInv, Vars, Asked, Leave, Give
      <4> QED BY <4>1, <4>2
    <3>9. ASSUME NEW d \in BtConns PROVE Above(d)'
      <4>1. CASE d = c
        BY <1>1, <3>1, <4>1 DEF BtInv, Vars, OnShared, Above, Leave, Give
      <4>2. CASE d # c
        BY Zenon, <1>1, <3>1, <4>2 DEF BtInv, Vars, Above, Leave, Give
      <4> QED BY <4>1, <4>2
    <3> QED BY <3>2, <3>3, <3>4, <3>5, <3>6, <3>7, <3>8, <3>9 DEF BtInv
  <2>4. CASE Drop(c)
    <3>2. Vars'
      <4>1. holder' \in [Shared -> BtConns \cup {Nobody}] /\ dbOf' \in [Shared -> BtConns \cup {Nobody}]
            /\ locked' \in [BtConns -> SUBSET Shared]
        <5>1. CASE UNCHANGED <<holder, dbOf, locked>>
          BY <1>1, <5>1 DEF BtInv, Vars
        <5>2. CASE \E l \in Later(on[c]) : Give(c, l)
          BY <1>1, <5>2 DEF BtInv, Vars, Give, Later
        <5> QED BY <2>4, <5>1, <5>2 DEF Drop
      <4>2. at' \in [BtConns -> {"out", "drop", "wait", "again"}] /\ on' \in [BtConns -> Shared \cup {0}]
        BY <1>1, <2>4 DEF BtInv, Vars, Drop
      <4>3. want' \in [BtConns -> [Shared -> 0..MaxNest]]
        BY <1>1, <2>4 DEF BtInv, Vars, Drop
      <4> QED BY <4>1, <4>2, <4>3 DEF Vars
    <3>3. OnShared'
      BY <1>1, <2>4 DEF BtInv, Vars, OnShared, Drop, Give, Later
    <3>4. OneHolder'
      BY <1>1, <2>4 DEF BtInv, Vars, OnShared, OneHolder, Below, Drop, Give, Later
    <3>5. DbIsHolder'
      BY <1>1, <2>4 DEF BtInv, Vars, OnShared, DbIsHolder, Drop, Give, Later
    <3>6. ASSUME NEW d \in BtConns PROVE Wanted(d)'
      <4>1. CASE d = c
        BY <1>1, <2>4, <4>1 DEF BtInv, Vars, OnShared, Wanted, Asked, Drop, Give, Later
      <4>2. CASE d # c
        BY <1>1, <2>4, <4>2 DEF BtInv, Vars, Wanted, Drop, Give, Later
      <4> QED BY <4>1, <4>2
    <3>7. ASSUME NEW d \in BtConns PROVE Below(d)'
      <4>1. CASE d = c
        <5>1. at'[c] \in {"drop", "wait"} /\ want' = want /\ on' = on
          BY <1>1, <2>4 DEF BtInv, Vars, Drop
        <5>2. \A b \in Shared : b < on[c] /\ want[c][b] > 0 => b \in locked[c]
          BY Zenon, <1>1, <2>4 DEF BtInv, Below, Drop
        <5>3. \A b \in Shared : b < on[c] /\ b \in locked[c] => b \in locked'[c]
          <6>1. CASE locked' = locked
            BY <6>1
          <6>2. CASE \E l \in Later(on[c]) \cap locked[c] : Give(c, l)
            <7>1. PICK l \in Later(on[c]) \cap locked[c] : Give(c, l)
              BY <6>2
            <7>2. l \in Shared /\ l > on[c] /\ locked'[c] = locked[c] \ {l}
              BY <1>1, <7>1 DEF BtInv, Vars, Give, Later
            <7> QED BY <7>2, <2>7
          <6> QED BY <2>4, <6>1, <6>2 DEF Drop
        <5> QED BY <5>1, <5>2, <5>3, <4>1, <2>7 DEF Below
      <4>2. CASE d # c
        BY <1>1, <2>4, <4>2 DEF BtInv, Vars, Below, Drop, Give, Later
      <4> QED BY <4>1, <4>2
    <3>8. ASSUME NEW d \in BtConns PROVE Asked(d)'
      <4>1. CASE d = c
        BY <1>1, <2>4, <4>1 DEF BtInv, Vars, OnShared, Asked, Drop, Give, Later
      <4>2. CASE d # c
        BY <1>1, <2>4, <4>2 DEF BtInv, Vars, Asked, Drop, Give, Later
      <4> QED BY <4>1, <4>2
    <3>9. ASSUME NEW d \in BtConns PROVE Above(d)'
      <4>1. CASE d = c
        <5>1. CASE at'[c] = "wait"
          <6>1. Later(on[c]) \cap locked[c] = {} /\ locked' = locked /\ on' = on
            BY <1>1, <2>4, <5>1 DEF BtInv, Vars, Drop
          <6>2. \A x \in locked[c] : x <= on[c]
            BY <6>1, <2>7, <2>8 DEF Later
          <6> QED BY <6>1, <6>2, <4>1 DEF Above
        <5>2. CASE at'[c] # "wait"
          BY <1>1, <2>4, <4>1, <5>2 DEF BtInv, Vars, Above, Drop
        <5> QED BY <5>1, <5>2
      <4>2. CASE d # c
        BY Zenon, <1>1, <2>4, <4>2 DEF BtInv, Vars, Above, Drop, Give, Later
      <4> QED BY <4>1, <4>2
    <3> QED BY <3>2, <3>3, <3>4, <3>5, <3>6, <3>7, <3>8, <3>9 DEF BtInv
  <2>5. CASE Wait(c)
    <3>2. Vars'
      BY <1>1, <2>5 DEF BtInv, Vars, OnShared, Asked, Wanted, Wait, Take
    <3>3. OnShared'
      BY <1>1, <2>5 DEF BtInv, Vars, OnShared, Wait, Take
    <3>4. OneHolder'
      BY <1>1, <2>5 DEF BtInv, Vars, OnShared, OneHolder, Below, Wait, Take
    <3>5. DbIsHolder'
      BY <1>1, <2>5 DEF BtInv, Vars, OnShared, DbIsHolder, Wait, Take
    <3>6. ASSUME NEW d \in BtConns PROVE Wanted(d)'
      <4>1. CASE d = c
        BY <1>1, <2>5, <4>1 DEF BtInv, Vars, OnShared, Wanted, Asked, Wait, Take
      <4>2. CASE d # c
        BY <1>1, <2>5, <4>2 DEF BtInv, Vars, Wanted, Wait, Take
      <4> QED BY <4>1, <4>2
    <3>7. ASSUME NEW d \in BtConns PROVE Below(d)'
      <4>1. CASE d = c
        <5>1. at'[c] = "again" /\ want' = want /\ on' = on /\ locked'[c] = locked[c] \cup {on[c]}
          BY <1>1, <2>5 DEF BtInv, Vars, Wait, Take
        <5>2. \A b \in Shared : b < on[c] /\ want[c][b] > 0 => b \in locked[c]
          BY Zenon, <1>1, <2>5 DEF BtInv, Below, Wait
        <5>3. \A b \in Shared : b <= on[c] /\ want[c][b] > 0 => b \in locked'[c]
          <6>1. \A b \in Shared : b <= on[c] => b < on[c] \/ b = on[c]
            BY <2>7
          <6> QED BY Zenon, <5>1, <5>2, <6>1
        <5> QED BY Zenon, <5>1, <5>3, <4>1 DEF Below
      <4>2. CASE d # c
        BY <1>1, <2>5, <4>2 DEF BtInv, Vars, Below, Wait, Take
      <4> QED BY <4>1, <4>2
    <3>8. ASSUME NEW d \in BtConns PROVE Asked(d)'
      <4>1. CASE d = c
        BY <1>1, <2>5, <4>1 DEF BtInv, Vars, OnShared, Asked, Wait, Take
      <4>2. CASE d # c
        BY <1>1, <2>5, <4>2 DEF BtInv, Vars, Asked, Wait, Take
      <4> QED BY <4>1, <4>2
    <3>9. ASSUME NEW d \in BtConns PROVE Above(d)'
      <4>1. CASE d = c
        BY <1>1, <2>5, <4>1 DEF BtInv, Vars, OnShared, Above, Wait, Take
      <4>2. CASE d # c
        BY <1>1, <2>5, <4>2 DEF BtInv, Vars, Above, Wait, Take
      <4> QED BY <4>1, <4>2
    <3> QED BY <3>2, <3>3, <3>4, <3>5, <3>6, <3>7, <3>8, <3>9 DEF BtInv
  <2>6. CASE Again(c)
    <3>2. Vars'
      <4>1. holder' \in [Shared -> BtConns \cup {Nobody}] /\ dbOf' \in [Shared -> BtConns \cup {Nobody}]
            /\ locked' \in [BtConns -> SUBSET Shared]
        BY <1>1, <2>6 DEF BtInv, Vars, Again, Take
      <4>2. at' \in [BtConns -> {"out", "drop", "wait", "again"}] /\ on' \in [BtConns -> Shared \cup {0}]
        BY <1>1, <2>6 DEF BtInv, Vars, Again
      <4>3. want' \in [BtConns -> [Shared -> 0..MaxNest]]
        BY <1>1, <2>6 DEF BtInv, Vars, Again
      <4> QED BY <4>1, <4>2, <4>3 DEF Vars
    <3>3. OnShared'
      BY <1>1, <2>6 DEF BtInv, Vars, OnShared, Again, Take, IsNext, Later
    <3>4. OneHolder'
      BY <1>1, <2>6 DEF BtInv, Vars, OnShared, OneHolder, Below, Again, Take, IsNext, Later
    <3>5. DbIsHolder'
      BY <1>1, <2>6 DEF BtInv, Vars, OnShared, DbIsHolder, Again, Take, IsNext, Later
    <3>6. ASSUME NEW d \in BtConns PROVE Wanted(d)'
      <4>1. CASE d = c
        BY <1>1, <2>6, <4>1 DEF BtInv, Vars, OnShared, Wanted, Asked, Again, Take, IsNext, Later
      <4>2. CASE d # c
        BY <1>1, <2>6, <4>2 DEF BtInv, Vars, Wanted, Again, Take, IsNext, Later
      <4> QED BY <4>1, <4>2
    <3>7. ASSUME NEW d \in BtConns PROVE Below(d)'
      <4>1. CASE d = c
        <5>0. at[c] = "again" /\ want' = want /\ \A x \in Shared : x <= on[c] /\ want[c][x] > 0 => x \in locked[c]
          BY <1>1, <2>6 DEF BtInv, Below, Again
        <5>1. CASE at'[c] = "out"
          <6>1. (\A l \in Later(on[c]) : want[c][l] = 0) /\ locked' = locked
            BY <2>6, <5>0, <5>1 DEF Again
          <6>2. ASSUME NEW b \in Shared, want[c][b] > 0 PROVE b \in locked[c]
            <7>1. b \in Later(on[c]) => want[c][b] = 0
              BY Zenon, <6>1
            <7>2. b <= on[c]
              BY <2>7, <6>2, <7>1 DEF Later
            <7> QED BY Zenon, <5>0, <6>2, <7>2
          <6> QED BY Zenon, <5>0, <5>1, <6>1, <6>2, <4>1 DEF Below
        <5>2. CASE at'[c] # "out"
          <6>1. PICK l \in Shared : IsNext(c, l) /\ Take(c, l) /\ on' = [on EXCEPT ![c] = l] /\ at' = at
            BY <1>1, <2>6, <5>2 DEF Again, BtInv, Vars
          <6>2. on'[c] = l /\ locked'[c] = locked[c] \cup {l} /\ on[c] < l
            BY <1>1, <6>1, <2>7 DEF BtInv, Vars, Take, IsNext, Later
          <6>3. \A x \in Shared : x > on[c] /\ want[c][x] > 0 => l <= x
            BY Zenon, <6>1, <2>7 DEF IsNext, Later
          <6> QED BY <5>0, <6>1, <6>2, <6>3, <4>1, <2>7 DEF Below
        <5> QED BY Zenon, <5>1, <5>2
      <4>2. CASE d # c
        BY <1>1, <2>6, <4>2 DEF BtInv, Vars, Below, Again, Take, IsNext, Later
      <4> QED BY <4>1, <4>2
    <3>8. ASSUME NEW d \in BtConns PROVE Asked(d)'
      <4>1. CASE d = c
        BY <1>1, <2>6, <4>1 DEF BtInv, Vars, OnShared, Asked, Again, Take, IsNext, Later
      <4>2. CASE d # c
        BY <1>1, <2>6, <4>2 DEF BtInv, Vars, Asked, Again, Take, IsNext, Later
      <4> QED BY <4>1, <4>2
    <3>9. ASSUME NEW d \in BtConns PROVE Above(d)'
      <4>1. CASE d = c
        <5>1. CASE at'[c] = "out"
          BY <5>1, <4>1 DEF Above
        <5>2. CASE at'[c] # "out"
          <6>1. PICK l \in Shared : IsNext(c, l) /\ Take(c, l) /\ on' = [on EXCEPT ![c] = l]
            BY <1>1, <2>6, <5>2 DEF Again, BtInv, Vars
          <6>2. on'[c] = l /\ locked'[c] = locked[c] \cup {l} /\ on[c] < l
            BY Zenon, <1>1, <6>1, <2>7 DEF BtInv, Vars, Take, IsNext, Later
          <6>3. \A x \in locked[c] : x <= on[c]
            BY <1>1, <2>6 DEF BtInv, Above, Again
          <6>4. ASSUME NEW x \in locked'[c] PROVE x <= on'[c]
            <7>1. x = l \/ x \in locked[c]
              BY Zenon, <6>2
            <7>2. l \in Nat /\ on[c] \in Nat /\ (x \in locked[c] => x \in Nat)
              BY <2>7, <2>8
            <7>3. x \in locked[c] => x <= on[c]
              BY Zenon, <6>3
            <7> QED BY <6>2, <7>1, <7>2, <7>3
          <6> QED BY <6>4, <4>1 DEF Above
        <5> QED BY <5>1, <5>2
      <4>2. CASE d # c
        BY Zenon, <1>1, <2>6, <4>2 DEF BtInv, Vars, Above, Again, Take, IsNext, Later
      <4> QED BY <4>1, <4>2
    <3> QED BY <3>2, <3>3, <3>4, <3>5, <3>6, <3>7, <3>8, <3>9 DEF BtInv
  <2> QED BY <2>1, <2>2, <2>3, <2>4, <2>5, <2>6
<1> QED BY <1>1, <1>2, <1>3

\* The invariant holds in every behaviour.
LEMMA BtInvariant == BtSpec => []BtInv
<1>1. BtInit => BtInv
  BY AddressAssumption, NobodyAssumption, NestAssumption
  DEF BtInit, BtInv, Vars, OnShared, OneHolder, DbIsHolder, Wanted, Below, Asked, Above
<1> QED BY <1>1, BtInvStep, PTL DEF BtSpec

\* One holder per mutex, and BtShared.db is that connection.
THEOREM BtTypes == BtSpec => []BtTypeOK
<1>1. BtInv => BtTypeOK
  BY Zenon DEF BtInv, BtTypeOK, Vars, OnShared, OneHolder, DbIsHolder
<1> QED BY <1>1, BtInvariant, PTL

\* Lock returns with every mutex the connection has asked for.
THEOREM BtAllWantedHeld == BtSpec => []AllWantedHeld
<1>1. BtInv => AllWantedHeld
  BY DEF BtInv, Wanted, Below, AllWantedHeld
<1> QED BY <1>1, BtInvariant, PTL

\* A connection waits for a mutex above all those it has.
LEMMA BtOrder == BtInv => AscendingOrder
<1> SUFFICES ASSUME BtInv, NEW c \in BtConns, NEW b \in Shared, WaitsOn(c, b), NEW h \in locked[c]
             PROVE  h < b
  BY DEF AscendingOrder
<1>1. h \in Nat /\ on[c] \in Nat /\ b \in Nat /\ h <= on[c]
  <2>1. locked[c] \subseteq Shared /\ on[c] \in Shared
    BY Zenon DEF BtInv, Vars, OnShared, WaitsOn
  <2>2. \A x \in locked[c] : x <= on[c]
    BY DEF BtInv, Above, WaitsOn
  <2> QED BY Zenon, <2>1, <2>2, AddressAssumption
<1>2. CASE at[c] = "wait"
  BY <1>1, <1>2 DEF BtInv, Asked, WaitsOn
<1>3. CASE at[c] = "again"
  BY <1>1, <1>3 DEF WaitsOn, IsNext, Later
<1> QED BY Zenon, <1>2, <1>3 DEF WaitsOn

\* A connection never waits for a mutex while it holds one with a larger address.
THEOREM BtAscendingOrder == BtSpec => []AscendingOrder
BY BtOrder, BtInvariant, PTL

\* The order leaves no circle: of the mutexes a set of connections wait for and
\* hold among themselves, the holder of the greatest waits for none.
LEMMA BtNoCircle == BtInv => NoDeadlock
<1>1. SUFFICES ASSUME BtInv, NEW S \in SUBSET BtConns, S # {},
                      \A c \in S : \E b \in Shared : WaitsOn(c, b) /\ holder[b] \in S
               PROVE  FALSE
  BY Zenon DEF NoDeadlock
<1>2. PICK n \in Nat : \A b \in Shared : b <= n
  BY BoundAssumption
<1> DEFINE W == {m \in Nat : \E b \in Shared, c \in S : m = n - b /\ WaitsOn(c, b) /\ holder[b] \in S}
<1>3. W # {}
  <2>1. PICK c \in S, b \in Shared : WaitsOn(c, b) /\ holder[b] \in S
    BY <1>1
  <2>2. n - b \in Nat
    BY <1>2, AddressAssumption
  <2> QED BY <2>1, <2>2
<1>4. PICK m \in W : \A k \in W : ~(<<k, m>> \in OpToRel(<, Nat))
  <2>1. IsWellFoundedOn(OpToRel(<, Nat), Nat)
    BY Zenon, NatLessThanWellFounded
  <2> HIDE DEF W
  <2>2. W \subseteq Nat
    BY DEF W
  <2> QED BY Zenon, <1>3, <2>1, <2>2, WFMin
<1>5. PICK b \in Shared, c \in S : m = n - b /\ WaitsOn(c, b) /\ holder[b] \in S
  BY Zenon, <1>4
<1>6. PICK b2 \in Shared : WaitsOn(holder[b], b2) /\ holder[b2] \in S
  BY <1>1, <1>5
<1>7. b < b2
  <2>1. b \in locked[holder[b]]
    BY <1>1, <1>5 DEF BtInv, OneHolder
  <2>2. AscendingOrder
    BY <1>1, BtOrder
  <2> QED BY <1>1, <1>5, <1>6, <2>1, <2>2 DEF AscendingOrder
<1>8. n - b2 \in W /\ n - b2 < m
  BY <1>2, <1>5, <1>6, <1>7, AddressAssumption
<1> QED BY Zenon, <1>4, <1>8 DEF OpToRel

\* No set of connections wait for each other.
THEOREM BtNoDeadlock == BtSpec => []NoDeadlock
BY BtNoCircle, BtInvariant, PTL

-----------------------------------------------------------------------------
(* unixShmLock keeps the kernel's locks in step with the masks, and        *)
(* implements the locks of connections that the write-ahead log relies on. *)

\* The inductive invariant: neither SystemSummary nor ExclusiveAlone is
\* inductive by itself.  A connection that joins a sharing sibling asks the
\* kernel for nothing and relies on ExclusiveAlone; one that asks the kernel
\* relies on SystemSummary for what the answer means.
ShmInv == ShmTypeOK /\ SystemSummary /\ ExclusiveAlone

\* A lock shared by LockShared is held exclusively by nobody, in no process.
LEMMA ShareSafe ==
  ASSUME ShmInv, NEW c \in ShmConns, NEW l \in LockIds, LockShared(c, l), NEW d \in ShmConns
  PROVE  l \notin exclMask[d]
<1>1. CASE ShmProcOf[d] = ShmProcOf[c]
  BY <1>1 DEF LockShared, Siblings
<1>2. CASE ShmProcOf[d] # ShmProcOf[c] /\ \E s \in Siblings(c) : l \in sharedMask[s]
  <2>1. PICK s \in ShmConns : ShmProcOf[s] = ShmProcOf[c] /\ l \in sharedMask[s]
    BY <1>2 DEF Siblings
  <2>2. s # d
    BY <1>2, <2>1
  <2> QED BY <2>1, <2>2 DEF ShmInv, ExclusiveAlone
<1>3. CASE ShmProcOf[d] # ShmProcOf[c] /\ ~ \E s \in Siblings(c) : l \in sharedMask[s]
  <2>1. CanRead(ShmProcOf[c], {l})
    BY <1>3 DEF LockShared
  <2>2. ShmProcOf[d] \in ShmProcs \ {ShmProcOf[c]}
    BY <1>3, ShmProcOfAssumption
  <2>3. sys[ShmProcOf[d]][l] # "wr"
    BY <2>1, <2>2 DEF CanRead
  <2> QED BY <2>2, <2>3 DEF ShmInv, SystemSummary
<1> QED BY <1>1, <1>2, <1>3

\* What LockExclusive locks is held by nobody, in no process.
LEMMA ExcludeSafe ==
  ASSUME ShmInv, NEW c \in ShmConns, NEW r \in Ranges, LockExclusive(c, r[1], r[2]),
         NEW d \in ShmConns, NEW l \in Mask(r[1], r[2]) \cap LockIds
  PROVE  l \notin exclMask[d] /\ l \notin sharedMask[d]
<1>1. CASE ShmProcOf[d] = ShmProcOf[c]
  BY <1>1 DEF LockExclusive, Siblings
<1>2. CASE ShmProcOf[d] # ShmProcOf[c]
  <2>1. CanWrite(ShmProcOf[c], Mask(r[1], r[2]))
    BY DEF LockExclusive
  <2>2. ShmProcOf[d] \in ShmProcs \ {ShmProcOf[c]}
    BY <1>2, ShmProcOfAssumption
  <2>3. sys[ShmProcOf[d]][l] = "none"
    BY <2>1, <2>2 DEF CanWrite
  <2> QED BY <2>2, <2>3 DEF ShmInv, SystemSummary
<1> QED BY <1>1, <1>2

\* A range lies within the lock bytes.
LEMMA RangeTyped ==
  ASSUME NEW r \in Ranges
  PROVE  Mask(r[1], r[2]) \subseteq LockIds
BY NLockAssumption DEF Ranges, Mask, LockIds

\* The range of a call on one lock.
LEMMA OneLock ==
  ASSUME NEW l \in LockIds
  PROVE  Mask(l, 1) = {l}
BY NLockAssumption DEF Mask, LockIds

\* A granted system call sets the bytes of one process and no others.
LEMMA SystemLockEffect ==
  ASSUME ShmTypeOK, NEW p \in ShmProcs, NEW type \in {"none", "rd", "wr"},
         NEW ls \in SUBSET LockIds, SystemLock(p, type, ls)
  PROVE  /\ sys' \in [ShmProcs -> [LockIds -> {"none", "rd", "wr"}]]
         /\ \A q \in ShmProcs, l \in LockIds :
              sys'[q][l] = IF q = p /\ l \in ls THEN type ELSE sys[q][l]
BY DEF ShmTypeOK, SystemLock

\* A shared lock (unixShmLock, SQLITE_SHM_SHARED) keeps the invariant.
LEMMA LockSharedStep ==
  ASSUME ShmInv, NEW c \in ShmConns, NEW l \in LockIds, LockShared(c, l)
  PROVE  ShmInv'
<1> USE ShmProcOfAssumption
<1>1. sharedMask' \in [ShmConns -> SUBSET LockIds] /\ exclMask' = exclMask
  BY DEF ShmInv, ShmTypeOK, LockShared
<1>2. \A d \in ShmConns : sharedMask'[d] = IF d = c THEN sharedMask[d] \cup {l} ELSE sharedMask[d]
  BY Zenon DEF ShmInv, ShmTypeOK, LockShared
<1>3. /\ sys' \in [ShmProcs -> [LockIds -> {"none", "rd", "wr"}]]
      /\ \A q \in ShmProcs, k \in LockIds :
           sys'[q][k] = IF q = ShmProcOf[c] /\ k = l THEN "rd" ELSE sys[q][k]
  <2>1. CASE \E s \in Siblings(c) : l \in sharedMask[s]
    <3>1. sys[ShmProcOf[c]][l] = "rd"
      BY <2>1 DEF ShmInv, SystemSummary, Siblings
    <3> QED BY <2>1, <3>1 DEF LockShared, ShmInv, ShmTypeOK
  <2>2. CASE ~ \E s \in Siblings(c) : l \in sharedMask[s]
    <3>1. SystemLock(ShmProcOf[c], "rd", {l})
      BY <2>2 DEF LockShared
    <3> QED BY <3>1, SystemLockEffect DEF ShmInv
  <2> QED BY <2>1, <2>2
<1>4. ExclusiveAlone'
  BY <1>1, <1>2, ShareSafe DEF ShmInv, ExclusiveAlone
<1>5. SystemSummary'
  <2> SUFFICES ASSUME NEW p \in ShmProcs, NEW k \in LockIds
               PROVE  /\ sys'[p][k] = "wr" <=> \E d \in ShmConns : ShmProcOf[d] = p /\ k \in exclMask'[d]
                      /\ sys'[p][k] = "rd" <=> \E d \in ShmConns : ShmProcOf[d] = p /\ k \in sharedMask'[d]
    BY DEF SystemSummary
  <2>1. CASE p = ShmProcOf[c] /\ k = l
    <3>1. \A d \in ShmConns : k \notin exclMask'[d]
      BY <2>1, <1>1, ShareSafe
    <3> QED BY Zenon, <2>1, <3>1, <1>2, <1>3
  <2>2. CASE ~(p = ShmProcOf[c] /\ k = l)
    <3>1. \A d \in ShmConns : ShmProcOf[d] = p => (k \in sharedMask'[d] <=> k \in sharedMask[d])
      BY Zenon, <2>2, <1>2
    <3> QED BY <2>2, <3>1, <1>1, <1>3 DEF ShmInv, SystemSummary
  <2> QED BY <2>1, <2>2
<1> QED BY <1>1, <1>3, <1>4, <1>5 DEF ShmInv, ShmTypeOK

\* So does an exclusive lock on a range.
LEMMA LockExclusiveStep ==
  ASSUME ShmInv, NEW c \in ShmConns, NEW r \in Ranges, LockExclusive(c, r[1], r[2])
  PROVE  ShmInv'
<1> USE ShmProcOfAssumption
<1> DEFINE mask == Mask(r[1], r[2])
<1>0. mask \in SUBSET LockIds
  BY RangeTyped
<1>1. exclMask' \in [ShmConns -> SUBSET LockIds] /\ sharedMask' = sharedMask
  BY <1>0 DEF ShmInv, ShmTypeOK, LockExclusive
<1>2. \A d \in ShmConns : exclMask'[d] = IF d = c THEN exclMask[d] \cup mask ELSE exclMask[d]
  BY Zenon DEF ShmInv, ShmTypeOK, LockExclusive
<1>3. SystemLock(ShmProcOf[c], "wr", mask)
  BY DEF LockExclusive
<1> HIDE DEF mask
<1>4. /\ sys' \in [ShmProcs -> [LockIds -> {"none", "rd", "wr"}]]
      /\ \A q \in ShmProcs, k \in LockIds :
           sys'[q][k] = IF q = ShmProcOf[c] /\ k \in mask THEN "wr" ELSE sys[q][k]
  BY <1>0, <1>3, SystemLockEffect DEF ShmInv
<1>5. \A d \in ShmConns : mask \cap exclMask[d] = {} /\ mask \cap sharedMask[d] = {}
  BY <1>0, ExcludeSafe DEF mask
<1>6. ExclusiveAlone'
  BY <1>1, <1>2, <1>5 DEF ShmInv, ExclusiveAlone
<1>7. SystemSummary'
  <2> SUFFICES ASSUME NEW p \in ShmProcs, NEW k \in LockIds
               PROVE  /\ sys'[p][k] = "wr" <=> \E d \in ShmConns : ShmProcOf[d] = p /\ k \in exclMask'[d]
                      /\ sys'[p][k] = "rd" <=> \E d \in ShmConns : ShmProcOf[d] = p /\ k \in sharedMask'[d]
    BY DEF SystemSummary
  <2>1. CASE p = ShmProcOf[c] /\ k \in mask
    <3>1. \A d \in ShmConns : k \notin sharedMask'[d]
      BY Zenon, <2>1, <1>1, <1>5
    <3> QED BY Zenon, <2>1, <3>1, <1>2, <1>4
  <2>2. CASE ~(p = ShmProcOf[c] /\ k \in mask)
    <3>1. \A d \in ShmConns : ShmProcOf[d] = p => (k \in exclMask'[d] <=> k \in exclMask[d])
      BY Zenon, <2>2, <1>2
    <3> QED BY <2>2, <3>1, <1>1, <1>4 DEF ShmInv, SystemSummary
  <2> QED BY <2>1, <2>2
<1> QED BY <1>1, <1>4, <1>6, <1>7 DEF ShmInv, ShmTypeOK

\* Unlock, for a range that is a single lock or held exclusively.
LEMMA UnlockStep ==
  ASSUME ShmInv, NEW c \in ShmConns, NEW ofst, NEW n, Unlock(c, ofst, n),
         Mask(ofst, n) \subseteq LockIds,
         (\E l \in LockIds : Mask(ofst, n) = {l}) \/ Mask(ofst, n) \subseteq exclMask[c]
  PROVE  ShmInv'
<1> USE ShmProcOfAssumption
<1> DEFINE mask == Mask(ofst, n)
<1>1. /\ sharedMask' \in [ShmConns -> SUBSET LockIds]
      /\ exclMask' \in [ShmConns -> SUBSET LockIds]
      /\ \A d \in ShmConns : sharedMask'[d] = IF d = c THEN sharedMask[d] \ mask ELSE sharedMask[d]
      /\ \A d \in ShmConns : exclMask'[d] = IF d = c THEN exclMask[d] \ mask ELSE exclMask[d]
  BY Zenon DEF ShmInv, ShmTypeOK, Unlock
<1>2. mask \subseteq sharedMask[c] \/ mask \subseteq exclMask[c]
  BY DEF Unlock
<1>3. mask \in SUBSET LockIds /\ ((\E l \in LockIds : mask = {l}) \/ mask \subseteq exclMask[c])
  OBVIOUS
<1>4. \/ UNCHANGED sys /\ \E d \in Siblings(c) \ {c} : mask \cap sharedMask[d] # {}
      \/ SystemLock(ShmProcOf[c], "none", mask) /\ ~ \E d \in Siblings(c) \ {c} : mask \cap sharedMask[d] # {}
  BY Zenon DEF Unlock
<1> HIDE DEF mask
<1>5. ExclusiveAlone'
  BY <1>1 DEF ShmInv, ExclusiveAlone
<1>6. CASE \E d \in Siblings(c) \ {c} : mask \cap sharedMask[d] # {}
  <2>1. PICK d \in ShmConns \ {c} : ShmProcOf[d] = ShmProcOf[c] /\ mask \cap sharedMask[d] # {}
    BY <1>6 DEF Siblings
  <2>2. ~(mask \subseteq exclMask[c])
    BY <2>1 DEF ShmInv, ExclusiveAlone
  <2>3. PICK l \in LockIds : mask = {l}
    BY <1>3, <2>2
  <2>4. l \in sharedMask[c] /\ l \in sharedMask[d]
    BY <2>1, <2>2, <2>3, <1>2
  <2>5. \A e \in ShmConns : l \notin exclMask[e]
    BY Zenon, <2>1, <2>4 DEF ShmInv, ExclusiveAlone
  <2>6. \A e \in ShmConns, k \in LockIds : k \in exclMask'[e] <=> k \in exclMask[e]
    BY Zenon, <1>1, <2>3, <2>5
  <2>7. SystemSummary'
    <3> SUFFICES ASSUME NEW p \in ShmProcs, NEW k \in LockIds
                 PROVE  (\E e \in ShmConns : ShmProcOf[e] = p /\ k \in sharedMask'[e])
                           <=> (\E e \in ShmConns : ShmProcOf[e] = p /\ k \in sharedMask[e])
      <4>1. sys' = sys
        BY Zenon, <1>4, <1>6
      <4> QED BY <4>1, <2>6 DEF ShmInv, SystemSummary
    <3>1. CASE k = l /\ p = ShmProcOf[c]
      BY Zenon, <3>1, <2>1, <2>4, <1>1
    <3>2. CASE ~(k = l /\ p = ShmProcOf[c])
      BY <3>2, <2>3, <1>1
    <3> QED BY Zenon, <3>1, <3>2
  <2> QED BY Zenon, <1>1, <1>4, <1>5, <1>6, <2>7 DEF ShmInv, ShmTypeOK
<1>7. CASE ~ \E d \in Siblings(c) \ {c} : mask \cap sharedMask[d] # {}
  <2>1. /\ sys' \in [ShmProcs -> [LockIds -> {"none", "rd", "wr"}]]
        /\ \A q \in ShmProcs, k \in LockIds :
             sys'[q][k] = IF q = ShmProcOf[c] /\ k \in mask THEN "none" ELSE sys[q][k]
    BY <1>3, <1>4, <1>7, SystemLockEffect DEF ShmInv
  <2>2. \A d \in ShmConns \ {c} : ShmProcOf[d] = ShmProcOf[c] => mask \cap exclMask[d] = {}
    BY Zenon, <1>2 DEF ShmInv, ExclusiveAlone
  <2>3. SystemSummary'
    <3> SUFFICES ASSUME NEW p \in ShmProcs, NEW k \in LockIds
                 PROVE  /\ sys'[p][k] = "wr" <=> \E e \in ShmConns : ShmProcOf[e] = p /\ k \in exclMask'[e]
                        /\ sys'[p][k] = "rd" <=> \E e \in ShmConns : ShmProcOf[e] = p /\ k \in sharedMask'[e]
      BY Zenon DEF SystemSummary
    <3>1. CASE p = ShmProcOf[c] /\ k \in mask
      <4>1. \A e \in ShmConns : ShmProcOf[e] = p => k \notin exclMask'[e] /\ k \notin sharedMask'[e]
        BY Zenon, <3>1, <1>1, <1>7, <2>2 DEF Siblings
      <4> QED BY Zenon, <3>1, <4>1, <2>1
    <3>2. CASE ~(p = ShmProcOf[c] /\ k \in mask)
      <4>1. \A e \in ShmConns : ShmProcOf[e] = p =>
              (k \in exclMask'[e] <=> k \in exclMask[e]) /\ (k \in sharedMask'[e] <=> k \in sharedMask[e])
        BY <3>2, <1>1
      <4> QED BY <3>2, <4>1, <2>1 DEF ShmInv, SystemSummary
    <3> QED BY Zenon, <3>1, <3>2
  <2> QED BY Zenon, <1>1, <1>5, <2>1, <2>3 DEF ShmInv, ShmTypeOK
<1> QED BY <1>6, <1>7

\* So does the end of a process, which drops all its locks.
LEMMA ExitStep ==
  ASSUME ShmInv, NEW p \in ShmProcs, Exit(p)
  PROVE  ShmInv'
BY ShmProcOfAssumption DEF ShmInv, ShmTypeOK, SystemSummary, ExclusiveAlone, Exit

\* The masks and the kernel's locks agree, and exclusive locks exclude, in every
\* reachable state of unixShmLock.
THEOREM ShmInvariance == ShmSpec => []ShmInv
<1>1. ShmInit => ShmInv
  BY ShmProcOfAssumption DEF ShmInit, ShmInv, ShmTypeOK, SystemSummary, ExclusiveAlone
<1>2. ShmInv /\ [ShmNext]_shmVars => ShmInv'
  <2> SUFFICES ASSUME ShmInv, [ShmNext]_shmVars
               PROVE  ShmInv'
    OBVIOUS
  <2>1. ASSUME NEW c \in ShmConns, NEW l \in LockIds, LockShared(c, l)
        PROVE  ShmInv'
    BY <2>1, LockSharedStep
  <2>2. ASSUME NEW c \in ShmConns, NEW l \in LockIds, Unlock(c, l, 1)
        PROVE  ShmInv'
    BY <2>2, UnlockStep, OneLock
  <2>3. ASSUME NEW c \in ShmConns, NEW r \in Ranges, LockExclusive(c, r[1], r[2])
        PROVE  ShmInv'
    BY Zenon, <2>3, LockExclusiveStep
  <2>4. ASSUME NEW c \in ShmConns, NEW r \in Ranges,
               Mask(r[1], r[2]) \subseteq exclMask[c], Unlock(c, r[1], r[2])
        PROVE  ShmInv'
    BY <2>4, UnlockStep, RangeTyped
  <2>5. ASSUME NEW p \in ShmProcs, Exit(p)
        PROVE  ShmInv'
    BY <2>5, ExitStep
  <2>6. CASE UNCHANGED shmVars
    BY <2>6 DEF shmVars, ShmInv, ShmTypeOK, SystemSummary, ExclusiveAlone
  <2> QED BY <2>1, <2>2, <2>3, <2>4, <2>5, <2>6 DEF ShmNext
<1> QED BY <1>1, <1>2, PTL DEF ShmSpec

\* The kernel's locks of a process are exactly what its connections need (the
\* sibling loops of unixShmLock).
THEOREM SystemInStep == ShmSpec => []SystemSummary
BY ShmInvariance, PTL DEF ShmInv

\* What one connection holds exclusively no other holds, also in another process
\* (the assertion in the unlock branch of unixShmLock).
THEOREM ExclusiveHolds == ShmSpec => []ExclusiveAlone
BY ShmInvariance, PTL DEF ShmInv

\* The mapped variables after a step, for the refinement.
LEMMA HoldersOf ==
  ASSUME NEW mask, NEW l \in LockIds
  PROVE  holders(mask)[l] = {c \in ShmConns : l \in mask[c]}
BY DEF holders

\* unixShmLock implements ConnLocks: every call that succeeds, and every exit of
\* a process, is a step of the locks of connections.
THEOREM ShmRefinement == ShmSpec => ImplementsConnLocks
<1>1. ShmInit => Locks!Init
  BY DEF ShmInit, Locks!Init, holders
<1>2. ShmInv /\ [ShmNext]_shmVars => [Locks!Next]_<<holders(sharedMask), holders(exclMask)>>
  <2> SUFFICES ASSUME ShmInv, [ShmNext]_shmVars
               PROVE  Locks!Next \/ UNCHANGED <<holders(sharedMask), holders(exclMask)>>
    OBVIOUS
  <2>1. ASSUME NEW c \in ShmConns, NEW l \in LockIds, LockShared(c, l)
        PROVE  Locks!Share(c, l)
    <3>1. holders(exclMask)[l] = {}
      BY <2>1, ShareSafe, HoldersOf
    <3>2. holders(sharedMask)' = [holders(sharedMask) EXCEPT ![l] = @ \cup {c}]
      BY ZenonT(30), <2>1 DEF LockShared, holders, ShmInv, ShmTypeOK
    <3>3. holders(exclMask)' = holders(exclMask)
      BY <2>1 DEF LockShared, holders
    <3> QED BY <3>1, <3>2, <3>3 DEF Locks!Share
  <2>2. ASSUME NEW c \in ShmConns, NEW r \in Ranges, LockExclusive(c, r[1], r[2])
        PROVE  Locks!Exclude(c, Mask(r[1], r[2]))
    <3> DEFINE mask == Mask(r[1], r[2])
    <3>1. \A l \in mask : holders(sharedMask)[l] = {} /\ holders(exclMask)[l] = {}
      BY <2>2, ExcludeSafe, HoldersOf, RangeTyped
    <3>2. holders(exclMask)' = [l \in LockIds |-> IF l \in mask THEN holders(exclMask)[l] \cup {c}
                                                 ELSE holders(exclMask)[l]]
      BY Zenon, <2>2 DEF LockExclusive, holders, ShmInv, ShmTypeOK
    <3>3. holders(sharedMask)' = holders(sharedMask)
      BY <2>2 DEF LockExclusive, holders
    <3> QED BY Zenon, <3>1, <3>2, <3>3 DEF Locks!Exclude
  <2>3. ASSUME NEW c \in ShmConns, NEW ofst, NEW n, Unlock(c, ofst, n)
        PROVE  Locks!Release({c}, Mask(ofst, n))
    BY <2>3 DEF Locks!Release, Unlock, holders, ShmInv, ShmTypeOK
  <2>4. ASSUME NEW p \in ShmProcs, Exit(p)
        PROVE  Locks!Release({c \in ShmConns : ShmProcOf[c] = p}, LockIds)
    BY <2>4 DEF Locks!Release, Exit, holders
  <2>5. CASE UNCHANGED shmVars
    BY <2>5 DEF shmVars, holders
  <2>6. \A l \in LockIds : Mask(l, 1) \in SUBSET LockIds
    BY OneLock
  <2>7. \A r \in Ranges : Mask(r[1], r[2]) \in SUBSET LockIds
    BY RangeTyped
  <2>8. ASSUME NEW c \in ShmConns, NEW l \in LockIds, LockShared(c, l)
        PROVE  Locks!Next
    BY <2>1, <2>8 DEF Locks!Next
  <2>9. ASSUME NEW c \in ShmConns, NEW r \in Ranges, LockExclusive(c, r[1], r[2])
        PROVE  Locks!Next
    BY <2>2, <2>7, <2>9 DEF Locks!Next
  <2>10. ASSUME NEW cs \in SUBSET ShmConns, NEW ls \in SUBSET LockIds, Locks!Release(cs, ls)
         PROVE  Locks!Next
    BY <2>10 DEF Locks!Next
  <2>11. ASSUME NEW c \in ShmConns, NEW l \in LockIds, Unlock(c, l, 1)
         PROVE  Locks!Next
    <3>1. Locks!Release({c}, Mask(l, 1))
      BY <2>3, <2>11
    <3> QED BY <3>1, <2>6, <2>10
  <2>12. ASSUME NEW c \in ShmConns, NEW r \in Ranges, Unlock(c, r[1], r[2])
         PROVE  Locks!Next
    <3>1. Locks!Release({c}, Mask(r[1], r[2]))
      BY <2>3, <2>12
    <3> QED BY <3>1, <2>7, <2>10
  <2>13. ASSUME NEW p \in ShmProcs, Exit(p)
         PROVE  Locks!Next
    <3>1. Locks!Release({c \in ShmConns : ShmProcOf[c] = p}, LockIds)
      BY <2>4, <2>13
    <3> QED BY <3>1, <2>10
  <2> QED BY <2>5, <2>8, <2>9, <2>11, <2>12, <2>13 DEF ShmNext
<1> QED BY <1>1, <1>2, ShmInvariance, PTL DEF ShmSpec, ImplementsConnLocks, Locks!Spec
=============================================================================
