------------------------------ MODULE BtMutex ------------------------------
(***************************************************************************)
(* btree/btmutex.go: the mutexes of shared B-trees.  A connection enters   *)
(* them in any order and recursively; when one is taken it gives up those  *)
(* with a larger address, waits, and takes them again in ascending order.  *)
(* Two methods of the source are called Lock: the first, which takes the   *)
(* mutex, is the one the second calls.                                     *)
(***************************************************************************)
EXTENDS Naturals

CONSTANTS BtConns,    \* connections, each used by one thread at a time
          Shared,     \* the addresses of the BtShared objects, numbers
          TopAddress, \* the largest address there is
          Nobody,     \* no connection
          MaxNest     \* bound on the nesting of Lock calls

ASSUME AddressAssumption == Shared \subseteq Nat
ASSUME BoundAssumption == TopAddress \in Nat /\ \A b \in Shared : b <= TopAddress
ASSUME NobodyAssumption == Nobody \notin BtConns
ASSUME NestAssumption == MaxNest \in Nat

VARIABLES holder,   \* BtShared.mutex: the connection that has it
          dbOf,     \* BtShared.db
          locked,   \* connection -> the B-trees with locked set
          want,     \* connection -> B-tree -> wantToLock
          at, on    \* connection -> where it is in Lock, and the B-tree it is at

btVars == <<holder, dbOf, locked, want, at, on>>

\* The sharable B-trees of the connection with a larger address (the list Next).
Later(b) == {l \in Shared : l > b}

BtInit ==
  /\ holder = [b \in Shared |-> Nobody] /\ dbOf = [b \in Shared |-> Nobody]
  /\ locked = [c \in BtConns |-> {}]
  /\ want = [c \in BtConns |-> [b \in Shared |-> 0]]
  /\ at = [c \in BtConns |-> "out"] /\ on = [c \in BtConns |-> 0]

\* The first Lock method after its mutex came free, and a successful TestLock.
Take(c, b) ==
  /\ holder[b] = Nobody
  /\ holder' = [holder EXCEPT ![b] = c]
  /\ dbOf' = [dbOf EXCEPT ![b] = c]
  /\ locked' = [locked EXCEPT ![c] = @ \cup {b}]

\* The first Unlock method.
Give(c, b) ==
  /\ holder' = [holder EXCEPT ![b] = Nobody]
  /\ locked' = [locked EXCEPT ![c] = @ \ {b}]
  /\ UNCHANGED dbOf

\* Lock up to the result of TestLock.
Enter(c, b) ==
  /\ at[c] = "out" /\ want[c][b] < MaxNest
  /\ want' = [want EXCEPT ![c][b] = @ + 1]
  /\ \/ b \in locked[c] /\ UNCHANGED <<holder, dbOf, locked, at, on>>
     \/ b \notin locked[c] /\ Take(c, b) /\ UNCHANGED <<at, on>>
     \/ /\ b \notin locked[c] /\ holder[b] # Nobody
        /\ at' = [at EXCEPT ![c] = "drop"] /\ on' = [on EXCEPT ![c] = b]
        /\ UNCHANGED <<holder, dbOf, locked>>

\* Mutant: the mutexes with a larger address are kept.
MutDropNothing(c) ==
  /\ at[c] = "drop"
  /\ at' = [at EXCEPT ![c] = "wait"] /\ UNCHANGED <<holder, dbOf, locked, want, on>>

\* The loop that gives up the later mutexes, one at a time.
Drop(c) ==
  /\ at[c] = "drop"
  /\ \/ /\ \E l \in Later(on[c]) \cap locked[c] :
             (\A m \in Later(on[c]) \cap locked[c] : l <= m) /\ Give(c, l)
        /\ UNCHANGED <<at, on>>
     \/ /\ Later(on[c]) \cap locked[c] = {}
        /\ at' = [at EXCEPT ![c] = "wait"] /\ UNCHANGED <<holder, dbOf, locked, on>>
  /\ UNCHANGED want

\* The blocking Lock of the mutex that was asked for.
Wait(c) ==
  /\ at[c] = "wait" /\ Take(c, on[c])
  /\ at' = [at EXCEPT ![c] = "again"]
  /\ UNCHANGED <<want, on>>

\* The next mutex of the loop that takes the later ones again.
IsNext(c, l) ==
  /\ l \in Later(on[c]) /\ want[c][l] > 0
  /\ \A m \in Later(on[c]) : want[c][m] > 0 => l <= m

\* Mutant: the mutexes that were given up are not taken again.
MutReturnWithout(c) ==
  /\ at[c] = "again"
  /\ at' = [at EXCEPT ![c] = "out"] /\ UNCHANGED <<holder, dbOf, locked, want, on>>

Again(c) ==
  /\ at[c] = "again"
  /\ \/ /\ \E l \in Shared : IsNext(c, l) /\ Take(c, l) /\ on' = [on EXCEPT ![c] = l]
        /\ UNCHANGED at
     \/ /\ \A l \in Later(on[c]) : want[c][l] = 0
        /\ at' = [at EXCEPT ![c] = "out"] /\ UNCHANGED <<holder, dbOf, locked, on>>
  /\ UNCHANGED want

\* Unlock.
Leave(c, b) ==
  /\ at[c] = "out" /\ want[c][b] > 0
  /\ want' = [want EXCEPT ![c][b] = @ - 1]
  /\ IF want[c][b] = 1 THEN Give(c, b) ELSE UNCHANGED <<holder, dbOf, locked>>
  /\ UNCHANGED <<at, on>>

BtStep ==
  \E c \in BtConns :
    \/ \E b \in Shared : Enter(c, b) \/ Leave(c, b)
    \/ Drop(c) \/ Wait(c) \/ Again(c)

BtSpec == BtInit /\ [][BtStep]_btVars

-----------------------------------------------------------------------------
\* Types; a mutex has at most the one holder whose locked flag is set, and
\* BtShared.db is that connection (the assertion of Unlock).
BtTypeOK ==
  /\ holder \in [Shared -> BtConns \cup {Nobody}] /\ dbOf \in [Shared -> BtConns \cup {Nobody}]
  /\ locked \in [BtConns -> SUBSET Shared] /\ want \in [BtConns -> [Shared -> 0..MaxNest]]
  /\ at \in [BtConns -> {"out", "drop", "wait", "again"}] /\ on \in [BtConns -> Shared \cup {0}]
  /\ \A c \in BtConns : at[c] # "out" => on[c] \in Shared
  /\ \A c \in BtConns, b \in Shared : b \in locked[c] <=> holder[b] = c
  /\ \A b \in Shared : holder[b] # Nobody => dbOf[b] = holder[b]

\* When Lock returns, the connection has every mutex it has asked for and not
\* released: also those that were given up on the way, and however often
\* others took them in between.
AllWantedHeld ==
  \A c \in BtConns : at[c] = "out" => \A b \in Shared : want[c][b] > 0 <=> b \in locked[c]

\* The mutexes connection c may be waiting for.
WaitsOn(c, b) ==
  \/ at[c] = "wait" /\ b = on[c]
  \/ at[c] = "again" /\ b \in Shared /\ IsNext(c, b)

\* A connection that waits holds only mutexes with a smaller address than the
\* one it waits for ("locked in the same order by all database connections").
AscendingOrder ==
  \A c \in BtConns, b \in Shared : WaitsOn(c, b) => \A h \in locked[c] : h < b

\* No set of connections wait for each other.
NoDeadlock ==
  \A S \in SUBSET BtConns :
    S # {} => \E c \in S : ~\E b \in Shared : WaitsOn(c, b) /\ holder[b] \in S
=============================================================================
