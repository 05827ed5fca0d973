---------------------------- MODULE AtomicCommit ----------------------------
(***************************************************************************)
(* What a transaction over several database files promises: its changes    *)
(* appear in all of its files in one step, and when a power failure takes  *)
(* back transactions that were not yet durable, each one disappears from   *)
(* all of its files in one step.                                           *)
(***************************************************************************)
EXTENDS Naturals, FiniteSets

CONSTANTS Files,   \* the database files attached to the connections
          MaxTxn   \* bound on the transactions

VARIABLES part,    \* transaction -> the files it writes
          value    \* file -> the transactions its content includes

Txns == 1..MaxTxn

Init ==
  /\ part = [t \in Txns |-> {}]
  /\ value = [f \in Files |-> {}]

Begin(t, fs) ==
  /\ part[t] = {}
  /\ part' = [part EXCEPT ![t] = fs]
  /\ UNCHANGED value

Commit(t) ==
  /\ value' = [f \in Files |-> value[f] \cup (IF f \in part[t] THEN {t} ELSE {})]
  /\ UNCHANGED part

Lose(lost) ==
  /\ value' = [f \in Files |-> value[f] \ lost]
  /\ UNCHANGED part

Next ==
  \/ \E t \in Txns, fs \in SUBSET Files : Begin(t, fs)
  \/ \E t \in Txns : Commit(t)
  \/ \E lost \in SUBSET Txns : Lose(lost)

Spec == Init /\ [][Next]_<<part, value>>
=============================================================================
