------------------------------- MODULE MCWal -------------------------------
(* Small instances of Wal.                                                  *)
EXTENDS Wal, TLC

CONSTANTS c1, c2, c3

\* Page lists of transactions.
OnePage == {<<1>>}
OneOrTwo == {<<1>>, <<2, 1>>}
TwoPages == {<<1>>, <<2>>}

\* The connections run the same code.
Peers == Permutations(Conns)
=============================================================================
