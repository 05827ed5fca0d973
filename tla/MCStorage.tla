----------------------------- MODULE MCStorage ------------------------------
(***************************************************************************)
(* Small instances of the pages of a B-tree file, of row changes under     *)
(* foreign keys, and of the set of rowids.  They do not share state: a     *)
(* behaviour takes steps of one of them, and the others stay in an initial *)
(* state.                                                                  *)
(***************************************************************************)
EXTENDS BtreePages, ForeignKeys, RowSet

VARIABLE part   \* the component that runs

-----------------------------------------------------------------------------
(* BtreePages: the operations that fill the file.                          *)
MCStarts ==
  {<<>>,
   <<<<"create", "a">>, <<"insert", "a", 1, 2>>, <<"insert", "a", 2, 1>>, <<"commit">>>>,
   <<<<"create", "a">>, <<"create", "b">>, <<"insert", "a", 1, 2>>, <<"insert", "b", 1, 1>>,
     <<"commit">>, <<"delete", "a", 1>>, <<"commit">>>>,
   <<<<"create", "a">>, <<"deepen", "a">>, <<"commit">>>>}

-----------------------------------------------------------------------------
(* ForeignKeys: a parent and a child joined by an immediate or a deferred  *)
(* key, with two parent or two child rows, a table that refers to itself,  *)
(* and a child with one key of each kind, in both orders.                  *)
TableOf(ids, a, b) == [ids |-> ids, a |-> a, b |-> b]
KeyOf(from, col, to, deferred) == [from |-> from, col |-> col, to |-> to, deferred |-> deferred]

Pair(deferred) ==
  [tables |-> [p |-> TableOf(1..2, {0}, {0}), c |-> TableOf(1..1, 1..2, {0})],
   keys |-> <<KeyOf("c", "a", "p", deferred)>>]
Many(deferred) ==
  [tables |-> [p |-> TableOf(1..1, {0}, {0}), c |-> TableOf(1..2, 1..1, {0})],
   keys |-> <<KeyOf("c", "a", "p", deferred)>>]
Alone(deferred) ==
  [tables |-> [t |-> TableOf(1..2, 0..2, {0})], keys |-> <<KeyOf("t", "a", "t", deferred)>>]
Both(first) ==
  [tables |-> [p |-> TableOf(1..1, {0}, {0}), c |-> TableOf(1..1, 0..1, 0..1)],
   keys |-> <<KeyOf("c", "a", "p", first), KeyOf("c", "b", "p", ~first)>>]

MCSchemas == UNION {{Pair(b), Many(b), Alone(b), Both(b)} : b \in BOOLEAN}

\* What follows a statement that kept violations is not looked at.
Untainted == ~tainted

-----------------------------------------------------------------------------
StorageInit ==
  /\ part \in {"pages", "keys", "rowset"}
  /\ PagesInit /\ (part = "pages" \/ (plan = <<>> /\ d.mode = "none"))
  /\ FkInit /\ (part = "keys" \/ schema = Alone(TRUE))
  /\ RowSetInit

StorageNext ==
  \/ part = "pages" /\ PagesNext /\ UNCHANGED <<part, fkVars, rowSetVars>>
  \/ part = "keys" /\ FkNext /\ UNCHANGED <<part, pageVars, rowSetVars>>
  \/ part = "rowset" /\ RowSetStep /\ UNCHANGED <<part, pageVars, fkVars>>

StorageSpec == StorageInit /\ [][StorageNext]_<<part, pageVars, fkVars, rowSetVars>>
=============================================================================
