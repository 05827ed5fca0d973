---------------------------- MODULE ForeignKeys -----------------------------
(***************************************************************************)
(* Changes of rows and the foreign keys they must respect: the program an  *)
(* INSERT, UPDATE, DELETE or DROP TABLE is compiled to (insert.go,         *)
(* update.go, delete.go, fkey.go) and the way it ends (Vdbe.Halt,          *)
(* OP_AutoCommit).  Deferred keys are counted on the connection, immediate *)
(* ones on the statement; a row that cannot be stored meets the conflict   *)
(* clause of its statement.                                                *)
(*                                                                         *)
(* A table has an INTEGER PRIMARY KEY, the rowid, and the columns a and b. *)
(* Every foreign key is one column that refers to the rowid of its parent  *)
(* and its actions are NO ACTION (fkActionTrigger never builds another).   *)
(* There are no triggers, no indexes and no other statement is active.     *)
(* The storage below gives back what it held when a statement transaction  *)
(* or a transaction is rolled back.                                        *)
(***************************************************************************)
EXTENDS Integers, Sequences, FiniteSets, SequencesExt, Functions

CONSTANTS
  Schemas,      \* the schemas to try: [tables, keys], see MCForeignKeys
  MaxCount      \* bound: what a counter may reach

VARIABLES
  schema,       \* the tables with their rowids and the values of their columns, and the keys
  db,           \* the tables that exist and their rows
  autoCommit,   \* no transaction was opened by BEGIN
  atBegin,      \* the database when the transaction began
  nDeferredCons,\* violations of deferred keys counted on the connection
  tainted,      \* a statement OR FAIL ended with violations of immediate keys
  loose         \* a violation was counted or left counted that is not there

fkVars == <<schema, db, autoCommit, atBegin, nDeferredCons, tainted, loose>>

FkKeys == schema.keys
NoValue == 0
ConflictClauses == {"Abort", "Rollback", "Fail", "Ignore", "Replace"}

\* A statement under way.  imm is the Vdbe's nFkConstraint, leaked what it
\* counted on the connection without a statement transaction to take it back.
Running(multi) ==
  [db |-> db, def |-> nDeferredCons, imm |-> 0, rc |-> "OK", errorAction |-> "Abort", multi |-> multi]

Counter(s, key) == IF key.deferred THEN s.def ELSE s.imm
FkCounter(s, key, n) == IF key.deferred THEN [s EXCEPT !.def = @ + n] ELSE [s EXCEPT !.imm = @ + n]
FkIfZero(s, key) == Counter(s, key) = 0
HaltConstraint(s, onError) == [s EXCEPT !.rc = "CONSTRAINT", !.errorAction = onError]

KeysFrom(s, t) == SelectSeq(FkKeys, LAMBDA k : k.from = t)
KeysTo(s, t)   == SelectSeq(FkKeys, LAMBDA k : k.to = t /\ k.from \in DOMAIN s.db)

\* A row is added to (n = 1) or taken from (n = -1) the child table.
fkLookupParent(s, key, id, row, n) ==
  LET v == row[key.col]
  IN CASE n < 0 /\ FkIfZero(s, key)     -> s
       [] v = NoValue                   -> s
       [] key.to = key.from /\ n = 1 /\ v = id -> s
       [] v \in DOMAIN s.db[key.to]     -> s
       [] ~key.deferred /\ ~s.multi     -> HaltConstraint(s, "Abort")
       [] OTHER                         -> FkCounter(s, key, n)

Children(s, key, id) == {r \in DOMAIN s.db[key.from] : s.db[key.from][r][key.col] = id}

\* Mutant: the children found are taken as one.
MutScanOne(s, key, id, n) ==
  IF (n < 0 /\ FkIfZero(s, key)) \/ Children(s, key, id) = {} THEN s ELSE FkCounter(s, key, n)

\* A row is taken from (n = 1) or added to (n = -1) the parent table.
fkScanChildren(s, key, id, n) ==
  LET children == Children(s, key, id) \ (IF key.to = key.from /\ n > 0 THEN {id} ELSE {})
  IN IF n < 0 /\ FkIfZero(s, key) THEN s ELSE FkCounter(s, key, n * Cardinality(children))

\* sign is -1 for the row that goes and 1 for the row that comes.
FkCheck(s, t, id, row, sign) ==
  LET child(r, key) == IF r.rc # "OK" THEN r ELSE fkLookupParent(r, key, id, row, sign)
      parent(r, key) == IF r.rc # "OK" \/ (~key.deferred /\ ~r.multi) THEN r
                        ELSE fkScanChildren(r, key, id, -sign)
  IN FoldLeft(parent, FoldLeft(child, s, KeysFrom(s, t)), KeysTo(s, t))

\* columns = {} is a DELETE; "id" stands for the rowid.
sqlite3FkRequired(t, columns) ==
  \E i \in DOMAIN FkKeys :
     \/ FkKeys[i].from = t /\ (columns = {} \/ FkKeys[i].col \in columns)
     \/ FkKeys[i].to = t /\ FkKeys[i].from \in DOMAIN db /\ (columns = {} \/ "id" \in columns)

TakeRow(s, t, id) == [s EXCEPT !.db[t] = Restrict(@, DOMAIN @ \ {id})]
PutRow(s, t, id, row) == [s EXCEPT !.db[t] = [r \in DOMAIN @ \cup {id} |-> IF r = id THEN row ELSE @[r]]]

DeleteChecked(s, t, id) == IF s.rc # "OK" THEN s ELSE TakeRow(s, t, id)
sqlite3GenerateRowDelete(s, t, id) ==
  IF s.rc # "OK" \/ id \notin DOMAIN s.db[t] THEN s
  ELSE DeleteChecked(IF sqlite3FkRequired(t, {}) THEN FkCheck(s, t, id, s.db[t][id], -1) ELSE s, t, id)

\* The rowid a row is to have may be taken.  skip is a jump to the next row.
sqlite3GenerateConstraintChecks(s, t, id, old, onError) ==
  LET taken == id \in DOMAIN s.db[t] /\ id # old
  IN CASE ~taken                -> [s |-> s, skip |-> FALSE]
       [] onError = "Ignore"    -> [s |-> s, skip |-> TRUE]
       [] onError = "Replace"   -> [s |-> sqlite3GenerateRowDelete(s, t, id), skip |-> FALSE]
       [] OTHER                 -> [s |-> HaltConstraint(s, onError), skip |-> FALSE]

InsertChecked(s, t, id, row) == IF s.rc # "OK" THEN s ELSE PutRow(s, t, id, row)
InsertUnless(s, checked, t, id, row) ==
  IF checked.skip THEN s
  ELSE IF checked.s.rc # "OK" THEN checked.s
  ELSE InsertChecked(FkCheck(checked.s, t, id, row, 1), t, id, row)
InsertRow(s, t, id, row, onError) ==
  IF s.rc # "OK" THEN s
  ELSE InsertUnless(s, sqlite3GenerateConstraintChecks(s, t, id, NoValue, onError), t, id, row)

\* Row id becomes row `to`; hasFK is known when the statement is compiled.
ReplaceRow(s, t, id, to, row, hasFK) ==
  LET Old(x) == TakeRow(IF hasFK THEN FkCheck(x, t, id, x.db[t][id], -1) ELSE x, t, id)
      New(x) == IF hasFK THEN FkCheck(x, t, to, row, 1) ELSE x
  IN PutRow(New(Old(s)), t, to, row)
UpdateUnless(s, checked, t, id, to, row, hasFK) ==
  IF checked.skip THEN s
  ELSE IF checked.s.rc # "OK" THEN checked.s
  ELSE ReplaceRow(checked.s, t, id, to, row, hasFK)
UpdateRow(s, t, id, to, row, onError, hasFK) ==
  IF s.rc # "OK" \/ id \notin DOMAIN s.db[t] THEN s
  ELSE UpdateUnless(s, sqlite3GenerateConstraintChecks(s, t, to, id, onError), t, id, to, row, hasFK)

-----------------------------------------------------------------------------
(* How a statement ends.                                                     *)

Rolled == [db |-> atBegin, def |-> 0, ac |-> TRUE]

\* Vdbe.Halt with Vdbe.CloseStatement.  journal: usesStmtJournal; commit: what
\* vdbeCommit returns.
Halt(s, journal, commit) ==
  LET special == s.rc \in {"FULL", "INTERRUPT"}
      rc == IF s.rc = "OK" /\ s.imm > 0 THEN "CONSTRAINT" ELSE s.rc
      done == rc = "OK" \/ (s.errorAction = "Fail" /\ ~special)
      stmt == journal /\ ~autoCommit
  IN CASE special /\ ~(s.rc = "FULL" /\ stmt) -> Rolled
       [] autoCommit -> IF done /\ s.def = 0 /\ commit = "OK" THEN [db |-> s.db, def |-> 0, ac |-> TRUE] ELSE Rolled
       [] done /\ ~special -> [db |-> s.db, def |-> s.def, ac |-> FALSE]
       [] special \/ s.errorAction = "Abort" ->
            IF stmt THEN [db |-> db, def |-> nDeferredCons, ac |-> FALSE]
                    ELSE [db |-> s.db, def |-> s.def, ac |-> FALSE]
       [] OTHER -> Rolled

Violations(d, deferred) ==
  UNION {{<<i, r>> : r \in {x \in DOMAIN d[FkKeys[i].from] :
                              /\ d[FkKeys[i].from][x][FkKeys[i].col] # NoValue
                              /\ \/ FkKeys[i].to \notin DOMAIN d
                                 \/ d[FkKeys[i].from][x][FkKeys[i].col] \notin DOMAIN d[FkKeys[i].to]}}
         : i \in {k \in DOMAIN FkKeys : FkKeys[k].deferred = deferred /\ FkKeys[k].from \in DOMAIN d}}

\* mayAbort is known when the statement is compiled: a conflict clause ABORT, or an
\* immediate key whose counter the statement may raise.
MayAbort(t, onError, comes, goes) ==
  \/ onError = "Abort"
  \/ \E i \in DOMAIN FkKeys : ~FkKeys[i].deferred /\ ((comes /\ FkKeys[i].from = t) \/ (goes /\ FkKeys[i].to = t))

Ended(end, s, xferLoose) ==
  /\ end.def <= MaxCount
  /\ db' = end.db /\ nDeferredCons' = end.def /\ autoCommit' = end.ac
  /\ atBegin' = IF end.ac THEN end.db ELSE atBegin
  /\ tainted' = (tainted \/ (s.rc = "CONSTRAINT" /\ s.errorAction = "Fail" /\ s.imm > 0))
  /\ loose' = (end.def # 0 /\ (loose \/ xferLoose \/ (s.rc # "OK" /\ ~s.multi /\ s.def # nDeferredCons)))
  /\ UNCHANGED schema
Finish(s, mayAbort, xferLoose) ==
  \E commit \in IF autoCommit THEN {"OK", "IOERR"} ELSE {"OK"} :
    Ended(Halt(s, s.multi /\ mayAbort, commit), s, xferLoose)

\* The statement runs out of space or is interrupted after its last row; one that
\* stops earlier is, so far, the statement for fewer rows.
Stops == {"OK", "FULL", "INTERRUPT"}
StopAt(s, x) == IF s.rc = "OK" THEN [s EXCEPT !.rc = x] ELSE s

FkTables == DOMAIN schema.tables
Ids(t) == schema.tables[t].ids
RowsOf(t) == [a : schema.tables[t].a, b : schema.tables[t].b]
ParentsExist(t) == \A i \in DOMAIN FkKeys : FkKeys[i].from = t => FkKeys[i].to \in DOMAIN db
InOrder(S) == SetToSortSeq(S, LAMBDA x, y : x < y)

-----------------------------------------------------------------------------
\* INSERT of one row; a REPLACE may delete one first.
sqlite3Insert(t, onError) ==
  \E id \in Ids(t), row \in RowsOf(t) :
    LET multi == onError = "Replace" /\ sqlite3FkRequired(t, {})
        s == InsertRow(Running(multi), t, id, row, onError)
    IN \E x \in Stops : Finish(StopAt(s, x), MayAbort(t, onError, TRUE, onError = "Replace"), FALSE)

\* INSERT ... SELECT of several rows.
InsertSelect(t, onError) ==
  \E one, two \in Ids(t), row \in RowsOf(t) :
    LET step(s, id) == InsertRow(s, t, id, row, onError)
        s2 == FoldLeft(step, Running(TRUE), <<one, two>>)
    IN \E x \in Stops : Finish(StopAt(s2, x), MayAbort(t, onError, TRUE, onError = "Replace"), FALSE)

\* INSERT ... SELECT * from a table like the destination: the records are moved
\* as they are.  A conflict clause other than ABORT and ROLLBACK needs an empty
\* destination (one that is not takes the way above).
xferOptimization(t, onError) ==
  /\ \A i \in DOMAIN FkKeys : FkKeys[i].from # t
  /\ onError \in {"Abort", "Rollback"} \/ db[t] = <<>>
  /\ \E src \in SUBSET Ids(t) \ {{}}, row \in RowsOf(t) :
       LET step(s, id) == IF s.rc # "OK" THEN s
                          ELSE IF id \in DOMAIN s.db[t] THEN HaltConstraint(s, onError) ELSE PutRow(s, t, id, row)
           s1 == FoldLeft(step, Running(TRUE), InOrder(src))
       IN Finish(s1, onError = "Abort", \E i \in DOMAIN FkKeys : FkKeys[i].to = t /\ FkKeys[i].deferred)

sqlite3DeleteFrom(t) ==
  \E W \in SUBSET DOMAIN db[t] :
    LET step(s, id) == sqlite3GenerateRowDelete(s, t, id)
        s1 == FoldLeft(step, Running(TRUE), InOrder(W))
    IN \E x \in Stops : Finish(StopAt(s1, x), MayAbort(t, "None", FALSE, TRUE), FALSE)

\* SET id = id + 1 or id - 1, or SET a = a value, of the rows W.
sqlite3Update(t, onError) ==
  \E W \in SUBSET DOMAIN db[t] :
    \E set \in ({"id"} \X {-1, 1}) \cup ({"a"} \X schema.tables[t].a) :
      LET columns == {set[1]}
          by == IF set[1] = "id" THEN set[2] ELSE 0
          hasFK == sqlite3FkRequired(t, columns)
          new(s, id) == IF set[1] = "id" THEN s.db[t][id] ELSE [s.db[t][id] EXCEPT !.a = set[2]]
          step(s, id) == IF id \notin DOMAIN s.db[t] THEN s ELSE UpdateRow(s, t, id, id + by, new(s, id), onError, hasFK)
          s1 == FoldLeft(step, Running(TRUE), InOrder(W))
      IN /\ \A id \in W : id + by \in Ids(t)
         /\ by = 0 => onError = "Abort"     \* the clause is not consulted: any will do
         /\ \E x \in Stops :
              Finish(StopAt(s1, x), MayAbort(t, IF by = 0 THEN "None" ELSE onError, hasFK, hasFK \/ onError = "Replace"), FALSE)

\* sqlite3DropTable: the rows of a parent, and of a child of a deferred key while
\* violations are counted, are deleted first.
sqlite3DropTable(t) ==
  LET referenced == KeysTo(Running(TRUE), t) # <<>>
      deferred == \E i \in DOMAIN FkKeys : FkKeys[i].from = t /\ FkKeys[i].deferred
      step(s, id) == sqlite3GenerateRowDelete(s, t, id)
      emptied == IF referenced \/ (deferred /\ nDeferredCons # 0)
                 THEN FoldLeft(step, Running(TRUE), InOrder(DOMAIN db[t])) ELSE Running(TRUE)
      s == IF emptied.imm # 0 THEN HaltConstraint(emptied, "Abort")
           ELSE [emptied EXCEPT !.db = Restrict(@, DOMAIN @ \ {t})]
  IN Finish(s, TRUE, FALSE)

FkCreateTable(t) ==
  Finish([Running(TRUE) EXCEPT !.db = [u \in DOMAIN @ \cup {t} |-> IF u = t THEN <<>> ELSE @[u]]], TRUE, FALSE)

\* OP_AutoCommit.
Begin ==
  /\ autoCommit /\ autoCommit' = FALSE
  /\ UNCHANGED <<schema, db, atBegin, nDeferredCons, tainted, loose>>

FkCommit ==
  /\ ~autoCommit
  /\ nDeferredCons = 0
  /\ \E commit \in {"OK", "BUSY", "IOERR"} :
       IF commit = "BUSY" THEN UNCHANGED <<db, atBegin, autoCommit>>
       ELSE /\ autoCommit' = TRUE
            /\ db' = IF commit = "OK" THEN db ELSE atBegin
            /\ atBegin' = db'
  /\ UNCHANGED <<schema, nDeferredCons, tainted, loose>>

FkRollback ==
  /\ ~autoCommit
  /\ autoCommit' = TRUE /\ db' = atBegin /\ nDeferredCons' = 0 /\ loose' = FALSE
  /\ UNCHANGED <<schema, atBegin, tainted>>

FkInit ==
  /\ schema \in Schemas
  /\ db = [t \in FkTables |-> <<>>]
  /\ atBegin = db
  /\ autoCommit = TRUE /\ nDeferredCons = 0
  /\ tainted = FALSE /\ loose = FALSE

FkNext ==
  \/ \E t \in DOMAIN db :
       /\ ParentsExist(t)
       /\ \/ \E c \in ConflictClauses : sqlite3Insert(t, c) \/ InsertSelect(t, c) \/ xferOptimization(t, c) \/ sqlite3Update(t, c)
          \/ sqlite3DeleteFrom(t)
          \/ sqlite3DropTable(t)
  \/ \E t \in FkTables \ DOMAIN db : FkCreateTable(t)
  \/ Begin \/ FkCommit \/ FkRollback

FkSpec == FkInit /\ [][FkNext]_fkVars

-----------------------------------------------------------------------------
\* Types.
FkTypeOK ==
  /\ autoCommit \in BOOLEAN /\ nDeferredCons \in 0..MaxCount
  /\ DOMAIN db \subseteq FkTables
  /\ \A t \in DOMAIN db : DOMAIN db[t] \subseteq Ids(t) /\ \A id \in DOMAIN db[t] : db[t][id] \in RowsOf(t)
  /\ autoCommit => nDeferredCons = 0 /\ atBegin = db

\* The counter of the connection is the number of rows that violate a deferred key,
\* whatever the statements did, however they ended and in whatever order; it is never
\* less.  It is more only after a single INSERT was refused behind a deferred key it
\* violated, or rows were moved unread into a parent table.
CounterExact ==
  ~tainted => /\ nDeferredCons >= Cardinality(Violations(db, TRUE))
              /\ ~loose => nDeferredCons = Cardinality(Violations(db, TRUE))

\* No statement leaves a row behind that violates an immediate key, unless it was to
\* keep what it had done when it failed (OR FAIL).
ImmediateKept == ~tainted => Violations(db, FALSE) = {}

\* Nothing that violates a key is ever committed.
NothingViolatedCommitted == ~tainted => Violations(atBegin, TRUE) = {} /\ Violations(atBegin, FALSE) = {}

\* Foreign keys are enforced: the counter is right, and no violation is left by a
\* statement or committed.
KeysEnforced == FkTypeOK /\ CounterExact /\ ImmediateKept /\ NothingViolatedCommitted
=============================================================================
