-------------------------------- MODULE Vdbe --------------------------------
(***************************************************************************)
(* The virtual machine (vdbe.go): one action per opcode, or per family of  *)
(* opcodes that share a case of the switch.  An address is that of         *)
(* instruction program[address + 1].  A register holds an SQL value (Null  *)
(* or an integer), a record (a tuple of values), a set of rowids, or an    *)
(* accumulator; Invalid is MEM_Invalid.  A cursor holds the entries it     *)
(* runs over, in their order, and the position of the one it is on: 0 when *)
(* it is on none.  An entry has a key k and a record d.                    *)
(***************************************************************************)
EXTENDS ExprCode, FiniteSets

CONSTANTS Invalid,      \* the content of a register nothing was stored in
          MaxReset      \* how often the application starts over

VARIABLES db,           \* the entries of every table and index
          program, pc, aMem, apCsr, aOnceFlag,
          iCompare, aPermute,
          result,       \* the rows delivered to the application
          magic,        \* "init", "run", "row" between two steps, "halt", "error"
          resets

machine == <<pc, aMem, apCsr, aOnceFlag, iCompare, aPermute, result, magic>>

-----------------------------------------------------------------------------
(* Values and records. *)

MemCompare(x, y) ==
  IF x = y THEN 0 ELSE IF x = Null THEN -1 ELSE IF y = Null THEN 1 ELSE IF x < y THEN -1 ELSE 1

\* Compare an entry with a key that may have fewer fields: desc says which
\* fields sort downwards, and flags what decides when the fields agree.
RecordCompare(d, key, desc, flags) ==
  LET differ == {i \in DOMAIN d \intersect DOMAIN key : d[i] # key[i]}
      i == CHOOSE j \in differ : \A h \in differ : j <= h
      c == MemCompare(d[i], key[i])
  IN  IF differ # {} THEN (IF i \in DOMAIN desc /\ desc[i] THEN -c ELSE c)
      ELSE IF "INCRKEY" \in flags THEN -1
      ELSE IF "PREFIX_MATCH" \in flags \/ Len(d) <= Len(key) THEN 0 ELSE 1

Integerify(x) == IF x = Null THEN 0 ELSE x
Truth(x) == x # Null /\ x # 0
Bool(b) == IF b THEN 1 ELSE 0

\* Integer division truncates, and x % -1 is computed as x % 1.
Quotient(x, y) ==
  LET a == IF x < 0 THEN -x ELSE x
      b == IF y < 0 THEN -y ELSE y
  IN  IF (x < 0) = (y < 0) THEN a \div b ELSE -(a \div b)

Arithmetic(op, x, y) ==
  CASE x = Null \/ y = Null -> Null
    [] op \in {"Divide", "Remainder"} /\ y = 0 -> Null
    [] op = "Add" -> x + y
    [] op = "Subtract" -> x - y
    [] op = "Multiply" -> x * y
    [] op = "Divide" -> Quotient(x, y)
    [] op = "Remainder" -> x - y * Quotient(x, y)

AndLogic(x, y) == IF x = 0 \/ y = 0 THEN 0 ELSE IF x = Null \/ y = Null THEN Null ELSE 1
OrLogic(x, y) == IF Truth(x) \/ Truth(y) THEN 1 ELSE IF x = Null \/ y = Null THEN Null ELSE 0

Compares(op, c) ==
  CASE op = "Eq" -> c = 0 [] op = "Ne" -> c # 0 [] op = "Lt" -> c < 0
    [] op = "Le" -> c <= 0 [] op = "Gt" -> c > 0 [] op = "Ge" -> c >= 0

\* The scalar functions min() and max(): a NULL argument makes the result NULL.
minmaxFunc(name, args) ==
  IF \E i \in DOMAIN args : args[i] = Null THEN Null
  ELSE LET values == {args[i] : i \in DOMAIN args}
       IN  CHOOSE v \in values : \A u \in values : IF name = "max" THEN u <= v ELSE v <= u

\* An accumulator: how many values were taken and what they came to.  The
\* step function of min() and max() says when the value changes nothing.
StepFunction(name, acc, args) ==
  LET a == IF acc = Null THEN [cnt |-> 0, v |-> Null] ELSE acc
      x == args[1]
      better == \/ a.cnt = 0
                \/ name = "max" /\ MemCompare(a.v, x) < 0
                \/ name = "min" /\ MemCompare(a.v, x) > 0
  IN  CASE name = "count" ->
             [acc |-> IF args # << >> /\ x = Null THEN a ELSE [a EXCEPT !.cnt = @ + 1], skip |-> FALSE]
        [] name = "sum" ->
             [acc |-> IF x = Null THEN a ELSE [cnt |-> a.cnt + 1, v |-> Integerify(a.v) + x],
              skip |-> FALSE]
        [] name \in {"min", "max"} ->
             IF x = Null THEN [acc |-> a, skip |-> a.cnt > 0]
             ELSE IF better THEN [acc |-> [cnt |-> 1, v |-> x], skip |-> FALSE]
             ELSE [acc |-> a, skip |-> TRUE]

Finalize(name, acc) ==
  IF name = "count" THEN (IF acc = Null THEN 0 ELSE acc.cnt)
  ELSE IF acc = Null THEN Null ELSE acc.v

-----------------------------------------------------------------------------
(* Cursors. *)

allocateCursor(kind, rows, desc) ==
  [kind |-> kind, rows |-> rows, pos |-> 0, nullRow |-> TRUE, deferred |-> FALSE, target |-> 0,
   desc |-> desc, reg |-> 0, cache |-> Null, seq |-> 0]

\* The first or the last entry that passes a test, or 0.
FirstOf(S) == IF S = {} THEN 0 ELSE CHOOSE i \in S : \A j \in S : i <= j
LastOf(S) == IF S = {} THEN 0 ELSE CHOOSE i \in S : \A j \in S : j <= i

AtRowid(c, k) == FirstOf({i \in DOMAIN c.rows : c.rows[i].k = k})

\* Where a seek for the key puts the cursor.
SeekPosition(c, opcode, key) ==
  LET flags == IF opcode \in {"SeekGt", "SeekLe"} THEN {"INCRKEY"} ELSE {}
      Side(i) == IF c.kind = "table"
                 THEN IF opcode \in {"SeekGt", "SeekLe"} /\ c.rows[i].k = key THEN -1
                      ELSE MemCompare(c.rows[i].k, key)
                 ELSE RecordCompare(c.rows[i].d, key, c.desc, flags)
  IN  IF opcode \in {"SeekGe", "SeekGt"} THEN FirstOf({i \in DOMAIN c.rows : Side(i) >= 0})
      ELSE LastOf({i \in DOMAIN c.rows : Side(i) < 0})

\* An entry with the same key is replaced.
BtreeInsert(c, entry) ==
  LET Side(i) == IF c.kind = "table" THEN MemCompare(c.rows[i].k, entry.k)
                 ELSE RecordCompare(c.rows[i].d, SubSeq(entry.d, 1, IF Len(entry.d) > Len(c.desc)
                                                                    THEN Len(c.desc) + 1
                                                                    ELSE Len(entry.d)), c.desc, {})
      before == LastOf({i \in DOMAIN c.rows : Side(i) < 0})
      after == {i \in DOMAIN c.rows : Side(i) > 0}
  IN  [c EXCEPT !.rows = SubSeq(@, 1, before) \o <<entry>>
                         \o (IF after = {} THEN << >> ELSE SubSeq(@, FirstOf(after), Len(@))),
                !.pos = 0, !.deferred = FALSE]
BtreeDelete(c, i) == [c EXCEPT !.rows = SubSeq(@, 1, i - 1) \o SubSeq(@, i + 1, Len(@)), !.pos = 0]

\* Carry out a seek that was put off.
VdbeCursorMoveto(c) ==
  IF c.deferred THEN [c EXCEPT !.pos = AtRowid(c, c.target), !.deferred = FALSE] ELSE c

SorterRewind(c) ==
  [c EXCEPT !.rows = SortSeq(@, LAMBDA x, y : RecordCompare(x.d, SubSeq(y.d, 1, Len(c.desc) + 1),
                                                             c.desc, {"PREFIX_MATCH"}) < 0)]

-----------------------------------------------------------------------------
(* One step of the machine. *)

O == program[pc + 1]
At(opcodes) == magic = "run" /\ O.opcode \in opcodes
Regs(first, n) == [i \in 1 .. n |-> aMem[first + i - 1]]
Csr == apCsr[O.p1]

Machine(mem, csr, addr) ==
  /\ aMem' = mem /\ apCsr' = csr /\ pc' = addr
  /\ UNCHANGED <<db, program, aOnceFlag, iCompare, aPermute, result, magic, resets>>
Store(r, v) == Machine([aMem EXCEPT ![r] = v], apCsr, pc + 1)
Branch(taken) == Machine(aMem, apCsr, IF taken THEN O.p2 ELSE pc + 1)
Put(c) == Machine(aMem, [apCsr EXCEPT ![O.p1] = c], pc + 1)
PutBranch(c, taken) == Machine(aMem, [apCsr EXCEPT ![O.p1] = c], IF taken THEN O.p2 ELSE pc + 1)

\* All cursors are closed and the flags of OP_Once are cleared.
Halt ==
  /\ apCsr' = [c \in DOMAIN apCsr |-> Null] /\ aMem' = [r \in DOMAIN aMem |-> Invalid]
  /\ aOnceFlag' = [i \in DOMAIN aOnceFlag |-> FALSE]
Fail == Halt /\ magic' = "error" /\ UNCHANGED <<db, program, pc, iCompare, aPermute, result, resets>>

OP_Goto == At({"Goto"}) /\ Branch(TRUE)
OP_Gosub == At({"Gosub"}) /\ Machine([aMem EXCEPT ![O.p1] = pc], apCsr, O.p2)
OP_Return == At({"Return"}) /\ Machine(aMem, apCsr, aMem[O.p1] + 1)
OP_Yield == At({"Yield"}) /\ Machine([aMem EXCEPT ![O.p1] = pc], apCsr, aMem[O.p1] + 1)
OP_Halt ==
  /\ At({"Halt"}) /\ Halt /\ magic' = "halt"
  /\ UNCHANGED <<db, program, pc, iCompare, aPermute, result, resets>>

OP_Integer == At({"Integer"}) /\ Store(O.p2, O.p1)
OP_Null ==
  /\ At({"Null"})
  /\ Machine([r \in DOMAIN aMem |-> IF r = O.p2 \/ r \in O.p2 .. O.p3 THEN Null ELSE aMem[r]],
             apCsr, pc + 1)
OP_Move ==
  /\ At({"Move"})
  /\ Machine([r \in DOMAIN aMem |->
                IF r \in O.p2 .. O.p2 + O.p3 - 1 THEN aMem[r - O.p2 + O.p1]
                ELSE IF r \in O.p1 .. O.p1 + O.p3 - 1 THEN Null ELSE aMem[r]], apCsr, pc + 1)
OP_Copy == At({"Copy", "SCopy"}) /\ Store(O.p2, aMem[O.p1])

\* A row is handed to the application, which may ask for the next one or not.
OP_ResultRow ==
  /\ At({"ResultRow"})
  /\ result' = Append(result, Regs(O.p1, O.p2)) /\ magic' = "row" /\ pc' = pc + 1
  /\ UNCHANGED <<db, program, aMem, apCsr, aOnceFlag, iCompare, aPermute, resets>>
Step == magic = "row" /\ magic' = "run" /\ UNCHANGED <<db, program, pc, aMem, apCsr, aOnceFlag, iCompare,
                                                       aPermute, result, resets>>
Reset ==
  /\ magic \in {"row", "halt", "error"} /\ resets < MaxReset
  /\ resets' = resets + 1 /\ Halt /\ magic' = "run" /\ pc' = 0 /\ result' = << >>
  /\ iCompare' = 0 /\ aPermute' = << >> /\ UNCHANGED <<db, program>>

OP_Arithmetic ==
  /\ At({"Add", "Subtract", "Multiply", "Divide", "Remainder"})
  /\ Store(O.p3, Arithmetic(O.opcode, aMem[O.p2], aMem[O.p1]))
OP_AddImm == At({"AddImm"}) /\ Store(O.p1, Integerify(aMem[O.p1]) + O.p2)
OP_MustBeInt ==
  /\ At({"MustBeInt"})
  /\ IF aMem[O.p1] = Null /\ O.p2 = 0 THEN Fail ELSE Branch(aMem[O.p1] = Null)

\* With NullEq a NULL equals a NULL; without it a NULL operand makes the
\* outcome unknown.
OP_Comparison ==
  /\ At(Comparisons)
  /\ LET x == aMem[O.p3]
         y == aMem[O.p1]
         null == x = Null \/ y = Null
         holds == IF null THEN Compares(O.opcode, IF x = Null /\ y = Null THEN 0 ELSE 1)
                  ELSE Compares(O.opcode, MemCompare(x, y))
     IN  IF null /\ "NullEq" \notin O.p5
         THEN IF "StoreP2" \in O.p5 THEN Store(O.p2, Null) ELSE Branch("JumpIfNull" \in O.p5)
         ELSE IF "StoreP2" \in O.p5 THEN Store(O.p2, Bool(holds)) ELSE Branch(holds)
OP_And == At({"And"}) /\ Store(O.p3, AndLogic(aMem[O.p1], aMem[O.p2]))
OP_Or == At({"Or"}) /\ Store(O.p3, OrLogic(aMem[O.p1], aMem[O.p2]))
OP_Not ==
  At({"Not"}) /\ Store(O.p2, IF aMem[O.p1] = Null THEN Null ELSE Bool(aMem[O.p1] = 0))
\* Mutant: a NULL never jumps.
MutIfNull ==
  /\ At({"If", "IfNot"})
  /\ Branch(aMem[O.p1] # Null /\ (aMem[O.p1] # 0) = (O.opcode = "If"))
OP_If ==
  /\ At({"If", "IfNot"})
  /\ Branch(IF aMem[O.p1] = Null THEN O.p3 # 0 ELSE (aMem[O.p1] # 0) = (O.opcode = "If"))
OP_IsNull == At({"IsNull", "NotNull"}) /\ Branch((aMem[O.p1] = Null) = (O.opcode = "IsNull"))
OP_IfPos == At({"IfPos"}) /\ Branch(aMem[O.p1] > 0)
OP_IfNeg == At({"IfNeg"}) /\ Branch(aMem[O.p1] < 0)
OP_IfZero ==
  /\ At({"IfZero"})
  /\ Machine([aMem EXCEPT ![O.p1] = @ + O.p3], apCsr, IF aMem[O.p1] + O.p3 = 0 THEN O.p2 ELSE pc + 1)
OP_Once ==
  /\ At({"Once"})
  /\ aOnceFlag' = [aOnceFlag EXCEPT ![O.p1] = TRUE]
  /\ pc' = IF aOnceFlag[O.p1] THEN O.p2 ELSE pc + 1
  /\ UNCHANGED <<db, program, aMem, apCsr, iCompare, aPermute, result, magic, resets>>

OP_Permutation ==
  /\ At({"Permutation"}) /\ aPermute' = O.p4 /\ pc' = pc + 1
  /\ UNCHANGED <<db, program, aMem, apCsr, aOnceFlag, iCompare, result, magic, resets>>
OP_Compare ==
  /\ At({"Compare"})
  /\ LET Field(first) == [i \in 1 .. O.p3 |->
                            aMem[first + (IF aPermute = << >> THEN i - 1 ELSE aPermute[i])]]
     IN  iCompare' = RecordCompare(Field(O.p1), Field(O.p2), O.p4, {})
  /\ aPermute' = << >> /\ pc' = pc + 1
  /\ UNCHANGED <<db, program, aMem, apCsr, aOnceFlag, result, magic, resets>>
OP_Jump ==
  At({"Jump"}) /\ Machine(aMem, apCsr, IF iCompare < 0 THEN O.p1 ELSE IF iCompare = 0 THEN O.p2 ELSE O.p3)

OP_Function == At({"Function"}) /\ Store(O.p3, minmaxFunc(O.p4, Regs(O.p2, O.p1)))
OP_CollSeq ==
  At({"CollSeq"}) /\ Machine(IF O.p1 = 0 THEN aMem ELSE [aMem EXCEPT ![O.p1] = 0], apCsr, pc + 1)
OP_AggStep ==
  /\ At({"AggStep"})
  /\ LET s == StepFunction(O.p4, aMem[O.p3], Regs(O.p2, O.p1))
         hit == program[pc].p1
         m == [aMem EXCEPT ![O.p3] = s.acc]
     IN  Machine(IF s.skip /\ hit # 0 THEN [m EXCEPT ![hit] = 1] ELSE m, apCsr, pc + 1)
OP_AggFinal == At({"AggFinal"}) /\ Store(O.p1, Finalize(O.p4, aMem[O.p1]))

-----------------------------------------------------------------------------
(* Opcodes that work on a cursor. *)

OP_OpenRead ==
  At({"OpenRead"}) /\ Put(allocateCursor(IF O.p4 = Null THEN "table" ELSE "index", db[O.p2], O.p4))
OP_OpenEphemeral ==
  /\ At({"OpenEphemeral", "OpenAutoindex"})
  /\ Put(allocateCursor(IF O.p4 = Null THEN "table" ELSE "index", << >>, O.p4))
OP_SorterOpen == At({"SorterOpen"}) /\ Put(allocateCursor("sorter", << >>, O.p4))
OP_OpenPseudo ==
  At({"OpenPseudo"}) /\ Put([allocateCursor("pseudo", << >>, 0) EXCEPT !.reg = O.p2, !.nullRow = FALSE])
OP_Close == At({"Close"}) /\ Put(Null)

\* A field of the row.  A pseudo-table is parsed again only when the cache is
\* cleared: until then its fields are those of the record it saw last.
OP_Column ==
  /\ At({"Column"})
  /\ LET c == VdbeCursorMoveto(Csr)
         d == IF c.kind = "pseudo" THEN IF "CLEARCACHE" \in O.p5 THEN aMem[c.reg] ELSE c.cache
              ELSE c.rows[c.pos].d
         v == IF c.nullRow \/ O.p2 >= Len(d) THEN Null ELSE d[O.p2 + 1]
     IN  IF Csr.deferred /\ c.pos = 0 THEN Fail
         ELSE Machine([aMem EXCEPT ![O.p3] = v],
                      [apCsr EXCEPT ![O.p1] = IF c.kind = "pseudo" THEN [c EXCEPT !.cache = d] ELSE c],
                      pc + 1)
OP_MakeRecord == At({"MakeRecord"}) /\ Store(O.p3, Regs(O.p1, O.p2))
OP_Count == At({"Count"}) /\ Store(O.p2, Len(Csr.rows))

\* A key that is no integer ends a seek in a table at once.
OP_SeekGe ==
  /\ At({"SeekLt", "SeekLe", "SeekGe", "SeekGt"})
  /\ LET c == Csr
         key == IF c.kind = "table" THEN Integerify(aMem[O.p3]) ELSE Regs(O.p3, O.p4)
         pos == SeekPosition(c, O.opcode, key)
     IN  PutBranch([c EXCEPT !.pos = pos, !.nullRow = FALSE, !.deferred = FALSE],
                   pos = 0 \/ (c.kind = "table" /\ aMem[O.p3] = Null))
OP_Seek ==
  At({"Seek"}) /\ Put([Csr EXCEPT !.nullRow = FALSE, !.target = Integerify(aMem[O.p2]), !.deferred = TRUE])
OP_Found ==
  /\ At({"Found", "NotFound"})
  /\ LET key == IF O.p4 = 0 THEN aMem[O.p3] ELSE Regs(O.p3, O.p4)
         pos == FirstOf({i \in DOMAIN Csr.rows :
                           RecordCompare(Csr.rows[i].d, key, Csr.desc, {"PREFIX_MATCH"}) = 0})
     IN  PutBranch([Csr EXCEPT !.pos = pos, !.deferred = FALSE], (pos # 0) = (O.opcode = "Found"))
OP_NotExists ==
  /\ At({"NotExists"})
  /\ LET pos == AtRowid(Csr, aMem[O.p3])
     IN  PutBranch([Csr EXCEPT !.pos = pos, !.nullRow = FALSE, !.deferred = FALSE], pos = 0)

OP_Sequence ==
  At({"Sequence"}) /\ Machine([aMem EXCEPT ![O.p2] = Csr.seq], [apCsr EXCEPT ![O.p1].seq = @ + 1], pc + 1)
OP_NewRowid ==
  /\ At({"NewRowid"})
  /\ LET n == Len(Csr.rows) IN Store(O.p2, IF n = 0 THEN 1 ELSE Csr.rows[n].k + 1)
OP_Insert ==
  /\ At({"Insert", "InsertInt"})
  /\ Put(BtreeInsert(Csr, [k |-> IF O.opcode = "Insert" THEN aMem[O.p3] ELSE O.p3,
                           d |-> IF aMem[O.p2] = Null THEN << >> ELSE aMem[O.p2]]))
OP_Delete == At({"Delete"}) /\ Put(BtreeDelete(Csr, Csr.pos))
OP_SorterData == At({"SorterData"}) /\ Store(O.p2, Csr.rows[Csr.pos].d)
OP_RowKey == At({"RowKey"}) /\ Store(O.p2, Csr.rows[Csr.pos].d)
OP_Rowid ==
  /\ At({"Rowid"})
  /\ Store(O.p2, IF Csr.nullRow THEN Null ELSE IF Csr.deferred THEN Csr.target ELSE Csr.rows[Csr.pos].k)
OP_NullRow == At({"NullRow"}) /\ Put([Csr EXCEPT !.nullRow = TRUE, !.pos = 0])

OP_Last ==
  /\ At({"Last"})
  /\ LET n == Len(Csr.rows)
     IN  PutBranch([Csr EXCEPT !.pos = n, !.nullRow = (n = 0), !.deferred = FALSE], n = 0 /\ O.p2 > 0)
OP_Rewind ==
  /\ At({"Rewind", "Sort", "SorterSort"})
  /\ LET c == IF Csr.kind = "sorter" THEN SorterRewind(Csr) ELSE [Csr EXCEPT !.deferred = FALSE]
         empty == c.rows = << >>
     IN  PutBranch([c EXCEPT !.pos = Bool(~empty), !.nullRow = empty], empty)
OP_Next ==
  /\ At({"Next", "Prev", "SorterNext"})
  /\ IF Csr = Null THEN Branch(FALSE)
     ELSE LET to == IF Csr.pos = 0 THEN 0 ELSE IF O.opcode = "Prev" THEN Csr.pos - 1 ELSE Csr.pos + 1
              pos == IF to \in DOMAIN Csr.rows THEN to ELSE 0
          IN  PutBranch([Csr EXCEPT !.pos = pos, !.nullRow = (pos = 0)], pos # 0)

OP_IdxInsert ==
  /\ At({"IdxInsert", "SorterInsert"})
  /\ LET entry == [k |-> 0, d |-> aMem[O.p2]]
     IN  Put(IF Csr.kind = "sorter" THEN [Csr EXCEPT !.rows = Append(@, entry)]
             ELSE BtreeInsert(Csr, entry))
OP_IdxDelete ==
  /\ At({"IdxDelete"})
  /\ LET at == {i \in DOMAIN Csr.rows :
                  RecordCompare(Csr.rows[i].d, Regs(O.p2, O.p3), Csr.desc, {}) = 0}
     IN  Put(IF at = {} THEN [Csr EXCEPT !.pos = 0] ELSE BtreeDelete(Csr, FirstOf(at)))
OP_IdxRowid ==
  At({"IdxRowid"}) /\ Store(O.p2, IF Csr.nullRow THEN Null ELSE Last(Csr.rows[Csr.pos].d))
OP_IdxGE ==
  /\ At({"IdxLT", "IdxGE"})
  /\ LET flags == {"PREFIX_MATCH"} \union (IF "IncrKey" \in O.p5 THEN {"INCRKEY"} ELSE {})
         c == RecordCompare(Csr.rows[Csr.pos].d, Regs(O.p3, O.p4), Csr.desc, flags)
     IN  Branch(IF O.opcode = "IdxLT" THEN c < 0 ELSE c >= 0)

\* Is the rowid among those that other batches added?  If not it is added.
OP_RowSetTest ==
  /\ At({"RowSetTest"})
  /\ LET set == IF aMem[O.p1] = Null THEN {} ELSE aMem[O.p1]
         known == O.p4 # 0 /\ \E x \in set : x[1] = aMem[O.p3] /\ x[2] # O.p4
     IN  Machine([aMem EXCEPT ![O.p1] = IF known \/ O.p4 < 0 THEN set ELSE set \union {<<aMem[O.p3], O.p4>>}],
                 apCsr, IF known THEN O.p2 ELSE pc + 1)

\* Opcodes that start the transaction, or do nothing.
OP_Noop == At({"Noop", "Transaction", "VerifyCookie"}) /\ Branch(FALSE)

-----------------------------------------------------------------------------
(* A program that is ready to run. *)

MakeReady(code, nMem, nCursor, nOnce) ==
  /\ program' = code /\ magic' = "run" /\ pc' = 0 /\ result' = << >>
  /\ aMem' = [r \in 1 .. nMem |-> Invalid] /\ apCsr' = [c \in 0 .. nCursor - 1 |-> Null]
  /\ aOnceFlag' = [i \in 0 .. nOnce - 1 |-> FALSE]
  /\ UNCHANGED <<db, iCompare, aPermute, resets>>

VdbeNext ==
  \/ OP_Goto \/ OP_Gosub \/ OP_Return \/ OP_Yield \/ OP_Halt \/ OP_Integer \/ OP_Null \/ OP_Move
  \/ OP_Copy \/ OP_ResultRow \/ Step \/ Reset \/ OP_Arithmetic \/ OP_AddImm \/ OP_MustBeInt
  \/ OP_Comparison \/ OP_And \/ OP_Or \/ OP_Not \/ OP_If \/ OP_IsNull \/ OP_IfPos \/ OP_IfNeg
  \/ OP_IfZero \/ OP_Once \/ OP_Permutation \/ OP_Compare \/ OP_Jump \/ OP_Function \/ OP_CollSeq
  \/ OP_AggStep \/ OP_AggFinal \/ OP_OpenRead \/ OP_OpenEphemeral \/ OP_SorterOpen \/ OP_OpenPseudo
  \/ OP_Close \/ OP_Column \/ OP_MakeRecord \/ OP_Count \/ OP_SeekGe \/ OP_Seek \/ OP_Found
  \/ OP_NotExists \/ OP_Sequence \/ OP_NewRowid \/ OP_Insert \/ OP_Delete \/ OP_SorterData
  \/ OP_RowKey \/ OP_Rowid \/ OP_NullRow \/ OP_Last \/ OP_Rewind \/ OP_Next \/ OP_IdxInsert
  \/ OP_IdxDelete \/ OP_IdxRowid \/ OP_IdxGE \/ OP_RowSetTest \/ OP_Noop
=============================================================================
