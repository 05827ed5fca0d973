------------------------------ MODULE ExprCode ------------------------------
(***************************************************************************)
(* The part of the code generator that turns an expression into opcodes    *)
(* (expr.go), over the program under construction of vdbeaux.go.  A Parse  *)
(* object is a record p threaded through the routines; p.r is what the     *)
(* routine that was called last returned.  An expression is a record as    *)
(* resolve.go leaves it: columns carry the cursor they are read from.      *)
(* Values are NULL and integers.  The column cache is left out because     *)
(* nothing is ever entered into it: the loops that fill and search it run  *)
(* over a list that no statement extends.                                  *)
(***************************************************************************)
EXTENDS Integers, Sequences, SequencesExt

CONSTANT Null      \* the SQL NULL, and the pointer that points to nothing

-----------------------------------------------------------------------------
(* The program under construction. *)

Op(opcode, p1, p2, p3) ==
  [opcode |-> opcode, p1 |-> p1, p2 |-> p2, p3 |-> p3, p4 |-> Null, p5 |-> {}]

\* A fresh Parse object.
NewParse ==
  [code |-> << >>, label |-> << >>, nMem |-> 0, nTab |-> 0, nOnce |-> 0,
   aTempReg |-> << >>, iRangeReg |-> 0, nRangeReg |-> 0, cookieGoto |-> 0,
   r |-> 0, free |-> 0]

AddOp3(p, opcode, p1, p2, p3) ==
  [p EXCEPT !.code = Append(@, Op(opcode, p1, p2, p3)), !.r = Len(p.code)]
AddOp2(p, opcode, p1, p2) == AddOp3(p, opcode, p1, p2, 0)
AddOp1(p, opcode, p1) == AddOp3(p, opcode, p1, 0, 0)
AddOp4(p, opcode, p1, p2, p3, p4) ==
  [p EXCEPT !.code = Append(@, [Op(opcode, p1, p2, p3) EXCEPT !.p4 = p4]), !.r = Len(p.code)]
ChangeP2(p, addr, val) == [p EXCEPT !.code[addr + 1].p2 = val]
ChangeP5(p, flags) == [p EXCEPT !.code[Len(p.code)].p5 = flags]
ChangeToNoop(p, addr) == [p EXCEPT !.code[addr + 1] = Op("Noop", 0, 0, 0)]
JumpHere(p, addr) == ChangeP2(p, addr, Len(p.code))
CurrentAddr(p) == Len(p.code)

\* A label is a negative number until resolveP2Values puts the address there.
MakeLabel(p) == [p EXCEPT !.label = Append(@, -1), !.r = -1 - Len(p.label)]
ResolveLabel(p, x) == [p EXCEPT !.label[-x] = Len(p.code)]

JumpOps ==
  {"Goto", "Gosub", "MustBeInt", "Eq", "Ne", "Lt", "Le", "Gt", "Ge", "Jump", "Once",
   "If", "IfNot", "IsNull", "NotNull", "SeekLt", "SeekLe", "SeekGe", "SeekGt",
   "Found", "NotFound", "NotExists", "SorterCompare", "Last", "SorterSort", "Sort",
   "Rewind", "SorterNext", "Prev", "Next", "IdxLT", "IdxGE", "RowSetRead",
   "RowSetTest", "IfPos", "IfNeg", "IfZero"}

resolveP2Values(p) ==
  [i \in DOMAIN p.code |->
     LET op == p.code[i]
     IN  IF op.opcode \in JumpOps /\ op.p2 < 0 THEN [op EXCEPT !.p2 = p.label[-op.p2]] ELSE op]

-----------------------------------------------------------------------------
(* Registers that hold intermediate results. *)

NewReg(p) == [p EXCEPT !.nMem = @ + 1, !.r = p.nMem + 1]
NewRegs(p, n) == [p EXCEPT !.nMem = @ + n, !.r = p.nMem + 1]
NewTab(p) == [p EXCEPT !.nTab = @ + 1, !.r = p.nTab]

GetTempReg(p) ==
  IF p.aTempReg = << >> THEN NewReg(p)
  ELSE [p EXCEPT !.aTempReg = Front(@), !.r = Last(p.aTempReg)]

ReleaseTempReg(p, register) ==
  IF register = 0 THEN p ELSE [p EXCEPT !.aTempReg = Append(@, register)]

GetTempRange(p, count) ==
  IF count <= p.nRangeReg
  THEN [p EXCEPT !.iRangeReg = @ + count, !.nRangeReg = @ - count, !.r = p.iRangeReg]
  ELSE NewRegs(p, count)

ReleaseTempRange(p, register, count) ==
  IF count > p.nRangeReg THEN [p EXCEPT !.nRangeReg = count, !.iRangeReg = register] ELSE p

ClearTempRegCache(p) == [p EXCEPT !.aTempReg = << >>, !.nRangeReg = 0]

\* Release the registers of the operands and return register r.
Result(p, free1, free2, r) ==
  [ReleaseTempReg(ReleaseTempReg(p, free1), free2) EXCEPT !.r = r]

-----------------------------------------------------------------------------
(* Expressions. *)

Comparisons == {"Eq", "Ne", "Lt", "Le", "Gt", "Ge"}
BinaryOps == {"And", "Or", "Add", "Subtract", "Multiply", "Divide", "Remainder"}

\* Every node of an expression, the right-hand side of IN included.
RECURSIVE Nodes(_)
Nodes(e) ==
  IF e = Null THEN {}
  ELSE {e} \union Nodes(e.left) \union Nodes(e.right)
           \union UNION {Nodes(e.list[i]) : i \in DOMAIN e.list}

exprIsConst(e) ==
  \A n \in Nodes(e) : n.op \notin {"Column", "AggColumn", "AggFunction", "Function", "Coalesce"}
ExprIsConstant(e) == exprIsConst(e)
ExprIsConstantNotJoin(e) == exprIsConst(e) /\ \A n \in Nodes(e) : ~n.join

\* The integer that e codes, or Null.
RECURSIVE ExprIsInteger(_)
ExprIsInteger(e) ==
  IF e.op = "Integer" THEN e.value
  ELSE IF e.op = "Uplus" THEN ExprIsInteger(e.left)
  ELSE IF e.op = "Uminus" THEN LET v == ExprIsInteger(e.left) IN IF v = Null THEN Null ELSE -v
  ELSE Null

RECURSIVE ExprCanBeNull(_)
ExprCanBeNull(e) ==
  IF e.op \in {"Uplus", "Uminus"} THEN ExprCanBeNull(e.left)
  ELSE (IF e.op = "Register" THEN e.op2 ELSE e.op) # "Integer"

ExprCodeIsNullJump(p, e, reg, dest) ==
  IF ExprCanBeNull(e) THEN AddOp2(p, "IsNull", reg, dest) ELSE p

\* The expression with register reg in the place of its root.
AsRegister(e, reg) == [e EXCEPT !.op2 = e.op, !.op = "Register", !.iTable = reg]

CodeOnce(p) == LET a == AddOp1(p, "Once", p.nOnce) IN [a EXCEPT !.nOnce = @ + 1]

\* in1 is the register of the left operand.
codeCompare(p, opcode, in1, in2, dest, flags) ==
  ChangeP5(AddOp3(p, opcode, in2, dest, in1), flags)

\* A column with a negative number is the rowid; op2 holds the flags of OP_Column.
ExprCodeGetColumn(p, column, cursor, register) ==
  [IF column < 0 THEN AddOp2(p, "Rowid", cursor, register)
                 ELSE AddOp3(p, "Column", cursor, column, register) EXCEPT !.r = register]

ExprCodeMove(p, from, to, count) == IF from = to THEN p ELSE AddOp3(p, "Move", from, to, count)

-----------------------------------------------------------------------------
(* The ways to code an expression: for its value, as a jump that is taken  *)
(* when it is true, or false, and, for IN, as a test that goes on when it  *)
(* is true.  They call one another.                                        *)

RECURSIVE Code(_, _, _)
ExprCodeTarget(p, e, target) == Code(p, e, [as |-> "value", to |-> target, null |-> FALSE])
ExprIfTrue(p, e, dest, null) == Code(p, e, [as |-> "ifTrue", to |-> dest, null |-> null])
ExprIfFalse(p, e, dest, null) == Code(p, e, [as |-> "ifFalse", to |-> dest, null |-> null])
ExprCodeIN(p, e, destIfFalse, destIfNull) ==
  Code(p, e, [as |-> "in", to |-> destIfFalse, null |-> destIfNull])

\* p.free is the register to release when the value is no longer needed, or 0.
KeepTemp(p, temp) ==
  IF p.r = temp THEN [p EXCEPT !.free = temp] ELSE [ReleaseTempReg(p, temp) EXCEPT !.free = 0]
ExprCodeTemp(p, e) == LET a == GetTempReg(p) IN KeepTemp(ExprCodeTarget(a, e, a.r), a.r)

\* Copy the value to the register it is wanted in, unless it is there.
CopyTo(p, target, copy) ==
  [IF p.r = target THEN p ELSE AddOp2(p, copy, p.r, target) EXCEPT !.r = target]
ExprCode(p, e, target) ==
  IF e # Null /\ e.op = "Register"
  THEN [AddOp2(p, "Copy", e.iTable, target) EXCEPT !.r = target]
  ELSE CopyTo(ExprCodeTarget(p, e, target), target, "SCopy")

\* Code a list into the registers from target on.
RECURSIVE CodeItems(_, _, _, _, _)
CodeItems(p, list, i, target, copy) ==
  IF i > Len(list) THEN p
  ELSE CodeItems(CopyTo(ExprCodeTarget(p, list[i], target + i - 1), target + i - 1, copy),
                 list, i + 1, target, copy)
ExprCodeExprList(p, list, target, doHardCopy) ==
  CodeItems(p, list, 1, target, IF doHardCopy THEN "Copy" ELSE "SCopy")

-----------------------------------------------------------------------------
(* IN with a list on the right: the values go into a transient index.  It  *)
(* is filled once when all of them are constants, and anew each time if    *)
(* not.                                                                    *)

InsertRowid(p, iTable, r2) ==
  AddOp3(AddOp2(p, "MustBeInt", p.r, CurrentAddr(p) + 2), "Insert", iTable, r2, p.r)
InsertKey(p, iTable, r2) ==
  AddOp2(AddOp3(p, "MakeRecord", p.r, 1, r2), "IdxInsert", iTable, r2)

RECURSIVE CodeInList(_, _, _, _, _, _, _)
CodeInList(p, e, i, test, r1, r2, isRowid) ==
  IF i > Len(e.list) THEN [p EXCEPT !.r = test]
  ELSE LET item == e.list[i]
           again == test >= 0 /\ ~ExprIsConstant(item)
           a == IF again THEN ChangeToNoop(p, test) ELSE p
           int == ExprIsInteger(item)
           b == IF isRowid /\ int # Null THEN AddOp3(a, "InsertInt", e.iTable, r2, int)
                ELSE IF isRowid THEN InsertRowid(ExprCodeTarget(a, item, r1), e.iTable, r2)
                ELSE InsertKey(ExprCodeTarget(a, item, r1), e.iTable, r2)
       IN  CodeInList(b, e, i + 1, IF again THEN -1 ELSE test, r1, r2, isRowid)

\* p.r is the cursor of the transient table, and once the address of the
\* instruction that lets it be filled only once.
EndInTable(p, r1, r2, cursor) ==
  LET a == ReleaseTempReg(ReleaseTempReg(p, r1), r2)
  IN  [IF p.r >= 0 THEN JumpHere(a, p.r) ELSE a EXCEPT !.r = cursor]
FillInTable(p, e, once, isRowid) ==
  LET r1 == GetTempReg(AddOp4(p, "OpenEphemeral", p.r, IF isRowid THEN 0 ELSE 1, 0,
                              IF isRowid THEN Null ELSE <<FALSE>>))
      r2 == GetTempReg(r1)
  IN  EndInTable(CodeInList(AddOp2(r2, "Null", 0, r2.r), [e EXCEPT !.iTable = p.r], 1, once,
                            r1.r, r2.r, isRowid), r1.r, r2.r, p.r)

\* The cursor of the transient table is returned.
CodeSubselect(p, e, rMayHaveNull, isRowid) ==
  LET a == CodeOnce(p)
      b == IF rMayHaveNull = 0 THEN a ELSE AddOp2(a, "Null", 0, rMayHaveNull)
  IN  FillInTable(NewTab(b), e, a.r, isRowid)

\* FindInIndex for a membership test: a register tells later whether there is
\* a NULL on the right.  The cursor is returned, and the register is in free.
FindInIndex(p, e) ==
  LET a == NewReg(p)
  IN  [CodeSubselect(AddOp2(a, "Null", 0, a.r), e, a.r, FALSE) EXCEPT !.free = a.r]

\* A NULL on the left: the answer is false if the right side is empty.
TestNullLeft(p, r1, iTable, destIfFalse, destIfNull) ==
  LET n == AddOp1(p, "NotNull", r1)
  IN  JumpHere(AddOp2(AddOp2(n, "Rewind", iTable, destIfFalse), "Goto", 0, destIfNull), n.r)

\* A value that is not found: the answer is unknown if the right side has a
\* NULL, which is looked up once.
TestNullRight(p, iTable, hasNull, destIfFalse, destIfNull) ==
  LET j2 == AddOp1(p, "NotNull", hasNull)
      j3 == AddOp4(j2, "Found", iTable, 0, hasNull, 1)
      a == AddOp2(JumpHere(AddOp2(j3, "Integer", -1, hasNull), j3.r), "AddImm", hasNull, 1)
  IN  AddOp2(AddOp2(JumpHere(a, j2.r), "If", hasNull, destIfNull), "Goto", 0, destIfFalse)

Search(p, r1, iTable, hasNull, destIfFalse, destIfNull) ==
  LET j1 == AddOp4(TestNullLeft(p, r1, iTable, destIfFalse, destIfNull), "Found", iTable, 0, r1, 1)
  IN  IF destIfNull = destIfFalse
      THEN AddOp4(AddOp2(p, "IsNull", r1, destIfNull), "NotFound", iTable, destIfFalse, r1, 1)
      ELSE JumpHere(TestNullRight(j1, iTable, hasNull, destIfFalse, destIfNull), j1.r)

SearchLeft(p, e, destIfFalse, destIfNull) ==
  LET a == GetTempReg(p)
  IN  ReleaseTempReg(Search(ExprCode(a, e.left, a.r), a.r, p.r, p.free, destIfFalse, destIfNull), a.r)
CodeIn(p, e, destIfFalse, destIfNull) ==
  SearchLeft(FindInIndex(p, e), e, destIfFalse, destIfNull)

-----------------------------------------------------------------------------
(* The cases of ExprCodeTarget. *)

\* Both operands in registers; the left one's is in r1.
RightOperand(p, e) ==
  LET b == ExprCodeTemp(p, e)
  IN  [p |-> b, r1 |-> p.r, r2 |-> b.r, free1 |-> p.free, free2 |-> b.free]
Operands(p, e) == RightOperand(ExprCodeTemp(p, e.left), e.right)

CompareOperands(o, opcode, target, flags) ==
  Result(codeCompare(o.p, opcode, o.r1, o.r2, target, flags), o.free1, o.free2, target)
CodeComparison(p, e, opcode, target, flags) == CompareOperands(Operands(p, e), opcode, target, flags)

CombineOperands(o, opcode, target) ==
  Result(AddOp3(o.p, opcode, o.r2, o.r1, target), o.free1, o.free2, target)
CodeBinary(p, e, target) == CombineOperands(Operands(p, e), e.op, target)

NegateTemp(p, zero, target) == Result(AddOp3(p, "Subtract", p.r, zero, target), zero, p.free, target)
CodeUminus(p, e, target) ==
  LET a == GetTempReg(p)
  IN  IF e.left.op = "Integer" THEN [AddOp2(p, "Integer", -e.left.value, target) EXCEPT !.r = target]
      ELSE NegateTemp(ExprCodeTemp(AddOp2(a, "Integer", 0, a.r), e.left), a.r, target)

NotTemp(p, target) == Result(AddOp2(p, "Not", p.r, target), p.free, 0, target)
CodeNot(p, e, target) == NotTemp(ExprCodeTemp(p, e.left), target)

TestTemp(p, opcode, target) ==
  LET a == AddOp1(p, opcode, p.r)
  IN  Result(JumpHere(AddOp2(a, "AddImm", target, -1), a.r), p.free, 0, target)
CodeNullTest(p, e, target) ==
  TestTemp(ExprCodeTemp(AddOp2(p, "Integer", 1, target), e.left), e.op, target)

RECURSIVE CodeCoalesce(_, _, _, _, _)
CodeCoalesce(p, e, i, target, end) ==
  IF i > Len(e.list) THEN [ResolveLabel(p, end) EXCEPT !.r = target]
  ELSE CodeCoalesce(ExprCode(AddOp2(p, "NotNull", target, end), e.list[i], target),
                    e, i + 1, target, end)

CodeFunction(p, e, target) ==
  LET n == Len(e.list)
      a == GetTempRange(p, n)
      b == AddOp4(ExprCodeExprList(a, e.list, a.r, TRUE), "Function", n, a.r, target, e.value)
  IN  [ReleaseTempRange(b, a.r, n) EXCEPT !.r = target]

CodeInValue(p, e, target) ==
  LET f == MakeLabel(p)
      n == MakeLabel(f)
      a == ExprCodeIN(AddOp2(n, "Null", 0, target), e, f.r, n.r)
      b == ResolveLabel(AddOp2(a, "Integer", 1, target), f.r)
  IN  [ResolveLabel(AddOp2(b, "AddImm", target, 0), n.r) EXCEPT !.r = target]

\* x is in register r and both tests have a register for their outcome.
AtMost(p, x, low, high, target) ==
  Result(ReleaseTempReg(ReleaseTempReg(
           AddOp3(codeCompare(p, "Le", x.r, p.r, high, {"StoreP2"}), "And", low, high, target),
           low), high), x.free, p.free, target)
AtLeast(p, e, x, target) ==
  LET r3 == GetTempReg(p)
      r4 == GetTempReg(r3)
  IN  AtMost(ExprCodeTemp(ReleaseTempReg(codeCompare(r4, "Ge", x.r, p.r, r3.r, {"StoreP2"}), p.free),
                          e.list[2]), x, r3.r, r4.r, target)
BetweenBounds(p, e, target) ==
  AtLeast(ExprCodeTemp(p, e.list[1]), e, [r |-> p.r, free |-> p.free], target)
CodeBetween(p, e, target) == BetweenBounds(ExprCodeTemp(p, e.left), e, target)

\* The WHEN terms from i on.  x is the expression of form A in its register,
\* or Null for form B.
RECURSIVE CodeWhens(_, _, _, _, _, _)
CodeWhens(p, e, i, x, target, end) ==
  IF i > Len(e.list) THEN p
  ELSE LET a == MakeLabel(p)
           test == IF x = Null THEN e.list[i]
                   ELSE [x EXCEPT !.op = "Eq", !.left = x, !.right = e.list[i], !.list = << >>]
           b == ExprCode(ExprIfFalse(a, test, a.r, TRUE), e.list[i + 1], target)
       IN  CodeWhens(ResolveLabel(AddOp2(b, "Goto", 0, end), a.r), e, i + 2, x, target, end)

CodeElse(p, e, target) ==
  IF e.right = Null THEN AddOp2(p, "Null", 0, target) ELSE ExprCode(p, e.right, target)
\* The register of the expression of form A is never released.
CodeForms(p, e, x, target, end) ==
  [ResolveLabel(CodeElse(CodeWhens(p, e, 1, x, target, end), e, target), end) EXCEPT !.r = target]
CodeCaseOf(p, e, target, end) == CodeForms(p, e, AsRegister(e.left, p.r), target, end)
CodeCase(p, e, target) ==
  LET end == MakeLabel(p)
  IN  IF e.left = Null THEN CodeForms(end, e, Null, target, end.r)
      ELSE CodeCaseOf(ExprCodeTemp(end, e.left), e, target, end.r)

\* IS and IS NOT are comparisons that take NULL for a value.
CompareOp(e) == CASE e.op = "Is" -> "Eq" [] e.op = "IsNot" -> "Ne" [] OTHER -> e.op
NullEq(e) == IF e.op \in {"Is", "IsNot"} THEN {"NullEq"} ELSE {}

\* Code e, into register target if that is convenient.
CodeValue(p, e, target) ==
  CASE e.op = "Column"   -> ExprCodeGetColumn(p, e.iColumn, e.iTable, target)
    [] e.op = "Integer"  -> [AddOp2(p, "Integer", e.value, target) EXCEPT !.r = target]
    [] e.op = "Null"     -> [AddOp2(p, "Null", 0, target) EXCEPT !.r = target]
    [] e.op = "Register" -> [p EXCEPT !.r = e.iTable]
    [] e.op = "Uplus"    -> ExprCodeTarget(p, e.left, target)
    [] e.op = "Uminus"   -> CodeUminus(p, e, target)
    [] e.op \in Comparisons \union {"Is", "IsNot"} ->
         CodeComparison(p, e, CompareOp(e), target, {"StoreP2"} \union NullEq(e))
    [] e.op \in BinaryOps -> CodeBinary(p, e, target)
    [] e.op = "Not"      -> CodeNot(p, e, target)
    [] e.op \in {"IsNull", "NotNull"} -> CodeNullTest(p, e, target)
    [] e.op = "Coalesce" ->
         LET end == MakeLabel(p) IN CodeCoalesce(ExprCode(end, e.list[1], target), e, 2, target, end.r)
    [] e.op = "Function" -> CodeFunction(p, e, target)
    [] e.op = "In"       -> CodeInValue(p, e, target)
    [] e.op = "Between"  -> CodeBetween(p, e, target)
    [] e.op = "Case"     -> CodeCase(p, e, target)
    [] e.op = "AggFunction" -> [p EXCEPT !.r = e.iTable]
    [] e.op = "AggColumn" ->
         IF e.value = "accumulated" THEN [p EXCEPT !.r = e.iTable]
         ELSE ExprCodeGetColumn(p, e.iColumn, e.iTable, target)

-----------------------------------------------------------------------------
(* Jumps on the truth of an expression; null says whether an unknown       *)
(* outcome jumps too.                                                      *)

JumpFlags(e, null) ==
  IF e.op \in {"Is", "IsNot"} THEN NullEq(e) ELSE IF null THEN {"JumpIfNull"} ELSE {}

Negated == [Eq |-> "Ne", Ne |-> "Eq", Lt |-> "Ge", Ge |-> "Lt", Le |-> "Gt", Gt |-> "Le",
            IsNull |-> "NotNull", NotNull |-> "IsNull"]

JumpOnTemp(p, opcode, dest, p3) == ReleaseTempReg(AddOp3(p, opcode, p.r, dest, p3), p.free)
JumpOnNull(p, e, opcode, dest) == JumpOnTemp(ExprCodeTemp(p, e.left), opcode, dest, 0)
JumpOnValue(p, e, opcode, dest, null) ==
  JumpOnTemp(ExprCodeTemp(p, e), opcode, dest, IF null THEN 1 ELSE 0)

JumpBetween(p, e, dest, jumpIfTrue, null) ==
  LET x == AsRegister(e.left, p.r)
      Bound(op, i) == [e EXCEPT !.op = op, !.left = x, !.right = e.list[i], !.list = << >>]
      both == [e EXCEPT !.op = "And", !.left = Bound("Ge", 1), !.right = Bound("Le", 2),
                        !.list = << >>]
  IN  ReleaseTempReg(IF jumpIfTrue THEN ExprIfTrue(p, both, dest, null)
                     ELSE ExprIfFalse(p, both, dest, null), p.free)
exprCodeBetween(p, e, dest, jumpIfTrue, null) ==
  JumpBetween(ExprCodeTemp(p, e.left), e, dest, jumpIfTrue, null)

CodeIfTrue(p, e, dest, null) ==
  CASE e.op = "And" ->
         LET d2 == MakeLabel(p)
         IN  ResolveLabel(ExprIfTrue(ExprIfFalse(d2, e.left, d2.r, ~null), e.right, dest, null), d2.r)
    [] e.op = "Or" -> ExprIfTrue(ExprIfTrue(p, e.left, dest, null), e.right, dest, null)
    [] e.op = "Not" -> ExprIfFalse(p, e.left, dest, null)
    [] e.op \in Comparisons \union {"Is", "IsNot"} ->
         CodeComparison(p, e, CompareOp(e), dest, JumpFlags(e, null))
    [] e.op \in {"IsNull", "NotNull"} -> JumpOnNull(p, e, e.op, dest)
    [] e.op = "Between" -> exprCodeBetween(p, e, dest, TRUE, null)
    [] e.op = "In" ->
         LET f == MakeLabel(p)
         IN  ResolveLabel(AddOp2(ExprCodeIN(f, e, f.r, IF null THEN dest ELSE f.r), "Goto", 0, dest), f.r)
    [] OTHER -> JumpOnValue(p, e, "If", dest, null)

CodeIfFalse(p, e, dest, null) ==
  CASE e.op = "And" -> ExprIfFalse(ExprIfFalse(p, e.left, dest, null), e.right, dest, null)
    [] e.op = "Or" ->
         LET d2 == MakeLabel(p)
         IN  ResolveLabel(ExprIfFalse(ExprIfTrue(d2, e.left, d2.r, ~null), e.right, dest, null), d2.r)
    [] e.op = "Not" -> ExprIfTrue(p, e.left, dest, null)
    [] e.op \in Comparisons \union {"Is", "IsNot"} ->
         CodeComparison(p, e, Negated[CompareOp(e)], dest, JumpFlags(e, null))
    [] e.op \in {"IsNull", "NotNull"} -> JumpOnNull(p, e, Negated[e.op], dest)
    [] e.op = "Between" -> exprCodeBetween(p, e, dest, FALSE, null)
    [] e.op = "In" ->
         IF null THEN ExprCodeIN(p, e, dest, dest)
         ELSE LET n == MakeLabel(p) IN ResolveLabel(ExprCodeIN(n, e, dest, n.r), n.r)
    [] OTHER -> JumpOnValue(p, e, "IfNot", dest, null)

Code(p, e, job) ==
  CASE job.as = "value" -> CodeValue(p, e, job.to)
    [] job.as = "ifTrue" -> CodeIfTrue(p, e, job.to, job.null)
    [] job.as = "ifFalse" -> CodeIfFalse(p, e, job.to, job.null)
    [] job.as = "in" -> CodeIn(p, e, job.to, job.null)

-----------------------------------------------------------------------------
(* Constants are evaluated once, before the program reads the database.    *)

RECURSIVE SkipUplus(_)
SkipUplus(e) == IF e.op = "Uplus" THEN SkipUplus(e.left) ELSE e

isAppropriateForFactoring(e) ==
  LET x == SkipUplus(e)
  IN  /\ ExprIsConstantNotJoin(e)
      /\ ~ /\ e.fixed
           /\ \/ x.op \in {"Integer", "Null"}
              \/ x.op = "Uminus" /\ x.left.op = "Integer"

FactorOut(p, e, reg) ==
  [IF p.r = reg THEN p ELSE ReleaseTempReg(p, reg) EXCEPT !.r = AsRegister(e, p.r)]

\* The walk of evalConstExpr; the expression with registers in the places of
\* the constants is returned.
RECURSIVE Factor(_, _), FactorList(_, _, _, _)
Factor(p, e) ==
  IF e = Null \/ e.op \in {"In", "Register"} THEN [p EXCEPT !.r = e]
  ELSE IF isAppropriateForFactoring(e)
  THEN LET a == NewReg(p) IN FactorOut(ExprCodeTarget(a, e, a.r), e, a.r)
  ELSE LET a == Factor(p, e.left)
           b == Factor(a, e.right)
           c == FactorList(b, e.list, 1, e.op \in {"Function", "Coalesce", "AggFunction"})
       IN  [c EXCEPT !.r = [e EXCEPT !.left = a.r, !.right = b.r, !.list = c.r]]
FactorList(p, list, i, fixed) ==
  IF i > Len(list) THEN [p EXCEPT !.r = list]
  ELSE LET a == Factor(p, [list[i] EXCEPT !.fixed = @ \/ fixed])
       IN  FactorList(a, [list EXCEPT ![i] = a.r], i + 1, fixed)

ExprCodeConstants(p, e) == IF p.cookieGoto # 0 THEN [p EXCEPT !.r = e] ELSE Factor(p, e)
=============================================================================
