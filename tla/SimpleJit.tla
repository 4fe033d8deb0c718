------------------------------- MODULE SimpleJit --------------------------------
(* The machine code that simple_jit.rs emits for one function, instruction by   *)
(* instruction: registers are loaded from the frame, an x86 operation sets the  *)
(* flags, the result is stored back.  A function is compiled only if it has no  *)
(* drops and every instruction of it has a translation.                         *)
EXTENDS Instructions

Small(i, ops, size) == i.op \in ops /\ i.size = size

(* The arms of the match; any other instruction makes compile() return Err. *)
JitSupports(i) ==
  \/ Small(i, {"Const"}, 1) \/ Small(i, {"Const"}, 4) \/ Small(i, {"Const"}, 8)
  \/ Small(i, {"Neg", "Not", "Add", "Sub", "Mul", "BitAnd", "BitOr", "BitXor", "ShiftL", "Eq",
               "NotEq"}, 4)
  \/ Small(i, {"Div", "Rem", "ShiftR", "Lt", "LtEq"}, 4) /\ i.sign = "S"
  \/ Small(i, {"Add"}, 8)
  \/ Small(i, {"Lt", "LtEq", "OverflowingAdd"}, 1) /\ i.sign = "U"
  \/ Small(i, {"Lt"}, 8) /\ i.sign = "U"
  \/ i.op = "Widen" /\ <<i.size, i.n, i.sign>> \in {<<16, 4, "S">>, <<8, 1, "U">>}
  \/ i.op = "MovSS" /\ i.size \in {1, 4, 8, 16}
  \/ i.op = "MovSSN" /\ i.size \in {1, 4, 8}
  \/ i.op \in {"MovPS", "MovSP"} /\ i.size = 1
  \/ i.op = "MovSPN" /\ i.size \in {4, 8}
  \/ i.op \in {"BoolNot", "SlotAddr", "PointerOffset2", "Call", "Return", "Jump", "JumpF", "JumpT"}

(* assert!(n < 8) in the bulk moves. *)
JitAsserts(i) == i.op \in {"MovSSN", "MovSPN"} => i.n < 8

JitCompiles(code) == \A k \in 1 .. Len(code) : JitSupports(code[k]) /\ JitAsserts(code[k])

(* Flags after `sub x, y` on n bytes, x and y unsigned. *)
SubFlags(x, y, n) ==
  LET d == (x - y) % Modulus(n)
      s == Signed(x, n) - Signed(y, n)
  IN  [cf |-> x < y, zf |-> d = 0, sf |-> Signed(d, n) < 0, of |-> s # Clamp(s, n, "S")]

(* Flags after `test x, y` on n bytes. *)
TestFlags(x, y, n) ==
  [cf |-> FALSE, zf |-> Bitwise("BitAnd", x, y, n) = 0, sf |-> FALSE, of |-> FALSE]

(* The set<cc> instructions. *)
SetL(f) == f.sf # f.of
SetLE(f) == f.zf \/ SetL(f)
SetB(f) == f.cf
SetBE(f) == f.cf \/ f.zf

(* Mutant: the unsigned conditions for the signed comparisons. *)
JitCompareUnsigned(i, m) ==
  LET f == SubFlags(Slot(m, i.a, i.size, "U"), Slot(m, i.b, i.size, "U"), i.size)
  IN  CASE i.op = "Eq" -> f.zf
        [] i.op = "NotEq" -> ~f.zf
        [] i.op = "Lt" -> SetB(f)
        [] i.op = "LtEq" -> SetBE(f)

JitCompare(i, m) ==
  LET x == Slot(m, i.a, i.size, "U")
      y == Slot(m, i.b, i.size, "U")
  IN  CASE i.op = "Eq" -> TestFlags(x, y, i.size).zf
        [] i.op = "NotEq" -> ~TestFlags(x, y, i.size).zf
        [] i.op = "Lt" /\ i.size = 4 -> SetL(SubFlags(x, y, 4))
        [] i.op = "LtEq" /\ i.size = 4 -> SetLE(SubFlags(x, y, 4))
        [] i.op = "Lt" /\ i.size = 1 -> SetB(SubFlags(x, y, 1))
        [] i.op = "LtEq" /\ i.size = 1 -> SetBE(SubFlags(x, y, 1))
        [] i.op = "Lt" /\ i.size = 8 -> SetB(SubFlags(y, y, 8))      \* sub rcx, rcx

(* cdq; idiv ecx: a divide error for a zero divisor and for a quotient that     *)
(* does not fit.                                                                *)
JitDivide(i, m) ==
  LET x == Slot(m, i.a, 4, "S")
      y == Slot(m, i.b, 4, "S")
  IN  IF y = 0 \/ Quotient(x, y) # Clamp(Quotient(x, y), 4, "S") THEN Stops(m, "fault")
      ELSE Put(m, i.dst, IF i.op = "Div" THEN Quotient(x, y) ELSE x - y * Quotient(x, y), 4)

JitArithmetic(i, m) ==
  LET x == Slot(m, i.a, i.size, "U")
      y == Slot(m, i.b, i.size, "U")
      cl == Slot(m, i.b, 1, "U") % BitWidth(i.size)
  IN  CASE i.op = "Add" -> Put(m, i.dst, x + y, i.size)
        [] i.op = "Sub" -> Put(m, i.dst, x - y, i.size)
        [] i.op = "Mul" -> Put(m, i.dst, x * y, i.size)
        [] i.op \in BitOps -> Put(m, i.dst, Bitwise(i.op, x, y, i.size), i.size)
        [] i.op = "ShiftL" -> Put(m, i.dst, x * TwoTo(cl), i.size)
        [] i.op = "ShiftR" -> Put(m, i.dst, Signed(x, i.size) \div TwoTo(cl), i.size)
        [] i.op = "OverflowingAdd" ->
             Goes(Write(Write(m, At(m, i.dst), x + y, 1), At(m, i.dst) + 1,
                        Truth(x + y >= Modulus(1)), 1))

(* movsx rax, dword; the high half of a 16-byte result is sar rax, 63. *)
JitWiden(i, m) ==
  IF i.size = 16
  THEN LET x == Slot(m, i.a, 4, "S")
       IN  Goes(Write(Write(m, At(m, i.dst), x, 8), At(m, i.dst) + 8, IF x < 0 THEN -1 ELSE 0, 8))
  ELSE Put(m, i.dst, Slot(m, i.a, 1, "U"), 8)

(* The copies from a pointer add the source's offset to the destination too. *)
JitMove(i, m) ==
  CASE i.op \in {"MovSS", "MovPS", "MovSP", "MovSSN"} -> ExecMove(i, m)
    [] i.op = "MovSPN" -> MoveItems(m, At(m, i.dst) + i.off, Ptr(m, i.a) + i.off, i.size, i.n)

JitExec(i, m) ==
  CASE i.op = "Const" -> Put(m, i.dst, i.n, i.size)
    [] i.op = "Neg" -> Put(m, i.dst, -Slot(m, i.a, 4, "U"), 4)
    [] i.op = "Not" -> Put(m, i.dst, Modulus(4) - 1 - Slot(m, i.a, 4, "U"), 4)
    [] i.op = "BoolNot" -> Put(m, i.dst, Bitwise("BitXor", Slot(m, i.a, 1, "U"), 1, 1), 1)
    [] i.op \in Comparisons -> Put(m, i.dst, Truth(JitCompare(i, m)), 1)
    [] i.op \in Divisions -> JitDivide(i, m)
    [] i.op = "Widen" -> JitWiden(i, m)
    [] i.op \in {"MovSS", "MovPS", "MovSP", "MovSSN", "MovSPN"} -> JitMove(i, m)
    [] i.op = "SlotAddr" -> Put(m, i.dst, At(m, i.a), PtrSize)
    [] i.op = "PointerOffset2" -> Put(m, i.dst, Ptr(m, i.a) + i.off, PtrSize)
    [] i.op \in {"Jump", "JumpF", "JumpT", "Call", "Return"} -> ExecJump(i, m)
    [] OTHER -> JitArithmetic(i, m)

(* Instructions whose machine code computes something else than the             *)
(* interpreter's arm: the operands for which it does are stated here.           *)
JitDiffers(i, m) ==
  \/ i.op \in {"Eq", "NotEq"} /\ i.size = 4
  \/ i.op = "Lt" /\ i.size = 8
  \/ i.op = "MovSPN" /\ i.off # 0
  \/ i.op = "BoolNot" /\ Slot(m, i.a, 1, "U") \notin {0, 1}
  \/ i.op \in Divisions /\ Slot(m, i.a, 4, "S") = Least(4, "S") /\ Slot(m, i.b, 4, "S") = -1
================================================================================
