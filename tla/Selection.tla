------------------------------- MODULE Selection -------------------------------
(* Which instruction the compiler picks for an operation on a type:             *)
(* bytecode_select.rs.  A selector returns a sequence of at most one            *)
(* instruction where the code returns an Option.  Floats are left out.          *)
EXTENDS IR

Bulk == [MovSS |-> "MovSSN", MovSP |-> "MovSPN", MovPS |-> "MovPSN"]

(* copy, copy_from_ptr and copy_to_ptr: one move if the size is the alignment,  *)
(* else as many moves of the alignment as fit.                                  *)
SelectMove(op, dst, src, ty, off) ==
  CASE SizeOf(ty) = 0 -> <<>>
    [] SizeOf(ty) = Alignment(ty) -> <<Mov(op, SizeOf(ty), dst, src, off, 0)>>
    [] OTHER -> <<Mov(Bulk[op], Alignment(ty), dst, src, off, SizeOf(ty) \div Alignment(ty))>>

SelectCopy(dst, src, ty) == SelectMove("MovSS", dst, src, ty, 0)
SelectCopyFromPtr(dst, src, ty, off) == SelectMove("MovSP", dst, src, ty, off)
SelectCopyToPtr(dst, src, ty, off) == SelectMove("MovPS", dst, src, ty, off)

SelectLiteral(n, size, dst) == Const(size, dst, n)

SelectUnary(op, ty, dst, a) ==
  IF ty.kind = "bool" THEN Unary2("BoolNot", 1, dst, a) ELSE Unary2(op, SizeOf(ty), dst, a)

(* Operators whose instruction has a sign in its name. *)
Signed2 == {"Lt", "LtEq", "Div", "Rem", "ShiftR"}
Swaps == [Gt |-> "Lt", GtEq |-> "LtEq"]

(* The table of `binary`: chars compare as u32, bools and pointers have a few   *)
(* operators only.                                                              *)
HasBinary(op, ty) ==
  CASE ty.kind = "int" -> op \in Comparisons \cup Divisions \cup Shifts
                            \cup {"Add", "Sub", "Mul", "BitOr", "BitAnd", "BitXor"}
    [] ty.kind = "bool" -> op \in {"Eq", "NotEq", "BitOr", "BitAnd", "BitXor"}
    [] ty.kind = "char" -> op \in Comparisons
    [] ty.kind = "ptr" -> op \in {"Eq", "GtEq"}
    [] OTHER -> FALSE

(* Mutant: every comparison and division is signed. *)
SelectBinarySigned(op, ty, dst, lhs, rhs) ==
  LET swap == op \in DOMAIN Swaps
      base == IF swap THEN Swaps[op] ELSE op
  IN  Binary3(base, SizeOf(ty), IF base \in Signed2 THEN "S" ELSE "",
              dst, IF swap THEN rhs ELSE lhs, IF swap THEN lhs ELSE rhs)

(* `binary` and the swap its callers do for > and >=. *)
SelectBinary(op, ty, dst, lhs, rhs) ==
  LET swap == op \in DOMAIN Swaps
      base == IF swap THEN Swaps[op] ELSE op
  IN  Binary3(base, SizeOf(ty), IF base \in Signed2 THEN SignOf(ty) ELSE "",
              dst, IF swap THEN rhs ELSE lhs, IF swap THEN lhs ELSE rhs)

(* `cast`: an enum is cast as its discriminant; a result that is not wider than *)
(* the argument is its low bytes.                                               *)
SelectCast(from, to, dst, a) ==
  LET arg == IF from.kind = "enum" THEN from.internal ELSE from
  IN  IF SizeOf(arg) >= SizeOf(to) THEN Mov("MovSS", SizeOf(to), dst, a, 0, 0)
      ELSE Widen(SizeOf(to), SizeOf(arg), SignOf(arg), dst, a)
================================================================================
