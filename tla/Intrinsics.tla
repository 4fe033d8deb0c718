------------------------------ MODULE Intrinsics -------------------------------
(* The code of the Rust intrinsics that the compiler expands in place:          *)
(* compile_rust_intrinsic of builtins.rs.  `tys` are the type arguments, `a`    *)
(* the slots of the arguments, `out` that of the result.  Left out are the      *)
(* float intrinsics, const_eval_select, drop_in_place and skitter_box_new.      *)
EXTENDS Emission

(* Intrinsics that are one binary operator on the type argument. *)
OperatorOf ==
  [unchecked_add |-> "Add", wrapping_add |-> "Add", unchecked_sub |-> "Sub", wrapping_sub |-> "Sub",
   unchecked_mul |-> "Mul", wrapping_mul |-> "Mul", exact_div |-> "Div", unchecked_rem |-> "Rem",
   unchecked_shl |-> "ShiftL", unchecked_shr |-> "ShiftR"]

(* select_binary_signed! and select_binary_int! *)
SignedOperatorOf ==
  [add_with_overflow |-> "OverflowingAdd", sub_with_overflow |-> "OverflowingSub",
   mul_with_overflow |-> "OverflowingMul", saturating_add |-> "SatAdd"]
PlainOperatorOf == [rotate_left |-> "RotateLeft", rotate_right |-> "RotateRight"]
UnaryOperatorOf == [ctpop |-> "PopCount", cttz_nonzero |-> "TrailingZeros", bitreverse |-> "ReverseBits"]

Usize(n, out) == SelectLiteral(n, PtrSize, out)

(* The bytes are copied by the smaller of the two alignments. *)
Transmute(from, to, out, a) ==
  SelectCopy(out, a, IF Alignment(from) <= Alignment(to) THEN from ELSE to)

ByteSwap(ty, out, a) ==
  [k \in 1 .. SizeOf(ty) |-> Mov("MovSS", 1, out + k - 1, a + SizeOf(ty) - k, 0, 0)]

(* `offset`: the result slot holds the element size, then the byte offset. *)
PointerAdd(ptr, by, out, a) ==
  LET size == SizeOf(ptr.to)
  IN  IF size = 1 THEN <<SelectBinary("Add", by, out, a[1], a[2])>>
      ELSE <<Usize(size, out), SelectBinary("Mul", by, out, out, a[2]),
             SelectBinary("Add", by, out, out, a[1])>>

PointerDistance(c, ty, out, a) ==
  LET c1 == Emit(c, <<SelectBinary("Sub", USize, out, a[1], a[2])>>)
      divisor == NextSlot(c1, USize)
  IN  IF SizeOf(ty) = 1 THEN c1
      ELSE Emit(AllocSlot(c1, USize), <<Usize(SizeOf(ty), divisor),
                                        SelectBinary("Div", USize, out, out, divisor)>>)

SizeOfValue(ty, out, a) ==
  CASE IsSized(ty) -> <<Usize(SizeOf(ty), out)>>
    [] SizeOf(ty.elem) = 1 -> SelectCopy(out, a + PtrSize, USize)
    [] OTHER -> <<Usize(SizeOf(ty.elem), out), SelectBinary("Mul", USize, out, out, a + PtrSize)>>

(* The internal discriminant, widened in place to the external type. *)
DiscriminantValue(ty, out, a) ==
  SelectCopyFromPtr(out, a, ty.internal, 0)
  \o IF ty.internal = ty.external THEN <<>> ELSE <<SelectCast(ty.internal, ty.external, out, out)>>

CopyNonoverlapping(c, ty, a) ==
  LET size == NextSlot(c, USize)
  IN  IF SizeOf(ty) = 1 THEN Emit(c, <<MemCopy(a[1], a[2], a[3])>>)
      ELSE Emit(AllocSlot(c, USize), <<Usize(SizeOf(ty), size), SelectBinary("Mul", USize, size, size, a[3]),
                                       MemCopy(a[1], a[2], size)>>)

(* compile_rust_intrinsic: the compiler after the intrinsic's code. *)
EmitIntrinsic(c, name, tys, a, out) ==
  CASE name \in DOMAIN OperatorOf ->
         Emit(c, <<SelectBinary(OperatorOf[name], tys[1], out, a[1], a[2])>>)
    [] name \in DOMAIN SignedOperatorOf ->
         Emit(c, <<Binary3(SignedOperatorOf[name], SizeOf(tys[1]), SignOf(tys[1]), out, a[1], a[2])>>)
    [] name \in DOMAIN PlainOperatorOf ->
         Emit(c, <<Binary3(PlainOperatorOf[name], SizeOf(tys[1]), "", out, a[1], a[2])>>)
    [] name \in DOMAIN UnaryOperatorOf ->
         Emit(c, <<Unary2(UnaryOperatorOf[name], SizeOf(tys[1]), out, a[1])>>)
    [] name = "transmute" -> Emit(c, Transmute(tys[1], tys[2], out, a[1]))
    [] name = "bswap" -> Emit(c, ByteSwap(tys[1], out, a[1]))
    [] name = "offset" -> Emit(c, PointerAdd(tys[1], tys[2], out, a))
    [] name = "ptr_offset_from_unsigned" -> PointerDistance(c, tys[1], out, a)
    [] name \in {"min_align_of", "min_align_of_val"} -> Emit(c, <<Usize(Alignment(tys[1]), out)>>)
    [] name = "size_of" -> Emit(c, <<Usize(SizeOf(tys[1]), out)>>)
    [] name = "size_of_val" -> Emit(c, SizeOfValue(tys[1], out, a[1]))
    [] name = "variant_count" -> Emit(c, <<Usize(Len(VariantsOf(tys[1])), out)>>)
    [] name = "discriminant_value" -> Emit(c, DiscriminantValue(tys[1], out, a[1]))
    [] name = "read_via_copy" -> Emit(c, SelectCopyFromPtr(out, a[1], tys[1], 0))
    [] name = "write_via_move" -> Emit(c, SelectCopyToPtr(a[1], a[2], tys[1], 0))
    [] name = "copy_nonoverlapping" -> CopyNonoverlapping(c, tys[1], a)
    [] name = "write_bytes" -> Emit(c, <<WriteBytes(SizeOf(tys[1]), a[1], a[2], a[3])>>)
    [] name \in {"abort", "unreachable"} -> Emit(c, <<Error>>)
    [] name \in {"assume", "assert_zero_valid", "assert_inhabited"} -> c
    [] name = "unlikely" -> Emit(c, SelectCopy(out, a[1], Bool))
================================================================================
