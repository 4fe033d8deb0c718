----------------------------- MODULE Instructions ------------------------------
(* What the bytecode instructions do to memory: once as the arms of the match   *)
(* that build.rs generates for the interpreter, once as the machine code that   *)
(* simple_jit.rs emits for them.  A machine is a record [mem, base]: memory, a  *)
(* function from addresses to bytes of ByteBits bits, and the address of slot 0 *)
(* of the frame that runs.  A pointer holds an address.  Floats are left out:   *)
(* the generated arms apply Rust's own operators to them.                       *)
EXTENDS Integers, Sequences

CONSTANT ByteBits   \* bits of a byte

ASSUME ByteBitsAssumption == ByteBits \in Nat \ {0}

Sizes == {1, 2, 4, 8, 16}
MaxWidth == 16 * ByteBits

PowerOfTwo[k \in 0 .. MaxWidth] == IF k = 0 THEN 1 ELSE 2 * PowerOfTwo[k - 1]
TwoTo(k) == PowerOfTwo[k]

(* t[0] + ... + t[n - 1] *)
SumTo(n, t) == LET sum[k \in 0 .. n] == IF k = 0 THEN 0 ELSE sum[k - 1] + t[k - 1] IN sum[n]

Radix == TwoTo(ByteBits)
BitWidth(size) == ByteBits * size
Modulus(size) == TwoTo(BitWidth(size))
PtrSize == 8
CallAlign == 16   \* of the frame of a function that is called

--------------------------------------------------------------------------------
(* Memory. *)

BytesOf(v, n) == [k \in 0 .. n - 1 |-> (v \div Modulus(k)) % Radix]

Signed(u, n) == IF u >= Modulus(n) \div 2 THEN u - Modulus(n) ELSE u

(* An integer of n bytes at an address. *)
Read(m, addr, n, sign) ==
  LET u == SumTo(n, [k \in 0 .. n - 1 |-> m.mem[addr + k] * Modulus(k)])
  IN  IF sign = "S" THEN Signed(u, n) ELSE u

Store(m, addr, bytes) ==
  [m EXCEPT !.mem = [x \in DOMAIN @ |-> IF x - addr \in DOMAIN bytes THEN bytes[x - addr] ELSE @[x]]]

(* Two's complement, as many bytes as the value's type has. *)
Write(m, addr, v, n) == Store(m, addr, BytesOf(v, n))

CopyBytes(m, dst, src, n) == Store(m, dst, [k \in 0 .. n - 1 |-> m.mem[src + k]])

--------------------------------------------------------------------------------
(* Rust's operators on integers of n bytes; x and y are values of the type.     *)

Absolute(x) == IF x < 0 THEN -x ELSE x
Quotient(x, y) ==
  LET q == Absolute(x) \div Absolute(y) IN IF (x < 0) = (y < 0) THEN q ELSE -q
Truth(p) == IF p THEN 1 ELSE 0

Comparisons == {"Eq", "NotEq", "Lt", "LtEq", "Gt", "GtEq"}
Shifts == {"ShiftL", "ShiftR"}
Divisions == {"Div", "Rem"}
BitOps == {"BitOr", "BitAnd", "BitXor"}
Rotations == {"RotateLeft", "RotateRight"}
Overflowing == {"OverflowingAdd", "OverflowingSub", "OverflowingMul"}
Binary == Comparisons \cup Shifts \cup Divisions \cup BitOps \cup Rotations \cup Overflowing
          \cup {"Add", "Sub", "Mul", "SatAdd"}
Unary == {"Neg", "Not", "BoolNot", "PopCount", "ReverseBits", "TrailingZeros"}

Compare(op, x, y) ==
  CASE op = "Eq" -> x = y [] op = "NotEq" -> x # y
    [] op = "Lt" -> x < y [] op = "LtEq" -> x <= y
    [] op = "Gt" -> x > y [] op = "GtEq" -> x >= y

Least(n, sign) == IF sign = "S" THEN -(Modulus(n) \div 2) ELSE 0
Greatest(n, sign) == Least(n, sign) + Modulus(n) - 1

(* Bits are numbered from 0, the lowest. *)
Bit(u, k) == (u \div TwoTo(k)) % 2
FromBits(bits, n) == SumTo(BitWidth(n), [k \in 0 .. BitWidth(n) - 1 |-> bits[k] * TwoTo(k)])

Bitwise(op, u, v, n) ==
  FromBits([k \in 0 .. BitWidth(n) - 1 |->
              CASE op = "BitOr" -> Truth(Bit(u, k) = 1 \/ Bit(v, k) = 1)
                [] op = "BitAnd" -> Truth(Bit(u, k) = 1 /\ Bit(v, k) = 1)
                [] op = "BitXor" -> Truth(Bit(u, k) # Bit(v, k))], n)

CountOnes(u, n) == SumTo(BitWidth(n), [k \in 0 .. BitWidth(n) - 1 |-> Bit(u, k)])
ReverseBits(u, n) ==
  FromBits([k \in 0 .. BitWidth(n) - 1 |-> Bit(u, BitWidth(n) - 1 - k)], n)

(* x << k and x rotated left by k, for k below the width. *)
ShiftLeft(x, k, n) == (x % TwoTo(BitWidth(n) - k)) * TwoTo(k)
Rotate(x, k, n) == ShiftLeft(x, k, n) + (x % Modulus(n)) \div TwoTo(BitWidth(n) - k)

(* The exact result; writing it back truncates, which is wrapping arithmetic. *)
Apply(op, x, y, n) ==
  LET u == x % Modulus(n)
      v == y % Modulus(n)
      count == y % BitWidth(n)
  IN  CASE op \in {"Add", "OverflowingAdd", "SatAdd"} -> x + y
        [] op \in {"Sub", "OverflowingSub"} -> x - y
        [] op \in {"Mul", "OverflowingMul"} -> x * y
        [] op \in BitOps -> Bitwise(op, u, v, n)
        [] op = "Div" -> Quotient(x, y)
        [] op = "Rem" -> x - y * Quotient(x, y)
        [] op = "ShiftL" -> ShiftLeft(x, count, n)
        [] op = "ShiftR" -> x \div TwoTo(count)
        [] op = "RotateLeft" -> Rotate(x, count, n)
        [] op = "RotateRight" -> Rotate(x, (BitWidth(n) - count) % BitWidth(n), n)

Clamp(v, n, sign) ==
  IF v < Least(n, sign) THEN Least(n, sign)
  ELSE IF v > Greatest(n, sign) THEN Greatest(n, sign) ELSE v

--------------------------------------------------------------------------------
(* Instructions: operation, width of its operands in bytes, "S"/"U" where the   *)
(* name has one ("" otherwise), slots, and the immediates n and off.            *)

Instr(op, size, sign, dst, a, b, n, off) ==
  [op |-> op, size |-> size, sign |-> sign, dst |-> dst, a |-> a, b |-> b, n |-> n, off |-> off]

Const(size, dst, n) == Instr("Const", size, "", dst, 0, 0, n, 0)
Binary3(op, size, sign, dst, a, b) == Instr(op, size, sign, dst, a, b, 0, 0)
Unary2(op, size, dst, a) == Instr(op, size, "", dst, a, 0, 0, 0)
Widen(size, from, sign, dst, a) == Instr("Widen", size, sign, dst, a, 0, from, 0)

(* MovSS, MovSP and MovPS, single (n = 0) or with a count of items of `size`. *)
Mov(op, size, dst, a, off, count) == Instr(op, size, "", dst, a, 0, count, off)

SlotAddr(dst, a) == Instr("SlotAddr", PtrSize, "", dst, a, 0, 0, 0)
SlotAddrOffset(dst, a, b) == Instr("SlotAddrOffset", PtrSize, "", dst, a, b, 0, 0)
PointerOffset(op, dst, a, off) == Instr(op, PtrSize, "", dst, a, 0, 0, off)
IndexCalc(dst, size, count) == Instr("IndexCalc", size, "", dst, 0, 0, count, 0)
IndexCalcDyn(dst, size, b) == Instr("IndexCalcDyn", size, "", dst, 0, b, 0, 0)
IndexCalcEndPointer(dst, a, size) == Instr("IndexCalcEndPointer", size, "", dst, a, 0, 0, 0)
ArrayRepeat(dst, size, count) == Instr("ArrayRepeat", size, "", dst, 0, 0, count, 0)
MemCopy(src, dst, count) == Instr("MemCopy", 1, "", dst, src, count, 0, 0)
WriteBytes(size, dst, val, count) == Instr("WriteBytes", size, "", dst, val, count, 0, 0)
Jump(off) == Instr("Jump", 0, "", 0, 0, 0, 0, off)
JumpIf(op, off, cond) == Instr(op, 0, "", 0, cond, 0, 0, off)
Call(slot, fn) == Instr("Call", 0, "", slot, 0, 0, fn, 0)
Return == Instr("Return", 0, "", 0, 0, 0, 0, 0)
Skipped == Instr("Skipped", 0, "", 0, 0, 0, 0, 0)
Error == Instr("Error", 0, "", 0, 0, 0, 0, 0)

Moves == {"MovSS", "MovSP", "MovPS"}
BulkMoves == {"MovSSN", "MovSPN", "MovPSN"}
Addressing == {"SlotAddr", "SlotAddrOffset", "PointerOffset3", "PointerOffset2", "IndexCalc",
               "IndexCalcDyn", "IndexCalcEndPointer"}
Filling == {"ArrayRepeat", "MemCopy", "WriteBytes"}
Branches == {"JumpF", "JumpT"}
Stopping == {"Return", "Skipped", "Error"}
Control == {"Jump", "Call"} \cup Branches \cup Stopping
Operations == Binary \cup Unary \cup Moves \cup BulkMoves \cup Addressing \cup Filling \cup Control
              \cup {"Const", "Widen"}

(* What the variants of the enum can hold. *)
IsInstr(i) ==
  /\ i \in [op : Operations, size : Nat, sign : {"S", "U", ""}, dst : Nat, a : Nat, b : Nat,
            n : Int, off : Int]
  /\ i.op \in Binary \cup Unary \cup {"Const", "Widen"} => i.size \in Sizes
  /\ i.op = "BoolNot" => i.size = 1
  /\ i.op = "Widen" => i.n \in Sizes
  /\ i.op \in BulkMoves \cup {"ArrayRepeat"} => i.n \in Nat

(* Outcome of an instruction: memory, how execution goes on, and where. *)
Goes(m) == [m |-> m, status |-> "run", skip |-> 1]
Jumps(m, off) == [m |-> m, status |-> "run", skip |-> off]
Stops(m, why) == [m |-> m, status |-> why, skip |-> 0]
Calls(m) == [m |-> m, status |-> "call", skip |-> 1]

(* read_stack and write_stack: the slots of the frame that runs. *)
At(m, slot) == m.base + slot
Slot(m, slot, n, sign) == Read(m, At(m, slot), n, sign)
Put(m, slot, v, n) == Goes(Write(m, At(m, slot), v, n))
Ptr(m, slot) == Slot(m, slot, PtrSize, "U")
Move(m, dst, src, n) == Goes(CopyBytes(m, dst, src, n))

--------------------------------------------------------------------------------
(* The interpreter: the generated match of build.rs. *)

(* The enum has these instructions, but no arm of the generated match. *)
Unimplemented(i) ==
  \/ i.op = "TrailingZeros"
  \/ i.op = "MovPSN" /\ i.size = 2

(* write_binary, write_shift: a shift reads one byte of its right operand.      *)
(* Operators that act on the bits read their operands signed or unsigned alike. *)
ExecBinary(i, m) ==
  LET sign == IF i.sign = "" THEN "S" ELSE i.sign
      x == Slot(m, i.a, i.size, sign)
      y == IF i.op \in Shifts THEN Slot(m, i.b, 1, "U") ELSE Slot(m, i.b, i.size, sign)
      z == Apply(i.op, x, y, i.size)
  IN  CASE i.op \in Comparisons -> Put(m, i.dst, Truth(Compare(i.op, x, y)), 1)
        [] i.op \in Divisions /\ y = 0 -> Stops(m, "panic")
        [] i.op = "SatAdd" -> Put(m, i.dst, Clamp(z, i.size, sign), i.size)
        [] i.op \in Overflowing ->
             Goes(Write(Write(m, At(m, i.dst), z, i.size), At(m, i.dst + i.size),
                        Truth(z # Clamp(z, i.size, sign)), 1))
        [] OTHER -> Put(m, i.dst, z, i.size)

(* write_unary: count_ones() is a u32, whatever the operand's width. *)
ExecUnary(i, m) ==
  LET x == Slot(m, i.a, i.size, "U")
  IN  CASE i.op = "Neg" -> Put(m, i.dst, -x, i.size)
        [] i.op = "Not" -> Put(m, i.dst, -x - 1, i.size)
        [] i.op = "BoolNot" -> Put(m, i.dst, 1 - x, 1)
        [] i.op = "PopCount" -> Put(m, i.dst, CountOnes(x, i.size), 4)
        [] i.op = "ReverseBits" -> Put(m, i.dst, ReverseBits(x, i.size), i.size)

(* write_widen, byte by byte so that 16-byte results stay representable. *)
ExecWiden(i, m) ==
  LET fill == IF i.sign = "S" /\ Slot(m, i.a, i.n, "S") < 0 THEN Radix - 1 ELSE 0
  IN  Goes(Store(m, At(m, i.dst),
                 [k \in 0 .. i.size - 1 |-> IF k < i.n THEN m.mem[At(m, i.a) + k] ELSE fill]))

(* The bulk moves copy their items in ascending order, one at a time. *)
MoveItems(m, dst, src, size, n) ==
  LET copied[k \in 0 .. n] ==
        IF k = 0 THEN m
        ELSE CopyBytes(copied[k - 1], dst + (k - 1) * size, src + (k - 1) * size, size)
  IN  Goes(copied[n])

ExecMove(i, m) ==
  CASE i.op = "MovSS" -> Move(m, At(m, i.dst), At(m, i.a), i.size)
    [] i.op = "MovSP" -> Move(m, At(m, i.dst), Ptr(m, i.a) + i.off, i.size)
    [] i.op = "MovPS" -> Move(m, Ptr(m, i.dst) + i.off, At(m, i.a), i.size)
    [] i.op = "MovSSN" -> MoveItems(m, At(m, i.dst), At(m, i.a), i.size, i.n)
    [] i.op = "MovSPN" -> MoveItems(m, At(m, i.dst), Ptr(m, i.a) + i.off, i.size, i.n)
    [] i.op = "MovPSN" -> MoveItems(m, Ptr(m, i.dst) + i.off, At(m, i.a), i.size, i.n)

(* An index in dst becomes a byte offset, or the bounds check panics. *)
Indexed(m, dst, size, count) ==
  IF Ptr(m, dst) >= count THEN Stops(m, "panic") ELSE Put(m, dst, Ptr(m, dst) * size, PtrSize)

ExecAddress(i, m) ==
  CASE i.op = "SlotAddr" -> Put(m, i.dst, At(m, i.a), PtrSize)
    [] i.op = "SlotAddrOffset" -> Put(m, i.dst, At(m, i.a) + Ptr(m, i.b), PtrSize)
    [] i.op = "PointerOffset3" -> Put(m, i.dst, Ptr(m, i.dst) + Ptr(m, i.a) + i.off, PtrSize)
    [] i.op = "PointerOffset2" -> Put(m, i.dst, Ptr(m, i.a) + i.off, PtrSize)
    [] i.op = "IndexCalc" -> Indexed(m, i.dst, i.size, i.n)
    [] i.op = "IndexCalcDyn" -> Indexed(m, i.dst, i.size, Ptr(m, i.b))
    [] i.op = "IndexCalcEndPointer" ->
         Put(m, i.dst, Ptr(m, i.a) + Ptr(m, i.a + PtrSize) * i.size, PtrSize)

ExecBytes(i, m) ==
  CASE i.op = "ArrayRepeat" ->
         Goes(Store(m, At(m, i.dst) + i.size,
                    [k \in 0 .. (i.n - 1) * i.size - 1 |-> m.mem[At(m, i.dst) + (k % i.size)]]))
    [] i.op = "MemCopy" -> MoveItems(m, Ptr(m, i.dst), Ptr(m, i.a), 1, Ptr(m, i.b))
    [] i.op = "WriteBytes" ->
         Goes(Store(m, Ptr(m, i.dst),
                    [k \in 0 .. Ptr(m, i.b) * i.size - 1 |-> Slot(m, i.a, 1, "U")]))

ExecJump(i, m) ==
  CASE i.op = "Jump" -> Jumps(m, i.off)
    [] i.op = "JumpF" -> IF Slot(m, i.a, 1, "U") = 0 THEN Jumps(m, i.off) ELSE Goes(m)
    [] i.op = "JumpT" -> IF Slot(m, i.a, 1, "U") # 0 THEN Jumps(m, i.off) ELSE Goes(m)
    [] i.op = "Call" -> Calls(m)
    [] i.op = "Return" -> Stops(m, "return")
    [] i.op \in {"Skipped", "Error"} -> Stops(m, "panic")

Exec(i, m) ==
  IF Unimplemented(i) THEN Stops(m, "nyi")
  ELSE CASE i.op = "Const" -> Put(m, i.dst, i.n, i.size)
         [] i.op = "Widen" -> ExecWiden(i, m)
         [] i.op \in Unary -> ExecUnary(i, m)
         [] i.op \in Moves \cup BulkMoves -> ExecMove(i, m)
         [] i.op \in Addressing -> ExecAddress(i, m)
         [] i.op \in Filling -> ExecBytes(i, m)
         [] i.op \in Control -> ExecJump(i, m)
         [] i.op \in Binary -> ExecBinary(i, m)

--------------------------------------------------------------------------------
(* What an instruction reads and writes: n bytes at a slot of its frame, and at *)
(* the addresses that slots hold.                                               *)

MovedBytes(i) == IF i.op \in BulkMoves THEN i.size * i.n ELSE i.size

FrameBytes(i) ==
  CASE i.op = "Const" -> {<<i.dst, i.size>>}
    [] i.op = "Widen" -> {<<i.a, i.n>>, <<i.dst, i.size>>}
    [] i.op \in Unary -> {<<i.a, i.size>>, <<i.dst, IF i.op = "PopCount" THEN 4 ELSE i.size>>}
    [] i.op \in {"MovSS", "MovSSN"} -> {<<i.a, MovedBytes(i)>>, <<i.dst, MovedBytes(i)>>}
    [] i.op \in {"MovSP", "MovSPN"} -> {<<i.a, PtrSize>>, <<i.dst, MovedBytes(i)>>}
    [] i.op \in {"MovPS", "MovPSN"} -> {<<i.a, MovedBytes(i)>>, <<i.dst, PtrSize>>}
    [] i.op \in {"SlotAddr", "IndexCalc"} -> {<<i.dst, PtrSize>>}
    [] i.op \in {"SlotAddrOffset", "IndexCalcDyn"} -> {<<i.b, PtrSize>>, <<i.dst, PtrSize>>}
    [] i.op \in {"PointerOffset2", "PointerOffset3"} -> {<<i.a, PtrSize>>, <<i.dst, PtrSize>>}
    [] i.op = "IndexCalcEndPointer" -> {<<i.a, 2 * PtrSize>>, <<i.dst, PtrSize>>}
    [] i.op = "ArrayRepeat" -> {<<i.dst, i.size * i.n>>}
    [] i.op \in {"MemCopy", "WriteBytes"} ->
         {<<i.dst, PtrSize>>, <<i.a, IF i.op = "MemCopy" THEN PtrSize ELSE 1>>, <<i.b, PtrSize>>}
    [] i.op \in Branches -> {<<i.a, 1>>}
    [] i.op \in Control \ Branches -> {}
    [] i.op \in Binary ->
         {<<i.a, i.size>>, <<i.b, IF i.op \in Shifts THEN 1 ELSE i.size>>,
          <<i.dst, IF i.op \in Comparisons THEN 1 ELSE IF i.op \in Overflowing THEN i.size + 1 ELSE i.size>>}

PointedBytes(i, m) ==
  CASE i.op \in {"MovSP", "MovSPN"} -> {<<Ptr(m, i.a) + i.off, MovedBytes(i)>>}
    [] i.op \in {"MovPS", "MovPSN"} -> {<<Ptr(m, i.dst) + i.off, MovedBytes(i)>>}
    [] i.op = "MemCopy" -> {<<Ptr(m, i.dst), Ptr(m, i.b)>>, <<Ptr(m, i.a), Ptr(m, i.b)>>}
    [] i.op = "WriteBytes" -> {<<Ptr(m, i.dst), Ptr(m, i.b) * i.size>>}
    [] OTHER -> {}

Mapped(m, addr, n) == addr .. addr + n - 1 \subseteq DOMAIN m.mem

(* Anything else is a segmentation fault. *)
InMemory(i, m) ==
  /\ \A s \in FrameBytes(i) : Mapped(m, At(m, s[1]), s[2])
  /\ \A s \in PointedBytes(i, m) : Mapped(m, s[1], s[2])
================================================================================
