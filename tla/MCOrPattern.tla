------------------------------ MODULE MCOrPattern ------------------------------
(* The code of one pattern, `2 | _`, run on its own on every byte.              *)
EXTENDS Execution

Byte == IntTy(1, "U")
ResultSlot == 0
ValueSlotAt == 1

Matched ==
  LET c == AllocSlot(AllocSlot(NewCompiler, Bool), Byte)
  IN  MatchPattern(c, POr(<<PLit(2, Byte), PHole(Byte)>>), LocalPlace(ValueSlotAt), FALSE, ResultSlot)

(* result tells whether the pattern is refutable. *)
MCPrograms == {"2 | _"}
MCRunsOf(p) ==
  {[code |-> <<Emit(Matched.c, <<Return>>).bc>>,
      result |-> Matched.refutable,
      expected |-> Done(<<>>, <<>>),
      machine |-> Write([mem |-> [a \in 0 .. MemorySize - 1 |-> fill], base |-> StackBase],
                        StackBase + ValueSlotAt, v, 1)] : v \in 0 .. Radix - 1, fill \in Garbage}

(* What the comment of match_pattern_internal says: if a pattern is not         *)
(* refutable, match_result_slot is not written to.                              *)
IrrefutableKeepsSlot ==
  [][result \/ machine'.mem[StackBase + ResultSlot] = machine.mem[StackBase + ResultSlot]]_state
================================================================================
