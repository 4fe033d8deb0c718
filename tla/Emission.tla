------------------------------- MODULE Emission --------------------------------
(* The state of the bytecode compiler and what it does with it one instruction  *)
(* or one slot at a time: bytecode_compiler.rs, for values that own nothing     *)
(* (module DropScopes is about the others).  The compiler is a record           *)
(*   [bc, stack, locals, loops, breaks]                                         *)
(* with its fields `out_bc`, `stack`, `locals`, `loops` and `loop_breaks`.      *)
(* A `Local` is its slot: the types are those of the expressions.               *)
EXTENDS Selection

CS == INSTANCE CompilerStack

NewCompiler == [bc |-> <<>>, stack |-> CS!EmptyStack, locals |-> <<>>, loops |-> <<>>, breaks |-> <<>>]

Emit(c, instrs) == [c EXCEPT !.bc = @ \o instrs]

(* alloc and alloc_no_drop: the new slot, and the compiler after it. *)
NextSlot(c, ty) == CS!Align(c.stack.top, Alignment(ty))
AllocSlot(c, ty) == [c EXCEPT !.stack = CS!AllocNoDrop(@, SizeOf(ty), Alignment(ty))]

(* `dest.unwrap_or_else(|| self.stack.alloc(expr_ty))` *)
DestSlot(c, dest, ty) == IF dest = None THEN NextSlot(c, ty) ELSE dest
WithDest(c, dest, ty) == IF dest = None THEN AllocSlot(c, ty) ELSE c

(* local_void and local_never, the dummies at slot 0. *)
OrDummy(dest) == IF dest = None THEN 0 ELSE dest

(* skip_instr; the index of the placeholder is Len(bc) after it. *)
Skip(c) == Emit(c, <<Skipped>>)

(* A placeholder becomes a jump to the next instruction emitted. *)
Patch(c, gap, Instruction(_)) == [c EXCEPT !.bc[gap] = Instruction(Len(c.bc) + 1 - gap)]

RECURSIVE PatchAll(_, _, _, _)
PatchAll(c, gaps, op, cond) ==
  IF gaps = <<>> THEN c
  ELSE PatchAll(Patch(c, Head(gaps), LAMBDA off : IF op = "Jump" THEN Jump(off) ELSE JumpIf(op, off, cond)),
                Tail(gaps), op, cond)

(* "cut out unnecessary jumps": a gap that is the last instruction is removed.  *)
CutLastGap(c, gaps) ==
  IF gaps # <<>> /\ gaps[Len(gaps)] = Len(c.bc)
  THEN [c |-> [c EXCEPT !.bc = SubSeq(@, 1, Len(@) - 1)], gaps |-> SubSeq(gaps, 1, Len(gaps) - 1)]
  ELSE [c |-> c, gaps |-> gaps]

(* find_local: the first entry with this id. *)
Bound(c, id) == \E k \in 1 .. Len(c.locals) : c.locals[k].id = id
FindLocal(c, id) ==
  c.locals[CHOOSE k \in 1 .. Len(c.locals) :
             c.locals[k].id = id /\ \A j \in 1 .. k - 1 : c.locals[j].id # id].slot
Bind(c, id, slot) == [c EXCEPT !.locals = Append(@, [id |-> id, slot |-> slot])]
FindOrAlloc(c, id, ty) == IF Bound(c, id) THEN c ELSE Bind(AllocSlot(c, ty), id, NextSlot(c, ty))

(* Places. *)
LocalPlace(slot) == [at |-> "local", slot |-> slot, off |-> 0]
PtrPlace(slot, off) == [at |-> "ptr", slot |-> slot, off |-> off]
OffsetBy(place, n) ==
  IF place.at = "local" THEN LocalPlace(place.slot + n) ELSE PtrPlace(place.slot, place.off + n)

(* A value read from a place into a slot. *)
CopyFromPlace(dst, place, ty) ==
  IF place.at = "local" THEN SelectCopy(dst, place.slot, ty)
  ELSE SelectCopyFromPtr(dst, place.slot, ty, place.off)
================================================================================
