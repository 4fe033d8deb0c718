------------------------------- MODULE Lowering --------------------------------
(* How the bytecode compiler lowers an expression, a place and a pattern:       *)
(* lower_expr, expr_to_place, match_pattern_internal and build_call of          *)
(* bytecode_compiler.rs.  A lowering returns the compiler after it and the slot *)
(* of the value (`at`) or the place.                                            *)
EXTENDS Intrinsics

RECURSIVE LowerExpr(_, _, _), LowerPlace(_, _), MatchPattern(_, _, _, _, _)

IsPlace(e) == e.op \in {"Var", "Deref", "Field", "Index"}

(* Several expressions, each into its own slot of `dests` (None: anywhere).     *)
LowerEach(c0, es, dests) ==
  LET done[k \in 0 .. Len(es)] ==
        IF k = 0 THEN [c |-> c0, at |-> <<>>]
        ELSE LET before == done[k - 1]
                 r == LowerExpr(before.c, es[k], dests[k])
             IN  [c |-> r.c, at |-> Append(before.at, r.at)]
  IN  done[Len(es)]

Anywhere(es) == [k \in 1 .. Len(es) |-> None]

LowerLiteral(c, n, ty, dest) ==
  LET d == DestSlot(c, dest, ty)
  IN  [c |-> Emit(WithDest(c, dest, ty), <<SelectLiteral(n, SizeOf(ty), d)>>), at |-> d]

(* An instruction of one operand, whose destination is allocated first. *)
LowerOneOperand(c, e, dest, Instruction(_, _)) ==
  LET d == DestSlot(c, dest, e.ty)
      a == LowerExpr(WithDest(c, dest, e.ty), e.arg, None)
  IN  [c |-> Emit(a.c, Instruction(d, a.at)), at |-> d]

LowerBinary(c, e, dest) ==
  LET d == DestSlot(c, dest, e.ty)
      l == LowerExpr(WithDest(c, dest, e.ty), e.lhs, None)
      r == LowerExpr(l.c, e.rhs, None)
  IN  [c |-> Emit(r.c, <<SelectBinary(e.bin, e.lhs.ty, d, l.at, r.at)>>), at |-> d]

(* The right side first, then the place. *)
StoreAt(p, val, ty) ==
  Emit(p.c, IF p.place.at = "local" THEN SelectCopy(p.place.slot, val, ty)
            ELSE SelectCopyToPtr(p.place.slot, val, ty, p.place.off))
LowerAssign(c, e, dest) ==
  LET r == LowerExpr(c, e.rhs, None)
  IN  [c |-> StoreAt(LowerPlace(r.c, e.lhs), r.at, e.lhs.ty), at |-> OrDummy(dest)]

Update(p, op, val, ty) ==
  LET tmp == NextSlot(p.c, ty)
  IN  IF p.place.at = "local"
      THEN Emit(p.c, <<SelectBinary(op, ty, p.place.slot, p.place.slot, val)>>)
      ELSE Emit(AllocSlot(p.c, ty),
                SelectCopyFromPtr(tmp, p.place.slot, ty, p.place.off)
                \o <<SelectBinary(op, ty, tmp, tmp, val)>>
                \o SelectCopyToPtr(p.place.slot, tmp, ty, p.place.off))
LowerAssignOp(c, e, dest) ==
  LET r == LowerExpr(c, e.rhs, None)
  IN  [c |-> Update(LowerPlace(r.c, e.lhs), e.bin, r.at, e.lhs.ty), at |-> OrDummy(dest)]

(* A pattern that cannot fail leaves writing the result to its user. *)
Settled(m, res) == IF m.refutable THEN m.c ELSE Emit(m.c, <<Const(1, res, 1)>>)

(* match_pattern_expr: a pattern takes over the slot of a value nobody names.   *)
MatchAt(p, pat, alias, res) ==
  IF res = None THEN MatchPattern(p.c, pat, p.place, alias, res).c
  ELSE Settled(MatchPattern(p.c, pat, p.place, alias, res), res)
MatchInit(c, pat, init, res) ==
  MatchAt(IF Given(init) THEN LowerPlace(c, init)
          ELSE [c |-> AllocSlot(c, pat.ty), place |-> LocalPlace(NextSlot(c, pat.ty))],
          pat, ~(Given(init) /\ IsPlace(init)), res)

LeaveScope(c, entered) == [c EXCEPT !.stack = CS!PopScope(@, CS!Saved(entered.stack))]
LowerStmt(c, s) ==
  IF s.stmt = "let" THEN MatchInit(c, s.pat, s.init, None)
  ELSE LeaveScope(LowerExpr([c EXCEPT !.stack = CS!PushScope(@)], s.expr, None).c, c)

(* lower_block: the result's slot is allocated outside of the block's scope.    *)
LowerStmts(c, stmts) ==
  LET body[k \in 0 .. Len(stmts)] ==
        IF k = 0 THEN [c EXCEPT !.stack = CS!PushScope(@)] ELSE LowerStmt(body[k - 1], stmts[k])
  IN  body[Len(stmts)]
BlockResult(c, e, d) == IF Given(e.result) THEN LowerExpr(c, e.result, d).c ELSE c
LowerBlock(c, e, dest) ==
  LET d == IF Given(e.result) THEN DestSlot(c, dest, e.ty) ELSE OrDummy(dest)
      c1 == IF Given(e.result) THEN WithDest(c, dest, e.ty) ELSE c
  IN  [c |-> LeaveScope(BlockResult(LowerStmts(c1, e.stmts), e, d), c1), at |-> d]

LowerIf(c, e, dest) ==
  LET cond == LowerExpr(c, e.cond, None)
      gap1 == Skip(cond.c)
      d == DestSlot(gap1, dest, e.ty)
      then == LowerExpr(WithDest(gap1, dest, e.ty), e.then, d)
      gap2 == Skip(then.c)
      c1 == Patch(gap2, Len(gap1.bc), LAMBDA off : JumpIf("JumpF", off, cond.at))
      else == LowerExpr(c1, e.else, d)
  IN  [c |-> Patch(else.c, Len(gap2.bc), Jump), at |-> d]

LowerWhen(c, e, dest) ==
  LET cond == LowerExpr(c, e.cond, None)
      gap == Skip(cond.c)
      then == LowerExpr(gap, e.then, dest)
  IN  [c |-> Patch(then.c, Len(gap.bc), LAMBDA off : JumpIf("JumpF", off, cond.at)), at |-> then.at]

LowerLogic(c, e, dest) ==
  LET d == DestSlot(c, dest, e.ty)
      gap == Skip(LowerExpr(WithDest(c, dest, e.ty), e.lhs, d).c)
      rhs == LowerExpr(gap, e.rhs, d)
      op == IF e.logic = "and" THEN "JumpF" ELSE "JumpT"
  IN  [c |-> Patch(rhs.c, Len(gap.bc), LAMBDA off : JumpIf(op, off, d)), at |-> d]

(* A loop ends in a jump to its start; its breaks are patched to what follows.  *)
LowerLoop(c, e, dest) ==
  LET d == DestSlot(c, dest, e.ty)
      c1 == WithDest(c, dest, e.ty)
      start == Len(c1.bc) + 1
      body == LowerExpr([c1 EXCEPT !.loops = Append(@, [id |-> e.id, result |-> d, start |-> start])],
                        e.body, 0).c
      c2 == Emit(body, <<Jump(start - (Len(body.bc) + 1))>>)
      mine == SelectSeq(c2.breaks, LAMBDA b : b.id = e.id)
      c3 == PatchAll(c2, [k \in 1 .. Len(mine) |-> mine[k].gap], "Jump", 0)
  IN  [c |-> [c3 EXCEPT !.loops = SubSeq(@, 1, Len(@) - 1),
                        !.breaks = SelectSeq(@, LAMBDA b : b.id # e.id)],
       at |-> d]

LoopOf(c, id) == CHOOSE l \in {c.loops[k] : k \in 1 .. Len(c.loops)} : l.id = id

LowerBreak(c, e, dest) ==
  LET c1 == Skip(IF Given(e.value) THEN LowerExpr(c, e.value, LoopOf(c, e.id).result).c ELSE c)
  IN  [c |-> [c1 EXCEPT !.breaks = Append(@, [id |-> e.id, gap |-> Len(c1.bc)])],
       at |-> OrDummy(dest)]

(* Mutant: the jump is measured from the instruction that is not emitted yet. *)
LowerContinueTooFar(c, e, dest) ==
  [c |-> Emit(c, <<Jump(LoopOf(c, e.id).start - (Len(c.bc) + 2))>>), at |-> OrDummy(dest)]

LowerContinue(c, e, dest) ==
  [c |-> Emit(c, <<Jump(LoopOf(c, e.id).start - (Len(c.bc) + 1))>>), at |-> OrDummy(dest)]

(* The result of the function is at slot 0. *)
LowerReturn(c, e, dest) ==
  LET c1 == IF Given(e.value) THEN LowerExpr(c, e.value, 0).c ELSE c
  IN  [c |-> Emit(c1, <<Return>>), at |-> OrDummy(dest)]

(* Tuple and Array: every field is lowered into its part of the destination.    *)
LowerFields(c, e, dest) ==
  LET d == DestSlot(c, dest, e.ty)
      slots == [k \in 1 .. Len(e.fields) |->
                  d + IF e.op = "Tuple" THEN FieldOffset(e.ty, 1, k) ELSE (k - 1) * SizeOf(e.ty.elem)]
  IN  [c |-> LowerEach(WithDest(c, dest, e.ty), e.fields, slots).c, at |-> d]

LowerRepeat(c, e, dest) ==
  LET d == DestSlot(c, dest, e.ty)
      c1 == LowerExpr(WithDest(c, dest, e.ty), e.arg, d).c
  IN  [c |-> Emit(c1, <<ArrayRepeat(d, SizeOf(e.arg.ty), e.ty.count)>>), at |-> d]

(* The discriminant, the fields in the order they are written, and what the     *)
(* expression after `..` has for the others.                                    *)
LowerAdt(c, e, dest) ==
  LET d == DestSlot(c, dest, e.ty)
      c1 == Emit(WithDest(c, dest, e.ty),
                 IF e.ty.kind = "enum"
                 THEN <<SelectLiteral(Discriminant(e.ty, e.variant), SizeOf(e.ty.internal), d)>>
                 ELSE <<>>)
      n == Len(e.fields)
      c2 == LowerEach(c1, [k \in 1 .. n |-> e.fields[k][2]],
                      [k \in 1 .. n |-> d + FieldOffset(e.ty, e.variant, e.fields[k][1])]).c
      rest == LowerExpr(c2, e.rest, None)
      tys == VariantsOf(e.ty)[e.variant]
      copied[k \in 0 .. Len(tys)] ==
        IF k = 0 THEN rest.c
        ELSE Emit(copied[k - 1],
                  IF \E j \in 1 .. n : e.fields[j][1] = k THEN <<>>
                  ELSE SelectCopy(d + FieldOffset(e.ty, e.variant, k),
                                  rest.at + FieldOffset(e.ty, e.variant, k), tys[k]))
  IN  [c |-> IF Given(e.rest) THEN copied[Len(tys)] ELSE c2, at |-> d]

(* A reference to a place: the address of a local, an offset pointer, or, with  *)
(* no offset and no destination, the pointer's own slot.                        *)
RefToPlace(p, e, dest) ==
  LET d == DestSlot(p.c, dest, e.ty)
      c1 == WithDest(p.c, dest, e.ty)
      meta == IF IsSized(e.ty.to) THEN <<>>
              ELSE SelectCopy(d + PtrSize, p.place.slot + PtrSize, USize)
  IN  CASE p.place.at = "local" -> [c |-> Emit(c1, <<SlotAddr(d, p.place.slot)>>), at |-> d]
        [] p.place.at = "ptr" /\ p.place.off # 0 ->
             [c |-> Emit(c1, <<PointerOffset("PointerOffset2", d, p.place.slot, p.place.off)>> \o meta),
              at |-> d]
        [] p.place.at = "ptr" /\ p.place.off = 0 /\ dest # None ->
             [c |-> Emit(p.c, SelectCopy(dest, p.place.slot, e.ty)), at |-> dest]
        [] OTHER -> [c |-> p.c, at |-> p.place.slot]
LowerRef(c, e, dest) == RefToPlace(LowerPlace(c, e.arg), e, dest)

(* PointerCast::UnSize of an array: its pointer, and its length as metadata.    *)
LowerUnsize(c, e, dest) ==
  LET d == DestSlot(c, dest, e.ty)
      a == LowerExpr(WithDest(c, dest, e.ty), e.arg, None)
  IN  [c |-> Emit(a.c, SelectCopy(d, a.at, USize)
                       \o <<SelectLiteral(e.arg.ty.to.count, PtrSize, d + PtrSize)>>),
       at |-> d]

(* build_call: arguments anywhere first, then the frame (return value and       *)
(* parameters) at a call-aligned slot, then the copies into it.                 *)

(* Mutant: the frame is put on top of the stack as it is. *)
FrameSlotsUnaligned(c, ret, tys) ==
  LET after[k \in 0 .. Len(tys)] ==
        IF k = 0 THEN AllocSlot(c, ret) ELSE AllocSlot(after[k - 1], tys[k])
  IN  [c |-> after[Len(tys)], ret |-> NextSlot(c, ret),
       at |-> [k \in 1 .. Len(tys) |-> NextSlot(after[k - 1], tys[k])]]

FrameSlots(c, ret, tys) ==
  LET base == [c EXCEPT !.stack.top = CS!Align(@, CallAlign)]
      after[k \in 0 .. Len(tys)] ==
        IF k = 0 THEN AllocSlot(base, ret) ELSE AllocSlot(after[k - 1], tys[k])
  IN  [c |-> after[Len(tys)], ret |-> base.stack.top,
       at |-> [k \in 1 .. Len(tys) |-> NextSlot(after[k - 1], tys[k])]]

LowerCall(c, e, dest) ==
  LET args == LowerEach(c, e.args, Anywhere(e.args))
      frame == FrameSlots(args.c, e.ty, [k \in 1 .. Len(e.args) |-> e.args[k].ty])
      copied[k \in 0 .. Len(e.args)] ==
        IF k = 0 THEN frame.c
        ELSE Emit(copied[k - 1], SelectCopy(frame.at[k], args.at[k], e.args[k].ty))
      c1 == Emit(copied[Len(e.args)], <<Call(frame.ret, e.fn)>>)
  IN  IF dest = None THEN [c |-> c1, at |-> frame.ret]
      ELSE [c |-> Emit(c1, SelectCopy(dest, frame.ret, e.ty)), at |-> dest]

LowerLet(c, e, dest) ==
  LET d == DestSlot(c, dest, e.ty)
  IN  [c |-> MatchInit(WithDest(c, dest, e.ty), e.pat, e.init, d), at |-> d]

(* match_pattern_place: one arm's pattern, on a place that is never taken over. *)
MatchPlace(c, pat, place, res) ==
  Settled(MatchPattern(c, pat, place, FALSE, res), res)

(* The guard and the body of an arm whose pattern has been tested: both tests   *)
(* jump to the next arm.                                                        *)
ToNextArm(c, gap, res) == Patch(c, gap, LAMBDA off : JumpIf("JumpF", off, res))
ArmBody(c, arm, d) == Skip(LowerExpr(c, arm.body, d).c)
GuardedArm(test, guard, arm, res, d) ==
  LET body == ArmBody(guard, arm, d)
  IN  [c |-> ToNextArm(ToNextArm(body, Len(test.bc), res), Len(guard.bc), res), gap |-> Len(body.bc)]
PlainArm(test, arm, res, d) ==
  LET body == ArmBody(test, arm, d)
  IN  [c |-> ToNextArm(body, Len(test.bc), res), gap |-> Len(body.bc)]

AfterTest(test, arm, res, d) ==
  IF Given(arm.guard) THEN GuardedArm(test, Skip(LowerExpr(test, arm.guard, res).c), arm, res, d)
  ELSE PlainArm(test, arm, res, d)

LowerArm(c, arm, place, res, d) == AfterTest(Skip(MatchPlace(c, arm.pat, place, res)), arm, res, d)

(* An arm ends with a jump behind the last one. *)
WithArm(before, arm) == [gaps |-> Append(before.gaps, arm.gap), c |-> arm.c]
EndArms(all) == PatchAll(all.c, all.gaps, "Jump", 0)

NextArm(before, arm, place, res, d) == WithArm(before, LowerArm(before.c, arm, place, res, d))
LowerArms(src, es, res, d) ==
  LET arms[k \in 0 .. Len(es)] ==
        IF k = 0 THEN [c |-> src.c, gaps |-> <<>>]
        ELSE NextArm(arms[k - 1], es[k], src.place, res, d)
  IN  EndArms(arms[Len(es)])
LowerMatch(c, e, dest) ==
  LET d == DestSlot(c, dest, e.ty)
      c1 == WithDest(c, dest, e.ty)
  IN  [c |-> LowerArms(LowerPlace(AllocSlot(c1, Bool), e.arg), e.arms, NextSlot(c1, Bool), d), at |-> d]

--------------------------------------------------------------------------------
(* Places. *)

(* The index slot becomes the element's pointer.  The index is lowered before   *)
(* the indexed place.                                                           *)
ElementOf(base, e, tmp) ==
  LET slot == base.place.slot
      instrs == CASE e.lhs.ty.kind = "slice" ->
                       <<IndexCalcDyn(tmp, SizeOf(e.ty), slot + PtrSize),
                         PointerOffset("PointerOffset3", tmp, slot, 0)>>
                  [] base.place.at = "local" -> <<SlotAddrOffset(tmp, slot, tmp)>>
                  [] OTHER -> <<PointerOffset("PointerOffset3", tmp, slot, base.place.off)>>
  IN  [c |-> Emit(base.c, instrs), place |-> PtrPlace(tmp, 0)]

PlaceOfElement(c, e) ==
  LET tmp == NextSlot(c, USize)
      index == LowerExpr(AllocSlot(c, USize), e.index, tmp).c
      checked == IF e.lhs.ty.kind = "array"
                 THEN Emit(index, <<IndexCalc(tmp, SizeOf(e.ty), e.lhs.ty.count)>>) ELSE index
  IN  ElementOf(LowerPlace(checked, e.lhs), e, tmp)

LowerPlace(c, e) ==
  CASE e.op = "Var" -> [c |-> c, place |-> LocalPlace(FindLocal(c, e.id))]
    [] e.op = "Deref" ->
         LET a == LowerExpr(c, e.arg, None) IN [c |-> a.c, place |-> PtrPlace(a.at, 0)]
    [] e.op = "Field" ->
         LET p == LowerPlace(c, e.lhs)
         IN  [p EXCEPT !.place = OffsetBy(@, FieldOffset(e.lhs.ty, 1, e.field))]
    [] e.op = "Index" -> PlaceOfElement(c, e)
    [] OTHER -> LET r == LowerExpr(c, e, None) IN [c |-> r.c, place |-> LocalPlace(r.at)]

--------------------------------------------------------------------------------
(* Patterns.  The result: the compiler, and whether the pattern is refutable;   *)
(* if it is, `res` holds 1 after it iff it matched.                             *)

(* Sub-patterns in order, each on its own place; a refutable one is followed by *)
(* a gap, to be patched to the end of the pattern.                              *)
Tested(before, m) ==
  IF ~m.refutable THEN [before EXCEPT !.c = m.c]
  ELSE [c |-> Skip(m.c), refutable |-> TRUE, gaps |-> Append(before.gaps, Len(m.c.bc) + 1)]

MatchNext(before, pat, place, alias, res) ==
  Tested(before, MatchPattern(before.c, pat, place, alias, res))
MatchEach(c0, pats, places, alias, res) ==
  LET done[k \in 0 .. Len(pats)] ==
        IF k = 0 THEN [c |-> c0, refutable |-> FALSE, gaps |-> <<>>]
        ELSE MatchNext(done[k - 1], pats[k], places[k], alias, res)
  IN  done[Len(pats)]

(* The end of a pattern with gaps. *)
CloseGaps(c, gaps, op, res) ==
  LET cut == CutLastGap(c, gaps) IN PatchAll(cut.c, cut.gaps, op, res)
Closed(m, op, res) == [c |-> CloseGaps(m.c, m.gaps, op, res), refutable |-> m.refutable]

FieldPlaces(pat, variant, place) ==
  [k \in 1 .. Len(pat.fields) |-> OffsetBy(place, FieldOffset(pat.ty, variant, pat.fields[k][1]))]

MatchStruct(c, pat, place, alias, res) ==
  Closed(MatchEach(c, [k \in 1 .. Len(pat.fields) |-> pat.fields[k][2]],
                   FieldPlaces(pat, 1, place), alias, res), "JumpF", res)

(* The discriminant is tested like a literal, then the variant's fields. *)
MatchVariant(disc, pat, place, alias, res) ==
  LET m == MatchEach(disc, [k \in 1 .. Len(pat.fields) |-> pat.fields[k][2]],
                     FieldPlaces(pat, pat.variant, place), alias, res)
  IN  [c |-> CloseGaps(m.c, <<Len(disc.bc)>> \o m.gaps, "JumpF", res), refutable |-> TRUE]

MatchEnum(c, pat, place, alias, res) ==
  LET fake == PLit(Discriminant(pat.ty, pat.variant), pat.ty.internal)
  IN  MatchVariant(Skip(MatchPattern(c, fake, place, alias, res).c), pat, place, alias, res)

(* The options up to the first irrefutable one; bindings always copy. *)
WithOption(before, m) ==
  CASE ~before.refutable -> before
    [] ~m.refutable -> [before EXCEPT !.c = m.c, !.refutable = FALSE]
    [] OTHER -> [c |-> Skip(m.c), refutable |-> TRUE, gaps |-> Append(before.gaps, Len(m.c.bc) + 1)]

MatchOption(before, pat, place, res) == WithOption(before, MatchPattern(before.c, pat, place, FALSE, res))
MatchOr(c, pat, place, res) ==
  LET done[k \in 0 .. Len(pat.options)] ==
        IF k = 0 THEN [c |-> c, refutable |-> TRUE, gaps |-> <<>>]
        ELSE MatchOption(done[k - 1], pat.options[k], place, res)
  IN  Closed(done[Len(pat.options)], "JumpT", res)

(* By value: a fresh copy unless the source can be taken over.  By reference:   *)
(* the source's address.                                                        *)
MatchBinding(c, pat, place, alias, res) ==
  LET takes == pat.mode = "value" /\ place.at = "local" /\ alias /\ pat.sub.pat = "hole"
      c1 == FindOrAlloc(c, pat.id, pat.ty)
      var == FindLocal(c1, pat.id)
      instrs == CASE pat.mode = "value" -> CopyFromPlace(var, place, pat.ty)
                  [] place.at = "local" -> <<SlotAddr(var, place.slot)>>
                  [] OTHER -> <<PointerOffset("PointerOffset2", var, place.slot, place.off)>>
      c2 == IF takes THEN Bind(c, pat.id, place.slot) ELSE Emit(c1, instrs)
  IN  IF pat.sub.pat = "hole" THEN [c |-> c2, refutable |-> FALSE]
      ELSE MatchPattern(c2, pat.sub, place, FALSE, res)

MatchDeref(c, pat, place, res) ==
  IF place.at = "local" THEN MatchPattern(c, pat.sub, PtrPlace(place.slot, 0), FALSE, res)
  ELSE MatchPattern(Emit(AllocSlot(c, pat.ty),
                         SelectCopyFromPtr(NextSlot(c, pat.ty), place.slot, pat.ty, place.off)),
                    pat.sub, PtrPlace(NextSlot(c, pat.ty), 0), FALSE, res)

(* The value to be compared: a local itself, or a copy of what is pointed to.   *)
ValueSlot(c, ty, place) == IF place.at = "local" THEN place.slot ELSE NextSlot(c, ty)
LoadValue(c, ty, place) ==
  IF place.at = "local" THEN c
  ELSE Emit(AllocSlot(c, ty), SelectCopyFromPtr(NextSlot(c, ty), place.slot, ty, place.off))

MatchLiteral(c, pat, place, res) ==
  LET val == ValueSlot(c, pat.ty, place)
      c1 == LoadValue(c, pat.ty, place)
      lit == NextSlot(c1, pat.ty)
  IN  [c |-> Emit(AllocSlot(c1, pat.ty), <<SelectLiteral(pat.n, SizeOf(pat.ty), lit),
                                           SelectBinary("Eq", pat.ty, res, val, lit)>>),
       refutable |-> TRUE]

(* The end first; with both bounds, the start only if the end held. *)
TestAbove(c, pat, val, res) ==
  LET hi == LowerLiteral(c, pat.hi, pat.ty, None)
  IN  Emit(hi.c, <<SelectBinary(IF pat.inclusive THEN "LtEq" ELSE "Lt", pat.ty, res, val, hi.at)>>)
TestBelow(c, pat, val, res) ==
  LET lo == LowerLiteral(c, pat.lo, pat.ty, None)
  IN  Emit(lo.c, <<SelectBinary("LtEq", pat.ty, res, lo.at, val)>>)
TestBoth(gap, pat, val, res) ==
  Patch(TestBelow(gap, pat, val, res), Len(gap.bc), LAMBDA off : JumpIf("JumpF", off, res))

MatchRange(c, pat, place, res) ==
  LET val == ValueSlot(c, pat.ty, place)
      loaded == LoadValue(c, pat.ty, place)
  IN  [c |-> CASE pat.lo = None -> TestAbove(loaded, pat, val, res)
               [] pat.hi = None -> TestBelow(loaded, pat, val, res)
               [] OTHER -> TestBoth(Skip(TestAbove(loaded, pat, val, res)), pat, val, res),
       refutable |-> TRUE]

(* A slice pattern on an array: every element has a fixed offset. *)
MatchArray(c, pat, place, alias, res) ==
  LET size == SizeOf(pat.ty.elem)
      s == Len(pat.start)
      n == Len(pat.end)
      places == [k \in 1 .. s |-> OffsetBy(place, (k - 1) * size)]
                \o [k \in 1 .. Len(pat.mid) |-> OffsetBy(place, s * size)]
                \o [k \in 1 .. n |-> OffsetBy(place, (pat.ty.count - n + k - 1) * size)]
  IN  Closed(MatchEach(c, pat.start \o pat.mid \o pat.end, places, alias, res), "JumpF", res)

(* The middle of a slice: a new fat pointer past the start, with less length.   *)
BindMiddle(c, pat, place) ==
  IF pat.mid = <<>> \/ pat.mid[1].pat = "hole" THEN c
  ELSE LET mid == pat.mid[1]
           c1 == FindOrAlloc(c, mid.id, mid.ty)
           var == FindLocal(c1, mid.id)
       IN  Emit(c1, <<PointerOffset("PointerOffset2", var, place.slot,
                                    Len(pat.start) * SizeOf(pat.ty.elem)),
                      PointerOffset("PointerOffset2", var + PtrSize, place.slot + PtrSize,
                                    -(Len(pat.start) + Len(pat.end)))>>)

(* A slice pattern on a slice: the length first, then the elements from the     *)
(* start and from the end pointer.                                              *)
NeedsLength(pat) == Len(pat.start) + Len(pat.end) > 0 \/ pat.mid = <<>>
TestLength(c, pat, place, res) ==
  LET lenSlot == NextSlot(c, USize)
  IN  IF ~NeedsLength(pat) THEN c
      ELSE Skip(Emit(AllocSlot(c, USize),
                     <<SelectLiteral(Len(pat.start) + Len(pat.end), PtrSize, lenSlot),
                       SelectBinary(IF pat.mid = <<>> THEN "Eq" ELSE "LtEq", USize, res, lenSlot,
                                    place.slot + PtrSize)>>))
MatchStart(c, pat, place, alias, res) ==
  MatchEach(c, pat.start,
            [k \in 1 .. Len(pat.start) |-> OffsetBy(place, (k - 1) * SizeOf(pat.ty.elem))], alias, res)
MatchEnd(c, pat, place, alias, res) ==
  MatchEach(IF pat.end = <<>> THEN c
            ELSE Emit(AllocSlot(c, USize),
                      <<IndexCalcEndPointer(NextSlot(c, USize), place.slot, SizeOf(pat.ty.elem))>>),
            pat.end,
            [k \in 1 .. Len(pat.end) |->
               PtrPlace(NextSlot(c, USize), (k - 1 - Len(pat.end)) * SizeOf(pat.ty.elem))],
            alias, res)

MatchElements(c, pat, place, alias, res) ==
  LET s == MatchStart(c, pat, place, alias, res)
      m == MatchEnd(BindMiddle(s.c, pat, place), pat, place, alias, res)
      length == IF NeedsLength(pat) THEN <<Len(c.bc)>> ELSE <<>>
  IN  [c |-> CloseGaps(m.c, length \o s.gaps \o m.gaps, "JumpF", res), refutable |-> NeedsLength(pat)]

MatchSlice(c, pat, place, alias, res) ==
  MatchElements(TestLength(c, pat, place, res), pat, place, alias, res)

MatchPattern(c, pat, place, alias, res) ==
  CASE pat.pat = "hole" -> [c |-> c, refutable |-> FALSE]
    [] pat.pat = "bind" -> MatchBinding(c, pat, place, alias, res)
    [] pat.pat = "struct" -> MatchStruct(c, pat, place, alias, res)
    [] pat.pat = "enum" -> MatchEnum(c, pat, place, alias, res)
    [] pat.pat = "or" -> MatchOr(c, pat, place, res)
    [] pat.pat = "deref" -> MatchDeref(c, pat, place, res)
    [] pat.pat = "lit" -> MatchLiteral(c, pat, place, res)
    [] pat.pat = "range" -> MatchRange(c, pat, place, res)
    [] pat.pat = "slice" ->
         IF pat.ty.kind = "array" THEN MatchArray(c, pat, place, alias, res)
         ELSE MatchSlice(c, pat, place, alias, res)

--------------------------------------------------------------------------------
LowerIntrinsic(c, e, dest) ==
  LET d == DestSlot(c, dest, e.ty)
      args == LowerEach(WithDest(c, dest, e.ty), e.args, Anywhere(e.args))
  IN  [c |-> EmitIntrinsic(args.c, e.name, e.tys, args.at, d), at |-> d]

(* A place expression: its value is moved to the destination; a local without   *)
(* one is returned as it is, without a copy.                                    *)
ValueAt(p, e, dest) ==
  LET alias == dest = None /\ p.place.at = "local"
      d == DestSlot(p.c, dest, e.ty)
  IN  IF alias THEN [c |-> p.c, at |-> p.place.slot]
      ELSE [c |-> Emit(WithDest(p.c, dest, e.ty), CopyFromPlace(d, p.place, e.ty)), at |-> d]
LowerPlaceValue(c, e, dest) == ValueAt(LowerPlace(c, e), e, dest)

LowerExpr(c, e, dest) ==
  CASE IsPlace(e) -> LowerPlaceValue(c, e, dest)
    [] e.op = "Lit" -> LowerLiteral(c, e.n, e.ty, dest)
    [] e.op = "Void" -> [c |-> c, at |-> OrDummy(dest)]
    [] e.op = "Unary" ->
         LowerOneOperand(c, e, dest, LAMBDA d, a : <<SelectUnary(e.un, e.arg.ty, d, a)>>)
    [] e.op = "Cast" ->
         LowerOneOperand(c, e, dest, LAMBDA d, a : IF e.arg.ty = e.ty THEN SelectCopy(d, a, e.ty)
                                                   ELSE <<SelectCast(e.arg.ty, e.ty, d, a)>>)
    [] e.op = "Binary" -> LowerBinary(c, e, dest)
    [] e.op = "Assign" -> LowerAssign(c, e, dest)
    [] e.op = "AssignOp" -> LowerAssignOp(c, e, dest)
    [] e.op = "Block" -> LowerBlock(c, e, dest)
    [] e.op = "If" -> LowerIf(c, e, dest)
    [] e.op = "When" -> LowerWhen(c, e, dest)
    [] e.op = "Logic" -> LowerLogic(c, e, dest)
    [] e.op = "Loop" -> LowerLoop(c, e, dest)
    [] e.op = "Break" -> LowerBreak(c, e, dest)
    [] e.op = "Continue" -> LowerContinue(c, e, dest)
    [] e.op = "Return" -> LowerReturn(c, e, dest)
    [] e.op \in {"Tuple", "Array"} -> LowerFields(c, e, dest)
    [] e.op = "ArrayRepeat" -> LowerRepeat(c, e, dest)
    [] e.op = "Adt" -> LowerAdt(c, e, dest)
    [] e.op = "Ref" -> LowerRef(c, e, dest)
    [] e.op = "Unsize" -> LowerUnsize(c, e, dest)
    [] e.op = "Let" -> LowerLet(c, e, dest)
    [] e.op = "Match" -> LowerMatch(c, e, dest)
    [] e.op = "Call" -> LowerCall(c, e, dest)
    [] e.op = "Intrinsic" -> LowerIntrinsic(c, e, dest)

(* BytecodeCompiler::compile: the result at slot 0, the parameters after it,    *)
(* their patterns taken apart, the body into slot 0.                            *)
ParamSlots(fn) == FrameSlots(NewCompiler, fn.body.ty, [k \in 1 .. Len(fn.params) |-> fn.params[k].ty])

BindParams(frame, params) ==
  LET bound[k \in 0 .. Len(params)] ==
        IF k = 0 THEN frame.c
        ELSE MatchPattern(bound[k - 1], params[k], LocalPlace(frame.at[k]), TRUE, None).c
  IN  bound[Len(params)]

Compile(fn) == Emit(LowerExpr(BindParams(ParamSlots(fn), fn.params), fn.body, 0).c, <<Return>>).bc
================================================================================
