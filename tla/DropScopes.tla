------------------------------ MODULE DropScopes -------------------------------
(* Drop flags from end to end: BytecodeCompiler (bytecode_compiler.rs) lowers   *)
(* a function body, then VMThread::run_bytecode (vm.rs, build.rs) runs the      *)
(* bytecode.  In phase "compile" each action lowers one statement form and      *)
(* picks it nondeterministically, so that the reachable states hold every body  *)
(* of at most MaxStmts statements; in phase "run" each action executes one      *)
(* instruction.                                                                 *)
(*                                                                              *)
(* Data: a value with a destructor is an id that fills one slot; a function     *)
(* takes one such value and returns one or nothing; `x`s are plain values or    *)
(* pairs of them (DropInfo::Branch).  Value 0 is whatever a slot holds that is  *)
(* not such a value.  Drop glue runs on a thread of its own and ends, so        *)
(* dropping is one step.                                                        *)
(*                                                                              *)
(* The input is a program rustc accepts.  `flow` is the borrow checker's        *)
(* initialisedness: `must` (`may`) holds the bits of locals that are            *)
(* initialised on every (on some) path to this point.  In an arm that comes     *)
(* after a guard, `may` also holds the bits of the variable that was bound for  *)
(* the guard: the source has given it up, the compiled code has not.            *)
EXTENDS CompilerStack, FiniteSets

CONSTANTS
  MaxStmts,    \* statements per function body
  MaxValues,   \* values created per run
  Families,    \* families of bodies: [forms |-> statement forms, widths |-> 1 plain values, 2 pairs]
  Hazards      \* statement forms the code is known to lower wrongly

AllForms == {"let", "declare", "move", "assign", "reassign", "pass", "call", "block", "if",
             "loop", "letloop", "break", "continue", "return", "match"}
AllHazards == {"continue_live", "break_live", "guarded_move", "self_assign"}

ASSUME BodiesAssumption ==
  /\ MaxStmts \in Nat /\ MaxValues \in Nat \ {0}
  /\ Families \subseteq [forms : SUBSET AllForms, widths : SUBSET {1, 2}]
  /\ Hazards \subseteq AllHazards

VARIABLES
  family,   \* the family of the body
  phase,    \* "compile", "run", "returned" or "panicked"
  code,     \* out_bc
  stk,      \* the compiler's stack
  locals,   \* named locals in scope, oldest first
  blocks,   \* the lower_block / lower_expr activations still open, outermost first
  flow,     \* initialisedness at this point of the source
  stmts,    \* statements lowered so far
  pc, flags, \* of run_bytecode; flags is the set of set bits
  mem,      \* what each slot of the frame holds
  fate      \* what became of each value

compileVars == <<code, stk, locals, blocks, flow, stmts>>
runVars == <<pc, flags, mem, fate>>
vars == <<family, phase, compileVars, runVars>>

MaxSlots == (IF 2 \in family.widths THEN 4 ELSE 2) * MaxStmts + 4   \* no body needs more
Slots == 0 .. MaxSlots - 1
Garbage == 0
Values == 1 .. MaxValues

--------------------------------------------------------------------------------
(* Instructions (vm/instr.rs), as records.  `open` is no part of Call: it is    *)
(* the set of drop bits whose scopes enclose the call.                          *)
Call(s, frame, args, ret) == [op |-> "Call", frame |-> frame, args |-> args,
                              ret |-> ret, open |-> Pending(s)]
Copy(dst, src, n) == [op |-> "Copy", dst |-> dst, src |-> src, n |-> n]
Const(dst)     == [op |-> "Const", dst |-> dst]
Ranged(op, lo, hi) == [op |-> op, lo |-> lo, hi |-> hi]
Jump(off)      == [op |-> "Jump", off |-> off]
JumpF(off, sure) == [op |-> "JumpF", off |-> off, sure |-> sure]
Return(dst)    == [op |-> "Return", dst |-> dst]
Skipped        == [op |-> "Skipped"]
NoSlot == -1
NoPlace == [slot |-> NoSlot, lo |-> 0, hi |-> 0]

(* Mutant: the drop range starts one bit late. *)
ScopeDropOffByOne(s) == IF ScopeBits(s) = {} THEN <<>>
                        ELSE <<Ranged("LocalDrop", s.first + 1, Len(s.leafs) - 1)>>

(* pop_scope: LocalDrop unless the scope registered no bit. *)
ScopeDrop(s) == IF ScopeBits(s) = {} THEN <<>>
                ELSE <<Ranged("LocalDrop", s.first, Len(s.leafs) - 1)>>

(* Mutant: the bits of a pair's fields taken in declaration order. *)
FieldUnreversed(l, i) == [slot |-> l.slot + i - 1, lo |-> l.lo + i - 1, hi |-> l.lo + i - 1]

(* A local or one field of a pair: where it is and its drop bits.  Fields are   *)
(* registered last first.                                                       *)
PlaceOf(l)  == [slot |-> l.slot, lo |-> l.lo, hi |-> l.lo + l.n - 1]
Field(l, i) == [slot |-> l.slot + i - 1, lo |-> l.lo + l.n - i, hi |-> l.lo + l.n - i]
PlacesOf(l) == {PlaceOf(l)} \cup {Field(l, i) : i \in 1 .. l.n}
BitsOf(p)   == p.lo .. p.hi
WidthOf(p)  == p.hi - p.lo + 1
LocalBits(ls) == UNION {BitsOf(PlaceOf(ls[i])) : i \in DOMAIN ls}

Fields(n) == [i \in 1 .. n |-> [off |-> i - 1, size |-> 1]]
AllocVal(s, n)   == Alloc(s, n, 1, Fields(n))
AllocPlain(s, n) == AllocNoDrop(s, n, 1)
(* The local that the latest AllocVal(_, n) made. *)
Newest(s, n) == [slot |-> s.top - n, lo |-> Len(s.leafs) - n, n |-> n]

(* local_move(dst, src) into a place that may or may not hold a value. *)
MoveInto(dst, src) ==
  << Ranged("LocalDropInit", dst.lo, dst.hi),
     Copy(dst.slot, src.slot, WidthOf(src)),
     Ranged("LocalMove", src.lo, src.hi) >>

--------------------------------------------------------------------------------
(* Initialisedness. *)
Reach(must, may) == [reach |-> TRUE, must |-> must, may |-> may]
Unreachable == [reach |-> FALSE, must |-> {}, may |-> {}]
Join(f, g) ==
  CASE ~f.reach -> g
    [] ~g.reach -> f
    [] OTHER    -> Reach(f.must \cap g.must, f.may \cup g.may)
Restrict(f, bits) == [f EXCEPT !.must = @ \cap bits, !.may = @ \cap bits]
Moved(f, bits)  == [f EXCEPT !.must = @ \ bits,   !.may = @ \ bits]
Inited(f, bits) == [f EXCEPT !.must = @ \cup bits, !.may = @ \cup bits]

Readable == {p \in UNION {PlacesOf(locals[i]) : i \in DOMAIN locals} : BitsOf(p) \subseteq flow.must}
(* A field is assigned only while its pair is at least partly initialised. *)
Assignable == UNION {{p \in PlacesOf(locals[i]) :
                        \/ p = PlaceOf(locals[i])
                        \/ BitsOf(PlaceOf(locals[i])) \cap flow.must # {}} : i \in DOMAIN locals}

--------------------------------------------------------------------------------
(* Compilation.  The result slot comes first, then the parameters (compile):    *)
(* here a function of one droppable parameter that may return such a value.     *)

Block(kind, stmtScope, s, start, patch) ==
  [kind |-> kind, stmt |-> stmtScope, scope |-> Saved(s), nlocals |-> Len(locals),
   nbits |-> Len(stk.leafs), start |-> start, arg |-> NoPlace, patch |-> patch,
   breaks |-> {}, entry |-> flow, exit |-> Unreachable]

InitFor(returns) ==
  LET s0 == IF returns THEN AllocPlain(EmptyStack, 1) ELSE EmptyStack
      s1 == AllocVal(s0, 1)
      param == Newest(s1, 1)
      live == Reach({param.lo}, {param.lo})
  IN  /\ stk = PushScope(s1)
      /\ code = <<Ranged("LocalInit", param.lo, param.lo)>>
      /\ locals = <<param>>
      /\ flow = live
      /\ blocks = << [kind |-> IF returns THEN "returns" ELSE "void",
                      stmt |-> Saved(s1), scope |-> Saved(s1), nlocals |-> 1,
                      nbits |-> Len(s1.leafs), start |-> 0, arg |-> NoPlace,
                      patch |-> 0, breaks |-> {}, entry |-> live, exit |-> Unreachable] >>
      /\ mem = [x \in Slots |-> IF x = param.slot THEN 1 ELSE Garbage]

Init ==
  /\ family \in Families
  /\ phase = "compile" /\ stmts = 0
  /\ \E returns \in BOOLEAN : InitFor(returns)
  /\ pc = 0 /\ flags = {}
  /\ fate = [v \in Values \cup {Garbage} |->
               IF v = 1 THEN "live" ELSE IF v = Garbage THEN "garbage" ELSE "unborn"]

(* One more statement, of the given form. *)
Lower(form) ==
  /\ form \in family.forms
  /\ phase = "compile" /\ flow.reach /\ stmts < MaxStmts
  /\ stmts' = stmts + 1
  /\ UNCHANGED <<phase, runVars>>

(* `let x = f();`, or for a pair `let x = (f(), f());`: the callee writes the   *)
(* first free slot, which becomes the local; a pair's fields are copied into it *)
(* from the slots of their own calls.                                           *)
LetCall(w) ==
  /\ Lower("let")
  /\ LET s1 == AllocVal(stk, w)
         x  == Newest(s1, w)
         s2 == AllocVal(s1, 1)
         s3 == AllocVal(s2, 1)
         FieldCall(s, i) ==
           << Call(s, s.top - 1, {}, TRUE),
              Copy(Field(x, i).slot, s.top - 1, 1),
              Ranged("LocalInit", Field(x, i).lo, Field(x, i).lo) >>
     IN  /\ code' = code \o
              (IF w = 1 THEN << Call(s1, x.slot, {}, TRUE), Ranged("LocalInit", x.lo, x.lo) >>
                        ELSE FieldCall(s2, 1) \o FieldCall(s3, 2))
         /\ stk' = IF w = 1 THEN s1 ELSE s3
         /\ locals' = Append(locals, x)
         /\ flow' = Inited(flow, BitsOf(PlaceOf(x)))
  /\ UNCHANGED blocks

(* `let x;` *)
LetUninit(w) ==
  /\ Lower("declare")
  /\ stk' = AllocVal(stk, w)
  /\ locals' = Append(locals, Newest(stk', w))
  /\ UNCHANGED <<code, blocks, flow>>

(* Mutant: the binding leaves its source flagged. *)
BindWithoutMove(x, p) == << Copy(x.slot, p.slot, x.n),
                            Ranged("LocalInit", x.lo, x.lo + x.n - 1) >>

(* Mutant: the new local is not flagged. *)
BindWithoutInit(x, p) == << Copy(x.slot, p.slot, x.n), Ranged("LocalMove", p.lo, p.hi) >>

(* A by-value binding of a place: LocalInit the new local, LocalMove the source *)
(* (match_pattern_internal).                                                    *)
Bind(x, p) == << Copy(x.slot, p.slot, x.n),
                 Ranged("LocalInit", x.lo, x.lo + x.n - 1),
                 Ranged("LocalMove", p.lo, p.hi) >>

(* `let x = p;` *)
LetMove ==
  /\ Lower("move")
  /\ \E p \in Readable :
       LET w == WidthOf(p)
           x == Newest(AllocVal(stk, w), w)
       IN  /\ stk' = AllocVal(stk, w)
           /\ code' = code \o Bind(x, p)
           /\ locals' = Append(locals, x)
           /\ flow' = Inited(Moved(flow, BitsOf(p)), BitsOf(PlaceOf(x)))
  /\ UNCHANGED blocks

(* `p = f();`, in a statement scope of its own that holds the temporary. *)
AssignCall ==
  /\ Lower("assign")
  /\ \E p \in Assignable :
       /\ WidthOf(p) = 1
       /\ LET s == AllocVal(PushScope(stk), 1)
              t == Newest(s, 1)
          IN  /\ code' = code \o << Call(s, t.slot, {}, TRUE), Ranged("LocalInit", t.lo, t.lo) >>
                              \o MoveInto(p, PlaceOf(t)) \o ScopeDrop(s)
              /\ stk' = PopScope(s, Saved(stk))
       /\ flow' = Inited(flow, BitsOf(p))
  /\ UNCHANGED <<locals, blocks>>

(* `p = q;` *)
AssignMove ==
  /\ Lower("reassign")
  /\ \E p \in Assignable, q \in Readable :
       /\ WidthOf(p) = WidthOf(q)
       /\ p # q \/ "self_assign" \in Hazards
       /\ code' = code \o MoveInto(p, q)
       /\ flow' = Inited(Moved(flow, BitsOf(q)), BitsOf(p))
  /\ UNCHANGED <<stk, locals, blocks>>

(* `g(p);`: build_call copies the argument above the (empty) result. *)
Pass ==
  /\ Lower("pass")
  /\ \E p \in Readable :
       LET w == WidthOf(p)
           s == AllocPlain(PushScope(stk), w)
           arg == s.top - w
       IN  /\ code' = code \o << Copy(arg, p.slot, w), Ranged("LocalMove", p.lo, p.hi),
                                 Call(s, stk.top, arg .. arg + w - 1, FALSE) >>
           /\ flow' = Moved(flow, BitsOf(p))
  /\ UNCHANGED <<stk, locals, blocks>>

(* `f();` *)
CallStmt ==
  /\ Lower("call")
  /\ LET s == AllocVal(PushScope(stk), 1)
         t == Newest(s, 1)
     IN  /\ code' = code \o << Call(s, t.slot, {}, TRUE), Ranged("LocalInit", t.lo, t.lo) >>
                         \o ScopeDrop(s)
         /\ stk' = PopScope(s, Saved(stk))
  /\ UNCHANGED <<locals, blocks, flow>>

--------------------------------------------------------------------------------
(* Nested blocks.  A compound statement opens a statement scope and, per body,  *)
(* a block scope; the innermost activation is the last of `blocks`.             *)

Patch(c, i, instr) == [c EXCEPT ![i + 1] = instr]   \* out_bc[i] = instr
PatchAll(c, is, target) ==                          \* all of `is` jump to target
  [k \in DOMAIN c |-> IF k - 1 \in is THEN Jump(target - (k - 1)) ELSE c[k]]

Enter(bs, b, s, c, ls, f) ==
  /\ blocks' = Append(bs, b) /\ stk' = PushScope(s)
  /\ code' = c /\ locals' = ls /\ flow' = f

OpenBlock ==
  /\ Lower("block")
  /\ LET s == PushScope(stk)
     IN  Enter(blocks, Block("block", Saved(stk), s, 0, 0), s, code, locals, flow)

(* `if c {`: the JumpF is filled in when the `then` block is closed. *)
OpenIf ==
  /\ Lower("if")
  /\ LET s == AllocPlain(PushScope(stk), 1)
     IN  Enter(blocks, Block("then", Saved(stk), s, 0, Len(code) + 1), s,
              code \o << Const(s.top - 1), Skipped >>, locals, flow)

(* At the head of a loop any local may be initialised: an earlier iteration may *)
(* have left it so.                                                             *)
OpenLoop ==
  /\ Lower("loop")
  /\ LET s == PushScope(stk)
     IN  Enter(blocks, Block("loop", Saved(stk), s, Len(code), 0), s, code, locals,
              [flow EXCEPT !.may = @ \cup LocalBits(locals)])

(* `let m = loop {`, m without destructor: the result slot is allocated in the  *)
(* enclosing scope and there is no statement scope.                             *)
OpenLetLoop ==
  /\ Lower("letloop")
  /\ LET s == AllocPlain(stk, 1)
     IN  Enter(blocks, Block("letloop", Saved(stk), s, Len(code), 0), s, code, locals,
              [flow EXCEPT !.may = @ \cup LocalBits(locals)])

(* An arm of `match p`, as activation b.  The variable of `x => {` belongs to   *)
(* the statement scope and is bound before the guard is evaluated; match_result *)
(* is the first slot of that scope.  An arm `_ => {` after a guard binds        *)
(* nothing; from there on the program does not read p again, and the variable   *)
(* of the first arm keeps the value if the guard was false.                     *)
Arm(bs, b, binds, s, c, outer, f) ==
  LET p    == b.arg
      s1   == IF binds THEN AllocVal(s, WidthOf(p)) ELSE s
      x    == Newest(s1, WidthOf(p))
      test == << Const(b.stmt.top), Skipped >>
      c1   == (IF binds THEN c \o Bind(x, p) ELSE c) \o test
  IN  Enter(bs, [b EXCEPT !.scope = Saved(s1), !.patch = Len(c1) - 1], s1,
            IF b.kind = "guarded" THEN c1 \o test ELSE c1,
            IF binds THEN Append(outer, x) ELSE outer,
            IF binds THEN Inited(Moved(f, BitsOf(p)), BitsOf(PlaceOf(x)))
            ELSE [f EXCEPT !.must = @ \ BitsOf(p),
                           !.may = @ \cup BitsOf(PlaceOf(locals[b.nlocals + 1]))])

(* `match p { x => {` or `match p { x if c => {`. *)
OpenMatch ==
  /\ Lower("match")
  /\ \E p \in Readable, kind \in {"match", "guarded"} :
       Arm(blocks, [Block(kind, Saved(stk), stk, 0, 0) EXCEPT !.arg = p], TRUE,
           AllocPlain(PushScope(stk), 1), code, locals, flow)

--------------------------------------------------------------------------------
(* Closing the innermost block. *)
B == blocks[Len(blocks)]
Inner == code \o ScopeDrop(stk)            \* code after the block scope is popped
Outer == PopScope(stk, B.scope)
OuterLocals(b) == SubSeq(locals, 1, b.nlocals)
OuterBits(b) == 0 .. b.nbits - 1         \* registered before the statement
Out == Restrict(flow, OuterBits(B))

Closing(kinds) ==
  /\ phase = "compile" /\ Len(blocks) > 1
  /\ B.kind \in kinds
  /\ UNCHANGED <<phase, stmts, runVars>>

(* Mutant: the statement scope is closed without its drops. *)
EndStmtSilently(c, f) ==
  /\ code' = c
  /\ stk' = PopScope(Outer, B.stmt)
  /\ blocks' = SubSeq(blocks, 1, Len(blocks) - 1)
  /\ locals' = OuterLocals(B)
  /\ flow' = f

(* Pop the statement scope too and go on after the statement. *)
EndStmt(c, f) ==
  /\ code' = c \o ScopeDrop(Outer)
  /\ stk' = PopScope(Outer, B.stmt)
  /\ blocks' = SubSeq(blocks, 1, Len(blocks) - 1)
  /\ locals' = OuterLocals(B)
  /\ flow' = f

CloseBlock == Closing({"block"}) /\ EndStmt(Inner, Out)

CloseThen ==
  /\ Closing({"then"})
  /\ EndStmt(Patch(Inner, B.patch, JumpF(Len(Inner) - B.patch, FALSE)), Join(Out, B.entry))

Else ==
  /\ Closing({"then"})
  /\ LET c == Append(Inner, Skipped)
     IN  /\ code' = Patch(c, B.patch, JumpF(Len(c) - B.patch, FALSE))
         /\ blocks' = [blocks EXCEPT ![Len(blocks)].kind = "else",
                                     ![Len(blocks)].patch = Len(Inner),
                                     ![Len(blocks)].exit = Out]
  /\ stk' = PushScope(Outer)
  /\ locals' = OuterLocals(B)
  /\ flow' = B.entry

CloseElse ==
  /\ Closing({"else"})
  /\ EndStmt(Patch(Inner, B.patch, Jump(Len(Inner) - B.patch)), Join(Out, B.exit))

(* The borrow checker accepts a jump back to the head of loop b only if what    *)
(* was initialised there still is.                                              *)
BackEdge(b, f) == f.reach => b.entry.must \subseteq f.must

(* Mutant: the jump back comes before the drops of the body. *)
LoopCodeJumpFirst ==
  LET c == Append(code, Jump(B.start - Len(code))) \o ScopeDrop(stk)
  IN  PatchAll(c, B.breaks, Len(c))

LoopCode ==
  LET c == Append(Inner, Jump(B.start - Len(Inner)))
  IN  PatchAll(c, B.breaks, Len(c))

CloseLoop ==
  /\ Closing({"loop"}) /\ BackEdge(B, Out)
  /\ EndStmt(LoopCode, B.exit)

CloseLetLoop ==
  /\ Closing({"letloop"}) /\ BackEdge(B, Out)
  /\ code' = LoopCode /\ stk' = Outer
  /\ blocks' = SubSeq(blocks, 1, Len(blocks) - 1)
  /\ locals' = OuterLocals(B)
  /\ flow' = B.exit

CloseMatch ==
  /\ Closing({"match"})
  /\ LET c == Append(Inner, Skipped)
         d == Patch(c, B.patch, JumpF(Len(c) - B.patch, TRUE))
     IN  EndStmt(PatchAll(d, B.breaks \cup {Len(Inner)}, Len(d)), Join(Out, B.exit))

(* `} _ => {` or `} x => {` after a guarded arm: both tests of the first arm    *)
(* lead to the second, which in the latter case binds the same place again.     *)
NextArm ==
  /\ Closing({"guarded"})
  /\ LET c == Append(Inner, Skipped)
         d == [c EXCEPT ![B.patch + 1] = JumpF(Len(c) - B.patch, TRUE),
                        ![B.patch + 3] = JumpF(Len(c) - B.patch - 2, FALSE)]
     IN  \E binds \in BOOLEAN :
           /\ binds => "guarded_move" \in Hazards
           /\ Arm(SubSeq(blocks, 1, Len(blocks) - 1),
                  [B EXCEPT !.kind = "match", !.breaks = {Len(Inner)}, !.exit = Out],
                  binds, Outer, d, OuterLocals(B), B.entry)

--------------------------------------------------------------------------------
(* Jumps out of the innermost block, and the end of the body. *)

Loops == {k \in DOMAIN blocks : blocks[k].kind \in {"loop", "letloop"}}

(* Bits registered in block b that may be set here. *)
LiveIn(b) == flow.may \ OuterBits(b)

Leave(c) == code' = c /\ flow' = Unreachable /\ UNCHANGED <<stk, locals>>

(* `break` out of loop k.  A `let m = loop` break first writes m.  The jump     *)
(* skips the LocalDrops of every scope between here and the loop.               *)
Break ==
  /\ Lower("break")
  /\ \E k \in Loops :
       LET b == blocks[k]
           c == IF b.kind = "letloop" THEN Append(code, Const(b.scope.top - 1)) ELSE code
       IN  /\ b.kind = "letloop" /\ LiveIn(b) # {} => "break_live" \in Hazards
           /\ Leave(Append(c, Skipped))
           /\ blocks' = [blocks EXCEPT
                ![k].breaks = @ \cup {Len(c)},
                ![k].exit = Join(@, Restrict(flow, OuterBits(b)))]

Continue ==
  /\ Lower("continue")
  /\ \E k \in Loops :
       /\ BackEdge(blocks[k], flow)
       /\ LiveIn(blocks[k]) # {} => "continue_live" \in Hazards
       /\ Leave(Append(code, Jump(blocks[k].start - Len(code))))
  /\ UNCHANGED blocks

(* What evaluating the function's result into slot 0 emits. *)
Results ==
  IF blocks[1].kind = "void" THEN { <<>> }
  ELSE { << Copy(0, p.slot, 1), Ranged("LocalMove", p.lo, p.hi) >> :
           p \in {q \in Readable : WidthOf(q) = 1} }
ResultSlot == IF blocks[1].kind = "void" THEN NoSlot ELSE 0

ReturnStmt ==
  /\ Lower("return")
  /\ \E r \in Results : Leave(code \o r \o << Return(ResultSlot) >>)
  /\ UNCHANGED blocks

(* End of the body: its block scope is popped and the function is ready to run. *)
Finish ==
  /\ phase = "compile" /\ Len(blocks) = 1
  /\ \E r \in IF flow.reach THEN Results ELSE { <<>> } :
       code' = code \o r \o ScopeDrop(stk) \o << Return(ResultSlot) >>
  /\ phase' = "run"
  /\ stk' = Outer
  /\ blocks' = <<>> /\ locals' = <<>> /\ flow' = Unreachable /\ stmts' = 0
  /\ UNCHANGED runVars

Compile ==
  \/ \E w \in family.widths : LetCall(w) \/ LetUninit(w)
  \/ LetMove \/ AssignCall \/ AssignMove \/ Pass \/ CallStmt
  \/ OpenBlock \/ OpenIf \/ OpenLoop \/ OpenLetLoop \/ OpenMatch
  \/ CloseBlock \/ CloseThen \/ Else \/ CloseElse \/ CloseLoop \/ CloseLetLoop
  \/ CloseMatch \/ NextArm
  \/ Break \/ Continue \/ ReturnStmt \/ Finish

--------------------------------------------------------------------------------
(* Execution: the loop of run_bytecode. *)

At == code[pc + 1]
SlotOf(b) == Leaf(stk, b).slot
Holder(b) == mem[SlotOf(b)]           \* the value in the slot that bit b guards
Range(i) == i.lo .. i.hi

Running(op) == phase = "run" /\ At.op = op /\ UNCHANGED compileVars
Advance == pc' = pc + 1 /\ UNCHANGED phase
Panic == phase' = "panicked" /\ UNCHANGED runVars

(* The fates after running the drop glue for the slots of `bits`. *)
Dropped(f, bits) ==
  [v \in DOMAIN f |->
     LET n == Cardinality({b \in bits : Holder(b) = v})
     IN  IF n = 0 THEN f[v] ELSE IF n = 1 /\ f[v] = "live" THEN "dropped" ELSE "double"]

Given(f, vs) ==
  [v \in DOMAIN f |-> IF v \notin vs THEN f[v] ELSE IF f[v] = "live" THEN "given" ELSE "double"]

(* The callee owns its arguments and uses the whole stack from `frame` up. *)
ExecCall ==
  /\ Running("Call") /\ Advance /\ UNCHANGED flags
  /\ LET given == Given(fate, {mem[a] : a \in At.args})
         Clobbered(r) == [x \in Slots |-> IF x < At.frame THEN mem[x]
                                          ELSE IF x = At.frame THEN r ELSE Garbage]
     IN  IF At.ret
         THEN \E v \in Values :
                /\ fate[v] = "unborn" /\ \A u \in Values : u < v => fate[u] # "unborn"
                /\ mem' = Clobbered(v)
                /\ fate' = [given EXCEPT ![v] = "live"]
         ELSE mem' = Clobbered(Garbage) /\ fate' = given

ExecCopy ==
  /\ Running("Copy") /\ Advance /\ UNCHANGED <<flags, fate>>
  /\ mem' = [x \in Slots |-> IF x \in At.dst .. At.dst + At.n - 1
                             THEN mem[At.src + x - At.dst] ELSE mem[x]]

ExecConst ==
  /\ Running("Const") /\ Advance /\ UNCHANGED <<flags, fate>>
  /\ mem' = [mem EXCEPT ![At.dst] = Garbage]

(* VMThread::local_init: panics if a flag is already set. *)
ExecLocalInit ==
  /\ Running("LocalInit")
  /\ IF Range(At) \cap flags # {} THEN Panic
     ELSE flags' = flags \cup Range(At) /\ Advance /\ UNCHANGED <<mem, fate>>

(* VMThread::local_move: panics if a flag is not set. *)
ExecLocalMove ==
  /\ Running("LocalMove")
  /\ IF ~(Range(At) \subseteq flags) THEN Panic
     ELSE flags' = flags \ Range(At) /\ Advance /\ UNCHANGED <<mem, fate>>

(* Mutant: the flags stay set. *)
ExecLocalDropKeepingFlags ==
  /\ Running("LocalDrop") /\ Advance /\ UNCHANGED <<mem, flags>>
  /\ fate' = Dropped(fate, Range(At) \cap flags)

(* VMThread::local_drop over a range: drop what is set, and clear it. *)
ExecLocalDrop ==
  /\ Running("LocalDrop") /\ Advance /\ UNCHANGED mem
  /\ fate' = Dropped(fate, Range(At) \cap flags)
  /\ flags' = flags \ Range(At)

(* Mutant: flips the flags instead of setting them. *)
ExecLocalDropInitToggling ==
  /\ Running("LocalDropInit") /\ Advance /\ UNCHANGED mem
  /\ fate' = Dropped(fate, Range(At) \cap flags)
  /\ flags' = (flags \cup Range(At)) \ (flags \cap Range(At))

(* VMThread::local_drop_init: drop what is set; all of it is set afterwards. *)
ExecLocalDropInit ==
  /\ Running("LocalDropInit") /\ Advance /\ UNCHANGED mem
  /\ fate' = Dropped(fate, Range(At) \cap flags)
  /\ flags' = flags \cup Range(At)

ExecJump ==
  /\ Running("Jump") /\ pc' = pc + At.off
  /\ UNCHANGED <<phase, flags, mem, fate>>

(* The condition is the program's, unless the compiler has just stored true. *)
ExecJumpF ==
  /\ Running("JumpF")
  /\ \E c \in IF At.sure THEN {TRUE} ELSE BOOLEAN : pc' = IF c THEN pc + 1 ELSE pc + At.off
  /\ UNCHANGED <<phase, flags, mem, fate>>

(* Mutant: returns without dropping what is still flagged. *)
ExecReturnWithoutDrops ==
  /\ Running("Return")
  /\ phase' = "returned" /\ flags' = {}
  /\ fate' = Given(fate, IF At.dst = NoSlot THEN {} ELSE {mem[At.dst]})
  /\ UNCHANGED <<pc, mem>>

(* Return leaves the loop; run_bytecode then drops whatever is still flagged.   *)
(* The caller takes the result.                                                 *)
ExecReturn ==
  /\ Running("Return")
  /\ phase' = "returned" /\ flags' = {}
  /\ fate' = Dropped(Given(fate, IF At.dst = NoSlot THEN {} ELSE {mem[At.dst]}), flags)
  /\ UNCHANGED <<pc, mem>>

Run ==
  \/ ExecCall \/ ExecCopy \/ ExecConst \/ ExecJump \/ ExecJumpF \/ ExecReturn
  \/ ExecLocalInit \/ ExecLocalMove \/ ExecLocalDrop \/ ExecLocalDropInit

Next == (Compile \/ Run) /\ UNCHANGED family

Spec == Init /\ [][Next]_vars

--------------------------------------------------------------------------------
(* Properties. *)

TypeOK ==
  /\ family \in Families
  /\ phase \in {"compile", "run", "returned", "panicked"}
  /\ stmts \in 0 .. MaxStmts
  /\ stk.top \in 0 .. MaxSlots /\ stk.first \in 0 .. Len(stk.leafs)
  /\ flow.must \cup flow.may \subseteq Bits(stk) /\ (flow.reach => flow.must \subseteq flow.may)
  /\ pc \in 0 .. Len(code) /\ flags \subseteq Bits(stk)
  /\ mem \in [Slots -> Values \cup {Garbage}]
  /\ fate \in [Values \cup {Garbage} ->
                 {"garbage", "unborn", "live", "dropped", "given", "double"}]

(* No assertion of the interpreter fires on an accepted program: local_init     *)
(* never meets a set flag ("drop flag was initialized twice"), local_move never *)
(* a clear one, and no placeholder instruction left unpatched is reached.       *)
NoPanic == phase # "panicked" /\ (phase = "run" => At.op # "Skipped")

(* Whenever user code may run or control may branch, a set drop flag stands for *)
(* a live value in the slot it guards, and no two flags for the same value:     *)
(* no slot of a flagged local was reused, and every move cleared its source.    *)
FlagsOwnDistinctValues ==
  phase = "run" /\ At.op \in {"Call", "LocalDrop", "LocalDropInit", "Jump", "JumpF", "Return"}
  => \A b \in flags : fate[Holder(b)] = "live" /\ \A c \in flags : Holder(b) = Holder(c) => b = c

(* Values of a scope that control has left are dropped before any more user     *)
(* code runs, however the scope was left.                                       *)
ScopeExitDrops == phase = "run" /\ At.op = "Call" => flags \subseteq At.open

(* No value is dropped after it was dropped or given away, nor is a slot that   *)
(* holds none.                                                                  *)
DroppedAtMostOnce == \A v \in DOMAIN fate : fate[v] # "double"

(* Every value is dropped or given away exactly once, and none is left when the *)
(* function returns: compiled code implements Ownership.                        *)
Own == INSTANCE Ownership WITH Values <- Values \cup {Garbage},
         fate <- [v \in Values \cup {Garbage} |->
                    IF v = Garbage /\ fate[v] = "garbage" THEN "unborn" ELSE fate[v]],
         returned <- (phase = "returned")
OwnershipSpec == Own!Spec
================================================================================
