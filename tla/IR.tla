----------------------------------- MODULE IR ----------------------------------
(* The expressions, statements and patterns of the compiler's IR (ir/ir.rs)     *)
(* that are modelled, as records.  An expression and a pattern carry their type.*)
EXTENDS Types, Instructions

None == -1

Lit(n, ty) == [op |-> "Lit", n |-> n, ty |-> ty]
Void == [op |-> "Void", ty |-> Unit]
Var(id, ty) == [op |-> "Var", id |-> id, ty |-> ty]
Un(op, e) == [op |-> "Unary", un |-> op, arg |-> e, ty |-> e.ty]
Bin(op, l, r) ==
  [op |-> "Binary", bin |-> op, lhs |-> l, rhs |-> r, ty |-> IF op \in Comparisons THEN Bool ELSE l.ty]
Cast(e, ty) == [op |-> "Cast", arg |-> e, ty |-> ty]
Assign(l, r) == [op |-> "Assign", lhs |-> l, rhs |-> r, ty |-> Unit]
AssignOp(op, l, r) == [op |-> "AssignOp", bin |-> op, lhs |-> l, rhs |-> r, ty |-> Unit]
Block(stmts, result) == [op |-> "Block", stmts |-> stmts, result |-> result, ty |-> result.ty]
If(c, t, e) == [op |-> "If", cond |-> c, then |-> t, else |-> e, ty |-> t.ty]
When(c, t) == [op |-> "When", cond |-> c, then |-> t, ty |-> Unit]
Logic(op, l, r) == [op |-> "Logic", logic |-> op, lhs |-> l, rhs |-> r, ty |-> Bool]
Loop(id, body, ty) == [op |-> "Loop", id |-> id, body |-> body, ty |-> ty]
Break(id, value) == [op |-> "Break", id |-> id, value |-> value, ty |-> Unit]
Continue(id) == [op |-> "Continue", id |-> id, ty |-> Unit]
ReturnExpr(value) == [op |-> "Return", value |-> value, ty |-> Unit]
TupleOf(es) == [op |-> "Tuple", fields |-> es, ty |-> Tuple([i \in 1 .. Len(es) |-> es[i].ty])]
ArrayOf(es) == [op |-> "Array", fields |-> es, ty |-> ArrayTy(es[1].ty, Len(es))]
Repeat(e, n) == [op |-> "ArrayRepeat", arg |-> e, ty |-> ArrayTy(e.ty, n)]
(* fields: <<field, expression>> in the order they are written; rest: None or   *)
(* the expression after `..`.                                                   *)
Adt(ty, variant, fields, rest) ==
  [op |-> "Adt", variant |-> variant, fields |-> fields, rest |-> rest, ty |-> ty]
Field(e, i) == [op |-> "Field", lhs |-> e, field |-> i, ty |-> e.ty.fields[i]]
Index(e, i) == [op |-> "Index", lhs |-> e, index |-> i, ty |-> e.ty.elem]
RefTo(e) == [op |-> "Ref", arg |-> e, ty |-> Ref(e.ty)]
Deref(e) == [op |-> "Deref", arg |-> e, ty |-> e.ty.to]
Unsize(e) == [op |-> "Unsize", arg |-> e, ty |-> Ref(Slice(e.ty.to.elem))]
LetExpr(pat, e) == [op |-> "Let", pat |-> pat, init |-> e, ty |-> Bool]
Match(e, arms, ty) == [op |-> "Match", arg |-> e, arms |-> arms, ty |-> ty]
CallFn(fn, args, ty) == [op |-> "Call", fn |-> fn, args |-> args, ty |-> ty]
Intrinsic(name, tys, args, ty) ==
  [op |-> "Intrinsic", name |-> name, tys |-> tys, args |-> args, ty |-> ty]

NoExpr == [op |-> "None", ty |-> Unit]
Given(e) == e.op # "None"

LetStmt(pat, e) == [stmt |-> "let", pat |-> pat, init |-> e]
ExprStmt(e) == [stmt |-> "expr", expr |-> e]

(* mode "value" or "ref"; sub: a pattern or PHole for none. *)
PHole(ty) == [pat |-> "hole", ty |-> ty]
PBind(id, mode, ty, sub) == [pat |-> "bind", id |-> id, mode |-> mode, sub |-> sub, ty |-> ty]
PStruct(fields, ty) == [pat |-> "struct", fields |-> fields, ty |-> ty]
PEnum(variant, fields, ty) == [pat |-> "enum", variant |-> variant, fields |-> fields, ty |-> ty]
POr(options) == [pat |-> "or", options |-> options, ty |-> options[1].ty]
PDeref(sub) == [pat |-> "deref", sub |-> sub, ty |-> Ref(sub.ty)]
PLit(n, ty) == [pat |-> "lit", n |-> n, ty |-> ty]
(* lo, hi: literals or None. *)
PRange(lo, hi, inclusive, ty) ==
  [pat |-> "range", lo |-> lo, hi |-> hi, inclusive |-> inclusive, ty |-> ty]
(* mid: <<>> or one pattern. *)
PSlice(start, mid, end, ty) ==
  [pat |-> "slice", start |-> start, mid |-> mid, end |-> end, ty |-> ty]
================================================================================
