----------------------------- MODULE RustSemantics -----------------------------
(* What Rust says the expressions of module IR mean, by big-step evaluation:    *)
(* the reference that compiled code is compared with.  Arithmetic is that of a  *)
(* release build (it wraps), as the interpreter's.                              *)
(* Values: integers for int, bool and char; sequences for tuples and arrays;    *)
(* <<variant, fields...>> for enums; places for references and pointers.        *)
(* A place is a path into the value of a root, a variable <<frame, id>> or a    *)
(* temporary <<0, k>>; the place of a slice has the first index and the length. *)
(* The state s is [store, frame, fresh, fns].                                   *)
EXTENDS IR

RECURSIVE Eval(_, _), EvalPlace(_, _), Matches(_, _, _), Replace(_, _, _), Repeated(_, _)

--------------------------------------------------------------------------------
(* Stores and places. *)

Place(root) == [root |-> root, path |-> <<>>, lo |-> 0, len |-> 0]
Inside(p, k) == [p EXCEPT !.path = Append(@, k)]
Element(p, k) == [Inside(p, p.lo + k + 1) EXCEPT !.lo = 0, !.len = 0]

Load(s, p) ==
  LET at[k \in 0 .. Len(p.path)] == IF k = 0 THEN s.store[p.root] ELSE at[k - 1][p.path[k]]
  IN  at[Len(p.path)]

Replace(v, path, new) ==
  IF path = <<>> THEN new ELSE [v EXCEPT ![Head(path)] = Replace(@, Tail(path), new)]

Keep(s, root, v) ==
  [s EXCEPT !.store = [r \in DOMAIN @ \cup {root} |-> IF r = root THEN v ELSE @[r]]]
Save(s, p, v) == Keep(s, p.root, IF p.path = <<>> THEN v ELSE Replace(s.store[p.root], p.path, v))

(* How an evaluation ends: with a value, or with a jump to loop `id`, a return  *)
(* or a panic that the expressions around it pass on.                           *)
Ends(ctl, id, v, s) == [ctl |-> ctl, id |-> id, val |-> v, s |-> s]
Done(v, s) == Ends("val", 0, v, s)
Panic(s) == Ends("panic", 0, <<>>, s)
Then(r, Rest(_)) == IF r.ctl = "val" THEN Rest(r) ELSE r

Temporary(v, s) == Done(Place(<<0, s.fresh>>), Keep([s EXCEPT !.fresh = @ + 1], <<0, s.fresh>>, v))

--------------------------------------------------------------------------------
(* Operators. *)

Wrapped(v, ty) ==
  LET u == v % Modulus(SizeOf(ty)) IN IF SignOf(ty) = "S" THEN Signed(u, SizeOf(ty)) ELSE u

UnaryOf(op, ty, x) ==
  CASE ty.kind = "bool" -> 1 - x
    [] op = "Neg" -> Wrapped(-x, ty)
    [] op = "Not" -> Wrapped(-x - 1, ty)

BinaryOf(op, ty, x, y, s) ==
  CASE op \in Comparisons -> Done(Truth(Compare(op, x, y)), s)
    [] op \in Divisions /\ y = 0 -> Panic(s)
    [] OTHER -> Done(Wrapped(Apply(op, x, y, SizeOf(ty)), ty), s)

CastOf(from, to, x) ==
  CASE IsPointer(from) -> x
    [] from.kind = "enum" -> Wrapped(Discriminant(from, x[1]), to)
    [] OTHER -> Wrapped(x, to)

--------------------------------------------------------------------------------
(* Representation in memory, for what is passed to a program, what it returns,  *)
(* and transmute.                                                               *)

RECURSIVE Represent(_, _, _, _), Represented(_, _, _)

Parts(ty, v) ==
  CASE ty.kind = "array" -> [k \in 1 .. ty.count |-> [off |-> (k - 1) * SizeOf(ty.elem), ty |-> ty.elem]]
    [] ty.kind = "tuple" -> [k \in 1 .. Len(ty.fields) |-> [off |-> FieldOffset(ty, 1, k), ty |-> ty.fields[k]]]
    [] ty.kind = "enum" -> [k \in 1 .. Len(ty.variants[v]) |->
                              [off |-> FieldOffset(ty, v, k), ty |-> ty.variants[v][k]]]

Represent(m, addr, ty, x) ==
  CASE ty.kind \in {"int", "bool", "char"} -> Write(m, addr, x, SizeOf(ty))
    [] ty.kind = "enum" ->
         LET parts == Parts(ty, x[1])
             done[k \in 0 .. Len(parts)] ==
               IF k = 0 THEN Write(m, addr, Discriminant(ty, x[1]), SizeOf(ty.internal))
               ELSE Represent(done[k - 1], addr + parts[k].off, parts[k].ty, x[k + 1])
         IN  done[Len(parts)]
    [] OTHER ->
         LET parts == Parts(ty, 1)
             done[k \in 0 .. Len(parts)] ==
               IF k = 0 THEN m ELSE Represent(done[k - 1], addr + parts[k].off, parts[k].ty, x[k])
         IN  done[Len(parts)]

Represented(m, addr, ty) ==
  CASE ty.kind \in {"int", "bool", "char"} -> Read(m, addr, SizeOf(ty), SignOf(ty))
    [] ty.kind = "enum" ->
         LET disc == Read(m, addr, SizeOf(ty.internal), SignOf(ty.internal))
             v == CHOOSE v \in 1 .. Len(ty.variants) : Discriminant(ty, v) = disc
             parts == Parts(ty, v)
         IN  <<v>> \o [k \in 1 .. Len(parts) |-> Represented(m, addr + parts[k].off, parts[k].ty)]
    [] OTHER ->
         LET parts == Parts(ty, 1)
         IN  [k \in 1 .. Len(parts) |-> Represented(m, addr + parts[k].off, parts[k].ty)]

Transmuted(from, to, x) ==
  LET blank == [mem |-> [k \in 0 .. Max({SizeOf(from), SizeOf(to)}) - 1 |-> 0], base |-> 0]
  IN  Represented(Represent(blank, 0, from, x), 0, to)

--------------------------------------------------------------------------------
(* Intrinsics, as the documentation of core::intrinsics has them. *)

LastIndex(p) == p.path[Len(p.path)]
Stepped(p, n) == [p EXCEPT !.path[Len(p.path)] = @ + n]

Operators ==
  [unchecked_add |-> "Add", wrapping_add |-> "Add", unchecked_sub |-> "Sub", wrapping_sub |-> "Sub",
   unchecked_mul |-> "Mul", wrapping_mul |-> "Mul", exact_div |-> "Div", unchecked_rem |-> "Rem",
   unchecked_shl |-> "ShiftL", unchecked_shr |-> "ShiftR", rotate_left |-> "RotateLeft",
   rotate_right |-> "RotateRight"]
CheckedOperators ==
  [add_with_overflow |-> "Add", sub_with_overflow |-> "Sub", mul_with_overflow |-> "Mul"]

IntrinsicOf(name, tys, x, s) ==
  LET n == SizeOf(tys[1])
      bits == x[1] % Modulus(n)
  IN  CASE name \in DOMAIN Operators -> BinaryOf(Operators[name], tys[1], x[1], x[2], s)
        [] name \in DOMAIN CheckedOperators ->
             LET z == Apply(CheckedOperators[name], x[1], x[2], n)
             IN  Done(<<Wrapped(z, tys[1]), Truth(z # Wrapped(z, tys[1]))>>, s)
        [] name = "saturating_add" -> Done(Clamp(x[1] + x[2], n, SignOf(tys[1])), s)
        [] name = "ctpop" -> Done(Cardinality({k \in 0 .. BitWidth(n) - 1 : Bit(bits, k) = 1}), s)
        [] name = "bitreverse" -> Done(Wrapped(ReverseBits(bits, n), tys[1]), s)
        [] name = "bswap" ->
             Done(Wrapped(Read([mem |-> [k \in 0 .. n - 1 |-> BytesOf(x[1], n)[n - 1 - k]]], 0, n, "U"),
                          tys[1]), s)
        [] name = "transmute" -> Done(Transmuted(tys[1], tys[2], x[1]), s)
        [] name = "offset" -> Done(Stepped(x[1], x[2]), s)
        [] name = "ptr_offset_from_unsigned" -> Done(LastIndex(x[1]) - LastIndex(x[2]), s)
        [] name \in {"min_align_of", "min_align_of_val"} -> Done(Alignment(tys[1]), s)
        [] name = "size_of" -> Done(n, s)
        [] name = "size_of_val" ->
             Done(IF IsSized(tys[1]) THEN n ELSE SizeOf(tys[1].elem) * x[1].len, s)
        [] name = "variant_count" -> Done(Len(tys[1].variants), s)
        [] name = "discriminant_value" -> Done(Discriminant(tys[1], Load(s, x[1])[1]), s)
        [] name = "read_via_copy" -> Done(Load(s, x[1]), s)
        [] name = "write_via_move" -> Done(<<>>, Save(s, x[1], x[2]))
        [] name = "copy_nonoverlapping" ->
             LET copied[k \in 0 .. x[3]] ==
                   IF k = 0 THEN s
                   ELSE Save(copied[k - 1], Stepped(x[2], k - 1), Load(copied[k - 1], Stepped(x[1], k - 1)))
             IN  Done(<<>>, copied[x[3]])
        [] name = "write_bytes" ->
             LET byte == Transmuted(ArrayTy(IntTy(1, "U"), n), tys[1], [k \in 1 .. n |-> x[2]])
                 set[k \in 0 .. x[3]] == IF k = 0 THEN s ELSE Save(set[k - 1], Stepped(x[1], k - 1), byte)
             IN  Done(<<>>, set[x[3]])
        [] name \in {"abort", "unreachable"} -> Panic(s)
        [] name \in {"assume", "assert_zero_valid", "assert_inhabited"} -> Done(<<>>, s)
        [] name = "unlikely" -> Done(x[1], s)

--------------------------------------------------------------------------------
(* Patterns: whether the value at a place matches, and the bindings made.       *)

AllMatch(pats, places, s) ==
  LET done[k \in 0 .. Len(pats)] ==
        IF k = 0 THEN [ok |-> TRUE, s |-> s]
        ELSE LET before == done[k - 1]
             IN  IF before.ok THEN Matches(pats[k], places[k], before.s) ELSE before
  IN  done[Len(pats)]

SliceMatches(pat, p, s) ==
  LET len == IF pat.ty.kind = "array" THEN pat.ty.count ELSE p.len
      n1 == Len(pat.start)
      n2 == Len(pat.end)
      middle == [p EXCEPT !.lo = @ + n1, !.len = len - n1 - n2]
  IN  IF IF pat.mid = <<>> THEN len # n1 + n2 ELSE len < n1 + n2 THEN [ok |-> FALSE, s |-> s]
      ELSE AllMatch(pat.start \o pat.mid \o pat.end,
                    [k \in 1 .. n1 |-> Element(p, k - 1)]
                    \o [k \in 1 .. Len(pat.mid) |-> middle]
                    \o [k \in 1 .. n2 |-> Element(p, len - n2 + k - 1)], s)

Matches(pat, p, s) ==
  CASE pat.pat = "hole" -> [ok |-> TRUE, s |-> s]
    [] pat.pat = "bind" ->
         Matches(pat.sub, p, Keep(s, <<s.frame, pat.id>>, IF pat.mode = "ref" THEN p ELSE Load(s, p)))
    [] pat.pat = "struct" ->
         AllMatch([k \in 1 .. Len(pat.fields) |-> pat.fields[k][2]],
                  [k \in 1 .. Len(pat.fields) |-> Inside(p, pat.fields[k][1])], s)
    [] pat.pat = "enum" ->
         IF Load(s, p)[1] # pat.variant THEN [ok |-> FALSE, s |-> s]
         ELSE AllMatch([k \in 1 .. Len(pat.fields) |-> pat.fields[k][2]],
                       [k \in 1 .. Len(pat.fields) |-> Inside(p, pat.fields[k][1] + 1)], s)
    [] pat.pat = "or" ->
         LET tried[k \in 0 .. Len(pat.options)] ==
               IF k = 0 THEN [ok |-> FALSE, s |-> s]
               ELSE LET before == tried[k - 1]
                    IN  IF before.ok THEN before ELSE Matches(pat.options[k], p, s)
         IN  tried[Len(pat.options)]
    [] pat.pat = "deref" -> Matches(pat.sub, Load(s, p), s)
    [] pat.pat = "lit" -> [ok |-> Load(s, p) = pat.n, s |-> s]
    [] pat.pat = "range" ->
         [ok |-> /\ pat.lo # None => pat.lo <= Load(s, p)
                 /\ pat.hi # None => Load(s, p) <= IF pat.inclusive THEN pat.hi ELSE pat.hi - 1,
          s |-> s]
    [] pat.pat = "slice" -> SliceMatches(pat, p, s)

--------------------------------------------------------------------------------
(* Expressions. *)

EvalEach(es, s) ==
  LET done[k \in 0 .. Len(es)] ==
        IF k = 0 THEN Done(<<>>, s)
        ELSE LET before == done[k - 1]
             IN  Then(before, LAMBDA b : Then(Eval(es[k], b.s), LAMBDA r : Done(Append(b.val, r.val), r.s)))
  IN  done[Len(es)]

EvalOptional(e, s) == IF Given(e) THEN Eval(e, s) ELSE Done(<<>>, s)

EvalStmt(st, s) ==
  CASE st.stmt = "expr" -> Eval(st.expr, s)
    [] ~Given(st.init) -> Done(<<>>, s)
    [] OTHER -> Then(EvalPlace(st.init, s), LAMBDA p : Done(<<>>, Matches(st.pat, p.val, p.s).s))

EvalBlock(e, s) ==
  LET done[k \in 0 .. Len(e.stmts)] ==
        IF k = 0 THEN Done(<<>>, s)
        ELSE LET before == done[k - 1] IN Then(before, LAMBDA b : EvalStmt(e.stmts[k], b.s))
  IN  Then(done[Len(e.stmts)], LAMBDA b : EvalOptional(e.result, b.s))

Repeated(e, s) ==
  LET r == Eval(e.body, s)
  IN  CASE r.ctl = "break" /\ r.id = e.id -> Done(r.val, r.s)
        [] r.ctl = "val" \/ (r.ctl = "continue" /\ r.id = e.id) -> Repeated(e, r.s)
        [] OTHER -> r

EvalAdt(e, s) ==
  LET n == Len(e.fields)
      all == VariantsOf(e.ty)[e.variant]
      skip == IF e.ty.kind = "enum" THEN 1 ELSE 0
  IN  Then(EvalEach([k \in 1 .. n |-> e.fields[k][2]], s), LAMBDA b :
        Then(EvalOptional(e.rest, b.s), LAMBDA r :
          LET Value(i) == IF \E k \in 1 .. n : e.fields[k][1] = i
                          THEN b.val[CHOOSE k \in 1 .. n : e.fields[k][1] = i] ELSE r.val[i + skip]
              values == [i \in 1 .. Len(all) |-> Value(i)]
          IN  Done(IF skip = 1 THEN <<e.variant>> \o values ELSE values, r.s)))

(* The first arm whose pattern matches and whose guard holds. *)
EvalMatch(e, s) ==
  Then(EvalPlace(e.arg, s), LAMBDA p :
    LET NoArm == Ends("next", 0, <<>>, p.s)
        Arm(a, before) ==
          LET m == Matches(a.pat, p.val, before.s)
              g == IF Given(a.guard) THEN Eval(a.guard, m.s) ELSE Done(1, m.s)
          IN  IF ~m.ok THEN before
              ELSE Then(g, LAMBDA h : IF h.val = 1 THEN Eval(a.body, h.s) ELSE [before EXCEPT !.s = h.s])
        tried[k \in 0 .. Len(e.arms)] ==
          IF k = 0 THEN NoArm
          ELSE LET before == tried[k - 1] IN IF before.ctl = "next" THEN Arm(e.arms[k], before) ELSE before
    IN  tried[Len(e.arms)])

EvalCall(e, s) ==
  Then(EvalEach(e.args, s), LAMBDA a :
    LET fn == s.fns[e.fn]
        frame == a.s.fresh
        root(k) == <<0, frame + k>>
        passed[k \in 0 .. Len(fn.params)] ==
          IF k = 0 THEN [a.s EXCEPT !.frame = frame, !.fresh = @ + 1 + Len(fn.params)]
          ELSE Matches(fn.params[k], Place(root(k)), Keep(passed[k - 1], root(k), a.val[k])).s
        r == Eval(fn.body, passed[Len(fn.params)])
    IN  IF r.ctl = "panic" THEN r ELSE Done(r.val, [r.s EXCEPT !.frame = s.frame]))

EvalPlace(e, s) ==
  CASE e.op = "Var" -> Done(Place(<<s.frame, e.id>>), s)
    [] e.op = "Deref" -> Eval(e.arg, s)
    [] e.op = "Field" -> Then(EvalPlace(e.lhs, s), LAMBDA p : Done(Inside(p.val, e.field), p.s))
    [] e.op = "Index" ->
         Then(EvalPlace(e.lhs, s), LAMBDA p :
           Then(Eval(e.index, p.s), LAMBDA i :
             IF i.val < IF e.lhs.ty.kind = "array" THEN e.lhs.ty.count ELSE p.val.len
             THEN Done(Element(p.val, i.val), i.s) ELSE Panic(i.s)))
    [] OTHER -> Then(Eval(e, s), LAMBDA r : Temporary(r.val, r.s))

Eval(e, s) ==
  CASE e.op \in {"Var", "Deref", "Field", "Index"} ->
         Then(EvalPlace(e, s), LAMBDA p : Done(Load(p.s, p.val), p.s))
    [] e.op = "Lit" -> Done(e.n, s)
    [] e.op = "Void" -> Done(<<>>, s)
    [] e.op = "Unary" -> Then(Eval(e.arg, s), LAMBDA a : Done(UnaryOf(e.un, e.ty, a.val), a.s))
    [] e.op = "Binary" ->
         Then(EvalEach(<<e.lhs, e.rhs>>, s), LAMBDA b : BinaryOf(e.bin, e.lhs.ty, b.val[1], b.val[2], b.s))
    [] e.op = "Cast" -> Then(Eval(e.arg, s), LAMBDA a : Done(CastOf(e.arg.ty, e.ty, a.val), a.s))
    [] e.op = "Assign" ->
         Then(Eval(e.rhs, s), LAMBDA r :
           Then(EvalPlace(e.lhs, r.s), LAMBDA p : Done(<<>>, Save(p.s, p.val, r.val))))
    [] e.op = "AssignOp" ->
         Then(Eval(e.rhs, s), LAMBDA r : Then(EvalPlace(e.lhs, r.s), LAMBDA p :
           Then(BinaryOf(e.bin, e.lhs.ty, Load(p.s, p.val), r.val, p.s),
                LAMBDA z : Done(<<>>, Save(z.s, p.val, z.val)))))
    [] e.op = "Block" -> EvalBlock(e, s)
    [] e.op = "If" -> Then(Eval(e.cond, s), LAMBDA c : Eval(IF c.val = 1 THEN e.then ELSE e.else, c.s))
    [] e.op = "When" -> Then(Eval(e.cond, s), LAMBDA c : IF c.val = 1 THEN Eval(e.then, c.s) ELSE Done(<<>>, c.s))
    [] e.op = "Logic" ->
         Then(Eval(e.lhs, s), LAMBDA l : IF (l.val = 1) = (e.logic = "and") THEN Eval(e.rhs, l.s) ELSE l)
    [] e.op = "Loop" -> Repeated(e, s)
    [] e.op = "Break" -> Then(EvalOptional(e.value, s), LAMBDA v : Ends("break", e.id, v.val, v.s))
    [] e.op = "Continue" -> Ends("continue", e.id, <<>>, s)
    [] e.op = "Return" -> Then(EvalOptional(e.value, s), LAMBDA v : Ends("return", 0, v.val, v.s))
    [] e.op \in {"Tuple", "Array"} -> EvalEach(e.fields, s)
    [] e.op = "ArrayRepeat" -> Then(Eval(e.arg, s), LAMBDA a : Done([k \in 1 .. e.ty.count |-> a.val], a.s))
    [] e.op = "Adt" -> EvalAdt(e, s)
    [] e.op = "Ref" -> EvalPlace(e.arg, s)
    [] e.op = "Unsize" -> Then(Eval(e.arg, s), LAMBDA a : Done([a.val EXCEPT !.len = e.arg.ty.to.count], a.s))
    [] e.op = "Let" ->
         Then(EvalPlace(e.init, s), LAMBDA p :
           LET m == Matches(e.pat, p.val, p.s) IN Done(Truth(m.ok), m.s))
    [] e.op = "Match" -> EvalMatch(e, s)
    [] e.op = "Call" -> EvalCall(e, s)
    [] e.op = "Intrinsic" ->
         Then(EvalEach(e.args, s), LAMBDA a : IntrinsicOf(e.name, e.tys, a.val, a.s))

(* Running function 1 of a program on argument values. *)
Outcome(fns, args) ==
  LET start == [store |-> <<>>, frame |-> 0, fresh |-> 1, fns |-> fns]
      given[k \in 0 .. Len(args)] == IF k = 0 THEN start ELSE Keep(given[k - 1], <<0, -k>>, args[k])
      main == CallFn(1, [k \in 1 .. Len(args) |-> Var(-k, fns[1].params[k].ty)], fns[1].body.ty)
      r == Eval(main, given[Len(args)])
  IN  [ctl |-> r.ctl, val |-> r.val]
================================================================================
