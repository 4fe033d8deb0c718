------------------------------- MODULE MCLowering ------------------------------
(* The programs: every operator on the boundary values of its types, every form *)
(* of place, branch, loop, pattern and call, and the intrinsics.  Left out are  *)
(* the forms that are known to be compiled to something else than Rust means.   *)
EXTENDS Execution

I8 == IntTy(1, "S")
U8 == IntTy(1, "U")
I16 == IntTy(2, "S")
I32 == IntTy(4, "S")
U32 == IntTy(4, "U")

(* A function of typed parameters 1, 2, ...; a program run on some inputs. *)
Params(tys) == [k \in 1 .. Len(tys) |-> PBind(k, "value", tys[k], PHole(tys[k]))]
Fn(tys, body) == [params |-> Params(tys), body |-> body]
Program(fns, inputs) == [fns |-> fns, inputs |-> inputs]
One(tys, body, inputs) == Program(<<Fn(tys, body)>>, inputs)

Boundary(ty) ==
  IF ty.kind = "bool" THEN {0, 1}
  ELSE {v \in {-128, -1, 0, 1, 3, 127, 255, Least(SizeOf(ty), SignOf(ty)), Greatest(SizeOf(ty), SignOf(ty))} :
          v >= Least(SizeOf(ty), SignOf(ty)) /\ v <= Greatest(SizeOf(ty), SignOf(ty))}
Singles(ty) == {<<v>> : v \in Boundary(ty)}
Pairs(t1, t2) == Boundary(t1) \X Boundary(t2)

LetVar(id, ty, e) == LetStmt(PBind(id, "value", ty, PHole(ty)), e)
PVar(id, ty) == PBind(id, "value", ty, PHole(ty))
PRef(id, ty) == PBind(id, "ref", Ref(ty), PHole(ty))
N(n) == Lit(n, I32)
A == Var(1, I32)
B == Var(2, I32)
Do(stmts, e) == Block([k \in 1 .. Len(stmts) |-> IF "stmt" \in DOMAIN stmts[k] THEN stmts[k]
                                                 ELSE ExprStmt(stmts[k])], e)

--------------------------------------------------------------------------------
(* Operators on two operands.  Shift counts stay below the 2-bit byte's 4; MIN  *)
(* divided by -1 is left out (it wraps here and panics in Rust).                *)
OperatorInputs(op, ty) ==
  {x \in Pairs(ty, ty) : /\ op \in Shifts => x[2] \in 0 .. 3
                         /\ op \in Divisions => ~(x[2] = -1 /\ x[1] = Least(SizeOf(ty), "S"))
                         /\ op = "Mul" /\ SizeOf(ty) = 8 => ty.sign = "S"}
OperatorProgram(op, ty) == One(<<ty, ty>>, Bin(op, Var(1, ty), Var(2, ty)), OperatorInputs(op, ty))
BinaryOperators ==
  Comparisons \cup Divisions \cup Shifts \cup {"Add", "Sub", "Mul", "BitOr", "BitAnd", "BitXor"}
Across(xs, ys, F(_, _)) ==
  [k \in 1 .. Len(xs) * Len(ys) |-> F(xs[1 + (k - 1) \div Len(ys)], ys[1 + ((k - 1) % Len(ys))])]

BinaryPrograms ==
  Across(<<"Eq", "NotEq", "Lt", "LtEq", "Gt", "GtEq", "Add", "Sub", "Mul", "Div", "Rem",
           "BitOr", "BitAnd", "BitXor", "ShiftL", "ShiftR">>, <<I8, U8, I32, U32>>, OperatorProgram)
  \o Across(<<"Lt", "GtEq", "Div", "Add", "ShiftR">>, <<ISize>>, OperatorProgram)
  \o Across(<<"Gt", "LtEq", "Rem", "Sub">>, <<USize>>, OperatorProgram)
  \o Across(<<"Eq", "NotEq", "BitOr", "BitAnd", "BitXor">>, <<Bool>>, OperatorProgram)
  \o Across(<<"Lt", "GtEq", "Eq">>, <<Char>>, OperatorProgram)

UnaryPrograms ==
  LET Run(op, ty) == One(<<ty>>, Un(op, Var(1, ty)), Singles(ty))
  IN  Across(<<"Neg">>, <<I8, I16, I32, ISize>>, Run) \o Across(<<"Not">>, <<Bool, U8, I32, USize>>, Run)

CastPrograms ==
  LET Run(from, to) == One(<<from>>, Cast(Var(1, from), to), Singles(from))
  IN  Across(<<I8, U8, I16, I32, U32, ISize, Bool>>, <<I8, U8, I32, USize>>, Run)
      \o Across(<<Char>>, <<U8, U32, USize>>, Run)

--------------------------------------------------------------------------------
(* Places. *)
PairTy == Tuple(<<U8, I32>>)
NestTy == Tuple(<<U8, PairTy, I16>>)
ArrTy == ArrayTy(I16, 3)
Arr == Var(1, ArrTy)
I == Var(2, USize)
SliceOf(arr) == Unsize(RefTo(arr))

PlacePrograms == <<
  \* fields of fields, overwritten in a copy
  One(<<NestTy>>, Do(<<LetVar(2, NestTy, Var(1, NestTy)),
                       Assign(Field(Field(Var(2, NestTy), 2), 2), N(7)),
                       AssignOp("Add", Field(Var(1, NestTy), 3), Field(Var(2, NestTy), 3))>>,
                     TupleOf(<<Var(2, NestTy), Var(1, NestTy)>>)),
      {<<<<1, <<2, -3>>, 4>>>>}),
  \* an element read and one written, by index
  One(<<ArrTy, USize>>, Do(<<Assign(Index(Arr, Lit(1, USize)), Index(Arr, I))>>, Arr),
      {<<<<1, -2, 3>>, i>> : i \in {0, 2, 3, 65535}}),
  One(<<ArrTy, USize>>, Do(<<AssignOp("Mul", Index(Arr, I), Lit(3, I16))>>, Arr),
      {<<<<1, -2, 3>>, i>> : i \in {0, 1, 2, 3}}),
  \* the same through a slice
  One(<<ArrTy, USize>>,
      Do(<<LetVar(3, Ref(Slice(I16)), SliceOf(Arr)),
           AssignOp("Add", Index(Deref(Var(3, Ref(Slice(I16)))), I), Lit(5, I16))>>, Arr),
      {<<<<1, -2, 3>>, i>> : i \in {0, 2, 3}}),
  \* through a reference to a field
  One(<<NestTy>>,
      Do(<<LetVar(2, Ref(PairTy), RefTo(Field(Var(1, NestTy), 2))),
           LetVar(3, Ref(I32), RefTo(Field(Deref(Var(2, Ref(PairTy))), 2))),
           Assign(Deref(Var(3, Ref(I32))), N(9)),
           AssignOp("Sub", Field(Deref(Var(2, Ref(PairTy))), 1), Lit(1, U8))>>, Var(1, NestTy)),
      {<<<<1, <<0, -3>>, 4>>>>}),
  \* an array of pairs behind a reference
  One(<<ArrayTy(PairTy, 2), USize>>,
      Do(<<LetVar(3, Ref(ArrayTy(PairTy, 2)), RefTo(Var(1, ArrayTy(PairTy, 2)))),
           Assign(Field(Index(Deref(Var(3, Ref(ArrayTy(PairTy, 2)))), I), 2), N(4))>>,
         Index(Var(1, ArrayTy(PairTy, 2)), Lit(1, USize))),
      {<<<<<<1, 2>>, <<3, -1>>>>, i>> : i \in {0, 1, 2}}),
  \* [v; n], array and nested tuple expressions, a field of a temporary
  One(<<I32>>, TupleOf(<<Repeat(A, 3), ArrayOf(<<N(1), A>>), TupleOf(<<Lit(2, U8), A>>)>>), {<<6>>}),
  One(<<I32>>, Field(TupleOf(<<Lit(1, U8), Bin("Add", A, N(1))>>), 2), {<<6>>}),
  One(<<I32>>, Deref(RefTo(Bin("Add", A, N(1)))), {<<6>>})>>

--------------------------------------------------------------------------------
(* Control. *)
Odd(e) == Bin("Eq", Bin("Rem", e, N(2)), N(1))
Count(upTo, step) ==   \* 2 counts from 0 to below upTo
  Do(<<LetVar(3, I32, N(0))>>,
     Loop(1, Do(<<When(Bin("GtEq", Var(3, I32), upTo), Break(1, Var(3, I32)))>> \o step
                \o <<AssignOp("Add", Var(3, I32), N(1))>>, NoExpr), I32))

ControlPrograms == <<
  One(<<I32, I32>>, If(Bin("Lt", A, B), Bin("Sub", B, A), If(Odd(A), A, N(0))),
      {<<1, 2>>, <<2, 1>>, <<3, 1>>, <<-128, 127>>}),
  \* short circuits with effects
  One(<<Bool, Bool>>,
      Do(<<LetVar(3, I32, N(0)),
           When(Logic("or", Var(1, Bool), Do(<<AssignOp("Add", Var(3, I32), N(1))>>, Var(2, Bool))),
                Do(<<AssignOp("Add", Var(3, I32), N(2))>>, NoExpr))>>, Var(3, I32)),
      {0, 1} \X {0, 1}),
  One(<<Bool, Bool>>,
      Do(<<LetVar(3, I32, N(0)),
           When(Logic("and", Var(2, Bool), Do(<<AssignOp("Add", Var(3, I32), N(4))>>, Var(1, Bool))),
                Do(<<AssignOp("Add", Var(3, I32), N(8))>>, NoExpr))>>, Var(3, I32)),
      {0, 1} \X {0, 1}),
  One(<<I32>>, Count(A, <<>>), {<<0>>, <<3>>}),
  \* continue and a value from a break
  One(<<I32>>,
      Do(<<LetVar(4, I32, N(0)), LetVar(5, I32, N(0)),
           Loop(1, Do(<<AssignOp("Add", Var(4, I32), N(1)),
                        When(Bin("Gt", Var(4, I32), A), Break(1, NoExpr)),
                        When(Odd(Var(4, I32)), Continue(1)),
                        AssignOp("Add", Var(5, I32), Var(4, I32))>>, NoExpr), Unit)>>, Var(5, I32)),
      {<<0>>, <<4>>}),
  \* labels: out of, and on with, the outer loop
  One(<<I32>>,
      Do(<<LetVar(2, I32, N(0))>>,
         Loop(1, Do(<<AssignOp("Add", Var(2, I32), N(1)),
                      Loop(2, Do(<<AssignOp("Add", Var(2, I32), N(2)),
                                   When(Bin("Gt", Var(2, I32), A), Break(1, Bin("Mul", Var(2, I32), N(2)))),
                                   When(Odd(Var(2, I32)), Continue(1)),
                                   Break(2, NoExpr)>>, NoExpr), Unit)>>, NoExpr), I32)),
      {<<0>>, <<9>>}),
  \* operands with effects
  One(<<I32>>,
      Do(<<LetVar(2, I32, Bin("Sub", Do(<<AssignOp("Add", A, N(1))>>, Bin("Mul", A, N(3))),
                                     Do(<<AssignOp("Mul", A, N(2))>>, Bin("Add", A, N(1)))))>>, TupleOf(<<A, B>>)),
      {<<5>>}),
  \* return from inside an operand, and from inside a loop
  One(<<I32>>, Bin("Add", N(1), If(Odd(A), Do(<<ReturnExpr(A)>>, N(0)), Bin("Mul", A, N(2)))), {<<3>>, <<4>>}),
  One(<<I32>>, Do(<<Loop(1, Do(<<When(Bin("Gt", A, N(5)), ReturnExpr(A)),
                                 AssignOp("Mul", A, N(2))>>, NoExpr), Unit)>>, N(0)), {<<1>>, <<6>>}),
  \* a block's scope ends and its slots are used again
  One(<<I32>>,
      Do(<<LetVar(2, I32, Do(<<LetVar(3, I32, Bin("Add", A, N(1)))>>, Bin("Mul", Var(3, I32), Var(3, I32)))),
           LetVar(4, I32, Do(<<LetVar(5, I32, N(2))>>, Bin("Sub", B, Var(5, I32))))>>,
         Bin("Sub", B, Var(4, I32))), {<<3>>}),
  One(<<I32>>, Intrinsic("abort", <<I32>>, <<>>, I32), {<<0>>})>>
--------------------------------------------------------------------------------
(* Enums and patterns. *)
Opt == PlainEnum(<<<<>>, <<>>>>, <<<<>>, <<I32>>>>)                \* None, Some(i32)
Opt2 == PlainEnum(<<<<>>, <<>>>>, <<<<>>, <<Opt>>>>)
Shape == Enum(U8, U8, <<<<2>>, <<>>, <<1>>>>, <<<<>>, <<U8, I32>>, <<PairTy>>>>)
Struct == Tuple(<<I32, U8, I32>>)
Some(pat) == PEnum(2, <<<<1, pat>>>>, Opt)
Nothing == PEnum(1, <<>>, Opt)
OptValues == {<<1>>, <<2, 5>>, <<2, -1>>}
Arm(pat, body) == [pat |-> pat, guard |-> NoExpr, body |-> body]
Guarded(pat, guard, body) == [pat |-> pat, guard |-> guard, body |-> body]
Tuple2(p, q, ty) == PStruct(<<<<1, p>>, <<2, q>>>>, ty)
Hole == PHole(I32)
TwoInts == Tuple(<<I32, I32>>)
X1 == Var(1, I32)

PatternPrograms == <<
  \* variants with payloads of their own layouts
  One(<<Shape>>, Match(Var(1, Shape),
        <<Arm(PEnum(2, <<<<2, PVar(2, I32)>>, <<1, PVar(3, U8)>>>>, Shape),
              Bin("Add", B, Cast(Var(3, U8), I32))),
          Arm(PEnum(3, <<<<1, Tuple2(PLit(1, U8), PVar(4, I32), PairTy)>>>>, Shape), Var(4, I32)),
          Arm(PEnum(3, <<>>, Shape), N(-7)),
          Arm(PHole(Shape), Cast(Var(1, Shape), I32))>>, I32),
      {<<<<1>>>>, <<<<2, 3, 40>>>>, <<<<3, <<1, 9>>>>>>, <<<<3, <<2, 9>>>>>>}),
  \* an option in an option, built and taken apart
  One(<<I32>>,
      Do(<<LetVar(2, Opt2, If(Odd(A), Adt(Opt2, 2, <<<<1, Adt(Opt, 2, <<<<1, A>>>>, NoExpr)>>>>, NoExpr),
                              If(Bin("Gt", A, N(9)), Adt(Opt2, 1, <<>>, NoExpr),
                                 Adt(Opt2, 2, <<<<1, Adt(Opt, 1, <<>>, NoExpr)>>>>, NoExpr))))>>,
         Match(Var(2, Opt2), <<Arm(PEnum(2, <<<<1, Some(PVar(3, I32))>>>>, Opt2), Var(3, I32)),
                               Arm(PEnum(2, <<<<1, Nothing>>>>, Opt2), N(-1)),
                               Arm(PEnum(1, <<>>, Opt2), N(-2))>>, I32)),
      {<<3>>, <<4>>, <<10>>}),
  \* guards see the bindings; a failed guard goes on to the next arm
  One(<<Opt, I32>>, Match(Var(1, Opt),
        <<Guarded(Some(PVar(3, I32)), Bin("Gt", Var(3, I32), B), Var(3, I32)),
          Guarded(Some(PVar(4, I32)), Do(<<AssignOp("Add", B, N(10))>>, Bin("Lt", Var(4, I32), N(0))), B),
          Arm(PHole(Opt), Bin("Sub", B, N(1)))>>, I32),
      {<<o, n>> : o \in OptValues, n \in {0, 7}}),
  \* or-patterns, alone, in a tuple, around bindings
  One(<<I32>>, Match(X1, <<Arm(POr(<<PLit(1, I32), PLit(3, I32), PRange(10, 12, FALSE, I32)>>), N(1)),
                           Arm(POr(<<PLit(2, I32), PRange(-3, -1, TRUE, I32)>>), N(2)),
                           Arm(Hole, N(3))>>, I32),
      {<<n>> : n \in {-4, -3, -1, 0, 1, 2, 3, 10, 12}}),
  One(<<TwoInts>>, Match(Var(1, TwoInts),
        <<Arm(Tuple2(POr(<<PLit(0, I32), PLit(2, I32)>>), POr(<<PLit(1, I32), PLit(2, I32)>>), TwoInts), N(1)),
          Arm(POr(<<Tuple2(PLit(0, I32), PVar(2, I32), TwoInts), Tuple2(PVar(2, I32), PLit(0, I32), TwoInts)>>), B),
          Arm(PHole(TwoInts), N(-1))>>, I32),
      {<<<<a, b>>>> : a, b \in {0, 1, 2}}),
  \* ranges with one end, of both signs
  One(<<U8>>, Match(Var(1, U8), <<Arm(PRange(2, None, TRUE, U8), N(1)), Arm(PHole(U8), N(2))>>, I32), Singles(U8)),
  One(<<I8>>, Match(Var(1, I8), <<Arm(PRange(None, 1, FALSE, I8), N(1)), Arm(PHole(I8), N(2))>>, I32), Singles(I8)),
  One(<<Char>>, Match(Var(1, Char), <<Arm(PRange(1, 200, TRUE, Char), N(1)), Arm(PHole(Char), N(2))>>, I32),
      Singles(Char)),
  \* a binding with a sub-pattern; bindings by reference that are assigned through
  One(<<I32>>, Match(X1, <<Arm(PBind(2, "value", I32, PRange(1, 5, TRUE, I32)), B), Arm(PVar(3, I32), N(0))>>, I32),
      {<<0>>, <<1>>, <<5>>, <<6>>}),
  One(<<Opt>>, Do(<<Match(Var(1, Opt), <<Arm(Some(PRef(2, I32)), AssignOp("Add", Deref(Var(2, Ref(I32))), N(1))),
                                         Arm(PHole(Opt), Void)>>, Unit)>>, Var(1, Opt)),
      {<<o>> : o \in OptValues}),
  \* matching behind references
  One(<<Opt>>, Do(<<LetVar(2, Ref(Opt), RefTo(Var(1, Opt)))>>,
                  Match(Deref(Var(2, Ref(Opt))), <<Arm(Some(PVar(3, I32)), Var(3, I32)), Arm(Nothing, N(8))>>, I32)),
      {<<o>> : o \in OptValues}),
  One(<<Opt>>, Do(<<LetVar(2, Ref(Opt), RefTo(Var(1, Opt))),
                    LetVar(4, Ref(Ref(Opt)), RefTo(Var(2, Ref(Opt))))>>,
                  Match(Var(4, Ref(Ref(Opt))),
                        <<Arm(PDeref(PDeref(Some(PLit(5, I32)))), N(50)),
                          Arm(PDeref(PDeref(Some(PRef(3, I32)))), Deref(Var(3, Ref(I32)))),
                          Arm(PHole(Ref(Ref(Opt))), N(8))>>, I32)),
      {<<o>> : o \in OptValues}),
  \* if let with a chain; let of a tuple; a pattern on a temporary
  One(<<Opt, I32>>, If(Logic("and", LetExpr(Some(PVar(3, I32)), Var(1, Opt)), Bin("Lt", B, Var(3, I32))),
                       Bin("Sub", Var(3, I32), B), N(0)),
      {<<o, n>> : o \in OptValues, n \in {0, 7}}),
  One(<<I32>>, Do(<<LetStmt(Tuple2(PVar(2, I32), Tuple2(PVar(3, I32), PHole(U8), Tuple(<<I32, U8>>)),
                                   Tuple(<<I32, Tuple(<<I32, U8>>)>>)),
                            TupleOf(<<Bin("Add", A, N(1)), TupleOf(<<Bin("Mul", A, N(2)), Lit(1, U8)>>)>>)),
                    AssignOp("Add", B, N(1))>>, Bin("Sub", Var(3, I32), B)), {<<5>>}),
  One(<<I32>>, Do(<<LetStmt(PVar(2, I32), A), AssignOp("Add", B, N(1)), AssignOp("Add", A, N(5))>>,
                  TupleOf(<<A, B>>)), {<<1>>}),
  One(<<Bool>>, Do(<<LetStmt(PVar(2, I32), NoExpr), When(Var(1, Bool), Assign(B, N(3))),
                     When(Un("Not", Var(1, Bool)), Assign(B, N(4)))>>, B), {<<0>>, <<1>>}),
  \* struct update
  One(<<Struct>>, Adt(Struct, 1, <<<<3, N(1)>>, <<1, Field(Var(1, Struct), 3)>>>>, Var(1, Struct)), {<<<<7, 2, 9>>>>}),
  \* slice patterns on an array
  One(<<ArrTy>>, Match(Arr, <<Arm(PSlice(<<PLit(1, I16), PVar(2, I16)>>, <<>>, <<PLit(3, I16)>>, ArrTy), Var(2, I16)),
                              Arm(PSlice(<<>>, <<PHole(ArrTy)>>, <<PVar(3, I16)>>, ArrTy), Var(3, I16))>>, I16),
      {<<<<1, 5, 3>>>>, <<<<2, 5, 3>>>>, <<<<1, 5, 4>>>>}),
  \* slice patterns on slices of the lengths 0 to 3
  One(<<ArrTy, USize>>,
      LET s == Ref(Slice(I16))
          mid == Var(5, s)
          Shorter == Match(Deref(Var(3, s)),
                           <<Arm(PSlice(<<PHole(I16)>>, <<PBind(4, "ref", s, PHole(s))>>, <<>>, Slice(I16)),
                                 Assign(Var(3, s), Var(4, s))),
                             Arm(PHole(Slice(I16)), Void)>>, Unit)
          ShorterIf(n) == When(Bin("Gt", I, Lit(n, USize)), Shorter)
      IN  Do(<<LetVar(3, s, SliceOf(Arr)), ShorterIf(0), ShorterIf(1), ShorterIf(2)>>,
             Match(Deref(Var(3, s)),
                   <<Arm(PSlice(<<PLit(1, I16)>>, <<PBind(5, "ref", s, PHole(s))>>, <<PVar(6, I16)>>, Slice(I16)),
                         Bin("Add", Index(Deref(mid), Lit(0, USize)), Var(6, I16))),
                     Arm(PSlice(<<PVar(7, I16)>>, <<>>, <<PRef(8, I16)>>, Slice(I16)),
                         Bin("Sub", Var(7, I16), Deref(Var(8, Ref(I16))))),
                     Arm(PSlice(<<>>, <<>>, <<>>, Slice(I16)), Lit(-5, I16)),
                     Arm(PHole(Slice(I16)), Lit(-6, I16))>>, I16)),
      {<<<<1, 2, 3>>, i>> : i \in 0 .. 3})>>

--------------------------------------------------------------------------------
(* Calls: arguments that are calls, aggregates, patterns as parameters,         *)
(* recursion, a call whose result is a place.                                   *)
CallPrograms == <<
  Program(<<Fn(<<I32>>, Bin("Sub", CallFn(2, <<A, CallFn(2, <<N(3), A>>, I32)>>, I32), A)),
            Fn(<<I32, I32>>, Do(<<LetVar(3, I32, Bin("Mul", A, N(2))), AssignOp("Sub", Var(3, I32), B)>>, Var(3, I32)))>>,
          {<<5>>}),
  Program(<<Fn(<<I32>>, CallFn(2, <<A>>, I32)),
            Fn(<<I32>>, If(Bin("LtEq", A, N(1)), N(1), Bin("Mul", A, CallFn(2, <<Bin("Sub", A, N(1))>>, I32))))>>,
          {<<0>>, <<4>>}),
  Program(<<Fn(<<I32>>, CallFn(2, <<A>>, I32)),
            Fn(<<I32>>, If(Bin("Lt", A, N(2)), A, Bin("Add", CallFn(2, <<Bin("Sub", A, N(1))>>, I32),
                                                        CallFn(2, <<Bin("Sub", A, N(2))>>, I32))))>>,
          {<<4>>}),
  Program(<<Fn(<<Struct>>, Field(CallFn(2, <<Var(1, Struct), Lit(1, U8)>>, TwoInts), 2)),
            [params |-> <<PStruct(<<<<3, PVar(1, I32)>>, <<1, PVar(2, I32)>>>>, Struct), PVar(3, U8)>>,
             body |-> TupleOf(<<Bin("Add", A, B), Bin("Sub", Bin("Sub", A, B), Cast(Var(3, U8), I32))>>)]>>,
          {<<<<7, 2, 9>>>>}),
  \* a callee assigns through a reference into its caller's frame
  Program(<<Fn(<<I32>>, Do(<<LetVar(2, I32, N(1)), CallFn(2, <<RefTo(B), A>>, Unit), CallFn(2, <<RefTo(B), B>>, Unit)>>,
                           TupleOf(<<A, B>>))),
            Fn(<<Ref(I32), I32>>, Do(<<When(Bin("Gt", B, N(50)), ReturnExpr(NoExpr)),
                                       AssignOp("Add", Deref(Var(1, Ref(I32))), B)>>, Void))>>,
          {<<5>>, <<51>>}),
  \* locals of the caller outlive a deeper callee; a parameter is assigned to
  Program(<<Fn(<<I32>>, Do(<<LetVar(2, I32, Bin("Add", A, N(1))), LetVar(3, I32, CallFn(2, <<A>>, I32))>>,
                           Bin("Sub", Bin("Mul", B, N(10)), Var(3, I32)))),
            Fn(<<I32>>, Do(<<AssignOp("Add", A, N(1)), LetVar(2, I32, CallFn(3, <<A>>, I32))>>, Bin("Add", A, B))),
            Fn(<<I32>>, Do(<<LetVar(2, ArrayTy(I32, 2), Repeat(A, 2))>>,
                           Index(Var(2, ArrayTy(I32, 2)), Cast(Bin("Rem", A, N(2)), USize))))>>,
          {<<2>>})>>

--------------------------------------------------------------------------------
(* Intrinsics. *)
WithOverflow(op, ty) ==
  One(<<ty, ty>>, Intrinsic(op, <<ty>>, <<Var(1, ty), Var(2, ty)>>, Tuple(<<ty, Bool>>)), Pairs(ty, ty))
Two(op, ty) ==
  One(<<ty, ty>>, Intrinsic(op, <<ty>>, <<Var(1, ty), Var(2, ty)>>, ty),
      {x \in Pairs(ty, ty) : /\ op \in {"unchecked_shl", "unchecked_shr", "rotate_left", "rotate_right"} => x[2] \in 0 .. 3
                             /\ op \in {"exact_div", "unchecked_rem"} => x[2] > 0})
OneArg(op, ty) == One(<<ty>>, Intrinsic(op, <<ty>>, <<Var(1, ty)>>, ty), Singles(ty))
Measure(op, ty) == One(<<I32>>, Intrinsic(op, <<ty>>, <<>>, USize), {<<0>>})
ElemPtr(k) == Cast(RefTo(Index(Arr, Lit(k, USize))), RawPtr(I16))
P3 == Var(3, RawPtr(I16))
Mix == ArrayTy(U8, 4)

IntrinsicPrograms ==
  Across(<<"add_with_overflow", "sub_with_overflow">>, <<I8, U8, I32, U32, USize>>, WithOverflow)
  \o Across(<<"mul_with_overflow">>, <<I8, U32, I32>>, WithOverflow)
  \o Across(<<"saturating_add", "wrapping_sub", "unchecked_mul", "exact_div", "unchecked_rem",
              "unchecked_shl", "unchecked_shr", "rotate_left", "rotate_right">>, <<U8, I32, U32>>, Two)
  \o Across(<<"bswap", "bitreverse">>, <<I16, U32, USize>>, OneArg)
  \o <<One(<<U32>>, Intrinsic("ctpop", <<U32>>, <<Var(1, U32)>>, U32), Singles(U32))>>
  \o Across(<<"size_of", "min_align_of">>, <<Shape, NestTy, Opt2, ArrTy, Ref(Slice(I16)), Unit>>, Measure)
  \o <<Measure("variant_count", Shape),
       One(<<U32>>, Intrinsic("transmute", <<U32, Mix>>, <<Var(1, U32)>>, Mix), Singles(U32)),
       One(<<Mix>>, Intrinsic("transmute", <<Mix, I32>>, <<Var(1, Mix)>>, I32), {<<<<1, 2, 3, 3>>>>}),
       One(<<Opt>>, Intrinsic("discriminant_value", <<Opt>>, <<RefTo(Var(1, Opt))>>, ISize), {<<o>> : o \in OptValues}),
       One(<<Shape>>, Intrinsic("discriminant_value", <<Shape>>, <<RefTo(Var(1, Shape))>>, U8),
           {<<<<1>>>>, <<<<2, 3, 40>>>>, <<<<3, <<1, 9>>>>>>}),
       One(<<ArrTy>>, TupleOf(<<Intrinsic("size_of_val", <<Slice(I16)>>, <<SliceOf(Arr)>>, USize),
                                Intrinsic("unlikely", <<Bool>>, <<Lit(1, Bool)>>, Bool)>>), {<<<<1, 2, 3>>>>}),
       \* raw pointers into an array
       One(<<ArrTy, USize>>,
           Do(<<LetVar(3, RawPtr(I16), Intrinsic("offset", <<RawPtr(I16), USize>>, <<ElemPtr(0), I>>, RawPtr(I16))),
                LetVar(4, I16, Intrinsic("read_via_copy", <<I16>>, <<P3>>, I16)),
                Intrinsic("write_via_move", <<I16>>, <<P3, Bin("Mul", Var(4, I16), Lit(2, I16))>>, Unit)>>,
              TupleOf(<<Arr, Intrinsic("ptr_offset_from_unsigned", <<I16>>, <<P3, ElemPtr(0)>>, USize)>>)),
           {<<<<1, -2, 3>>, i>> : i \in 0 .. 2}),
       One(<<ArrTy, USize>>,
           Do(<<Intrinsic("copy_nonoverlapping", <<I16>>, <<ElemPtr(0), ElemPtr(2), Lit(1, USize)>>, Unit),
                Intrinsic("write_bytes", <<I16>>, <<ElemPtr(0), Lit(1, U8), I>>, Unit)>>, Arr),
           {<<<<1, -2, 3>>, i>> : i \in {0, 2}})>>

AllPrograms == BinaryPrograms \o UnaryPrograms \o CastPrograms \o PlacePrograms \o ControlPrograms
               \o PatternPrograms \o CallPrograms \o IntrinsicPrograms
MCPrograms == 1 .. Len(AllPrograms)
MCRunsOf(k) == LET program == AllPrograms[k] IN CompiledProgram(program)
================================================================================
