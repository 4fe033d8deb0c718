------------------------------- MODULE MCDropGlue ------------------------------
(* Values of every kind of type that glue is made for, with every variant and   *)
(* every length up to two of a boxed slice, in memory that is otherwise all     *)
(* zeros or all ones.  No array has elements without a size: glue does not drop  *)
(* those, Rust does.                                                            *)
EXTENDS DropGlue

CONSTANTS MemorySize, Value, Heap    \* addresses of the value and of boxed content

U8 == IntTy(1, "U")
U32 == IntTy(4, "U")
D1 == WithDrop("D1", Struct(<<U8>>))
D4 == WithDrop("D4", Struct(<<U32>>))
D8 == WithDrop("D8", Struct(<<USize>>))

Outer == WithDrop("Outer", Struct(<<D1, U8, D4, Struct(<<U8, D1>>)>>))
Pair == Tuple(<<D4, U32, D1>>)
Kept == Struct(<<ManuallyDrop(D4), D1, Union(WithDrop("U", U8))>>)
Choice == Enum(IntTy(2, "S"), ISize, <<<<-2>>, <<>>, <<5>>>>, <<<<D4, U8, D1>>, <<U8>>, <<D1, D4>>>>)
Owned(v) == WithDrop("Choice", Choice) @@ [becomes |-> v]
Option(ty) == PlainEnum(<<<<>>, <<>>>>, <<<<>>, <<ty>>>>)
Grid == ArrayTy(ArrayTy(Struct(<<D1, U8>>), 2), 2)
None0 == ArrayTy(D4, 0)

(* Stores of values <<address, value, bytes>> over a fill. *)
RECURSIVE Stored(_, _)
Stored(m, stores) ==
  IF stores = <<>> THEN m
  ELSE Stored(Write(m, stores[1][1], stores[1][2], stores[1][3]), Tail(stores))

Filled(ty, stores) ==
  {[ty |-> ty, at |-> Value,
    mem |-> Stored([mem |-> [a \in 0 .. MemorySize - 1 |-> fill], base |-> 0], stores).mem] :
   fill \in {0, Radix - 1}}

Tags == {-2, -1, 5}

MCScenarios ==
  UNION ({Filled(ty, <<>>) : ty \in {Outer, Pair, Kept, Grid, None0}}
    \cup {Filled(Choice, <<<<Value, d, 2>>>>) : d \in Tags}
    \cup {Filled(Owned(v), <<<<Value, d, 2>>>>) : d \in Tags, v \in 1 .. 3}
    \cup {Filled(ArrayTy(Choice, 2), <<<<Value, d, 2>>, <<Value + SizeOf(Choice), e, 2>>>>) :
            d \in Tags, e \in Tags}
    \cup {Filled(Tuple(<<Box(Owned(3)), D1>>), <<<<Value, Heap, 8>>, <<Heap, d, 2>>>>) : d \in Tags}
    \cup {Filled(Box(U32), <<<<Value, Heap, 8>>>>)}
    \cup {Filled(Box(Slice(Struct(<<D1, D1>>))), <<<<Value, Heap, 8>>, <<Value + 8, n, 8>>>>) : n \in 0 .. 2}
    \cup {Filled(Box(Box(Outer)), <<<<Value, Heap, 8>>, <<Heap, Heap + 16, 8>>>>)}
    \cup {Filled(Option(Box(Option(D8))), <<<<Value, d, 4>>, <<Value + 8, Heap, 8>>, <<Heap, e, 4>>>>) :
            d \in {0, 1}, e \in {0, 1}})
================================================================================
