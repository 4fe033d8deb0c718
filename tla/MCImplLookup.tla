------------------------------ MODULE MCImplLookup -----------------------------
(* Three crates with the kinds of impls that core, alloc and programs have:     *)
(* impls for all types, for references, tuples and arrays, with bounds that     *)
(* refer to other traits and to associated types, impls of foreign traits for   *)
(* foreign types through a parameter, and generic associated types.  alloc is   *)
(* read from its cache.  The hash function puts its keys into the same or       *)
(* different buckets, and the first seeds collide or not.                       *)
EXTENDS ImplLookup

IntOf(item) == Prim("int", item)
U8 == IntOf("u8")
U16 == IntOf("u16")
USize == IntOf("usize")
Mine == Adt("Mine", <<>>)
Odd == Adt("Odd", <<>>)    \* has no impls
Opt(ty) == Adt("Option", <<ty>>)
Vec(ty) == Adt("Vec", <<ty>>)
Iter(ty) == Adt("IntoIter", <<ty>>)
Gen(ty) == Adt("Gen", <<ty>>)

A == Param(0)
B == Param(1)

Bound(trait, subs) == [kind |-> "trait", trait |-> trait, member |-> 0, subs |-> subs, eq |-> Unknown]
Equal(trait, member, subs, eq) ==
  [kind |-> "projection", trait |-> trait, member |-> member, subs |-> subs, eq |-> eq]

Impl(trait, subs, params, bounds, values) ==
  [trait |-> trait, subs |-> subs, lifetimes |-> 0, params |-> params, consts |-> 0,
   bounds |-> bounds, values |-> values]
WithLifetime(i) == [i EXCEPT !.lifetimes = 1]
WithConst(i) == [i EXCEPT !.consts = 1]
Fn == Prim("fn", "")

MCCrates == {"core", "alloc", "user"}
MCHome ==
  [Option |-> "core", Vec |-> "alloc", IntoIter |-> "alloc", Mine |-> "user", Odd |-> "user", Gen |-> "user",
   Sized |-> "core", Tuple |-> "core", Clone |-> "core", Iterator |-> "core", From |-> "core", Into |-> "core",
   SliceIndex |-> "core", Index |-> "core", Show |-> "user", Family |-> "user"]

Trait(generics, builtin) == [generics |-> generics, builtin |-> builtin]
MCTraits ==
  [Sized |-> Trait(1, "Sized"), Tuple |-> Trait(1, "Tuple"), Clone |-> Trait(1, ""), Iterator |-> Trait(1, ""),
   From |-> Trait(2, ""), Into |-> Trait(2, ""), SliceIndex |-> Trait(2, ""), Index |-> Trait(2, ""),
   Show |-> Trait(1, ""), Family |-> Trait(1, "")]

CoreImpls ==
  <<Impl("Clone", <<U8>>, 0, <<>>, <<Fn>>),
    Impl("Clone", <<U16>>, 0, <<>>, <<Fn>>),
    WithLifetime(Impl("Clone", <<RefTo(B, "const")>>, 1, <<>>, <<Fn>>)),
    Impl("Clone", <<Opt(A)>>, 1, <<Bound("Sized", <<A>>), Bound("Clone", <<A>>)>>, <<Fn>>),
    Impl("Clone", <<TupleTy(<<A, B>>)>>, 2, <<Bound("Clone", <<A>>), Bound("Clone", <<B>>)>>, <<Fn>>),
    WithConst(Impl("Clone", <<Array(A, ConstParam(1))>>, 1, <<Bound("Clone", <<A>>)>>, <<Fn>>)),
    Impl("From", <<A, A>>, 1, <<Bound("Sized", <<A>>)>>, <<Fn>>),
    Impl("From", <<U16, U8>>, 0, <<>>, <<Fn>>),
    Impl("Into", <<A, B>>, 2, <<Bound("Sized", <<A>>), Bound("Sized", <<B>>), Bound("From", <<B, A>>)>>, <<Fn>>),
    WithLifetime(Impl("Iterator", <<RefTo(B, "mut")>>, 1, <<Bound("Iterator", <<B>>)>>,
                      <<Assoc("Iterator", 1, <<B>>), Fn, NoValue>>)),
    Impl("SliceIndex", <<USize, SliceTy(A)>>, 1, <<Bound("Sized", <<A>>)>>, <<A>>)>>

AllocImpls ==
  <<Impl("Clone", <<Vec(A)>>, 1, <<Bound("Clone", <<A>>)>>, <<Fn>>),
    Impl("Iterator", <<Iter(A)>>, 1, <<Bound("Sized", <<A>>)>>, <<A, Fn, Fn>>),
    WithLifetime(Impl("From", <<Vec(B), RefTo(SliceTy(B), "const")>>, 1, <<Bound("Clone", <<B>>)>>, <<Fn>>)),
    WithConst(Impl("From", <<Vec(A), Array(A, ConstParam(1))>>, 1, <<>>, <<Fn>>)),
    Impl("Index", <<Vec(A), B>>, 2, <<Bound("SliceIndex", <<B, SliceTy(A)>>)>>,
         <<Assoc("SliceIndex", 1, <<B, SliceTy(A)>>)>>)>>

UserImpls ==
  <<Impl("Clone", <<Mine>>, 0, <<>>, <<Fn>>),
    Impl("Clone", <<Gen(A)>>, 1, <<Bound("Clone", <<A>>)>>, <<Fn>>),
    Impl("From", <<Mine, U8>>, 0, <<>>, <<Fn>>),
    Impl("From", <<U8, Mine>>, 0, <<>>, <<Fn>>),
    Impl("From", <<Opt(A), Gen(A)>>, 1, <<>>, <<Fn>>),
    Impl("Show", <<A>>, 2, <<Bound("Sized", <<A>>), Bound("Iterator", <<A>>), Equal("Iterator", 1, <<A>>, B),
                             Bound("Sized", <<B>>), Bound("Clone", <<B>>)>>, <<NoValue>>),
    Impl("Show", <<Mine>>, 0, <<>>, <<Fn>>),
    Impl("Family", <<Gen(A)>>, 1, <<>>, <<TupleTy(<<A, B>>)>>)>>

MCImpls == [core |-> CoreImpls, alloc |-> AllocImpls, user |-> UserImpls]

Own(ty, params, members) == [ty |-> ty, lifetimes |-> 0, params |-> params, consts |-> 0, members |-> members]
MCInherent ==
  [core |-> <<Own(U8, 0, {"max"}), Own(U16, 0, {"max"}), Own(Opt(A), 1, {"unwrap"}), Own(SliceTy(A), 1, {"len"})>>,
   alloc |-> <<Own(SliceTy(A), 1, {"to_vec"}), Own(Vec(A), 1, {"len", "new"}), Own(Vec(U8), 0, {"utf8"})>>,
   user |-> <<Own(Gen(U8), 0, {"get"}), Own(Gen(U16), 0, {"get"}), Own(Gen(Vec(A)), 1, {"get"})>>]

Elements == {U8, U16, Mine, Odd}
MCUniverse ==
  Elements \cup {USize, SliceTy(U8), SliceTy(Odd), RefTo(SliceTy(U8), "const"), RefTo(SliceTy(Odd), "const"),
    RefTo(Odd, "const"), RefTo(Iter(Mine), "mut"), RefTo(U8, "mut"), TupleTy(<<U8, Mine>>), TupleTy(<<U8, Odd>>),
    TupleTy(<<Mine>>), Array(U8, Const(2)), Array(Odd, Const(3)), Const(2), Const(3), Dyn("Show"), Gen(Iter(U8)),
    Vec(Opt(U8)), Opt(Gen(U8))}
  \cup UNION {{Opt(ty), Vec(ty), Iter(ty), Gen(ty)} : ty \in {U8, Mine, Odd}}

Types == {ty \in MCUniverse : ty.kind # "const"}
Sources == Elements \cup {RefTo(SliceTy(U8), "const"), RefTo(SliceTy(Odd), "const"), Array(U8, Const(2)),
                          Array(Odd, Const(3)), Gen(U8), Gen(Odd), USize}
Targets == Elements \cup {Vec(U8), Vec(Odd), Opt(U8), Opt(Odd)}

Ask(kind, trait, member, subs) == [kind |-> kind, trait |-> trait, member |-> member, subs |-> subs]
MCQueries ==
  {Ask("impl", t, 0, <<ty>>) : t \in {"Sized", "Tuple", "Clone", "Iterator", "Show"}, ty \in Types}
  \cup {Ask("impl", "From", 0, <<t, s>>) : t \in Targets, s \in Sources}
  \cup {Ask("impl", "Into", 0, <<s, t>>) : t \in Targets, s \in Sources}
  \cup {Ask("function", "Clone", 1, <<ty>>) : ty \in {Opt(U8), Odd, RefTo(Odd, "const")}}
  \cup {Ask("function", "Iterator", m, <<ty, U16>>) : m \in {2, 3}, ty \in {Iter(U8), RefTo(Iter(Mine), "mut")}}
  \cup {Ask("function", "Show", 1, <<ty>>) : ty \in {Mine, Iter(U8), Dyn("Show")}}
  \cup {Ask("type", "Iterator", 1, <<ty>>) : ty \in {Iter(U8), RefTo(Iter(Mine), "mut")}}
  \cup {Ask("type", "Index", 1, <<Vec(ty), USize>>) : ty \in {U8, Odd}}
  \cup {Ask("type", "Family", 1, <<Gen(ty), U16>>) : ty \in {U8, Mine}}
  \cup UNION {UNION {{Ask("inherent", "", m, <<MCInherent[c][k].ty>>) : m \in MCInherent[c][k].members} :
                     k \in 1 .. Len(MCInherent[c])} : c \in MCCrates}

--------------------------------------------------------------------------------

K1 == <<"Clone", "Vec">>
K2 == <<"Iterator", "IntoIter">>
K3 == <<"From", "Vec">>
K4 == <<"Index", "Vec">>
ImplKeys == {NoImplKey} \cup {ImplKey(ty) : ty \in Types}
MCKeys == {<<t, k>> : t \in DOMAIN MCTraits, k \in ImplKeys}

MCMinSeed == -3

(* The order in which a map gives its keys. *)
MCTables == {[i \in 0 .. 3 |-> <<K1, K2, K3, K4>>[i + 1]], [i \in 0 .. 3 |-> <<K4, K1, K3, K2>>[i + 1]]}

Hashing(a, b, c, d) ==
  [key \in MCKeys |-> CASE key = K1 -> a [] key = K2 -> b [] key = K3 -> c [] key = K4 -> d
                        [] OTHER -> 5]

MCHashes ==
  {[s \in Seeds |-> IF s = 0 THEN first ELSE IF s = -1 THEN second ELSE third] :
     first \in {Hashing(0, 1, 2, 3), Hashing(2, 2, 1, 0), Hashing(1, 1, 3, 3), Hashing(3, 7, 3, 0), Hashing(0, 4, 8, 0)},
     second \in {Hashing(1, 1, 2, 2), Hashing(0, 1, 0, 1)},
     third \in {Hashing(3, 2, 1, 0)}}
================================================================================
