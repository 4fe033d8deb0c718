------------------------------- MODULE TraitFacts ------------------------------
(* Types as the impl search sees them, a program's traits and impls, and the    *)
(* reference for the search: the least set of facts "these types implement this *)
(* trait through this impl" that the impls derive, as Rust defines it.          *)
EXTENDS Integers, Sequences, FiniteSets

CONSTANTS
  Crates,
  Traits,    \* [generics, builtin] of every trait: how many types it relates
  Impls,     \* the impls of every crate, in rustc's order:
             \* [trait, subs, lifetimes, params, consts, bounds, values]
  Universe   \* the types that facts are about

(* kind is the TypeKind, item what tells types of one kind apart, n the number  *)
(* of a parameter, of a member of a trait, or the value of a const.             *)
Term(kind, item, n, subs) == [kind |-> kind, item |-> item, n |-> n, subs |-> subs]
Prim(kind, item) == Term(kind, item, 0, <<>>)
Adt(item, subs) == Term("adt", item, 0, subs)
RefTo(ty, mutability) == Term("ref", mutability, 0, <<ty>>)
TupleTy(tys) == Term("tuple", "", 0, tys)
SliceTy(ty) == Term("slice", "", 0, <<ty>>)
Array(ty, len) == Term("array", "", 0, <<ty, len>>)
Dyn(trait) == Prim("dyn", trait)
Param(n) == Term("param", "", n, <<>>)
Assoc(trait, member, subs) == Term("assoc", trait, member, subs)
Const(n) == Term("const", "", n, <<>>)
ConstParam(n) == Term("constparam", "", n, <<>>)
Lifetime == Prim("lifetime", "")
Unknown == Prim("unknown", "")
UnknownConst == Prim("unknownconst", "")

(* A type that a panic has kept from being computed. *)
Panicked == Prim("panicked", "")

RECURSIVE AnyWithin(_, _)
AnyWithin(kinds, ty) ==
  ty.kind \in kinds \/ \E k \in 1 .. Len(ty.subs) : AnyWithin(kinds, ty.subs[k])

IsConcrete(ty) ==
  ~AnyWithin({"param", "constparam", "assoc", "unknown", "unknownconst", "panicked"}, ty)

(* An ADT with unsized fields has no place in these programs. *)
IsSizedTy(ty) == ty.kind \notin {"slice", "str", "dyn"}

--------------------------------------------------------------------------------

FactsOf(facts, trait, tys) ==
  {f \in facts : f.trait = trait /\ f.tys = SubSeq(tys, 1, Traits[trait].generics)}

RECURSIVE Ground(_, _, _)
Ground(ty, subs, facts) ==
  LET args == [k \in 1 .. Len(ty.subs) |-> Ground(ty.subs[k], subs, facts)]
  IN  CASE ty.kind \in {"param", "constparam"} -> subs[ty.n + 1]
        [] ty.kind = "assoc" ->
             LET found == FactsOf(facts, ty.item, args)
             IN  IF found = {} THEN Panicked
                 ELSE LET f == CHOOSE f \in found : TRUE
                      IN  Ground(Impls[f.crate][f.impl].values[ty.n],
                                 f.subs \o SubSeq(args, Traits[ty.item].generics + 1, Len(args)), facts)
        [] OTHER -> [ty EXCEPT !.subs = args]

Implements(facts, trait, tys) ==
  CASE Traits[trait].builtin = "Sized" -> IsSizedTy(tys[1])
    [] Traits[trait].builtin = "Tuple" -> tys[1].kind = "tuple"
    [] OTHER -> tys[1] = Dyn(trait) \/ FactsOf(facts, trait, tys) # {}

BoundHolds(facts, b, subs) ==
  LET tys == [k \in 1 .. Len(b.subs) |-> Ground(b.subs[k], subs, facts)]
  IN  IF b.kind = "trait" THEN Implements(facts, b.trait, tys)
      ELSE Ground(Assoc(b.trait, b.member, b.subs), subs, facts) = Ground(b.eq, subs, facts)

(* What the parameters of an impl may stand for. *)
Choices1(i) ==
  {[k \in 1 .. i.lifetimes |-> Lifetime] \o tys \o consts :
     tys \in [1 .. i.params -> {ty \in Universe : ty.kind # "const"}],
     consts \in [1 .. i.consts -> {ty \in Universe : ty.kind = "const"}]}

DerivedBy(facts, c, k) ==
  LET i == Impls[c][k]
      Fact(subs) == [trait |-> i.trait, tys |-> [j \in 1 .. Len(i.subs) |-> Ground(i.subs[j], subs, facts)],
                     crate |-> c, impl |-> k, subs |-> subs]
      InUniverse(f) == \A j \in 1 .. Len(f.tys) : f.tys[j] \in Universe \cup {Lifetime}
  IN  {f \in {Fact(subs) : subs \in Choices1(i)} :
         InUniverse(f) /\ \A b \in 1 .. Len(i.bounds) : BoundHolds(facts, i.bounds[b], f.subs)}

RECURSIVE Closure(_)
Closure(facts) ==
  LET more == facts \cup UNION {DerivedBy(facts, c, k) : <<c, k>> \in
                                  {<<c, k>> \in Crates \X (1 .. 20) : k <= Len(Impls[c])}}
  IN  IF more = facts THEN facts ELSE Closure(more)

Facts == Closure({})
================================================================================
