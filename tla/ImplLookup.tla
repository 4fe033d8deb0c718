------------------------------- MODULE ImplLookup ------------------------------
(* The search for an impl across crates (impls.rs, items.rs): the crates that   *)
(* may hold it, their tables, matching an impl against types and checking its   *)
(* bounds.  One crate is read from its cache, through a LazyTable, while others *)
(* keep their impls in maps.  What Rust selects is the reference.               *)
EXTENDS LazyTable, TraitFacts

CONSTANTS
  Home,         \* the crate that defines a type or a trait
  Core, Alloc,  \* the crates of types without a crate of their own
  Cached,       \* the crate that is read from its cache
  Inherent,     \* the inherent impls of every crate:
                \* [ty, lifetimes, params, consts, members]
  Queries       \* what is resolved: [kind, trait, member, subs] or an inherent member

--------------------------------------------------------------------------------
(* Keys, crates and tables. *)

NoImplKey == "None"
ImplKey(ty) ==
  CASE ty.kind = "adt" -> ty.item
    [] ty.kind \in {"closure", "param"} -> NoImplKey
    [] OTHER -> ty.kind

HasImplKey(ty) == ty.kind \notin {"unknown", "assoc", "panicked", "fndef"}

(* Types whose source is not known: the search panics. *)
RECURSIVE HasSource(_)
HasSource(ty) ==
  IF ty.kind = "ref" THEN HasSource(ty.subs[1])
  ELSE ty.kind \notin {"never", "unknown", "param", "assoc"}

RECURSIVE SourceCrates(_)
SourceCrates(ty) ==
  CASE ty.kind \in {"adt", "fndef", "dyn"} -> <<Home[ty.item]>>
    [] ty.kind = "ref" -> SourceCrates(ty.subs[1])
    [] OTHER -> <<Core, Alloc>>

RECURSIVE Merged(_, _)
Merged(crates, more) ==
  IF more = <<>> THEN crates
  ELSE Merged(IF \E k \in 1 .. Len(crates) : crates[k] = Head(more) THEN crates
              ELSE Append(crates, Head(more)), Tail(more))

RECURSIVE TraitImplCrates(_, _)
TraitImplCrates(tys, home) ==
  IF tys = <<>> THEN <<home>>
  ELSE LET before == TraitImplCrates(SubSeq(tys, 1, Len(tys) - 1), home)
           last == tys[Len(tys)]
       IN  IF last.kind \in {"lifetime", "const", "unknownconst"} THEN before ELSE Merged(before, SourceCrates(last))

InherentImplCrates(ty) == SourceCrates(ty)

(* The impls that add_trait has filed under trait and key, in rustc's order.    *)
Listed(c, trait, key) ==
  LET all == [k \in 1 .. Len(Impls[c]) |-> k]
      Here(k) == Impls[c][k].trait = trait /\ ImplKey(Impls[c][k].subs[1]) = key
  IN  SelectSeq(all, Here)

TraitTable(c, trait, key) ==
  IF c = Cached
  THEN IF Get(<<trait, key>>) = NotFound THEN <<>>
       ELSE LET found == items[Get(<<trait, key>>)] IN Listed(c, found[1], found[2])
  ELSE Listed(c, trait, key)

InherentTable(c, member, key) ==
  LET all == [k \in 1 .. Len(Inherent[c]) |-> k]
      Here(k) == ImplKey(Inherent[c][k].ty) = key /\ member \in Inherent[c][k].members
  IN  SelectSeq(all, Here)

--------------------------------------------------------------------------------
(* Matching.  A result is a status and the parameters found so far.             *)

Yes(subs) == [status |-> "yes", subs |-> subs]
No == [status |-> "no", subs |-> <<>>]
Panic == [status |-> "panic", subs |-> <<>>]

Compound == {"adt", "ptr", "ref", "slice", "tuple", "array", "dyn"}
Distinct == {"adt", "ptr", "ref", "slice", "bool", "char", "str", "never", "int", "float"}

SetParam(n, ty, subs) ==
  IF n >= Len(subs) \/ (n < Len(subs) /\ subs[n + 1].kind \in {"lifetime", "const", "unknownconst"})
  THEN Panic
  ELSE IF subs[n + 1] = Unknown THEN Yes([subs EXCEPT ![n + 1] = ty])
  ELSE IF subs[n + 1] = ty THEN Yes(subs) ELSE No

SetParamConst(n, const, subs) ==
  IF subs[n + 1] = UnknownConst THEN Yes([subs EXCEPT ![n + 1] = const])
  ELSE IF subs[n + 1] = const THEN Yes(subs) ELSE Panic

RECURSIVE MatchTypes(_, _, _), MatchSubs(_, _, _), Subst(_, _), SubstEach(_, _),
          ResolveAssociatedTy(_, _, _), FindTraitImpl(_, _), FirstImpl(_, _, _),
          FirstOfCrates(_, _, _), CheckBounds(_, _)

(* What follows a match, and what follows when there is none. *)
Then(result, Next(_)) == IF result.status = "yes" THEN Next(result.subs) ELSE result
Else(result, other) == IF result.status = "no" THEN other ELSE result

SortOf(sub) ==
  CASE sub.kind = "lifetime" -> "lifetime"
    [] sub.kind \in {"const", "constparam", "unknownconst"} -> "const"
    [] OTHER -> "type"

(* A lifetime, a type and a constant never match each other. *)
MatchSub(lhs, rhs, subs) ==
  IF SortOf(lhs) = SortOf(rhs) \/ AnyWithin({"panicked"}, lhs) \/ AnyWithin({"panicked"}, rhs)
  THEN MatchTypes(lhs, rhs, subs) ELSE No

(* The shorter list decides how many are compared. *)
MatchSubs(lhs, rhs, subs) ==
  IF lhs = <<>> \/ rhs = <<>> THEN Yes(subs)
  ELSE Then(MatchSub(Head(lhs), Head(rhs), subs), LAMBDA s : MatchSubs(Tail(lhs), Tail(rhs), s))

MatchTypes(lhs, rhs, subs) ==
  CASE AnyWithin({"panicked"}, lhs) \/ AnyWithin({"panicked"}, rhs) -> Panic
    [] IsConcrete(lhs) /\ lhs = rhs -> Yes(subs)
    [] lhs.kind \in Compound /\ lhs.kind = rhs.kind ->
         IF lhs.item = rhs.item /\ (lhs.kind = "tuple" => Len(lhs.subs) = Len(rhs.subs))
         THEN MatchSubs(lhs.subs, rhs.subs, subs) ELSE No
    [] lhs.kind = "param" -> SetParam(lhs.n, rhs, subs)
    [] lhs.kind = "constparam" -> SetParamConst(lhs.n, rhs, subs)
    [] lhs.kind = "assoc" /\ rhs.kind # "param" -> MatchTypes(Subst(lhs, subs), rhs, subs)
    [] rhs.kind \notin {"param", "assoc"} /\ (lhs.kind \in Distinct \/ rhs.kind \in Distinct) -> No
    [] OTHER -> Panic

(* Type::sub. *)
Subst(ty, subs) ==
  CASE ty.kind \in {"param", "constparam"} -> IF ty.n < Len(subs) THEN subs[ty.n + 1] ELSE Panicked
    [] ty.kind = "assoc" -> ResolveAssociatedTy(ty.item, ty.n, SubstEach(ty.subs, subs))
    [] OTHER -> [ty EXCEPT !.subs = SubstEach(@, subs)]

SubstEach(tys, subs) == [k \in 1 .. Len(tys) |-> Subst(tys[k], subs)]

--------------------------------------------------------------------------------
(* Searching.  What is found is [status, subs, crate, impl].                    *)

Found(status, subs, c, k) == [status |-> status, subs |-> subs, crate |-> c, impl |-> k]
FoundBy(result, c, k) == Found(result.status, result.subs, c, k)
Nothing == Found("no", <<>>, "", 0)
Crash == Found("panic", <<>>, "", 0)

ValueOf(found, member) ==
  IF found.status # "yes" \/ found.impl = 0 THEN Panicked
  ELSE Subst(Impls[found.crate][found.impl].values[member], found.subs)

ResolveAssociatedTy(trait, member, subs) == ValueOf(FindTraitImpl(trait, subs), member)

(* The parameters, all unknown, as GenericCounts groups them. *)
FromSummary(i) ==
  [k \in 1 .. i.lifetimes |-> Lifetime] \o [k \in 1 .. i.params |-> Unknown]
  \o [k \in 1 .. i.consts |-> UnknownConst]

(* A bound that does not hold; one on an associated type may set parameters,    *)
(* and has to hold.                                                             *)
Holding(found, subs) == IF found.status = "no" THEN No ELSE IF found.status = "panic" THEN Panic ELSE Yes(subs)

CheckBound(b, subs) ==
  IF b.kind = "trait" THEN Holding(FindTraitImpl(b.trait, SubstEach(b.subs, subs)), subs)
  ELSE Else(MatchTypes(b.eq, Subst(Assoc(b.trait, b.member, b.subs), subs), subs), Panic)

CheckBounds(bounds, subs) ==
  IF bounds = <<>> THEN Yes(subs)
  ELSE Then(CheckBound(Head(bounds), subs), LAMBDA s : CheckBounds(Tail(bounds), s))

(* ImplBounds::check.  Parameters of an associated type follow the impl's own.  *)
Check(i, tys) ==
  Then(MatchSubs(i.subs, tys, FromSummary(i)),
       LAMBDA s : CheckBounds(i.bounds, s \o SubSeq(tys, Len(i.subs) + 1, Len(tys))))

FirstImpl(c, list, tys) ==
  IF list = <<>> THEN Nothing
  ELSE Else(FoundBy(Check(Impls[c][Head(list)], tys), c, Head(list)), FirstImpl(c, Tail(list), tys))

(* Mutant: impls for all types are not tried after those for the type.          *)
CandidatesByKey(c, trait, ty) == TraitTable(c, trait, ImplKey(ty))

(* ImplTable::find_trait: the impls for the type's key, then those for any type.*)
Candidates(c, trait, ty) ==
  TraitTable(c, trait, ImplKey(ty))
  \o (IF ImplKey(ty) = NoImplKey THEN <<>> ELSE TraitTable(c, trait, NoImplKey))

FirstOfCrates(crates, trait, tys) ==
  IF crates = <<>> THEN Nothing
  ELSE Else(FirstImpl(Head(crates), Candidates(Head(crates), trait, tys[1]), tys),
            FirstOfCrates(Tail(crates), trait, tys))

(* Builtin traits are implemented for types, not by impls. *)
BuiltinImpl(trait, tys) ==
  \/ Traits[trait].builtin = "Sized" /\ IsConcrete(tys[1]) /\ IsSizedTy(tys[1])
  \/ Traits[trait].builtin = "Tuple" /\ tys[1].kind = "tuple"

FindTraitImpl(trait, tys) ==
  IF \E k \in 1 .. Len(tys) : AnyWithin({"panicked"}, tys[k]) THEN Crash
  ELSE IF BuiltinImpl(trait, tys) THEN Found("yes", <<>>, Core, 0)
  ELSE IF tys[1].kind = "dyn" /\ tys[1].item = trait THEN Found("dynamic", <<>>, "", 0)
  ELSE IF ~HasImplKey(tys[1]) \/ \E k \in 1 .. Len(tys) : ~HasSource(tys[k]) THEN Crash
  ELSE FirstOfCrates(TraitImplCrates(tys, Home[trait]), trait, tys)

(* Item::ir of a trait's function: the impl's own, or else the trait's.         *)
NoValue == Prim("no value", "")

OwnOrDefault(found, trait, member, subs) ==
  IF found.status = "yes" /\ found.impl # 0 /\ Impls[found.crate][found.impl].values[member] # NoValue
  THEN found
  ELSE IF found.status = "panic" THEN Crash ELSE Found("yes", subs, Home[trait], 0)

ResolveFunction(trait, member, subs) ==
  OwnOrDefault(FindTraitImpl(trait, subs), trait, member, subs)

(* ImplTable::find_inherent: the type of the impl asked for, whose parameters   *)
(* stand for themselves, is matched with the types of the impls that are listed.*)
CheckInherent(i, ty) == MatchTypes(ty, i.ty, FromSummary(i))

RECURSIVE FindInherent(_, _, _)
FindInherent(c, list, ty) ==
  IF list = <<>> THEN Nothing
  ELSE Else(Found(CheckInherent(Inherent[c][Head(list)], ty).status, <<>>, c, Head(list)),
            FindInherent(c, Tail(list), ty))

RECURSIVE InherentOfCrates(_, _, _)
InherentOfCrates(crates, member, ty) ==
  IF crates = <<>> THEN Nothing
  ELSE Else(FindInherent(Head(crates), InherentTable(Head(crates), member, ImplKey(ty)), ty),
            InherentOfCrates(Tail(crates), member, ty))

--------------------------------------------------------------------------------
(* A table is written, and queries are answered from it. *)

VARIABLES
  query, answer,
  facts    \* what Rust derives from the impls

Unanswered == Found("unanswered", <<>>, "", 0)

Resolve(q) ==
  CASE q.kind = "impl" -> FindTraitImpl(q.trait, q.subs)
    [] q.kind = "function" -> ResolveFunction(q.trait, q.member, q.subs)
    [] q.kind = "type" -> Found("yes", <<ResolveAssociatedTy(q.trait, q.member, q.subs)>>, "", 0)
    [] q.kind = "inherent" -> InherentOfCrates(InherentImplCrates(q.subs[1]), q.member, q.subs[1])

Unasked == [kind |-> "unasked"]

LookupInit == facts \in {Facts} /\ Init /\ query = Unasked /\ answer = Unanswered

WriteTable == Write /\ UNCHANGED <<query, answer, facts>>

Answer ==
  /\ todo = {} /\ query = Unasked
  /\ query' \in Queries
  /\ answer' = Resolve(query')
  /\ UNCHANGED <<items, hash, table1, table2, todo, seed, facts>>

LookupSpec == LookupInit /\ [][WriteTable \/ Answer]_<<vars, query, answer, facts>>

--------------------------------------------------------------------------------

(* What Rust selects. *)
RustAnswer(q) ==
  CASE q.kind = "inherent" ->
         LET owners == {<<c, k>> \in Crates \X (1 .. 20) :
                          k <= Len(Inherent[c]) /\ Inherent[c][k].ty = q.subs[1] /\ q.member \in Inherent[c][k].members}
         IN  LET o == CHOOSE o \in owners : TRUE IN Found("yes", <<>>, o[1], o[2])
    [] q.kind = "type" -> Found("yes", <<Ground(Assoc(q.trait, q.member, q.subs), <<>>, facts)>>, "", 0)
    [] Traits[q.trait].builtin # "" ->
         IF Implements(facts, q.trait, q.subs) THEN Found("yes", <<>>, Core, 0) ELSE Nothing
    [] OTHER ->
         LET found == FactsOf(facts, q.trait, q.subs)
             f == CHOOSE f \in found : TRUE
             own == Found("yes", f.subs \o SubSeq(q.subs, Traits[q.trait].generics + 1, Len(q.subs)), f.crate, f.impl)
         IN  IF q.kind = "function"
             THEN IF found = {} \/ (found # {} /\ Impls[f.crate][f.impl].values[q.member] = NoValue)
                  THEN Found("yes", q.subs, Home[q.trait], 0) ELSE own
             ELSE IF found # {} THEN own
                  ELSE IF q.subs[1] = Dyn(q.trait) THEN Found("dynamic", <<>>, "", 0) ELSE Nothing

(* Every query is answered as Rust answers it, wherever the impl is, in tables  *)
(* whatever way the keys of the cached one hash: the impl that applies, what    *)
(* its parameters stand for, and the associated types and functions it gives.   *)
ImplIsRusts == query = Unasked \/ answer = RustAnswer(query)
================================================================================
