--------------------------------- MODULE Types ---------------------------------
(* Types as far as code generation looks at them, and the layout that           *)
(* types/layout.rs gives them.  A type is a record with a `kind`.               *)
EXTENDS Integers, Sequences, FiniteSetsExt

IntTy(size, sign) == [kind |-> "int", size |-> size, sign |-> sign]
Bool == [kind |-> "bool"]
Char == [kind |-> "char"]
Tuple(fields) == [kind |-> "tuple", fields |-> fields]
ArrayTy(elem, count) == [kind |-> "array", elem |-> elem, count |-> count]
Slice(elem) == [kind |-> "slice", elem |-> elem]
Ref(to) == [kind |-> "ref", to |-> to]
RawPtr(to) == [kind |-> "ptr", to |-> to]
Enum(internal, external, sources, variants) ==
  [kind |-> "enum", internal |-> internal, external |-> external,
   sources |-> sources, variants |-> variants]

Unit == Tuple(<<>>)
USize == IntTy(8, "U")
ISize == IntTy(8, "S")

(* An enum without #[repr]: i32 inside, isize to the outside. *)
PlainEnum(sources, variants) == Enum(IntTy(4, "S"), ISize, sources, variants)

IsSized(ty) == ty.kind # "slice"
IsPointer(ty) == ty.kind \in {"ref", "ptr"}

(* IntSign of a type that is not an integer is Unsigned. *)
SignOf(ty) == IF ty.kind = "int" THEN ty.sign ELSE "U"

(* abi::align for a power of two. *)
AlignUp(x, align) == ((x + align - 1) \div align) * align

--------------------------------------------------------------------------------
(* Layout. *)

RECURSIVE Alignment(_), SizeOf(_), FieldOffset(_, _, _), FieldsEnd(_, _, _)

(* The field lists of a compound type, and the bytes before its first field. *)
VariantsOf(ty) == IF ty.kind = "enum" THEN ty.variants ELSE <<ty.fields>>
BaseSize(ty) == IF ty.kind = "enum" THEN SizeOf(ty.internal) ELSE 0

Alignment(ty) ==
  CASE ty.kind = "int" -> ty.size
    [] ty.kind = "bool" -> 1
    [] ty.kind = "char" -> 4
    [] IsPointer(ty) -> 8
    [] ty.kind \in {"array", "slice"} -> Alignment(ty.elem)
    [] OTHER -> Max({1} \cup (IF ty.kind = "enum" THEN {Alignment(ty.internal)} ELSE {})
                    \cup UNION {{Alignment(VariantsOf(ty)[v][i]) : i \in 1 .. Len(VariantsOf(ty)[v])}
                                 : v \in 1 .. Len(VariantsOf(ty))})

(* Layout::compound: where the first k fields of a variant end. *)
FieldsEnd(ty, v, k) ==
  IF k = 0 THEN BaseSize(ty) ELSE FieldOffset(ty, v, k) + SizeOf(VariantsOf(ty)[v][k])

FieldOffset(ty, v, k) == AlignUp(FieldsEnd(ty, v, k - 1), Alignment(VariantsOf(ty)[v][k]))

SizeOf(ty) ==
  CASE ty.kind = "int" -> ty.size
    [] ty.kind = "bool" -> 1
    [] ty.kind = "char" -> 4
    [] IsPointer(ty) -> IF IsSized(ty.to) THEN 8 ELSE 16
    [] ty.kind = "array" -> SizeOf(ty.elem) * ty.count
    [] OTHER -> AlignUp(Max({BaseSize(ty)} \cup {FieldsEnd(ty, v, Len(VariantsOf(ty)[v])) :
                                                  v \in 1 .. Len(VariantsOf(ty))}),
                        Alignment(ty))

(* AdtInfo::variant_discriminants: `sources` has <<n>> for an explicit     *)
(* value and <<>> for one more than the last.                                   *)
Discriminant(ty, v) ==
  LET disc[k \in 0 .. v] ==
        CASE k = 0 -> -1
          [] ty.sources[k] # <<>> -> ty.sources[k][1]
          [] OTHER -> disc[k - 1] + 1
  IN  disc[v]
================================================================================
