-------------------------------- MODULE DropGlue -------------------------------
(* Drop glue: the bytecode that types/drop.rs builds for a type, executed when  *)
(* a value of the type is dropped.  The Drop impls that it calls are the        *)
(* environment: one uses its frame as it likes, may store another variant into  *)
(* its own value, and that of Box frees the content.  What is dropped in Rust,  *)
(* and in which order, is the reference.                                        *)
EXTENDS Selection, TLC

Seqs == INSTANCE SequencesExt

CONSTANTS
  Scenarios,    \* values to drop: [ty, at, mem], their type, address and memory
  StackBase,    \* address of slot 0 of the thread that drops
  Scratch,      \* bytes of its frame that a Drop impl overwrites
  MaxSteps      \* bound: instructions of one drop, more than any takes

ASSUME DropGlueAssumption ==
  StackBase \in {a \in Nat : a % 16 = 0} /\ Scratch \in Nat /\ MaxSteps \in Nat

VARIABLES
  machine,   \* memory and the base of the frame that runs
  frames,    \* activations of glue [code, pc, base], the running one last
  log,       \* history: the Drop impls run, with the value's address
  expected,  \* what Rust runs
  steps      \* history: instructions executed

vars == <<machine, frames, log, expected, steps>>

--------------------------------------------------------------------------------
(* Types that own something.  `drop` names the Drop impl of a type.             *)

Struct(fields) == [kind |-> "struct", fields |-> fields]
ManuallyDrop(ty) == [kind |-> "manually", fields |-> <<ty>>]
Union(ty) == [kind |-> "union", fields |-> <<ty>>]
WithDrop(name, ty) == ty @@ [drop |-> name]
(* Box<T>: a pointer, with the Drop impl of alloc that frees the content.       *)
Box(ty) == [kind |-> "box", fields |-> <<RawPtr(ty)>>, to |-> ty, drop |-> "Box"]

HasDropFn(ty) == "drop" \in DOMAIN ty

(* Unions are skipped even if they implement Drop. *)
RECURSIVE IsDrop(_)
IsDrop(ty) ==
  CASE ty.kind \in {"array", "slice"} -> IsDrop(ty.elem)
    [] ty.kind \in {"manually", "union", "int", "bool", "char", "ref", "ptr"} -> FALSE
    [] OTHER -> \/ HasDropFn(ty)
                \/ \E v \in 1 .. Len(VariantsOf(ty)) : \E k \in 1 .. Len(VariantsOf(ty)[v]) :
                     IsDrop(VariantsOf(ty)[v][k])

(* The fields of a variant that need to be dropped, in the order of declaration.*)
DropFields(ty, v) ==
  LET all == [k \in 1 .. Len(VariantsOf(ty)[v]) |->
                [offset |-> FieldOffset(ty, v, k), ty |-> VariantsOf(ty)[v][k]]]
  IN  SelectSeq(all, LAMBDA f : IsDrop(f.ty))

--------------------------------------------------------------------------------
(* DropGlue::new. *)

SelfSlot == 0
DiscSlot == 16
MemberSlot == 32

CallGlue(slot, ty) == Call(slot, [glue |-> TRUE, ty |-> ty])
CallDrop(slot, ty) == Call(slot, [glue |-> FALSE, ty |-> ty])

(* A Box drops what it points to first. *)
DropContent(ty) ==
  IF ty.kind = "box" /\ IsDrop(ty.to)
  THEN SelectCopyFromPtr(MemberSlot, SelfSlot, Ref(ty.to), 0) \o <<CallGlue(MemberSlot, ty.to)>>
  ELSE <<>>

DropSelf(ty) == IF HasDropFn(ty) THEN <<CallDrop(SelfSlot, ty)>> ELSE <<>>

(* Mutant: the fields are passed over. *)
DropFieldInPlace(f) ==
  <<PointerOffset("PointerOffset2", SelfSlot, SelfSlot, f.offset), CallGlue(SelfSlot, f.ty)>>

DropField(f) ==
  <<PointerOffset("PointerOffset2", MemberSlot, SelfSlot, f.offset), CallGlue(MemberSlot, f.ty)>>

DropVariant(ty, v) ==
  LET fields == DropFields(ty, v)
  IN  Seqs!FlattenSeq([k \in 1 .. Len(fields) |-> DropField(fields[k])])

(* One case of an enum: compare, drop the fields, return; JumpF skips it.       *)
VariantCase(ty, v) ==
  LET body == DropVariant(ty, v) \o <<Return>>
  IN  IF DropFields(ty, v) = <<>> THEN <<>>
      ELSE <<SelectLiteral(Discriminant(ty, v), SizeOf(ty.internal), MemberSlot),
             SelectBinary("Eq", ty.internal, MemberSlot, MemberSlot, DiscSlot),
             JumpIf("JumpF", 1 + Len(body), MemberSlot)>> \o body

LoadDiscriminant(ty) == SelectCopyFromPtr(DiscSlot, SelfSlot, ty.internal, 0)

DropAll(ty) ==
  IF ty.kind = "enum"
  THEN LoadDiscriminant(ty)
       \o Seqs!FlattenSeq([v \in 1 .. Len(ty.variants) |-> VariantCase(ty, v)])
  ELSE DropVariant(ty, 1)

(* Mutant: the discriminant is loaded before Drop::drop is called. *)
GlueOfDiscriminantFirst(ty) ==
  IF ty.kind = "enum"
  THEN LoadDiscriminant(ty) \o DropSelf(ty)
       \o Seqs!FlattenSeq([v \in 1 .. Len(ty.variants) |-> VariantCase(ty, v)]) \o <<Return>>
  ELSE DropContent(ty) \o DropSelf(ty) \o DropAll(ty) \o <<Return>>

GlueOf(ty) == DropContent(ty) \o DropSelf(ty) \o DropAll(ty) \o <<Return>>

--------------------------------------------------------------------------------
(* DropGlue::for_array: a loop over the byte offsets of the elements.           *)

MetaSlot == 8
ISlot == 16
IncSlot == 24
MaxSlot == 32
TestSlot == 40
ElemSlot == 48

(* Mutant: an array's loop counts elements, not bytes. *)
LoopEndInElements(ty) ==
  IF ty.kind = "array" THEN SelectLiteral(ty.count, PtrSize, MaxSlot)
  ELSE SelectBinary("Mul", USize, MaxSlot, IncSlot, MetaSlot)

(* The end of the loop: a constant for arrays, from the metadata for slices.    *)
(* Elements without size are never reached: the loop ends where it starts.      *)
LoopEnd(ty) ==
  IF ty.kind = "array" THEN SelectLiteral(SizeOf(ty.elem) * ty.count, PtrSize, MaxSlot)
  ELSE SelectBinary("Mul", USize, MaxSlot, IncSlot, MetaSlot)

ArrayGlue(ty) ==
  <<SelectLiteral(0, PtrSize, ISlot), SelectLiteral(SizeOf(ty.elem), PtrSize, IncSlot), LoopEnd(ty),
    SelectBinary("Lt", USize, TestSlot, ISlot, MaxSlot), JumpIf("JumpF", 5, TestSlot),
    SelectBinary("Add", USize, ElemSlot, SelfSlot, ISlot), CallGlue(ElemSlot, ty.elem),
    SelectBinary("Add", USize, ISlot, ISlot, IncSlot), Jump(-5), Return>>

Glue(ty) == IF ty.kind \in {"array", "slice"} THEN ArrayGlue(ty) ELSE GlueOf(ty)

--------------------------------------------------------------------------------
(* Drop impls and the reference: what Rust does with the value of type ty at    *)
(* addr; count is the length of a slice.  A run is [m, log].                    *)

Pointee(m, addr) == Read(m, addr, PtrSize, "U")
ContentSize(m, ty, addr) ==
  IF IsSized(ty.to) THEN SizeOf(ty.to) ELSE SizeOf(ty.to.elem) * Pointee(m, addr + PtrSize)

Overwrite(m, addr, n) == Store(m, addr, [k \in 0 .. n - 1 |-> Radix - 1])

(* The Drop impl of ty: `becomes` is the variant that it stores into its value, *)
(* Box frees its content, others do nothing that shows.                         *)
RunDrop(m, ty, addr) ==
  IF ty.kind = "box" THEN Overwrite(m, Pointee(m, addr), ContentSize(m, ty, addr))
  ELSE IF "becomes" \in DOMAIN ty
       THEN Write(m, addr, Discriminant(ty, ty.becomes), SizeOf(ty.internal))
       ELSE m

RECURSIVE RustDrop(_, _, _, _), RustDropEach(_, _, _, _)

(* The values of these types at these addresses, one after the other.           *)
RustDropEach(run, tys, addrs, k) ==
  IF k = 0 THEN run
  ELSE RustDrop(RustDropEach(run, tys, addrs, k - 1), tys[k], addrs[k], 0)

RustDropFields(run, ty, addr, v) ==
  LET fields == VariantsOf(ty)[v]
  IN  RustDropEach(run, fields, [k \in 1 .. Len(fields) |-> addr + FieldOffset(ty, v, k)], Len(fields))

(* The variant a value has, by its discriminant. *)
VariantAt(m, ty, addr) ==
  CHOOSE v \in 1 .. Len(VariantsOf(ty)) :
    ty.kind = "enum" => Discriminant(ty, v) = Read(m, addr, SizeOf(ty.internal), ty.internal.sign)

DropImpl(run, ty, addr) ==
  IF HasDropFn(ty) THEN [m |-> RunDrop(run.m, ty, addr), log |-> Append(run.log, <<ty.drop, addr>>)]
  ELSE run

RustDrop(run, ty, addr, count) ==
  CASE ty.kind \in {"array", "slice"} ->
         LET n == IF ty.kind = "array" THEN ty.count ELSE count
         IN  RustDropEach(run, [k \in 1 .. n |-> ty.elem],
                          [k \in 1 .. n |-> addr + (k - 1) * SizeOf(ty.elem)], n)
    [] ty.kind = "box" ->
         DropImpl(RustDrop(run, ty.to, Pointee(run.m, addr),
                           IF IsSized(ty.to) THEN 0 ELSE Pointee(run.m, addr + PtrSize)),
                  ty, addr)
    [] ty.kind \in {"struct", "tuple", "enum"} ->
         LET after == DropImpl(run, ty, addr)
         IN  RustDropFields(after, ty, addr, VariantAt(after.m, ty, addr))
    [] OTHER -> run

--------------------------------------------------------------------------------
(* Execution: local_drop stores the value's address at slot 0 of a new thread.  *)

Init ==
  \E s \in Scenarios :
    /\ machine = Write([mem |-> s.mem, base |-> StackBase], StackBase, s.at, PtrSize)
    /\ frames = <<[code |-> Glue(s.ty), pc |-> 1, base |-> StackBase]>>
    /\ log = <<>>
    /\ expected = RustDrop([m |-> [mem |-> s.mem, base |-> StackBase], log |-> <<>>], s.ty, s.at, 0).log
    /\ steps = 0

Depth == Len(frames)
Current == frames[Depth].code[frames[Depth].pc]
Target == At(machine, Current.dst)

Execute ==
  /\ Current.op \notin {"Call", "Return"}
  /\ \E r \in {Exec(Current, machine)} :
       /\ r.status = "run"
       /\ machine' = r.m
       /\ frames' = [frames EXCEPT ![Depth].pc = @ + r.skip]
  /\ UNCHANGED log

CallNested ==
  /\ Current.op = "Call" /\ Current.n.glue
  /\ machine' = [machine EXCEPT !.base = Target]
  /\ frames' = Append([frames EXCEPT ![Depth].pc = @ + 1],
                      [code |-> Glue(Current.n.ty), pc |-> 1, base |-> Target])
  /\ UNCHANGED log

(* The Drop impl finds &mut self at its slot 0, and uses the slots behind it.   *)
CallDropFn ==
  /\ Current.op = "Call" /\ ~Current.n.glue
  /\ LET self == Pointee(machine, Target)
     IN  /\ machine' = Overwrite(RunDrop(machine, Current.n.ty, self), Target + PtrSize, Scratch)
         /\ log' = Append(log, <<Current.n.ty.drop, self>>)
  /\ frames' = [frames EXCEPT ![Depth].pc = @ + 1]

Leave ==
  /\ Current.op = "Return"
  /\ frames' = SubSeq(frames, 1, Depth - 1)
  /\ machine' = IF Depth > 1 THEN [machine EXCEPT !.base = frames[Depth - 1].base] ELSE machine
  /\ UNCHANGED log

Step ==
  /\ frames # <<>> /\ steps < MaxSteps
  /\ steps' = steps + 1
  /\ Execute \/ CallNested \/ CallDropFn \/ Leave
  /\ UNCHANGED expected

Spec == Init /\ [][Step]_vars

--------------------------------------------------------------------------------
(* Frames are aligned as calls need it, each above its caller's, and jumps stay *)
(* inside the code that for_array and new have patched.                         *)
TypeOK ==
  /\ \A k \in 1 .. Depth : frames[k].pc \in 1 .. Len(frames[k].code) /\ frames[k].base % 16 = 0
  /\ \A k \in 1 .. Depth - 1 : frames[k].base < frames[k + 1].base

(* At any moment the Drop impls that glue has run, with the values they were    *)
(* given, are the first of those that Rust runs: nothing is dropped twice, out  *)
(* of order, as the wrong variant or after its memory was freed.                *)
DropsInRustsOrder == Seqs!IsPrefix(log, expected)

(* Glue ends, whatever the type and the variants that the values have, long     *)
(* before MaxSteps, and then everything has been dropped that Rust drops.       *)
EverythingDropped == steps < MaxSteps /\ (frames = <<>> => log = expected)
================================================================================
