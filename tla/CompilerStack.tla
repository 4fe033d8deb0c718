----------------------------- MODULE CompilerStack -----------------------------
(* The slot allocator of the bytecode compiler, `CompilerStack` in              *)
(* bytecode_compiler.rs, as operators on a record                               *)
(*   [top, entries, leafs, first, dropped].                                     *)
(* `top`, `entries`, `leafs` and `first` are its fields `top`, `entries`,       *)
(* `drop_leafs` and `first_drop`; drop bits are 0-based, as in the code, so bit *)
(* b is leafs[b + 1].  Two parts are history: `dropped` holds the bits covered  *)
(* by a LocalDrop that pop_scope has already emitted, and `bits` of an entry    *)
(* the drop bits that were registered for it.                                   *)
(* u32 overflow of `top` is not modelled: a VM stack is 1 MiB.                  *)
EXTENDS Integers, Sequences

EmptyStack == [top |-> 0, entries |-> <<>>, leafs |-> <<>>,
               first |-> 0, dropped |-> {}]

(* abi::align for a power of two `a`. *)
Align(x, a) == IF x % a = 0 THEN x ELSE x + a - (x % a)

Bits(s) == 0 .. Len(s.leafs) - 1

Leaf(s, b) == s.leafs[b + 1]

(* Drop bits whose scope is still open. *)
Pending(s) == Bits(s) \ s.dropped

(* Mutant: the base is aligned, `top` is not. *)
PlaceUnalignedTop(s, size, align, bits) ==
  [s EXCEPT !.entries = Append(@, [base |-> Align(s.top, align), size |-> size, bits |-> bits]),
            !.top = @ + size]

(* Put a value on the stack. *)
Place(s, size, align, bits) ==
  LET base == Align(s.top, align)
  IN  [s EXCEPT !.entries = Append(@, [base |-> base, size |-> size, bits |-> bits]),
                !.top = base + size]

AllocNoDrop(s, size, align) == Place(s, size, align, {})

(* Mutant: a field's slot is its offset from `top` before it is aligned. *)
FieldSlotsUnaligned(s, align, fields) ==
  LET n == Len(fields)
  IN  [i \in 1 .. n |-> [slot |-> s.top + fields[n + 1 - i].off, size |-> fields[n + 1 - i].size]]

(* register_drop_leaf / register_drop_branch: the droppable fields of a value   *)
(* placed next, last field first, so that dropping bits downwards drops the     *)
(* fields in declaration order.  A leaf type has one field at offset 0.         *)
FieldSlots(s, align, fields) ==
  LET n == Len(fields)
  IN  [i \in 1 .. n |-> [slot |-> Align(s.top, align) + fields[n + 1 - i].off,
                         size |-> fields[n + 1 - i].size]]

Alloc(s, size, align, fields) ==
  [Place(s, size, align, Len(s.leafs) .. Len(s.leafs) + Len(fields) - 1)
     EXCEPT !.leafs = @ \o FieldSlots(s, align, fields)]

(* Mutant: the index of the last entry instead of the number of entries. *)
SavedLastIndex(s) == [entries |-> Len(s.entries) - 1, top |-> s.top, first |-> s.first]

(* What push_scope remembers in its StackScope. *)
Saved(s) == [entries |-> Len(s.entries), top |-> s.top, first |-> s.first]

(* Mutant: the drops of the scope start at the enclosing scope's first bit. *)
PushScopeKeepingFirst(s) == s

PushScope(s) == [s EXCEPT !.first = Len(s.leafs)]

(* The bits of the LocalDrop that pop_scope emits; none is emitted if empty. *)
ScopeBits(s) == s.first .. Len(s.leafs) - 1

(* Mutant: the bits of the closed scope are handed out again. *)
PopScopeTruncating(s, saved) ==
  [s EXCEPT !.entries = SubSeq(@, 1, saved.entries),
            !.top = saved.top,
            !.leafs = SubSeq(@, 1, s.first),
            !.first = saved.first,
            !.dropped = @ \cup ScopeBits(s)]

(* Mutant: the enclosing scope's first bit is not restored. *)
PopScopeKeepingFirst(s, saved) ==
  [s EXCEPT !.entries = SubSeq(@, 1, saved.entries),
            !.top = saved.top,
            !.dropped = @ \cup ScopeBits(s)]

PopScope(s, saved) ==
  [s EXCEPT !.entries = SubSeq(@, 1, saved.entries),
            !.top = saved.top,
            !.first = saved.first,
            !.dropped = @ \cup ScopeBits(s)]
================================================================================
