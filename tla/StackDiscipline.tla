---------------------------- MODULE StackDiscipline ----------------------------
(* The compiler's stack under any well-nested use: lowering may push a scope,   *)
(* allocate a local with or without drop flags, align for a call frame, and pop *)
(* the innermost scope (StackScope panics if a scope is not handed back).       *)
(* DropScopes uses the same stack in the order that real bodies do.             *)
EXTENDS CompilerStack

CONSTANTS
  Layouts,      \* [size, align, fields] of the types that are allocated
  MaxLeafs,     \* bound on drop bits,
  MaxEntries,   \* on allocations alive at once
  MaxScopes     \* and on nesting

(* A layout as Layout and DropInfo describe it: its droppable fields lie inside *)
(* it, in order and apart; fields is empty for a type without drop glue.        *)
IsLayout(t) ==
  /\ t.size \in Nat /\ t.align \in Nat \ {0}
  /\ t.fields \in Seq([off : Nat, size : Nat])
  /\ \A i \in 1 .. Len(t.fields) :
       /\ t.fields[i].off + t.fields[i].size <= t.size
       /\ \A j \in 1 .. i - 1 : t.fields[j].off + t.fields[j].size <= t.fields[i].off

ASSUME LayoutsAssumption == \A t \in Layouts : IsLayout(t)
ASSUME BoundsAssumption == MaxLeafs \in Nat /\ MaxEntries \in Nat /\ MaxScopes \in Nat

CALL_ALIGN == 16

VARIABLES stk, scopes   \* the CompilerStack, and the StackScopes not yet popped
vars == <<stk, scopes>>

Init == stk = EmptyStack /\ scopes = <<>>

Push == /\ Len(scopes) < MaxScopes
        /\ scopes' = Append(scopes, Saved(stk))
        /\ stk' = PushScope(stk)

AllocLocal(t) ==
  /\ Len(stk.entries) < MaxEntries /\ Len(stk.leafs) + Len(t.fields) <= MaxLeafs
  /\ stk' = Alloc(stk, t.size, t.align, t.fields)
  /\ UNCHANGED scopes

AllocScratch(t) ==
  /\ Len(stk.entries) < MaxEntries
  /\ stk' = AllocNoDrop(stk, t.size, t.align)
  /\ UNCHANGED scopes

AlignForCall ==
  /\ Len(stk.entries) < MaxEntries
  /\ stk' = [stk EXCEPT !.top = Align(@, CALL_ALIGN)]
  /\ UNCHANGED scopes

Pop == /\ scopes # <<>>
       /\ stk' = PopScope(stk, scopes[Len(scopes)])
       /\ scopes' = SubSeq(scopes, 1, Len(scopes) - 1)

Next == \/ Push \/ Pop \/ AlignForCall
        \/ \E t \in Layouts : AllocLocal(t) \/ AllocScratch(t)

Spec == Init /\ [][Next]_vars

--------------------------------------------------------------------------------
End(x) == x.base + x.size

Entries == [base : Nat, size : Nat, bits : SUBSET Nat]
Leafs   == [slot : Nat, size : Nat]
Stacks  == [top : Nat, entries : Seq(Entries), leafs : Seq(Leafs), first : Nat, dropped : SUBSET Nat]
Scopes  == [entries : Nat, top : Nat, first : Nat]

(* The types of the stack and of the scopes that are open. *)
TypeOK == /\ stk \in Stacks /\ stk.dropped \subseteq Bits(stk)
          /\ scopes \in Seq(Scopes)

(* Live allocations never overlap, and the next one goes above all of them:     *)
(* popping a scope frees its slots and no other (CompilerStack::pop_scope).     *)
LiveSlotsDisjoint ==
  \A i \in 1 .. Len(stk.entries) :
    /\ End(stk.entries[i]) <= stk.top
    /\ \A j \in 1 .. i - 1 : End(stk.entries[j]) <= stk.entries[i].base

(* The LocalDrops of pop_scope cover a drop bit exactly when its allocation is  *)
(* freed: not earlier, or a live local would be dropped with an inner scope,    *)
(* and not later, or the drops that Return performs would read a reused slot.   *)
PendingIffAllocated ==
  Pending(stk) = UNION {stk.entries[i].bits : i \in 1 .. Len(stk.entries)}

(* The drop bits of an allocation guard memory inside it, ... *)
LeafInside(b, e) == e.base <= Leaf(stk, b).slot /\ Leaf(stk, b).slot + Leaf(stk, b).size <= End(e)

(* ... and each allocation has its own. *)
LeafsInAllocation ==
  \A i \in 1 .. Len(stk.entries) : \A b \in stk.entries[i].bits :
    /\ b \in Bits(stk) /\ LeafInside(b, stk.entries[i])
    /\ \A j \in 1 .. i - 1 : b \notin stk.entries[j].bits

--------------------------------------------------------------------------------
(* What makes them inductive: each open scope remembers a stack that is a       *)
(* prefix of the present one and whose drop bits end where the scope's begin.   *)

(* The first bit of the LocalDrop of open scope k. *)
FirstBit(k) == IF k = Len(scopes) THEN stk.first ELSE scopes[k + 1].first

ScopeIsPrefix(k) ==
  /\ scopes[k].entries <= Len(stk.entries)
  /\ \A j \in 1 .. k - 1 : scopes[j].entries <= scopes[k].entries
  /\ \A i \in 1 .. scopes[k].entries : End(stk.entries[i]) <= scopes[k].top

ScopeSplitsBits(k) ==
  /\ FirstBit(k) <= Len(stk.leafs)
  /\ \A i \in 1 .. Len(stk.entries) : \A b \in stk.entries[i].bits :
       b < FirstBit(k) <=> i <= scopes[k].entries

(* The inductive invariant of StackDisciplineProofs. *)
ScopesNested == \A k \in 1 .. Len(scopes) : ScopeIsPrefix(k) /\ ScopeSplitsBits(k)
================================================================================
