----------------------------- MODULE BytecodeProofs -----------------------------
(* The bytecode, for all constants.  First the compiler's side: StackDiscipline's *)
(* invariants, for all layouts and bounds.  Then the machine's side: what every   *)
(* instruction does to memory, the interpreter's invariant, and that the machine  *)
(* code of the JIT does what the interpreter does.                                *)
EXTENDS StackDiscipline, Interpreter, SequenceTheorems, WellFoundedInduction, TLAPS

IInv == TypeOK /\ LiveSlotsDisjoint /\ PendingIffAllocated /\ LeafsInAllocation /\ ScopesNested

--------------------------------------------------------------------------------
(* Aligning only moves up. *)
LEMMA AlignUp ==
  ASSUME NEW x \in Nat, NEW a \in Nat \ {0}
  PROVE  Align(x, a) \in Nat /\ x <= Align(x, a)
<1>1. x % a \in 0 .. a - 1
  OBVIOUS
<1> QED
  BY <1>1 DEF Align

(* The empty stack of CompilerStack::new satisfies the invariant. *)
LEMMA InitStep == Init => IInv
<1> SUFFICES ASSUME Init PROVE IInv
  OBVIOUS
<1> USE DEF Init, EmptyStack
<1>1. TypeOK
  BY DEF TypeOK, Stacks, Entries, Leafs, Scopes, Bits
<1>2. LiveSlotsDisjoint /\ PendingIffAllocated /\ LeafsInAllocation /\ ScopesNested
  BY DEF LiveSlotsDisjoint, PendingIffAllocated, LeafsInAllocation, ScopesNested, Pending, Bits
<1> QED
  BY <1>1, <1>2 DEF IInv

(* push_scope: the new scope remembers the whole stack. *)
LEMMA PushStep == IInv /\ Push => IInv'
<1> SUFFICES ASSUME IInv, Push PROVE IInv'
  OBVIOUS
<1>0. TypeOK
  BY DEF IInv
<1>1. /\ stk' = [stk EXCEPT !.first = Len(stk.leafs)] /\ stk' \in Stacks
      /\ stk'.entries = stk.entries /\ stk'.leafs = stk.leafs /\ stk'.top = stk.top
      /\ stk'.dropped = stk.dropped /\ stk'.first = Len(stk.leafs)
  <2>1. stk' = [stk EXCEPT !.first = Len(stk.leafs)]
    BY DEF Push, PushScope
  <2>2. Len(stk.leafs) \in Nat
    BY <1>0 DEF TypeOK, Stacks
  <2> QED
    BY <1>0, <2>1, <2>2 DEF TypeOK, Stacks
<1>2. /\ scopes' \in Seq(Scopes) /\ Len(scopes') = Len(scopes) + 1
      /\ \A k \in 1 .. Len(scopes) : scopes'[k] = scopes[k]
      /\ scopes'[Len(scopes) + 1] = Saved(stk)
  BY <1>0 DEF Push, TypeOK, Stacks, Scopes, Saved
<1>3. TypeOK'
  BY <1>0, <1>1, <1>2 DEF TypeOK, Bits
<1>4. LiveSlotsDisjoint'
  BY <1>1 DEF IInv, LiveSlotsDisjoint, End
<1>5. PendingIffAllocated'
  BY <1>1 DEF IInv, PendingIffAllocated, Pending, Bits
<1>6. LeafsInAllocation'
  BY <1>1 DEF IInv, LeafsInAllocation, LeafInside, Leaf, Bits, End
<1>7. ScopesNested'
  <2> SUFFICES ASSUME NEW k \in 1 .. Len(scopes')
               PROVE  ScopeIsPrefix(k)' /\ ScopeSplitsBits(k)'
    BY DEF ScopesNested
  <2>1. CASE k \in 1 .. Len(scopes)
    <3>1. FirstBit(k)' = FirstBit(k)
      BY <1>0, <1>1, <1>2, <2>1 DEF FirstBit, Saved, TypeOK
    <3>2. ScopeIsPrefix(k)'
      BY SMTT(30), <1>0, <1>1, <1>2, <2>1 DEF IInv, ScopesNested, ScopeIsPrefix, End, TypeOK
    <3> QED
      BY <3>1, <3>2, <1>1, <1>2, <2>1 DEF IInv, ScopesNested, ScopeSplitsBits
  <2>2. CASE k = Len(scopes) + 1
    <3>1. FirstBit(k)' = Len(stk.leafs)
      BY <1>1, <1>2, <2>2 DEF FirstBit
    <3>2. ScopeIsPrefix(k)'
      <4>1. scopes'[k] = [entries |-> Len(stk.entries), top |-> stk.top, first |-> stk.first]
        BY <1>2, <2>2 DEF Saved
      <4>2. \A j \in 1 .. k - 1 : scopes'[j].entries <= Len(stk.entries)
        BY <1>0, <1>2, <2>2 DEF IInv, ScopesNested, ScopeIsPrefix, TypeOK
      <4>3. \A i \in 1 .. Len(stk.entries) : End(stk.entries[i]) <= stk.top
        BY DEF IInv, LiveSlotsDisjoint
      <4> QED
        BY <1>0, <1>1, <4>1, <4>2, <4>3 DEF ScopeIsPrefix, End, TypeOK, Stacks
    <3>3. ScopeSplitsBits(k)'
      BY SMTT(30), <3>1, <1>0, <1>1, <1>2, <2>2
      DEF IInv, ScopeSplitsBits, LeafsInAllocation, Saved, Bits, TypeOK, Stacks
    <3> QED
      BY <3>2, <3>3
  <2> QED
    BY <1>0, <1>2, <2>1, <2>2 DEF TypeOK
<1> QED
  BY <1>3, <1>4, <1>5, <1>6, <1>7 DEF IInv

(* alloc_no_drop and alloc put a value of `size` with c drop bits at `base`,    *)
(* after m entries and n bits: above all the stack held, the bits inside it.    *)
Grows(base, size, c, m, n) ==
  /\ stk' \in Stacks /\ scopes' = scopes
  /\ stk.top <= base /\ stk'.top = base + size
  /\ stk'.first = stk.first /\ stk'.dropped = stk.dropped
  /\ Len(stk.leafs) = n /\ Len(stk'.leafs) = n + c
  /\ \A b \in 0 .. n - 1 : Leaf(stk, b)' = Leaf(stk, b)
  /\ \A b \in n .. n + c - 1 : base <= Leaf(stk, b)'.slot
                              /\ Leaf(stk, b)'.slot + Leaf(stk, b)'.size <= base + size
  /\ Len(stk.entries) = m /\ Len(stk'.entries) = m + 1
  /\ \A i \in 1 .. m : stk'.entries[i] = stk.entries[i]
  /\ stk'.entries[m + 1] = [base |-> base, size |-> size, bits |-> n .. n + c - 1]

(* Any step that adds one entry, its fresh drop bits and leaves for slots above
   all the live ones keeps the invariant. *)
LEMMA GrowStep ==
  ASSUME IInv, NEW base \in Nat, NEW size \in Nat, NEW c \in Nat, NEW m \in Nat, NEW n \in Nat,
         Grows(base, size, c, m, n)
  PROVE  IInv'
<1>0. TypeOK
  BY DEF IInv
<1>1. /\ Len(stk.entries) = m /\ Len(stk'.entries) = m + 1
      /\ \A i \in 1 .. m : stk'.entries[i] = stk.entries[i]
  BY DEF Grows
<1>2. /\ stk'.entries[m + 1].base = base /\ stk'.entries[m + 1].bits = n .. n + c - 1
      /\ End(stk'.entries[m + 1]) = base + size
  BY DEF Grows, End
<1>3. /\ Bits(stk) = 0 .. n - 1 /\ Bits(stk)' = Bits(stk) \cup (n .. n + c - 1)
  BY DEF Grows, Bits
<1>4. \A i \in 1 .. m : End(stk'.entries[i]) = End(stk.entries[i])
  BY <1>1 DEF End
<1>5. TypeOK'
  BY <1>0, <1>3 DEF TypeOK, Grows
<1>6. LiveSlotsDisjoint'
  <2>1. stk.top \in Nat /\ stk.top <= base /\ stk'.top = base + size
    BY <1>0 DEF TypeOK, Stacks, Grows
  <2>2. ASSUME NEW i \in 1 .. m
        PROVE  End(stk.entries[i]) <= base /\ End(stk.entries[i]) <= base + size
    <3>1. stk.entries[i] \in Entries
      BY <1>0, <1>1 DEF TypeOK, Stacks
    <3>2. End(stk.entries[i]) \in Nat
      BY <3>1 DEF Entries, End
    <3>3. End(stk.entries[i]) <= stk.top
      BY <1>1 DEF IInv, LiveSlotsDisjoint
    <3> QED
      BY <2>1, <3>2, <3>3
  <2>3. ASSUME NEW i \in 1 .. m + 1
        PROVE  /\ End(stk'.entries[i]) <= stk'.top
               /\ \A j \in 1 .. i - 1 : End(stk'.entries[j]) <= stk'.entries[i].base
    <3>1. CASE i = m + 1
      BY <3>1, <2>1, <2>2, <1>2, <1>4
    <3>2. CASE i \in 1 .. m
      <4>1. \A j \in 1 .. i - 1 : End(stk.entries[j]) <= stk.entries[i].base
        BY <3>2, <1>1 DEF IInv, LiveSlotsDisjoint
      <4> QED
        BY SMTT(30), <4>1, <3>2, <2>1, <2>2, <1>1, <1>4
    <3> QED
      BY <3>1, <3>2
  <2> QED
    BY <2>3, <1>1 DEF LiveSlotsDisjoint, End
<1>7. PendingIffAllocated'
  <2>1. UNION {stk'.entries[i].bits : i \in 1 .. m + 1}
          = (UNION {stk.entries[i].bits : i \in 1 .. m}) \cup (n .. n + c - 1)
    <3>1. ASSUME NEW b
          PROVE  (\E i \in 1 .. m + 1 : b \in stk'.entries[i].bits)
                   <=> (\E i \in 1 .. m : b \in stk.entries[i].bits) \/ b \in n .. n + c - 1
      <4>1. 1 .. m + 1 = (1 .. m) \cup {m + 1}
        OBVIOUS
      <4> QED
        BY <4>1, <1>1, <1>2
    <3> QED
      BY <3>1
  <2>2. Pending(stk)' = Pending(stk) \cup (n .. n + c - 1)
    BY <1>0, <1>3 DEF Pending, TypeOK, Grows
  <2> QED
    BY <2>1, <2>2, <1>1 DEF IInv, PendingIffAllocated
<1>8. LeafsInAllocation'
  <2>1. \A j \in 1 .. m : stk'.entries[j].bits \subseteq 0 .. n - 1
    BY <1>1, <1>3 DEF IInv, LeafsInAllocation
  <2> SUFFICES ASSUME NEW i \in 1 .. m + 1, NEW b \in stk'.entries[i].bits
               PROVE  /\ b \in Bits(stk)' /\ LeafInside(b, stk.entries[i])'
                      /\ \A j \in 1 .. i - 1 : b \notin stk'.entries[j].bits
    BY <1>1 DEF LeafsInAllocation
  <2>2. CASE i \in 1 .. m
    <3>1. b \in Bits(stk) /\ LeafInside(b, stk.entries[i])
          /\ \A j \in 1 .. i - 1 : b \notin stk.entries[j].bits
      BY <2>2, <1>1 DEF IInv, LeafsInAllocation
    <3>2. Leaf(stk, b)' = Leaf(stk, b)
      BY <3>1, <1>3 DEF Grows
    <3>3. LeafInside(b, stk.entries[i])'
      BY <3>1, <3>2, <2>2, <1>1 DEF LeafInside, End
    <3>4. \A j \in 1 .. i - 1 : stk'.entries[j] = stk.entries[j]
      BY <2>2, <1>1
    <3> QED
      BY <3>1, <3>3, <3>4, <1>3
  <2>3. CASE i = m + 1
    <3>1. b \in n .. n + c - 1
      BY <2>3, <1>2
    <3>2. LeafInside(b, stk.entries[i])'
      BY <3>1, <2>3, <1>2 DEF LeafInside, Grows
    <3> QED
      BY <3>1, <3>2, <2>1, <2>3, <1>3
  <2> QED
    BY <2>2, <2>3
<1>9. ScopesNested'
  <2> SUFFICES ASSUME NEW k \in 1 .. Len(scopes)
               PROVE  ScopeIsPrefix(k)' /\ ScopeSplitsBits(k)'
    BY DEF ScopesNested, Grows
  <2>1. ScopeIsPrefix(k) /\ ScopeSplitsBits(k) /\ FirstBit(k)' = FirstBit(k) /\ scopes' = scopes
    BY DEF IInv, ScopesNested, FirstBit, Grows
  <2>2. scopes[k].entries \in Nat /\ FirstBit(k) \in Nat
    <3>1. \A j \in 1 .. Len(scopes) : scopes[j] \in Scopes
      BY <1>0 DEF TypeOK
    <3>2. k = Len(scopes) \/ k + 1 \in 1 .. Len(scopes)
      BY <1>0 DEF TypeOK
    <3> QED
      BY <3>1, <3>2, <1>0 DEF TypeOK, Stacks, Scopes, FirstBit
  <2>3. /\ scopes[k].entries <= m /\ \A i \in 1 .. scopes[k].entries : End(stk.entries[i]) <= scopes[k].top
        /\ \A j \in 1 .. k - 1 : scopes[j].entries <= scopes[k].entries
    BY <2>1, <1>1 DEF ScopeIsPrefix
  <2>4. ScopeIsPrefix(k)'
    <3>1. scopes[k].entries <= m + 1
      BY <2>2, <2>3
    <3>2. \A i \in 1 .. scopes[k].entries : End(stk'.entries[i]) <= scopes[k].top
      BY <2>2, <2>3, <1>4
    <3> QED
      BY <3>1, <3>2, <2>1, <2>3, <1>1 DEF ScopeIsPrefix, End
  <2>5. FirstBit(k) <= n /\ FirstBit(k) <= n + c
    BY <2>1, <2>2 DEF ScopeSplitsBits, Grows
  <2>6. ASSUME NEW i \in 1 .. m + 1, NEW b \in stk'.entries[i].bits
        PROVE  b < FirstBit(k) <=> i <= scopes[k].entries
    <3>1. CASE i \in 1 .. m
      BY <3>1, <2>1, <1>1 DEF ScopeSplitsBits
    <3>2. CASE i = m + 1
      <4>1. b \in n .. n + c - 1
        BY <3>2, <1>2
      <4> QED
        BY SMTT(30), <4>1, <3>2, <2>2, <2>3, <2>5
    <3> QED
      BY <3>1, <3>2
  <2>7. ScopeSplitsBits(k)'
    BY <2>1, <2>5, <2>6, <1>1 DEF ScopeSplitsBits, Grows
  <2> QED
    BY <2>4, <2>7
<1> QED
  BY <1>5, <1>6, <1>7, <1>8, <1>9 DEF IInv

(* align_for_call: only `top` moves, and up. *)
LEMMA AlignForCallStep == IInv /\ AlignForCall => IInv'
<1> SUFFICES ASSUME IInv, AlignForCall PROVE IInv'
  OBVIOUS
<1>0. TypeOK
  BY DEF IInv
<1>1. PICK top \in Nat : top = Align(stk.top, CALL_ALIGN) /\ stk.top <= top
  <2>1. stk.top \in Nat /\ CALL_ALIGN \in Nat \ {0}
    BY <1>0 DEF TypeOK, Stacks, CALL_ALIGN
  <2> QED
    BY <2>1, AlignUp
<1>2. /\ stk' \in Stacks /\ stk'.top = top /\ scopes' = scopes
      /\ stk'.entries = stk.entries /\ stk'.leafs = stk.leafs
      /\ stk'.first = stk.first /\ stk'.dropped = stk.dropped
  <2>1. stk' = [stk EXCEPT !.top = top]
    BY <1>1 DEF AlignForCall
  <2> QED
    BY <1>0, <2>1 DEF AlignForCall, TypeOK, Stacks
<1>3. TypeOK'
  BY <1>0, <1>2 DEF TypeOK, Bits
<1>4. LiveSlotsDisjoint'
  <2>1. ASSUME NEW i \in 1 .. Len(stk.entries) PROVE End(stk.entries[i]) <= top
    <3>1. stk.entries[i] \in Entries
      BY <1>0 DEF TypeOK, Stacks
    <3>2. End(stk.entries[i]) \in Nat /\ stk.top \in Nat
      BY <1>0, <3>1 DEF Entries, End, TypeOK, Stacks
    <3>3. End(stk.entries[i]) <= stk.top
      BY DEF IInv, LiveSlotsDisjoint
    <3> QED
      BY <1>1, <3>2, <3>3
  <2> QED
    BY <1>2, <2>1 DEF IInv, LiveSlotsDisjoint, End
<1>5. PendingIffAllocated' /\ LeafsInAllocation'
  BY <1>2 DEF IInv, PendingIffAllocated, Pending, LeafsInAllocation, LeafInside, Leaf, Bits, End
<1>6. ScopesNested'
  BY <1>2 DEF IInv, ScopesNested, ScopeIsPrefix, ScopeSplitsBits, FirstBit, End
<1> QED
  BY <1>3, <1>4, <1>5, <1>6 DEF IInv

(* pop_scope: the innermost scope's prefix of the stack is all that is left, and *)
(* all bits from the scope's first on are dropped.                               *)
LEMMA PopStep == IInv /\ Pop => IInv'
<1> SUFFICES ASSUME IInv, Pop PROVE IInv'
  OBVIOUS
<1>0. TypeOK
  BY DEF IInv
<1>1. PICK p \in Nat : p = Len(scopes) /\ p # 0 /\ scopes[p] \in Scopes
  BY <1>0 DEF TypeOK, Pop
<1>2. PICK q \in Nat : q = scopes[p].entries /\ q <= Len(stk.entries)
  BY <1>0, <1>1 DEF Scopes, IInv, ScopesNested, ScopeIsPrefix
<1>2a. \A i \in 1 .. q : i \in 1 .. Len(stk.entries)
  <2>1. Len(stk.entries) \in Nat
    BY <1>0 DEF TypeOK, Stacks
  <2> QED
    BY <1>2, <2>1
<1>3. PICK f \in Nat : f = stk.first /\ f = FirstBit(p) /\ f <= Len(stk.leafs)
  BY <1>0, <1>1 DEF TypeOK, Stacks, FirstBit, IInv, ScopesNested, ScopeSplitsBits
<1>4. PICK n \in Nat : n = Len(stk.leafs) /\ Bits(stk) = 0 .. n - 1
  BY <1>0 DEF TypeOK, Stacks, Bits
<1>5. /\ stk' \in Stacks /\ stk'.leafs = stk.leafs
      /\ stk'.entries = SubSeq(stk.entries, 1, q)
      /\ stk'.top = scopes[p].top /\ stk'.first = scopes[p].first
      /\ stk'.dropped = stk.dropped \cup (f .. n - 1)
  <2>1. stk' = [stk EXCEPT !.entries = SubSeq(@, 1, q), !.top = scopes[p].top,
                           !.first = scopes[p].first, !.dropped = @ \cup (f .. n - 1)]
    BY <1>1, <1>2, <1>3, <1>4 DEF Pop, PopScope, ScopeBits
  <2>2. SubSeq(stk.entries, 1, q) \in Seq(Entries)
    BY <1>0, <1>2 DEF TypeOK, Stacks
  <2>3. stk.dropped \cup (f .. n - 1) \in SUBSET Nat
    BY <1>0 DEF TypeOK, Stacks
  <2> QED
    BY <1>0, <1>1, <2>1, <2>2, <2>3 DEF TypeOK, Stacks, Scopes
<1>6. Len(stk'.entries) = q /\ \A i \in 1 .. q : stk'.entries[i] = stk.entries[i]
  BY SMTT(30), <1>0, <1>2, <1>5 DEF TypeOK, Stacks
<1>7. /\ scopes' \in Seq(Scopes) /\ Len(scopes') = p - 1
      /\ \A k \in 1 .. p - 1 : scopes'[k] = scopes[k]
  BY <1>0, <1>1 DEF TypeOK, Pop
<1>8. \A i \in 1 .. Len(stk.entries) : \A b \in stk.entries[i].bits : b < f <=> i <= q
  BY <1>1, <1>2, <1>3 DEF IInv, ScopesNested, ScopeSplitsBits
<1>9. TypeOK'
  BY <1>0, <1>3, <1>4, <1>5, <1>7 DEF TypeOK, Bits
<1>10. LiveSlotsDisjoint'
  <2>1. \A i \in 1 .. q : End(stk.entries[i]) <= scopes[p].top
    BY <1>1, <1>2 DEF IInv, ScopesNested, ScopeIsPrefix
  <2>2. \A i \in 1 .. q : \A j \in 1 .. i - 1 : End(stk.entries[j]) <= stk.entries[i].base
    BY <1>2a DEF IInv, LiveSlotsDisjoint
  <2> QED
    BY <1>5, <1>6, <2>1, <2>2 DEF LiveSlotsDisjoint, End
<1>11. PendingIffAllocated'
  <2>1. ASSUME NEW b PROVE b \in Pending(stk)' <=> b \in Pending(stk) /\ b \notin f .. n - 1
    BY <1>4, <1>5 DEF Pending, Bits
  <2>2. ASSUME NEW b \in Pending(stk)
        PROVE  b \notin f .. n - 1 <=> \E i \in 1 .. q : b \in stk.entries[i].bits
    <3>1. PICK i \in 1 .. Len(stk.entries) : b \in stk.entries[i].bits
      BY DEF IInv, PendingIffAllocated
    <3>2. b \in 0 .. n - 1
      BY <1>4 DEF Pending
    <3>3. b < f <=> b \notin f .. n - 1
      BY <1>3, <3>2
    <3>4. b < f => i \in 1 .. q
      BY <1>0, <1>2, <1>8, <3>1 DEF TypeOK, Stacks
    <3>5. ASSUME NEW j \in 1 .. q, b \in stk.entries[j].bits PROVE b < f
      BY <1>2a, <1>8, <3>5
    <3> QED
      BY <3>1, <3>3, <3>4, <3>5
  <2>3. \A i \in 1 .. q : stk.entries[i].bits \subseteq Pending(stk)
    BY <1>2a DEF IInv, PendingIffAllocated
  <2>4. ASSUME NEW b PROVE b \in Pending(stk)' <=> \E i \in 1 .. q : b \in stk'.entries[i].bits
    BY <1>6, <2>1, <2>2, <2>3
  <2> QED
    BY <1>6, <2>4 DEF PendingIffAllocated
<1>12. LeafsInAllocation'
  <2> SUFFICES ASSUME NEW i \in 1 .. q, NEW b \in stk.entries[i].bits
               PROVE  /\ b \in Bits(stk)' /\ LeafInside(b, stk.entries[i])'
                      /\ \A j \in 1 .. i - 1 : b \notin stk'.entries[j].bits
    BY <1>6 DEF LeafsInAllocation
  <2>1. /\ b \in Bits(stk) /\ LeafInside(b, stk.entries[i])
        /\ \A j \in 1 .. i - 1 : b \notin stk.entries[j].bits
    BY SMTT(30), <1>0, <1>2 DEF IInv, LeafsInAllocation, TypeOK, Stacks
  <2>2. LeafInside(b, stk.entries[i])'
    BY <1>5, <1>6, <2>1 DEF LeafInside, Leaf, End
  <2> QED
    BY <1>5, <1>6, <2>1, <2>2 DEF Bits
<1>13. ScopesNested'
  <2> SUFFICES ASSUME NEW k \in 1 .. p - 1
               PROVE  ScopeIsPrefix(k)' /\ ScopeSplitsBits(k)'
    BY <1>7 DEF ScopesNested
  <2>1. ScopeIsPrefix(k) /\ ScopeSplitsBits(k) /\ scopes[k].entries <= q /\ scopes'[k] = scopes[k]
    BY <1>1, <1>2, <1>7 DEF IInv, ScopesNested, ScopeIsPrefix
  <2>2. FirstBit(k)' = FirstBit(k)
    BY SMTT(30), <1>1, <1>5, <1>7 DEF FirstBit
  <2>3. scopes[k].entries \in Nat
    <3>1. scopes[k] \in Scopes
      BY <1>0, <1>1 DEF TypeOK
    <3> QED
      BY <3>1 DEF Scopes
  <2>4. ScopeIsPrefix(k)'
    <3>1. \A j \in 1 .. k - 1 : scopes'[j] = scopes[j]
      BY <1>1, <1>7
    <3>2. \A i \in 1 .. scopes[k].entries : End(stk'.entries[i]) = End(stk.entries[i])
      BY SMTT(30), <1>2, <1>6, <2>1, <2>3 DEF End
    <3> QED
      BY <1>6, <2>1, <3>1, <3>2 DEF ScopeIsPrefix, End
  <2>5. ScopeSplitsBits(k)'
    BY <1>2a, <1>5, <1>6, <2>1, <2>2 DEF ScopeSplitsBits
  <2> QED
    BY <2>4, <2>5
<1> QED
  BY <1>9, <1>10, <1>11, <1>12, <1>13 DEF IInv

(* Writing three fields of a stack. *)
With(s, es, top, ls) == [s EXCEPT !.entries = es, !.top = top, !.leafs = ls]

(* A stack with entries, top and leaves replaced by values of their types is a
   stack, and only those three fields change. *)
LEMMA StackUpdate ==
  ASSUME NEW s \in Stacks, NEW es \in Seq(Entries), NEW top \in Nat, NEW ls \in Seq(Leafs)
  PROVE  /\ With(s, es, top, ls) \in Stacks
         /\ With(s, es, top, ls).entries = es /\ With(s, es, top, ls).top = top
         /\ With(s, es, top, ls).leafs = ls
         /\ With(s, es, top, ls).first = s.first /\ With(s, es, top, ls).dropped = s.dropped
BY DEF With, Stacks

(* Appending an entry to the stack's. *)
LEMMA EntryAppended ==
  ASSUME NEW es \in Seq(Entries), NEW e \in Entries
  PROVE  /\ Append(es, e) \in Seq(Entries)
         /\ Len(Append(es, e)) = Len(es) + 1 /\ Append(es, e)[Len(es) + 1] = e
         /\ \A i \in 1 .. Len(es) : Append(es, e)[i] = es[i]
OBVIOUS

(* CompilerStack::alloc_no_drop keeps the invariant. *)
LEMMA AllocScratchStep == ASSUME IInv, NEW t \in Layouts, AllocScratch(t) PROVE IInv'
<1>0. TypeOK /\ t.size \in Nat /\ t.align \in Nat \ {0}
  BY LayoutsAssumption DEF IInv, IsLayout
<1>1. PICK base \in Nat : base = Align(stk.top, t.align) /\ stk.top <= base
  BY <1>0, AlignUp DEF TypeOK, Stacks
<1>2. PICK m \in Nat, n \in Nat : m = Len(stk.entries) /\ n = Len(stk.leafs)
  BY <1>0 DEF TypeOK, Stacks
<1>3. PICK e \in Entries : e = [base |-> base, size |-> t.size, bits |-> {}]
  BY <1>0 DEF Entries
<1>4. PICK es \in Seq(Entries) : es = Append(stk.entries, e)
  BY <1>0, EntryAppended DEF TypeOK, Stacks
<1>5. PICK top \in Nat : top = base + t.size
  BY <1>0
<1>6. /\ stk' \in Stacks /\ stk'.entries = es /\ stk'.top = top /\ stk'.leafs = stk.leafs
      /\ stk'.first = stk.first /\ stk'.dropped = stk.dropped /\ scopes' = scopes
  <2>1. stk \in Stacks /\ stk.leafs \in Seq(Leafs)
    BY <1>0 DEF TypeOK, Stacks
  <2>2. stk' = [stk EXCEPT !.entries = es, !.top = top] /\ scopes' = scopes
    BY <1>1, <1>3, <1>4, <1>5 DEF AllocScratch, AllocNoDrop, Place
  <2>3. stk' = With(stk, es, top, stk.leafs)
    BY <2>1, <2>2 DEF With, Stacks
  <2> QED
    <3>1. /\ With(stk, es, top, stk.leafs) \in Stacks
          /\ With(stk, es, top, stk.leafs).entries = es /\ With(stk, es, top, stk.leafs).top = top
          /\ With(stk, es, top, stk.leafs).leafs = stk.leafs
          /\ With(stk, es, top, stk.leafs).first = stk.first
          /\ With(stk, es, top, stk.leafs).dropped = stk.dropped
      BY <2>1, StackUpdate
    <3> QED
      BY <2>2, <2>3, <3>1
<1>7. Grows(base, t.size, 0, m, n)
  <2>1. Len(es) = m + 1 /\ es[m + 1] = e /\ \A i \in 1 .. m : es[i] = stk.entries[i]
    BY <1>0, <1>2, <1>4, EntryAppended DEF TypeOK, Stacks
  <2>2. n .. n + 0 - 1 = {} /\ n + 0 = n
    OBVIOUS
  <2> QED
    BY <1>1, <1>2, <1>3, <1>5, <1>6, <2>1, <2>2 DEF Grows, Leaf
<1> QED
  BY <1>0, <1>7, GrowStep

(* CompilerStack::alloc, which also registers the drop leaves, keeps the invariant. *)
LEMMA AllocLocalStep == ASSUME IInv, NEW t \in Layouts, AllocLocal(t) PROVE IInv'
<1>0. TypeOK /\ IsLayout(t)
  BY LayoutsAssumption DEF IInv
<1>1. PICK base \in Nat : base = Align(stk.top, t.align) /\ stk.top <= base
  BY <1>0, AlignUp DEF TypeOK, Stacks, IsLayout
<1>2. PICK m \in Nat, n \in Nat, c \in Nat :
        m = Len(stk.entries) /\ n = Len(stk.leafs) /\ c = Len(t.fields)
  <2>1. Len(stk.entries) \in Nat /\ Len(stk.leafs) \in Nat
    BY <1>0 DEF TypeOK, Stacks
  <2>2. Len(t.fields) \in Nat
    BY <1>0 DEF IsLayout
  <2> QED
    BY <2>1, <2>2
<1>3. PICK size \in Nat : size = t.size
  BY <1>0 DEF IsLayout
<1>4. PICK new : new = FieldSlots(stk, t.align, t.fields)
  OBVIOUS
<1>5. /\ new \in Seq(Leafs) /\ Len(new) = c
      /\ \A i \in 1 .. c : base <= new[i].slot /\ new[i].slot + new[i].size <= base + size
  <2>1. new = [i \in 1 .. c |-> [slot |-> base + t.fields[c + 1 - i].off,
                                 size |-> t.fields[c + 1 - i].size]]
    BY <1>1, <1>2, <1>4 DEF FieldSlots
  <2>2. ASSUME NEW i \in 1 .. c
        PROVE  /\ t.fields[c + 1 - i].off \in Nat /\ t.fields[c + 1 - i].size \in Nat
               /\ t.fields[c + 1 - i].off + t.fields[c + 1 - i].size <= size
    <3>1. c + 1 - i \in 1 .. Len(t.fields)
      BY <1>2
    <3>2. t.fields[c + 1 - i] \in [off : Nat, size : Nat]
      <4>1. t.fields \in Seq([off : Nat, size : Nat])
        BY <1>0 DEF IsLayout
      <4> QED
        BY <3>1, <4>1, ElementOfSeq, Zenon
    <3> QED
      <4>1. t.fields[c + 1 - i].off + t.fields[c + 1 - i].size <= size
        BY <1>0, <1>3, <3>1 DEF IsLayout
      <4> QED
        BY <3>2, <4>1
  <2>3. ASSUME NEW i \in 1 .. c
        PROVE  new[i] \in Leafs /\ base <= new[i].slot /\ new[i].slot + new[i].size <= base + size
    <3>1. new[i] = [slot |-> base + t.fields[c + 1 - i].off, size |-> t.fields[c + 1 - i].size]
      BY <2>1
    <3>2. PICK off \in Nat, sz \in Nat :
            off = t.fields[c + 1 - i].off /\ sz = t.fields[c + 1 - i].size /\ off + sz <= size
      BY <2>2
    <3> QED
      BY <3>1, <3>2 DEF Leafs
  <2>5. new \in Seq(Leafs) /\ Len(new) = c
    <3>1. new \in [1 .. c -> Leafs]
      BY <2>1, <2>3
    <3>2. new \in Seq(Leafs)
      BY <3>1, SeqDef
    <3> QED
      BY <3>1, <3>2, LenProperties
  <2> QED
    BY <2>3, <2>5
<1>6. PICK e \in Entries : e = [base |-> base, size |-> size, bits |-> n .. n + c - 1]
  <2>1. n .. n + c - 1 \in SUBSET Nat
    OBVIOUS
  <2> QED
    BY <2>1 DEF Entries
<1>7. /\ stk.leafs \o new \in Seq(Leafs) /\ Len(stk.leafs \o new) = n + c
      /\ \A i \in 1 .. n + c : (stk.leafs \o new)[i] = IF i <= n THEN stk.leafs[i] ELSE new[i - n]
  <2>1. stk.leafs \in Seq(Leafs)
    BY <1>0 DEF TypeOK, Stacks
  <2> QED
    <3>1. /\ stk.leafs \o new \in Seq(Leafs) /\ Len(stk.leafs \o new) = Len(stk.leafs) + Len(new)
          /\ \A i \in 1 .. Len(stk.leafs) + Len(new) : (stk.leafs \o new)[i] =
                IF i <= Len(stk.leafs) THEN stk.leafs[i] ELSE new[i - Len(stk.leafs)]
      BY <1>5, <2>1, ConcatProperties, Zenon
    <3> QED
      BY <3>1, <1>2, <1>5, Zenon
<1>8. PICK es \in Seq(Entries) : es = Append(stk.entries, e)
  BY <1>0, EntryAppended DEF TypeOK, Stacks
<1>9. PICK leafs \in Seq(Leafs) : leafs = stk.leafs \o new
  BY <1>7
<1>10. PICK top \in Nat : top = base + size
  OBVIOUS
<1>11. /\ stk' \in Stacks /\ stk'.entries = es /\ stk'.top = top /\ stk'.leafs = leafs
       /\ stk'.first = stk.first /\ stk'.dropped = stk.dropped /\ scopes' = scopes
  <2>1. stk' = With(stk, es, top, leafs) /\ scopes' = scopes
    BY <1>1, <1>2, <1>3, <1>4, <1>6, <1>8, <1>9, <1>10 DEF With, AllocLocal, Alloc, Place
  <2>2. stk \in Stacks
    BY <1>0 DEF TypeOK
  <2> QED
    <3>1. /\ With(stk, es, top, leafs) \in Stacks
          /\ With(stk, es, top, leafs).entries = es /\ With(stk, es, top, leafs).top = top
          /\ With(stk, es, top, leafs).leafs = leafs
          /\ With(stk, es, top, leafs).first = stk.first
          /\ With(stk, es, top, leafs).dropped = stk.dropped
      BY <2>2, StackUpdate
    <3> QED
      BY <2>1, <3>1
<1>12. Grows(base, size, c, m, n)
  <2>1. Len(es) = m + 1 /\ es[m + 1] = e /\ \A i \in 1 .. m : es[i] = stk.entries[i]
    BY <1>0, <1>2, <1>8, EntryAppended DEF TypeOK, Stacks
  <2>2. \A i \in 1 .. n + c : leafs[i] = IF i <= n THEN stk.leafs[i] ELSE new[i - n]
    BY <1>7, <1>9
  <2>3. ASSUME NEW b \in 0 .. n - 1 PROVE leafs[b + 1] = stk.leafs[b + 1]
    BY <2>2
  <2>4. ASSUME NEW b \in n .. n + c - 1
        PROVE  base <= leafs[b + 1].slot /\ leafs[b + 1].slot + leafs[b + 1].size <= base + size
    <3>1. leafs[b + 1] = new[b + 1 - n] /\ b + 1 - n \in 1 .. c
      BY <2>2
    <3> QED
      BY <3>1, <1>5
  <2>5. Len(leafs) = n + c
    BY <1>7, <1>9
  <2> QED
    BY <1>1, <1>2, <1>6, <1>10, <1>11, <2>1, <2>3, <2>4, <2>5 DEF Grows, Leaf
<1> QED
  BY <1>12, GrowStep

(* Every operation of the compiler stack keeps the invariant. *)
LEMMA NextStep == IInv /\ [Next]_vars => IInv'
<1> SUFFICES ASSUME IInv, [Next]_vars PROVE IInv'
  OBVIOUS
<1>1. CASE Push
  BY <1>1, PushStep
<1>2. CASE Pop
  BY <1>2, PopStep
<1>3. CASE AlignForCall
  BY <1>3, AlignForCallStep
<1>4. ASSUME NEW t \in Layouts, AllocLocal(t) PROVE IInv'
  BY <1>4, AllocLocalStep
<1>5. ASSUME NEW t \in Layouts, AllocScratch(t) PROVE IInv'
  BY <1>5, AllocScratchStep
<1>6. CASE UNCHANGED vars
  BY <1>6 DEF vars, IInv, TypeOK, LiveSlotsDisjoint, PendingIffAllocated, Pending,
     LeafsInAllocation, LeafInside, Leaf, ScopesNested, ScopeIsPrefix, ScopeSplitsBits,
     FirstBit, Bits, End
<1> QED
  BY <1>1, <1>2, <1>3, <1>4, <1>5, <1>6 DEF Next

--------------------------------------------------------------------------------
(* The compiler's stack and the scopes it has open keep their types, and no bit  *)
(* is dropped that was never registered, whatever is lowered.                    *)
THEOREM TypeCorrect == Spec => []TypeOK
<1>1. IInv => TypeOK
  BY DEF IInv
<1> QED
  BY <1>1, InitStep, NextStep, PTL DEF Spec

(* pop_scope frees the slots of its scope and no others: allocations that are    *)
(* live never overlap and the next one goes above them.                          *)
THEOREM SlotsDisjoint == Spec => []LiveSlotsDisjoint
<1>1. IInv => LiveSlotsDisjoint
  BY DEF IInv
<1> QED
  BY <1>1, InitStep, NextStep, PTL DEF Spec

(* The LocalDrops emitted by pop_scope cover a drop bit exactly when the local   *)
(* it belongs to goes out of scope.                                              *)
THEOREM DropsFollowScopes == Spec => []PendingIffAllocated
<1>1. IInv => PendingIffAllocated
  BY DEF IInv
<1> QED
  BY <1>1, InitStep, NextStep, PTL DEF Spec

(* The drop bits of an allocation are its own and guard memory inside it.        *)
THEOREM LeafsOwned == Spec => []LeafsInAllocation
<1>1. IInv => LeafsInAllocation
  BY DEF IInv
<1> QED
  BY <1>1, InitStep, NextStep, PTL DEF Spec

(* Every open scope remembers a prefix of the stack, and its drop bits are those *)
(* of the rest.                                                                  *)
THEOREM ScopesSplitStack == Spec => []ScopesNested
<1>1. IInv => ScopesNested
  BY DEF IInv
<1> QED
  BY <1>1, InitStep, NextStep, PTL DEF Spec

--------------------------------------------------------------------------------
(* Induction, recursive functions and sums.  A set that holds 0 and the successor of *)
(* each of its numbers holds all of them; what a recursive function is follows. *)

(* Induction over the naturals, for a set: what holds 0 and each successor holds all. *)
LEMMA Induction ==
  ASSUME NEW S, 0 \in S, \A n \in Nat : n \in S => n + 1 \in S
  PROVE  Nat \subseteq S
<1> DEFINE Outside == {n \in Nat : n \notin S}
<1> SUFFICES ASSUME Outside # {} PROVE FALSE
  OBVIOUS
<1>1. IsWellFoundedOn(OpToRel(<, Nat), Nat)
  BY NatLessThanWellFounded
<1>2. PICK m \in Outside : \A n \in Outside : <<n, m>> \notin OpToRel(<, Nat)
  BY <1>1, WFMin
<1>3. \A n \in Outside : ~(n < m)
  BY <1>2 DEF OpToRel
<1>4. m # 0 /\ m - 1 \in S
  BY <1>3
<1> QED
  BY <1>4

(* f is the function on 0 .. n that starts at a and goes on by h. *)
Iterates(f, n, V, a, h) ==
  f \in [0 .. n -> V] /\ f[0] = a /\ \A k \in 1 .. n : f[k] = h[k][f[k - 1]]

(* A recursive function on 0 .. n has the values that its equations give it. *)
LEMMA Recursion ==
  ASSUME NEW V, NEW a \in V, NEW h \in [Nat -> [V -> V]], NEW n \in Nat
  PROVE  \E f : Iterates(f, n, V, a, h)
<1> DEFINE S == {m \in Nat : \E f : Iterates(f, m, V, a, h)}
<1>1. 0 \in S
  <2>1. Iterates([k \in 0 .. 0 |-> a], 0, V, a, h)
    BY DEF Iterates
  <2> QED
    BY <2>1
<1>2. ASSUME NEW m \in Nat, m \in S PROVE m + 1 \in S
  <2>1. PICK f : Iterates(f, m, V, a, h)
    BY <1>2
  <2> DEFINE g == [k \in 0 .. m + 1 |-> IF k = m + 1 THEN h[m + 1][f[m]] ELSE f[k]]
  <2>2. g \in [0 .. m + 1 -> V] /\ g[0] = a
    BY <2>1 DEF Iterates
  <2>3. ASSUME NEW k \in 1 .. m + 1 PROVE g[k] = h[k][g[k - 1]]
    BY <2>1 DEF Iterates
  <2> HIDE DEF g
  <2>4. Iterates(g, m + 1, V, a, h)
    BY <2>2, <2>3 DEF Iterates
  <2> QED
    BY <2>4
<1>3. Nat \subseteq S
  <2> HIDE DEF S
  <2> QED
    BY <1>1, <1>2, Induction
<1> QED
  BY <1>3

(* f[k] is the sum of the first k terms of t. *)
Sums(f, n, t) ==
  /\ f \in [0 .. n -> Int] /\ f[0] = 0
  /\ \A k \in 1 .. n : f[k] = f[k - 1] + t[k - 1]
  /\ \A k \in 0 .. n : SumTo(k, t) = f[k]

(* SumTo adds its terms one by one. *)
LEMMA SumIs ==
  ASSUME NEW n \in Nat, NEW t, \A k \in 0 .. n - 1 : t[k] \in Int
  PROVE  \E f : Sums(f, n, t)
<1> DEFINE h == [k \in Nat |-> [v \in Int |-> IF k \in 1 .. n THEN v + t[k - 1] ELSE v]]
<1>1. h \in [Nat -> [Int -> Int]]
  OBVIOUS
<1>2. \A k \in 1 .. n, v \in Int : h[k][v] = v + t[k - 1]
  OBVIOUS
<1> HIDE DEF h
<1>3. PICK f : Iterates(f, n, Int, 0, h)
  <2>1. \A a \in Int : \E f : Iterates(f, n, Int, a, h)
    BY <1>1, Recursion, Zenon
  <2> QED
    BY <2>1
<1>4. f \in [0 .. n -> Int] /\ f[0] = 0 /\ \A k \in 1 .. n : f[k] = f[k - 1] + t[k - 1]
  <2>1. f \in [0 .. n -> Int] /\ f[0] = 0 /\ \A k \in 1 .. n : f[k] = h[k][f[k - 1]]
    BY <1>3, Zenon DEF Iterates
  <2>2. \A k \in 1 .. n : f[k - 1] \in Int
    BY <2>1
  <2> QED
    BY <1>2, <2>1, <2>2
<1>5. ASSUME NEW m \in 0 .. n PROVE SumTo(m, t) = f[m]
  <2> DEFINE Sum(s) == s = [k \in 0 .. m |-> IF k = 0 THEN 0 ELSE s[k - 1] + t[k - 1]]
             s == CHOOSE s : Sum(s)
             Same == {k \in Nat : k <= m => s[k] = f[k]}
  <2>1. Sum([k \in 0 .. m |-> f[k]])
    BY <1>4
  <2>2. Sum(s)
    BY <2>1
  <2>3. SumTo(m, t) = s[m]
    BY DEF SumTo
  <2> HIDE DEF s
  <2>4. 0 \in Same
    BY <1>4, <2>2
  <2>5. ASSUME NEW k \in Nat, k \in Same PROVE k + 1 \in Same
    <3>1. CASE k + 1 <= m
      BY <1>4, <2>2, <2>5, <3>1
    <3> QED
      BY <3>1
  <2>6. Nat \subseteq Same
    <3> HIDE DEF Same
    <3> QED
      BY <2>4, <2>5, Induction
  <2> QED
    BY <2>3, <2>6
<1> QED
  BY <1>4, <1>5 DEF Sums

(* TwoTo doubles with each bit. *)
LEMMA Powers ==
  /\ TwoTo(0) = 1
  /\ \A k \in 0 .. MaxWidth : TwoTo(k) \in Nat \ {0}
  /\ \A k \in 1 .. MaxWidth : TwoTo(k) = 2 * TwoTo(k - 1)
<1> DEFINE h == [k \in Nat |-> [v \in Nat |-> 2 * v]]
           W == MaxWidth
<1>1. h \in [Nat -> [Nat -> Nat]] /\ \A k \in Nat, v \in Nat : h[k][v] = 2 * v
  OBVIOUS
<1>2. W \in Nat
  BY ByteBitsAssumption DEF MaxWidth
<1> HIDE DEF h, W
<1>3. PICK f : Iterates(f, W, Nat, 1, h)
  <2>1. \A a \in Nat : \E f : Iterates(f, W, Nat, a, h)
    BY <1>1, <1>2, Recursion, Zenon
  <2> QED
    BY <2>1
<1>4. f \in [0 .. W -> Nat] /\ f[0] = 1 /\ \A k \in 1 .. W : f[k] = 2 * f[k - 1]
  <2>1. f \in [0 .. W -> Nat] /\ f[0] = 1 /\ \A k \in 1 .. W : f[k] = h[k][f[k - 1]]
    BY <1>3, Zenon DEF Iterates
  <2>2. \A k \in 1 .. W : f[k - 1] \in Nat
    BY <2>1, <1>2
  <2>3. ASSUME NEW k \in 1 .. W PROVE f[k] = 2 * f[k - 1]
    <3>1. f[k] = h[k][f[k - 1]] /\ f[k - 1] \in Nat /\ k \in Nat
      BY <1>2, <2>1, <2>2
    <3> QED
      BY <1>1, <3>1
  <2> QED
    BY <2>1, <2>3
<1> DEFINE Power(p) == p = [k \in 0 .. W |-> IF k = 0 THEN 1 ELSE 2 * p[k - 1]]
           t == CHOOSE p : Power(p)
<1>5. Power([k \in 0 .. W |-> f[k]])
  BY <1>2, <1>4
<1>6. Power(t)
  BY <1>5
<1>7. PowerOfTwo = t
  BY DEF PowerOfTwo, W
<1> HIDE DEF t
<1>8. \A k \in 0 .. W : t[k] = IF k = 0 THEN 1 ELSE 2 * t[k - 1]
  BY <1>6
<1> DEFINE S == {k \in Nat : k <= W => t[k] \in Nat \ {0}}
<1>9. Nat \subseteq S
  <2>1. 0 \in S
    BY <1>2, <1>8
  <2>2. ASSUME NEW k \in Nat, k \in S PROVE k + 1 \in S
    BY <1>2, <1>8, <2>2
  <2> HIDE DEF S
  <2> QED
    BY <2>1, <2>2, Induction
<1> QED
  BY <1>2, <1>7, <1>8, <1>9 DEF TwoTo, W

--------------------------------------------------------------------------------
(* Division.                                                                   *)

(* Division with remainder by a positive divisor. *)
LEMMA DivMod ==
  ASSUME NEW a \in Int, NEW b \in Nat \ {0}
  PROVE  a \div b \in Int /\ (a % b) \in 0 .. b - 1 /\ a = b * (a \div b) + (a % b)
OBVIOUS

(* Quotient and remainder are the only ones there are. *)
LEMMA Unique ==
  ASSUME NEW b \in Nat \ {0}, NEW q \in Int, NEW r \in 0 .. b - 1
  PROVE  (b * q + r) \div b = q /\ ((b * q + r) % b) = r
OBVIOUS

(* Adding a multiple of the divisor moves the quotient and keeps the remainder. *)
LEMMA AddMultiple ==
  ASSUME NEW a \in Int, NEW b \in Nat \ {0}, NEW q \in Int
  PROVE  (a + b * q) \div b = (a \div b) + q /\ ((a + b * q) % b) = (a % b)
<1> DEFINE d == a \div b
           r == a % b
<1>1. d \in Int /\ r \in 0 .. b - 1 /\ a = b * d + r
  BY DivMod
<1> HIDE DEF d, r
<1>2. a + b * q = b * (d + q) + r
  BY <1>1
<1>3. (b * (d + q) + r) \div b = d + q /\ ((b * (d + q) + r) % b) = r
  <2>1. d + q \in Int
    BY <1>1
  <2> QED
    BY <1>1, <2>1, Unique
<1> QED
  BY <1>2, <1>3 DEF d, r

(* A remainder by a product has the remainders of the number by its factors. *)
LEMMA ModMod ==
  ASSUME NEW a \in Int, NEW b \in Nat \ {0}, NEW c \in Nat \ {0}
  PROVE  ((a % (b * c)) % c) = (a % c) /\ ((a % (b * c)) % b) = (a % b)
<1> DEFINE w == b * c
           d == a \div w
           r == a % w
<1>1. w \in Nat \ {0}
  OBVIOUS
<1>2. d \in Int /\ r \in Int /\ a = (b * c) * d + r
  <2> HIDE DEF w
  <2>1. d \in Int /\ r \in 0 .. w - 1 /\ a = w * d + r
    BY <1>1, DivMod
  <2> QED
    BY <1>1, <2>1 DEF w
<1> HIDE DEF d, r
<1>3. a = r + c * (b * d) /\ a = r + b * (c * d)
  BY <1>2
<1>4. b * d \in Int /\ c * d \in Int
  BY <1>2
<1>5. ((r + c * (b * d)) % c) = (r % c)
  BY <1>2, <1>4, AddMultiple
<1>6. ((r + b * (c * d)) % b) = (r % b)
  BY <1>2, <1>4, AddMultiple
<1> QED
  BY <1>3, <1>5, <1>6 DEF r, w

(* Dividing a remainder by one factor of a product leaves a remainder by the other. *)
LEMMA DivOfMod ==
  ASSUME NEW a \in Int, NEW b \in Nat \ {0}, NEW c \in Nat \ {0}
  PROVE  ((a % (b * c)) \div b) = ((a \div b) % c)
OBVIOUS

(* Numbers with one remainder differ by a multiple of the divisor. *)
LEMMA SameMod ==
  ASSUME NEW a \in Int, NEW b \in Nat \ {0}, NEW c \in Int, (a % b) = (c % b)
  PROVE  \E q \in Int : c = a + b * q
<1> DEFINE x == a \div b
           y == c \div b
           r == a % b
<1>1. x \in Int /\ y \in Int /\ r \in Int /\ a = b * x + r
  BY DivMod
<1>2. c = b * y + (c % b)
  BY DivMod
<1>3. c = b * y + r
  BY <1>2
<1> HIDE DEF x, y, r
<1>4. c = a + b * (y - x) /\ y - x \in Int
  BY <1>1, <1>3
<1> QED
  BY <1>4

(* The powers of two. *)
LEMMA PowerSum ==
  ASSUME NEW a \in Nat, NEW b \in Nat, a + b <= MaxWidth
  PROVE  TwoTo(a + b) = TwoTo(a) * TwoTo(b)
<1> DEFINE S == {k \in Nat : k <= b => TwoTo(a + k) = TwoTo(a) * TwoTo(k)}
<1>1. MaxWidth \in Nat
  BY ByteBitsAssumption DEF MaxWidth
<1>2. 0 \in S
  BY <1>1, Powers
<1>3. ASSUME NEW k \in Nat, k \in S PROVE k + 1 \in S
  <2>1. CASE k + 1 <= b
    <3>1. TwoTo(a + (k + 1)) = 2 * TwoTo(a + k) /\ TwoTo(k + 1) = 2 * TwoTo(k)
      <4>1. a + (k + 1) \in 1 .. MaxWidth /\ k + 1 \in 1 .. MaxWidth
            /\ (a + (k + 1)) - 1 = a + k /\ (k + 1) - 1 = k
        BY <1>1, <2>1
      <4> QED
        BY <4>1, Powers
    <3>2. TwoTo(a) \in Nat /\ TwoTo(k) \in Nat /\ TwoTo(a + k) = TwoTo(a) * TwoTo(k)
      BY <1>1, <1>3, <2>1, Powers
    <3> QED
      BY <3>1, <3>2
  <2> QED
    BY <2>1
<1>4. Nat \subseteq S
  <2> HIDE DEF S
  <2> QED
    BY <1>2, <1>3, Induction
<1> QED
  BY <1>4

(* The widths of integers of up to 16 bytes, and how many values each has. *)
LEMMA Widths ==
  /\ Radix \in Nat \ {0, 1} /\ Modulus(0) = 1 /\ Modulus(1) = Radix
  /\ \A n \in 0 .. 16 : BitWidth(n) \in 0 .. MaxWidth /\ Modulus(n) \in Nat \ {0}
  /\ \A n \in 0 .. 15 : Modulus(n + 1) = Modulus(n) * Radix
  /\ \A n \in 1 .. 16 : BitWidth(n) > 0 /\ Modulus(n) = 2 * TwoTo(BitWidth(n) - 1)
                       /\ TwoTo(BitWidth(n) - 1) \in Nat \ {0}
<1>1. ASSUME NEW n \in 0 .. 16 PROVE BitWidth(n) \in 0 .. MaxWidth /\ Modulus(n) \in Nat \ {0}
  <2>1. BitWidth(n) \in 0 .. MaxWidth
    BY ByteBitsAssumption DEF BitWidth, MaxWidth
  <2> QED
    BY <2>1, Powers DEF Modulus
<1>2. ByteBits \in 1 .. MaxWidth /\ MaxWidth \in Nat
  BY ByteBitsAssumption DEF MaxWidth
<1>3. Radix \in Nat \ {0, 1}
  <2>1. Radix = 2 * TwoTo(ByteBits - 1) /\ ByteBits - 1 \in 0 .. MaxWidth
    BY <1>2, Powers DEF Radix
  <2>2. TwoTo(ByteBits - 1) \in Nat \ {0}
    BY <2>1, Powers
  <2> QED
    BY <2>1, <2>2
<1>4. Modulus(0) = 1 /\ Modulus(1) = Radix
  <2>1. BitWidth(0) = 0 /\ BitWidth(1) = ByteBits
    BY <1>2 DEF BitWidth
  <2> QED
    BY <2>1, Powers DEF Modulus, Radix
<1>5. ASSUME NEW n \in 0 .. 15 PROVE Modulus(n + 1) = Modulus(n) * Radix
  <2>1. BitWidth(n + 1) = BitWidth(n) + ByteBits /\ BitWidth(n) \in Nat /\ BitWidth(n + 1) <= MaxWidth
    BY <1>1, <1>2, ByteBitsAssumption DEF BitWidth, MaxWidth
  <2> QED
    BY <2>1, <1>2, PowerSum DEF Modulus, Radix
<1>6. ASSUME NEW n \in 1 .. 16
      PROVE  BitWidth(n) > 0 /\ Modulus(n) = 2 * TwoTo(BitWidth(n) - 1) /\ TwoTo(BitWidth(n) - 1) \in Nat \ {0}
  <2>1. BitWidth(n) \in 1 .. MaxWidth
    BY ByteBitsAssumption DEF BitWidth, MaxWidth
  <2> QED
    BY <2>1, <1>2, Powers DEF Modulus
<1> QED
  BY <1>1, <1>3, <1>4, <1>5, <1>6

(* Integers of a + b bytes are pairs of integers of a and of b bytes. *)
LEMMA ModulusSum ==
  ASSUME NEW a \in Nat, NEW b \in Nat, a + b <= 16
  PROVE  Modulus(a + b) = Modulus(a) * Modulus(b)
<1>1. BitWidth(a + b) = BitWidth(a) + BitWidth(b)
  BY ByteBitsAssumption DEF BitWidth
<1>2. BitWidth(a) \in Nat /\ BitWidth(b) \in Nat /\ BitWidth(a + b) <= MaxWidth
  <2>1. a \in 0 .. 16 /\ b \in 0 .. 16 /\ a + b \in 0 .. 16 /\ MaxWidth \in Nat
    BY ByteBitsAssumption DEF MaxWidth
  <2> QED
    BY <2>1, Widths
<1> QED
  BY <1>1, <1>2, PowerSum DEF Modulus

--------------------------------------------------------------------------------
(* Bytes of numbers, and reading them back.                                    *)

ByteAt(v, k) == (v \div Modulus(k)) % Radix

(* Truncating a number to n bytes keeps them. *)
LEMMA ByteOfMod ==
  ASSUME NEW v \in Int, NEW n \in 1 .. 16, NEW k \in 0 .. n - 1
  PROVE  ByteAt(v % Modulus(n), k) = ByteAt(v, k)
<1> DEFINE b == Modulus(k)
           e == Modulus(n - (k + 1))
           c == e * Radix
<1>1. b \in Nat \ {0} /\ e \in Nat \ {0} /\ Radix \in Nat \ {0}
  <2>1. k \in 0 .. 16 /\ n - (k + 1) \in 0 .. 16
    OBVIOUS
  <2> QED
    BY <2>1, Widths
<1>2. Modulus(n) = b * c
  <2>1. Modulus(n - k) = e * Radix
    <3>1. n - (k + 1) \in 0 .. 15 /\ (n - (k + 1)) + 1 = n - k
      OBVIOUS
    <3> QED
      BY <3>1, Widths
  <2>2. k \in Nat /\ n - k \in Nat /\ k + (n - k) = n /\ n <= 16
    OBVIOUS
  <2>3. Modulus(k + (n - k)) = Modulus(k) * Modulus(n - k)
    BY <2>2, ModulusSum
  <2> QED
    BY <2>1, <2>2, <2>3
<1> DEFINE q == v \div b
<1>3. c \in Nat \ {0}
  BY <1>1
<1>4. q \in Int
  BY <1>1, DivMod
<1>5. ((v % (b * c)) \div b) = (q % c)
  <2> HIDE DEF b, c
  <2> QED
    BY <1>1, <1>3, DivOfMod
<1>6. ((q % c) % Radix) = (q % Radix)
  <2> HIDE DEF q, e
  <2> QED
    BY <1>1, <1>4, ModMod
<1> HIDE DEF c
<1> QED
  BY <1>2, <1>5, <1>6 DEF ByteAt

(* The bytes of a number depend on its residue only. *)
LEMMA SameBytes ==
  ASSUME NEW v \in Int, NEW w \in Int, NEW n \in 1 .. 16, (v % Modulus(n)) = (w % Modulus(n))
  PROVE  BytesOf(v, n) = BytesOf(w, n)
<1>1. \A k \in 0 .. n - 1 : ByteAt(v, k) = ByteAt(w, k)
  <2> TAKE k \in 0 .. n - 1
  <2>1. ByteAt(v % Modulus(n), k) = ByteAt(v, k) /\ ByteAt(w % Modulus(n), k) = ByteAt(w, k)
    BY ByteOfMod
  <2> QED
    BY <2>1
<1> QED
  BY <1>1 DEF BytesOf, ByteAt

(* write_stack truncates: numbers that are congruent leave the same memory. *)
LEMMA SameWrite ==
  ASSUME NEW m, NEW addr, NEW v \in Int, NEW w \in Int, NEW n \in 1 .. 16,
         (v % Modulus(n)) = (w % Modulus(n))
  PROVE  Write(m, addr, v, n) = Write(m, addr, w, n)
BY SameBytes DEF Write

(* A machine, and memory that holds bytes. *)
Bytes == 0 .. Radix - 1
Machines(D) == [mem : [D -> Bytes], base : Nat]

(* Mapped memory holds bytes. *)
LEMMA MappedBytes ==
  ASSUME NEW D, NEW m \in Machines(D), NEW addr \in Int, NEW n \in Nat, Mapped(m, addr, n)
  PROVE  \A k \in 0 .. n - 1 : addr + k \in D /\ m.mem[addr + k] \in Bytes
<1>1. m.mem \in [D -> Bytes]
  BY DEF Machines
<1>2. \A k \in 0 .. n - 1 : addr + k \in D
  BY <1>1 DEF Mapped
<1> QED
  BY <1>1, <1>2

Unsigned(m, addr, n) == Read(m, addr, n, "U")

(* Reading little-endian bytes: the number they are the bytes of. *)
LEMMA ReadBytes ==
  ASSUME NEW m, NEW addr \in Int, NEW n \in 1 .. 16,
         \A k \in 0 .. n - 1 : m.mem[addr + k] \in Bytes
  PROVE  /\ Unsigned(m, addr, n) \in 0 .. Modulus(n) - 1
         /\ \A j \in 0 .. n - 1 : ByteAt(Unsigned(m, addr, n), j) = m.mem[addr + j]
<1> DEFINE t == [k \in 0 .. n - 1 |-> m.mem[addr + k] * Modulus(k)]
           B(k) == m.mem[addr + k]
<1>0. \A k \in 0 .. n - 1 : Modulus(k) \in Nat \ {0} /\ B(k) \in 0 .. Radix - 1 /\ B(k) \in Int
  <2>1. Radix \in Nat /\ \A k \in 0 .. 16 : Modulus(k) \in Nat \ {0}
    BY Widths
  <2>2. \A k \in 0 .. n - 1 : k \in 0 .. 16
    OBVIOUS
  <2> QED
    BY <2>1, <2>2 DEF Bytes
<1>1. \A k \in 0 .. n - 1 : t[k] \in Int
  BY <1>0
<1>2. PICK f : Sums(f, n, t)
  <2> HIDE DEF t
  <2>1. n \in Nat
    OBVIOUS
  <2> QED
    BY <1>1, <2>1, SumIs
<1>3. Unsigned(m, addr, n) = f[n]
  BY <1>2 DEF Unsigned, Read, Sums
<1>4. \A k \in 0 .. n - 1 : f[k + 1] = f[k] + B(k) * Modulus(k) /\ B(k) \in 0 .. Radix - 1
  <2> TAKE k \in 0 .. n - 1
  <2>1. k + 1 \in 1 .. n /\ (k + 1) - 1 = k /\ t[k] = B(k) * Modulus(k)
    OBVIOUS
  <2> HIDE DEF t, B
  <2>2. f[k + 1] = f[(k + 1) - 1] + t[(k + 1) - 1]
    BY <1>2, <2>1 DEF Sums
  <2> QED
    BY <1>0, <2>1, <2>2
<1> HIDE DEF t, B
<1> DEFINE Good(k) == f[k] \in 0 .. Modulus(k) - 1 /\ \A j \in 0 .. k - 1 : ByteAt(f[k], j) = B(j)
           S == {k \in Nat : k <= n => Good(k)}
<1>5. 0 \in S
  <2>1. Good(0)
    BY <1>2, Widths DEF Sums
  <2> QED
    BY <2>1
<1>6. ASSUME NEW k \in Nat, k \in S, k + 1 <= n PROVE Good(k + 1)
  <2> DEFINE M == Modulus(k)
             b == B(k)
             v == f[k]
  <2>1. k \in 0 .. n - 1 /\ M \in Nat \ {0} /\ b \in 0 .. Radix - 1 /\ v \in 0 .. M - 1
        /\ f[k + 1] = v + b * M /\ Modulus(k + 1) = M * Radix /\ Radix \in Nat \ {0}
    <3>1. k \in 0 .. n - 1 /\ k \in 0 .. 15
      BY <1>6
    <3>2. Good(k)
      BY <1>6
    <3> QED
      BY <1>0, <1>4, <3>1, <3>2, Widths
  <2>2. f[k + 1] \in 0 .. Modulus(k + 1) - 1
    <3> HIDE DEF M, b, v
    <3>1. v + b * M \in Nat /\ v + b * M < M + b * M
      BY <2>1
    <3>2. M + b * M = M * (b + 1) /\ M * (b + 1) <= M * Radix
      BY <2>1
    <3> QED
      BY <2>1, <3>1, <3>2
  <2>3. ByteAt(f[k + 1], k) = b
    <3> HIDE DEF M, b, v
    <3>1. M * b + v = f[k + 1] /\ b \in Int
      BY <2>1
    <3>2. (M * b + v) \div M = b
      BY <2>1, <3>1, Unique
    <3>3. (b % Radix) = b
      BY <2>1
    <3> QED
      BY <3>1, <3>2, <3>3 DEF ByteAt, M
  <2>4. ASSUME NEW j \in 0 .. k - 1 PROVE ByteAt(f[k + 1], j) = B(j)
    <3>1. ByteAt(v, j) = B(j)
      BY <1>6, <2>1
    <3>2. ByteAt(v % M, j) = ByteAt(v, j) /\ ByteAt(f[k + 1] % M, j) = ByteAt(f[k + 1], j)
      <4>1. k \in 1 .. 16
        BY <1>6
      <4>2. v \in Int /\ f[k + 1] \in Int
        BY <1>2, <1>6 DEF Sums
      <4> QED
        BY <4>1, <4>2, ByteOfMod
    <3>3. (f[k + 1] % M) = (v % M)
      <4> HIDE DEF M, b, v
      <4>1. f[k + 1] = v + M * b /\ b \in Int /\ v \in Int
        BY <2>1
      <4>2. ((v + M * b) % M) = (v % M)
        BY <2>1, <4>1, AddMultiple
      <4> QED
        BY <4>1, <4>2
    <3> QED
      BY <3>1, <3>2, <3>3
  <2>5. \A j \in 0 .. (k + 1) - 1 : j = k \/ j \in 0 .. k - 1
    BY <1>6
  <2> HIDE DEF M, b, v, B
  <2> QED
    BY <2>2, <2>3, <2>4, <2>5 DEF b
<1>7. Nat \subseteq S
  <2> HIDE DEF S, Good
  <2>1. 0 \in S
    BY <1>5
  <2>2. ASSUME NEW k \in Nat, k \in S PROVE k + 1 \in S
    <3>1. CASE k + 1 <= n
      <4>1. Good(k + 1)
        BY <1>6, <2>2, <3>1
      <4> QED
        BY <4>1 DEF S
    <3>2. CASE ~(k + 1 <= n)
      BY <3>2 DEF S
    <3> QED
      BY <3>1, <3>2
  <2> QED
    BY <2>1, <2>2, Induction
<1>8. Good(n)
  BY <1>7
<1> QED
  BY <1>3, <1>8 DEF B

--------------------------------------------------------------------------------
(* Reading and writing memory.                                                 *)

(* Two's complement: a signed number in its range, congruent to the unsigned one. *)
LEMMA SignedIs ==
  ASSUME NEW n \in 1 .. 16, NEW u \in 0 .. Modulus(n) - 1
  PROVE  /\ Signed(u, n) \in -(Modulus(n) \div 2) .. (Modulus(n) \div 2) - 1
         /\ (Signed(u, n) % Modulus(n)) = u
         /\ Modulus(n) = 2 * (Modulus(n) \div 2) /\ Modulus(n) \div 2 \in Nat \ {0}
<1> DEFINE M == Modulus(n)
           H == TwoTo(BitWidth(n) - 1)
<1>1. M = 2 * H /\ H \in Nat \ {0} /\ M \in Nat \ {0}
  BY Widths
<1>2. M \div 2 = H
  <2> HIDE DEF M, H
  <2> QED
    BY <1>1
<1>3. Signed(u, n) = IF u >= H THEN u - M ELSE u
  BY <1>2 DEF Signed
<1> HIDE DEF M, H
<1>4. u \in 0 .. M - 1
  BY DEF M
<1>5. ((u - M) % M) = u /\ (u % M) = u
  BY <1>1, <1>4
<1> QED
  BY <1>1, <1>2, <1>3, <1>4, <1>5 DEF M

(* What is read is a number whose bytes are those in memory, signed or unsigned. *)
LEMMA ReadIs ==
  ASSUME NEW D, NEW m \in Machines(D), NEW addr \in Int, NEW n \in 1 .. 16, Mapped(m, addr, n), NEW sign
  PROVE  /\ Unsigned(m, addr, n) \in 0 .. Modulus(n) - 1
         /\ Read(m, addr, n, "S") = Signed(Unsigned(m, addr, n), n)
         /\ Read(m, addr, n, sign) \in Int
         /\ (Read(m, addr, n, sign) % Modulus(n)) = Unsigned(m, addr, n)
         /\ \A j \in 0 .. n - 1 : ByteAt(Unsigned(m, addr, n), j) = m.mem[addr + j]
<1> DEFINE u == Unsigned(m, addr, n)
<1>1. u \in 0 .. Modulus(n) - 1 /\ \A j \in 0 .. n - 1 : ByteAt(u, j) = m.mem[addr + j]
  <2>1. n \in Nat
    OBVIOUS
  <2>2. \A k \in 0 .. n - 1 : m.mem[addr + k] \in Bytes
    BY <2>1, MappedBytes
  <2> QED
    BY <2>2, ReadBytes
<1>2. Read(m, addr, n, sign) = IF sign = "S" THEN Signed(u, n) ELSE u
  BY DEF Unsigned, Read
<1>3. Read(m, addr, n, "S") = Signed(u, n)
  BY DEF Unsigned, Read
<1> HIDE DEF u
<1>4. Modulus(n) \in Nat \ {0}
  BY Widths
<1>5. (u % Modulus(n)) = u /\ u \in Int
  BY <1>1, <1>4
<1>6. Signed(u, n) \in Int /\ (Signed(u, n) % Modulus(n)) = u
  BY <1>1, <1>4, SignedIs
<1> QED
  BY <1>1, <1>2, <1>3, <1>5, <1>6 DEF u

(* The bytes of a number are bytes. *)
LEMMA BytesOfIs ==
  ASSUME NEW v \in Int, NEW n \in 0 .. 16
  PROVE  BytesOf(v, n) \in [0 .. n - 1 -> Bytes] /\ \A k \in 0 .. n - 1 : BytesOf(v, n)[k] = ByteAt(v, k)
<1>1. \A k \in 0 .. n - 1 : ByteAt(v, k) \in Bytes
  <2> TAKE k \in 0 .. n - 1
  <2>1. Modulus(k) \in Nat \ {0} /\ Radix \in Nat \ {0}
    <3>1. k \in 0 .. 16
      OBVIOUS
    <3> QED
      BY <3>1, Widths
  <2>2. v \div Modulus(k) \in Int
    BY <2>1, DivMod
  <2> QED
    BY <2>1, <2>2, DivMod DEF ByteAt, Bytes
<1> QED
  BY <1>1 DEF BytesOf, ByteAt

(* The machine after an instruction that stays in its frame. *)
SameFrame(D, m, w) == w \in Machines(D) /\ w.base = m.base

(* A store changes the bytes it names, and nothing else of the machine. *)
LEMMA StoreIs ==
  ASSUME NEW D, NEW m \in Machines(D), NEW addr \in Int, NEW K, NEW bytes \in [K -> Bytes]
  PROVE  /\ SameFrame(D, m, Store(m, addr, bytes))
         /\ \A x \in D : Store(m, addr, bytes).mem[x] = IF x - addr \in K THEN bytes[x - addr] ELSE m.mem[x]
<1>1. m.mem \in [D -> Bytes] /\ m.base \in Nat /\ m = [mem |-> m.mem, base |-> m.base]
  BY DEF Machines
<1> DEFINE w == [x \in D |-> IF x - addr \in K THEN bytes[x - addr] ELSE m.mem[x]]
<1>2. Store(m, addr, bytes) = [mem |-> w, base |-> m.base]
  BY <1>1 DEF Store
<1>3. w \in [D -> Bytes]
  BY <1>1
<1>4. \A x \in D : w[x] = IF x - addr \in K THEN bytes[x - addr] ELSE m.mem[x]
  OBVIOUS
<1> HIDE DEF w
<1>5. [mem |-> w, base |-> m.base] \in Machines(D)
  BY <1>1, <1>3 DEF Machines
<1> QED
  BY <1>2, <1>4, <1>5 DEF SameFrame

(* A write changes n bytes, and nothing else of the machine. *)
LEMMA WriteIs ==
  ASSUME NEW D, NEW m \in Machines(D), NEW addr \in Int, NEW v \in Int, NEW n \in 0 .. 16
  PROVE  /\ SameFrame(D, m, Write(m, addr, v, n))
         /\ \A x \in D : Write(m, addr, v, n).mem[x]
                        = IF x - addr \in 0 .. n - 1 THEN ByteAt(v, x - addr) ELSE m.mem[x]
<1> DEFINE b == BytesOf(v, n)
           K == 0 .. n - 1
<1>1. b \in [K -> Bytes] /\ \A k \in K : b[k] = ByteAt(v, k)
  BY BytesOfIs
<1>2. Write(m, addr, v, n) = Store(m, addr, b)
  BY DEF Write
<1> HIDE DEF b, K
<1>3. /\ SameFrame(D, m, Store(m, addr, b))
      /\ \A x \in D : Store(m, addr, b).mem[x] = IF x - addr \in K THEN b[x - addr] ELSE m.mem[x]
  BY <1>1, StoreIs
<1> QED
  BY <1>1, <1>2, <1>3 DEF K

(* A copy from mapped memory leaves a machine with the same frame. *)
LEMMA CopyIs ==
  ASSUME NEW D, NEW m \in Machines(D), NEW dst \in Int, NEW src \in Int, NEW n \in Nat, Mapped(m, src, n)
  PROVE  SameFrame(D, m, CopyBytes(m, dst, src, n))
<1> DEFINE b == [k \in 0 .. n - 1 |-> m.mem[src + k]]
           K == 0 .. n - 1
<1>1. b \in [K -> Bytes]
  BY MappedBytes
<1>2. CopyBytes(m, dst, src, n) = Store(m, dst, b)
  BY DEF CopyBytes
<1> HIDE DEF b, K
<1>3. SameFrame(D, m, Store(m, dst, b))
  BY <1>1, StoreIs
<1> QED
  BY <1>2, <1>3

--------------------------------------------------------------------------------
(* The bulk moves; integers from bits.                                         *)

(* The bulk moves. *)
LEMMA MovesItems ==
  ASSUME NEW D, NEW m \in Machines(D), NEW dst \in Int, NEW src \in Int, NEW size \in Nat, NEW n \in Nat,
         Mapped(m, src, size * n)
  PROVE  \E w : SameFrame(D, m, w) /\ MoveItems(m, dst, src, size, n) = Goes(w)
<1> DEFINE V == {w \in Machines(D) : w.base = m.base}
           Item(k, w) == CopyBytes(w, dst + (k - 1) * size, src + (k - 1) * size, size)
           h == [k \in Nat |-> [w \in V |-> IF k \in 1 .. n THEN Item(k, w) ELSE w]]
<1>1. ASSUME NEW k \in 1 .. n, NEW w \in V PROVE Item(k, w) \in V
  <2> DEFINE p == (k - 1) * size
  <2>1. p \in Nat /\ p + size <= size * n
    <3>1. p + size = k * size /\ p \in Nat
      OBVIOUS
    <3>2. k * size <= n * size
      OBVIOUS
    <3> QED
      BY <3>1, <3>2
  <2>2. m.mem \in [D -> Bytes] /\ w.mem \in [D -> Bytes]
    BY DEF Machines
  <2>3. \A x \in (src + p) .. (src + p) + size - 1 : x \in src .. src + size * n - 1
    <3> HIDE DEF p
    <3>1. size * n \in Nat
      OBVIOUS
    <3> QED
      BY <2>1, <3>1
  <2> HIDE DEF p
  <2>4. Mapped(w, src + p, size)
    BY <2>2, <2>3 DEF Mapped
  <2>5. w \in Machines(D) /\ dst + p \in Int /\ src + p \in Int
    BY <2>1
  <2>6. SameFrame(D, w, CopyBytes(w, dst + p, src + p, size))
    BY <2>4, <2>5, CopyIs
  <2> QED
    BY <2>6 DEF p, SameFrame
<1>2. h \in [Nat -> [V -> V]] /\ \A k \in 1 .. n, w \in V : h[k][w] = Item(k, w)
  <2> HIDE DEF V, Item
  <2> QED
    BY <1>1
<1>3. m \in V
  OBVIOUS
<1> HIDE DEF h, V, Item
<1>4. PICK f : Iterates(f, n, V, m, h)
  <2>1. \A a \in V : \E f : Iterates(f, n, V, a, h)
    BY <1>2, Recursion, Zenon
  <2> QED
    BY <1>3, <2>1
<1>5. f \in [0 .. n -> V] /\ f[0] = m /\ \A k \in 1 .. n : f[k] = Item(k, f[k - 1])
  <2>1. f \in [0 .. n -> V] /\ f[0] = m /\ \A k \in 1 .. n : f[k] = h[k][f[k - 1]]
    BY <1>4, Zenon DEF Iterates
  <2>2. \A k \in 1 .. n : f[k - 1] \in V
    BY <2>1
  <2> QED
    BY <1>2, <2>1, <2>2
<1> DEFINE Copied(c) == c = [k \in 0 .. n |-> IF k = 0 THEN m ELSE Item(k, c[k - 1])]
           c == CHOOSE x : Copied(x)
<1>6. Copied([k \in 0 .. n |-> f[k]])
  BY <1>5
<1>7. Copied(c)
  BY <1>6
<1>8. MoveItems(m, dst, src, size, n) = Goes(c[n])
  BY DEF MoveItems, Item
<1> HIDE DEF c
<1> DEFINE S == {k \in Nat : k <= n => c[k] = f[k]}
<1>9. 0 \in S
  BY <1>5, <1>7
<1>10. ASSUME NEW k \in Nat, k \in S PROVE k + 1 \in S
  <2>1. CASE k + 1 <= n
    BY <1>5, <1>7, <1>10, <2>1
  <2> QED
    BY <2>1
<1>11. Nat \subseteq S
  <2> HIDE DEF S
  <2> QED
    BY <1>9, <1>10, Induction
<1>12. c[n] \in V
  BY <1>5, <1>11
<1> QED
  BY <1>8, <1>12 DEF V, SameFrame

(* Integers. *)
LEMMA SumTyped ==
  ASSUME NEW n \in Nat, NEW t, \A k \in 0 .. n - 1 : t[k] \in Int
  PROVE  SumTo(n, t) \in Int
<1>1. PICK f : Sums(f, n, t)
  BY SumIs
<1> QED
  BY <1>1 DEF Sums

(* The operand sizes of the instruction set are widths. *)
LEMMA WidthOfSize ==
  ASSUME NEW n \in Sizes
  PROVE  n \in 1 .. 16 /\ BitWidth(n) \in 1 .. MaxWidth /\ MaxWidth \in Nat
         /\ Modulus(n) \in Nat \ {0} /\ Modulus(n) = TwoTo(BitWidth(n))
<1>1. n \in 1 .. 16 /\ MaxWidth \in Nat
  BY ByteBitsAssumption DEF Sizes, MaxWidth
<1> QED
  BY <1>1, Widths DEF Modulus

(* A number assembled from bits. *)
LEMMA FromBitsTyped ==
  ASSUME NEW n \in Sizes, NEW bits, \A k \in 0 .. BitWidth(n) - 1 : bits[k] \in Int
  PROVE  FromBits(bits, n) \in Int
<1> DEFINE t == [k \in 0 .. BitWidth(n) - 1 |-> bits[k] * TwoTo(k)]
<1>1. BitWidth(n) \in Nat /\ \A k \in 0 .. BitWidth(n) - 1 : TwoTo(k) \in Int
  BY WidthOfSize, Powers
<1>2. \A k \in 0 .. BitWidth(n) - 1 : t[k] \in Int
  BY <1>1
<1>3. FromBits(bits, n) = SumTo(BitWidth(n), t)
  BY DEF FromBits
<1> HIDE DEF t
<1> QED
  BY <1>1, <1>2, <1>3, SumTyped

(* A bit is 0 or 1. *)
LEMMA BitIs ==
  ASSUME NEW u \in Int, NEW k \in 0 .. MaxWidth
  PROVE  Bit(u, k) \in {0, 1}
<1>1. TwoTo(k) \in Nat \ {0}
  BY Powers
<1>2. u \div TwoTo(k) \in Int
  BY <1>1, DivMod
<1> QED
  BY <1>2 DEF Bit

(* Or, and, and exclusive or are integers. *)
LEMMA BitwiseTyped ==
  ASSUME NEW op \in BitOps, NEW u \in Int, NEW v \in Int, NEW n \in Sizes
  PROVE  Bitwise(op, u, v, n) \in Int
<1> DEFINE b == [k \in 0 .. BitWidth(n) - 1 |->
              CASE op = "BitOr" -> Truth(Bit(u, k) = 1 \/ Bit(v, k) = 1)
                [] op = "BitAnd" -> Truth(Bit(u, k) = 1 /\ Bit(v, k) = 1)
                [] op = "BitXor" -> Truth(Bit(u, k) # Bit(v, k))]
<1>1. \A k \in 0 .. BitWidth(n) - 1 : b[k] \in Int
  BY DEF Truth, BitOps
<1>2. Bitwise(op, u, v, n) = FromBits(b, n)
  BY DEF Bitwise
<1> HIDE DEF b
<1> QED
  BY <1>1, <1>2, FromBitsTyped

--------------------------------------------------------------------------------
(* The operators of Rust give integers.                                        *)

(* Rust's quotient by anything but 0 is an integer. *)
LEMMA QuotientTyped ==
  ASSUME NEW x \in Int, NEW y \in Int, y # 0
  PROVE  Quotient(x, y) \in Int
<1>1. Absolute(x) \in Nat /\ Absolute(y) \in Nat \ {0}
  BY DEF Absolute
<1>2. Absolute(x) \div Absolute(y) \in Int
  BY <1>1, DivMod
<1> QED
  BY <1>2 DEF Quotient

(* A left shift by up to the width is an integer. *)
LEMMA ShiftLeftTyped ==
  ASSUME NEW x \in Int, NEW n \in Sizes, NEW k \in 0 .. BitWidth(n)
  PROVE  ShiftLeft(x, k, n) \in Int
<1>1. k \in 0 .. MaxWidth /\ BitWidth(n) - k \in 0 .. MaxWidth
  BY WidthOfSize
<1>2. TwoTo(k) \in Nat /\ TwoTo(BitWidth(n) - k) \in Nat \ {0}
  BY <1>1, Powers
<1>3. (x % TwoTo(BitWidth(n) - k)) \in Int
  BY <1>2, DivMod
<1> QED
  BY <1>2, <1>3 DEF ShiftLeft

(* A rotation by up to the width is an integer. *)
LEMMA RotateTyped ==
  ASSUME NEW x \in Int, NEW n \in Sizes, NEW k \in 0 .. BitWidth(n)
  PROVE  Rotate(x, k, n) \in Int
<1>1. BitWidth(n) - k \in 0 .. MaxWidth /\ Modulus(n) \in Nat \ {0}
  BY WidthOfSize
<1>2. TwoTo(BitWidth(n) - k) \in Nat \ {0}
  BY <1>1, Powers
<1>3. (x % Modulus(n)) \in Int
  BY <1>1, DivMod
<1>4. (x % Modulus(n)) \div TwoTo(BitWidth(n) - k) \in Int
  BY <1>2, <1>3, DivMod
<1>5. ShiftLeft(x, k, n) \in Int
  BY ShiftLeftTyped
<1> QED
  BY <1>4, <1>5 DEF Rotate

(* Every operator gives an integer, a division by 0 excepted. *)
LEMMA ApplyTyped ==
  ASSUME NEW op \in Binary \ Comparisons, NEW x \in Int, NEW y \in Int, NEW n \in Sizes,
         op \in Divisions => y # 0
  PROVE  Apply(op, x, y, n) \in Int
<1> DEFINE u == x % Modulus(n)
           v == y % Modulus(n)
           count == y % BitWidth(n)
           back == (BitWidth(n) - count) % BitWidth(n)
<1>1. BitWidth(n) \in Nat \ {0} /\ Modulus(n) \in Nat \ {0} /\ BitWidth(n) <= MaxWidth /\ MaxWidth \in Nat
  BY WidthOfSize
<1>2. u \in Int /\ v \in Int /\ count \in 0 .. BitWidth(n) - 1
  <2>1. u \in 0 .. Modulus(n) - 1
    BY <1>1, DivMod
  <2>2. v \in 0 .. Modulus(n) - 1
    BY <1>1, DivMod
  <2>3. count \in 0 .. BitWidth(n) - 1
    BY <1>1, DivMod
  <2> QED
    BY <1>1, <2>1, <2>2, <2>3
<1>3. back \in 0 .. BitWidth(n) - 1
  <2> HIDE DEF count
  <2>1. BitWidth(n) - count \in Int
    BY <1>1, <1>2
  <2> QED
    BY <1>1, <2>1, DivMod
<1> HIDE DEF u, v, count, back
<1>4. CASE op \in {"Add", "OverflowingAdd", "SatAdd", "Sub", "OverflowingSub", "Mul", "OverflowingMul"}
  BY <1>4 DEF Apply, BitOps, Divisions
<1>5. CASE op \in BitOps
  <2>1. Apply(op, x, y, n) = Bitwise(op, u, v, n)
    BY <1>5 DEF Apply, BitOps, u, v
  <2> QED
    BY <1>2, <1>5, <2>1, BitwiseTyped
<1>6. CASE op \in Divisions
  <2>1. Quotient(x, y) \in Int
    BY <1>6, QuotientTyped
  <2> QED
    BY <1>6, <2>1 DEF Apply, Divisions, BitOps
<1>7. CASE op = "ShiftL"
  <2>1. ShiftLeft(x, count, n) \in Int
    BY <1>1, <1>2, ShiftLeftTyped
  <2> QED
    BY <1>7, <2>1 DEF Apply, BitOps, count
<1>8. CASE op = "ShiftR"
  <2>1. TwoTo(count) \in Nat \ {0}
    BY <1>1, <1>2, Powers
  <2>2. x \div TwoTo(count) \in Int
    BY <2>1, DivMod
  <2> QED
    BY <1>8, <2>2 DEF Apply, BitOps, count
<1>9. CASE op = "RotateLeft"
  <2>1. Rotate(x, count, n) \in Int
    BY <1>1, <1>2, RotateTyped
  <2> QED
    BY <1>9, <2>1 DEF Apply, BitOps, count
<1>10. CASE op = "RotateRight"
  <2>1. Rotate(x, back, n) \in Int
    BY <1>1, <1>3, RotateTyped
  <2> QED
    BY <1>10, <2>1 DEF Apply, BitOps, count, back
<1>11. op \in BitOps \/ op \in Divisions \/ op \in {"ShiftL", "ShiftR", "RotateLeft", "RotateRight",
         "Add", "OverflowingAdd", "SatAdd", "Sub", "OverflowingSub", "Mul", "OverflowingMul"}
  BY DEF Binary, Comparisons, Shifts, Divisions, BitOps, Rotations, Overflowing
<1> QED
  BY <1>4, <1>5, <1>6, <1>7, <1>8, <1>9, <1>10, <1>11

(* Saturation gives an integer. *)
LEMMA ClampTyped ==
  ASSUME NEW v \in Int, NEW n \in Sizes, NEW sign
  PROVE  Clamp(v, n, sign) \in Int
<1>1. Modulus(n) \in Nat \ {0}
  BY WidthOfSize
<1>2. Modulus(n) \div 2 \in Int
  BY <1>1, DivMod
<1>3. Least(n, sign) \in Int /\ Greatest(n, sign) \in Int
  BY <1>1, <1>2 DEF Least, Greatest
<1> QED
  BY <1>3 DEF Clamp

(* count_ones and reverse_bits give integers. *)
LEMMA CountTyped ==
  ASSUME NEW u \in Int, NEW n \in Sizes
  PROVE  CountOnes(u, n) \in Int /\ ReverseBits(u, n) \in Int
<1>1. BitWidth(n) \in Nat /\ \A k \in 0 .. BitWidth(n) - 1 : k \in 0 .. MaxWidth /\ BitWidth(n) - 1 - k \in 0 .. MaxWidth
  BY WidthOfSize
<1>2. \A k \in 0 .. BitWidth(n) - 1 : Bit(u, k) \in Int /\ Bit(u, BitWidth(n) - 1 - k) \in Int
  BY <1>1, BitIs
<1> DEFINE t == [k \in 0 .. BitWidth(n) - 1 |-> Bit(u, k)]
           b == [k \in 0 .. BitWidth(n) - 1 |-> Bit(u, BitWidth(n) - 1 - k)]
<1>3. \A k \in 0 .. BitWidth(n) - 1 : t[k] \in Int /\ b[k] \in Int
  BY <1>2
<1>4. CountOnes(u, n) = SumTo(BitWidth(n), t) /\ ReverseBits(u, n) = FromBits(b, n)
  BY DEF CountOnes, ReverseBits
<1> HIDE DEF t, b
<1>5. SumTo(BitWidth(n), t) \in Int
  BY <1>1, <1>3, SumTyped
<1>6. FromBits(b, n) \in Int
  BY <1>3, FromBitsTyped
<1> QED
  BY <1>4, <1>5, <1>6

--------------------------------------------------------------------------------
(* What each instruction of the interpreter leaves: a machine with the same frame. *)

(* An instruction that goes on to the next, with the same frame. *)
Ran(D, m, r) == \E w : SameFrame(D, m, w) /\ r = Goes(w)

(* Writing a slot of the frame goes on with the same frame. *)
LEMMA PutRan ==
  ASSUME NEW D, NEW m \in Machines(D), NEW slot \in Nat, NEW v \in Int, NEW n \in 0 .. 16
  PROVE  Ran(D, m, Put(m, slot, v, n))
<1>1. At(m, slot) \in Int
  BY DEF At, Machines
<1>2. SameFrame(D, m, Write(m, At(m, slot), v, n))
  BY <1>1, WriteIs
<1> QED
  BY <1>2 DEF Ran, Put

(* Storing bytes goes on with the same frame. *)
LEMMA StoreRan ==
  ASSUME NEW D, NEW m \in Machines(D), NEW addr \in Int, NEW K, NEW bytes \in [K -> Bytes]
  PROVE  Ran(D, m, Goes(Store(m, addr, bytes)))
<1>1. SameFrame(D, m, Store(m, addr, bytes))
  BY StoreIs
<1> QED
  BY <1>1 DEF Ran

(* The operand in a slot: a number of its width, signed or unsigned. *)
LEMMA SlotIs ==
  ASSUME NEW D, NEW m \in Machines(D), NEW slot \in Nat, NEW n \in 1 .. 16, NEW sign,
         Mapped(m, At(m, slot), n)
  PROVE  /\ At(m, slot) \in Int
         /\ Slot(m, slot, n, sign) \in Int
         /\ Slot(m, slot, n, "U") \in 0 .. Modulus(n) - 1
         /\ Slot(m, slot, n, "S") = Signed(Slot(m, slot, n, "U"), n)
         /\ (Slot(m, slot, n, sign) % Modulus(n)) = Slot(m, slot, n, "U")
<1>1. At(m, slot) \in Int
  BY DEF At, Machines
<1>2. /\ Unsigned(m, At(m, slot), n) \in 0 .. Modulus(n) - 1
      /\ Read(m, At(m, slot), n, "S") = Signed(Unsigned(m, At(m, slot), n), n)
      /\ Read(m, At(m, slot), n, sign) \in Int
      /\ (Read(m, At(m, slot), n, sign) % Modulus(n)) = Unsigned(m, At(m, slot), n)
  BY <1>1, ReadIs
<1> QED
  BY <1>1, <1>2 DEF Slot, Unsigned

(* A pointer in a slot is an address. *)
LEMMA PtrIs ==
  ASSUME NEW D, NEW m \in Machines(D), NEW slot \in Nat, Mapped(m, At(m, slot), PtrSize)
  PROVE  Ptr(m, slot) \in Nat
<1>1. PtrSize \in 1 .. 16
  BY DEF PtrSize
<1>2. Slot(m, slot, PtrSize, "U") \in 0 .. Modulus(PtrSize) - 1
  BY <1>1, SlotIs
<1> QED
  BY <1>2 DEF Ptr

(* The operands of a binary instruction in memory are mapped. *)
LEMMA BinaryMapped ==
  ASSUME NEW i, NEW m, i.op \in Binary, InMemory(i, m)
  PROVE  Mapped(m, At(m, i.a), i.size) /\ Mapped(m, At(m, i.b), IF i.op \in Shifts THEN 1 ELSE i.size)
<1>1. FrameBytes(i) = {<<i.a, i.size>>, <<i.b, IF i.op \in Shifts THEN 1 ELSE i.size>>,
          <<i.dst, IF i.op \in Comparisons THEN 1 ELSE IF i.op \in Overflowing THEN i.size + 1 ELSE i.size>>}
  BY DEF FrameBytes, Binary, Unary, Comparisons, Shifts, Divisions, BitOps, Rotations, Overflowing, Control,
         Branches, Stopping
<1>2. <<i.a, i.size>> \in FrameBytes(i) /\ <<i.b, IF i.op \in Shifts THEN 1 ELSE i.size>> \in FrameBytes(i)
  BY <1>1
<1> QED
  BY <1>2 DEF InMemory

Panics(m, r) == r = Stops(m, "panic")

(* The fields of an instruction. *)
LEMMA FieldsTyped ==
  ASSUME NEW i, IsInstr(i)
  PROVE  /\ i.op \in Operations /\ i.size \in Nat /\ i.dst \in Nat /\ i.a \in Nat /\ i.b \in Nat
         /\ i.n \in Int /\ i.off \in Int
         /\ i.op \in Binary \cup Unary \cup {"Const", "Widen"} => i.size \in Sizes
         /\ i.size \in Sizes => i.size \in 1 .. 16 /\ i.size \in 0 .. 16
         /\ i.op = "BoolNot" => i.size = 1
         /\ i.op = "Widen" => i.n \in Sizes /\ i.n \in 1 .. 16 /\ i.n \in Nat
         /\ i.op \in BulkMoves \cup {"ArrayRepeat"} => i.n \in Nat
         /\ 1 \in 1 .. 16 /\ 1 \in 0 .. 16 /\ 4 \in 0 .. 16 /\ PtrSize \in 1 .. 16 /\ PtrSize \in 0 .. 16
<1>1. i.op \in Operations /\ i.size \in Nat /\ i.dst \in Nat /\ i.a \in Nat /\ i.b \in Nat
      /\ i.n \in Int /\ i.off \in Int
  BY DEF IsInstr
<1>2. \A n \in Sizes : n \in 1 .. 16 /\ n \in 0 .. 16 /\ n \in Nat
  BY DEF Sizes
<1>3. /\ i.op \in Binary \cup Unary \cup {"Const", "Widen"} => i.size \in Sizes
      /\ i.op = "BoolNot" => i.size = 1
      /\ i.op = "Widen" => i.n \in Sizes
      /\ i.op \in BulkMoves \cup {"ArrayRepeat"} => i.n \in Nat
  BY DEF IsInstr
<1> QED
  BY <1>1, <1>2, <1>3 DEF PtrSize

(* write_binary and write_shift go on, or panic on a division by 0. *)
LEMMA BinaryRan ==
  ASSUME NEW D, NEW m \in Machines(D), NEW i, IsInstr(i), i.op \in Binary, InMemory(i, m)
  PROVE  Ran(D, m, ExecBinary(i, m)) \/ Panics(m, ExecBinary(i, m))
<1> DEFINE sign == IF i.sign = "" THEN "S" ELSE i.sign
           x == Slot(m, i.a, i.size, sign)
           y == IF i.op \in Shifts THEN Slot(m, i.b, 1, "U") ELSE Slot(m, i.b, i.size, sign)
           z == Apply(i.op, x, y, i.size)
           r == ExecBinary(i, m)
           less == Truth(Compare(i.op, x, y))
           overflow == Truth(z # Clamp(z, i.size, sign))
<1>1. /\ i.size \in Sizes /\ i.size \in 1 .. 16 /\ i.size \in 0 .. 16
      /\ i.dst \in Nat /\ i.a \in Nat /\ i.b \in Nat /\ 1 \in 1 .. 16 /\ 1 \in 0 .. 16
  BY FieldsTyped
<1>2. Mapped(m, At(m, i.a), i.size) /\ Mapped(m, At(m, i.b), IF i.op \in Shifts THEN 1 ELSE i.size)
  BY BinaryMapped
<1>3. x \in Int
  <2> HIDE DEF sign
  <2> QED
    BY <1>1, <1>2, SlotIs
<1>4. y \in Int
  <2> HIDE DEF sign
  <2>1. CASE i.op \in Shifts
    <3>1. Slot(m, i.b, 1, "U") \in Int
      BY <1>1, <1>2, <2>1, SlotIs
    <3> QED
      BY <2>1, <3>1
  <2>2. CASE i.op \notin Shifts
    <3>1. Slot(m, i.b, i.size, sign) \in Int
      BY <1>1, <1>2, <2>2, SlotIs
    <3> QED
      BY <2>2, <3>1
  <2> QED
    BY <2>1, <2>2
<1>5. r = CASE i.op \in Comparisons -> Put(m, i.dst, less, 1)
            [] i.op \in Divisions /\ y = 0 -> Stops(m, "panic")
            [] i.op = "SatAdd" -> Put(m, i.dst, Clamp(z, i.size, sign), i.size)
            [] i.op \in Overflowing ->
                 Goes(Write(Write(m, At(m, i.dst), z, i.size), At(m, i.dst + i.size), overflow, 1))
            [] OTHER -> Put(m, i.dst, z, i.size)
  BY DEF ExecBinary
<1>6. less \in Int /\ overflow \in Int
  BY DEF Truth
<1> HIDE DEF x, y, sign, r, z, less, overflow
<1>7. CASE i.op \in Comparisons
  <2>1. r = Put(m, i.dst, less, 1)
    BY <1>5, <1>7 DEF Comparisons, Divisions, Overflowing
  <2> QED
    BY <1>1, <1>6, <2>1, PutRan DEF r
<1>8. CASE i.op \in Divisions /\ y = 0
  <2>1. r = Stops(m, "panic")
    BY <1>5, <1>8 DEF Divisions, Comparisons, Overflowing
  <2> QED
    BY <2>1 DEF Panics, r
<1>9. CASE i.op \notin Comparisons /\ ~(i.op \in Divisions /\ y = 0)
  <2>1. z \in Int
    BY <1>1, <1>3, <1>4, <1>9, ApplyTyped DEF z
  <2>2. CASE i.op = "SatAdd"
    <3>1. r = Put(m, i.dst, Clamp(z, i.size, sign), i.size)
      BY <1>5, <1>9, <2>2 DEF Divisions, Comparisons, Overflowing
    <3>2. Clamp(z, i.size, sign) \in Int
      BY <1>1, <2>1, ClampTyped
    <3> QED
      BY <1>1, <3>1, <3>2, PutRan DEF r
  <2>3. CASE i.op \in Overflowing
    <3> DEFINE w == Write(m, At(m, i.dst), z, i.size)
    <3>1. r = Goes(Write(w, At(m, i.dst + i.size), overflow, 1))
      BY <1>5, <1>9, <2>3 DEF Overflowing, Divisions
    <3>2. At(m, i.dst) \in Int /\ i.dst + i.size \in Nat /\ i.size \in 0 .. 16
      BY <1>1, <1>6 DEF At, Machines
    <3>3. Ran(D, m, Goes(w))
      BY <1>1, <2>1, PutRan DEF Put
    <3>4. w \in Machines(D) /\ w.base = m.base
      BY <3>3 DEF Ran, Goes, SameFrame
    <3> HIDE DEF w
    <3>5. At(m, i.dst + i.size) = At(w, i.dst + i.size)
      BY <3>4 DEF At
    <3>6. Ran(D, w, Put(w, i.dst + i.size, overflow, 1))
      BY <1>1, <1>6, <3>2, <3>4, PutRan
    <3>7. r = Put(w, i.dst + i.size, overflow, 1)
      BY <3>1, <3>5 DEF Put
    <3> QED
      BY <3>4, <3>6, <3>7 DEF Ran, SameFrame, r
  <2>4. CASE i.op # "SatAdd" /\ i.op \notin Overflowing
    <3>1. r = Put(m, i.dst, z, i.size)
      BY <1>5, <1>9, <2>4
    <3> QED
      BY <1>1, <2>1, <3>1, PutRan DEF r
  <2> QED
    BY <2>2, <2>3, <2>4
<1> QED
  BY <1>7, <1>8, <1>9

(* What an instruction reads of its frame is mapped. *)
LEMMA FrameMapped ==
  ASSUME NEW i, NEW m, InMemory(i, m)
  PROVE  /\ i.op \in Unary => Mapped(m, At(m, i.a), i.size)
         /\ i.op = "Widen" => Mapped(m, At(m, i.a), i.n)
         /\ i.op \in {"MovSS", "MovSSN", "MovPS", "MovPSN"} => Mapped(m, At(m, i.a), MovedBytes(i))
         /\ i.op \in {"MovSP", "MovSPN"} => Mapped(m, At(m, i.a), PtrSize)
         /\ i.op \in {"MovPS", "MovPSN"} => Mapped(m, At(m, i.dst), PtrSize)
         /\ i.op \in {"SlotAddrOffset", "IndexCalcDyn"} => Mapped(m, At(m, i.b), PtrSize)
         /\ i.op \in {"PointerOffset2", "PointerOffset3"} => Mapped(m, At(m, i.a), PtrSize)
         /\ i.op \in {"PointerOffset3", "IndexCalc", "IndexCalcDyn"} => Mapped(m, At(m, i.dst), PtrSize)
         /\ i.op = "IndexCalcEndPointer" => Mapped(m, At(m, i.a), 2 * PtrSize)
         /\ i.op = "ArrayRepeat" => Mapped(m, At(m, i.dst), i.size * i.n)
         /\ i.op \in {"MemCopy", "WriteBytes"} => Mapped(m, At(m, i.dst), PtrSize)
         /\ i.op \in {"MemCopy", "WriteBytes"} => Mapped(m, At(m, i.b), PtrSize)
         /\ i.op = "MemCopy" => Mapped(m, At(m, i.a), PtrSize)
         /\ i.op = "WriteBytes" => Mapped(m, At(m, i.a), 1)
         /\ i.op \in Branches => Mapped(m, At(m, i.a), 1)
<1>1. \A slot, n : <<slot, n>> \in FrameBytes(i) => Mapped(m, At(m, slot), n)
  BY DEF InMemory
<1>2. i.op \in Unary => <<i.a, i.size>> \in FrameBytes(i)
  BY DEF FrameBytes, Unary, Binary, Comparisons, Shifts, Divisions, BitOps, Rotations, Overflowing, Control, Branches, Stopping
<1>3. i.op = "Widen" => <<i.a, i.n>> \in FrameBytes(i)
  BY DEF FrameBytes, Unary, Binary, Comparisons, Shifts, Divisions, BitOps, Rotations, Overflowing, Control, Branches, Stopping
<1>4. i.op \in {"MovSS", "MovSSN", "MovPS", "MovPSN"} => <<i.a, MovedBytes(i)>> \in FrameBytes(i)
  BY DEF FrameBytes, Unary, Binary, Comparisons, Shifts, Divisions, BitOps, Rotations, Overflowing, Control, Branches, Stopping
<1>5. i.op \in {"MovSP", "MovSPN"} => <<i.a, PtrSize>> \in FrameBytes(i)
  BY DEF FrameBytes, Unary, Binary, Comparisons, Shifts, Divisions, BitOps, Rotations, Overflowing, Control, Branches, Stopping
<1>6. i.op \in {"MovPS", "MovPSN"} => <<i.dst, PtrSize>> \in FrameBytes(i)
  BY DEF FrameBytes, Unary, Binary, Comparisons, Shifts, Divisions, BitOps, Rotations, Overflowing, Control, Branches, Stopping
<1>7. i.op \in {"SlotAddrOffset", "IndexCalcDyn"} => <<i.b, PtrSize>> \in FrameBytes(i)
  BY DEF FrameBytes, Unary, Binary, Comparisons, Shifts, Divisions, BitOps, Rotations, Overflowing, Control, Branches, Stopping
<1>8. i.op \in {"PointerOffset2", "PointerOffset3"} => <<i.a, PtrSize>> \in FrameBytes(i)
  BY DEF FrameBytes, Unary, Binary, Comparisons, Shifts, Divisions, BitOps, Rotations, Overflowing, Control, Branches, Stopping
<1>9. i.op \in {"PointerOffset3", "IndexCalc", "IndexCalcDyn"} => <<i.dst, PtrSize>> \in FrameBytes(i)
  BY DEF FrameBytes, Unary, Binary, Comparisons, Shifts, Divisions, BitOps, Rotations, Overflowing, Control, Branches, Stopping
<1>10. i.op = "IndexCalcEndPointer" => <<i.a, 2 * PtrSize>> \in FrameBytes(i)
  BY DEF FrameBytes, Unary, Binary, Comparisons, Shifts, Divisions, BitOps, Rotations, Overflowing, Control, Branches, Stopping
<1>11. i.op = "ArrayRepeat" => <<i.dst, i.size * i.n>> \in FrameBytes(i)
  BY DEF FrameBytes, Unary, Binary, Comparisons, Shifts, Divisions, BitOps, Rotations, Overflowing, Control, Branches, Stopping
<1>12. i.op \in {"MemCopy", "WriteBytes"} => <<i.dst, PtrSize>> \in FrameBytes(i)
  BY DEF FrameBytes, Unary, Binary, Comparisons, Shifts, Divisions, BitOps, Rotations, Overflowing, Control, Branches, Stopping
<1>13. i.op \in {"MemCopy", "WriteBytes"} => <<i.b, PtrSize>> \in FrameBytes(i)
  BY DEF FrameBytes, Unary, Binary, Comparisons, Shifts, Divisions, BitOps, Rotations, Overflowing, Control, Branches, Stopping
<1>14. i.op = "MemCopy" => <<i.a, PtrSize>> \in FrameBytes(i)
  BY DEF FrameBytes, Unary, Binary, Comparisons, Shifts, Divisions, BitOps, Rotations, Overflowing, Control, Branches, Stopping
<1>15. i.op = "WriteBytes" => <<i.a, 1>> \in FrameBytes(i)
  BY DEF FrameBytes, Unary, Binary, Comparisons, Shifts, Divisions, BitOps, Rotations, Overflowing, Control, Branches, Stopping
<1>16. i.op \in Branches => <<i.a, 1>> \in FrameBytes(i)
  BY DEF FrameBytes, Unary, Binary, Comparisons, Shifts, Divisions, BitOps, Rotations, Overflowing, Control, Branches, Stopping
<1> QED
  BY <1>1, <1>2, <1>3, <1>4, <1>5, <1>6, <1>7, <1>8, <1>9, <1>10, <1>11, <1>12, <1>13, <1>14, <1>15, <1>16

(* write_unary goes on. *)
LEMMA UnaryRan ==
  ASSUME NEW D, NEW m \in Machines(D), NEW i, IsInstr(i), i.op \in Unary \ {"TrailingZeros"}, InMemory(i, m)
  PROVE  Ran(D, m, ExecUnary(i, m))
<1> DEFINE x == Slot(m, i.a, i.size, "U")
           r == ExecUnary(i, m)
<1>1. /\ i.size \in Sizes /\ i.size \in 1 .. 16 /\ i.size \in 0 .. 16
      /\ i.dst \in Nat /\ i.a \in Nat /\ 1 \in 0 .. 16 /\ 4 \in 0 .. 16
  BY FieldsTyped
<1>2. x \in Int
  <2>1. Mapped(m, At(m, i.a), i.size)
    BY FrameMapped
  <2> QED
    BY <1>1, <2>1, SlotIs
<1>3. r = CASE i.op = "Neg" -> Put(m, i.dst, -x, i.size)
            [] i.op = "Not" -> Put(m, i.dst, -x - 1, i.size)
            [] i.op = "BoolNot" -> Put(m, i.dst, 1 - x, 1)
            [] i.op = "PopCount" -> Put(m, i.dst, CountOnes(x, i.size), 4)
            [] i.op = "ReverseBits" -> Put(m, i.dst, ReverseBits(x, i.size), i.size)
  BY DEF ExecUnary
<1> HIDE DEF x, r
<1>4. -x \in Int /\ -x - 1 \in Int /\ 1 - x \in Int /\ CountOnes(x, i.size) \in Int /\ ReverseBits(x, i.size) \in Int
  BY <1>1, <1>2, CountTyped
<1>5. CASE i.op = "Neg"
  <2>1. r = Put(m, i.dst, -x, i.size)
    BY <1>3, <1>5
  <2> QED
    BY <1>1, <1>4, <2>1, PutRan DEF r
<1>6. CASE i.op = "Not"
  <2>1. r = Put(m, i.dst, -x - 1, i.size)
    BY <1>3, <1>6
  <2> QED
    BY <1>1, <1>4, <2>1, PutRan DEF r
<1>7. CASE i.op = "BoolNot"
  <2>1. r = Put(m, i.dst, 1 - x, 1)
    BY <1>3, <1>7
  <2> QED
    BY <1>1, <1>4, <2>1, PutRan DEF r
<1>8. CASE i.op = "PopCount"
  <2>1. r = Put(m, i.dst, CountOnes(x, i.size), 4)
    BY <1>3, <1>8
  <2> QED
    BY <1>1, <1>4, <2>1, PutRan DEF r
<1>9. CASE i.op = "ReverseBits"
  <2>1. r = Put(m, i.dst, ReverseBits(x, i.size), i.size)
    BY <1>3, <1>9
  <2> QED
    BY <1>1, <1>4, <2>1, PutRan DEF r
<1> QED
  BY <1>5, <1>6, <1>7, <1>8, <1>9 DEF Unary

(* What a widening leaves: the operand's bytes, then bytes of its sign. *)
LEMMA WidenIs ==
  ASSUME NEW D, NEW m \in Machines(D), NEW i, IsInstr(i), i.op = "Widen", InMemory(i, m)
  PROVE  \E w, fill :
           /\ ExecWiden(i, m) = Goes(w) /\ SameFrame(D, m, w)
           /\ fill = (IF i.sign = "S" /\ Slot(m, i.a, i.n, "S") < 0 THEN Radix - 1 ELSE 0)
           /\ \A t \in D : w.mem[t] = IF t - At(m, i.dst) \in 0 .. i.size - 1
                                      THEN IF t - At(m, i.dst) < i.n
                                           THEN m.mem[At(m, i.a) + (t - At(m, i.dst))] ELSE fill
                                      ELSE m.mem[t]
<1> DEFINE fill == IF i.sign = "S" /\ Slot(m, i.a, i.n, "S") < 0 THEN Radix - 1 ELSE 0
           K == 0 .. i.size - 1
           b == [k \in K |-> IF k < i.n THEN m.mem[At(m, i.a) + k] ELSE fill]
           w == Store(m, At(m, i.dst), b)
<1>1. i.size \in Nat /\ i.n \in Nat /\ At(m, i.a) \in Int /\ At(m, i.dst) \in Int
  BY FieldsTyped DEF At, Machines
<1>2. \A k \in 0 .. i.n - 1 : m.mem[At(m, i.a) + k] \in Bytes
  BY <1>1, FrameMapped, MappedBytes
<1>3. fill \in Bytes
  BY Widths DEF Bytes
<1>4. b \in [K -> Bytes]
  BY <1>1, <1>2, <1>3
<1>5. ExecWiden(i, m) = Goes(w)
  BY DEF ExecWiden
<1>7. \A k \in K : b[k] = IF k < i.n THEN m.mem[At(m, i.a) + k] ELSE fill
  OBVIOUS
<1>8. SameFrame(D, m, w) /\ \A t \in D : w.mem[t] = IF t - At(m, i.dst) \in K THEN b[t - At(m, i.dst)] ELSE m.mem[t]
  <2> HIDE DEF b, K
  <2> QED
    BY <1>1, <1>4, StoreIs
<1>9. fill = (IF i.sign = "S" /\ Slot(m, i.a, i.n, "S") < 0 THEN Radix - 1 ELSE 0)
  OBVIOUS
<1>10. \A t \in D : w.mem[t] = IF t - At(m, i.dst) \in 0 .. i.size - 1
                               THEN IF t - At(m, i.dst) < i.n
                                    THEN m.mem[At(m, i.a) + (t - At(m, i.dst))] ELSE fill
                               ELSE m.mem[t]
  <2> HIDE DEF b, w, fill
  <2> QED
    BY <1>7, <1>8
<1> HIDE DEF w, fill
<1> QED
  BY <1>5, <1>8, <1>9, <1>10

(* write_widen goes on. *)
LEMMA WidenRan ==
  ASSUME NEW D, NEW m \in Machines(D), NEW i, IsInstr(i), i.op = "Widen", InMemory(i, m)
  PROVE  Ran(D, m, ExecWiden(i, m))
<1>1. \E w : ExecWiden(i, m) = Goes(w) /\ SameFrame(D, m, w)
  BY WidenIs
<1> QED
  BY <1>1 DEF Ran

(* One copy goes on. *)
LEMMA MoveRan ==
  ASSUME NEW D, NEW m \in Machines(D), NEW dst \in Int, NEW src \in Int, NEW n \in Nat, Mapped(m, src, n)
  PROVE  Ran(D, m, Move(m, dst, src, n))
BY CopyIs DEF Ran, Move

(* The moves through slots and pointers, single and bulk, go on. *)
LEMMA MovesRan ==
  ASSUME NEW D, NEW m \in Machines(D), NEW i, IsInstr(i), i.op \in Moves \cup BulkMoves, InMemory(i, m)
  PROVE  Ran(D, m, ExecMove(i, m))
<1>1. /\ i.size \in Nat /\ i.dst \in Nat /\ i.a \in Nat /\ i.off \in Int
      /\ At(m, i.a) \in Int /\ At(m, i.dst) \in Int
  BY FieldsTyped DEF At, Machines
<1>2. MovedBytes(i) = IF i.op \in BulkMoves THEN i.size * i.n ELSE i.size
  BY DEF MovedBytes
<1>3. i.op \in {"MovSP", "MovSPN"} => Ptr(m, i.a) \in Nat /\ Ptr(m, i.a) + i.off \in Int
  BY <1>1, FrameMapped, PtrIs
<1>4. i.op \in {"MovPS", "MovPSN"} => Ptr(m, i.dst) \in Nat /\ Ptr(m, i.dst) + i.off \in Int
  BY <1>1, FrameMapped, PtrIs
<1>5. i.op \in {"MovSS", "MovSSN", "MovPS", "MovPSN"} => Mapped(m, At(m, i.a), MovedBytes(i))
  BY FrameMapped
<1>6. i.op \in {"MovSP", "MovSPN"} => Mapped(m, Ptr(m, i.a) + i.off, MovedBytes(i))
  <2>1. i.op \in {"MovSP", "MovSPN"} => <<Ptr(m, i.a) + i.off, MovedBytes(i)>> \in PointedBytes(i, m)
    BY DEF PointedBytes
  <2> QED
    BY <2>1 DEF InMemory
<1>7. i.op \in BulkMoves => i.n \in Nat
  BY FieldsTyped
<1>8. CASE i.op = "MovSS"
  <2>1. ExecMove(i, m) = Move(m, At(m, i.dst), At(m, i.a), i.size) /\ MovedBytes(i) = i.size
    BY <1>2, <1>8 DEF ExecMove, BulkMoves
  <2> QED
    BY <1>1, <1>5, <1>8, <2>1, MoveRan
<1>9. CASE i.op = "MovSP"
  <2>1. ExecMove(i, m) = Move(m, At(m, i.dst), Ptr(m, i.a) + i.off, i.size) /\ MovedBytes(i) = i.size
    BY <1>2, <1>9 DEF ExecMove, BulkMoves
  <2> QED
    BY <1>1, <1>3, <1>6, <1>9, <2>1, MoveRan
<1>10. CASE i.op = "MovPS"
  <2>1. ExecMove(i, m) = Move(m, Ptr(m, i.dst) + i.off, At(m, i.a), i.size) /\ MovedBytes(i) = i.size
    BY <1>2, <1>10 DEF ExecMove, BulkMoves
  <2> QED
    BY <1>1, <1>4, <1>5, <1>10, <2>1, MoveRan
<1>11. CASE i.op = "MovSSN"
  <2>1. ExecMove(i, m) = MoveItems(m, At(m, i.dst), At(m, i.a), i.size, i.n)
        /\ MovedBytes(i) = i.size * i.n /\ i.n \in Nat
    BY <1>2, <1>7, <1>11 DEF ExecMove, BulkMoves
  <2>2. Mapped(m, At(m, i.a), i.size * i.n)
    BY <1>5, <1>11, <2>1
  <2>3. \E w : SameFrame(D, m, w) /\ MoveItems(m, At(m, i.dst), At(m, i.a), i.size, i.n) = Goes(w)
    BY <1>1, <2>1, <2>2, MovesItems
  <2> QED
    BY <2>1, <2>3 DEF Ran
<1>12. CASE i.op = "MovSPN"
  <2>1. ExecMove(i, m) = MoveItems(m, At(m, i.dst), Ptr(m, i.a) + i.off, i.size, i.n)
        /\ MovedBytes(i) = i.size * i.n /\ i.n \in Nat
    BY <1>2, <1>7, <1>12 DEF ExecMove, BulkMoves
  <2>2. Mapped(m, Ptr(m, i.a) + i.off, i.size * i.n)
    BY <1>6, <1>12, <2>1
  <2>3. \E w : SameFrame(D, m, w) /\ MoveItems(m, At(m, i.dst), Ptr(m, i.a) + i.off, i.size, i.n) = Goes(w)
    BY <1>1, <1>3, <1>12, <2>1, <2>2, MovesItems
  <2> QED
    BY <2>1, <2>3 DEF Ran
<1>13. CASE i.op = "MovPSN"
  <2>1. ExecMove(i, m) = MoveItems(m, Ptr(m, i.dst) + i.off, At(m, i.a), i.size, i.n)
        /\ MovedBytes(i) = i.size * i.n /\ i.n \in Nat
    BY <1>2, <1>7, <1>13 DEF ExecMove, BulkMoves
  <2>2. Mapped(m, At(m, i.a), i.size * i.n)
    BY <1>5, <1>13, <2>1
  <2>3. \E w : SameFrame(D, m, w) /\ MoveItems(m, Ptr(m, i.dst) + i.off, At(m, i.a), i.size, i.n) = Goes(w)
    BY <1>1, <1>4, <1>13, <2>1, <2>2, MovesItems
  <2> QED
    BY <2>1, <2>3 DEF Ran
<1> QED
  BY <1>8, <1>9, <1>10, <1>11, <1>12, <1>13 DEF Moves, BulkMoves

(* The address computations go on, or panic at a bounds check. *)
LEMMA AddressRan ==
  ASSUME NEW D, NEW m \in Machines(D), NEW i, IsInstr(i), i.op \in Addressing, InMemory(i, m)
  PROVE  Ran(D, m, ExecAddress(i, m)) \/ Panics(m, ExecAddress(i, m))
<1> DEFINE pa == Ptr(m, i.a)
           pb == Ptr(m, i.b)
           pd == Ptr(m, i.dst)
           len == Ptr(m, i.a + PtrSize)
           r == ExecAddress(i, m)
<1>1. /\ i.size \in Nat /\ i.dst \in Nat /\ i.a \in Nat /\ i.b \in Nat /\ i.off \in Int /\ i.n \in Int
      /\ At(m, i.a) \in Int /\ PtrSize \in 0 .. 16
  BY FieldsTyped DEF At, Machines
<1>2. i.op \in {"SlotAddrOffset", "IndexCalcDyn"} => pb \in Nat
  BY <1>1, FrameMapped, PtrIs
<1>3. i.op \in {"PointerOffset2", "PointerOffset3"} => pa \in Nat
  BY <1>1, FrameMapped, PtrIs
<1>4. i.op \in {"PointerOffset3", "IndexCalc", "IndexCalcDyn"} => pd \in Nat
  BY <1>1, FrameMapped, PtrIs
<1>5. i.op = "IndexCalcEndPointer" => pa \in Nat /\ len \in Nat
  <2>1. ASSUME i.op = "IndexCalcEndPointer" PROVE Mapped(m, At(m, i.a), PtrSize) /\ Mapped(m, At(m, i.a + PtrSize), PtrSize)
    <3>1. Mapped(m, At(m, i.a), 2 * PtrSize)
      BY <2>1, FrameMapped
    <3>2. At(m, i.a + PtrSize) = At(m, i.a) + PtrSize
      BY <1>1 DEF At, PtrSize, Machines
    <3>3. \A x : x \in At(m, i.a) .. At(m, i.a) + PtrSize - 1 \/ x \in At(m, i.a) + PtrSize .. (At(m, i.a) + PtrSize) + PtrSize - 1
                 => x \in At(m, i.a) .. At(m, i.a) + 2 * PtrSize - 1
      BY <1>1 DEF PtrSize
    <3> QED
      BY <3>1, <3>2, <3>3 DEF Mapped
  <2>2. i.a + PtrSize \in Nat
    BY <1>1 DEF PtrSize
  <2> QED
    BY <1>1, <2>1, <2>2, PtrIs
<1>6. r = CASE i.op = "SlotAddr" -> Put(m, i.dst, At(m, i.a), PtrSize)
            [] i.op = "SlotAddrOffset" -> Put(m, i.dst, At(m, i.a) + pb, PtrSize)
            [] i.op = "PointerOffset3" -> Put(m, i.dst, pd + pa + i.off, PtrSize)
            [] i.op = "PointerOffset2" -> Put(m, i.dst, pa + i.off, PtrSize)
            [] i.op = "IndexCalc" -> Indexed(m, i.dst, i.size, i.n)
            [] i.op = "IndexCalcDyn" -> Indexed(m, i.dst, i.size, pb)
            [] i.op = "IndexCalcEndPointer" -> Put(m, i.dst, pa + len * i.size, PtrSize)
  BY DEF ExecAddress
<1>7. \A n : Indexed(m, i.dst, i.size, n) = IF pd >= n THEN Stops(m, "panic") ELSE Put(m, i.dst, pd * i.size, PtrSize)
  BY DEF Indexed
<1> HIDE DEF pa, pb, pd, len, r
<1>8. \A v \in Int : Ran(D, m, Put(m, i.dst, v, PtrSize))
  BY <1>1, PutRan
<1>9. ASSUME NEW n, pd \in Nat PROVE LET x == Indexed(m, i.dst, i.size, n) IN Ran(D, m, x) \/ Panics(m, x)
  <2>1. pd * i.size \in Int
    BY <1>1, <1>9
  <2> QED
    BY <1>7, <1>8, <2>1 DEF Panics
<1>10. CASE i.op = "SlotAddr"
  <2>1. r = Put(m, i.dst, At(m, i.a), PtrSize)
    BY <1>6, <1>10
  <2> QED
    BY <1>1, <1>8, <2>1 DEF r
<1>11. CASE i.op = "SlotAddrOffset"
  <2>1. r = Put(m, i.dst, At(m, i.a) + pb, PtrSize) /\ At(m, i.a) + pb \in Int
    BY <1>1, <1>2, <1>6, <1>11
  <2> QED
    BY <1>8, <2>1 DEF r
<1>12. CASE i.op = "PointerOffset3"
  <2>1. r = Put(m, i.dst, pd + pa + i.off, PtrSize) /\ pd + pa + i.off \in Int
    BY <1>1, <1>3, <1>4, <1>6, <1>12
  <2> QED
    BY <1>8, <2>1 DEF r
<1>13. CASE i.op = "PointerOffset2"
  <2>1. r = Put(m, i.dst, pa + i.off, PtrSize) /\ pa + i.off \in Int
    BY <1>1, <1>3, <1>6, <1>13
  <2> QED
    BY <1>8, <2>1 DEF r
<1>14. CASE i.op = "IndexCalc"
  <2>1. r = Indexed(m, i.dst, i.size, i.n)
    BY <1>6, <1>14
  <2> QED
    BY <1>4, <1>9, <1>14, <2>1 DEF r
<1>15. CASE i.op = "IndexCalcDyn"
  <2>1. r = Indexed(m, i.dst, i.size, pb)
    BY <1>6, <1>15
  <2> QED
    BY <1>4, <1>9, <1>15, <2>1 DEF r
<1>16. CASE i.op = "IndexCalcEndPointer"
  <2>1. r = Put(m, i.dst, pa + len * i.size, PtrSize) /\ pa + len * i.size \in Int
    <3>1. len * i.size \in Int
      BY <1>1, <1>5, <1>16
    <3> QED
      BY <1>5, <1>6, <1>16, <3>1
  <2> QED
    BY <1>8, <2>1 DEF r
<1> QED
  BY <1>10, <1>11, <1>12, <1>13, <1>14, <1>15, <1>16 DEF Addressing

(* ArrayRepeat, MemCopy and WriteBytes go on. *)
LEMMA FillingRan ==
  ASSUME NEW D, NEW m \in Machines(D), NEW i, IsInstr(i), i.op \in Filling, InMemory(i, m)
  PROVE  Ran(D, m, ExecBytes(i, m))
<1>1. /\ i.size \in Nat /\ i.dst \in Nat /\ i.a \in Nat /\ i.b \in Nat /\ At(m, i.dst) \in Int
      /\ (i.op = "ArrayRepeat" => i.n \in Nat) /\ 1 \in 1 .. 16
  BY FieldsTyped DEF At, Machines
<1>2. CASE i.op = "ArrayRepeat"
  <2> DEFINE K == 0 .. (i.n - 1) * i.size - 1
             b == [k \in K |-> m.mem[At(m, i.dst) + (k % i.size)]]
  <2>1. Mapped(m, At(m, i.dst), i.size * i.n)
    BY <1>2, FrameMapped
  <2>2. i.size * i.n \in Nat
    BY <1>1, <1>2
  <2>3. \A k \in 0 .. i.size * i.n - 1 : m.mem[At(m, i.dst) + k] \in Bytes
    <3> DEFINE n == i.size * i.n
    <3> HIDE DEF n
    <3>1. n \in Nat /\ Mapped(m, At(m, i.dst), n)
      BY <2>1, <2>2 DEF n
    <3>2. \A k \in 0 .. n - 1 : m.mem[At(m, i.dst) + k] \in Bytes
      BY <1>1, <3>1, MappedBytes
    <3> QED
      BY <3>2 DEF n
  <2>4. ASSUME NEW k \in K PROVE (k % i.size) \in 0 .. i.size * i.n - 1
    <3>1. (i.n - 1) * i.size > 0 /\ k \in Int
      BY <1>1, <1>2
    <3>2. i.size \in Nat \ {0} /\ i.n \in Nat \ {0}
      BY <1>1, <1>2, <3>1
    <3>3. (k % i.size) \in 0 .. i.size - 1
      BY <3>1, <3>2, DivMod
    <3>4. i.size <= i.size * i.n /\ i.size * i.n \in Nat
      BY <3>2
    <3> QED
      BY <3>2, <3>3, <3>4
  <2>5. b \in [K -> Bytes]
    <3> HIDE DEF K
    <3> QED
      BY <2>3, <2>4
  <2>6. ExecBytes(i, m) = Goes(Store(m, At(m, i.dst) + i.size, b)) /\ At(m, i.dst) + i.size \in Int
    BY <1>1, <1>2 DEF ExecBytes
  <2> HIDE DEF K, b
  <2> QED
    BY <2>5, <2>6, StoreRan
<1>3. CASE i.op = "MemCopy"
  <2> DEFINE pd == Ptr(m, i.dst)
             pa == Ptr(m, i.a)
             pb == Ptr(m, i.b)
  <2>1. pd \in Nat /\ pa \in Nat /\ pb \in Nat
    BY <1>1, <1>3, FrameMapped, PtrIs
  <2>2. ExecBytes(i, m) = MoveItems(m, pd, pa, 1, pb)
    BY <1>3 DEF ExecBytes
  <2>3. Mapped(m, pa, pb)
    <3>1. <<pa, pb>> \in PointedBytes(i, m)
      BY <1>3 DEF PointedBytes
    <3> QED
      BY <3>1 DEF InMemory
  <2> HIDE DEF pd, pa, pb
  <2>4. Mapped(m, pa, 1 * pb)
    BY <2>1, <2>3
  <2>5. \E w : SameFrame(D, m, w) /\ MoveItems(m, pd, pa, 1, pb) = Goes(w)
    BY <2>1, <2>4, MovesItems
  <2> QED
    BY <2>2, <2>5 DEF Ran
<1>4. CASE i.op = "WriteBytes"
  <2> DEFINE K == 0 .. Ptr(m, i.b) * i.size - 1
             v == Slot(m, i.a, 1, "U")
             b == [k \in K |-> v]
  <2>1. v \in Bytes
    <3>1. v \in 0 .. Modulus(1) - 1
      BY <1>1, <1>4, FrameMapped, SlotIs
    <3> QED
      BY <3>1, Widths DEF Bytes
  <2>2. b \in [K -> Bytes]
    BY <2>1
  <2>3. Ptr(m, i.dst) \in Int
    BY <1>1, <1>4, FrameMapped, PtrIs
  <2>4. ExecBytes(i, m) = Goes(Store(m, Ptr(m, i.dst), b))
    BY <1>4 DEF ExecBytes
  <2> HIDE DEF K, v, b
  <2> QED
    BY <2>2, <2>3, <2>4, StoreRan
<1> QED
  BY <1>2, <1>3, <1>4 DEF Filling

(* An instruction goes on to the next one or jumps, calls, or stops. *)
Executes(D, i, m, r) ==
  \/ Ran(D, m, r) /\ i.op \notin {"Jump", "Call"} \cup Stopping
  \/ r = Jumps(m, i.off) /\ i.op \in {"Jump"} \cup Branches
  \/ r = Calls(m) /\ i.op = "Call"
  \/ r.m = m /\ r.status \in {"return", "panic", "nyi"} /\ i.op # "Call"

(* Jumps, calls and returns leave the machine as it is. *)
LEMMA ControlExecutes ==
  ASSUME NEW D, NEW m \in Machines(D), NEW i, i.op \in Control
  PROVE  Executes(D, i, m, ExecJump(i, m))
<1>1. Ran(D, m, Goes(m))
  BY DEF Ran, SameFrame
<1>2. CASE i.op = "Jump"
  BY <1>2 DEF Executes, ExecJump
<1>3. CASE i.op \in Branches
  BY <1>1, <1>3 DEF Executes, ExecJump, Branches, Stopping
<1>4. CASE i.op = "Call"
  BY <1>4 DEF Executes, ExecJump
<1>5. CASE i.op \in Stopping
  <2>1. ExecJump(i, m) \in {Stops(m, "return"), Stops(m, "panic")}
    BY <1>5 DEF ExecJump, Stopping
  <2> QED
    BY <1>5, <2>1 DEF Executes, Stops, Stopping
<1> QED
  BY <1>2, <1>3, <1>4, <1>5 DEF Control

(* The arm of the match that an operation takes. *)
LEMMA Dispatch ==
  ASSUME NEW i, NEW m
  PROVE  /\ Unimplemented(i) => Exec(i, m) = Stops(m, "nyi")
         /\ ~Unimplemented(i) =>
              /\ i.op = "Const" => Exec(i, m) = Put(m, i.dst, i.n, i.size)
              /\ i.op = "Widen" => Exec(i, m) = ExecWiden(i, m)
              /\ i.op \in Unary => Exec(i, m) = ExecUnary(i, m)
              /\ i.op \in Moves \cup BulkMoves => Exec(i, m) = ExecMove(i, m)
              /\ i.op \in Addressing => Exec(i, m) = ExecAddress(i, m)
              /\ i.op \in Filling => Exec(i, m) = ExecBytes(i, m)
              /\ i.op \in Control => Exec(i, m) = ExecJump(i, m)
              /\ i.op \in Binary => Exec(i, m) = ExecBinary(i, m)
<1> USE DEF Unary, Moves, BulkMoves, Addressing, Filling, Control, Branches, Stopping, Binary, Comparisons,
            Shifts, Divisions, BitOps, Rotations, Overflowing
<1>1. CASE Unimplemented(i)
  BY <1>1 DEF Exec, Unimplemented
<1>2. CASE ~Unimplemented(i)
  BY <1>2 DEF Exec
<1> QED
  BY <1>1, <1>2

(* An instruction that goes on to the next one, or panics. *)
LEMMA RanExecutes ==
  ASSUME NEW D, NEW m, NEW i, NEW r, i.op \notin Control, Ran(D, m, r) \/ Panics(m, r)
  PROVE  Executes(D, i, m, r)
<1>1. i.op \notin {"Jump", "Call"} \cup Stopping /\ i.op # "Call"
  BY DEF Control
<1>2. Panics(m, r) => r.m = m /\ r.status \in {"return", "panic", "nyi"}
  BY DEF Panics, Stops
<1> QED
  BY <1>1, <1>2 DEF Executes

(* Every instruction whose operands are in memory leaves a machine with the same frame
   and goes on to the next one, jumps by its offset, calls, or stops: the generated
   match of build.rs has an outcome for every operand. *)
THEOREM InstructionExecutes ==
  ASSUME NEW D, NEW m \in Machines(D), NEW i, IsInstr(i), InMemory(i, m)
  PROVE  Executes(D, i, m, Exec(i, m))
<1>1. /\ i.op \in Operations /\ i.dst \in Nat /\ i.n \in Int /\ i.size \in Nat
      /\ i.op = "Const" => i.size \in 0 .. 16
  BY FieldsTyped
<1>2. CASE Unimplemented(i)
  <2>1. Exec(i, m) = Stops(m, "nyi")
    BY <1>2, Dispatch
  <2>2. i.op # "Call"
    BY <1>2 DEF Unimplemented
  <2> QED
    BY <2>1, <2>2 DEF Executes, Stops
<1>3. CASE ~Unimplemented(i) /\ i.op \in Control
  BY <1>3, Dispatch, ControlExecutes
<1>4. CASE ~Unimplemented(i) /\ i.op \notin Control
  <2>1. CASE i.op = "Const"
    BY <1>1, <1>4, <2>1, Dispatch, PutRan, RanExecutes
  <2>2. CASE i.op = "Widen"
    BY <1>4, <2>2, Dispatch, WidenRan, RanExecutes
  <2>3. CASE i.op \in Unary
    <3>1. i.op \in Unary \ {"TrailingZeros"}
      BY <1>4, <2>3 DEF Unimplemented
    <3> QED
      BY <1>4, <2>3, <3>1, Dispatch, UnaryRan, RanExecutes
  <2>4. CASE i.op \in Moves \cup BulkMoves
    BY <1>4, <2>4, Dispatch, MovesRan, RanExecutes
  <2>5. CASE i.op \in Addressing
    BY <1>4, <2>5, Dispatch, AddressRan, RanExecutes
  <2>6. CASE i.op \in Filling
    BY <1>4, <2>6, Dispatch, FillingRan, RanExecutes
  <2>7. CASE i.op \in Binary
    BY <1>4, <2>7, Dispatch, BinaryRan, RanExecutes
  <2> QED
    BY <1>1, <1>4, <2>1, <2>2, <2>3, <2>4, <2>5, <2>6, <2>7 DEF Operations
<1> QED
  BY <1>2, <1>3, <1>4

--------------------------------------------------------------------------------
(* The interpreter.                                                            *)

(* Each run of the programs is one that the compiler may hand over. *)
RunsLoadable == \A p \in Programs : \A r \in RunsOf(p) : Loadable(r)

Addresses == 0 .. MemorySize - 1

(* Frames are aligned, and a call at an aligned slot keeps them so. *)
LEMMA Setup ==
  /\ CallAlign \in Nat \ {0} /\ StackBase \in FrameBases
  /\ Memory = [Addresses -> Bytes]
  /\ \A a \in FrameBases, d \in Nat : (d % CallAlign) = 0 => a + d \in FrameBases
<1>1. CallAlign \in Nat \ {0}
  BY DEF CallAlign
<1>2. StackBase \in FrameBases
  BY InterpreterAssumption DEF FrameBases
<1>3. Memory = [Addresses -> Bytes]
  BY DEF Memory, Addresses, Bytes
<1>4. ASSUME NEW a \in FrameBases, NEW d \in Nat, (d % CallAlign) = 0
      PROVE  a + d \in FrameBases
  <2>1. a \in Nat /\ a \in Int /\ (a % CallAlign) = 0
    BY DEF FrameBases
  <2> DEFINE q == d \div CallAlign
  <2>2. d = CallAlign * q /\ q \in Int
    BY <1>1, <1>4, DivMod
  <2> HIDE DEF q
  <2>3. ((a + CallAlign * q) % CallAlign) = (a % CallAlign)
    BY <1>1, <2>1, <2>2, AddMultiple
  <2>4. ((a + d) % CallAlign) = 0
    BY <2>1, <2>2, <2>3
  <2> QED
    BY <2>1, <2>4 DEF FrameBases
<1> QED
  BY <1>1, <1>2, <1>3, <1>4

(* call_root starts with a machine that is in order. *)
LEMMA StartOK ==
  ASSUME RunsLoadable, Start
  PROVE  MachineOK
<1>0. PICK p \in Programs : \E r \in RunsOf(p) :
        /\ code = r.code /\ machine = r.machine
        /\ frames = <<[fn |-> 1, pc |-> 1, base |-> StackBase]>>
        /\ status = "run" /\ steps = 0
  BY DEF Start
<1>1. PICK r \in RunsOf(p) :
        /\ code = r.code /\ machine = r.machine
        /\ frames = <<[fn |-> 1, pc |-> 1, base |-> StackBase]>>
        /\ status = "run" /\ steps = 0
  BY <1>0
<1>2. Loadable(r)
  BY <1>1 DEF RunsLoadable
<1>3. WellFormed(code) /\ machine \in [mem : Memory, base : {StackBase}]
  BY <1>1, <1>2 DEF Loadable
<1>4. machine \in [mem : Memory, base : FrameBases] /\ machine.base = StackBase
  BY <1>3, Setup
<1>5. Len(code) \in Nat \ {0} /\ 1 \in 1 .. Len(code) /\ 1 \in 1 .. Len(code[1])
  BY <1>3 DEF WellFormed
<1> DEFINE F == [fn : 1 .. Len(code), pc : Nat, base : FrameBases]
           first == [fn |-> 1, pc |-> 1, base |-> StackBase]
<1>6. first \in F /\ first.base = StackBase /\ first.fn = 1 /\ first.pc = 1
  BY <1>5, Setup
<1> HIDE DEF F, first
<1>7. frames = <<first>> /\ frames \in Seq(F) /\ Len(frames) = 1 /\ frames[1] = first
  BY <1>1, <1>6 DEF first
<1>8. \A k \in 1 .. Len(frames) : frames[k].pc \in 1 .. Len(code[frames[k].fn])
  BY <1>5, <1>6, <1>7
<1>9. steps \in 0 .. MaxSteps
  BY <1>1, InterpreterAssumption
<1> QED
  BY <1>1, <1>3, <1>4, <1>6, <1>7, <1>8, <1>9 DEF MachineOK, Depth, Frame, F

(* The instruction that runs, and what running it comes to. *)
Ready ==
  /\ Current = code[Frame.fn][Frame.pc] /\ IsInstr(Current) /\ GoesOn(code, Frame.fn, Frame.pc)
  /\ Depth \in Nat \ {0} /\ frames \in Seq([fn : 1 .. Len(code), pc : Nat, base : FrameBases])
  /\ Frame \in [fn : 1 .. Len(code), pc : Nat, base : FrameBases] /\ Frame = frames[Depth]
  /\ Frame.pc \in 1 .. Len(code[Frame.fn])
  /\ machine \in Machines(Addresses) /\ machine.base = Frame.base

(* A machine that is in order is at an instruction, with bytes in its memory. *)
LEMMA RunningReady ==
  ASSUME MachineOK
  PROVE  Ready
<1> DEFINE F == [fn : 1 .. Len(code), pc : Nat, base : FrameBases]
<1>1. frames \in Seq(F) /\ Depth \in Nat \ {0} /\ Depth = Len(frames)
  BY DEF MachineOK, Depth
<1>2. Frame = frames[Depth] /\ Frame \in F
  <2> HIDE DEF F
  <2> QED
    BY <1>1 DEF Frame
<1>3. Frame.pc \in 1 .. Len(code[Frame.fn]) /\ Frame.fn \in 1 .. Len(code)
  BY <1>1, <1>2 DEF MachineOK, Depth
<1>4. IsInstr(Current) /\ GoesOn(code, Frame.fn, Frame.pc)
  BY <1>3 DEF MachineOK, WellFormed, Current
<1>5. machine \in Machines(Addresses) /\ machine.base = Frame.base
  BY Setup DEF MachineOK, Machines, FrameBases
<1> QED
  BY <1>1, <1>2, <1>3, <1>4, <1>5 DEF Ready, Current

(* The frame that runs is at another instruction of its function. *)
LEMMA AdvanceOK ==
  ASSUME MachineOK, Ready, NEW r, SameFrame(Addresses, machine, r.m), Advance(r), UNCHANGED code,
         r.skip \in Int, Frame.pc + r.skip \in 1 .. Len(code[Frame.fn]), steps' \in 0 .. MaxSteps
  PROVE  MachineOK'
<1> DEFINE F == [fn : 1 .. Len(code), pc : Nat, base : FrameBases]
           next == [frames[Depth] EXCEPT !.pc = @ + r.skip]
<1>1. /\ machine' = r.m /\ status' = status
      /\ frames' = [frames EXCEPT ![Depth] = next]
  BY DEF Advance
<1>2. /\ frames \in Seq(F) /\ Depth \in Nat \ {0} /\ Depth = Len(frames) /\ frames[Depth] \in F
      /\ Frame = frames[Depth]
  BY DEF Ready, Depth
<1>3. next \in F /\ next.fn = Frame.fn /\ next.pc = Frame.pc + r.skip /\ next.base = Frame.base
  BY <1>2
<1> HIDE DEF F, next
<1>4. frames' \in Seq(F) /\ Len(frames') = Depth
  BY <1>1, <1>2, <1>3
<1>5. frames'[Depth] = next /\ \A k \in 1 .. Depth : k # Depth => frames'[k] = frames[k]
  BY <1>1, <1>2
<1>6. \A k \in 1 .. Depth : frames'[k].pc \in 1 .. Len(code[frames'[k].fn])
  BY <1>2, <1>3, <1>5 DEF MachineOK
<1>7. machine' \in [mem : Memory, base : FrameBases] /\ machine'.base = machine.base
  <2>1. machine' \in Machines(Addresses) /\ machine'.base = machine.base /\ machine.base \in FrameBases
    BY <1>1 DEF SameFrame, MachineOK
  <2> QED
    BY <2>1, Setup DEF Machines
<1>8. WellFormed(code') /\ Depth' = Depth /\ Frame' = next /\ Depth > 0 /\ code' = code
  BY <1>2, <1>4, <1>5 DEF MachineOK, Depth, Frame
<1>9. machine'.base = Frame'.base
  BY <1>3, <1>7, <1>8 DEF Ready
<1>10. status' \in {"run", "done", "panic", "nyi", "fault"}
  BY <1>1 DEF MachineOK
<1> QED
  BY <1>4, <1>6, <1>7, <1>8, <1>9, <1>10 DEF MachineOK, F

(* A call starts the callee at its first instruction, on an aligned frame. *)
LEMMA EnterOK ==
  ASSUME MachineOK, Ready, NEW r, Enter(r), UNCHANGED code, Current.op = "Call", steps' \in 0 .. MaxSteps
  PROVE  MachineOK'
<1> DEFINE F == [fn : 1 .. Len(code), pc : Nat, base : FrameBases]
           next == [frames[Depth] EXCEPT !.pc = @ + 1]
           to == machine.base + Current.dst
           callee == [fn |-> Current.n, pc |-> 1, base |-> to]
           caller == [frames EXCEPT ![Depth] = next]
<1>1. /\ machine' = [machine EXCEPT !.base = to] /\ status' = status
      /\ frames' = Append(caller, callee)
  BY DEF Enter
<1>2. /\ frames \in Seq(F) /\ Depth \in Nat \ {0} /\ Depth = Len(frames) /\ frames[Depth] \in F
      /\ Frame = frames[Depth]
  BY DEF Ready, Depth
<1>3. /\ Frame.pc + 1 \in 1 .. Len(code[Frame.fn])
      /\ Current.n \in 1 .. Len(code) /\ (Current.dst % CallAlign) = 0
  BY DEF Ready, GoesOn, Stopping
<1>4. next \in F /\ next.fn = Frame.fn /\ next.pc = Frame.pc + 1
  BY <1>2
<1>5. to \in FrameBases
  BY <1>3, Setup, FieldsTyped DEF Ready, MachineOK
<1>6. callee \in F /\ callee.pc = 1 /\ callee.fn = Current.n /\ callee.base = to
  BY <1>3, <1>5
<1>7. 1 \in 1 .. Len(code[Current.n])
  BY <1>3 DEF MachineOK, WellFormed
<1> HIDE DEF F, next, callee, to
<1>8. caller \in Seq(F) /\ Len(caller) = Depth /\ caller[Depth] = next
      /\ \A k \in 1 .. Depth : k # Depth => caller[k] = frames[k]
  BY <1>2, <1>4
<1> HIDE DEF caller
<1>9. frames' \in Seq(F) /\ Len(frames') = Depth + 1 /\ frames'[Depth + 1] = callee
      /\ \A k \in 1 .. Depth : frames'[k] = caller[k]
  BY <1>1, <1>2, <1>6, <1>8
<1>10. ASSUME NEW k \in 1 .. Depth + 1
       PROVE  frames'[k].pc \in 1 .. Len(code[frames'[k].fn])
  <2>1. CASE k = Depth + 1
    BY <1>6, <1>7, <1>9, <2>1
  <2>2. CASE k = Depth
    BY <1>2, <1>3, <1>4, <1>8, <1>9, <2>2
  <2>3. CASE k \in 1 .. Depth /\ k # Depth
    <3>1. frames'[k] = frames[k]
      BY <1>8, <1>9, <2>3
    <3> QED
      BY <2>3, <3>1 DEF MachineOK
  <2> QED
    BY <1>2, <2>1, <2>2, <2>3
<1>11. machine' \in [mem : Memory, base : FrameBases] /\ machine'.base = to
  BY <1>1, <1>5 DEF MachineOK
<1>12. WellFormed(code') /\ Depth' = Depth + 1 /\ Frame' = callee /\ Depth' > 0 /\ code' = code
  BY <1>2, <1>9 DEF MachineOK, Depth, Frame
<1>13. machine'.base = Frame'.base
  BY <1>6, <1>11, <1>12
<1>14. status' \in {"run", "done", "panic", "nyi", "fault"}
  BY <1>1 DEF MachineOK
<1> QED
  BY <1>9, <1>10, <1>11, <1>12, <1>13, <1>14 DEF MachineOK, F

(* A return goes on in the caller's frame, behind its call. *)
LEMMA LeaveOK ==
  ASSUME MachineOK, Ready, NEW r, Leave(r), UNCHANGED code, steps' \in 0 .. MaxSteps
  PROVE  MachineOK'
<1> DEFINE F == [fn : 1 .. Len(code), pc : Nat, base : FrameBases]
<1>1. /\ machine' = [machine EXCEPT !.base = frames[Depth - 1].base] /\ status' = status
      /\ frames' = SubSeq(frames, 1, Depth - 1) /\ Depth > 1
  BY DEF Leave
<1>2. frames \in Seq(F) /\ Depth \in Nat \ {0} /\ Depth = Len(frames)
  BY DEF Ready, Depth
<1> HIDE DEF F
<1>3. frames' \in Seq(F) /\ Len(frames') = Depth - 1 /\ \A k \in 1 .. Depth - 1 : frames'[k] = frames[k]
  BY <1>1, <1>2
<1>4. \A k \in 1 .. Depth - 1 : frames'[k].pc \in 1 .. Len(code[frames'[k].fn])
  <2>1. \A k \in 1 .. Depth - 1 : k \in 1 .. Depth
    BY <1>2
  <2>2. \A k \in 1 .. Depth : frames[k].pc \in 1 .. Len(code[frames[k].fn])
    BY DEF MachineOK
  <2> QED
    BY <1>3, <2>1, <2>2
<1>5. frames[Depth - 1] \in F
  BY <1>1, <1>2
<1>6. machine' \in [mem : Memory, base : FrameBases] /\ machine'.base = frames[Depth - 1].base
  BY <1>1, <1>5 DEF MachineOK, F
<1>7. WellFormed(code') /\ Depth' = Depth - 1 /\ Frame' = frames[Depth - 1] /\ Depth' > 0 /\ code' = code
  BY <1>1, <1>2, <1>3 DEF MachineOK, Depth, Frame
<1>8. status' \in {"run", "done", "panic", "nyi", "fault"}
  BY <1>1 DEF MachineOK
<1> QED
  BY <1>3, <1>4, <1>6, <1>7, <1>8 DEF MachineOK, F

(* The end of the first function, or of the process, leaves everything else. *)
LEMMA FinishOK ==
  ASSUME MachineOK, NEW r, r.status \in {"return", "panic", "nyi", "fault"}, Finish(r), UNCHANGED code,
         steps' \in 0 .. MaxSteps
  PROVE  MachineOK'
<1>1. status' \in {"run", "done", "panic", "nyi", "fault"}
  BY DEF Finish
<1>2. UNCHANGED <<machine, frames, code, Depth, Frame>>
  BY DEF Finish, Depth, Frame
<1> QED
  BY <1>1, <1>2 DEF MachineOK

(* Each turn of the loop of run_bytecode keeps the machine in order. *)
LEMMA StepOK ==
  ASSUME MachineOK, Step
  PROVE  MachineOK'
<1> DEFINE r == Executed(Current, machine)
<1>1. /\ UNCHANGED code /\ steps' \in 0 .. MaxSteps
      /\ (Advance(r) \/ Enter(r) \/ Leave(r) \/ Finish(r))
  BY InterpreterAssumption DEF Step, MachineOK
<1>2. Ready
  BY RunningReady
<1>3. IsInstr(Current) /\ machine \in Machines(Addresses) /\ GoesOn(code, Frame.fn, Frame.pc)
      /\ Current = code[Frame.fn][Frame.pc] /\ Frame.pc \in 1 .. Len(code[Frame.fn])
  BY <1>2 DEF Ready
<1>4. CASE ~InMemory(Current, machine)
  <2>1. r.status = "fault"
    BY <1>4 DEF Executed, Stops
  <2>2. Finish(r)
    BY <1>1, <2>1 DEF Advance, Enter, Leave
  <2> QED
    BY <1>1, <2>1, <2>2, FinishOK
<1>5. CASE InMemory(Current, machine)
  <2>1. Executes(Addresses, Current, machine, r)
    BY <1>3, <1>5, InstructionExecutes DEF Executed
  <2> HIDE DEF r
  <2>2. CASE Ran(Addresses, machine, r) /\ Current.op \notin {"Jump", "Call"} \cup Stopping
    <3>1. SameFrame(Addresses, machine, r.m) /\ r.status = "run" /\ r.skip = 1
      BY <2>2 DEF Ran, Goes
    <3>2. Advance(r)
      BY <1>1, <3>1 DEF Enter, Leave, Finish
    <3>3. Frame.pc + r.skip \in 1 .. Len(code[Frame.fn])
      BY <1>3, <2>2, <3>1 DEF GoesOn
    <3> QED
      BY <1>1, <1>2, <3>1, <3>2, <3>3, AdvanceOK
  <2>3. CASE r = Jumps(machine, Current.off) /\ Current.op \in {"Jump"} \cup Branches
    <3>1. r.m = machine /\ r.status = "run" /\ r.skip = Current.off /\ r.skip \in Int
      BY <1>3, <2>3, FieldsTyped DEF Jumps
    <3>2. Advance(r)
      BY <1>1, <3>1 DEF Enter, Leave, Finish
    <3>3. Frame.pc + r.skip \in 1 .. Len(code[Frame.fn])
      BY <1>3, <2>3, <3>1 DEF GoesOn
    <3>4. SameFrame(Addresses, machine, r.m)
      BY <1>3, <3>1 DEF SameFrame
    <3> QED
      BY <1>1, <1>2, <3>1, <3>2, <3>3, <3>4, AdvanceOK
  <2>4. CASE r = Calls(machine) /\ Current.op = "Call"
    <3>1. Enter(r)
      BY <1>1, <2>4 DEF Calls, Advance, Leave, Finish
    <3> QED
      BY <1>1, <1>2, <2>4, <3>1, EnterOK
  <2>5. CASE r.m = machine /\ r.status \in {"return", "panic", "nyi"} /\ Current.op # "Call"
    <3>1. Leave(r) \/ Finish(r)
      BY <1>1, <2>5 DEF Advance, Enter
    <3> QED
      BY <1>1, <1>2, <2>5, <3>1, LeaveOK, FinishOK
  <2> QED
    BY <2>1, <2>2, <2>3, <2>4, <2>5 DEF Executes
<1> QED
  BY <1>4, <1>5

(* run_bytecode on any bytecode that is well formed: the program counter of every
   activation is at an instruction of its function, frames are aligned, the frame that
   runs is the last one, and memory holds bytes. *)
THEOREM MachineIsOK == RunsLoadable /\ Running => []MachineOK
<1>1. RunsLoadable /\ Start => MachineOK
  BY StartOK
<1>2. MachineOK /\ [Step]_state => MachineOK'
  <2>1. MachineOK /\ UNCHANGED state => MachineOK'
    BY DEF MachineOK, state, Depth, Frame
  <2> QED
    BY <2>1, StepOK
<1> QED
  BY <1>1, <1>2, PTL DEF Running

--------------------------------------------------------------------------------
(* The JIT: the arms that agree as they stand.                                 *)

(* The arm that simple_jit.rs has for an operation, and that the interpreter    *)
(* has one for it too.                                                          *)
LEMMA JitDispatch ==
  ASSUME NEW i, NEW m, JitSupports(i)
  PROVE  /\ ~Unimplemented(i)
         /\ i.op = "Const" => JitExec(i, m) = Put(m, i.dst, i.n, i.size)
         /\ i.op = "Neg" => JitExec(i, m) = Put(m, i.dst, -Slot(m, i.a, 4, "U"), 4) /\ i.size = 4
         /\ i.op = "Not" => JitExec(i, m) = Put(m, i.dst, Modulus(4) - 1 - Slot(m, i.a, 4, "U"), 4) /\ i.size = 4
         /\ i.op = "BoolNot" => JitExec(i, m) = Put(m, i.dst, Bitwise("BitXor", Slot(m, i.a, 1, "U"), 1, 1), 1)
         /\ i.op \in Comparisons => JitExec(i, m) = Put(m, i.dst, Truth(JitCompare(i, m)), 1)
         /\ i.op \in Divisions => JitExec(i, m) = JitDivide(i, m) /\ i.size = 4 /\ i.sign = "S"
         /\ i.op = "Widen" => JitExec(i, m) = JitWiden(i, m)
                              /\ <<i.size, i.n, i.sign>> \in {<<16, 4, "S">>, <<8, 1, "U">>}
         /\ i.op \in Moves \cup BulkMoves => JitExec(i, m) = JitMove(i, m)
         /\ i.op = "SlotAddr" => JitExec(i, m) = Put(m, i.dst, At(m, i.a), PtrSize)
         /\ i.op = "PointerOffset2" => JitExec(i, m) = Put(m, i.dst, Ptr(m, i.a) + i.off, PtrSize)
         /\ i.op \in Control => JitExec(i, m) = ExecJump(i, m) /\ i.op \notin {"Skipped", "Error"}
         /\ i.op \in {"Add", "Sub", "Mul", "ShiftL", "ShiftR", "OverflowingAdd"} \cup BitOps
              => JitExec(i, m) = JitArithmetic(i, m)
<1> USE DEF Moves, BulkMoves, Control, Branches, Stopping, Comparisons, Divisions, BitOps, Small
<1>1. ~Unimplemented(i)
  BY DEF JitSupports, Unimplemented
<1>2. i.op \in {"Neg", "Not"} \cup Divisions => i.size = 4
  BY DEF JitSupports
<1>3. i.op \in Divisions => i.sign = "S"
  BY DEF JitSupports
<1>4. i.op = "Widen" => <<i.size, i.n, i.sign>> \in {<<16, 4, "S">>, <<8, 1, "U">>}
  BY DEF JitSupports
<1>5. i.op \notin {"Skipped", "Error", "MovPSN"}
  BY DEF JitSupports
<1>6. i.op \in Control => i.op \in {"Jump", "JumpF", "JumpT", "Call", "Return"}
  BY <1>5
<1>7. i.op \in Moves \cup BulkMoves => i.op \in {"MovSS", "MovPS", "MovSP", "MovSSN", "MovSPN"}
  BY <1>5
<1> QED
  BY <1>1, <1>2, <1>3, <1>4, <1>5, <1>6, <1>7 DEF JitExec

(* The operations that the JIT has an arm for. *)
LEMMA JitOperations ==
  ASSUME NEW i, JitSupports(i)
  PROVE  i.op \in {"Const", "Neg", "Not", "BoolNot", "Widen", "SlotAddr", "PointerOffset2"} \cup Comparisons
                  \cup Divisions \cup Moves \cup BulkMoves \cup Control
                  \cup {"Add", "Sub", "Mul", "ShiftL", "ShiftR", "OverflowingAdd"} \cup BitOps
BY DEF JitSupports, Small, Moves, BulkMoves, Control, Branches, Stopping, Comparisons, Divisions, BitOps

(* The machine code does what the interpreter's arm does. *)
Agrees(i, m) ==
  LET jit == JitExec(i, m)
      interpreted == Exec(i, m)
  IN  IF interpreted.status = "panic" THEN jit.status = "fault" ELSE jit = interpreted

(* Arms that do the same agree. *)
LEMMA SameAgrees ==
  ASSUME NEW i, NEW m, JitExec(i, m) = Exec(i, m), Exec(i, m).status # "panic"
  PROVE  Agrees(i, m)
BY DEF Agrees

(* Arms that write congruent numbers to the same slot agree. *)
LEMMA PutAgrees ==
  ASSUME NEW i, NEW m, NEW slot, NEW n \in 1 .. 16, NEW v \in Int, NEW w \in Int,
         (v % Modulus(n)) = (w % Modulus(n)),
         JitExec(i, m) = Put(m, slot, v, n), Exec(i, m) = Put(m, slot, w, n)
  PROVE  Agrees(i, m)
<1>1. Write(m, At(m, slot), v, n) = Write(m, At(m, slot), w, n)
  BY SameWrite
<1> QED
  BY <1>1, SameAgrees DEF Put, Goes

(* The copies of the JIT agree, those with a pointer offset excepted. *)
LEMMA MovesAgree ==
  ASSUME NEW D, NEW m \in Machines(D), NEW i, IsInstr(i), i.op \in Moves \cup BulkMoves,
         InMemory(i, m), JitSupports(i), ~JitDiffers(i, m)
  PROVE  Agrees(i, m)
<1>1. Exec(i, m) = ExecMove(i, m) /\ JitExec(i, m) = JitMove(i, m)
  BY JitDispatch, Dispatch
<1>2. Exec(i, m).status = "run"
  BY <1>1, MovesRan DEF Ran, Goes
<1>3. i.op # "MovPSN"
  BY DEF JitSupports, Small
<1>4. JitMove(i, m) = ExecMove(i, m)
  <2>1. CASE i.op = "MovSPN"
    <3>1. i.off = 0 /\ At(m, i.dst) \in Int
      BY <2>1, FieldsTyped DEF JitDiffers, At, Machines
    <3>2. At(m, i.dst) + i.off = At(m, i.dst)
      BY <3>1
    <3> QED
      BY <2>1, <3>2 DEF JitMove, ExecMove
  <2>2. CASE i.op # "MovSPN"
    BY <1>3, <2>2 DEF JitMove, Moves, BulkMoves
  <2> QED
    BY <2>1, <2>2
<1> QED
  BY <1>1, <1>2, <1>4, SameAgrees

(* The jumps, calls and returns of the JIT agree. *)
LEMMA ControlAgrees ==
  ASSUME NEW m, NEW i, i.op \in Control, JitSupports(i)
  PROVE  Agrees(i, m)
<1>1. Exec(i, m) = ExecJump(i, m) /\ JitExec(i, m) = ExecJump(i, m) /\ i.op \notin {"Skipped", "Error"}
  BY JitDispatch, Dispatch
<1>2. ExecJump(i, m).status # "panic"
  BY <1>1 DEF ExecJump, Control, Branches, Stopping, Goes, Jumps, Calls, Stops
<1> QED
  BY <1>1, <1>2, SameAgrees

(* Constants and addresses are the same. *)
LEMMA PutsAgree ==
  ASSUME NEW m, NEW i, i.op \in {"Const", "SlotAddr", "PointerOffset2"}, JitSupports(i)
  PROVE  Agrees(i, m)
<1>1. Exec(i, m) = JitExec(i, m)
  BY JitDispatch, Dispatch DEF ExecAddress, Addressing
<1>2. \E slot, v, n : JitExec(i, m) = Put(m, slot, v, n)
  BY JitDispatch
<1>3. JitExec(i, m).status # "panic"
  BY <1>2 DEF Put, Goes
<1> QED
  BY <1>1, <1>3, SameAgrees

--------------------------------------------------------------------------------
(* The JIT: negation.                                                          *)

(* A number of n bytes is its own residue. *)
LEMMA ModSelf ==
  ASSUME NEW n \in 1 .. 16, NEW u \in 0 .. Modulus(n) - 1
  PROVE  (u % Modulus(n)) = u
<1> DEFINE M == Modulus(n)
<1>1. M \in Nat \ {0} /\ n \in 0 .. 16
  BY Widths
<1> HIDE DEF M
<1>2. u \in 0 .. M - 1
  BY DEF M
<1>3. ((M * 0 + u) % M) = u
  BY <1>1, <1>2, Unique
<1> QED
  BY <1>1, <1>2, <1>3 DEF M

(* Only the first term of a sum counts when the others are 0. *)
LEMMA FirstTerm ==
  ASSUME NEW n \in Nat \ {0}, NEW t, t[0] \in Int, \A k \in 1 .. n - 1 : t[k] = 0
  PROVE  SumTo(n, t) = t[0]
<1>1. \A k \in 0 .. n - 1 : t[k] \in Int
  OBVIOUS
<1>2. PICK f : Sums(f, n, t)
  BY <1>1, SumIs
<1>3. f[0] = 0 /\ \A k \in 1 .. n : f[k] = f[k - 1] + t[k - 1]
  BY <1>2 DEF Sums
<1> DEFINE S == {k \in Nat : k + 1 \in 1 .. n => f[k + 1] = t[0]}
<1>4. 0 \in S
  <2>1. 1 \in 1 .. n /\ 1 - 1 = 0
    OBVIOUS
  <2>2. f[1] = f[0] + t[0]
    BY <1>3, <2>1
  <2> QED
    BY <1>3, <2>2
<1>5. \A k \in Nat : k \in S => k + 1 \in S
  <2>1. ASSUME NEW k \in Nat, k \in S, (k + 1) + 1 \in 1 .. n PROVE f[(k + 1) + 1] = t[0]
    <3>1. f[(k + 1) + 1] = f[k + 1] + t[k + 1]
      BY <1>3, <2>1
    <3>2. t[k + 1] = 0
      BY <2>1
    <3>3. f[k + 1] = t[0]
      BY <2>1
    <3> QED
      BY <3>1, <3>2, <3>3
  <2> QED
    BY <2>1
<1> HIDE DEF S
<1>6. Nat \subseteq S
  BY <1>4, <1>5, Induction
<1>7. f[n] = t[0]
  <2>1. n - 1 \in S /\ (n - 1) + 1 = n
    BY <1>6
  <2> QED
    BY <2>1 DEF S
<1>8. SumTo(n, t) = f[n]
  BY <1>2 DEF Sums
<1> QED
  BY <1>7, <1>8

(* neg and not of a register are those of the signed number. *)
LEMMA NotAgrees ==
  ASSUME NEW D, NEW m \in Machines(D), NEW i, IsInstr(i), i.op \in {"Neg", "Not"}, InMemory(i, m), JitSupports(i)
  PROVE  Agrees(i, m)
<1> DEFINE x == Slot(m, i.a, 4, "U")
<1>1. i.op \in Unary /\ i.size = 4 /\ i.a \in Nat /\ 4 \in 1 .. 16
  BY FieldsTyped, JitDispatch DEF Unary
<1>2. x \in 0 .. Modulus(4) - 1 /\ Modulus(4) \in Nat \ {0} /\ 4 \in 0 .. 16
  BY <1>1, FrameMapped, SlotIs, Widths
<1>3. Exec(i, m) = ExecUnary(i, m)
  BY <1>1, JitDispatch, Dispatch
<1>4. CASE i.op = "Neg"
  <2>1. Exec(i, m) = Put(m, i.dst, -x, 4) /\ JitExec(i, m) = Put(m, i.dst, -x, 4) /\ -x \in Int
    BY <1>1, <1>2, <1>3, <1>4, JitDispatch DEF ExecUnary
  <2> HIDE DEF x
  <2> QED
    BY <1>1, <2>1, PutAgrees
<1>5. CASE i.op = "Not"
  <2>1. Exec(i, m) = Put(m, i.dst, -x - 1, 4) /\ JitExec(i, m) = Put(m, i.dst, Modulus(4) - 1 - x, 4)
    BY <1>1, <1>3, <1>5, JitDispatch DEF ExecUnary
  <2> HIDE DEF x
  <2> DEFINE M == Modulus(4)
             v == -x - 1
  <2>2. M \in Nat \ {0} /\ v \in Int /\ 1 \in Int /\ M - 1 - x = v + M * 1
    BY <1>2
  <2> HIDE DEF M, v
  <2>3. ((v + M * 1) % M) = (v % M)
    BY <2>2, AddMultiple
  <2>4. ((M - 1 - x) % M) = (v % M) /\ M - 1 - x \in Int
    BY <2>2, <2>3
  <2> QED
    BY <1>1, <2>1, <2>2, <2>4, PutAgrees DEF M, v
<1> QED
  BY <1>4, <1>5

(* xor with 1 negates a bool. *)
LEMMA BoolNotAgrees ==
  ASSUME NEW D, NEW m \in Machines(D), NEW i, IsInstr(i), i.op = "BoolNot", InMemory(i, m), JitSupports(i),
         ~JitDiffers(i, m)
  PROVE  Agrees(i, m)
<1> DEFINE x == Slot(m, i.a, 1, "U")
<1>1. i.op \in Unary /\ i.size = 1
  BY FieldsTyped DEF Unary
<1>2. x \in {0, 1}
  BY DEF JitDiffers
<1>3. Exec(i, m) = Put(m, i.dst, 1 - x, 1) /\ JitExec(i, m) = Put(m, i.dst, Bitwise("BitXor", x, 1, 1), 1)
  BY <1>1, JitDispatch, Dispatch DEF ExecUnary
<1> HIDE DEF x
<1>4. Bitwise("BitXor", x, 1, 1) = 1 - x
  <2> DEFINE W == BitWidth(1)
             bits == [k \in 0 .. W - 1 |->
                        CASE "BitXor" = "BitOr" -> Truth(Bit(x, k) = 1 \/ Bit(1, k) = 1)
                          [] "BitXor" = "BitAnd" -> Truth(Bit(x, k) = 1 /\ Bit(1, k) = 1)
                          [] "BitXor" = "BitXor" -> Truth(Bit(x, k) # Bit(1, k))]
             t == [k \in 0 .. W - 1 |-> bits[k] * TwoTo(k)]
  <2>1. W \in Nat \ {0} /\ W <= MaxWidth /\ MaxWidth \in Nat
    <3>1. 1 \in Sizes
      BY DEF Sizes
    <3> QED
      BY <3>1, WidthOfSize
  <2>2. \A k \in 0 .. W - 1 : bits[k] = Truth(Bit(x, k) # Bit(1, k))
    OBVIOUS
  <2>3. \A u \in {0, 1} : Bit(u, 0) = u
    BY Powers DEF Bit
  <2>4. ASSUME NEW u \in {0, 1}, NEW k \in 1 .. W - 1 PROVE Bit(u, k) = 0
    <3> DEFINE p == TwoTo(k)
    <3>1. k \in 1 .. MaxWidth /\ k - 1 \in 0 .. MaxWidth
      BY <2>1
    <3>2. TwoTo(k - 1) \in Nat \ {0} /\ p = 2 * TwoTo(k - 1)
      BY <3>1, Powers
    <3>3. p \in Nat \ {0} /\ u \in 0 .. p - 1 /\ 0 \in Int
      BY <3>2
    <3> HIDE DEF p
    <3>4. (p * 0 + u) \div p = 0
      BY <3>3, Unique
    <3>5. u \div p = 0
      BY <3>3, <3>4
    <3> QED
      BY <3>5 DEF Bit, p
  <2>5. Bitwise("BitXor", x, 1, 1) = SumTo(W, t)
    BY DEF Bitwise, FromBits
  <2>6. 0 \in 0 .. W - 1 /\ bits[0] = 1 - x
    <3>1. 0 \in 0 .. W - 1
      BY <2>1
    <3>2. bits[0] = Truth(x # 1)
      BY <1>2, <2>2, <2>3, <3>1
    <3> QED
      BY <1>2, <3>1, <3>2 DEF Truth
  <2>7. \A k \in 1 .. W - 1 : bits[k] = 0
    BY <1>2, <2>1, <2>2, <2>4 DEF Truth
  <2>8. \A k \in 0 .. W - 1 : t[k] = bits[k] * TwoTo(k)
    OBVIOUS
  <2> HIDE DEF bits
  <2>9. t[0] = 1 - x /\ t[0] \in Int
    BY <1>2, <2>6, <2>8, Powers
  <2>10. \A k \in 1 .. W - 1 : t[k] = 0
    <3>1. \A k \in 1 .. W - 1 : k \in 0 .. W - 1 /\ TwoTo(k) \in Nat
      BY <2>1, Powers
    <3> QED
      BY <2>7, <2>8, <3>1
  <2> HIDE DEF t, W
  <2>11. SumTo(W, t) = t[0]
    BY <2>1, <2>9, <2>10, FirstTerm
  <2> QED
    BY <2>5, <2>9, <2>11
<1>5. 1 - x \in Int /\ 1 \in 1 .. 16
  BY <1>2
<1> QED
  BY <1>3, <1>4, <1>5, PutAgrees

--------------------------------------------------------------------------------
(* The JIT: arithmetic.                                                        *)

(* The operand of an instruction on n bytes: the number that its bytes are, and *)
(* the value that the interpreter takes it for.                                 *)
Operand(x, u, n) == x \in Int /\ u \in 0 .. Modulus(n) - 1 /\ (x % Modulus(n)) = u

(* The operands of a binary instruction, as the interpreter and the JIT read them. *)
LEMMA Operands ==
  ASSUME NEW D, NEW m \in Machines(D), NEW i, IsInstr(i), i.op \in Binary, InMemory(i, m), NEW sign
  PROVE  /\ Operand(Slot(m, i.a, i.size, sign), Slot(m, i.a, i.size, "U"), i.size)
         /\ i.op \notin Shifts => Operand(Slot(m, i.b, i.size, sign), Slot(m, i.b, i.size, "U"), i.size)
         /\ i.op \in Shifts => Slot(m, i.b, 1, "U") \in 0 .. Modulus(1) - 1
         /\ i.size \in 1 .. 16 /\ i.size \in Sizes
         /\ Slot(m, i.a, i.size, "S") = Signed(Slot(m, i.a, i.size, "U"), i.size)
         /\ i.op \notin Shifts => Slot(m, i.b, i.size, "S") = Signed(Slot(m, i.b, i.size, "U"), i.size)
<1>1. i.size \in 1 .. 16 /\ 1 \in 1 .. 16 /\ i.a \in Nat /\ i.b \in Nat /\ i.size \in Sizes
  BY FieldsTyped
<1>2. Mapped(m, At(m, i.a), i.size) /\ Mapped(m, At(m, i.b), IF i.op \in Shifts THEN 1 ELSE i.size)
  BY BinaryMapped
<1>3. /\ Operand(Slot(m, i.a, i.size, sign), Slot(m, i.a, i.size, "U"), i.size)
      /\ Slot(m, i.a, i.size, "S") = Signed(Slot(m, i.a, i.size, "U"), i.size)
  BY <1>1, <1>2, SlotIs DEF Operand
<1>4. ASSUME i.op \notin Shifts
      PROVE  /\ Operand(Slot(m, i.b, i.size, sign), Slot(m, i.b, i.size, "U"), i.size)
             /\ Slot(m, i.b, i.size, "S") = Signed(Slot(m, i.b, i.size, "U"), i.size)
  <2>1. Mapped(m, At(m, i.b), i.size)
    BY <1>2, <1>4
  <2> QED
    BY <1>1, <2>1, SlotIs DEF Operand
<1>5. ASSUME i.op \in Shifts PROVE Slot(m, i.b, 1, "U") \in 0 .. Modulus(1) - 1
  <2>1. Mapped(m, At(m, i.b), 1)
    BY <1>2, <1>5
  <2> QED
    BY <1>1, <2>1, SlotIs
<1> QED
  BY <1>1, <1>3, <1>4, <1>5

(* What the interpreter takes the operands for, and what its arm makes of them. *)
Takes(i, m, sign, x, y) ==
  /\ sign = (IF i.sign = "" THEN "S" ELSE i.sign)
  /\ x = Slot(m, i.a, i.size, sign)
  /\ y = (IF i.op \in Shifts THEN Slot(m, i.b, 1, "U") ELSE Slot(m, i.b, i.size, sign))

Compared(op, x, y) == Truth(Compare(op, x, y))
Overflows(z, n, sign) == Truth(z # Clamp(z, n, sign))

(* The interpreter's arm for each kind of binary operator, on operands x and y. *)
LEMMA BinaryArms ==
  ASSUME NEW i, NEW m, i.op \in Binary, NEW sign, NEW x, NEW y, Takes(i, m, sign, x, y)
  PROVE  /\ i.op \in Comparisons => Exec(i, m) = Put(m, i.dst, Compared(i.op, x, y), 1)
         /\ i.op \in Divisions /\ y = 0 => Exec(i, m) = Stops(m, "panic")
         /\ i.op \in Overflowing
              => Exec(i, m) = Goes(Write(Write(m, At(m, i.dst), Apply(i.op, x, y, i.size), i.size),
                                         At(m, i.dst + i.size),
                                         Overflows(Apply(i.op, x, y, i.size), i.size, sign), 1))
         /\ i.op \in (Divisions \cup BitOps \cup Shifts \cup {"Add", "Sub", "Mul"}) /\ ~(i.op \in Divisions /\ y = 0)
              => Exec(i, m) = Put(m, i.dst, Apply(i.op, x, y, i.size), i.size)
<1>1. Exec(i, m) = ExecBinary(i, m)
  <2>1. ~Unimplemented(i)
    BY DEF Unimplemented, Binary, Comparisons, Shifts, Divisions, BitOps, Rotations, Overflowing
  <2> QED
    BY <2>1, Dispatch
<1> DEFINE z == Apply(i.op, x, y, i.size)
<1>2. ExecBinary(i, m)
      = CASE i.op \in Comparisons -> Put(m, i.dst, Compared(i.op, x, y), 1)
          [] i.op \in Divisions /\ y = 0 -> Stops(m, "panic")
          [] i.op = "SatAdd" -> Put(m, i.dst, Clamp(z, i.size, sign), i.size)
          [] i.op \in Overflowing ->
               Goes(Write(Write(m, At(m, i.dst), z, i.size), At(m, i.dst + i.size), Overflows(z, i.size, sign), 1))
          [] OTHER -> Put(m, i.dst, z, i.size)
  BY DEF ExecBinary, Takes, Compared, Overflows
<1> HIDE DEF z
<1>3. /\ i.op \in Comparisons => ExecBinary(i, m) = Put(m, i.dst, Compared(i.op, x, y), 1)
      /\ i.op \in Divisions /\ y = 0 => ExecBinary(i, m) = Stops(m, "panic")
      /\ i.op \in Overflowing
           => ExecBinary(i, m) = Goes(Write(Write(m, At(m, i.dst), z, i.size), At(m, i.dst + i.size),
                                            Overflows(z, i.size, sign), 1))
      /\ i.op \in (Divisions \cup BitOps \cup Shifts \cup {"Add", "Sub", "Mul"}) /\ ~(i.op \in Divisions /\ y = 0)
           => ExecBinary(i, m) = Put(m, i.dst, z, i.size)
  BY <1>2 DEF Comparisons, Divisions, Overflowing, BitOps, Shifts
<1> QED
  BY <1>1, <1>3 DEF z

(* Numbers that differ by a multiple of b. *)
Congruent(a, c, b) == b \in Nat \ {0} /\ a \in Int /\ c \in Int /\ (a % b) = (c % b)

(* Sums, differences and products of congruent numbers are congruent. *)
LEMMA Congruences ==
  ASSUME NEW a, NEW c, NEW x, NEW y, NEW b, Congruent(a, c, b), Congruent(x, y, b)
  PROVE  Congruent(a + x, c + y, b) /\ Congruent(a - x, c - y, b) /\ Congruent(a * x, c * y, b)
<1>1. b \in Nat \ {0} /\ a \in Int /\ c \in Int /\ x \in Int /\ y \in Int
  BY DEF Congruent
<1>2. (a % b) = (c % b) /\ (x % b) = (y % b)
  BY DEF Congruent
<1>3. PICK p \in Int : c = a + b * p
  BY <1>1, <1>2, SameMod
<1>4. PICK q \in Int : y = x + b * q
  BY <1>1, <1>2, SameMod
<1>5. ASSUME NEW v \in Int, NEW w \in Int, NEW k \in Int, w = v + b * k
      PROVE  Congruent(v, w, b)
  <2>1. ((v + b * k) % b) = (v % b)
    BY <1>1, AddMultiple
  <2> QED
    BY <1>1, <1>5, <2>1 DEF Congruent
<1>6. c + y = (a + x) + b * (p + q) /\ p + q \in Int /\ a + x \in Int /\ c + y \in Int
  BY <1>1, <1>3, <1>4
<1>7. c - y = (a - x) + b * (p - q) /\ p - q \in Int /\ a - x \in Int /\ c - y \in Int
  BY <1>1, <1>3, <1>4
<1>8. c * y = (a * x) + b * (a * q + p * y) /\ a * q + p * y \in Int /\ a * x \in Int /\ c * y \in Int
  BY <1>1, <1>3, <1>4
<1> QED
  BY <1>5, <1>6, <1>7, <1>8

(* add, sub, imul, and, or, xor on registers are the operators of the signed numbers. *)
LEMMA SumsAgree ==
  ASSUME NEW D, NEW m \in Machines(D), NEW i, IsInstr(i), i.op \in {"Add", "Sub", "Mul"} \cup BitOps,
         InMemory(i, m), JitSupports(i)
  PROVE  Agrees(i, m)
<1> DEFINE sign == IF i.sign = "" THEN "S" ELSE i.sign
           x == Slot(m, i.a, i.size, sign)
           y == Slot(m, i.b, i.size, sign)
           u == Slot(m, i.a, i.size, "U")
           v == Slot(m, i.b, i.size, "U")
           M == Modulus(i.size)
<1>1. i.op \in Binary /\ i.op \notin Shifts /\ i.op \notin Divisions
  BY DEF Binary, BitOps, Shifts, Divisions
<1>2. JitExec(i, m) = JitArithmetic(i, m)
  BY JitDispatch
<1>3. Operand(x, u, i.size) /\ Operand(y, v, i.size) /\ i.size \in 1 .. 16 /\ i.size \in Sizes
  <2> HIDE DEF sign
  <2> QED
    BY <1>1, Operands
<1>4. Exec(i, m) = Put(m, i.dst, Apply(i.op, x, y, i.size), i.size)
  <2>1. Takes(i, m, sign, x, y)
    BY <1>1 DEF Takes
  <2> HIDE DEF x, y, sign
  <2> QED
    BY <1>1, <2>1, BinaryArms
<1>5. M \in Nat \ {0}
  <2>1. i.size \in 0 .. 16
    <3> HIDE DEF x, y, u, v
    <3> QED
      BY <1>3
  <2> QED
    BY <2>1, Widths
<1>6. /\ i.op = "Add" => JitArithmetic(i, m) = Put(m, i.dst, u + v, i.size)
      /\ i.op = "Sub" => JitArithmetic(i, m) = Put(m, i.dst, u - v, i.size)
      /\ i.op = "Mul" => JitArithmetic(i, m) = Put(m, i.dst, u * v, i.size)
      /\ i.op \in BitOps => JitArithmetic(i, m) = Put(m, i.dst, Bitwise(i.op, u, v, i.size), i.size)
  BY DEF JitArithmetic, BitOps
<1>7. /\ i.op = "Add" => Apply(i.op, x, y, i.size) = x + y
      /\ i.op = "Sub" => Apply(i.op, x, y, i.size) = x - y
      /\ i.op = "Mul" => Apply(i.op, x, y, i.size) = x * y
      /\ i.op \in BitOps => Apply(i.op, x, y, i.size) = Bitwise(i.op, x % M, y % M, i.size)
  <2> HIDE DEF x, y
  <2> QED
    BY DEF Apply, BitOps
<1>8. x \in Int /\ y \in Int /\ u \in Int /\ v \in Int
  <2> HIDE DEF x, y, u, v, M
  <2> QED
    BY <1>3, <1>5 DEF Operand, M
<1>9. Congruent(u, x, M) /\ Congruent(v, y, M)
  <2> HIDE DEF x, y, u, v
  <2>1. (u % M) = u /\ (v % M) = v
    BY <1>3, ModSelf DEF Operand
  <2> HIDE DEF M
  <2> QED
    BY <1>3, <1>5, <1>8, <2>1 DEF Operand, Congruent, M
<1>14. u = (x % M) /\ v = (y % M)
  <2> HIDE DEF x, y, u, v
  <2> QED
    BY <1>3 DEF Operand
<1> HIDE DEF sign, x, y, u, v, M
<1>10. CASE i.op = "Add"
  <2>1. Congruent(u + v, x + y, M)
    BY <1>9, Congruences
  <2>2. JitExec(i, m) = Put(m, i.dst, u + v, i.size) /\ Exec(i, m) = Put(m, i.dst, x + y, i.size)
    BY <1>2, <1>4, <1>6, <1>7, <1>10
  <2> QED
    BY <1>3, <2>1, <2>2, PutAgrees DEF Congruent, M
<1>11. CASE i.op = "Sub"
  <2>1. Congruent(u - v, x - y, M)
    BY <1>9, Congruences
  <2>2. JitExec(i, m) = Put(m, i.dst, u - v, i.size) /\ Exec(i, m) = Put(m, i.dst, x - y, i.size)
    BY <1>2, <1>4, <1>6, <1>7, <1>11
  <2> QED
    BY <1>3, <2>1, <2>2, PutAgrees DEF Congruent, M
<1>12. CASE i.op = "Mul"
  <2>1. Congruent(u * v, x * y, M)
    BY <1>9, Congruences
  <2>2. JitExec(i, m) = Put(m, i.dst, u * v, i.size) /\ Exec(i, m) = Put(m, i.dst, x * y, i.size)
    BY <1>2, <1>4, <1>6, <1>7, <1>12
  <2> QED
    BY <1>3, <2>1, <2>2, PutAgrees DEF Congruent, M
<1>13. CASE i.op \in BitOps
  <2> DEFINE w == Bitwise(i.op, u, v, i.size)
  <2>1. JitExec(i, m) = Put(m, i.dst, w, i.size) /\ Exec(i, m) = Put(m, i.dst, w, i.size)
    BY <1>2, <1>4, <1>6, <1>7, <1>13, <1>14 DEF M
  <2> QED
    BY <2>1, SameAgrees DEF Put, Goes
<1> QED
  BY <1>10, <1>11, <1>12, <1>13

(* shl and sar by cl shift as wrapping_shl and wrapping_shr do. *)
LEMMA ShiftsAgree ==
  ASSUME NEW D, NEW m \in Machines(D), NEW i, IsInstr(i), i.op \in Shifts, InMemory(i, m), JitSupports(i)
  PROVE  Agrees(i, m)
<1> DEFINE sign == IF i.sign = "" THEN "S" ELSE i.sign
           x == Slot(m, i.a, i.size, sign)
           y == Slot(m, i.b, 1, "U")
           u == Slot(m, i.a, i.size, "U")
           k == y % BitWidth(i.size)
<1>1. i.op \in Binary /\ i.op \notin Divisions
  BY DEF Binary, Shifts, Divisions
<1>2. JitExec(i, m) = JitArithmetic(i, m)
  BY JitDispatch DEF Shifts
<1>3. Operand(x, u, i.size) /\ y \in Int /\ i.size \in 1 .. 16 /\ i.size \in Sizes
      /\ Slot(m, i.a, i.size, "S") = Signed(u, i.size)
  <2> HIDE DEF sign
  <2>1. /\ Operand(x, u, i.size) /\ y \in 0 .. Modulus(1) - 1 /\ i.size \in 1 .. 16 /\ i.size \in Sizes
        /\ Slot(m, i.a, i.size, "S") = Signed(u, i.size)
    BY <1>1, Operands
  <2> HIDE DEF x, y, u
  <2> QED
    BY <2>1, Widths
<1>4. Exec(i, m) = Put(m, i.dst, Apply(i.op, x, y, i.size), i.size)
  <2>1. Takes(i, m, sign, x, y)
    BY <1>1 DEF Takes
  <2> HIDE DEF x, y, sign
  <2> QED
    BY <1>1, <2>1, BinaryArms
<1>5. /\ i.op = "ShiftL" => JitArithmetic(i, m) = Put(m, i.dst, u * TwoTo(k), i.size)
      /\ i.op = "ShiftR" => JitArithmetic(i, m) = Put(m, i.dst, Signed(u, i.size) \div TwoTo(k), i.size)
  BY DEF JitArithmetic, BitOps
<1>6. /\ i.op = "ShiftL" => Apply(i.op, x, y, i.size) = ShiftLeft(x, k, i.size)
      /\ i.op = "ShiftR" => Apply(i.op, x, y, i.size) = x \div TwoTo(k)
  <2> HIDE DEF x, y
  <2> QED
    BY DEF Apply, BitOps
<1>7. i.op = "ShiftR" => x = Signed(u, i.size)
  <2>1. i.op = "ShiftR" => sign = "S"
    BY DEF JitSupports, Small, Shifts, Moves
  <2> QED
    BY <1>3, <2>1
<1>8. CASE i.op = "ShiftL"
  <2> DEFINE W == BitWidth(i.size)
             K == TwoTo(k)
             A == TwoTo(W - k)
             M == Modulus(i.size)
             q == u \div A
             r == x % A
  <2>1. W \in Nat \ {0} /\ W \in 0 .. MaxWidth /\ M = TwoTo(W) /\ MaxWidth \in Nat
    <3>1. i.size \in Sizes
      BY <1>3
    <3> QED
      BY <3>1, WidthOfSize
  <2>2. k \in 0 .. W - 1
    <3> HIDE DEF W, y
    <3>1. (y % W) \in 0 .. W - 1
      BY <1>3, <2>1, DivMod
    <3> QED
      BY <3>1 DEF W
  <2> HIDE DEF W, k
  <2>3. k \in Nat /\ W - k \in Nat /\ (W - k) + k = W /\ k \in 0 .. MaxWidth /\ W - k \in 0 .. MaxWidth
    BY <2>1, <2>2
  <2>4. K \in Nat \ {0} /\ A \in Nat \ {0} /\ M = A * K
    <3>1. K \in Nat \ {0} /\ A \in Nat \ {0}
      BY <2>3, Powers
    <3>2. TwoTo((W - k) + k) = A * K
      BY <2>1, <2>3, PowerSum
    <3> QED
      BY <2>1, <2>3, <3>1, <3>2
  <2>5. x \in Int /\ u \in Int /\ u = (x % M)
    <3> HIDE DEF x, u
    <3> QED
      BY <1>3, <2>4 DEF Operand
  <2> HIDE DEF M, A, K, x, u
  <2>6. (u % A) = r
    BY <2>4, <2>5, ModMod
  <2>7. q \in Int /\ r \in Int /\ u = A * q + r
    <3>1. q \in Int /\ (u % A) \in 0 .. A - 1 /\ u = A * q + (u % A)
      BY <2>4, <2>5, DivMod
    <3> HIDE DEF q, r
    <3> QED
      BY <2>4, <2>6, <3>1
  <2> HIDE DEF q, r
  <2>8. u * K = r * K + M * q
    BY <2>4, <2>7
  <2>9. ((u * K) % M) = ((r * K) % M) /\ u * K \in Int /\ r * K \in Int
    <3> DEFINE w == r * K
    <3>1. w \in Int /\ M \in Nat \ {0}
      BY <2>4, <2>7
    <3> HIDE DEF w
    <3>2. ((w + M * q) % M) = (w % M)
      BY <2>7, <3>1, AddMultiple
    <3> QED
      BY <2>4, <2>5, <2>8, <3>1, <3>2 DEF w
  <2>10. ShiftLeft(x, k, i.size) = r * K
    BY DEF ShiftLeft, r, K, A, W
  <2>11. JitExec(i, m) = Put(m, i.dst, u * K, i.size) /\ Exec(i, m) = Put(m, i.dst, r * K, i.size)
    BY <1>2, <1>4, <1>5, <1>6, <1>8, <2>10 DEF K
  <2> QED
    BY <1>3, <2>9, <2>11, PutAgrees DEF M
<1>9. CASE i.op = "ShiftR"
  <2> DEFINE w == x \div TwoTo(k)
  <2>1. JitExec(i, m) = Put(m, i.dst, w, i.size) /\ Exec(i, m) = Put(m, i.dst, w, i.size)
    BY <1>2, <1>4, <1>5, <1>6, <1>7, <1>9
  <2> HIDE DEF w
  <2> QED
    BY <2>1, SameAgrees DEF Put, Goes
<1> QED
  BY <1>8, <1>9 DEF Shifts

--------------------------------------------------------------------------------
(* The JIT: flags and comparisons.                                             *)

(* Two operands that an instruction compares or divides, all there is to know.  *)
LEMMA TwoOperands ==
  ASSUME NEW D, NEW m \in Machines(D), NEW i, IsInstr(i), i.op \in Binary \ Shifts, InMemory(i, m)
  PROVE  \E sign, x, y, u, v :
           /\ Takes(i, m, sign, x, y)
           /\ u = Slot(m, i.a, i.size, "U") /\ v = Slot(m, i.b, i.size, "U")
           /\ i.size \in 1 .. 16
           /\ u \in 0 .. Modulus(i.size) - 1 /\ v \in 0 .. Modulus(i.size) - 1
           /\ i.sign = "S" => x = Signed(u, i.size) /\ y = Signed(v, i.size)
           /\ i.sign = "U" => x = u /\ y = v
           /\ x \in Int /\ y \in Int
           /\ Slot(m, i.a, i.size, "S") = Signed(u, i.size) /\ Slot(m, i.b, i.size, "S") = Signed(v, i.size)
<1> DEFINE sign == IF i.sign = "" THEN "S" ELSE i.sign
           x == Slot(m, i.a, i.size, sign)
           y == Slot(m, i.b, i.size, sign)
           u == Slot(m, i.a, i.size, "U")
           v == Slot(m, i.b, i.size, "U")
<1>1. Takes(i, m, sign, x, y)
  BY DEF Takes
<1>2. /\ Operand(x, u, i.size) /\ Operand(y, v, i.size) /\ i.size \in 1 .. 16
      /\ Slot(m, i.a, i.size, "S") = Signed(u, i.size) /\ Slot(m, i.b, i.size, "S") = Signed(v, i.size)
  <2> HIDE DEF sign
  <2> QED
    BY Operands
<1>3. /\ i.sign = "S" => x = Signed(u, i.size) /\ y = Signed(v, i.size)
      /\ i.sign = "U" => x = u /\ y = v
  BY <1>2
<1>4. /\ u \in 0 .. Modulus(i.size) - 1 /\ v \in 0 .. Modulus(i.size) - 1 /\ x \in Int /\ y \in Int
  <2> HIDE DEF x, y, u, v
  <2> QED
    BY <1>2 DEF Operand
<1>5. u = Slot(m, i.a, i.size, "U") /\ v = Slot(m, i.b, i.size, "U")
  OBVIOUS
<1> HIDE DEF x, y, u, v, sign
<1> QED
  BY <1>1, <1>2, <1>3, <1>4, <1>5

(* The difference of two unsigned numbers, wrapped. *)
LEMMA DifferenceIs ==
  ASSUME NEW n \in 1 .. 16, NEW u \in 0 .. Modulus(n) - 1, NEW v \in 0 .. Modulus(n) - 1
  PROVE  ((u - v) % Modulus(n)) = IF u >= v THEN u - v ELSE (u - v) + Modulus(n)
<1> DEFINE M == Modulus(n)
<1>1. M \in Nat \ {0} /\ u \in 0 .. M - 1 /\ v \in 0 .. M - 1
  <2>1. n \in 0 .. 16
    OBVIOUS
  <2> QED
    BY <2>1, Widths
<1> HIDE DEF M
<1>2. CASE u >= v
  <2>1. u - v \in 0 .. M - 1 /\ M * 0 + (u - v) = u - v /\ 0 \in Int
    BY <1>1, <1>2
  <2>2. ((M * 0 + (u - v)) % M) = u - v
    BY <1>1, <2>1, Unique
  <2>3. ((u - v) % M) = u - v
    BY <2>1, <2>2
  <2> QED
    BY <1>2, <2>3 DEF M
<1>3. CASE ~(u >= v)
  <2>1. (u - v) + M \in 0 .. M - 1 /\ M * (-1) + ((u - v) + M) = u - v /\ -1 \in Int
    BY <1>1, <1>3
  <2>2. ((M * (-1) + ((u - v) + M)) % M) = (u - v) + M
    BY <1>1, <2>1, Unique
  <2>3. ((u - v) % M) = (u - v) + M
    BY <2>1, <2>2
  <2> QED
    BY <1>3, <2>3 DEF M
<1> QED
  BY <1>2, <1>3

(* The flags after a subtraction order the operands, unsigned and signed. *)
LEMMA UnsignedFlags ==
  ASSUME NEW n \in 1 .. 16, NEW u \in 0 .. Modulus(n) - 1, NEW v \in 0 .. Modulus(n) - 1
  PROVE  /\ SetB(SubFlags(u, v, n)) <=> u < v
         /\ SubFlags(u, v, n).zf <=> u = v
<1> DEFINE M == Modulus(n)
           d == (u - v) % M
<1>1. M \in Nat \ {0} /\ u \in 0 .. M - 1 /\ v \in 0 .. M - 1
  <2>1. n \in 0 .. 16
    OBVIOUS
  <2> QED
    BY <2>1, Widths
<1>2. SubFlags(u, v, n).cf = (u < v) /\ SubFlags(u, v, n).zf = (d = 0)
  BY DEF SubFlags
<1>3. d = IF u >= v THEN u - v ELSE (u - v) + M
  BY DifferenceIs
<1> HIDE DEF M, d
<1>4. (d = 0) <=> u = v
  BY <1>1, <1>3
<1> QED
  BY <1>2, <1>4 DEF SetB

(* After sub, setl orders the operands as signed numbers and sete tells whether they are equal. *)
LEMMA SignedFlags ==
  ASSUME NEW n \in 1 .. 16, NEW u \in 0 .. Modulus(n) - 1, NEW v \in 0 .. Modulus(n) - 1
  PROVE  /\ SetL(SubFlags(u, v, n)) <=> Signed(u, n) < Signed(v, n)
         /\ SubFlags(u, v, n).zf <=> Signed(u, n) = Signed(v, n)
<1> DEFINE M == Modulus(n)
           H == M \div 2
           x == Signed(u, n)
           y == Signed(v, n)
           s == x - y
           d == (u - v) % M
           c == Clamp(s, n, "S")
<1>1. M \in Nat \ {0} /\ M = 2 * H /\ H \in Nat \ {0} /\ x \in -H .. H - 1 /\ y \in -H .. H - 1
      /\ u \in 0 .. M - 1 /\ v \in 0 .. M - 1
  <2>1. n \in 0 .. 16
    OBVIOUS
  <2> QED
    BY <2>1, SignedIs, Widths
<1>2. x = (IF u >= H THEN u - M ELSE u) /\ y = (IF v >= H THEN v - M ELSE v)
  BY DEF Signed
<1>3. c = IF s < -H THEN -H ELSE IF s > H - 1 THEN H - 1 ELSE s
  <2>1. Least(n, "S") = -H /\ Greatest(n, "S") = (-H) + M - 1
    BY DEF Least, Greatest
  <2> HIDE DEF M, H, s
  <2>2. Greatest(n, "S") = H - 1
    BY <1>1, <2>1
  <2> QED
    BY <2>1, <2>2 DEF Clamp
<1>4. d = IF u >= v THEN u - v ELSE (u - v) + M
  BY DifferenceIs
<1>5. Signed(d, n) = IF d >= H THEN d - M ELSE d
  BY DEF Signed
<1>6. /\ SubFlags(u, v, n).zf = (d = 0)
      /\ SubFlags(u, v, n).sf = (Signed(d, n) < 0)
      /\ SubFlags(u, v, n).of = (s # c)
  BY DEF SubFlags
<1> DEFINE e == Signed(d, n)
<1>7. e = (IF d >= H THEN d - M ELSE d)
  BY <1>5
<1>8. s = x - y
  OBVIOUS
<1> HIDE DEF M, H, x, y, s, d, c, e
<1>9. (d = 0) <=> x = y
  BY <1>1, <1>2, <1>4
<1>10. ((e < 0) # (s # c)) <=> x < y
  BY <1>1, <1>2, <1>3, <1>4, <1>7, <1>8
<1> QED
  BY <1>6, <1>9, <1>10 DEF SetL, x, y, e

(* The set<cc> that the JIT picks for a comparison is the comparison of the operands. *)
LEMMA ComparisonsAgree ==
  ASSUME NEW D, NEW m \in Machines(D), NEW i, IsInstr(i), i.op \in Comparisons, InMemory(i, m), JitSupports(i),
         ~JitDiffers(i, m)
  PROVE  Agrees(i, m)
<1>1. i.op \in Binary \ Shifts
  BY DEF Binary, Comparisons, Shifts
<1>2. PICK sign, x, y, u, v :
           /\ Takes(i, m, sign, x, y)
           /\ u = Slot(m, i.a, i.size, "U") /\ v = Slot(m, i.b, i.size, "U")
           /\ i.size \in 1 .. 16
           /\ u \in 0 .. Modulus(i.size) - 1 /\ v \in 0 .. Modulus(i.size) - 1
           /\ i.sign = "S" => x = Signed(u, i.size) /\ y = Signed(v, i.size)
           /\ i.sign = "U" => x = u /\ y = v
           /\ x \in Int /\ y \in Int
  BY <1>1, TwoOperands
<1>3. \/ i.op \in {"Lt", "LtEq"} /\ i.size = 4 /\ i.sign = "S"
      \/ i.op \in {"Lt", "LtEq"} /\ i.size = 1 /\ i.sign = "U"
  BY DEF JitSupports, Small, JitDiffers, Comparisons
<1> DEFINE lt == JitCompare(i, m)
           p == Compare(i.op, x, y)
<1>4. lt <=> p
  <2> DEFINE f == SubFlags(u, v, i.size)
  <2>1. CASE i.size = 4 /\ i.sign = "S"
    <3>1. (SetL(f) <=> x < y) /\ (f.zf <=> x = y)
      BY <1>2, <2>1, SignedFlags
    <3>2. ASSUME i.op = "Lt" PROVE (lt <=> SetL(f)) /\ (p <=> x < y)
      BY <1>2, <2>1, <3>2 DEF JitCompare, Compare
    <3>3. ASSUME i.op = "LtEq" PROVE (lt <=> SetLE(f)) /\ (SetLE(f) <=> SetL(f) \/ f.zf) /\ (p <=> x <= y) /\ (x <= y <=> x < y \/ x = y)
      BY <1>2, <2>1, <3>3 DEF JitCompare, Compare, SetLE
    <3> HIDE DEF f, lt, p
    <3> QED
      BY <1>3, <3>1, <3>2, <3>3
  <2>2. CASE i.size = 1 /\ i.sign = "U"
    <3>1. (SetB(f) <=> x < y) /\ (f.zf <=> x = y)
      BY <1>2, <2>2, UnsignedFlags
    <3>2. ASSUME i.op = "Lt" PROVE (lt <=> SetB(f)) /\ (p <=> x < y)
      BY <1>2, <2>2, <3>2 DEF JitCompare, Compare
    <3>3. ASSUME i.op = "LtEq" PROVE (lt <=> SetBE(f)) /\ (SetBE(f) <=> SetB(f) \/ f.zf) /\ (p <=> x <= y) /\ (x <= y <=> x < y \/ x = y)
      BY <1>2, <2>2, <3>3 DEF JitCompare, Compare, SetB, SetBE
    <3> HIDE DEF f, lt, p
    <3> QED
      BY <1>3, <3>1, <3>2, <3>3
  <2> QED
    BY <1>3, <2>1, <2>2
<1>5. Truth(lt) = Compared(i.op, x, y)
  <2>1. Compared(i.op, x, y) = IF p THEN 1 ELSE 0
    BY DEF Compared, Truth
  <2>2. Truth(lt) = IF lt THEN 1 ELSE 0
    BY DEF Truth
  <2> HIDE DEF lt, p
  <2> QED
    BY <1>4, <2>1, <2>2
<1> DEFINE bit == Truth(lt)
<1>6. JitExec(i, m) = Put(m, i.dst, bit, 1)
  BY JitDispatch
<1>7. Exec(i, m) = Put(m, i.dst, Compared(i.op, x, y), 1)
  BY <1>1, <1>2, BinaryArms
<1> HIDE DEF bit
<1>8. bit = Compared(i.op, x, y)
  BY <1>5 DEF bit
<1> QED
  BY <1>6, <1>7, <1>8, SameAgrees DEF Put, Goes

--------------------------------------------------------------------------------
(* The JIT: division and overflow.                                             *)

(* A quotient is as large as the dividend at most, and only if the divisor is 1. *)
LEMMA SmallQuotient ==
  ASSUME NEW a \in Nat, NEW b \in Nat \ {0}
  PROVE  a \div b \in 0 .. a /\ (a > 0 /\ b > 1 => a \div b < a)
<1> DEFINE q == a \div b
           r == a % b
<1>1. q \in Int /\ r \in 0 .. b - 1 /\ a = b * q + r
  BY DivMod
<1> HIDE DEF q, r
<1>2. q >= 0
  <2>1. CASE q <= -1
    <3>1. (-1 - q) \in Nat /\ b * (-1 - q) >= 0
      BY <1>1, <2>1
    <3>2. b * (-1 - q) = -b - b * q
      BY <1>1
    <3> QED
      BY <1>1, <3>1, <3>2
  <2> QED
    BY <1>1, <2>1
<1>3. q <= a
  <2>1. (b - 1) * q >= 0 /\ (b - 1) * q = b * q - q
    BY <1>1, <1>2
  <2> QED
    BY <1>1, <2>1
<1>4. ASSUME a > 0, b > 1 PROVE q < a
  <2>1. (b - 2) * q >= 0 /\ (b - 2) * q = b * q - 2 * q
    BY <1>1, <1>2, <1>4
  <2> QED
    BY <1>1, <1>2, <1>4, <2>1
<1> QED
  BY <1>1, <1>2, <1>3, <1>4 DEF q

(* Only the least number divided by -1 leaves the quotient's range. *)
LEMMA QuotientFits ==
  ASSUME NEW n \in 1 .. 16, NEW u \in 0 .. Modulus(n) - 1, NEW v \in 0 .. Modulus(n) - 1,
         NEW x, NEW y, x = Signed(u, n), y = Signed(v, n), y # 0, ~(x = Least(n, "S") /\ y = -1)
  PROVE  Clamp(Quotient(x, y), n, "S") = Quotient(x, y)
<1> DEFINE M == Modulus(n)
           H == M \div 2
           q == Absolute(x) \div Absolute(y)
           z == Quotient(x, y)
<1>1. M = 2 * H /\ H \in Nat \ {0} /\ x \in -H .. H - 1 /\ y \in -H .. H - 1
  BY SignedIs
<1>2. z = IF (x < 0) = (y < 0) THEN q ELSE -q
  BY DEF Quotient
<1>3. Least(n, "S") = -H /\ Greatest(n, "S") = (-H) + M - 1
  BY DEF Least, Greatest
<1>4. Absolute(x) \in Nat /\ Absolute(y) \in Nat \ {0} /\ Absolute(x) = (IF x < 0 THEN -x ELSE x)
      /\ Absolute(y) = (IF y < 0 THEN -y ELSE y)
  <2> HIDE DEF H
  <2> QED
    BY <1>1 DEF Absolute
<1> DEFINE ax == Absolute(x)
           ay == Absolute(y)
<1>5. q \in 0 .. ax /\ (ax > 0 /\ ay > 1 => q < ax)
  BY <1>4, SmallQuotient
<1> HIDE DEF M, H, z
<1>6. z \in -H .. H - 1
  <2> HIDE DEF q, ax, ay
  <2>1. ax \in 0 .. H
    BY <1>1, <1>4 DEF ax
  <2>2. q \in 0 .. H /\ z \in {q, -q}
    BY <1>1, <1>2, <1>5, <2>1
  <2>3. CASE q < H
    BY <1>1, <2>2, <2>3
  <2>4. CASE q = H
    <3>1. ax = H /\ ~(ay > 1)
      BY <1>1, <1>5, <2>1, <2>4
    <3>2. x = -H
      BY <1>1, <1>4, <3>1 DEF ax
    <3>3. y = 1
      BY <1>1, <1>3, <1>4, <3>1, <3>2 DEF ay
    <3>4. x < 0 /\ ~(y < 0)
      BY <1>1, <3>2, <3>3
    <3>5. z = -q
      BY <1>2, <3>4
    <3> QED
      BY <1>1, <2>4, <3>5
  <2> QED
    BY <1>1, <2>2, <2>3, <2>4
<1>7. Greatest(n, "S") = H - 1 /\ Least(n, "S") = -H
  BY <1>1, <1>3
<1>8. ~(z < Least(n, "S")) /\ ~(z > Greatest(n, "S"))
  BY <1>1, <1>6, <1>7
<1> QED
  BY <1>8 DEF Clamp, z

(* idiv divides and traps as the interpreter divides and panics, the overflow excepted. *)
LEMMA DivisionsAgree ==
  ASSUME NEW D, NEW m \in Machines(D), NEW i, IsInstr(i), i.op \in Divisions, InMemory(i, m), JitSupports(i),
         ~JitDiffers(i, m)
  PROVE  Agrees(i, m)
<1>1. i.op \in Binary \ Shifts
  BY DEF Binary, Divisions, Shifts
<1>2. PICK sign, x, y, u, v :
           /\ Takes(i, m, sign, x, y)
           /\ i.size \in 1 .. 16
           /\ u \in 0 .. Modulus(i.size) - 1 /\ v \in 0 .. Modulus(i.size) - 1
           /\ i.sign = "S" => x = Signed(u, i.size) /\ y = Signed(v, i.size)
           /\ x \in Int /\ y \in Int
           /\ Slot(m, i.a, i.size, "S") = Signed(u, i.size) /\ Slot(m, i.b, i.size, "S") = Signed(v, i.size)
  BY <1>1, TwoOperands
<1>3. i.size = 4 /\ i.sign = "S" /\ JitExec(i, m) = JitDivide(i, m)
  BY JitDispatch
<1>4. /\ x = Slot(m, i.a, 4, "S") /\ y = Slot(m, i.b, 4, "S")
      /\ x = Signed(u, 4) /\ y = Signed(v, 4) /\ 4 \in 1 .. 16
      /\ u \in 0 .. Modulus(4) - 1 /\ v \in 0 .. Modulus(4) - 1
  BY <1>2, <1>3
<1>5. ~(x = Least(4, "S") /\ y = -1)
  BY <1>4 DEF JitDiffers
<1> DEFINE z == Quotient(x, y)
<1>6. CASE y = 0
  <2>1. Exec(i, m) = Stops(m, "panic")
    BY <1>1, <1>2, <1>6, BinaryArms
  <2>2. JitExec(i, m) = Stops(m, "fault")
    BY <1>3, <1>4, <1>6 DEF JitDivide
  <2> QED
    BY <2>1, <2>2 DEF Agrees, Stops
<1>7. CASE y # 0
  <2> DEFINE w == IF i.op = "Div" THEN z ELSE x - y * z
  <2>1. Clamp(z, 4, "S") = z
    BY <1>4, <1>5, <1>7, QuotientFits
  <2>2. JitExec(i, m) = Put(m, i.dst, w, 4)
    BY <1>3, <1>4, <1>7, <2>1 DEF JitDivide
  <2>3. Apply(i.op, x, y, 4) = w
    BY DEF Apply, Divisions, BitOps
  <2>4. Exec(i, m) = Put(m, i.dst, Apply(i.op, x, y, 4), 4)
    BY <1>1, <1>2, <1>3, <1>7, BinaryArms
  <2> HIDE DEF w, z
  <2>5. Exec(i, m) = JitExec(i, m)
    BY <2>2, <2>3, <2>4
  <2> QED
    BY <2>2, <2>5, SameAgrees DEF Put, Goes
<1> QED
  BY <1>6, <1>7

(* The carry of an addition of bytes is its unsigned overflow. *)
LEMMA OverflowAgrees ==
  ASSUME NEW D, NEW m \in Machines(D), NEW i, IsInstr(i), i.op = "OverflowingAdd", InMemory(i, m), JitSupports(i)
  PROVE  Agrees(i, m)
<1>1. i.op \in Binary \ Shifts /\ i.op \in Overflowing
  BY DEF Binary, Overflowing, Shifts
<1>2. i.size = 1 /\ i.sign = "U" /\ JitExec(i, m) = JitArithmetic(i, m) /\ i.dst \in Nat
  BY JitDispatch, FieldsTyped DEF JitSupports, Small
<1>3. PICK sign, x, y, u, v :
           /\ Takes(i, m, sign, x, y)
           /\ u = Slot(m, i.a, i.size, "U") /\ v = Slot(m, i.b, i.size, "U")
           /\ u \in 0 .. Modulus(i.size) - 1 /\ v \in 0 .. Modulus(i.size) - 1
           /\ i.sign = "U" => x = u /\ y = v
  BY <1>1, TwoOperands
<1> DEFINE M == Modulus(1)
           z == x + y
           over == Truth(z >= M)
<1>4. M \in Nat \ {0} /\ x \in 0 .. M - 1 /\ y \in 0 .. M - 1 /\ sign = "U"
  <2>1. 1 \in 0 .. 16
    OBVIOUS
  <2> QED
    BY <1>2, <1>3, <2>1, Widths DEF Takes
<1>5. x = Slot(m, i.a, 1, "U") /\ y = Slot(m, i.b, 1, "U")
  BY <1>2, <1>3
<1>6. JitArithmetic(i, m) = Goes(Write(Write(m, At(m, i.dst), z, 1), At(m, i.dst) + 1, over, 1))
  BY <1>2, <1>5 DEF JitArithmetic, BitOps
<1>7. Apply(i.op, x, y, 1) = z
  BY DEF Apply, BitOps
<1>8. Exec(i, m) = Goes(Write(Write(m, At(m, i.dst), z, 1), At(m, i.dst + 1), Overflows(z, 1, "U"), 1))
  BY <1>1, <1>2, <1>3, <1>4, <1>7, BinaryArms
<1>9. At(m, i.dst + 1) = At(m, i.dst) + 1
  BY <1>2 DEF At, Machines
<1>10. Overflows(z, 1, "U") = over
  <2>1. Least(1, "U") = 0 /\ Greatest(1, "U") = 0 + M - 1
    BY DEF Least, Greatest
  <2> HIDE DEF M
  <2>2. Clamp(z, 1, "U") = IF z > M - 1 THEN M - 1 ELSE z
    BY <1>4, <2>1 DEF Clamp
  <2> DEFINE c == Clamp(z, 1, "U")
  <2> HIDE DEF c
  <2>3. z # c <=> z >= M
    BY <1>4, <2>2 DEF c
  <2>4. Overflows(z, 1, "U") = IF z # c THEN 1 ELSE 0
    BY DEF Overflows, Truth, c
  <2>5. over = IF z >= M THEN 1 ELSE 0
    BY DEF Truth
  <2> QED
    BY <2>3, <2>4, <2>5
<1> HIDE DEF over, z
<1>11. Exec(i, m) = JitExec(i, m)
  BY <1>2, <1>6, <1>8, <1>9, <1>10
<1> QED
  BY <1>8, <1>11, SameAgrees DEF Goes

--------------------------------------------------------------------------------
(* The JIT: widening.                                                          *)

(* Machines are the same when their bytes are. *)
Everywhere(D, w1, w2) == \A a \in D : w1.mem[a] = w2.mem[a]

(* Machines with the same frame and the same bytes are the same. *)
LEMMA SameMachine ==
  ASSUME NEW D, NEW m, NEW w1, NEW w2, SameFrame(D, m, w1), SameFrame(D, m, w2),
         Everywhere(D, w1, w2)
  PROVE  w1 = w2
<1>1. w1.mem \in [D -> Bytes] /\ w2.mem \in [D -> Bytes] /\ w1.base = w2.base
  BY DEF SameFrame, Machines
<1>2. w1.mem = w2.mem
  BY <1>1 DEF Everywhere
<1>3. w1 = [mem |-> w1.mem, base |-> w1.base] /\ w2 = [mem |-> w2.mem, base |-> w2.base]
  BY DEF SameFrame, Machines
<1> QED
  BY <1>1, <1>2, <1>3

(* The bytes above those that a number needs are its sign's. *)
LEMMA SignByte ==
  ASSUME NEW n \in 1 .. 16, NEW j \in n .. 15, NEW v \in -Modulus(n) .. Modulus(n) - 1
  PROVE  ByteAt(v, j) = IF v < 0 THEN Radix - 1 ELSE 0
<1> DEFINE M == Modulus(j)
           N == Modulus(n)
           R == Radix
<1>1. M \in Nat \ {0} /\ N \in Nat \ {0} /\ R \in Nat \ {0, 1} /\ v \in -N .. N - 1
  <2>1. j \in 0 .. 16 /\ n \in 0 .. 16
    OBVIOUS
  <2> QED
    BY <2>1, Widths
<1>2. N <= M
  <2>1. j - n \in Nat /\ n \in Nat /\ n + (j - n) = j /\ n + (j - n) <= 16 /\ j - n \in 0 .. 16
    OBVIOUS
  <2> DEFINE k == j - n
  <2> HIDE DEF k
  <2>2. Modulus(n + k) = Modulus(n) * Modulus(k)
    BY <2>1, ModulusSum DEF k
  <2>3. M = N * Modulus(k) /\ Modulus(k) \in Nat \ {0}
    BY <2>1, <2>2, Widths DEF k
  <2> HIDE DEF M, N
  <2> QED
    BY <1>1, <2>3
<1>3. ByteAt(v, j) = ((v \div M) % R)
  BY DEF ByteAt
<1> HIDE DEF M, N, R
<1>4. CASE v >= 0
  <2>1. v \in 0 .. M - 1 /\ M * 0 + v = v /\ 0 \in Int
    BY <1>1, <1>2, <1>4
  <2>2. (M * 0 + v) \div M = 0
    BY <1>1, <2>1, Unique
  <2>3. v \div M = 0
    BY <2>1, <2>2
  <2>4. 0 \in 0 .. R - 1 /\ R * 0 + 0 = 0
    BY <1>1
  <2>5. ((R * 0 + 0) % R) = 0
    BY <1>1, <2>1, <2>4, Unique
  <2>6. ~(v < 0)
    BY <1>1, <1>4
  <2>7. (0 % R) = 0
    BY <2>4, <2>5
  <2> QED
    BY <1>3, <2>3, <2>6, <2>7
<1>5. CASE v < 0
  <2>1. v + M \in 0 .. M - 1 /\ M * (-1) + (v + M) = v /\ -1 \in Int
    BY <1>1, <1>2, <1>5
  <2>2. (M * (-1) + (v + M)) \div M = -1
    BY <1>1, <2>1, Unique
  <2>3. v \div M = -1
    BY <2>1, <2>2
  <2>4. R - 1 \in 0 .. R - 1 /\ R * (-1) + (R - 1) = -1
    BY <1>1
  <2>5. ((R * (-1) + (R - 1)) % R) = R - 1
    BY <1>1, <2>1, <2>4, Unique
  <2>6. ((-1) % R) = R - 1
    BY <2>4, <2>5
  <2> QED
    BY <1>3, <1>5, <2>3, <2>6 DEF R
<1> QED
  BY <1>1, <1>4, <1>5

(* The bytes of a sign-extended number. *)
LEMMA ExtendedBytes ==
  ASSUME NEW D, NEW m \in Machines(D), NEW slot \in Nat, NEW n \in 1 .. 16, Mapped(m, At(m, slot), n),
         NEW sign \in {"S", "U"}, NEW x, x = Slot(m, slot, n, sign), NEW j \in 0 .. 15
  PROVE  ByteAt(x, j) = IF j < n THEN m.mem[At(m, slot) + j] ELSE IF x < 0 THEN Radix - 1 ELSE 0
<1> DEFINE u == Slot(m, slot, n, "U")
           M == Modulus(n)
           addr == At(m, slot)
<1>1. u \in 0 .. M - 1 /\ x \in Int /\ (x % M) = u /\ Slot(m, slot, n, "S") = Signed(u, n) /\ addr \in Int
  BY SlotIs
<1>2. u = Unsigned(m, addr, n)
  BY DEF Slot, Unsigned
<1>3. \A k \in 0 .. n - 1 : ByteAt(u, k) = m.mem[addr + k]
  <2> HIDE DEF addr
  <2>1. Mapped(m, addr, n)
    BY DEF addr
  <2> HIDE DEF u
  <2> QED
    BY <1>1, <1>2, <2>1, ReadIs
<1>4. CASE j < n
  <2>1. j \in 0 .. n - 1
    BY <1>4
  <2>2. ByteAt(x % M, j) = ByteAt(x, j)
    BY <1>1, <2>1, ByteOfMod
  <2>3. ByteAt(u, j) = m.mem[addr + j]
    BY <1>3, <2>1
  <2> HIDE DEF u, M, addr
  <2> QED
    BY <1>1, <1>4, <2>2, <2>3 DEF addr
<1>5. CASE ~(j < n)
  <2>1. x \in -M .. M - 1
    <3>1. Signed(u, n) \in -(M \div 2) .. (M \div 2) - 1 /\ M = 2 * (M \div 2) /\ M \div 2 \in Nat \ {0}
      BY <1>1, SignedIs
    <3>2. x = u \/ x = Signed(u, n)
      BY <1>1
    <3> DEFINE H == M \div 2
               s == Signed(u, n)
    <3>3. s \in -H .. H - 1 /\ M = 2 * H /\ H \in Nat \ {0} /\ (x = u \/ x = s)
      BY <3>1, <3>2
    <3> HIDE DEF H, M, u, s
    <3> QED
      BY <1>1, <3>3
  <2>2. j \in n .. 15
    BY <1>5
  <2> HIDE DEF M
  <2>3. ByteAt(x, j) = IF x < 0 THEN Radix - 1 ELSE 0
    BY <2>1, <2>2, SignByte DEF M
  <2> QED
    BY <1>5, <2>3
<1> QED
  BY <1>4, <1>5

(* movsx with sar, and movzx, extend as write_widen does. *)
LEMMA WidensAgree ==
  ASSUME NEW D \in SUBSET Int, NEW m \in Machines(D), NEW i, IsInstr(i), i.op = "Widen", InMemory(i, m), JitSupports(i)
  PROVE  Agrees(i, m)
<1> DEFINE A == At(m, i.dst)
           B == At(m, i.a)
<1>1. /\ JitExec(i, m) = JitWiden(i, m) /\ i.a \in Nat /\ A \in Int /\ B \in Int
      /\ \/ i.size = 16 /\ i.n = 4 /\ i.sign = "S"
         \/ i.size = 8 /\ i.n = 1 /\ i.sign = "U"
  BY JitDispatch, FieldsTyped DEF At, Machines
<1>2. Mapped(m, B, i.n)
  BY FrameMapped
<1>3. PICK w, fill :
           /\ Exec(i, m) = Goes(w) /\ SameFrame(D, m, w)
           /\ fill = (IF i.sign = "S" /\ Slot(m, i.a, i.n, "S") < 0 THEN Radix - 1 ELSE 0)
           /\ \A t \in D : w.mem[t] = IF t - A \in 0 .. i.size - 1
                                      THEN IF t - A < i.n THEN m.mem[B + (t - A)] ELSE fill
                                      ELSE m.mem[t]
  <2>1. Exec(i, m) = ExecWiden(i, m)
    BY Dispatch DEF Unimplemented
  <2>2. \E w, fill :
           /\ ExecWiden(i, m) = Goes(w) /\ SameFrame(D, m, w)
           /\ fill = (IF i.sign = "S" /\ Slot(m, i.a, i.n, "S") < 0 THEN Radix - 1 ELSE 0)
           /\ \A t \in D : w.mem[t] = IF t - A \in 0 .. i.size - 1
                                      THEN IF t - A < i.n THEN m.mem[B + (t - A)] ELSE fill
                                      ELSE m.mem[t]
    BY WidenIs
  <2> QED
    BY <2>1, <2>2
<1>4. \A t \in D : t \in Int
  OBVIOUS
<1>5. CASE i.size = 16 /\ i.n = 4 /\ i.sign = "S"
  <2> DEFINE x == Slot(m, i.a, 4, "S")
             high == IF x < 0 THEN -1 ELSE 0
             low == Write(m, A, x, 8)
             jit == Write(low, A + 8, high, 8)
  <2>1. JitExec(i, m) = Goes(jit)
    BY <1>1, <1>5 DEF JitWiden
  <2>2. x \in Int /\ high \in Int /\ 4 \in 1 .. 16 /\ 8 \in 0 .. 16 /\ A + 8 \in Int
    BY <1>1, <1>2, <1>5, SlotIs
  <2>3. \A j \in 0 .. 15 : ByteAt(x, j) = IF j < 4 THEN m.mem[B + j] ELSE fill
    <3>1. fill = IF x < 0 THEN Radix - 1 ELSE 0
      BY <1>3, <1>5
    <3>2. ASSUME NEW j \in 0 .. 15
          PROVE  ByteAt(x, j) = IF j < 4 THEN m.mem[B + j] ELSE IF x < 0 THEN Radix - 1 ELSE 0
      BY <1>1, <1>2, <1>5, <2>2, ExtendedBytes
    <3> HIDE DEF x
    <3> QED
      BY <3>1, <3>2
  <2>4. \A j \in 0 .. 7 : ByteAt(high, j) = fill
    <3>1. Modulus(0) = 1 /\ Radix \in Nat \ {0, 1} /\ Modulus(1) = Radix
      BY Widths
    <3>2. fill = IF high < 0 THEN Radix - 1 ELSE 0
      BY <1>3, <1>5, <2>2
    <3>3. \A j \in 1 .. 15 : ByteAt(high, j) = IF high < 0 THEN Radix - 1 ELSE 0
      <4>1. high \in -Modulus(1) .. Modulus(1) - 1 /\ 1 \in 1 .. 16
        BY <3>1
      <4> HIDE DEF high
      <4> QED
        BY <4>1, SignByte
    <3>4. ByteAt(high, 0) = (high % Radix)
      <4>1. high \div 1 = high
        BY <2>2
      <4> QED
        BY <3>1, <4>1 DEF ByteAt
    <3>5. (high % Radix) = IF high < 0 THEN Radix - 1 ELSE 0
      <4> DEFINE R == Radix
      <4>1. R \in Nat \ {0, 1} /\ high \in {0, -1}
        BY <3>1
      <4> HIDE DEF R, high
      <4>2. R - 1 \in 0 .. R - 1 /\ R * (-1) + (R - 1) = -1 /\ -1 \in Int /\ 0 \in 0 .. R - 1 /\ R * 0 + 0 = 0 /\ 0 \in Int
        BY <4>1
      <4>3. ((R * (-1) + (R - 1)) % R) = R - 1 /\ ((R * 0 + 0) % R) = 0
        BY <4>1, <4>2, Unique
      <4>4. ((-1) % R) = R - 1 /\ (0 % R) = 0
        BY <4>2, <4>3
      <4>5. (high % R) = IF high < 0 THEN R - 1 ELSE 0
        BY <4>1, <4>4
      <4> QED
        BY <4>5 DEF R
    <3> HIDE DEF high
    <3> QED
      BY <3>2, <3>3, <3>4, <3>5
  <2> HIDE DEF x, high, A, B
  <2>5. /\ SameFrame(D, m, low)
        /\ \A t \in D : low.mem[t] = IF t - A \in 0 .. 8 - 1 THEN ByteAt(x, t - A) ELSE m.mem[t]
    BY <1>1, <2>2, WriteIs
  <2>6. low \in Machines(D)
    BY <2>5 DEF SameFrame
  <2> HIDE DEF low
  <2>7. /\ SameFrame(D, low, jit)
        /\ \A t \in D : jit.mem[t] = IF t - (A + 8) \in 0 .. 8 - 1 THEN ByteAt(high, t - (A + 8)) ELSE low.mem[t]
    BY <2>2, <2>6, WriteIs
  <2> HIDE DEF jit
  <2>8. SameFrame(D, m, jit)
    BY <2>5, <2>7 DEF SameFrame
  <2>9. ASSUME NEW t \in D PROVE w.mem[t] = jit.mem[t]
    <3> DEFINE j == t - A
    <3>1. j \in Int /\ t - (A + 8) = j - 8
      BY <1>1, <1>4
    <3>2. w.mem[t] = IF j \in 0 .. 15 THEN IF j < 4 THEN m.mem[B + j] ELSE fill ELSE m.mem[t]
      BY <1>3, <1>5
    <3>3. jit.mem[t] = IF j - 8 \in 0 .. 7 THEN ByteAt(high, j - 8)
                       ELSE IF j \in 0 .. 7 THEN ByteAt(x, j) ELSE m.mem[t]
      BY <2>5, <2>7, <3>1
    <3> HIDE DEF j
    <3>4. CASE j \in 8 .. 15
      BY <2>4, <3>2, <3>3, <3>4
    <3>5. CASE j \in 0 .. 7
      BY <2>3, <3>2, <3>3, <3>5
    <3>6. CASE j \notin 0 .. 15
      BY <3>1, <3>2, <3>3, <3>6
    <3> QED
      BY <3>1, <3>4, <3>5, <3>6
  <2>10. SameFrame(D, m, w) /\ Everywhere(D, w, jit)
    BY <1>3, <2>9 DEF Everywhere
  <2>11. w = jit
    BY <2>8, <2>10, SameMachine
  <2> QED
    BY <1>3, <2>1, <2>11, SameAgrees DEF Goes
<1>6. CASE i.size = 8 /\ i.n = 1 /\ i.sign = "U"
  <2> DEFINE x == Slot(m, i.a, 1, "U")
             jit == Write(m, A, x, 8)
  <2>1. JitExec(i, m) = Goes(jit)
    BY <1>1, <1>6 DEF JitWiden, Put
  <2>2. x \in Nat /\ x \in Int /\ 1 \in 1 .. 16 /\ 8 \in 0 .. 16 /\ fill = 0
    <3>1. x \in 0 .. Modulus(1) - 1
      BY <1>1, <1>2, <1>6, SlotIs
    <3> HIDE DEF x
    <3> QED
      BY <1>3, <1>6, <3>1
  <2>3. \A j \in 0 .. 7 : ByteAt(x, j) = IF j < 1 THEN m.mem[B + j] ELSE 0
    <3>1. ASSUME NEW j \in 0 .. 15
          PROVE  ByteAt(x, j) = IF j < 1 THEN m.mem[B + j] ELSE IF x < 0 THEN Radix - 1 ELSE 0
      BY <1>1, <1>2, <1>6, <2>2, ExtendedBytes
    <3> HIDE DEF x
    <3>2. ~(x < 0)
      BY <2>2
    <3> QED
      BY <3>1, <3>2
  <2> HIDE DEF x, A, B
  <2>4. /\ SameFrame(D, m, jit)
        /\ \A t \in D : jit.mem[t] = IF t - A \in 0 .. 8 - 1 THEN ByteAt(x, t - A) ELSE m.mem[t]
    <3>1. x \in Int /\ 8 \in 0 .. 16 /\ A \in Int
      BY <1>1, <2>2
    <3> QED
      BY <3>1, WriteIs
  <2> HIDE DEF jit
  <2>5. ASSUME NEW t \in D PROVE w.mem[t] = jit.mem[t]
    <3> DEFINE j == t - A
    <3>1. w.mem[t] = IF j \in 0 .. 7 THEN IF j < 1 THEN m.mem[B + j] ELSE 0 ELSE m.mem[t]
      BY <1>3, <1>6, <2>2
    <3>2. jit.mem[t] = IF j \in 0 .. 7 THEN ByteAt(x, j) ELSE m.mem[t]
      <4>1. 8 - 1 = 7
        OBVIOUS
      <4>2. jit.mem[t] = IF j \in 0 .. 8 - 1 THEN ByteAt(x, j) ELSE m.mem[t]
        BY <2>4
      <4> QED
        BY <4>1, <4>2
    <3> HIDE DEF j
    <3> QED
      BY <2>3, <3>1, <3>2
  <2>6. SameFrame(D, m, w) /\ Everywhere(D, w, jit)
    BY <1>3, <2>5 DEF Everywhere
  <2>7. w = jit
    BY <2>4, <2>6, SameMachine
  <2> QED
    BY <1>3, <2>1, <2>7, SameAgrees DEF Goes
<1> QED
  BY <1>1, <1>5, <1>6

(* For every operand, every memory, and bytes of any width: the machine code that
   simple_jit.rs emits for an instruction leaves what the arm of the interpreter leaves
   and goes on where it goes on, outside the operands that JitDiffers names. *)
THEOREM InstructionAgrees ==
  ASSUME NEW D \in SUBSET Int, NEW m \in Machines(D), NEW i, IsInstr(i), InMemory(i, m), JitSupports(i),
         ~JitDiffers(i, m)
  PROVE  Agrees(i, m)
<1>1. CASE i.op \in {"Const", "SlotAddr", "PointerOffset2"}
  BY <1>1, PutsAgree
<1>2. CASE i.op \in {"Neg", "Not"}
  BY <1>2, NotAgrees
<1>3. CASE i.op = "BoolNot"
  BY <1>3, BoolNotAgrees
<1>4. CASE i.op = "Widen"
  BY <1>4, WidensAgree
<1>5. CASE i.op \in Comparisons
  BY <1>5, ComparisonsAgree
<1>6. CASE i.op \in Divisions
  BY <1>6, DivisionsAgree
<1>7. CASE i.op \in Moves \cup BulkMoves
  BY <1>7, MovesAgree
<1>8. CASE i.op \in Control
  BY <1>8, ControlAgrees
<1>9. CASE i.op \in {"Add", "Sub", "Mul"} \cup BitOps
  BY <1>9, SumsAgree
<1>10. CASE i.op \in {"ShiftL", "ShiftR"}
  BY <1>10, ShiftsAgree DEF Shifts
<1>11. CASE i.op = "OverflowingAdd"
  BY <1>11, OverflowAgrees
<1> QED
  BY <1>1, <1>2, <1>3, <1>4, <1>5, <1>6, <1>7, <1>8, <1>9, <1>10, <1>11, JitOperations

(* A machine in order meets only instructions that the JIT agrees on. *)
LEMMA MachineAgrees ==
  ASSUME MachineOK
  PROVE  JitAgrees
<1>1. Ready /\ Addresses \in SUBSET Int
  BY RunningReady DEF Addresses
<1>2. /\ IsInstr(Current) /\ machine \in Machines(Addresses)
      /\ Current = code[Frame.fn][Frame.pc] /\ Frame.pc \in 1 .. Len(code[Frame.fn])
  BY <1>1 DEF Ready
<1>3. ASSUME JitCompiles(code[Frame.fn]), InMemory(Current, machine), ~JitDiffers(Current, machine)
      PROVE  Agrees(Current, machine)
  <2>1. JitSupports(Current)
    BY <1>2, <1>3 DEF JitCompiles
  <2> QED
    BY <1>1, <1>2, <1>3, <2>1, InstructionAgrees
<1> QED
  BY <1>3 DEF JitAgrees, Agrees

(* Whatever well-formed bytecode runs, and wherever it has come to: the machine code of
   a function that the JIT accepts does what its bytecode does next. *)
THEOREM JitDoesAgree == RunsLoadable /\ Running => []JitAgrees
<1>1. RunsLoadable /\ Running => []MachineOK
  BY MachineIsOK
<1>2. MachineOK => JitAgrees
  BY MachineAgrees
<1> QED
  BY <1>1, <1>2, PTL
================================================================================
